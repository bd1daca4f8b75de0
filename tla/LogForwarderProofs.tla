------------------------- MODULE LogForwarderProofs -------------------------
(***************************************************************************)
(* Proofs about LogForwarder, for every finite set of events, every set of *)
(* workers, every queue size and every batch limit.                        *)
(***************************************************************************)
EXTENDS LogForwarder, FiniteSetTheorems, TLAPS

\* The part of TypeOK the proofs need.
ControlOK ==
  /\ pc \in [Event -> {"new", "send", "done"}]
  /\ queue \in Seq(Event)
  /\ closed \in BOOLEAN
  /\ wpc \in [Worker -> {"select", "flush", "lastFlush", "post", "lastPost", "exited"}]
  /\ batch \in [Worker -> Seq(Event)]
  /\ closer \in {"open", "waiting", "draining", "returned"}

\* The queue is closed by Close and by nobody else.
ClosedByClose == closed <=> closer # "open"

\* A worker leaves its loop only when the queue is closed and empty.
Leaving == {"lastFlush", "lastPost", "exited"}
LeavesDrained == \A w \in Worker : wpc[w] \in Leaving => Drained

\* It exits with an empty batch.
ExitsEmpty == \A w \in Worker : wpc[w] = "exited" => batch[w] = <<>>

\* Close returns when all workers have exited, and none of them comes back.
ReturnsLast == closer = "returned" => \A w \in Worker : wpc[w] = "exited"

IInv ==
  /\ ControlOK /\ ClosedByClose /\ NoSendOnClosed
  /\ LeavesDrained /\ ExitsEmpty /\ ReturnsLast

-----------------------------------------------------------------------------
LEMMA InitInv == Init => IInv
<1> SUFFICES ASSUME Init PROVE IInv
  BY Zenon
<1>1. ControlOK
  <2>1. queue \in Seq(Event) /\ batch \in [Worker -> Seq(Event)]
    <3>1. <<>> \in Seq(Event)
      OBVIOUS
    <3> QED
      BY <3>1, Zenon DEF Init
  <2>2. pc \in [Event -> {"new", "send", "done"}]
    BY Zenon DEF Init
  <2>3. wpc \in [Worker -> {"select", "flush", "lastFlush", "post", "lastPost", "exited"}]
    BY Zenon DEF Init
  <2>4. closed \in BOOLEAN /\ closer \in {"open", "waiting", "draining", "returned"}
    BY Zenon DEF Init
  <2> QED
    BY <2>1, <2>2, <2>3, <2>4, Zenon DEF ControlOK
<1>2. ClosedByClose /\ NoSendOnClosed /\ ReturnsLast
  BY Zenon DEF Init, ClosedByClose, NoSendOnClosed, ReturnsLast
<1>3. LeavesDrained /\ ExitsEmpty
  BY Zenon DEF Init, LeavesDrained, Leaving, ExitsEmpty
<1> QED
  BY <1>1, <1>2, <1>3, Zenon DEF IInv

\* A caller that may send holds mu for reading, so that the queue is open and
\* no worker has left.
LEMMA EnqueueInv ==
  ASSUME IInv, NEW e \in Event, EnqueueBegin(e) \/ EnqueueSend(e)
  PROVE  IInv'
<1>1. CASE EnqueueBegin(e)
  BY <1>1, Zenon
     DEF IInv, ControlOK, ClosedByClose, NoSendOnClosed, LeavesDrained, ExitsEmpty, ReturnsLast,
         Drained, EnqueueBegin, worker
<1>2. CASE EnqueueSend(e)
  <2>1. ~closed /\ closed' = closed /\ closer' = closer /\ wpc' = wpc /\ batch' = batch
    BY <1>2, Zenon DEF IInv, NoSendOnClosed, EnqueueSend, worker
  <2>2. queue' \in Seq(Event)
    <3>1. queue' = queue \/ queue' = Append(queue, e)
      BY <1>2, Zenon DEF EnqueueSend
    <3>2. queue \in Seq(Event) /\ Append(queue, e) \in Seq(Event)
      BY DEF IInv, ControlOK
    <3> QED
      BY <3>1, <3>2, Zenon
  <2>3. pc' = [pc EXCEPT ![e] = "done"]
    BY <1>2, Zenon DEF EnqueueSend
  <2>4. \A w \in Worker : wpc[w] \notin Leaving
    BY <2>1, Zenon DEF IInv, LeavesDrained, Drained
  <2> QED
    BY <2>1, <2>2, <2>3, <2>4, Zenon
       DEF IInv, ControlOK, ClosedByClose, NoSendOnClosed, LeavesDrained, ExitsEmpty, ReturnsLast
<1> QED
  BY <1>1, <1>2, Zenon

\* What a step of one worker must keep for the invariant to hold.
LEMMA WorkerKeeps ==
  ASSUME IInv, NEW w \in Worker,
         UNCHANGED <<pc, closed, closer>>, wpc[w] # "exited",
         queue' \in Seq(Event), queue = <<>> => queue' = <<>>,
         NEW to \in {"select", "flush", "lastFlush", "post", "lastPost", "exited"},
         wpc' = [wpc EXCEPT ![w] = to],
         NEW b \in Seq(Event), batch' = [batch EXCEPT ![w] = b],
         to \in Leaving => Drained, to = "exited" => b = <<>>
  PROVE  IInv'
<1>1. ControlOK' /\ ClosedByClose' /\ NoSendOnClosed'
  BY Zenon DEF IInv, ControlOK, ClosedByClose, NoSendOnClosed
<1>2. LeavesDrained'
  BY Zenon DEF IInv, ControlOK, LeavesDrained, Drained
<1>3. ExitsEmpty'
  BY Zenon DEF IInv, ControlOK, ExitsEmpty
<1>4. ReturnsLast'
  BY Zenon DEF IInv, ReturnsLast
<1> QED
  BY <1>1, <1>2, <1>3, <1>4, Zenon DEF IInv

LEMMA WorkerInv ==
  ASSUME IInv, NEW w \in Worker, WorkerStep(w)
  PROVE  IInv'
<1> USE DEF Leaving
<1>0. /\ wpc \in [Worker -> {"select", "flush", "lastFlush", "post", "lastPost", "exited"}]
      /\ batch \in [Worker -> Seq(Event)] /\ queue \in Seq(Event)
      /\ wpc[w] \in Leaving => Drained
      /\ batch[w] \in Seq(Event)
  BY Zenon DEF IInv, ControlOK, LeavesDrained
<1>1. CASE WorkerReceive(w)
  <2>1. /\ Head(queue) \in Event /\ Tail(queue) \in Seq(Event) /\ queue # <<>>
        /\ Append(batch[w], Head(queue)) \in Seq(Event)
    BY <1>0, <1>1 DEF WorkerReceive
  <2>2. \E to \in {"select", "flush"} : wpc' = [wpc EXCEPT ![w] = to]
    BY <1>0, <1>1, Zenon DEF WorkerReceive
  <2>3. /\ wpc[w] # "exited" /\ queue' = Tail(queue) /\ UNCHANGED <<pc, closed, closer>>
        /\ batch' = [batch EXCEPT ![w] = Append(batch[w], Head(queue))]
    BY <1>0, <1>1, Zenon DEF WorkerReceive
  <2> QED
    BY <2>1, <2>2, <2>3, WorkerKeeps, Zenon
<1>2. CASE WorkerTimeout(w)
  <2>1. \E to \in {"select", "flush"} : wpc' = [wpc EXCEPT ![w] = to]
    BY <1>2, Zenon DEF WorkerTimeout
  <2>2. /\ wpc[w] # "exited" /\ UNCHANGED <<pc, queue, closed, closer>>
        /\ batch' = [batch EXCEPT ![w] = batch[w]]
    BY <1>0, <1>2, Zenon DEF WorkerTimeout, producer
  <2> QED
    BY <1>0, <2>1, <2>2, WorkerKeeps, Zenon
<1>3. CASE WorkerDrained(w)
  <2>1. /\ Drained /\ LastFlush(w) \in {"lastFlush", "exited"}
        /\ LastFlush(w) = "exited" => batch[w] = <<>>
        /\ wpc' = [wpc EXCEPT ![w] = LastFlush(w)]
    BY <1>3, Zenon DEF WorkerDrained, LastFlush
  <2>2. /\ wpc[w] # "exited" /\ UNCHANGED <<pc, queue, closed, closer>>
        /\ batch' = [batch EXCEPT ![w] = batch[w]]
    BY <1>0, <1>3, Zenon DEF WorkerDrained, producer
  <2> QED
    BY <1>0, <2>1, <2>2, WorkerKeeps, Zenon
<1>4. CASE Flushed(w) /\ wpc[w] \in {"flush", "lastFlush", "post", "lastPost"}
           /\ UNCHANGED <<pc, queue, closed, closer>>
  <2>1. batch' = [batch EXCEPT ![w] = <<>>] /\ <<>> \in Seq(Event)
    BY <1>4 DEF Flushed, BatchReset
  <2>2. \E to \in {"select", "exited"} :
          wpc' = [wpc EXCEPT ![w] = to] /\ (to = "exited" => Drained)
    BY <1>0, <1>4, Zenon DEF Flushed
  <2> QED
    BY <1>0, <1>4, <2>1, <2>2, WorkerKeeps, Zenon
<1>5. CASE SendBegin(w)
  <2>1. CASE cancelled
    BY <1>4, <1>5, <2>1, Zenon DEF SendBegin
  <2>2. CASE ~cancelled
    <3>1. \E to \in {"post", "lastPost"} :
            wpc' = [wpc EXCEPT ![w] = to] /\ (to = "lastPost" => Drained)
      BY <1>0, <1>5, <2>2, Zenon DEF SendBegin
    <3>2. /\ wpc[w] # "exited" /\ UNCHANGED <<pc, queue, closed, closer>>
          /\ batch' = [batch EXCEPT ![w] = batch[w]]
      BY <1>0, <1>5, <2>2, Zenon DEF SendBegin
    <3> QED
      BY <1>0, <3>1, <3>2, WorkerKeeps, Zenon
  <2> QED
    BY <2>1, <2>2, Zenon
<1>6. CASE PostAcked(w)
  BY <1>4, <1>6, Zenon DEF PostAcked, producer
<1>7. CASE PostFailed(w)
  BY <1>4, <1>7, Zenon DEF PostFailed
<1> QED
  BY <1>1, <1>2, <1>3, <1>5, <1>6, <1>7, Zenon DEF WorkerStep

\* mu.Lock waits for the readers; Close returns after the last worker.
LEMMA CloseInv ==
  ASSUME IInv, CloseQueue \/ ShutdownTimeout \/ WorkersDone
  PROVE  IInv'
<1>1. CASE CloseQueue
  BY <1>1, Zenon
     DEF IInv, ControlOK, ClosedByClose, NoSendOnClosed, LeavesDrained, ExitsEmpty, ReturnsLast,
         Drained, CloseQueue, NoReaders, producer, worker
<1>2. CASE ShutdownTimeout
  BY <1>2, Zenon
     DEF IInv, ControlOK, ClosedByClose, NoSendOnClosed, LeavesDrained, ExitsEmpty, ReturnsLast,
         Drained, ShutdownTimeout, producer, worker
<1>3. CASE WorkersDone
  BY <1>3, Zenon
     DEF IInv, ControlOK, ClosedByClose, NoSendOnClosed, LeavesDrained, ExitsEmpty, ReturnsLast,
         Drained, WorkersDone, producer, worker
<1> QED
  BY <1>1, <1>2, <1>3, Zenon

LEMMA StepInv == IInv /\ [Next]_vars => IInv'
<1> SUFFICES ASSUME IInv, [Next]_vars PROVE IInv'
  BY Zenon
<1>1. ASSUME NEW w \in Worker, TimerTick(w) PROVE IInv'
  BY <1>1, Zenon
     DEF IInv, ControlOK, ClosedByClose, NoSendOnClosed, LeavesDrained, ExitsEmpty, ReturnsLast,
         Drained, TimerTick, producer
<1>2. CASE UNCHANGED vars
  BY <1>2, Zenon
     DEF IInv, ControlOK, ClosedByClose, NoSendOnClosed, LeavesDrained, ExitsEmpty, ReturnsLast,
         Drained, vars, worker
<1> QED
  BY <1>1, <1>2, EnqueueInv, WorkerInv, CloseInv, Zenon DEF Next

-----------------------------------------------------------------------------
\* No event is sent on the queue after Close has closed it: enqueue sends under
\* mu held for reading, after a look at closed, and Close sets closed under mu.
THEOREM NeverSendsOnClosed == Spec => []NoSendOnClosed
<1>1. IInv => NoSendOnClosed
  BY Zenon DEF IInv
<1> QED
  BY <1>1, InitInv, StepInv, PTL DEF Spec

LEMMA InvLeavesNothing == IInv => NothingLeft
<1> SUFFICES ASSUME IInv, closer = "returned"
             PROVE  queue = <<>> /\ \A w \in Worker : batch[w] = <<>>
  BY Zenon DEF NothingLeft
<1>1. \A w \in Worker : wpc[w] = "exited"
  BY Zenon DEF IInv, ReturnsLast
<1>2. PICK w \in Worker : TRUE
  BY ForwarderAssumption, Zenon
<1> QED
  BY <1>1, <1>2, Zenon DEF IInv, LeavesDrained, Leaving, Drained, ExitsEmpty

\* When Close returns, nothing is left in the queue or in a batch: every event
\* enqueue took has been acknowledged or counted as dropped, whether or not the
\* shutdown timeout expired before.
THEOREM CloseLeavesNothing == Spec => []NothingLeft
  BY InvLeavesNothing, InitInv, StepInv, PTL DEF Spec

-----------------------------------------------------------------------------
(* Where the events are: a second invariant. *)

Distinct(s) == \A i, j \in 1..Len(s) : s[i] = s[j] => i = j

Queued == ToSet(queue)
Batched(w) == ToSet(batch[w])
Finished == acked \cup lost \cup refused

\* No event is twice in the queue or in a batch.
Once == Distinct(queue) /\ \A w \in Worker : Distinct(batch[w])

\* Past enqueue, an event is in the queue, in one batch, or finished in one way.
Apart ==
  \A e \in Event :
    /\ pc[e] # "done" => e \notin Queued /\ e \notin Finished /\ \A w \in Worker : e \notin Batched(w)
    /\ pc[e] = "done" => e \in Queued \/ e \in Finished \/ \E w \in Worker : e \in Batched(w)
    /\ e \in Queued => e \notin Finished /\ \A w \in Worker : e \notin Batched(w)
    /\ \A w \in Worker : e \in Batched(w) =>
          e \notin Finished /\ \A v \in Worker \ {w} : e \notin Batched(v)
    /\ e \in acked => e \notin lost /\ e \notin refused
    /\ e \in lost => e \notin refused

\* Payloads above the limit do not get past enqueue.
Sizes == \A e \in Event : pc[e] = "send" \/ e \in Queued => Size[e] <= MaxPayload

\* A batch that is being filled is not full.
Limits ==
  \A w \in Worker :
    /\ Len(batch[w]) <= MaxEntries /\ length[w] <= MaxBatchBytes + MaxPayload
    /\ wpc[w] = "select" => Len(batch[w]) < MaxEntries /\ length[w] < MaxBatchBytes

Counted == dropped = Cardinality(lost)

\* The part of TypeOK that IInv leaves.
RestOK ==
  /\ Len(queue) <= QueueSize
  /\ cancelled \in BOOLEAN
  /\ dropped \in Nat
  /\ length \in [Worker -> Nat]
  /\ active \in [Worker -> BOOLEAN]
  /\ timer \in [Worker -> {"idle", "armed", "fired"}]
  /\ acked \subseteq Event /\ lost \subseteq Event /\ refused \subseteq Event

AInv == RestOK /\ Once /\ Apart /\ Sizes /\ Limits /\ Counted

\* Sequences without repetition.
LEMMA AppendDistinct ==
  ASSUME NEW s \in Seq(Event), NEW e \in Event, Distinct(s), e \notin ToSet(s)
  PROVE  /\ Append(s, e) \in Seq(Event) /\ Len(Append(s, e)) = Len(s) + 1
         /\ Distinct(Append(s, e)) /\ ToSet(Append(s, e)) = ToSet(s) \cup {e}
<1>1. /\ Append(s, e) \in Seq(Event) /\ Len(Append(s, e)) = Len(s) + 1
      /\ DOMAIN Append(s, e) = 1..(Len(s) + 1) /\ DOMAIN s = 1..Len(s) /\ Len(s) \in Nat
      /\ \A i \in 1..Len(s) : Append(s, e)[i] = s[i]
      /\ Append(s, e)[Len(s) + 1] = e
  OBVIOUS
<1>2. Distinct(Append(s, e))
  BY <1>1 DEF Distinct, ToSet
<1>3. ToSet(Append(s, e)) = ToSet(s) \cup {e}
  BY <1>1 DEF ToSet
<1> QED
  BY <1>1, <1>2, <1>3, Zenon

LEMMA TailDistinct ==
  ASSUME NEW s \in Seq(Event), Distinct(s), s # <<>>
  PROVE  /\ Tail(s) \in Seq(Event) /\ Len(Tail(s)) = Len(s) - 1 /\ Head(s) \in Event
         /\ Distinct(Tail(s)) /\ Head(s) \in ToSet(s)
         /\ ToSet(Tail(s)) = ToSet(s) \ {Head(s)}
<1> DEFINE t == Tail(s)
<1>1. /\ t \in Seq(Event) /\ Len(t) = Len(s) - 1 /\ Len(s) \in Nat \ {0}
      /\ DOMAIN t = 1..Len(t) /\ DOMAIN s = 1..Len(s)
      /\ \A i \in 1..Len(t) : t[i] = s[i + 1]
      /\ Head(s) = s[1] /\ Head(s) \in Event
  OBVIOUS
<1> HIDE DEF t
<1>2. Distinct(t)
  BY <1>1 DEF Distinct
<1>3. Head(s) \in ToSet(s)
  BY <1>1 DEF ToSet
<1>4. ToSet(t) \subseteq ToSet(s) \ {Head(s)}
  BY <1>1 DEF ToSet, Distinct
<1>5. ASSUME NEW e \in ToSet(s), e # Head(s) PROVE e \in ToSet(t)
  <2>1. PICK i \in 1..Len(s) : e = s[i]
    BY <1>1, Zenon DEF ToSet
  <2>2. i # 1 /\ i - 1 \in 1..Len(t) /\ t[i - 1] = e
    BY <1>1, <1>5, <2>1
  <2> QED
    BY <1>1, <2>2, Zenon DEF ToSet
<1> QED
  BY <1>1, <1>2, <1>3, <1>4, <1>5, Zenon DEF t

LEMMA DistinctCount ==
  ASSUME NEW s \in Seq(Event), Distinct(s)
  PROVE  IsFiniteSet(ToSet(s)) /\ Cardinality(ToSet(s)) = Len(s) /\ ToSet(s) \subseteq Event
<1>1. Len(s) \in Nat /\ DOMAIN s = 1..Len(s) /\ s \in [1..Len(s) -> ToSet(s)]
  BY DEF ToSet
<1>2. ToSet(s) \subseteq Event
  BY <1>1 DEF ToSet
<1>3. s \in Bijection(1..Len(s), ToSet(s))
  BY <1>1, Zenon DEF Bijection, Injection, Surjection, IsInjective, ToSet, Distinct
<1>4. ExistsBijection(1..Len(s), ToSet(s))
  BY <1>3, Zenon DEF ExistsBijection
<1>5. Cardinality(ToSet(s)) = Len(s)
  BY <1>1, <1>4, FS_CountingElements, Zenon
<1>6. IsFiniteSet(ToSet(s))
  BY <1>2, FS_Subset, ForwarderAssumption, Zenon
<1> QED
  BY <1>2, <1>5, <1>6, Zenon

LEMMA NothingInEmpty ==
  ASSUME NEW s, s = <<>>
  PROVE  Len(s) = 0 /\ ToSet(s) = {} /\ Distinct(s) /\ s \in Seq(Event)
<1>1. Len(s) = 0 /\ s \in Seq(Event)
  OBVIOUS
<1>2. ToSet(s) = {}
  <2>1. DOMAIN s = {}
    OBVIOUS
  <2> QED
    BY <2>1, Zenon DEF ToSet
<1>3. Distinct(s)
  BY <1>1 DEF Distinct
<1>4. QED
  BY <1>1, <1>2, <1>3, Zenon

LEMMA InitAccounts == Init => AInv
<1> SUFFICES ASSUME Init PROVE AInv
  BY Zenon
<1>0. /\ MaxEntries \in Nat /\ MaxEntries > 0 /\ MaxBatchBytes \in Nat /\ MaxBatchBytes > 0
      /\ MaxPayload \in Nat /\ QueueSize \in Nat
  BY ForwarderAssumption
<1>1. RestOK
  <2>1. Len(queue) <= QueueSize /\ dropped \in Nat /\ length \in [Worker -> Nat]
    BY <1>0 DEF Init
  <2>2. cancelled \in BOOLEAN /\ active \in [Worker -> BOOLEAN]
    BY Zenon DEF Init
  <2>3. timer \in [Worker -> {"idle", "armed", "fired"}]
    BY Zenon DEF Init
  <2>4. acked \subseteq Event /\ lost \subseteq Event /\ refused \subseteq Event
    BY Zenon DEF Init
  <2> QED
    BY <2>1, <2>2, <2>3, <2>4, Zenon DEF RestOK
<1>2. queue = <<>> /\ \A w \in Worker : batch[w] = <<>> /\ length[w] = 0
  BY Zenon DEF Init
<1>3. Once /\ Queued = {} /\ \A w \in Worker : Batched(w) = {}
  BY <1>2, NothingInEmpty, Zenon DEF Once, Queued, Batched
<1>4. Apart /\ Sizes
  BY <1>3, Zenon DEF Init, Apart, Sizes, Finished
<1>5. Limits
  BY <1>0, <1>2, NothingInEmpty DEF Limits
<1>6. Counted
  BY FS_EmptySet, Zenon DEF Init, Counted
<1> QED
  BY <1>1, <1>3, <1>4, <1>5, <1>6, Zenon DEF AInv

\* recordDrops counts what it loses, once.
LEMMA DropCounts ==
  ASSUME NEW entries \in Seq(Event), Distinct(entries), ToSet(entries) \cap lost = {},
         RestOK, Counted, Drop(entries)
  PROVE  /\ lost' = lost \cup ToSet(entries) /\ lost' \subseteq Event
         /\ dropped' \in Nat /\ Counted'
<1> DEFINE E == ToSet(entries)
<1>1. IsFiniteSet(E) /\ Cardinality(E) = Len(entries) /\ E \subseteq Event /\ Len(entries) \in Nat
  BY DistinctCount
<1>2. lost' = lost \cup E /\ dropped' = dropped + Len(entries) /\ E \cap lost = {}
  BY Zenon DEF Drop
<1> HIDE DEF E
<1>3. IsFiniteSet(lost) /\ Cardinality(lost) \in Nat /\ dropped = Cardinality(lost)
  BY ForwarderAssumption, FS_Subset, FS_CardinalityType, Zenon DEF RestOK, Counted
<1>4. Cardinality(lost \cup E) = Cardinality(lost) + Cardinality(E) - Cardinality(lost \cap E)
  BY <1>1, <1>3, FS_Union, Zenon
<1>5. lost \cap E = {}
  BY <1>2, Zenon
<1>6. Cardinality(lost \cap E) = 0
  BY <1>5, FS_EmptySet, Zenon
<1>7. dropped' = Cardinality(lost') /\ dropped' \in Nat
  BY <1>1, <1>2, <1>3, <1>4, <1>6
<1> QED
  BY <1>1, <1>2, <1>7, Zenon DEF RestOK, Counted, E

LEMMA OneEntry ==
  ASSUME NEW e \in Event
  PROVE  <<e>> \in Seq(Event) /\ Distinct(<<e>>) /\ ToSet(<<e>>) = {e}
<1> DEFINE s == <<e>>
<1>1. s \in Seq(Event) /\ Len(s) = 1 /\ DOMAIN s = {1} /\ s[1] = e
  OBVIOUS
<1> HIDE DEF s
<1>2. Distinct(s) /\ ToSet(s) = {e}
  BY <1>1 DEF Distinct, ToSet
<1> QED
  BY <1>1, <1>2, Zenon DEF s

\* enqueue moves its event on.
LEMMA EnqueueAccounts ==
  ASSUME IInv, AInv, NEW e \in Event, EnqueueBegin(e) \/ EnqueueSend(e)
  PROVE  AInv'
<1>0. /\ pc \in [Event -> {"new", "send", "done"}] /\ queue \in Seq(Event)
      /\ Distinct(queue) /\ UNCHANGED <<batch, length, acked, wpc, cancelled, active, timer>>
  BY Zenon DEF IInv, ControlOK, AInv, Once, EnqueueBegin, EnqueueSend, worker
<1>1. pc[e] # "done"
  BY Zenon DEF EnqueueBegin, EnqueueSend
<1>2. e \notin Queued /\ e \notin Finished /\ \A w \in Worker : e \notin Batched(w)
  BY <1>1, Zenon DEF AInv, Apart
<1>3. CASE Drop(<<e>>) /\ UNCHANGED <<queue, refused>> /\ pc' = [pc EXCEPT ![e] = "done"]
  <2>1. lost' = lost \cup {e} /\ lost' \subseteq Event /\ dropped' \in Nat /\ Counted'
    <3>1. <<e>> \in Seq(Event) /\ Distinct(<<e>>) /\ ToSet(<<e>>) = {e}
          /\ ToSet(<<e>>) \cap lost = {}
      BY <1>2, OneEntry, Zenon DEF Finished
    <3>2. RestOK /\ Counted /\ Drop(<<e>>)
      BY <1>3, Zenon DEF AInv
    <3> QED
      BY <3>1, <3>2, DropCounts, Zenon
  <2>2. RestOK'
    BY <1>0, <1>3, <2>1, Zenon DEF AInv, RestOK
  <2>3. Once' /\ Sizes' /\ Limits'
    BY <1>0, <1>3, Zenon DEF AInv, Once, Sizes, Limits, Queued
  <2>4. Apart'
    BY <1>0, <1>2, <1>3, <2>1 DEF AInv, Apart, Queued, Batched, Finished
  <2> QED
    BY <2>1, <2>2, <2>3, <2>4, Zenon DEF AInv
<1>4. CASE /\ closed /\ pc' = [pc EXCEPT ![e] = "done"] /\ refused' = refused \cup {e}
           /\ UNCHANGED <<queue, dropped, lost>>
  <2>1. RestOK' /\ Counted'
    BY <1>0, <1>4, Zenon DEF AInv, RestOK, Counted
  <2>2. Once' /\ Sizes' /\ Limits'
    BY <1>0, <1>4, Zenon DEF AInv, Once, Sizes, Limits, Queued
  <2>3. Apart'
    BY <1>0, <1>2, <1>4, Zenon DEF AInv, Apart, Queued, Batched, Finished
  <2> QED
    BY <2>1, <2>2, <2>3, Zenon DEF AInv
<1>5. CASE /\ Size[e] <= MaxPayload /\ pc' = [pc EXCEPT ![e] = "send"]
           /\ UNCHANGED <<queue, dropped, lost, refused>>
  <2>1. RestOK' /\ Counted'
    BY <1>0, <1>5, Zenon DEF AInv, RestOK, Counted
  <2>2. Once' /\ Sizes' /\ Limits'
    BY <1>0, <1>5, Zenon DEF AInv, Once, Sizes, Limits, Queued
  <2>3. Apart'
    BY <1>0, <1>1, <1>2, <1>5, Zenon DEF AInv, Apart, Queued, Batched, Finished
  <2> QED
    BY <2>1, <2>2, <2>3, Zenon DEF AInv
<1>6. CASE /\ pc[e] = "send" /\ QueueHasRoom /\ queue' = Append(queue, e)
           /\ pc' = [pc EXCEPT ![e] = "done"] /\ UNCHANGED <<dropped, lost, refused>>
  <2>1. /\ Len(queue') = Len(queue) + 1 /\ Distinct(queue')
        /\ ToSet(queue') = ToSet(queue) \cup {e}
    BY <1>0, <1>2, <1>6, AppendDistinct, Zenon DEF Queued
  <2>2. Len(queue') <= QueueSize
    BY <1>0, <1>6, <2>1, ForwarderAssumption DEF QueueHasRoom
  <2>3. RestOK' /\ Counted'
    BY <1>0, <1>6, <2>2, Zenon DEF AInv, RestOK, Counted
  <2>4. Once' /\ Sizes' /\ Limits'
    BY <1>0, <1>6, <2>1, Zenon DEF AInv, Once, Sizes, Limits, Queued
  <2>5. Apart'
    BY <1>0, <1>2, <1>6, <2>1, Zenon DEF AInv, Apart, Queued, Batched, Finished
  <2> QED
    BY <2>3, <2>4, <2>5, Zenon DEF AInv
<1>7. CASE EnqueueBegin(e)
  <2>1. Size[e] > MaxPayload \/ Size[e] <= MaxPayload
    BY ForwarderAssumption
  <2> QED
    BY <1>3, <1>4, <1>5, <1>7, <2>1, Zenon DEF EnqueueBegin
<1>8. CASE EnqueueSend(e)
  BY <1>3, <1>6, <1>8, Zenon DEF EnqueueSend
<1> QED
  BY <1>7, <1>8, Zenon

\* A worker takes an event from the queue into its batch, which was not full.
LEMMA ReceiveAccounts ==
  ASSUME IInv, AInv, NEW w \in Worker, WorkerReceive(w)
  PROVE  AInv'
<1> DEFINE h == Head(queue)
           n == Written(w, h)
<1>0. /\ queue \in Seq(Event) /\ Distinct(queue) /\ queue # <<>>
      /\ batch \in [Worker -> Seq(Event)] /\ Distinct(batch[w]) /\ batch[w] \in Seq(Event)
      /\ wpc[w] = "select" /\ length \in [Worker -> Nat]
      /\ wpc \in [Worker -> {"select", "flush", "lastFlush", "post", "lastPost", "exited"}]
      /\ UNCHANGED <<pc, cancelled, dropped, acked, lost, refused>>
  BY Zenon DEF IInv, ControlOK, AInv, Once, RestOK, WorkerReceive
<1>1. /\ h \in Event /\ queue' = Tail(queue) /\ Len(queue') = Len(queue) - 1
      /\ Distinct(queue') /\ h \in ToSet(queue) /\ ToSet(queue') = ToSet(queue) \ {h}
  BY <1>0, TailDistinct, Zenon DEF WorkerReceive
<1>2. /\ batch' = [batch EXCEPT ![w] = Append(batch[w], h)]
      /\ length' = [length EXCEPT ![w] = n]
  BY Zenon DEF WorkerReceive
<1>3. /\ Size[h] \in Nat /\ Size[h] <= MaxPayload /\ length[w] \in Nat
      /\ length[w] < MaxBatchBytes /\ Len(batch[w]) < MaxEntries /\ Len(batch[w]) \in Nat
      /\ MaxBatchBytes \in Nat /\ MaxEntries \in Nat /\ MaxPayload \in Nat
  BY <1>0, <1>1, ForwarderAssumption DEF AInv, Sizes, Queued, Limits
<1>4. n \in Nat /\ n <= MaxBatchBytes + MaxPayload
  BY <1>3 DEF Written
<1> HIDE DEF h, n
<1>5. /\ h \notin ToSet(batch[w]) /\ h \in Queued
  BY <1>1, Zenon DEF AInv, Apart, Queued, Batched
<1>6. /\ Len(batch'[w]) = Len(batch[w]) + 1 /\ Distinct(batch'[w])
      /\ ToSet(batch'[w]) = ToSet(batch[w]) \cup {h}
  BY <1>0, <1>1, <1>2, <1>5, AppendDistinct, Zenon
<1>7. /\ length' \in [Worker -> Nat] /\ length'[w] = n
      /\ \A v \in Worker \ {w} : length'[v] = length[v] /\ batch'[v] = batch[v]
  BY <1>0, <1>2, <1>4, Zenon
<1>8. /\ \A v \in Worker \ {w} : wpc'[v] = wpc[v]
      /\ wpc'[w] = "select" => Len(batch'[w]) < MaxEntries /\ length'[w] < MaxBatchBytes
  <2>1. CASE Full(Len(batch'[w]), length'[w])
    BY <1>0, <2>1, Zenon DEF WorkerReceive
  <2>2. CASE ~Full(Len(batch'[w]), length'[w])
    <3>1. Len(batch'[w]) < MaxEntries /\ length'[w] < MaxBatchBytes
      BY <1>3, <1>4, <1>6, <1>7, <2>2 DEF Full
    <3> QED
      BY <2>2, <3>1, Zenon DEF WorkerReceive
  <2> QED
    BY <2>1, <2>2, Zenon
<1>9. RestOK'
  <2>1. active' \in [Worker -> BOOLEAN]
    BY Zenon DEF WorkerReceive, AInv, RestOK
  <2>2. timer' \in [Worker -> {"idle", "armed", "fired"}]
    BY Zenon DEF WorkerReceive, AInv, RestOK, Armed
  <2>3. Len(queue') <= QueueSize
    BY <1>0, <1>1, ForwarderAssumption DEF AInv, RestOK
  <2> QED
    BY <1>0, <1>7, <2>1, <2>2, <2>3, Zenon DEF AInv, RestOK
<1>10. Once'
  BY <1>1, <1>6, <1>7, Zenon DEF AInv, Once
<1>11. Limits'
  BY <1>3, <1>4, <1>6, <1>7, <1>8 DEF AInv, Limits
<1>12. Sizes' /\ Counted'
  BY <1>0, <1>1, Zenon DEF AInv, Sizes, Counted, Queued
<1>13. Apart'
  <2>1. /\ Queued' = Queued \ {h} /\ Finished' = Finished /\ Batched(w)' = Batched(w) \cup {h}
        /\ \A v \in Worker \ {w} : Batched(v)' = Batched(v)
    BY <1>0, <1>1, <1>6, <1>7, Zenon DEF Queued, Batched, Finished
  <2>2. SUFFICES ASSUME NEW e \in Event
                 PROVE  /\ pc[e] # "done" => e \notin Queued' /\ e \notin Finished'
                                             /\ \A v \in Worker : e \notin Batched(v)'
                        /\ pc[e] = "done" => e \in Queued' \/ e \in Finished'
                                             \/ \E v \in Worker : e \in Batched(v)'
                        /\ e \in Queued' => e \notin Finished' /\ \A v \in Worker : e \notin Batched(v)'
                        /\ \A v \in Worker : e \in Batched(v)' =>
                              e \notin Finished' /\ \A u \in Worker \ {v} : e \notin Batched(u)'
                        /\ e \in acked => e \notin lost /\ e \notin refused
                        /\ e \in lost => e \notin refused
    BY <1>0, Zenon DEF Apart
  <2>3. CASE e = h
    BY <1>5, <2>1, <2>3 DEF AInv, Apart
  <2>4. CASE e # h
    <3>1. /\ e \in Queued' <=> e \in Queued
          /\ \A v \in Worker : e \in Batched(v)' <=> e \in Batched(v)
      BY <2>1, <2>4, Zenon
    <3> QED
      BY <2>1, <3>1, Zenon DEF AInv, Apart
  <2> QED
    BY <2>3, <2>4, Zenon
<1> QED
  BY <1>9, <1>10, <1>11, <1>12, <1>13, Zenon DEF AInv

\* A batch ends as a whole, acknowledged or lost.
LEMMA FlushAccounts ==
  ASSUME IInv, AInv, NEW w \in Worker, Flushed(w),
         UNCHANGED <<pc, queue, cancelled, active, timer, refused>>,
         \/ Drop(batch[w]) /\ UNCHANGED acked
         \/ acked' = acked \cup ToSet(batch[w]) /\ UNCHANGED <<dropped, lost>>
  PROVE  AInv'
<1>0. /\ batch \in [Worker -> Seq(Event)] /\ Distinct(batch[w]) /\ batch[w] \in Seq(Event)
      /\ length \in [Worker -> Nat]
      /\ wpc \in [Worker -> {"select", "flush", "lastFlush", "post", "lastPost", "exited"}]
      /\ MaxBatchBytes \in Nat \ {0} /\ MaxEntries \in Nat \ {0} /\ MaxPayload \in Nat
  BY ForwarderAssumption, Zenon DEF IInv, ControlOK, AInv, Once, RestOK
<1>1. batch'[w] = <<>> /\ length'[w] = 0 /\ length' \in [Worker -> Nat]
      /\ \A v \in Worker \ {w} : batch'[v] = batch[v] /\ length'[v] = length[v]
                                 /\ wpc'[v] = wpc[v]
  BY <1>0, Zenon DEF Flushed, BatchReset
<1>2. Len(batch'[w]) = 0 /\ ToSet(batch'[w]) = {} /\ Distinct(batch'[w])
  BY <1>1, NothingInEmpty, Zenon
<1>3. Once' /\ Sizes'
  BY <1>1, <1>2, Zenon DEF AInv, Once, Sizes, Queued
<1>4. Limits'
  <2> SUFFICES ASSUME NEW v \in Worker
               PROVE  /\ Len(batch'[v]) <= MaxEntries /\ length'[v] <= MaxBatchBytes + MaxPayload
                      /\ wpc'[v] = "select" => Len(batch'[v]) < MaxEntries /\ length'[v] < MaxBatchBytes
    BY Zenon DEF Limits
  <2>1. CASE v = w
    BY <1>0, <1>1, <1>2, <2>1
  <2>2. CASE v # w
    BY <1>1, <2>2, Zenon DEF AInv, Limits
  <2> QED
    BY <2>1, <2>2, Zenon
<1>5. ToSet(batch[w]) \subseteq Event /\ ToSet(batch[w]) \cap Finished = {}
  <2>1. ToSet(batch[w]) \subseteq Event
    BY <1>0, DistinctCount, Zenon
  <2> QED
    BY <2>1, Zenon DEF AInv, Apart, Batched
<1>6. CASE Drop(batch[w]) /\ UNCHANGED acked
  <2>1. RestOK /\ Counted /\ Drop(batch[w]) /\ ToSet(batch[w]) \cap lost = {}
    BY <1>5, <1>6, Zenon DEF AInv, Finished
  <2>2. /\ lost' = lost \cup ToSet(batch[w]) /\ lost' \subseteq Event
        /\ dropped' \in Nat /\ Counted'
    BY <1>0, <2>1, DropCounts, Zenon
  <2>3. RestOK'
    BY <1>1, <1>6, <2>2, Zenon DEF AInv, RestOK
  <2>4. Apart'
    BY <1>1, <1>2, <1>5, <1>6, <2>2 DEF AInv, Apart, Queued, Batched, Finished
  <2> QED
    BY <1>3, <1>4, <2>2, <2>3, <2>4, Zenon DEF AInv
<1>7. CASE acked' = acked \cup ToSet(batch[w]) /\ UNCHANGED <<dropped, lost>>
  <2>1. RestOK' /\ Counted'
    BY <1>1, <1>5, <1>7, Zenon DEF AInv, RestOK, Counted
  <2>2. Apart'
    BY <1>1, <1>2, <1>5, <1>7 DEF AInv, Apart, Queued, Batched, Finished
  <2> QED
    BY <1>3, <1>4, <2>1, <2>2, Zenon DEF AInv
<1> QED
  BY <1>6, <1>7, Zenon

\* The steps that move no event.
LEMMA IdleAccounts ==
  ASSUME IInv, AInv,
         UNCHANGED <<pc, queue, batch, length, acked, lost, refused, dropped>>,
         cancelled' \in BOOLEAN, active' \in [Worker -> BOOLEAN],
         timer' \in [Worker -> {"idle", "armed", "fired"}],
         \A v \in Worker : wpc'[v] = "select" => wpc[v] = "select"
  PROVE  AInv'
<1>1. RestOK' /\ Once' /\ Sizes' /\ Counted'
  BY Zenon DEF AInv, RestOK, Once, Sizes, Counted, Queued
<1>2. Limits'
  BY Zenon DEF AInv, Limits
<1>3. Apart'
  BY Zenon DEF AInv, Apart, Queued, Batched, Finished
<1> QED
  BY <1>1, <1>2, <1>3, Zenon DEF AInv

LEMMA WorkerAccounts ==
  ASSUME IInv, AInv, NEW w \in Worker, WorkerStep(w) \/ TimerTick(w)
  PROVE  AInv'
<1>0. /\ wpc \in [Worker -> {"select", "flush", "lastFlush", "post", "lastPost", "exited"}]
      /\ cancelled \in BOOLEAN /\ active \in [Worker -> BOOLEAN]
      /\ timer \in [Worker -> {"idle", "armed", "fired"}]
  BY Zenon DEF IInv, ControlOK, AInv, RestOK
<1>1. CASE WorkerReceive(w)
  BY <1>1, ReceiveAccounts, Zenon
<1>2. CASE WorkerTimeout(w) \/ WorkerDrained(w) \/ TimerTick(w)
  <2>1. /\ UNCHANGED <<pc, queue, batch, length, acked, lost, refused, dropped, cancelled>>
        /\ \A v \in Worker : wpc'[v] = "select" => wpc[v] = "select"
    BY <1>0, <1>2, Zenon DEF WorkerTimeout, WorkerDrained, TimerTick, LastFlush, producer
  <2>2. active' \in [Worker -> BOOLEAN]
    BY <1>0, <1>2, Zenon DEF WorkerTimeout, WorkerDrained, TimerTick
  <2>3. timer' \in [Worker -> {"idle", "armed", "fired"}]
    BY <1>0, <1>2, Zenon DEF WorkerTimeout, WorkerDrained, TimerTick
  <2> QED
    BY <1>0, <2>1, <2>2, <2>3, IdleAccounts, Zenon
<1>3. CASE SendBegin(w)
  <2>1. CASE cancelled
    BY <1>3, <2>1, FlushAccounts, Zenon DEF SendBegin
  <2>2. CASE ~cancelled
    <3>1. /\ UNCHANGED <<pc, queue, batch, length, acked, lost, refused, dropped,
                         cancelled, active, timer>>
          /\ \A v \in Worker : wpc'[v] = "select" => wpc[v] = "select"
      BY <1>0, <1>3, <2>2, Zenon DEF SendBegin
    <3> QED
      BY <1>0, <3>1, IdleAccounts, Zenon
  <2> QED
    BY <2>1, <2>2, Zenon
<1>4. CASE PostAcked(w)
  BY <1>4, FlushAccounts, Zenon DEF PostAcked, producer
<1>5. CASE PostFailed(w)
  BY <1>5, FlushAccounts, Zenon DEF PostFailed
<1> QED
  BY <1>1, <1>2, <1>3, <1>4, <1>5, Zenon DEF WorkerStep

LEMMA StepAccounts == IInv /\ AInv /\ [Next]_vars => AInv'
<1> SUFFICES ASSUME IInv, AInv, [Next]_vars PROVE AInv'
  BY Zenon
<1>1. CASE CloseQueue \/ ShutdownTimeout \/ WorkersDone \/ UNCHANGED vars
  <2>1. UNCHANGED <<pc, queue, batch, length, acked, lost, refused, dropped, wpc, active, timer>>
    BY <1>1, Zenon DEF CloseQueue, ShutdownTimeout, WorkersDone, vars, producer, worker
  <2>2. cancelled' \in BOOLEAN
    BY <1>1, Zenon DEF CloseQueue, ShutdownTimeout, WorkersDone, vars, AInv, RestOK
  <2> QED
    BY <2>1, <2>2, IdleAccounts, Zenon DEF AInv, RestOK
<1> QED
  BY <1>1, EnqueueAccounts, WorkerAccounts, Zenon DEF Next

\* An event past enqueue has exactly one place.
LEMMA OnePlace ==
  ASSUME IInv, AInv, NEW e \in Event
  PROVE  Cardinality(Places(e)) = IF pc[e] = "new" THEN 0 ELSE 1
<1> DEFINE S == {p \in {<<"send", 0>>} : pc[e] = "send"}
           Q == {<<"queue", i>> : i \in {j \in 1..Len(queue) : queue[j] = e}}
           B(w) == {<<w, i>> : i \in {j \in 1..Len(batch[w]) : batch[w][j] = e}}
           U == UNION {B(w) : w \in Worker}
           A == {p \in {<<"acked", 0>>} : e \in acked}
           L == {p \in {<<"lost", 0>>} : e \in lost}
           R == {p \in {<<"refused", 0>>} : e \in refused}
<1>0. /\ pc[e] \in {"new", "send", "done"}
      /\ queue \in Seq(Event) /\ Distinct(queue)
      /\ \A w \in Worker : batch[w] \in Seq(Event) /\ Distinct(batch[w])
  BY Zenon DEF IInv, ControlOK, AInv, Once
<1>1. Places(e) = S \cup Q \cup U \cup A \cup L \cup R
  BY Zenon DEF Places
<1>2. /\ pc[e] # "send" => S = {}
      /\ pc[e] = "send" => S = {<<"send", 0>>}
      /\ e \notin acked => A = {}
      /\ e \in acked => A = {<<"acked", 0>>}
      /\ e \notin lost => L = {}
      /\ e \in lost => L = {<<"lost", 0>>}
      /\ e \notin refused => R = {}
      /\ e \in refused => R = {<<"refused", 0>>}
  BY Zenon
<1>3. /\ e \notin Queued => Q = {}
      /\ e \in Queued => \E p : Q = {p}
  <2>1. ASSUME e \notin Queued PROVE Q = {}
    BY <1>0, <2>1 DEF Queued, ToSet
  <2>2. ASSUME e \in Queued PROVE \E p : Q = {p}
    <3>1. PICK i \in 1..Len(queue) : queue[i] = e
      BY <1>0, <2>2 DEF Queued, ToSet
    <3>2. {j \in 1..Len(queue) : queue[j] = e} = {i}
      BY <1>0, <3>1, Zenon DEF Distinct
    <3>3. Q = {<<"queue", i>>}
      BY <3>2, Zenon
    <3> QED
      BY <3>3, Zenon
  <2> QED
    BY <2>1, <2>2, Zenon
<1>4. ASSUME NEW w \in Worker
      PROVE  /\ e \notin Batched(w) => B(w) = {}
             /\ e \in Batched(w) => \E p : B(w) = {p}
  <2>1. ASSUME e \notin Batched(w) PROVE B(w) = {}
    BY <1>0, <2>1 DEF Batched, ToSet
  <2>2. ASSUME e \in Batched(w) PROVE \E p : B(w) = {p}
    <3>1. PICK i \in 1..Len(batch[w]) : batch[w][i] = e
      BY <1>0, <2>2 DEF Batched, ToSet
    <3>2. {j \in 1..Len(batch[w]) : batch[w][j] = e} = {i}
      BY <1>0, <3>1 DEF Distinct
    <3>3. B(w) = {<<w, i>>}
      BY <3>2, Zenon
    <3> QED
      BY <3>3, Zenon
  <2> QED
    BY <2>1, <2>2, Zenon
<1> HIDE DEF S, Q, B, U, A, L, R
<1>5. CASE pc[e] = "new"
  <2>1. S = {} /\ Q = {} /\ A = {} /\ L = {} /\ R = {} /\ \A w \in Worker : B(w) = {}
    BY <1>2, <1>3, <1>4, <1>5, Zenon DEF AInv, Apart, Finished
  <2>2. Places(e) = {}
    BY <1>1, <2>1 DEF U
  <2> QED
    BY <1>5, <2>2, FS_EmptySet, Zenon
<1>6. CASE pc[e] = "send"
  <2>1. S = {<<"send", 0>>} /\ Q = {} /\ A = {} /\ L = {} /\ R = {} /\ \A w \in Worker : B(w) = {}
    BY <1>2, <1>3, <1>4, <1>6, Zenon DEF AInv, Apart, Finished
  <2>2. Places(e) = {<<"send", 0>>}
    BY <1>1, <2>1 DEF U
  <2> QED
    BY <1>6, <2>2, FS_Singleton, Zenon
<1>7. CASE pc[e] = "done"
  <2>0. S = {}
    BY <1>2, <1>7, Zenon
  <2>1. CASE e \in Queued
    <3>1. A = {} /\ L = {} /\ R = {} /\ \A w \in Worker : B(w) = {}
      BY <1>2, <1>4, <2>1, Zenon DEF AInv, Apart, Finished
    <3>2. PICK p : Q = {p}
      BY <1>3, <2>1, Zenon
    <3>3. Places(e) = {p}
      BY <1>1, <2>0, <3>1, <3>2 DEF U
    <3> QED
      BY <1>7, <3>3, FS_Singleton, Zenon
  <2>2. ASSUME NEW w \in Worker, e \in Batched(w)
        PROVE  Cardinality(Places(e)) = 1
    <3>1. A = {} /\ L = {} /\ R = {} /\ Q = {} /\ \A v \in Worker \ {w} : B(v) = {}
      BY <1>2, <1>3, <1>4, <2>2, Zenon DEF AInv, Apart, Finished
    <3>2. PICK p : B(w) = {p}
      BY <1>4, <2>2, Zenon
    <3>3. U = {p}
      BY <3>1, <3>2 DEF U
    <3>4. Places(e) = {p}
      BY <1>1, <2>0, <3>1, <3>3, Zenon
    <3> QED
      BY <3>4, FS_Singleton, Zenon
  <2>3. ASSUME e \in Finished
        PROVE  Cardinality(Places(e)) = 1
    <3>1. Q = {} /\ \A w \in Worker : B(w) = {}
      BY <1>3, <1>4, <2>3, Zenon DEF AInv, Apart
    <3>2. \E p : A \cup L \cup R = {p}
      <4>1. CASE e \in acked
        BY <1>2, <4>1, Zenon DEF AInv, Apart
      <4>2. CASE e \in lost
        BY <1>2, <4>2, Zenon DEF AInv, Apart
      <4>3. CASE e \in refused
        BY <1>2, <4>3, Zenon DEF AInv, Apart
      <4> QED
        BY <2>3, <4>1, <4>2, <4>3, Zenon DEF Finished
    <3>3. PICK p : A \cup L \cup R = {p}
      BY <3>2, Zenon
    <3>4. U = {}
      BY <3>1, Zenon DEF U
    <3>5. Places(e) = A \cup L \cup R
      BY <1>1, <2>0, <3>1, <3>4, Zenon
    <3> QED
      BY <3>3, <3>5, FS_Singleton, Zenon
  <2>4. e \in Queued \/ e \in Finished \/ \E w \in Worker : e \in Batched(w)
    BY <1>7, Zenon DEF AInv, Apart
  <2> QED
    BY <1>7, <2>1, <2>2, <2>3, <2>4, Zenon
<1> QED
  BY <1>0, <1>5, <1>6, <1>7, Zenon

LEMMA InvAccounts == IInv /\ AInv => EventsAccounted
<1> SUFFICES ASSUME IInv, AInv PROVE EventsAccounted
  BY Zenon
<1>1. TypeOK
  BY Zenon DEF IInv, ControlOK, AInv, RestOK, TypeOK
<1>2. AccountedOnce
  BY OnePlace, Zenon DEF AccountedOnce, AInv, Counted
<1>3. BatchBounded
  BY Zenon DEF BatchBounded, AInv, Limits
<1>4. NothingLeft
  BY InvLeavesNothing, Zenon
<1> QED
  BY <1>1, <1>2, <1>3, <1>4, Zenon DEF EventsAccounted

\* From enqueue to the end of Close every event is accounted for, for any number
\* of events, callers and workers and any limits: it is in exactly one place
\* (being sent, queued, in one batch, acknowledged, dropped, refused), the drop
\* counter is exactly the number of dropped events, no batch exceeds its limits
\* by more than one payload, and nothing is left when Close returns.
THEOREM EveryEventAccounted == Spec => []EventsAccounted
<1>1. Init => IInv /\ AInv
  BY InitInv, InitAccounts, Zenon
<1>2. (IInv /\ AInv) /\ [Next]_vars => (IInv /\ AInv)'
  BY StepInv, StepAccounts, Zenon
<1> QED
  BY <1>1, <1>2, InvAccounts, PTL DEF Spec
=============================================================================
