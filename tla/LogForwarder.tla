---------------------------- MODULE LogForwarder ----------------------------
(***************************************************************************)
(* The log forwarder of the WAF, webhookLogHook (internal/waf/logging.go): *)
(* callers put events into a bounded queue without blocking, workers post  *)
(* them in batches, Close closes the queue and waits for the workers.      *)
(*                                                                         *)
(* An event is one call of enqueue.  Its payload is reduced to its size.   *)
(***************************************************************************)
EXTENDS Integers, Sequences, FiniteSets, SequencesExt

CONSTANTS
  Event,          \* log events
  Size,           \* event -> bytes of its payload
  Worker,
  QueueSize,      \* capacity of queue
  MaxPayload,     \* maxForwardedLogPayloadBytes
  MaxEntries,     \* maxForwardedBatchEntries
  MaxBatchBytes   \* maxForwardedBatchBytes

ASSUME ForwarderAssumption ==
  /\ IsFiniteSet(Event) /\ Worker # {}
  /\ Size \in [Event -> Nat]
  /\ QueueSize \in Nat \ {0} /\ MaxPayload \in Nat
  /\ MaxEntries \in Nat \ {0} /\ MaxBatchBytes \in Nat \ {0}

VARIABLES
  pc,         \* event -> control of its enqueue; "send" holds mu for reading
  queue,
  closed,
  cancelled,  \* h.ctx is done
  dropped,    \* the counter
  wpc,        \* worker -> control of runWorker
  batch,      \* worker -> the entries of its batch
  length,     \* worker -> the bytes of its batch, batch.Len()
  active,     \* worker -> timerActive
  timer,      \* worker -> its timer: idle, armed, or fired with the tick unread
  closer,     \* control of Close
  acked,      \* history: events in batches answered with 2xx
  lost,       \* history: events the counter has counted
  refused     \* history: events that came after Close

producer == <<pc, queue, dropped, lost, refused>>
worker == <<wpc, batch, length, active, timer>>
vars == <<pc, queue, closed, cancelled, dropped, worker, closer, acked, lost, refused>>

Init ==
  /\ pc = [e \in Event |-> "new"]
  /\ queue = <<>>
  /\ closed = FALSE
  /\ cancelled = FALSE
  /\ dropped = 0
  /\ wpc = [w \in Worker |-> "select"]
  /\ batch = [w \in Worker |-> <<>>]
  /\ length = [w \in Worker |-> 0]
  /\ active = [w \in Worker |-> FALSE]
  /\ timer = [w \in Worker |-> "armed"]
  /\ closer = "open"
  /\ acked = {}
  /\ lost = {}
  /\ refused = {}

Drop(entries) ==
  /\ dropped' = dropped + Len(entries)
  /\ lost' = lost \cup ToSet(entries)

-----------------------------------------------------------------------------
\* enqueue

\* The size check, mu.RLock and the load of closed.
EnqueueBegin(e) ==
  /\ pc[e] = "new"
  /\ IF Size[e] > MaxPayload
     THEN pc' = [pc EXCEPT ![e] = "done"] /\ Drop(<<e>>) /\ UNCHANGED refused
     ELSE IF closed
     THEN pc' = [pc EXCEPT ![e] = "done"] /\ refused' = refused \cup {e} /\ UNCHANGED <<dropped, lost>>
     ELSE pc' = [pc EXCEPT ![e] = "send"] /\ UNCHANGED <<dropped, lost, refused>>
  /\ UNCHANGED <<queue, closed, cancelled, worker, closer, acked>>

QueueHasRoom == Len(queue) < QueueSize

\* The select with a default, then mu.RUnlock.
EnqueueSend(e) ==
  /\ pc[e] = "send"
  /\ pc' = [pc EXCEPT ![e] = "done"]
  /\ IF QueueHasRoom
     THEN queue' = Append(queue, e) /\ UNCHANGED <<dropped, lost>>
     ELSE Drop(<<e>>) /\ UNCHANGED queue
  /\ UNCHANGED <<closed, cancelled, worker, closer, acked, refused>>

-----------------------------------------------------------------------------
\* runWorker

\* (Mutant: a batch is sent when it has exceeded its limit.)
FullLate(entries, bytes) == entries > MaxEntries \/ bytes >= MaxBatchBytes

Full(entries, bytes) == entries >= MaxEntries \/ bytes >= MaxBatchBytes

\* NDJSON: a newline before every payload but the first.
Written(w, e) == length[w] + (IF batch[w] = <<>> THEN 0 ELSE 1) + Size[e]

\* (Mutant: the timer is not reset.)
ArmedOnce(t) == t

\* Stop, drain and Reset leave the timer armed, whatever its state was.
Armed(t) == "armed"

\* A payload from the queue: the batch is sent when full, otherwise the first
\* entry arms the timer.
WorkerReceive(w) ==
  /\ wpc[w] = "select" /\ queue # <<>>
  /\ queue' = Tail(queue)
  /\ batch' = [batch EXCEPT ![w] = Append(@, Head(queue))]
  /\ length' = [length EXCEPT ![w] = Written(w, Head(queue))]
  /\ IF Full(Len(batch'[w]), length'[w])
     THEN /\ wpc' = [wpc EXCEPT ![w] = "flush"]
          /\ active' = [active EXCEPT ![w] = FALSE]
          /\ UNCHANGED timer
     ELSE /\ active' = [active EXCEPT ![w] = TRUE]
          /\ timer' = IF active[w] THEN timer ELSE [timer EXCEPT ![w] = Armed(@)]
          /\ UNCHANGED wpc
  /\ UNCHANGED <<pc, closed, cancelled, dropped, closer, acked, lost, refused>>

TimerTick(w) ==
  /\ timer[w] = "armed"
  /\ timer' = [timer EXCEPT ![w] = "fired"]
  /\ UNCHANGED <<producer, closed, cancelled, wpc, batch, length, active, closer, acked>>

\* The tick is read only while timerActive.
WorkerTimeout(w) ==
  /\ wpc[w] = "select" /\ active[w] /\ timer[w] = "fired"
  /\ timer' = [timer EXCEPT ![w] = "idle"]
  /\ active' = [active EXCEPT ![w] = FALSE]
  /\ wpc' = [wpc EXCEPT ![w] = IF batch[w] = <<>> THEN "select" ELSE "flush"]
  /\ UNCHANGED <<producer, closed, cancelled, batch, length, closer, acked>>

LastFlush(w) == IF batch[w] = <<>> THEN "exited" ELSE "lastFlush"

\* Receiving from a closed channel fails once it is empty.
Drained == closed /\ queue = <<>>

WorkerDrained(w) ==
  /\ wpc[w] = "select" /\ Drained
  /\ wpc' = [wpc EXCEPT ![w] = LastFlush(w)]
  /\ UNCHANGED <<producer, closed, cancelled, batch, length, active, timer, closer, acked>>

\* (Mutant: the buffer is not reset.)
BatchKept(w) == batch

BatchReset(w) == [batch EXCEPT ![w] = <<>>]

\* flush has returned.
Flushed(w) ==
  /\ batch' = BatchReset(w)
  /\ length' = [length EXCEPT ![w] = 0]
  /\ wpc' = [wpc EXCEPT ![w] = IF @ \in {"lastFlush", "lastPost"} THEN "exited" ELSE "select"]

\* send: a done context drops the batch at once.
SendBegin(w) ==
  /\ wpc[w] \in {"flush", "lastFlush"}
  /\ IF cancelled
     THEN Drop(batch[w]) /\ Flushed(w)
     ELSE /\ wpc' = [wpc EXCEPT ![w] = IF @ = "flush" THEN "post" ELSE "lastPost"]
          /\ UNCHANGED <<batch, length, dropped, lost>>
  /\ UNCHANGED <<pc, queue, closed, cancelled, active, timer, closer, acked, refused>>

\* client.Do returns a 2xx answer ...
PostAcked(w) ==
  /\ wpc[w] \in {"post", "lastPost"}
  /\ acked' = acked \cup ToSet(batch[w])
  /\ Flushed(w)
  /\ UNCHANGED <<producer, closed, cancelled, active, timer, closer>>

\* ... or another status, or an error: unreachable, timed out, cancelled.
PostFailed(w) ==
  /\ wpc[w] \in {"post", "lastPost"}
  /\ Drop(batch[w])
  /\ Flushed(w)
  /\ UNCHANGED <<pc, queue, closed, cancelled, active, timer, closer, acked, refused>>

-----------------------------------------------------------------------------
\* Close

\* (Mutant: closed is set without mu.)
CloseUnlocked == TRUE

\* mu.Lock waits for the readers.
NoReaders == \A e \in Event : pc[e] # "send"

CloseQueue ==
  /\ closer = "open"
  /\ NoReaders
  /\ closed' = TRUE
  /\ closer' = "waiting"
  /\ UNCHANGED <<producer, cancelled, worker, acked>>

ShutdownTimeout ==
  /\ closer = "waiting"
  /\ cancelled' = TRUE
  /\ closer' = "draining"
  /\ UNCHANGED <<producer, closed, worker, acked>>

WorkersDone ==
  /\ closer \in {"waiting", "draining"}
  /\ \A w \in Worker : wpc[w] = "exited"
  /\ cancelled' = TRUE
  /\ closer' = "returned"
  /\ UNCHANGED <<producer, closed, worker, acked>>

-----------------------------------------------------------------------------
WorkerStep(w) ==
  \/ WorkerReceive(w) \/ WorkerTimeout(w) \/ WorkerDrained(w)
  \/ SendBegin(w) \/ PostAcked(w) \/ PostFailed(w)

Next ==
  \/ \E e \in Event : EnqueueBegin(e) \/ EnqueueSend(e)
  \/ \E w \in Worker : WorkerStep(w) \/ TimerTick(w)
  \/ CloseQueue \/ ShutdownTimeout \/ WorkersDone

Spec == Init /\ [][Next]_vars

\* Goroutines run, timers fire, and every post ends: the client has a timeout.
FairSpec ==
  /\ Spec
  /\ \A e \in Event : WF_vars(EnqueueSend(e))
  /\ \A w \in Worker : WF_vars(WorkerStep(w)) /\ WF_vars(TimerTick(w))
  /\ WF_vars(ShutdownTimeout \/ WorkersDone)

-----------------------------------------------------------------------------
\* The variables stay in their ranges; the queue within its capacity.
TypeOK ==
  /\ pc \in [Event -> {"new", "send", "done"}]
  /\ queue \in Seq(Event) /\ Len(queue) <= QueueSize
  /\ closed \in BOOLEAN /\ cancelled \in BOOLEAN
  /\ dropped \in Nat
  /\ wpc \in [Worker -> {"select", "flush", "lastFlush", "post", "lastPost", "exited"}]
  /\ batch \in [Worker -> Seq(Event)]
  /\ length \in [Worker -> Nat]
  /\ active \in [Worker -> BOOLEAN]
  /\ timer \in [Worker -> {"idle", "armed", "fired"}]
  /\ closer \in {"open", "waiting", "draining", "returned"}
  /\ acked \subseteq Event /\ lost \subseteq Event /\ refused \subseteq Event

\* No event is sent on the queue after Close has closed it, which would panic.
NoSendOnClosed == closed => \A e \in Event : pc[e] # "send"

\* Where an event can be.
Places(e) ==
  {p \in {<<"send", 0>>} : pc[e] = "send"} \cup
  {<<"queue", i>> : i \in {j \in 1..Len(queue) : queue[j] = e}} \cup
  (UNION {{<<w, i>> : i \in {j \in 1..Len(batch[w]) : batch[w][j] = e}} : w \in Worker}) \cup
  {p \in {<<"acked", 0>>} : e \in acked} \cup {p \in {<<"lost", 0>>} : e \in lost} \cup
  {p \in {<<"refused", 0>>} : e \in refused}

\* Every event is in exactly one place: nothing is forwarded twice, nothing
\* vanishes, and the drop counter is exactly the events neither acknowledged
\* nor still on their way nor refused after Close.
AccountedOnce ==
  /\ \A e \in Event : Cardinality(Places(e)) = IF pc[e] = "new" THEN 0 ELSE 1
  /\ dropped = Cardinality(lost)

\* A batch keeps to its limits: at most MaxEntries events, and at most one
\* payload (with its newline) beyond MaxBatchBytes, which a receiver must take.
BatchBounded ==
  \A w \in Worker :
    /\ Len(batch[w]) <= MaxEntries
    /\ length[w] <= MaxBatchBytes + MaxPayload

\* When Close returns, the queue and all batches have been sent or counted.
NothingLeft ==
  closer = "returned" => queue = <<>> /\ \A w \in Worker : batch[w] = <<>>

\* From enqueue to the end of Close every event is accounted for: in one place,
\* counted if lost, in batches a receiver must take, and nowhere but
\* acknowledged, counted or refused at the end.
EventsAccounted == TypeOK /\ AccountedOnce /\ BatchBounded /\ NothingLeft

\* A queued event is sent or counted without further traffic and without Close:
\* the flush timer is always armed for a batch that waits.
EventLeaves == \A e \in Event : e \in ToSet(queue) ~> e \in acked \cup lost

\* Close returns, however many events are queued and whatever the receiver does.
CloseReturns == closer # "open" ~> closer = "returned"

\* Neither an event nor Close waits for ever: not for a batch to fill up, nor for
\* a receiver that does not answer.
NothingStuck == EventLeaves /\ CloseReturns
=============================================================================
