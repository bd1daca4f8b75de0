-------------------------- MODULE RateLimitProofs --------------------------
(***************************************************************************)
(* Proofs about RateLimit, for every set of requests, followers, keys and  *)
(* policies, every capacity of the leader's table, of connectionSlots and  *)
(* of the local caches, and every time to live.                            *)
(*                                                                         *)
(* The inductive invariant has a part per piece of state: the connections  *)
(* and their slots, the followers' links, the leader's table, and the      *)
(* local caches.                                                           *)
(***************************************************************************)
EXTENDS RateLimit, FiniteSetTheorems, TLAPS

(* Types *)

Args == [node : Node, key : Key, policy : Policy]

Dialling == {"idle", "leader", "lock", "dial"}
Fallback == {"local", "take", "locked"}

ReqRec == [pc : Dialling \cup Fallback \cup {"call", "allowed", "denied"},
           args : {None} \cup Args, call : {"none", "sent", "yes", "no"},
           via : {None} \cup Request, held : {None} \cup Nat]

ReqType == req \in [Request -> ReqRec]

\* What a request was called with is known once it has arrived, and only a
\* follower's requests lock clientMu or fall back to a local bucket.
ArgsKnown ==
  \A r \in Request :
    /\ req[r].pc # "idle" => req[r].args \in Args
    /\ req[r].pc \in {"lock", "dial", "call"} \cup Fallback => req[r].args.node \in Follower
    /\ req[r].call # "none" => req[r].args \in Args /\ req[r].via \in Request

Clock == now \in Nat /\ now <= MaxTime

ReqInv == ReqType /\ ArgsKnown /\ Clock

-----------------------------------------------------------------------------
(* The connections at the leader. *)

Taken == {c \in Request : conn[c].state \in {"slotted", "serving", "leaving"}}

ConnRec == [state : {"none", "dialled", "slotted", "serving", "leaving", "gone"},
            read : Nat, shut : BOOLEAN]

ServerRec == [slots : Nat, stopped : BOOLEAN, close : {"no", "begun", "done"},
              copied : SUBSET Request]

ConnType == conn \in [Request -> ConnRec] /\ server \in ServerRec

\* connectionSlots holds a token for every connection taken on.
SlotsCounted ==
  IsFiniteSet(Taken) /\ server.slots = Cardinality(Taken) /\ server.slots <= MaxConnections

\* A request that has not dialled has no connection.
NotDialled == \A r \in Request : req[r].pc \in {"idle", "leader", "lock"} => conn[r].state = "none"

\* Every connection that is served when Close has begun is one that Close will
\* shut or has shut.
CloseCovers ==
  \A c \in Request : conn[c].state = "serving" =>
    /\ server.close = "begun" => c \in server.copied
    /\ server.close = "done" => conn[c].shut

ConnInv == ConnType /\ SlotsCounted /\ NotDialled /\ CloseCovers

-----------------------------------------------------------------------------
(* The followers' links. *)

LinkRec == [mu : {None} \cup Request, client : {None} \cup Request, used : Nat, closed : BOOLEAN]

LinkType == link \in [Follower -> LinkRec]

\* clientMu is held by the request of that follower that dials or calls.
HolderKnown ==
  /\ \A f \in Follower : link[f].mu # None =>
       req[link[f].mu].pc \in {"dial", "call"} /\ req[link[f].mu].args.node = f
  /\ \A r \in Request : req[r].pc \in {"dial", "call"} => link[req[r].args.node].mu = r

\* A call uses the follower's client; a client was dialled by a request of its
\* follower.
ClientKnown ==
  /\ \A r \in Request : req[r].pc = "call" =>
       req[r].via # None /\ link[req[r].args.node].client = req[r].via
  /\ \A f \in Follower : link[f].client # None =>
       req[link[f].client].pc \notin Dialling /\ req[link[f].client].args.node = f

\* The connection of a call, past or present, has been dialled, and that of a
\* failed one is nobody's client.
ViaKnown ==
  /\ \A s \in Request : req[s].pc \in Dialling => req[s].via = None
  /\ \A s \in Request : req[s].via # None => req[req[s].via].pc \notin Dialling
  /\ \A s \in Request : req[s].pc \in Fallback /\ req[s].via # None =>
       \A f \in Follower : link[f].client # req[s].via

LinkInv == LinkType /\ HolderKnown /\ ClientKnown /\ ViaKnown /\ NoClientAfterClose

-----------------------------------------------------------------------------
(* The leader's table. *)

Entry == [policy : Policy, tokens : Nat, lastSeen : Nat]
Budget == [policy : Policy, tokens : Int]

TableType ==
  /\ limiters \in [Key -> {None} \cup Entry]
  /\ nextCleanup \in Nat
  /\ budget \in [Key -> {None} \cup Budget]

TableInv ==
  /\ TableType
  /\ IsFiniteSet(Entries(limiters)) /\ Cardinality(Entries(limiters)) <= MaxEntries
  /\ \A k \in Entries(limiters) :
       limiters[k].tokens <= limiters[k].policy.burst /\ limiters[k].lastSeen <= now

\* A bucket that nobody uses is full again before its entry expires.
RefillsInTime == \A p \in Policy : p.burst <= p.rate * (EntryTTL + 1)

\* The ideal bucket of a key in the table has at least the tokens of its
\* entry, and those it gained since it was last used.
Kept(k) ==
  /\ budget[k] # None /\ budget[k].policy = limiters[k].policy
  /\ limiters[k].tokens <= budget[k].tokens
  /\ budget[k].tokens <= budget[k].policy.burst
  /\ \/ budget[k].tokens = budget[k].policy.burst
     \/ budget[k].tokens >= budget[k].policy.rate * (now - limiters[k].lastSeen)

Full(k) == budget[k] = None \/ budget[k].tokens = budget[k].policy.burst

\* The ideal bucket of a key that was swept is full.
TokenInv == \A k \in Key : IF limiters[k] # None THEN Kept(k) ELSE Full(k)

-----------------------------------------------------------------------------
(* The local caches. *)

Bucket == [node : Node, key : Key, policy : Policy, tokens : Nat, addedAt : Nat,
           evicted : BOOLEAN]

LocalType == local \in [Node -> Seq(Nat)] /\ buckets \in Seq(Bucket)

Place(b) == <<buckets[b].node, buckets[b].key>>

BucketsSound ==
  \A b \in DOMAIN buckets : buckets[b].tokens <= buckets[b].policy.burst /\ buckets[b].addedAt <= now

\* A cache is in bound and holds buckets of its own, one per key.
CacheSound ==
  \A n \in Node :
    /\ Len(local[n]) <= LocalEntries
    /\ \A i \in DOMAIN local[n] : local[n][i] \in DOMAIN buckets /\ buckets[local[n][i]].node = n
    /\ \A i, j \in DOMAIN local[n] :
         buckets[local[n][i]].key = buckets[local[n][j]].key => i = j

Cached(b) == \E i \in DOMAIN local[buckets[b].node] : local[buckets[b].node][i] = b

\* A bucket is in its cache until it is evicted or replaced.
Reachable ==
  \A b \in DOMAIN buckets :
    Cached(b) \/ buckets[b].evicted \/ \E m \in DOMAIN buckets : m > b /\ Place(m) = Place(b)

InOrder == \A i, j \in DOMAIN buckets : i < j => buckets[i].addedAt <= buckets[j].addedAt

CacheInv == LocalType /\ BucketsSound /\ CacheSound /\ Reachable /\ InOrder /\ OneLocalBucket

IInv == ReqInv /\ ConnInv /\ LinkInv /\ TableInv /\ CacheInv

-----------------------------------------------------------------------------
(* Requests. *)

Others(r) == \A s \in Request \ {r} : req'[s] = req[s]

SameCall(r) ==
  /\ req'[r].via = req[r].via
  /\ req[r].call = "none" => req'[r].call = "none"

\* Every step of a request replaces its own record only.
LEMMA OwnRecord ==
  ASSUME ReqType, NEW r \in Request, NEW x \in ReqRec, req' = [req EXCEPT ![r] = x]
  PROVE  ReqType' /\ Others(r) /\ req'[r] = x
  BY Zenon DEF ReqType, Others

LEMMA GotoEffect ==
  ASSUME ReqType, NEW r \in Request, NEW l \in Fallback \cup {"dial"}, req' = Goto(r, l)
  PROVE  /\ ReqType' /\ Others(r)
         /\ req'[r].pc = l /\ req'[r].args = req[r].args /\ SameCall(r)
<1> DEFINE x == [req[r] EXCEPT !.pc = l]
<1>1. req' = [req EXCEPT ![r] = x]
  BY Zenon DEF Goto
<1>2. req[r] \in ReqRec
  BY Zenon DEF ReqType
<1>3. x \in ReqRec
  BY <1>2, Zenon DEF ReqRec, Dialling, Fallback
<1>4. x.pc = l /\ x.args = req[r].args /\ x.via = req[r].via /\ x.call = req[r].call
  BY <1>2, Zenon DEF ReqRec
<1> HIDE DEF x
<1> QED
  BY <1>1, <1>3, <1>4, OwnRecord, Zenon DEF SameCall

LEMMA AnswerEffect ==
  ASSUME ReqType, NEW r \in Request, NEW ok, req' = Answer(r, ok)
  PROVE  /\ ReqType' /\ Others(r)
         /\ req'[r].pc \in {"allowed", "denied"}
         /\ req'[r].args = req[r].args /\ SameCall(r)
<1> DEFINE l == IF ok THEN "allowed" ELSE "denied"
           x == [req[r] EXCEPT !.pc = l, !.held = None]
<1>1. req' = [req EXCEPT ![r] = x]
  BY Zenon DEF Answer
<1>2. req[r] \in ReqRec
  BY Zenon DEF ReqType
<1>3. l \in {"allowed", "denied"}
  BY Zenon
<1> HIDE DEF l
<1>4. x \in ReqRec
  BY <1>2, <1>3, Zenon DEF ReqRec
<1>5. x.pc = l /\ x.args = req[r].args /\ x.via = req[r].via /\ x.call = req[r].call
  BY <1>2, Zenon DEF ReqRec
<1> HIDE DEF x
<1> QED
  BY <1>1, <1>3, <1>4, <1>5, OwnRecord, Zenon DEF SameCall

LEMMA SendEffect ==
  ASSUME ReqType, NEW r \in Request, NEW c \in Request, Send(r, c)
  PROVE  /\ ReqType' /\ Others(r)
         /\ req'[r].pc = "call" /\ req'[r].args = req[r].args /\ req'[r].via = c
<1> DEFINE x == [req[r] EXCEPT !.pc = "call", !.call = "sent", !.via = c]
<1>1. req' = [req EXCEPT ![r] = x]
  BY Zenon DEF Send
<1>2. req[r] \in ReqRec
  BY Zenon DEF ReqType
<1>3. x \in ReqRec
  BY <1>2, Zenon DEF ReqRec
<1>4. x.pc = "call" /\ x.args = req[r].args /\ x.via = c
  BY <1>2, Zenon DEF ReqRec
<1> HIDE DEF x
<1> QED
  BY <1>1, <1>3, <1>4, OwnRecord, Zenon DEF SameCall

LEMMA ArriveEffect ==
  ASSUME ReqType, NEW r \in Request, Arrive(r)
  PROVE  /\ ReqType' /\ Others(r)
         /\ req'[r].args \in Args /\ SameCall(r)
         /\ \/ req'[r].pc = "leader"
            \/ req'[r].pc = "lock" /\ req'[r].args.node \in Follower
<1>1. PICK a \in Origin[r] :
        req' = [req EXCEPT ![r].args = a, ![r].pc = IF a.node = Leader THEN "leader" ELSE "lock"]
  BY Zenon DEF Arrive
<1>2. a \in Args
  BY RateLimitAssumption, Zenon DEF Args, Node
<1> DEFINE l == IF a.node = Leader THEN "leader" ELSE "lock"
           x == [req[r] EXCEPT !.args = a, !.pc = l]
<1>3. req' = [req EXCEPT ![r] = x]
  BY <1>1, Zenon
<1>4. req[r] \in ReqRec
  BY Zenon DEF ReqType
<1>5. l \in {"leader", "lock"} /\ (l = "lock" => a.node \in Follower)
  BY <1>2, Zenon DEF Args, Node
<1> HIDE DEF l
<1>6. x \in ReqRec
  BY <1>2, <1>4, <1>5, Zenon DEF ReqRec, Dialling
<1>7. x.pc = l /\ x.args = a /\ x.via = req[r].via /\ x.call = req[r].call
  BY <1>4, Zenon DEF ReqRec
<1> HIDE DEF x
<1> QED
  BY <1>2, <1>3, <1>5, <1>6, <1>7, OwnRecord, Zenon DEF SameCall

LEMMA ServeEffect ==
  ASSUME ReqType, NEW r \in Request, Serve(r)
  PROVE  /\ ReqType' /\ Others(r)
         /\ req'[r].pc = req[r].pc /\ req'[r].args = req[r].args /\ SameCall(r)
<1>1. PICK a \in {"yes", "no"} : req' = [req EXCEPT ![r].call = a]
  BY Zenon DEF Serve
<1> DEFINE x == [req[r] EXCEPT !.call = a]
<1>2. req' = [req EXCEPT ![r] = x]
  BY <1>1, Zenon
<1>3. req[r] \in ReqRec
  BY Zenon DEF ReqType
<1>4. x \in ReqRec
  BY <1>3, Zenon DEF ReqRec
<1>5. x.pc = req[r].pc /\ x.args = req[r].args /\ x.via = req[r].via /\ req[r].call # "none"
  BY <1>3, Zenon DEF ReqRec, Serve
<1> HIDE DEF x
<1> QED
  BY <1>2, <1>4, <1>5, OwnRecord, Zenon DEF SameCall

LEMMA TakeUpEffect ==
  ASSUME ReqType, NEW r \in Request, NEW b \in Nat,
         req' = [req EXCEPT ![r].held = b, ![r].pc = "take"]
  PROVE  /\ ReqType' /\ Others(r)
         /\ req'[r].pc = "take" /\ req'[r].args = req[r].args /\ SameCall(r)
<1> DEFINE x == [req[r] EXCEPT !.held = b, !.pc = "take"]
<1>1. req' = [req EXCEPT ![r] = x]
  BY Zenon
<1>2. req[r] \in ReqRec
  BY Zenon DEF ReqType
<1>3. x \in ReqRec
  BY <1>2, Zenon DEF ReqRec, Fallback
<1>4. x.pc = "take" /\ x.args = req[r].args /\ x.via = req[r].via /\ x.call = req[r].call
  BY <1>2, Zenon DEF ReqRec
<1> HIDE DEF x
<1> QED
  BY <1>1, <1>3, <1>4, OwnRecord, Zenon DEF SameCall

\* Get finds nothing, or a live bucket of the key in the node's cache.
LEMMA GetFinds ==
  ASSUME LocalType, NEW n \in Node, NEW k, Get(n, k) # None
  PROVE  /\ \E i \in DOMAIN local[n] : local[n][i] = Get(n, k)
         /\ Get(n, k) \in Nat
         /\ buckets[Get(n, k)].key = k /\ now - buckets[Get(n, k)].addedAt <= LocalTTL
<1> DEFINE found == {b \in Range(local[n]) :
                       buckets[b].key = k /\ now - buckets[b].addedAt <= LocalTTL}
<1>1. Get(n, k) \in found
  BY Zenon DEF Get
<1>2. \A b \in found : /\ \E i \in DOMAIN local[n] : local[n][i] = b
                       /\ buckets[b].key = k /\ now - buckets[b].addedAt <= LocalTTL
  BY Zenon DEF Range
<1>3. \A i \in DOMAIN local[n] : local[n][i] \in Nat
  BY DEF LocalType
<1> QED
  BY <1>1, <1>2, <1>3, Zenon

\* How the request of an action moves: the label it leaves and the one it goes to.
Moves(r, from, to) ==
  /\ ReqType' /\ Others(r)
  /\ req[r].pc \in from /\ req'[r].pc \in to
  /\ req'[r].args = req[r].args

LEMMA LeaderMoves ==
  ASSUME ReqType, NEW r \in Request, AllowLeader(r)
  PROVE  Moves(r, {"leader"}, {"allowed", "denied"}) /\ SameCall(r)
  BY AnswerEffect, Zenon DEF AllowLeader, Moves

LEMMA LockMoves ==
  ASSUME ReqType, NEW r \in Request
  PROVE  /\ LockClosed(r) => Moves(r, {"lock"}, {"local"}) /\ SameCall(r)
         /\ LockDial(r) => Moves(r, {"lock"}, {"dial"}) /\ SameCall(r)
<1>1. ASSUME LockClosed(r) PROVE Moves(r, {"lock"}, {"local"}) /\ SameCall(r)
  BY <1>1, GotoEffect, Zenon DEF LockClosed, Moves, Fallback
<1>2. ASSUME LockDial(r) PROVE Moves(r, {"lock"}, {"dial"}) /\ SameCall(r)
  BY <1>2, GotoEffect, Zenon DEF LockDial, Moves
<1> QED
  BY <1>1, <1>2, Zenon

LEMMA DialMoves ==
  ASSUME ReqType, NEW r \in Request
  PROVE  /\ DialDone(r) => Moves(r, {"dial"}, {"call"}) /\ req'[r].via = r
         /\ DialFails(r) => Moves(r, {"dial"}, {"local"}) /\ SameCall(r)
<1>1. ASSUME DialDone(r) PROVE Moves(r, {"dial"}, {"call"}) /\ req'[r].via = r
  BY <1>1, SendEffect, Zenon DEF DialDone, Moves
<1>2. ASSUME DialFails(r) PROVE Moves(r, {"dial"}, {"local"}) /\ SameCall(r)
  BY <1>2, GotoEffect, Zenon DEF DialFails, Moves, Fallback
<1> QED
  BY <1>1, <1>2, Zenon

LEMMA CallMoves ==
  ASSUME ReqType, NEW r \in Request
  PROVE  /\ Reply(r) => Moves(r, {"call"}, {"allowed", "denied"}) /\ SameCall(r)
         /\ CallFails(r) => Moves(r, {"call"}, {"local"}) /\ SameCall(r)
<1>1. ASSUME Reply(r)
      PROVE  Moves(r, {"call"}, {"allowed", "denied"}) /\ SameCall(r)
  BY <1>1, AnswerEffect, Zenon DEF Reply, Moves
<1>2. ASSUME CallFails(r) PROVE Moves(r, {"call"}, {"local"}) /\ SameCall(r)
  BY <1>2, GotoEffect, Zenon DEF CallFails, Moves, Fallback
<1> QED
  BY <1>1, <1>2, Zenon

LEMMA LockSendMoves ==
  ASSUME ReqInv, LinkInv, NEW r \in Request, LockSend(r)
  PROVE  /\ Moves(r, {"lock"}, {"call"})
         /\ req'[r].via = link[req[r].args.node].client /\ req'[r].via \in Request
<1>1. req[r].args.node \in Follower /\ req[r].pc = "lock"
  BY Zenon DEF LockSend, ReqInv, ArgsKnown
<1>2. link[req[r].args.node].client \in Request
  BY <1>1, Zenon DEF LockSend, Usable, LinkInv, LinkType, LinkRec
<1> QED
  BY <1>1, <1>2, SendEffect, Zenon DEF LockSend, Moves, ReqInv

LEMMA LocalMoves ==
  ASSUME ReqInv, LocalType, NEW r \in Request,
         LocalGet(r) \/ LocalTake(r) \/ LocalAdd(r)
  PROVE  /\ Moves(r, Fallback, Fallback \cup {"allowed", "denied"})
         /\ SameCall(r)
<1>1. ASSUME LocalGet(r)
      PROVE  Moves(r, Fallback, Fallback) /\ SameCall(r)
  <2> DEFINE n == req[r].args.node
             b == Get(n, req[r].args.key)
  <2>1. req[r].pc = "local" /\ n \in Node
    BY <1>1, Zenon DEF LocalGet, ReqInv, ArgsKnown, Fallback, Node
  <2>2. CASE Matches(b, req[r].args.policy)
    <3>1. b \in Nat
      BY <2>1, <2>2, GetFinds, Zenon DEF Matches
    <3>2. req' = [req EXCEPT ![r].held = b, ![r].pc = "take"]
      BY <1>1, <2>2, Zenon DEF LocalGet
    <3> HIDE DEF b
    <3> QED
      BY <2>1, <3>1, <3>2, TakeUpEffect, Zenon DEF Moves, ReqInv, Fallback
  <2>3. CASE ~Matches(b, req[r].args.policy)
    <3>1. req' = Goto(r, "locked")
      BY <1>1, <2>3, Zenon DEF LocalGet
    <3> QED
      BY <2>1, <3>1, GotoEffect, Zenon DEF Moves, ReqInv, Fallback
  <2> QED
    BY <2>2, <2>3, Zenon
<1>2. ASSUME LocalTake(r)
      PROVE  Moves(r, Fallback, {"allowed", "denied"}) /\ SameCall(r)
  BY <1>2, AnswerEffect, Zenon DEF LocalTake, Take, Moves, ReqInv, Fallback
<1>3. ASSUME LocalAdd(r)
      PROVE  Moves(r, Fallback, {"allowed", "denied"}) /\ SameCall(r)
  BY <1>3, AnswerEffect, Zenon DEF LocalAdd, Take, Moves, ReqInv, Fallback
<1> QED
  BY <1>1, <1>2, <1>3, Zenon DEF Moves

-----------------------------------------------------------------------------
(* ReqInv. *)

LEMMA ReqKept ==
  ASSUME ReqInv, UNCHANGED now, NEW r \in Request, ReqType', Others(r),
         req'[r].pc # "idle" => req'[r].args \in Args,
         req'[r].pc \in {"lock", "dial", "call"} \cup Fallback => req'[r].args.node \in Follower,
         req'[r].call # "none" => req'[r].args \in Args /\ req'[r].via \in Request
  PROVE  ReqInv'
<1>1. ASSUME NEW s \in Request
      PROVE  /\ req'[s].pc # "idle" => req'[s].args \in Args
             /\ req'[s].pc \in {"lock", "dial", "call"} \cup Fallback => req'[s].args.node \in Follower
             /\ req'[s].call # "none" => req'[s].args \in Args /\ req'[s].via \in Request
  BY Zenon DEF ReqInv, ArgsKnown, Others
<1> QED
  BY <1>1, Zenon DEF ReqInv, ArgsKnown, Clock

LEMMA MovesKeep ==
  ASSUME ReqInv, UNCHANGED now, NEW r \in Request, NEW from, NEW to, Moves(r, from, to),
         "idle" \notin from, from \subseteq {"lock", "dial", "call"} \cup Fallback
                             \/ to \cap ({"lock", "dial", "call"} \cup Fallback) = {},
         SameCall(r) \/ req'[r].via \in Request
  PROVE  ReqInv'
<1>1. req[r].pc # "idle" /\ req[r].args \in Args /\ ReqType' /\ Others(r)
  BY Zenon DEF Moves, ReqInv, ArgsKnown
<1>2. req'[r].pc \in {"lock", "dial", "call"} \cup Fallback => req'[r].args.node \in Follower
  BY Zenon DEF Moves, ReqInv, ArgsKnown
<1>3. req'[r].args \in Args
  BY <1>1, Zenon DEF Moves
<1>4. req'[r].call # "none" => req'[r].via \in Request
  BY Zenon DEF SameCall, ReqInv, ArgsKnown
<1> QED
  BY <1>1, <1>2, <1>3, <1>4, ReqKept, Zenon

LEMMA ReqStutter ==
  ASSUME ReqInv, UNCHANGED <<now, req>>
  PROVE  ReqInv'
  BY Zenon DEF ReqInv, ReqType, ArgsKnown, Clock

LEMMA ReqStep ==
  ASSUME ReqInv, LinkInv, LocalType, [Next]_vars
  PROVE  ReqInv'
<1>1. ASSUME NEW r \in Request, Arrive(r) PROVE ReqInv'
  <2>1. UNCHANGED now /\ ReqType
    BY <1>1, Zenon DEF Arrive, ReqInv
  <2>2. req'[r].call # "none" => req'[r].via \in Request
    BY <1>1, <2>1, ArriveEffect, Zenon DEF SameCall, ReqInv, ArgsKnown
  <2> QED
    BY <1>1, <2>1, <2>2, ArriveEffect, ReqKept, Zenon DEF Fallback
<1>2. ASSUME NEW r \in Request, Serve(r) PROVE ReqInv'
  <2>1. UNCHANGED now /\ ReqType /\ req[r].call = "sent"
    BY <1>2, Zenon DEF Serve, ReqInv
  <2>2. /\ req[r].args \in Args /\ req[r].via \in Request
        /\ req[r].pc \in {"lock", "dial", "call"} \cup Fallback => req[r].args.node \in Follower
    BY <2>1, Zenon DEF ReqInv, ArgsKnown
  <2> QED
    BY <1>2, <2>1, <2>2, ServeEffect, ReqKept, Zenon DEF SameCall
<1>3. ASSUME NEW r \in Request, Handler(r) PROVE ReqInv'
  <2> USE DEF ReqInv
  <2>0. UNCHANGED now
    BY <1>3, Zenon
       DEF Handler, AllowLeader, LockClosed, LockDial, LockSend, DialDone, DialFails, Reply,
           CallFails, LocalGet, LocalTake, LocalAdd
  <2>1. CASE AllowLeader(r)
    BY <2>0, <2>1, LeaderMoves, MovesKeep, Zenon DEF Fallback
  <2>2. CASE LockClosed(r) \/ LockDial(r)
    BY <2>0, <2>2, LockMoves, MovesKeep, Zenon DEF Fallback
  <2>3. CASE LockSend(r)
    BY <2>0, <2>3, LockSendMoves, MovesKeep, Zenon DEF Fallback
  <2>4. CASE DialDone(r) \/ DialFails(r)
    BY <2>0, <2>4, DialMoves, MovesKeep, Zenon DEF Fallback
  <2>5. CASE Reply(r) \/ CallFails(r)
    BY <2>0, <2>5, CallMoves, MovesKeep, Zenon DEF Fallback
  <2>6. CASE LocalGet(r) \/ LocalTake(r) \/ LocalAdd(r)
    BY <2>0, <2>6, LocalMoves, MovesKeep, Zenon DEF Fallback
  <2> QED
    BY <1>3, <2>1, <2>2, <2>3, <2>4, <2>5, <2>6, Zenon DEF Handler
<1>4. ASSUME NEW c \in Request, Accept(c) \/ Connection(c) PROVE ReqInv'
  BY <1>4, ReqStutter, Zenon DEF Accept, Connection, Register, Deregister, Release
<1>5. ASSUME CloseLeader \/ CloseSockets PROVE ReqInv'
  BY <1>5, ReqStutter, Zenon DEF CloseLeader, CloseSockets
<1>6. ASSUME NEW f \in Follower, CloseFollower(f) PROVE ReqInv'
  BY <1>6, ReqStutter, Zenon DEF CloseFollower
<1>7. ASSUME Tick PROVE ReqInv'
  <2>1. now < MaxTime /\ now' = now + 1 /\ UNCHANGED req /\ MaxTime \in Nat
    BY <1>7, RateLimitAssumption, Zenon DEF Tick
  <2>2. Clock'
    BY <2>1 DEF ReqInv, Clock
  <2> QED
    BY <2>1, <2>2, Zenon DEF ReqInv, ReqType, ArgsKnown
<1>8. ASSUME UNCHANGED vars PROVE ReqInv'
  BY <1>8, ReqStutter, Zenon DEF vars
<1> QED
  BY <1>1, <1>2, <1>3, <1>4, <1>5, <1>6, <1>7, <1>8, Zenon DEF Next

-----------------------------------------------------------------------------
(* LinkInv. *)

\* A step that leaves the links alone: its request neither holds clientMu nor
\* comes to hold it, and does not start a call.
LEMMA LinkQuiet ==
  ASSUME LinkInv, ReqInv, UNCHANGED link, NEW r \in Request, ReqType', Others(r),
         req[r].pc \notin {"dial", "call"}, req'[r].pc \notin {"dial", "call"},
         req'[r].via = req[r].via,
         req[r].pc \in Dialling \/ (req'[r].pc \notin Dialling /\ req'[r].args = req[r].args),
         req'[r].pc \in Fallback => req[r].pc \in Fallback \cup Dialling
  PROVE  LinkInv'
<1> USE DEF LinkInv
<1>1. LinkType' /\ NoClientAfterClose'
  BY Zenon DEF LinkType, LinkRec, NoClientAfterClose
<1>2. HolderKnown'
  <2>1. ASSUME NEW f \in Follower, link[f].mu # None
        PROVE  req'[link[f].mu].pc \in {"dial", "call"} /\ req'[link[f].mu].args.node = f
    <3>1. link[f].mu \in Request
      BY <2>1, Zenon DEF LinkType, LinkRec
    <3> QED
      BY <2>1, <3>1 DEF HolderKnown, Others
  <2>2. ASSUME NEW s \in Request, req'[s].pc \in {"dial", "call"}
        PROVE  link[req'[s].args.node].mu = s
    BY <2>2 DEF HolderKnown, Others
  <2> QED
    BY <2>1, <2>2, Zenon DEF HolderKnown
<1>3. ClientKnown'
  <2>1. ASSUME NEW s \in Request, req'[s].pc = "call"
        PROVE  req'[s].via # None /\ link[req'[s].args.node].client = req'[s].via
    BY <2>1 DEF ClientKnown, Others
  <2>2. ASSUME NEW f \in Follower, link[f].client # None
        PROVE  req'[link[f].client].pc \notin Dialling /\ req'[link[f].client].args.node = f
    <3>1. link[f].client \in Request
      BY <2>2, Zenon DEF LinkType, LinkRec
    <3> QED
      BY <2>2, <3>1, Zenon DEF ClientKnown, Others
  <2> QED
    BY <2>1, <2>2, Zenon DEF ClientKnown
<1>4. ViaKnown'
  <2>1. ASSUME NEW s \in Request, req'[s].pc \in Dialling PROVE req'[s].via = None
    BY <2>1, Zenon DEF ViaKnown, Others
  <2>2. ASSUME NEW s \in Request, req'[s].via # None PROVE req'[req'[s].via].pc \notin Dialling
    <3>1. req'[s].via = req[s].via /\ req[s].via \in Request
      BY <2>2, Zenon DEF Others, ReqInv, ReqType, ReqRec
    <3> QED
      BY <2>2, <3>1, Zenon DEF ViaKnown, Others
  <2>3. ASSUME NEW s \in Request, req'[s].pc \in Fallback, req'[s].via # None, NEW f \in Follower
        PROVE  link[f].client # req'[s].via
    BY <2>3, Zenon DEF ViaKnown, Others
  <2> QED
    BY <2>1, <2>2, <2>3, Zenon DEF ViaKnown
<1> QED
  BY <1>1, <1>2, <1>3, <1>4, Zenon

\* A step that changes neither the links nor where the requests are.
LEMMA LinkSame ==
  ASSUME LinkInv, UNCHANGED link, ReqInv,
         \A s \in Request : /\ req'[s].pc = req[s].pc /\ req'[s].args = req[s].args
                            /\ req'[s].via = req[s].via
  PROVE  LinkInv'
<1> USE DEF LinkInv
<1>1. LinkType' /\ NoClientAfterClose'
  BY Zenon DEF LinkType, LinkRec, NoClientAfterClose
<1>2. HolderKnown'
  <2>1. \A f \in Follower : link[f].mu # None => link[f].mu \in Request
    BY Zenon DEF LinkType, LinkRec
  <2> QED
    BY <2>1, Zenon DEF HolderKnown
<1>3. ClientKnown'
  <2>1. \A f \in Follower : link[f].client # None => link[f].client \in Request
    BY Zenon DEF LinkType, LinkRec
  <2> QED
    BY <2>1, Zenon DEF ClientKnown
<1>4. ViaKnown'
  <2>1. \A s \in Request : req[s].via # None => req[s].via \in Request
    BY Zenon DEF ReqInv, ReqType, ReqRec
  <2> QED
    BY <2>1 DEF ViaKnown
<1> QED
  BY <1>1, <1>2, <1>3, <1>4, Zenon

\* A step of a request under clientMu: it takes the lock, holds it or gives it
\* back; it uses the client, makes itself the client, or drops the client.
LEMMA LinkBusy ==
  ASSUME LinkInv, ReqInv, NEW r \in Request, ReqType', Others(r),
         NEW f \in Follower, req[r].args.node = f, req'[r].args = req[r].args,
         LinkType', \A g \in Follower \ {f} : link'[g] = link[g],
         link[f].mu \in {None, r}, ~link'[f].closed,
         \/ link'[f].mu = r /\ req'[r].pc \in {"dial", "call"}
         \/ link'[f].mu = None /\ req'[r].pc \notin {"dial", "call"},
         req'[r].pc = "call" => req'[r].via # None /\ link'[f].client = req'[r].via,
         \/ link'[f].client \in {None, link[f].client}
         \/ link'[f].client = r /\ req[r].pc \in Dialling /\ req'[r].pc \notin Dialling,
         req[r].pc \in Dialling \/ req'[r].pc \notin Dialling,
         req'[r].pc \in Dialling => req'[r].via = None,
         req'[r].via # None => \/ req'[r].via = req[r].via
                               \/ req'[r].via = link[f].client
                               \/ req'[r].via = r /\ req'[r].pc \notin Dialling,
         req'[r].pc \in Fallback /\ req'[r].via # None
           => link'[f].client = None /\ req'[r].via = link[f].client
  PROVE  LinkInv'
<1> USE DEF LinkInv
<1>0. None \notin Request /\ \A s \in Request \ {r} :
        req'[s] = req[s] /\ (req[s].pc \in {"dial", "call"} => req[s].args.node # f)
  BY RateLimitAssumption DEF HolderKnown, Others
<1>1. NoClientAfterClose'
  BY DEF NoClientAfterClose
<1>2. HolderKnown'
  <2>1. ASSUME NEW g \in Follower, link'[g].mu # None
        PROVE  req'[link'[g].mu].pc \in {"dial", "call"} /\ req'[link'[g].mu].args.node = g
    <3>1. CASE g = f
      BY <2>1, <3>1, Zenon
    <3>2. CASE g # f
      <4>1. link'[g] = link[g] /\ link[g].mu \in Request
        BY <2>1, <3>2, Zenon DEF LinkType, LinkRec
      <4> QED
        BY <1>0, <2>1, <3>2, <4>1 DEF HolderKnown
    <3> QED
      BY <3>1, <3>2, Zenon
  <2>2. ASSUME NEW s \in Request, req'[s].pc \in {"dial", "call"}
        PROVE  link'[req'[s].args.node].mu = s
    <3>1. CASE s = r
      BY <2>2, <3>1, Zenon
    <3>2. CASE s # r
      <4>1. req'[s] = req[s] /\ req[s].args.node \in Follower \ {f}
        BY <1>0, <2>2, <3>2, Zenon DEF ReqInv, ArgsKnown
      <4> QED
        BY <2>2, <4>1 DEF HolderKnown
    <3> QED
      BY <3>1, <3>2, Zenon
  <2> QED
    BY <2>1, <2>2, Zenon DEF HolderKnown
<1>3. ClientKnown'
  <2>1. ASSUME NEW s \in Request, req'[s].pc = "call"
        PROVE  req'[s].via # None /\ link'[req'[s].args.node].client = req'[s].via
    <3>1. CASE s = r
      BY <2>1, <3>1, Zenon
    <3>2. CASE s # r
      <4>1. req'[s] = req[s] /\ req[s].args.node \in Follower \ {f}
        BY <1>0, <2>1, <3>2, Zenon DEF ReqInv, ArgsKnown
      <4> QED
        BY <2>1, <4>1 DEF ClientKnown
    <3> QED
      BY <3>1, <3>2, Zenon
  <2>2. ASSUME NEW g \in Follower, link'[g].client # None
        PROVE  req'[link'[g].client].pc \notin Dialling /\ req'[link'[g].client].args.node = g
    <3>1. CASE link'[g].client = link[g].client
      <4>1. link[g].client \in Request
        BY <2>2, <3>1, Zenon DEF LinkType, LinkRec
      <4> QED
        BY <2>2, <3>1, <4>1 DEF ClientKnown, Others
    <3>2. CASE g = f /\ link'[f].client = r /\ req'[r].pc \notin Dialling
      BY <3>2, Zenon
    <3> QED
      BY <2>2, <3>1, <3>2, Zenon
  <2> QED
    BY <2>1, <2>2, Zenon DEF ClientKnown
<1>4. ViaKnown'
  <2>1. ASSUME NEW s \in Request, req'[s].pc \in Dialling PROVE req'[s].via = None
    BY <1>0, <2>1 DEF ViaKnown
  <2>2. ASSUME NEW s \in Request, req'[s].via # None PROVE req'[req'[s].via].pc \notin Dialling
    <3>1. req'[s].via \in Request
      BY <2>2, Zenon DEF ReqType, ReqRec
    <3>2. CASE req'[s].via = req[s].via \/ req'[s].via = link[f].client
      <4>1. req[req'[s].via].pc \notin Dialling
        BY <2>2, <3>2, Zenon DEF ViaKnown, ClientKnown
      <4> QED
        BY <3>1, <4>1, Zenon DEF Others
    <3>3. CASE req'[s].via = r /\ req'[r].pc \notin Dialling
      BY <3>3, Zenon
    <3> QED
      BY <1>0, <2>2, <3>2, <3>3, Zenon
  <2>3. ASSUME NEW s \in Request, req'[s].pc \in Fallback, req'[s].via # None, NEW g \in Follower
        PROVE  link'[g].client # req'[s].via
    <3>1. CASE s = r
      <4>1. link'[f].client = None /\ req'[r].via = link[f].client
        BY <2>3, <3>1, Zenon
      <4>2. req[link[f].client].args.node = f
        BY <2>3, <3>1, <4>1, Zenon DEF ClientKnown
      <4>3. g # f => link[g].client # link[f].client
        BY <2>3, <3>1, <4>1, <4>2, Zenon DEF ClientKnown
      <4> QED
        BY <2>3, <3>1, <4>1, <4>3, Zenon
    <3>2. CASE s # r
      <4>1. req'[s] = req[s] /\ link[g].client # req[s].via /\ req[req[s].via].pc \notin Dialling
        BY <1>0, <2>3, <3>2 DEF ViaKnown
      <4> QED
        BY <2>3, <4>1, Zenon
    <3> QED
      BY <3>1, <3>2, Zenon
  <2> QED
    BY <2>1, <2>2, <2>3, Zenon DEF ViaKnown
<1> QED
  BY <1>1, <1>2, <1>3, <1>4, Zenon

LEMMA LinkOwn ==
  ASSUME LinkType, NEW f \in Follower, NEW x \in LinkRec, link' = [link EXCEPT ![f] = x]
  PROVE  LinkType' /\ (\A g \in Follower \ {f} : link'[g] = link[g]) /\ link'[f] = x
  BY Zenon DEF LinkType

\* What an action that changes a link leaves in it.
Linked(f, mu, client, closed) ==
  /\ LinkType' /\ \A g \in Follower \ {f} : link'[g] = link[g]
  /\ link'[f].mu = mu /\ link'[f].client = client /\ link'[f].closed = closed

LEMMA LinkEffect ==
  ASSUME LinkType, NEW f \in Follower, NEW r \in Request, Clock
  PROVE  /\ link' = [link EXCEPT ![f].mu = r, ![f].client = None, ![f].used = 0]
              => Linked(f, r, None, link[f].closed)
         /\ link' = [link EXCEPT ![f].mu = r]
              => Linked(f, r, link[f].client, link[f].closed)
         /\ link' = [link EXCEPT ![f].client = r, ![f].used = now]
              => Linked(f, link[f].mu, r, link[f].closed)
         /\ link' = [link EXCEPT ![f].mu = None]
              => Linked(f, None, link[f].client, link[f].closed)
         /\ link' = [link EXCEPT ![f].mu = None, ![f].used = now]
              => Linked(f, None, link[f].client, link[f].closed)
         /\ link' = [link EXCEPT ![f].mu = None, ![f].used = 0, ![f].client = None]
              => Linked(f, None, None, link[f].closed)
<1>0. link[f] \in LinkRec /\ now \in Nat /\ 0 \in Nat
  BY Zenon DEF LinkType, Clock
<1>1. ASSUME NEW x \in LinkRec, link' = [link EXCEPT ![f] = x]
      PROVE  Linked(f, x.mu, x.client, x.closed)
  BY <1>1, LinkOwn, Zenon DEF Linked
<1>2. ASSUME link' = [link EXCEPT ![f].mu = r, ![f].client = None, ![f].used = 0]
      PROVE  Linked(f, r, None, link[f].closed)
  <2> DEFINE x == [link[f] EXCEPT !.mu = r, !.client = None, !.used = 0]
  <2>1. x \in LinkRec /\ x.mu = r /\ x.client = None /\ x.closed = link[f].closed
    BY <1>0, Zenon DEF LinkRec
  <2>2. link' = [link EXCEPT ![f] = x]
    BY <1>2, Zenon
  <2> HIDE DEF x
  <2> QED
    BY <1>1, <2>1, <2>2, Zenon
<1>3. ASSUME link' = [link EXCEPT ![f].mu = r]
      PROVE  Linked(f, r, link[f].client, link[f].closed)
  <2> DEFINE x == [link[f] EXCEPT !.mu = r]
  <2>1. x \in LinkRec /\ x.mu = r /\ x.client = link[f].client /\ x.closed = link[f].closed
    BY <1>0, Zenon DEF LinkRec
  <2>2. link' = [link EXCEPT ![f] = x]
    BY <1>3, Zenon
  <2> HIDE DEF x
  <2> QED
    BY <1>1, <2>1, <2>2, Zenon
<1>4. ASSUME link' = [link EXCEPT ![f].client = r, ![f].used = now]
      PROVE  Linked(f, link[f].mu, r, link[f].closed)
  <2> DEFINE x == [link[f] EXCEPT !.client = r, !.used = now]
  <2>1. x \in LinkRec /\ x.mu = link[f].mu /\ x.client = r /\ x.closed = link[f].closed
    BY <1>0, Zenon DEF LinkRec
  <2>2. link' = [link EXCEPT ![f] = x]
    BY <1>4, Zenon
  <2> HIDE DEF x
  <2> QED
    BY <1>1, <2>1, <2>2, Zenon
<1>5. ASSUME link' = [link EXCEPT ![f].mu = None]
      PROVE  Linked(f, None, link[f].client, link[f].closed)
  <2> DEFINE x == [link[f] EXCEPT !.mu = None]
  <2>1. x \in LinkRec /\ x.mu = None /\ x.client = link[f].client /\ x.closed = link[f].closed
    BY <1>0, Zenon DEF LinkRec
  <2>2. link' = [link EXCEPT ![f] = x]
    BY <1>5, Zenon
  <2> HIDE DEF x
  <2> QED
    BY <1>1, <2>1, <2>2, Zenon
<1>6. ASSUME link' = [link EXCEPT ![f].mu = None, ![f].used = now]
      PROVE  Linked(f, None, link[f].client, link[f].closed)
  <2> DEFINE x == [link[f] EXCEPT !.mu = None, !.used = now]
  <2>1. x \in LinkRec /\ x.mu = None /\ x.client = link[f].client /\ x.closed = link[f].closed
    BY <1>0, Zenon DEF LinkRec
  <2>2. link' = [link EXCEPT ![f] = x]
    BY <1>6, Zenon
  <2> HIDE DEF x
  <2> QED
    BY <1>1, <2>1, <2>2, Zenon
<1>7. ASSUME link' = [link EXCEPT ![f].mu = None, ![f].used = 0, ![f].client = None]
      PROVE  Linked(f, None, None, link[f].closed)
  <2> DEFINE x == [link[f] EXCEPT !.mu = None, !.used = 0, !.client = None]
  <2>1. x \in LinkRec /\ x.mu = None /\ x.client = None /\ x.closed = link[f].closed
    BY <1>0, Zenon DEF LinkRec
  <2>2. link' = [link EXCEPT ![f] = x]
    BY <1>7, Zenon
  <2> HIDE DEF x
  <2> QED
    BY <1>1, <2>1, <2>2, Zenon
<1> QED
  BY <1>2, <1>3, <1>4, <1>5, <1>6, <1>7, Zenon

LEMMA LinkLockDial ==
  ASSUME ReqInv, LinkInv, NEW r \in Request, LockDial(r)
  PROVE  LinkInv'
<1> DEFINE f == req[r].args.node
<1>1. req[r].pc = "lock" /\ f \in Follower /\ link[f].mu = None /\ ~link[f].closed
  BY Zenon DEF LockDial, MayUse, ReqInv, ArgsKnown
<1>2. Linked(f, r, None, link[f].closed)
  BY <1>1, LinkEffect, Zenon DEF LockDial, LinkInv, ReqInv
<1>3. Moves(r, {"lock"}, {"dial"}) /\ req'[r].via = req[r].via
  BY LockMoves, Zenon DEF ReqInv, SameCall
<1>4. req[r].via = None
  BY <1>1, Zenon DEF LinkInv, ViaKnown, Dialling
<1> HIDE DEF f
<1> QED
  BY <1>1, <1>2, <1>3, <1>4, LinkBusy, Zenon DEF Linked, Moves, Dialling, Fallback, f

LEMMA LinkLockSend ==
  ASSUME ReqInv, LinkInv, NEW r \in Request, LockSend(r)
  PROVE  LinkInv'
<1> DEFINE f == req[r].args.node
<1>1. req[r].pc = "lock" /\ f \in Follower /\ link[f].mu = None /\ ~link[f].closed
  BY Zenon DEF LockSend, MayUse, ReqInv, ArgsKnown
<1>2. Linked(f, r, link[f].client, link[f].closed)
  BY <1>1, LinkEffect, Zenon DEF LockSend, LinkInv, ReqInv
<1>3. Moves(r, {"lock"}, {"call"}) /\ req'[r].via = link[f].client /\ req'[r].via # None
  BY LockSendMoves, RateLimitAssumption, Zenon
<1> HIDE DEF f
<1> QED
  BY <1>1, <1>2, <1>3, LinkBusy, Zenon DEF Linked, Moves, Dialling, Fallback, f

\* A request that dials or calls holds clientMu of a coordinator that is open.
LEMMA HolderOpen ==
  ASSUME ReqInv, LinkInv, NEW r \in Request, req[r].pc \in {"dial", "call"}
  PROVE  /\ req[r].args.node \in Follower /\ link[req[r].args.node].mu = r
         /\ ~link[req[r].args.node].closed
<1>1. req[r].args.node \in Follower /\ link[req[r].args.node].mu = r /\ r # None
  BY RateLimitAssumption, Zenon DEF ReqInv, ArgsKnown, LinkInv, HolderKnown
<1> QED
  BY <1>1, Zenon DEF LinkInv, NoClientAfterClose

LEMMA LinkDialDone ==
  ASSUME ReqInv, LinkInv, NEW r \in Request, DialDone(r)
  PROVE  LinkInv'
<1> DEFINE f == req[r].args.node
<1>1. req[r].pc = "dial" /\ f \in Follower /\ link[f].mu = r /\ ~link[f].closed
  BY HolderOpen, Zenon DEF DialDone
<1>2. Linked(f, r, r, link[f].closed)
  BY <1>1, LinkEffect, Zenon DEF DialDone, LinkInv, ReqInv
<1>3. Moves(r, {"dial"}, {"call"}) /\ req'[r].via = r /\ r # None
  BY DialMoves, RateLimitAssumption, Zenon DEF ReqInv
<1> HIDE DEF f
<1> QED
  BY <1>1, <1>2, <1>3, LinkBusy, Zenon DEF Linked, Moves, Dialling, Fallback, f

LEMMA LinkDialFails ==
  ASSUME ReqInv, LinkInv, NEW r \in Request, DialFails(r)
  PROVE  LinkInv'
<1> DEFINE f == req[r].args.node
<1>1. req[r].pc = "dial" /\ f \in Follower /\ link[f].mu = r /\ ~link[f].closed
  BY HolderOpen, Zenon DEF DialFails
<1>2. Linked(f, None, link[f].client, link[f].closed)
  BY <1>1, LinkEffect, Zenon DEF DialFails, Unlocked, LinkInv, ReqInv
<1>3. Moves(r, {"dial"}, {"local"}) /\ req'[r].via = req[r].via
  BY DialMoves, Zenon DEF ReqInv, SameCall
<1>4. req[r].via = None
  BY <1>1, Zenon DEF LinkInv, ViaKnown, Dialling
<1> HIDE DEF f
<1> QED
  BY <1>1, <1>2, <1>3, <1>4, LinkBusy, Zenon DEF Linked, Moves, Dialling, Fallback, f

LEMMA LinkReply ==
  ASSUME ReqInv, LinkInv, NEW r \in Request, Reply(r)
  PROVE  LinkInv'
<1> DEFINE f == req[r].args.node
<1>1. req[r].pc = "call" /\ f \in Follower /\ link[f].mu = r /\ ~link[f].closed
  BY HolderOpen, Zenon DEF Reply
<1>2. Linked(f, None, link[f].client, link[f].closed)
  BY <1>1, LinkEffect, Zenon DEF Reply, LinkInv, ReqInv
<1>3. Moves(r, {"call"}, {"allowed", "denied"}) /\ req'[r].via = req[r].via
  BY CallMoves, Zenon DEF ReqInv, SameCall
<1> HIDE DEF f
<1> QED
  BY <1>1, <1>2, <1>3, LinkBusy, Zenon DEF Linked, Moves, Dialling, Fallback, f

LEMMA LinkCallFails ==
  ASSUME ReqInv, LinkInv, NEW r \in Request, CallFails(r)
  PROVE  LinkInv'
<1> DEFINE f == req[r].args.node
<1>1. req[r].pc = "call" /\ f \in Follower /\ link[f].mu = r /\ ~link[f].closed
  BY HolderOpen, Zenon DEF CallFails
<1>2. Linked(f, None, None, link[f].closed)
  BY <1>1, LinkEffect, Zenon DEF CallFails, ClientAfterFailure, LinkInv, ReqInv
<1>3. Moves(r, {"call"}, {"local"}) /\ req'[r].via = req[r].via
  BY CallMoves, Zenon DEF ReqInv, SameCall
<1>4. req[r].via = link[f].client
  BY <1>1, Zenon DEF LinkInv, ClientKnown
<1> HIDE DEF f
<1> QED
  BY <1>1, <1>2, <1>3, <1>4, LinkBusy, Zenon DEF Linked, Moves, Dialling, Fallback, f

LEMMA LinkCloseFollower ==
  ASSUME ReqInv, LinkInv, NEW f \in Follower, CloseFollower(f)
  PROVE  LinkInv'
<1> USE DEF LinkInv
<1>0. UNCHANGED req /\ link[f].mu = None
  BY Zenon DEF CloseFollower
<1>1. Linked(f, None, None, TRUE)
  <2>1. link' = [link EXCEPT ![f].closed = TRUE, ![f].client = None, ![f].used = 0]
    BY Zenon DEF CloseFollower
  <2> DEFINE x == [link[f] EXCEPT !.closed = TRUE, !.client = None, !.used = 0]
  <2>2. x \in LinkRec /\ x.mu = None /\ x.client = None /\ x.closed = TRUE
    BY <1>0, Zenon DEF LinkType, LinkRec
  <2>3. link' = [link EXCEPT ![f] = x]
    BY <2>1, Zenon
  <2> HIDE DEF x
  <2> QED
    BY <2>2, <2>3, LinkOwn, Zenon DEF Linked
<1>2. NoClientAfterClose'
  BY <1>1, Zenon DEF NoClientAfterClose, Linked
<1>3. \A r \in Request : req[r].pc \in {"dial", "call"} => req[r].args.node \in Follower \ {f}
  BY <1>0, RateLimitAssumption DEF HolderKnown, ReqInv, ArgsKnown
<1>4. HolderKnown'
  BY <1>0, <1>1, <1>3 DEF HolderKnown, Linked
<1>5. ClientKnown'
  BY <1>0, <1>1, <1>3, Zenon DEF ClientKnown, Linked
<1>6. ViaKnown'
  BY <1>0, <1>1, Zenon DEF ViaKnown, Linked
<1> QED
  BY <1>1, <1>2, <1>4, <1>5, <1>6, Zenon DEF Linked

LEMMA LinkStep ==
  ASSUME ReqInv, LinkInv, LocalType, [Next]_vars
  PROVE  LinkInv'
<1>1. ASSUME NEW r \in Request, Arrive(r) PROVE LinkInv'
  <2>1. UNCHANGED link /\ ReqType /\ req[r].pc = "idle"
    BY <1>1, Zenon DEF Arrive, ReqInv
  <2>2. /\ ReqType' /\ Others(r) /\ req'[r].via = req[r].via
        /\ req'[r].pc \in {"leader", "lock"}
    BY <1>1, <2>1, ArriveEffect, Zenon DEF SameCall
  <2>3. /\ req[r].pc \in Dialling /\ req[r].pc \notin {"dial", "call"}
        /\ req'[r].pc \notin {"dial", "call"} /\ req'[r].pc \notin Fallback
    BY <2>1, <2>2, Zenon DEF Dialling, Fallback
  <2> QED
    BY <2>1, <2>2, <2>3, LinkQuiet, Zenon
<1>2. ASSUME NEW r \in Request, Serve(r) PROVE LinkInv'
  <2>1. UNCHANGED link /\ ReqType
    BY <1>2, Zenon DEF Serve, ReqInv
  <2> QED
    BY <1>2, <2>1, ServeEffect, LinkSame, Zenon DEF SameCall, Others
<1>3. ASSUME NEW r \in Request, Handler(r) PROVE LinkInv'
  <2>1. CASE AllowLeader(r)
    <3>1. UNCHANGED link /\ ReqType
      BY <2>1, Zenon DEF AllowLeader, ReqInv
    <3> QED
      BY <2>1, <3>1, LeaderMoves, LinkQuiet, Zenon DEF Moves, SameCall, Dialling, Fallback
  <2>2. CASE LockClosed(r)
    <3>1. UNCHANGED link /\ ReqType
      BY <2>2, Zenon DEF LockClosed, ReqInv
    <3> QED
      BY <2>2, <3>1, LockMoves, LinkQuiet, Zenon DEF Moves, SameCall, Dialling, Fallback
  <2>3. CASE LocalGet(r) \/ LocalTake(r) \/ LocalAdd(r)
    <3>1. UNCHANGED link
      BY <2>3, Zenon DEF LocalGet, LocalTake, LocalAdd
    <3> QED
      BY <2>3, <3>1, LocalMoves, LinkQuiet, Zenon DEF Moves, SameCall, Dialling, Fallback
  <2> QED
    BY <1>3, <2>1, <2>2, <2>3, LinkLockDial, LinkLockSend, LinkDialDone, LinkDialFails, LinkReply,
       LinkCallFails, Zenon
       DEF Handler
<1>4. ASSUME NEW c \in Request, Accept(c) \/ Connection(c) PROVE LinkInv'
  BY <1>4, LinkSame, Zenon DEF Accept, Connection, Register, Deregister, Release
<1>5. ASSUME CloseLeader \/ CloseSockets PROVE LinkInv'
  BY <1>5, LinkSame, Zenon DEF CloseLeader, CloseSockets
<1>6. ASSUME Tick PROVE LinkInv'
  BY <1>6, LinkSame, Zenon DEF Tick
<1>7. ASSUME UNCHANGED vars PROVE LinkInv'
  BY <1>7, LinkSame, Zenon DEF vars
<1> QED
  BY <1>1, <1>2, <1>3, <1>4, <1>5, <1>6, <1>7, LinkCloseFollower, Zenon DEF Next

-----------------------------------------------------------------------------
(* ConnInv. *)

LEMMA ConnOwn ==
  ASSUME ConnType, NEW c \in Request, NEW x \in ConnRec, conn' = [conn EXCEPT ![c] = x]
  PROVE  /\ conn' \in [Request -> ConnRec] /\ conn'[c] = x
         /\ \A d \in Request \ {c} : conn'[d] = conn[d]
  BY Zenon DEF ConnType

\* A step that takes on or gives up no connection.
LEMMA ConnSame ==
  ASSUME ConnInv, conn' \in [Request -> ConnRec], UNCHANGED server,
         \A c \in Request : conn'[c].state = conn[c].state /\ (conn[c].shut => conn'[c].shut),
         \A r \in Request : req'[r].pc \in {"idle", "leader", "lock"}
                              => req[r].pc \in {"idle", "leader", "lock"}
  PROVE  ConnInv'
<1> USE DEF ConnInv
<1>1. ConnType'
  BY Zenon DEF ConnType
<1>2. SlotsCounted'
  <2>1. Taken' = Taken
    BY Zenon DEF Taken
  <2> QED
    BY <2>1, Zenon DEF SlotsCounted
<1>3. NotDialled'
  BY Zenon DEF NotDialled
<1>4. CloseCovers'
  BY Zenon DEF CloseCovers
<1> QED
  BY <1>1, <1>2, <1>3, <1>4, Zenon

LEMMA ConnUnchanged ==
  ASSUME ConnInv, UNCHANGED <<conn, server>>,
         \A r \in Request : req'[r].pc \in {"idle", "leader", "lock"}
                              => req[r].pc \in {"idle", "leader", "lock"}
  PROVE  ConnInv'
  BY ConnSame, Zenon DEF ConnInv, ConnType

LEMMA ConnShut ==
  ASSUME ConnInv, NEW c \in Request, conn' = Shut(c), UNCHANGED server,
         \A r \in Request : req'[r].pc \in {"idle", "leader", "lock"}
                              => req[r].pc \in {"idle", "leader", "lock"}
  PROVE  ConnInv'
<1> DEFINE x == [conn[c] EXCEPT !.shut = TRUE]
<1>1. conn' = [conn EXCEPT ![c] = x]
  BY Zenon DEF Shut
<1>2. conn[c] \in ConnRec
  BY Zenon DEF ConnInv, ConnType
<1>3. x \in ConnRec /\ x.state = conn[c].state /\ x.shut
  BY <1>2, Zenon DEF ConnRec
<1> HIDE DEF x
<1>4. /\ conn' \in [Request -> ConnRec]
      /\ \A d \in Request : conn'[d].state = conn[d].state /\ (conn[d].shut => conn'[d].shut)
  BY <1>1, <1>3, ConnOwn, Zenon DEF ConnInv
<1> QED
  BY <1>4, ConnSame, Zenon

\* Giving up a connection.
LEMMA GoneEffect ==
  ASSUME ConnType, NEW c \in Request, conn' = Gone(c)
  PROVE  /\ conn' \in [Request -> ConnRec] /\ conn'[c].state = "gone"
         /\ \A d \in Request \ {c} : conn'[d] = conn[d]
<1> DEFINE x == [state |-> "gone", read |-> 0, shut |-> TRUE]
<1>1. conn' = [conn EXCEPT ![c] = x]
  BY Zenon DEF Gone
<1>2. x \in ConnRec /\ x.state = "gone"
  BY Zenon DEF ConnRec
<1> HIDE DEF x
<1> QED
  BY <1>1, <1>2, ConnOwn, Zenon

\* The state of connection c changes and it is not left served.
LEMMA ConnMoves ==
  ASSUME ConnInv, NEW c \in Request, conn' \in [Request -> ConnRec], UNCHANGED req,
         \A d \in Request \ {c} : conn'[d] = conn[d],
         conn[c].state # "none", conn'[c].state # "serving",
         server'.close = server.close, server'.copied = server.copied
  PROVE  NotDialled' /\ CloseCovers'
<1> USE DEF ConnInv
<1>1. NotDialled'
  BY Zenon DEF NotDialled
<1>2. CloseCovers'
  BY Zenon DEF CloseCovers
<1> QED
  BY <1>1, <1>2, Zenon

\* One slot given back with the connection that held it.
LEMMA SlotBack ==
  ASSUME ConnInv, NEW c \in Request, c \in Taken, Taken' = Taken \ {c},
         server'.slots = server.slots - 1
  PROVE  SlotsCounted' /\ server'.slots \in Nat
<1>1. IsFiniteSet(Taken) /\ server.slots = Cardinality(Taken) /\ Cardinality(Taken) \in Nat
  BY FS_CardinalityType, Zenon DEF ConnInv, SlotsCounted
<1>2. IsFiniteSet(Taken \ {c}) /\ Cardinality(Taken \ {c}) = Cardinality(Taken) - 1
  BY <1>1, FS_RemoveElement, Zenon
<1>3. Cardinality(Taken \ {c}) \in Nat
  BY <1>2, FS_CardinalityType, Zenon
<1>4. server.slots <= MaxConnections /\ MaxConnections \in Nat
  BY RateLimitAssumption, Zenon DEF ConnInv, SlotsCounted
<1>5. server'.slots = Cardinality(Taken') /\ IsFiniteSet(Taken')
  BY <1>1, <1>2, Zenon
<1>6. server'.slots <= MaxConnections /\ server'.slots \in Nat
  BY <1>1, <1>2, <1>3, <1>4
<1> QED
  BY <1>5, <1>6, Zenon DEF SlotsCounted

LEMMA ConnAccept ==
  ASSUME ConnInv, NEW c \in Request, Accept(c)
  PROVE  ConnInv'
<1> USE DEF ConnInv
<1>1. conn[c].state = "dialled" /\ UNCHANGED req /\ conn[c] \in ConnRec
  BY Zenon DEF Accept, ConnType
<1>2. CASE SlotFree
  <2>1. server' = [server EXCEPT !.slots = @ + 1] /\ conn' = [conn EXCEPT ![c].state = "slotted"]
    BY <1>2, Zenon DEF Accept
  <2> DEFINE x == [conn[c] EXCEPT !.state = "slotted"]
  <2>2. conn' = [conn EXCEPT ![c] = x]
    BY <2>1, Zenon
  <2>3. x \in ConnRec /\ x.state = "slotted"
    BY <1>1, Zenon DEF ConnRec
  <2> HIDE DEF x
  <2>4. /\ conn' \in [Request -> ConnRec] /\ conn'[c].state = "slotted"
        /\ \A d \in Request \ {c} : conn'[d] = conn[d]
    BY <2>2, <2>3, ConnOwn, Zenon
  <2>5. Taken' = Taken \cup {c} /\ c \notin Taken
    BY <1>1, <2>4, Zenon DEF Taken
  <2>6. /\ IsFiniteSet(Taken) /\ server.slots = Cardinality(Taken)
        /\ server.slots < MaxConnections /\ MaxConnections \in Nat
    BY <1>2, RateLimitAssumption, Zenon DEF SlotsCounted, SlotFree
  <2>7. server \in ServerRec
    BY Zenon DEF ConnType, ServerRec
  <2>8. /\ server' \in ServerRec /\ server'.slots = server.slots + 1
        /\ server'.close = server.close /\ server'.copied = server.copied
    BY <2>1, <2>7 DEF ServerRec
  <2>9. IsFiniteSet(Taken') /\ Cardinality(Taken') = Cardinality(Taken) + 1
    BY <2>5, <2>6, FS_AddElement, Zenon
  <2>10. SlotsCounted'
    <3>1. server'.slots <= MaxConnections
      BY <2>6, <2>7, <2>8 DEF ServerRec
    <3> QED
      BY <2>6, <2>8, <2>9, <3>1, Zenon DEF SlotsCounted
  <2>11. ConnType'
    BY <2>4, <2>8, Zenon DEF ConnType, ServerRec
  <2>12. NotDialled' /\ CloseCovers'
    BY <1>1, <2>4, <2>8, ConnMoves, Zenon
  <2> QED
    BY <2>10, <2>11, <2>12, Zenon
<1>3. CASE ~SlotFree
  <2>1. conn' = Gone(c) /\ UNCHANGED server
    BY <1>3, Zenon DEF Accept
  <2>2. /\ conn' \in [Request -> ConnRec] /\ conn'[c].state = "gone"
        /\ \A d \in Request \ {c} : conn'[d] = conn[d]
    BY <2>1, GoneEffect, Zenon
  <2>3. Taken' = Taken
    BY <1>1, <2>2, Zenon DEF Taken
  <2>4. SlotsCounted' /\ ConnType'
    BY <2>1, <2>2, <2>3, Zenon DEF SlotsCounted, ConnType
  <2>5. NotDialled' /\ CloseCovers'
    BY <1>1, <2>1, <2>2, ConnMoves, Zenon
  <2> QED
    BY <2>4, <2>5, Zenon
<1> QED
  BY <1>2, <1>3, Zenon

LEMMA ConnGiveUp ==
  ASSUME ConnInv, NEW c \in Request, c \in Taken, conn' = Gone(c), UNCHANGED req,
         NEW stop \in BOOLEAN,
         server' = [server EXCEPT !.slots = @ - 1, !.stopped = stop]
  PROVE  ConnInv'
<1> USE DEF ConnInv
<1>1. /\ conn' \in [Request -> ConnRec] /\ conn'[c].state = "gone"
      /\ \A d \in Request \ {c} : conn'[d] = conn[d]
  BY GoneEffect, Zenon
<1>2. Taken' = Taken \ {c}
  BY <1>1, Zenon DEF Taken
<1>3. server \in ServerRec
  BY Zenon DEF ConnType, ServerRec
<1>4. /\ server'.slots = server.slots - 1
      /\ server'.close = server.close /\ server'.copied = server.copied
  BY <1>3, Zenon DEF ServerRec
<1>5. SlotsCounted' /\ server'.slots \in Nat
  BY <1>2, <1>4, SlotBack, Zenon
<1>6. server' \in ServerRec
  <2>1. server.slots - 1 \in Nat
    BY <1>4, <1>5, Zenon
  <2> QED
    BY <1>3, <2>1, Zenon DEF ServerRec
<1>7. ConnType'
  BY <1>1, <1>6, Zenon DEF ConnType, ServerRec
<1>8. NotDialled' /\ CloseCovers'
  <2>1. conn[c].state # "none"
    BY Zenon DEF Taken
  <2> QED
    BY <1>1, <1>4, <2>1, ConnMoves, Zenon
<1> QED
  BY <1>5, <1>7, <1>8, Zenon

LEMMA ConnRegister ==
  ASSUME ConnInv, Clock, NEW c \in Request, Register(c)
  PROVE  ConnInv'
<1> USE DEF ConnInv
<1>1. conn[c].state = "slotted" /\ UNCHANGED req /\ conn[c] \in ConnRec /\ c \in Taken
  BY Zenon DEF Register, ConnType, Taken
<1>2. CASE Refused
  <2>1. server' = [server EXCEPT !.slots = @ - 1, !.stopped = TRUE] /\ conn' = Gone(c)
    BY <1>2, Zenon DEF Register
  <2> QED
    BY <1>1, <2>1, ConnGiveUp, Zenon
<1>3. CASE ~Refused
  <2>1. /\ conn' = [conn EXCEPT ![c].state = "serving", ![c].read = now]
        /\ UNCHANGED server /\ server.close = "no"
    BY <1>3, Zenon DEF Register, Refused
  <2> DEFINE x == [conn[c] EXCEPT !.state = "serving", !.read = now]
  <2>2. conn' = [conn EXCEPT ![c] = x]
    BY <2>1, Zenon
  <2>3. x \in ConnRec /\ x.state = "serving"
    BY <1>1, Zenon DEF ConnRec, Clock
  <2> HIDE DEF x
  <2>4. /\ conn' \in [Request -> ConnRec] /\ conn'[c].state = "serving"
        /\ \A d \in Request \ {c} : conn'[d] = conn[d]
    BY <2>2, <2>3, ConnOwn, Zenon
  <2>5. Taken' = Taken
    BY <1>1, <2>4, Zenon DEF Taken
  <2>6. SlotsCounted' /\ ConnType'
    BY <2>1, <2>4, <2>5, Zenon DEF SlotsCounted, ConnType
  <2>7. NotDialled'
    BY <1>1, <2>4, Zenon DEF NotDialled
  <2>8. CloseCovers'
    BY <2>1, Zenon DEF CloseCovers
  <2> QED
    BY <2>6, <2>7, <2>8, Zenon
<1> QED
  BY <1>2, <1>3, Zenon

LEMMA ConnDeregister ==
  ASSUME ConnInv, NEW c \in Request, Deregister(c)
  PROVE  ConnInv'
<1> USE DEF ConnInv
<1>1. conn[c].state = "serving" /\ UNCHANGED <<req, server>> /\ conn[c] \in ConnRec
  BY Zenon DEF Deregister, ConnType
<1> DEFINE x == [conn[c] EXCEPT !.state = "leaving"]
<1>2. conn' = [conn EXCEPT ![c] = x]
  BY Zenon DEF Deregister
<1>3. x \in ConnRec /\ x.state = "leaving"
  BY <1>1, Zenon DEF ConnRec
<1> HIDE DEF x
<1>4. /\ conn' \in [Request -> ConnRec] /\ conn'[c].state = "leaving"
      /\ \A d \in Request \ {c} : conn'[d] = conn[d]
  BY <1>2, <1>3, ConnOwn, Zenon
<1>5. Taken' = Taken
  BY <1>1, <1>4, Zenon DEF Taken
<1>6. SlotsCounted' /\ ConnType'
  BY <1>1, <1>4, <1>5, Zenon DEF SlotsCounted, ConnType
<1>7. NotDialled' /\ CloseCovers'
  BY <1>1, <1>4, ConnMoves, Zenon
<1> QED
  BY <1>6, <1>7, Zenon

LEMMA ConnRelease ==
  ASSUME ConnInv, NEW c \in Request, Release(c)
  PROVE  ConnInv'
<1>1. c \in Taken /\ UNCHANGED req /\ conn' = Gone(c) /\ server \in ServerRec
  BY Zenon DEF Release, Taken, ConnInv, ConnType
<1>2. server' = [server EXCEPT !.slots = @ - 1, !.stopped = server.stopped]
  BY <1>1, Zenon DEF Release, SlotsLeft, ServerRec
<1>3. server.stopped \in BOOLEAN
  BY <1>1, Zenon DEF ServerRec
<1> QED
  BY <1>1, <1>2, <1>3, ConnGiveUp, Zenon

LEMMA ConnCloseLeader ==
  ASSUME ConnInv, CloseLeader
  PROVE  ConnInv'
<1> USE DEF ConnInv
<1> DEFINE served == {c \in Request : conn[c].state = "serving"}
<1>1. UNCHANGED <<req, conn>> /\ server' = [server EXCEPT !.close = "begun", !.copied = served]
  BY Zenon DEF CloseLeader
<1>2. /\ server' \in ServerRec /\ server'.slots = server.slots
      /\ server'.close = "begun" /\ server'.copied = served
  <2>1. server \in ServerRec /\ served \in SUBSET Request
    BY Zenon DEF ConnType
  <2> HIDE DEF served
  <2> QED
    BY <1>1, <2>1, Zenon DEF ServerRec
<1>3. Taken' = Taken
  BY <1>1, Zenon DEF Taken
<1>4. SlotsCounted' /\ ConnType'
  BY <1>1, <1>2, <1>3, Zenon DEF SlotsCounted, ConnType
<1>5. NotDialled'
  BY <1>1, Zenon DEF NotDialled
<1>6. CloseCovers'
  BY <1>1, <1>2, Zenon DEF CloseCovers
<1> QED
  BY <1>4, <1>5, <1>6, Zenon

LEMMA ConnCloseSockets ==
  ASSUME ConnInv, CloseSockets
  PROVE  ConnInv'
<1> USE DEF ConnInv
<1>1. /\ UNCHANGED req /\ server' = [server EXCEPT !.close = "done", !.copied = {}]
      /\ server.close = "begun" /\ server \in ServerRec /\ conn \in [Request -> ConnRec]
  BY Zenon DEF CloseSockets, ConnType
<1>2. /\ server' \in ServerRec /\ server'.slots = server.slots /\ server'.close = "done"
  BY <1>1, Zenon DEF ServerRec
<1>3. ASSUME NEW c \in Request
      PROVE  /\ conn'[c] \in ConnRec
             /\ conn[c].state # "dialled" => conn'[c].state = conn[c].state
             /\ conn[c].state = "dialled" => conn'[c].state = "gone"
             /\ conn'[c].state = "serving" /\ c \in server.copied => conn'[c].shut
  <2> DEFINE x == [state |-> "gone", read |-> 0, shut |-> TRUE]
             y == [conn[c] EXCEPT !.shut = TRUE]
  <2>1. conn'[c] = IF conn[c].state = "dialled" THEN x ELSE IF c \in server.copied THEN y ELSE conn[c]
    BY <1>1, Zenon DEF CloseSockets, Gone, Shut
  <2>2. x \in ConnRec /\ x.state = "gone"
    BY Zenon DEF ConnRec
  <2>3. y \in ConnRec /\ y.state = conn[c].state /\ y.shut
    BY <1>1, Zenon DEF ConnRec
  <2> HIDE DEF x, y
  <2> QED
    BY <1>1, <2>1, <2>2, <2>3, Zenon
<1>4. conn' \in [Request -> ConnRec]
  <2>1. DOMAIN conn' = Request /\ conn' = [c \in Request |-> conn'[c]]
    BY Zenon DEF CloseSockets
  <2> QED
    BY <1>3, <2>1, Zenon
<1>5. Taken' = Taken
  BY <1>3, Zenon DEF Taken
<1>6. SlotsCounted' /\ ConnType'
  BY <1>2, <1>4, <1>5, Zenon DEF SlotsCounted, ConnType
<1>7. NotDialled'
  BY <1>1, <1>3, Zenon DEF NotDialled
<1>8. CloseCovers'
  BY <1>1, <1>2, <1>3, Zenon DEF CloseCovers
<1> QED
  BY <1>6, <1>7, <1>8, Zenon

LEMMA ConnLockDial ==
  ASSUME ConnInv, ReqInv, NEW r \in Request, LockDial(r)
  PROVE  ConnInv'
<1> USE DEF ConnInv
<1> DEFINE f == req[r].args.node
           x == [state |-> "gone", read |-> 0, shut |-> TRUE]
           y == [conn[r] EXCEPT !.state = "dialled"]
<1>1. /\ conn[r].state = "none" /\ UNCHANGED server
      /\ conn \in [Request -> ConnRec] /\ req'[r].pc = "dial" /\ Others(r)
  <2>1. Moves(r, {"lock"}, {"dial"})
    BY LockMoves, Zenon DEF ReqInv
  <2> QED
    BY <2>1, Zenon DEF Moves, NotDialled, LockDial, ConnType
<1>2. ASSUME NEW c \in Request \ {r}
      PROVE  conn'[c] \in ConnRec /\ conn'[c].state = conn[c].state /\ (conn[c].shut => conn'[c].shut)
  <2> DEFINE z == [conn[c] EXCEPT !.shut = TRUE]
  <2>1. conn'[c] = IF c = link[f].client THEN z ELSE conn[c]
    BY <1>1, Zenon DEF LockDial, Shut
  <2>2. z \in ConnRec /\ z.state = conn[c].state /\ z.shut
    BY <1>1, Zenon DEF ConnRec
  <2> HIDE DEF z
  <2> QED
    BY <1>1, <2>1, <2>2, Zenon
<1>3. conn'[r] \in ConnRec /\ conn'[r].state \in {"gone", "dialled"}
  <2>1. conn'[r] = IF server.close = "done" THEN x ELSE y
    BY <1>1, Zenon DEF LockDial, Gone
  <2>2. x \in ConnRec /\ x.state = "gone"
    BY Zenon DEF ConnRec
  <2>3. y \in ConnRec /\ y.state = "dialled"
    BY <1>1, Zenon DEF ConnRec
  <2> HIDE DEF x, y
  <2> QED
    BY <2>1, <2>2, <2>3, Zenon
<1>4. conn' \in [Request -> ConnRec]
  <2>1. DOMAIN conn' = Request /\ conn' = [c \in Request |-> conn'[c]]
    BY Zenon DEF LockDial
  <2>2. \A c \in Request : conn'[c] \in ConnRec
    BY <1>2, <1>3, Zenon
  <2> QED
    BY <2>1, <2>2, Zenon
<1> HIDE DEF x, y, f
<1>5. Taken' = Taken
  BY <1>1, <1>2, <1>3, Zenon DEF Taken
<1>6. SlotsCounted' /\ ConnType'
  BY <1>1, <1>4, <1>5, Zenon DEF SlotsCounted, ConnType
<1>7. NotDialled'
  BY <1>1, <1>2, Zenon DEF NotDialled, Others
<1>8. CloseCovers'
  BY <1>1, <1>2, <1>3, Zenon DEF CloseCovers
<1> QED
  BY <1>6, <1>7, <1>8, Zenon

\* A request that moves past the dial.
LEMMA EarlyKept ==
  ASSUME NEW r \in Request, NEW from, NEW to, Moves(r, from, to),
         to \cap {"idle", "leader", "lock"} = {}
  PROVE  \A s \in Request : req'[s].pc \in {"idle", "leader", "lock"}
                              => req[s].pc \in {"idle", "leader", "lock"}
  BY Zenon DEF Moves, Others

LEMMA ConnStep ==
  ASSUME ConnInv, ReqInv, LinkInv, LocalType, [Next]_vars
  PROVE  ConnInv'
<1> USE DEF ReqInv
<1>1. ASSUME NEW r \in Request, Arrive(r) PROVE ConnInv'
  <2>1. UNCHANGED <<conn, server>> /\ req[r].pc = "idle" /\ Others(r)
    BY <1>1, ArriveEffect, Zenon DEF Arrive
  <2> QED
    BY <2>1, ConnUnchanged, Zenon DEF Others
<1>2. ASSUME NEW r \in Request, Serve(r) PROVE ConnInv'
  <2> DEFINE c == req[r].via
             x == [conn[c] EXCEPT !.read = now]
  <2>1. conn' = [conn EXCEPT ![c] = x] /\ UNCHANGED server /\ c \in Request
    BY <1>2, Zenon DEF Serve, ArgsKnown
  <2>2. x \in ConnRec /\ x.state = conn[c].state /\ x.shut = conn[c].shut
    BY <2>1, Zenon DEF ConnInv, ConnType, ConnRec, Clock
  <2>3. \A s \in Request : req'[s].pc = req[s].pc
    BY <1>2, ServeEffect, Zenon DEF Others
  <2> HIDE DEF c, x
  <2>4. /\ conn' \in [Request -> ConnRec]
        /\ \A d \in Request : conn'[d].state = conn[d].state /\ (conn[d].shut => conn'[d].shut)
    BY <2>1, <2>2, ConnOwn, Zenon DEF ConnInv
  <2> QED
    BY <2>1, <2>3, <2>4, ConnSame, Zenon
<1>3. ASSUME NEW r \in Request, Handler(r) PROVE ConnInv'
  <2>1. CASE AllowLeader(r)
    BY <2>1, LeaderMoves, EarlyKept, ConnUnchanged, Zenon DEF AllowLeader
  <2>2. CASE LockClosed(r)
    BY <2>2, LockMoves, EarlyKept, ConnUnchanged, Zenon DEF LockClosed
  <2>3. CASE LockSend(r)
    BY <2>3, LockSendMoves, EarlyKept, ConnUnchanged, Zenon DEF LockSend
  <2>4. CASE DialDone(r)
    BY <2>4, DialMoves, EarlyKept, ConnUnchanged, Zenon DEF DialDone
  <2>5. CASE DialFails(r)
    BY <2>5, DialMoves, EarlyKept, ConnShut, Zenon DEF DialFails
  <2>6. CASE Reply(r)
    BY <2>6, CallMoves, EarlyKept, ConnUnchanged, Zenon DEF Reply
  <2>7. CASE CallFails(r)
    <3>1. link[req[r].args.node].client \in Request
      <4>1. req[r].pc = "call" /\ req[r].via \in {None} \cup Request
        BY <2>7, Zenon DEF CallFails, ReqType, ReqRec
      <4> QED
        BY <4>1, Zenon DEF LinkInv, ClientKnown
    <3> QED
      BY <2>7, <3>1, CallMoves, EarlyKept, ConnShut, Zenon DEF CallFails
  <2>8. CASE LocalGet(r) \/ LocalTake(r) \/ LocalAdd(r)
    <3>1. UNCHANGED <<conn, server>>
      BY <2>8, Zenon DEF LocalGet, LocalTake, LocalAdd
    <3> QED
      BY <2>8, <3>1, LocalMoves, EarlyKept, ConnUnchanged, Zenon DEF Fallback
  <2> QED
    BY <1>3, <2>1, <2>2, <2>3, <2>4, <2>5, <2>6, <2>7, <2>8, ConnLockDial, Zenon DEF Handler
<1>4. ASSUME NEW f \in Follower, CloseFollower(f) PROVE ConnInv'
  <2>1. CASE link[f].client = None
    BY <1>4, <2>1, ConnUnchanged, Zenon DEF CloseFollower
  <2>2. CASE link[f].client # None
    <3>1. link[f].client \in Request
      BY <2>2, Zenon DEF LinkInv, LinkType, LinkRec
    <3> QED
      BY <1>4, <2>2, <3>1, ConnShut, Zenon DEF CloseFollower
  <2> QED
    BY <2>1, <2>2, Zenon
<1>5. ASSUME Tick PROVE ConnInv'
  BY <1>5, ConnUnchanged, Zenon DEF Tick
<1>6. ASSUME UNCHANGED vars PROVE ConnInv'
  BY <1>6, ConnUnchanged, Zenon DEF vars
<1> QED
  BY <1>1, <1>2, <1>3, <1>4, <1>5, <1>6, ConnAccept, ConnRegister, ConnDeregister, ConnRelease,
     ConnCloseLeader, ConnCloseSockets, Zenon
     DEF Next, Connection

-----------------------------------------------------------------------------
(* TableInv. *)

LEMMA PolicyFacts ==
  ASSUME NEW p \in Policy
  PROVE  p.rate \in Nat /\ p.burst \in Nat /\ Token \in Nat /\ Token <= p.burst
  BY RateLimitAssumption, Zenon

\* The sweep only forgets entries, and only expired ones.
LEMMA SweptFacts ==
  ASSUME TableType
  PROVE  /\ Swept \in [Key -> {None} \cup Entry]
         /\ Entries(Swept) \subseteq Entries(limiters)
         /\ \A k \in Key : Swept[k] # None => Swept[k] = limiters[k]
         /\ \A k \in Key : limiters[k] # None /\ Swept[k] = None
                             => now - limiters[k].lastSeen > EntryTTL
  BY Zenon DEF Swept, TableType, Entries, Expired

\* The entry CheckLimit works on: of the policy asked for, seen now, and
\* within its burst.
LEMMA EntryForFacts ==
  ASSUME TableInv, Clock, NEW k \in Key, NEW p \in Policy
  PROVE  LET e == EntryFor(Swept, k, p)
         IN  e \in Entry /\ e.policy = p /\ e.lastSeen = now /\ e.tokens <= p.burst
<1>0. p.burst \in Nat /\ now \in Nat
  BY PolicyFacts, Zenon DEF Clock
<1>1. CASE Swept[k] = None \/ Swept[k].policy # p
  <2>1. EntryFor(Swept, k, p) = FreshEntry(p)
    BY <1>1, Zenon DEF EntryFor
  <2> QED
    BY <1>0, <2>1 DEF FreshEntry, Entry
<1>2. CASE Swept[k] # None /\ Swept[k].policy = p
  <2>1. EntryFor(Swept, k, p) = [Swept[k] EXCEPT !.lastSeen = now]
    BY <1>2, Zenon DEF EntryFor
  <2>2. Swept[k] \in Entry /\ Swept[k].tokens <= Swept[k].policy.burst
    BY <1>2, SweptFacts, Zenon DEF TableInv, TableType, Entries
  <2> QED
    BY <1>0, <1>2, <2>1, <2>2, Zenon DEF Entry
<1> QED
  BY <1>1, <1>2, Zenon

Cost(k, p) == IF EntryFor(Swept, k, p).tokens >= Token THEN Token ELSE 0

\* What CheckLimit does to the table and to the ideal buckets.
LEMMA CheckEffect ==
  ASSUME NEW k \in Key, NEW p \in Policy, CheckLimit(k, p)
  PROVE  \E victim \in Victims(Swept, k) :
           /\ limiters' = [j \in Key |->
                IF j = k THEN [EntryFor(Swept, k, p) EXCEPT !.tokens = @ - Cost(k, p)]
                ELSE IF j = victim THEN None ELSE Swept[j]]
           /\ budget' = [j \in Key |->
                IF j = k THEN [Owed(k, p) EXCEPT !.tokens = @ - Cost(k, p)]
                ELSE IF j = victim THEN None ELSE budget[j]]
           /\ nextCleanup' \in {now + CleanupInterval, nextCleanup}
  BY Zenon DEF CheckLimit, Cost

LEMMA EntryAfter ==
  ASSUME TableInv, Clock, NEW k \in Key, NEW p \in Policy
  PROVE  LET e == [EntryFor(Swept, k, p) EXCEPT !.tokens = @ - Cost(k, p)]
         IN  /\ e \in Entry /\ e.policy = p /\ e.lastSeen = now /\ e.tokens <= p.burst
             /\ e.tokens = EntryFor(Swept, k, p).tokens - Cost(k, p)
             /\ Cost(k, p) \in Nat /\ Cost(k, p) <= EntryFor(Swept, k, p).tokens
<1> DEFINE e == EntryFor(Swept, k, p)
           c == Cost(k, p)
<1>1. e \in Entry /\ e.policy = p /\ e.lastSeen = now /\ e.tokens <= p.burst
  BY EntryForFacts, Zenon
<1>2. p.burst \in Nat /\ Token \in Nat
  BY PolicyFacts, Zenon
<1>3. c \in Nat /\ c <= e.tokens /\ e.tokens \in Nat
  BY <1>1, <1>2 DEF Cost, Entry
<1> HIDE DEF e, c
<1>4. e.tokens - c \in Nat /\ e.tokens - c <= p.burst
  BY <1>1, <1>2, <1>3
<1> DEFINE x == [e EXCEPT !.tokens = @ - c]
<1>5. x \in Entry /\ x.policy = p /\ x.lastSeen = now /\ x.tokens = e.tokens - c
  BY <1>1, <1>4, Zenon DEF Entry
<1> HIDE DEF x
<1>6. x.tokens <= p.burst
  BY <1>4, <1>5, Zenon
<1> QED
  BY <1>3, <1>5, <1>6, Zenon DEF x, e, c

\* A table with one key more or less.
LEMMA EntriesBound ==
  ASSUME TableInv, NEW k \in Key, NEW victim \in Victims(Swept, k), NEW after,
         after \subseteq {j \in Entries(Swept) : j # victim} \cup {k}
  PROVE  IsFiniteSet(after) /\ Cardinality(after) <= MaxEntries
<1> DEFINE S == Entries(Swept)
<1>0. MaxEntries \in Nat
  BY RateLimitAssumption, Zenon
<1>1. S \subseteq Entries(limiters) /\ IsFiniteSet(S) /\ Cardinality(S) <= MaxEntries
  <2>1. S \subseteq Entries(limiters) /\ IsFiniteSet(Entries(limiters))
        /\ Cardinality(Entries(limiters)) <= MaxEntries
    BY SweptFacts, Zenon DEF TableInv
  <2>2. IsFiniteSet(S) /\ Cardinality(S) <= Cardinality(Entries(limiters))
    BY <2>1, FS_Subset, Zenon
  <2>3. Cardinality(S) \in Nat /\ Cardinality(Entries(limiters)) \in Nat
    BY <2>1, <2>2, FS_CardinalityType, Zenon
  <2> QED
    BY <1>0, <2>1, <2>2, <2>3
<1>2. Cardinality(S) \in Nat
  BY <1>1, FS_CardinalityType, Zenon
<1>3. ASSUME NEW T, IsFiniteSet(T), Cardinality(T) <= MaxEntries, after \subseteq T
      PROVE  IsFiniteSet(after) /\ Cardinality(after) <= MaxEntries
  <2>1. IsFiniteSet(after) /\ Cardinality(after) <= Cardinality(T)
    BY <1>3, FS_Subset, Zenon
  <2>2. Cardinality(after) \in Nat /\ Cardinality(T) \in Nat
    BY <1>3, <2>1, FS_CardinalityType, Zenon
  <2> QED
    BY <1>0, <1>3, <2>1, <2>2
<1>4. CASE Swept[k] # None
  <2>1. k \in S
    BY <1>4, Zenon DEF Entries
  <2> HIDE DEF S
  <2>2. after \subseteq S
    BY <2>1, Zenon DEF S
  <2> QED
    BY <1>1, <1>3, <2>2, Zenon
<1>5. CASE Swept[k] = None /\ TableFull(Swept)
  <2>1. victim \in S
    BY <1>5, Zenon DEF Victims, Oldest
  <2> DEFINE R == S \ {victim}
  <2>2. IsFiniteSet(R) /\ Cardinality(R) = Cardinality(S) - 1
    BY <1>1, <2>1, FS_RemoveElement, Zenon
  <2>3. IsFiniteSet(R \cup {k}) /\ Cardinality(R \cup {k}) \in {Cardinality(R), Cardinality(R) + 1}
    BY <2>2, FS_AddElement, Zenon
  <2>4. after \subseteq R \cup {k}
    BY Zenon
  <2> HIDE DEF R, S
  <2>5. Cardinality(R \cup {k}) <= MaxEntries
    BY <1>0, <1>1, <1>2, <2>2, <2>3
  <2> QED
    BY <1>3, <2>3, <2>4, <2>5, Zenon
<1>6. CASE Swept[k] = None /\ ~TableFull(Swept)
  <2>1. IsFiniteSet(S \cup {k}) /\ Cardinality(S \cup {k}) \in {Cardinality(S), Cardinality(S) + 1}
    BY <1>1, FS_AddElement, Zenon
  <2>2. ~(Cardinality(S) >= MaxEntries)
    BY <1>6, Zenon DEF TableFull
  <2>3. after \subseteq S \cup {k}
    BY Zenon
  <2> HIDE DEF S
  <2>4. Cardinality(S \cup {k}) <= MaxEntries
    BY <1>0, <1>2, <2>1, <2>2
  <2> QED
    BY <1>3, <2>1, <2>3, <2>4, Zenon
<1> QED
  BY <1>4, <1>5, <1>6, Zenon

LEMMA OwedFacts ==
  ASSUME TableType, NEW k \in Key, NEW p \in Policy
  PROVE  Owed(k, p) \in Budget /\ Owed(k, p).policy = p
<1>1. p.burst \in Int
  BY PolicyFacts
<1>2. CASE budget[k] = None \/ budget[k].policy # p
  BY <1>1, <1>2, Zenon DEF Owed, Budget
<1>3. CASE budget[k] # None /\ budget[k].policy = p
  BY <1>3, Zenon DEF Owed, TableType
<1> QED
  BY <1>2, <1>3, Zenon

LEMMA OwedAfter ==
  ASSUME TableInv, Clock, NEW k \in Key, NEW p \in Policy
  PROVE  LET b == [Owed(k, p) EXCEPT !.tokens = @ - Cost(k, p)]
         IN  b \in Budget /\ b.policy = p /\ b.tokens = Owed(k, p).tokens - Cost(k, p)
<1> DEFINE o == Owed(k, p)
           c == Cost(k, p)
<1>1. o \in Budget /\ o.policy = p
  BY OwedFacts, Zenon DEF TableInv
<1>2. c \in Nat
  BY EntryAfter, Zenon
<1> HIDE DEF o, c
<1>3. o.tokens - c \in Int
  BY <1>1, <1>2 DEF Budget
<1>4. LET b == [o EXCEPT !.tokens = @ - c] IN b \in Budget /\ b.policy = p /\ b.tokens = o.tokens - c
  BY <1>1, <1>3, Zenon DEF Budget
<1> QED
  BY <1>4, Zenon DEF o, c

LEMMA TableCheck ==
  ASSUME TableInv, Clock, UNCHANGED now, NEW k \in Key, NEW p \in Policy, CheckLimit(k, p)
  PROVE  TableInv'
<1> DEFINE e == [EntryFor(Swept, k, p) EXCEPT !.tokens = @ - Cost(k, p)]
           b == [Owed(k, p) EXCEPT !.tokens = @ - Cost(k, p)]
<1>1. PICK victim \in Victims(Swept, k) :
        /\ limiters' = [j \in Key |-> IF j = k THEN e ELSE IF j = victim THEN None ELSE Swept[j]]
        /\ budget' = [j \in Key |-> IF j = k THEN b ELSE IF j = victim THEN None ELSE budget[j]]
        /\ nextCleanup' \in {now + CleanupInterval, nextCleanup}
  BY CheckEffect, Zenon
<1>2. e \in Entry /\ e.policy = p /\ e.lastSeen = now /\ e.tokens <= p.burst
  BY EntryAfter, Zenon
<1>3. b \in Budget
  BY OwedAfter, Zenon
<1> HIDE DEF e, b
<1>4. TableType'
  <2>1. limiters' \in [Key -> {None} \cup Entry]
    BY <1>1, <1>2, SweptFacts, Zenon DEF TableInv
  <2>2. budget' \in [Key -> {None} \cup Budget]
    BY <1>1, <1>3, Zenon DEF TableInv, TableType
  <2>3. nextCleanup' \in Nat
    BY <1>1, RateLimitAssumption DEF TableInv, TableType, Clock
  <2> QED
    BY <2>1, <2>2, <2>3, Zenon DEF TableType
<1>5. IsFiniteSet(Entries(limiters')) /\ Cardinality(Entries(limiters')) <= MaxEntries
  <2>1. Entries(limiters') \subseteq {j \in Entries(Swept) : j # victim} \cup {k}
    BY <1>1, Zenon DEF Entries
  <2> QED
    BY <2>1, EntriesBound, Zenon
<1>6. ASSUME NEW j \in Entries(limiters')
      PROVE  limiters'[j].tokens <= limiters'[j].policy.burst /\ limiters'[j].lastSeen <= now'
  <2>1. CASE j = k
    BY <1>1, <1>2, <2>1 DEF Clock
  <2>2. CASE j # k
    <3>1. limiters'[j] = limiters[j] /\ j \in Entries(limiters)
      BY <1>1, <1>6, <2>2, SweptFacts, Zenon DEF Entries, TableInv
    <3> QED
      BY <3>1, Zenon DEF TableInv
  <2> QED
    BY <2>1, <2>2, Zenon
<1> QED
  BY <1>4, <1>5, <1>6, Zenon DEF TableInv

LEMMA RefillFacts ==
  ASSUME NEW p \in Policy, NEW t \in Int
  PROVE  LET u == Least(p.burst, t + p.rate)
         IN  /\ u \in Int /\ u <= p.burst /\ (t \in Nat => u \in Nat)
             /\ u = p.burst \/ u = t + p.rate
             /\ t = p.burst => u = p.burst
<1>1. p.rate \in Nat /\ p.burst \in Nat
  BY PolicyFacts, Zenon
<1> QED
  BY <1>1 DEF Least

LEMMA RefillEntry ==
  ASSUME NEW e \in Entry
  PROVE  /\ Refill(e) \in Entry /\ Refill(e).policy = e.policy /\ Refill(e).lastSeen = e.lastSeen
         /\ Refill(e).tokens = Least(e.policy.burst, e.tokens + e.policy.rate)
<1> DEFINE u == Least(e.policy.burst, e.tokens + e.policy.rate)
<1>1. e.policy \in Policy /\ e.tokens \in Nat
  BY Zenon DEF Entry
<1>2. u \in Nat
  BY <1>1, RefillFacts
<1>3. Refill(e) = [e EXCEPT !.tokens = u]
  BY Zenon DEF Refill
<1> HIDE DEF u
<1> QED
  BY <1>2, <1>3, Zenon DEF Entry, u

LEMMA RefillBudget ==
  ASSUME NEW b \in Budget
  PROVE  /\ Refill(b) \in Budget /\ Refill(b).policy = b.policy
         /\ Refill(b).tokens = Least(b.policy.burst, b.tokens + b.policy.rate)
<1> DEFINE u == Least(b.policy.burst, b.tokens + b.policy.rate)
<1>1. b.policy \in Policy /\ b.tokens \in Int
  BY Zenon DEF Budget
<1>2. u \in Int
  BY <1>1, RefillFacts, Zenon
<1>3. Refill(b) = [b EXCEPT !.tokens = u]
  BY Zenon DEF Refill
<1> HIDE DEF u
<1> QED
  BY <1>2, <1>3, Zenon DEF Budget, u

LEMMA TableTick ==
  ASSUME TableInv, Clock, Tick
  PROVE  TableInv'
<1>0. /\ limiters' = RefillAll(limiters) /\ budget' = RefillAll(budget)
      /\ UNCHANGED nextCleanup /\ now' = now + 1
  BY Zenon DEF Tick
<1>1. TableType'
  <2>1. limiters' \in [Key -> {None} \cup Entry]
    <3>1. \A k \in Key : limiters[k] = None \/ Refill(limiters[k]) \in Entry
      BY RefillEntry, Zenon DEF TableInv, TableType
    <3> QED
      BY <1>0, <3>1, Zenon DEF RefillAll
  <2>2. budget' \in [Key -> {None} \cup Budget]
    <3>1. \A k \in Key : budget[k] = None \/ Refill(budget[k]) \in Budget
      BY RefillBudget, Zenon DEF TableInv, TableType
    <3> QED
      BY <1>0, <3>1, Zenon DEF RefillAll
  <2> QED
    BY <1>0, <2>1, <2>2, Zenon DEF TableInv, TableType
<1>2. Entries(limiters') \subseteq Entries(limiters)
  BY <1>0, Zenon DEF RefillAll, Entries
<1>3. IsFiniteSet(Entries(limiters')) /\ Cardinality(Entries(limiters')) <= MaxEntries
  <2>1. /\ IsFiniteSet(Entries(limiters')) /\ IsFiniteSet(Entries(limiters))
        /\ Cardinality(Entries(limiters')) <= Cardinality(Entries(limiters))
    BY <1>2, FS_Subset, Zenon DEF TableInv
  <2>2. Cardinality(Entries(limiters')) \in Nat /\ Cardinality(Entries(limiters)) \in Nat
    BY <2>1, FS_CardinalityType, Zenon
  <2>3. Cardinality(Entries(limiters)) <= MaxEntries /\ MaxEntries \in Nat
    BY RateLimitAssumption, Zenon DEF TableInv
  <2> QED
    BY <2>1, <2>2, <2>3
<1>4. ASSUME NEW j \in Entries(limiters')
      PROVE  limiters'[j].tokens <= limiters'[j].policy.burst /\ limiters'[j].lastSeen <= now'
  <2>1. /\ j \in Key /\ limiters[j] \in Entry /\ limiters'[j] = Refill(limiters[j])
        /\ limiters[j].lastSeen <= now
    BY <1>0, <1>2, <1>4, Zenon DEF RefillAll, Entries, TableInv, TableType
  <2>2. limiters[j].policy \in Policy /\ limiters[j].tokens \in Nat /\ limiters[j].lastSeen \in Nat
    BY <2>1, Zenon DEF Entry
  <2>3. limiters'[j].tokens <= limiters'[j].policy.burst
    <3> DEFINE e == limiters[j]
    <3>1. Refill(e).policy = e.policy
          /\ Refill(e).tokens = Least(e.policy.burst, e.tokens + e.policy.rate)
      BY <2>1, RefillEntry, Zenon
    <3>2. Least(e.policy.burst, e.tokens + e.policy.rate) <= e.policy.burst
      BY <2>2, RefillFacts
    <3> HIDE DEF e
    <3> QED
      BY <2>1, <3>1, <3>2, Zenon DEF e
  <2>4. limiters'[j].lastSeen = limiters[j].lastSeen
    BY <2>1, RefillEntry, Zenon
  <2> QED
    BY <1>0, <2>1, <2>2, <2>3, <2>4 DEF Clock
<1> QED
  BY <1>1, <1>3, <1>4, Zenon DEF TableInv

LEMMA TableSame ==
  ASSUME TableInv, UNCHANGED <<now, shared>>
  PROVE  TableInv'
  BY Zenon DEF TableInv, TableType, Entries, shared

-----------------------------------------------------------------------------
(* TokenInv. *)

LEMMA MulNext == \A a, d \in Nat : a * (d + 1) = a * d + a
  OBVIOUS

LEMMA MulMono == \A a, b, c \in Nat : b <= c => a * b <= a * c
<1>1. \A a, d \in Nat : a * d >= 0
  OBVIOUS
<1>2. \A a, b, d \in Nat : a * (b + d) = a * b + a * d
  OBVIOUS
<1> SUFFICES ASSUME NEW a \in Nat, NEW b \in Nat, NEW c \in Nat, b <= c PROVE a * b <= a * c
  BY Zenon
<1>3. c - b \in Nat /\ c = b + (c - b)
  OBVIOUS
<1>4. a * c = a * b + a * (c - b) /\ a * (c - b) >= 0
  BY <1>1, <1>2, <1>3
<1>5. a * b \in Nat /\ a * (c - b) \in Nat
  BY <1>3
<1> QED
  BY <1>4, <1>5

\* The sweep forgets a key only when its ideal bucket is full.
LEMMA SweptFull ==
  ASSUME TableInv, TokenInv, RefillsInTime, Clock, NEW k \in Key,
         limiters[k] # None, Swept[k] = None
  PROVE  budget[k].tokens = budget[k].policy.burst
<1>1. limiters[k] \in Entry /\ limiters[k].lastSeen <= now /\ Kept(k)
  BY Zenon DEF TokenInv, TableInv, TableType, Entries
<1>2. now - limiters[k].lastSeen > EntryTTL
  BY SweptFacts, Zenon DEF TableInv
<1> DEFINE d == now - limiters[k].lastSeen
           p == budget[k].policy
           b == budget[k].tokens
<1>3. budget[k] \in Budget
  BY <1>1, Zenon DEF TableInv, TableType, Kept
<1>4. p \in Policy /\ b \in Int
  BY <1>3, Zenon DEF Budget
<1>5. p.rate \in Nat /\ p.burst \in Nat /\ EntryTTL \in Nat
  BY <1>4, PolicyFacts, RateLimitAssumption, Zenon
<1>6. d \in Nat /\ EntryTTL + 1 <= d
  BY <1>1, <1>2, <1>5 DEF Clock, Entry
<1>7. p.burst <= p.rate * (EntryTTL + 1)
  BY <1>4, Zenon DEF RefillsInTime
<1>8. p.rate * (EntryTTL + 1) <= p.rate * d
  BY <1>5, <1>6, MulMono
<1>9. b <= p.burst /\ (b = p.burst \/ b >= p.rate * d)
  BY <1>1, Zenon DEF Kept
<1>10. p.rate * (EntryTTL + 1) \in Nat /\ p.rate * d \in Nat
  BY <1>5, <1>6
<1> HIDE DEF d, p, b
<1>11. b = p.burst
  BY <1>4, <1>5, <1>7, <1>8, <1>9, <1>10
<1> QED
  BY <1>11, Zenon DEF b, p

\* The entry CheckLimit works on has at most what the key is owed.
LEMMA EntryOwed ==
  ASSUME TableInv, TokenInv, RefillsInTime, Clock, NEW k \in Key, NEW p \in Policy
  PROVE  EntryFor(Swept, k, p).tokens <= Owed(k, p).tokens /\ Owed(k, p).tokens <= p.burst
<1>0. p.burst \in Nat
  BY PolicyFacts, Zenon
<1>1. CASE budget[k] = None \/ budget[k].policy # p
  <2>1. Owed(k, p).tokens = p.burst
    BY <1>1, Zenon DEF Owed
  <2> QED
    BY <1>0, <2>1, EntryForFacts
<1>2. CASE budget[k] # None /\ budget[k].policy = p
  <2>1. Owed(k, p) = budget[k]
    BY <1>2, Zenon DEF Owed
  <2>2. CASE Swept[k] = None
    <3>1. budget[k].tokens = p.burst
      BY <1>2, <2>2, SweptFull, Zenon DEF TokenInv, Full
    <3> QED
      BY <1>0, <2>1, <3>1, EntryForFacts
  <2>3. CASE Swept[k] # None
    <3>1. Swept[k] = limiters[k] /\ Kept(k)
      BY <2>3, SweptFacts, Zenon DEF TokenInv, TableInv
    <3>2. EntryFor(Swept, k, p) = [limiters[k] EXCEPT !.lastSeen = now] /\ limiters[k] \in Entry
      BY <1>2, <2>3, <3>1, Zenon DEF EntryFor, Kept, TableInv, TableType
    <3>3. EntryFor(Swept, k, p).tokens = limiters[k].tokens
      BY <3>2, Zenon DEF Entry
    <3> QED
      BY <1>2, <2>1, <3>1, <3>3, Zenon DEF Kept
  <2> QED
    BY <2>2, <2>3, Zenon
<1> QED
  BY <1>1, <1>2, Zenon

LEMMA RecordsNotNone ==
  /\ \A e \in Entry : e.tokens <= e.policy.burst /\ e.lastSeen <= MaxTime => e # None
  /\ \A b \in Budget : b.tokens \in Nat /\ b.tokens <= b.policy.burst => b # None
<1>1. ASSUME NEW e \in Entry, e.tokens <= e.policy.burst, e.lastSeen <= MaxTime PROVE e # None
  <2>1. /\ e = [policy |-> e.policy, tokens |-> e.tokens, lastSeen |-> e.lastSeen]
        /\ e.policy \in Policy /\ e.tokens \in Nat /\ e.lastSeen \in Nat
    BY Zenon DEF Entry
  <2>2. e.tokens \in 0..e.policy.burst /\ e.lastSeen \in 0..MaxTime
    BY <1>1, <2>1, PolicyFacts, RateLimitAssumption
  <2> QED
    BY <2>1, <2>2, RateLimitAssumption, Zenon
<1>2. ASSUME NEW b \in Budget, b.tokens \in Nat, b.tokens <= b.policy.burst PROVE b # None
  <2>1. b = [policy |-> b.policy, tokens |-> b.tokens] /\ b.policy \in Policy
    BY Zenon DEF Budget
  <2>2. b.tokens \in 0..b.policy.burst
    BY <1>2, <2>1, PolicyFacts
  <2> QED
    BY <2>1, <2>2, RateLimitAssumption, Zenon
<1> QED
  BY <1>1, <1>2, Zenon

LEMMA TokenCheck ==
  ASSUME TableInv, TokenInv, RefillsInTime, Clock, UNCHANGED now,
         NEW k \in Key, NEW p \in Policy, CheckLimit(k, p)
  PROVE  TokenInv'
<1> DEFINE e == [EntryFor(Swept, k, p) EXCEPT !.tokens = @ - Cost(k, p)]
           b == [Owed(k, p) EXCEPT !.tokens = @ - Cost(k, p)]
<1>1. PICK victim \in Victims(Swept, k) :
        /\ limiters' = [j \in Key |-> IF j = k THEN e ELSE IF j = victim THEN None ELSE Swept[j]]
        /\ budget' = [j \in Key |-> IF j = k THEN b ELSE IF j = victim THEN None ELSE budget[j]]
  BY CheckEffect
<1>2. /\ e \in Entry /\ e.policy = p /\ e.lastSeen = now /\ e.tokens <= p.burst
      /\ e.tokens = EntryFor(Swept, k, p).tokens - Cost(k, p)
      /\ Cost(k, p) \in Nat
  BY EntryAfter, Zenon
<1>3. b \in Budget /\ b.policy = p /\ b.tokens = Owed(k, p).tokens - Cost(k, p)
  BY OwedAfter, Zenon
<1>4. e.tokens <= b.tokens /\ b.tokens <= p.burst /\ b.tokens \in Nat
  <2>1. EntryFor(Swept, k, p).tokens <= Owed(k, p).tokens /\ Owed(k, p).tokens <= p.burst
    BY EntryOwed, Zenon
  <2>2. EntryFor(Swept, k, p).tokens \in Nat /\ Owed(k, p).tokens \in Int /\ p.burst \in Nat
    BY EntryForFacts, OwedFacts, PolicyFacts, Zenon DEF Entry, Budget, TableInv
  <2>3. e.tokens \in Nat /\ b.tokens \in Int
    BY <1>2, <1>3, Zenon DEF Entry, Budget
  <2> HIDE DEF e, b
  <2> QED
    BY <1>2, <1>3, <2>1, <2>2, <2>3
<1> HIDE DEF e, b
<1>5. e # None /\ b # None
  BY <1>2, <1>3, <1>4, RecordsNotNone, Zenon DEF Clock
<1>6. ASSUME NEW j \in Key PROVE IF limiters'[j] # None THEN Kept(j)' ELSE Full(j)'
  <2>1. CASE j = k
    <3>1. limiters'[j] = e /\ budget'[j] = b
      BY <1>1, <2>1, Zenon
    <3>2. p.rate * (now - e.lastSeen) = 0
      <4>1. now - e.lastSeen = 0 /\ p.rate \in Nat
        BY <1>2, PolicyFacts DEF Clock
      <4> QED
        BY <4>1
    <3>3. b.tokens >= p.rate * (now - e.lastSeen)
      BY <1>4, <3>2
    <3>4. Kept(j)'
      BY <1>2, <1>3, <1>4, <1>5, <3>1, <3>3, Zenon DEF Kept
    <3> QED
      BY <1>5, <3>1, <3>4, Zenon
  <2>2. CASE j # k /\ j = victim
    <3>1. limiters'[j] = None /\ budget'[j] = None
      BY <1>1, <2>2, Zenon
    <3> QED
      BY <3>1, Zenon DEF Full
  <2>3. CASE j # k /\ j # victim
    <3>1. limiters'[j] = Swept[j] /\ budget'[j] = budget[j]
      BY <1>1, <2>3, Zenon
    <3>2. CASE Swept[j] # None
      <4>1. limiters'[j] = limiters[j] /\ limiters[j] # None
        BY <3>1, <3>2, SweptFacts, Zenon DEF TableInv
      <4>2. Kept(j)
        BY <4>1, Zenon DEF TokenInv
      <4> QED
        BY <3>1, <4>1, <4>2, Zenon DEF Kept
    <3>3. CASE Swept[j] = None
      <4>1. Full(j)
        BY <3>3, SweptFull, Zenon DEF TokenInv, Full
      <4> QED
        BY <3>1, <3>3, <4>1, Zenon DEF Full
    <3> QED
      BY <3>2, <3>3, Zenon
  <2> QED
    BY <2>1, <2>2, <2>3, Zenon
<1> QED
  BY <1>6, Zenon DEF TokenInv

\* A refill keeps a full bucket full.
LEMMA FullTick ==
  ASSUME TableInv, Tick, NEW k \in Key, Full(k)
  PROVE  Full(k)'
<1>1. budget'[k] = IF budget[k] = None THEN None ELSE Refill(budget[k])
  BY Zenon DEF Tick, RefillAll
<1>2. CASE budget[k] = None
  BY <1>1, <1>2, Zenon DEF Full
<1>3. CASE budget[k] # None
  <2> DEFINE b == budget[k]
  <2>1. b \in Budget /\ b.policy \in Policy /\ b.tokens \in Int /\ b.tokens = b.policy.burst
    BY <1>3, Zenon DEF TableInv, TableType, Budget, Full
  <2>2. Refill(b).policy = b.policy /\ Refill(b).tokens = Least(b.policy.burst, b.tokens + b.policy.rate)
    BY <2>1, RefillBudget, Zenon
  <2>3. Least(b.policy.burst, b.tokens + b.policy.rate) = b.policy.burst
    BY <2>1, RefillFacts, Zenon
  <2> HIDE DEF b
  <2>4. budget'[k] = Refill(b)
    BY <1>1, <1>3, Zenon DEF b
  <2> QED
    BY <2>2, <2>3, <2>4, Zenon DEF Full
<1> QED
  BY <1>2, <1>3, Zenon

LEMMA KeptTick ==
  ASSUME TableInv, Clock, Tick, NEW k \in Key, limiters[k] # None, Kept(k)
  PROVE  limiters'[k] # None /\ Kept(k)'
<1> DEFINE e == limiters[k]
           b == budget[k]
           p == b.policy
           l == Least(p.burst, e.tokens + p.rate)
           m == Least(p.burst, b.tokens + p.rate)
           d == now - e.lastSeen
<1>1. e \in Entry /\ b \in Budget /\ e.policy = p /\ e.lastSeen <= now
  BY Zenon DEF TableInv, TableType, Kept, Entries
<1>2. /\ p \in Policy /\ e.tokens \in Nat /\ b.tokens \in Int /\ d \in Nat
      /\ p.rate \in Nat /\ p.burst \in Nat /\ e.lastSeen \in Nat /\ now \in Nat
  BY <1>1, PolicyFacts DEF Entry, Budget, Clock
<1>3. limiters'[k] = Refill(e) /\ budget'[k] = Refill(b) /\ now' = now + 1 /\ now' <= MaxTime
  BY RateLimitAssumption DEF Tick, RefillAll, Kept, Clock
<1>4. /\ Refill(e) \in Entry /\ Refill(e).policy = p /\ Refill(e).lastSeen = e.lastSeen
      /\ Refill(e).tokens = l
  BY <1>1, RefillEntry, Zenon
<1>5. Refill(b) \in Budget /\ Refill(b).policy = p /\ Refill(b).tokens = m
  BY <1>1, RefillBudget, Zenon
<1>6. e.tokens <= b.tokens /\ (b.tokens = p.burst \/ b.tokens >= p.rate * d)
  BY Zenon DEF Kept
<1>7. l \in Nat /\ m \in Nat /\ l <= m /\ m <= p.burst /\ l <= p.burst
  BY <1>2, <1>6 DEF Least
<1>8. m = p.burst \/ m >= p.rate * (d + 1)
  <2>1. p.rate * (d + 1) = p.rate * d + p.rate /\ p.rate * d \in Nat
    BY <1>2, MulNext
  <2>2. m = p.burst \/ m = b.tokens + p.rate
    BY <1>2, RefillFacts, Zenon
  <2>3. b.tokens = p.burst => m = p.burst
    BY <1>2, RefillFacts, Zenon
  <2> HIDE DEF e, b, p, l, m, d
  <2> QED
    BY <1>2, <1>6, <2>1, <2>2, <2>3
<1>9. now' - Refill(e).lastSeen = d + 1
  BY <1>2, <1>3, <1>4
<1> HIDE DEF e, b, p, l, m, d
<1>10. Refill(e).lastSeen <= MaxTime
  BY <1>1, <1>2, <1>3, <1>4, RateLimitAssumption
<1>11. Refill(e) # None /\ Refill(b) # None
  BY <1>4, <1>5, <1>7, <1>10, RecordsNotNone, Zenon
<1> QED
  BY <1>3, <1>4, <1>5, <1>7, <1>8, <1>9, <1>11, Zenon DEF Kept

\* A step checks a limit for the arguments of some request, refills the
\* buckets, or leaves the table alone.
LEMMA TableSteps ==
  ASSUME ReqInv, [Next]_vars
  PROVE  \/ UNCHANGED now /\ \E k \in Key, p \in Policy : CheckLimit(k, p)
         \/ Tick
         \/ UNCHANGED <<now, shared>>
<1>1. ASSUME NEW r \in Request, Arrive(r) PROVE UNCHANGED <<now, shared>>
  BY <1>1, Zenon DEF Arrive, shared
<1>2. ASSUME NEW r \in Request, Serve(r)
      PROVE  UNCHANGED now /\ \E k \in Key, p \in Policy : CheckLimit(k, p)
  <2>1. req[r].args.key \in Key /\ req[r].args.policy \in Policy
    BY <1>2, Zenon DEF Serve, ReqInv, ArgsKnown, Args
  <2> QED
    BY <1>2, <2>1, Zenon DEF Serve
<1>3. ASSUME NEW r \in Request, AllowLeader(r)
      PROVE  UNCHANGED now /\ \E k \in Key, p \in Policy : CheckLimit(k, p)
  <2>1. req[r].args.key \in Key /\ req[r].args.policy \in Policy
    BY <1>3, Zenon DEF AllowLeader, ReqInv, ArgsKnown, Args
  <2> QED
    BY <1>3, <2>1, Zenon DEF AllowLeader
<1>4. ASSUME NEW r \in Request, Handler(r), ~AllowLeader(r) PROVE UNCHANGED <<now, shared>>
  BY <1>4, Zenon
     DEF Handler, LockClosed, LockDial, LockSend, DialDone, DialFails, Reply, CallFails, LocalGet,
         LocalTake, LocalAdd, shared
<1>5. ASSUME NEW c \in Request, Accept(c) \/ Connection(c) PROVE UNCHANGED <<now, shared>>
  BY <1>5, Zenon DEF Accept, Connection, Register, Deregister, Release, shared
<1>6. ASSUME CloseLeader \/ CloseSockets PROVE UNCHANGED <<now, shared>>
  BY <1>6, Zenon DEF CloseLeader, CloseSockets, shared
<1>7. ASSUME NEW f \in Follower, CloseFollower(f) PROVE UNCHANGED <<now, shared>>
  BY <1>7, Zenon DEF CloseFollower, shared
<1>8. ASSUME UNCHANGED vars PROVE UNCHANGED <<now, shared>>
  BY <1>8, Zenon DEF vars, shared
<1> QED
  BY <1>1, <1>2, <1>3, <1>4, <1>5, <1>6, <1>7, <1>8, Zenon DEF Next

LEMMA TableStep ==
  ASSUME ReqInv, TableInv, [Next]_vars
  PROVE  TableInv'
  BY TableSteps, TableCheck, TableTick, TableSame, Zenon DEF ReqInv

LEMMA TokenStep ==
  ASSUME ReqInv, TableInv, TokenInv, RefillsInTime, [Next]_vars
  PROVE  TokenInv'
<1>1. CASE UNCHANGED now /\ \E k \in Key, p \in Policy : CheckLimit(k, p)
  BY <1>1, TokenCheck, Zenon DEF ReqInv
<1>2. CASE Tick
  <2>1. ASSUME NEW k \in Key PROVE IF limiters'[k] # None THEN Kept(k)' ELSE Full(k)'
    <3>1. CASE limiters[k] # None
      BY <1>2, <3>1, KeptTick, Zenon DEF ReqInv, TokenInv
    <3>2. CASE limiters[k] = None
      <4>1. limiters'[k] = None
        BY <1>2, <3>2, Zenon DEF Tick, RefillAll
      <4> QED
        BY <1>2, <3>2, <4>1, FullTick, Zenon DEF TokenInv
    <3> QED
      BY <3>1, <3>2, Zenon
  <2> QED
    BY <2>1, Zenon DEF TokenInv
<1>3. CASE UNCHANGED <<now, shared>>
  BY <1>3, Zenon DEF TokenInv, Kept, Full, shared
<1> QED
  BY <1>1, <1>2, <1>3, TableSteps, Zenon

-----------------------------------------------------------------------------
(* CacheInv. *)

\* Without takes at most one element out and keeps the order of the others.
LEMMA WithoutFacts ==
  ASSUME NEW list \in Seq(Nat), NEW gone,
         \A i, j \in DOMAIN list : list[i] \in gone /\ list[j] \in gone => i = j
  PROVE  LET w == Without(list, gone)
         IN  /\ w \in Seq(Nat)
             /\ \A i \in DOMAIN w : w[i] \notin gone /\ \E j \in DOMAIN list : w[i] = list[j]
             /\ \A j \in DOMAIN list : list[j] \notin gone => \E i \in DOMAIN w : w[i] = list[j]
             /\ Len(w) <= Len(list)
             /\ (\E j \in DOMAIN list : list[j] \in gone) => Len(w) < Len(list)
             /\ (\A i, j \in DOMAIN list : list[i] = list[j] => i = j)
                  => \A i, j \in DOMAIN w : w[i] = w[j] => i = j
<1> DEFINE at == {i \in DOMAIN list : list[i] \in gone}
           x == CHOOSE i \in at : TRUE
           n == Len(list)
           v == [i \in 1..(n - 1) |-> IF i < x THEN list[i] ELSE list[i + 1]]
<1>0. n \in Nat /\ DOMAIN list = 1..n /\ \A i \in 1..n : list[i] \in Nat
  OBVIOUS
<1>1. CASE at = {}
  <2>1. Without(list, gone) = list
    BY <1>1, Zenon DEF Without
  <2>2. \A i \in DOMAIN list : list[i] \notin gone
    BY <1>1, Zenon
  <2> QED
    BY <1>0, <2>1, <2>2
<1>2. CASE at # {}
  <2>1. Without(list, gone) = v
    BY <1>2, Zenon DEF Without
  <2>2. x \in 1..n /\ list[x] \in gone
    BY <1>0, <1>2, Zenon
  <2>3. \A i \in 1..n : i # x => list[i] \notin gone
    BY <1>0, <2>2, Zenon
  <2> HIDE DEF x, at
  <2>4. n - 1 \in Nat /\ DOMAIN v = 1..(n - 1)
    BY <1>0, <2>2
  <2>5. \A i \in 1..(n - 1) : /\ i < x => v[i] = list[i] /\ i \in 1..n /\ i # x
                              /\ ~(i < x) => v[i] = list[i + 1] /\ i + 1 \in 1..n /\ i + 1 # x
    BY <1>0, <2>2
  <2> HIDE DEF v
  <2>6. \A i \in 1..(n - 1) : v[i] \in Nat /\ v[i] \notin gone /\ \E j \in DOMAIN list : v[i] = list[j]
    BY <1>0, <2>3, <2>5, Zenon
  <2>7. v \in Seq(Nat) /\ Len(v) = n - 1
    <3>1. v = [i \in 1..(n - 1) |-> v[i]]
      BY Zenon DEF v
    <3> QED
      BY <2>4, <2>6, <3>1
  <2>8. ASSUME NEW j \in 1..n, list[j] \notin gone PROVE \E i \in 1..(n - 1) : v[i] = list[j]
    <3>1. CASE j < x
      <4>1. j \in 1..(n - 1) /\ v[j] = list[j]
        BY <1>0, <2>2, <2>5, <3>1
      <4> QED
        BY <4>1, Zenon
    <3>2. CASE ~(j < x)
      <4>1. j # x
        BY <2>2, <2>8, Zenon
      <4>2. j - 1 \in 1..(n - 1) /\ ~(j - 1 < x) /\ (j - 1) + 1 = j
        BY <1>0, <2>2, <3>2, <4>1
      <4>3. v[j - 1] = list[j]
        BY <2>5, <4>2, Zenon
      <4> QED
        BY <4>2, <4>3, Zenon
    <3> QED
      BY <3>1, <3>2, Zenon
  <2>9. ASSUME \A i, j \in 1..n : list[i] = list[j] => i = j,
               NEW i \in 1..(n - 1), NEW j \in 1..(n - 1), v[i] = v[j]
        PROVE  i = j
    <3> DEFINE p == IF i < x THEN i ELSE i + 1
               q == IF j < x THEN j ELSE j + 1
    <3>1. v[i] = list[p] /\ v[j] = list[q] /\ p \in 1..n /\ q \in 1..n
      BY <2>5, Zenon
    <3>2. p = q
      <4> HIDE DEF p, q
      <4> QED
        BY <2>9, <3>1, Zenon
    <3> QED
      BY <1>0, <2>2, <3>2
  <2>10. n - 1 < n /\ n - 1 <= n
    BY <1>0
  <2> QED
    BY <1>0, <2>1, <2>4, <2>6, <2>7, <2>8, <2>9, <2>10, Zenon
<1> QED
  BY <1>1, <1>2, Zenon

LEMMA PushFacts ==
  ASSUME NEW list \in Seq(Nat), NEW b \in Nat
  PROVE  LET u == PushFront(b, list)
         IN  /\ u \in Seq(Nat) /\ Len(u) <= LocalEntries
             /\ 1 \in DOMAIN u /\ u[1] = b
             /\ \A i \in DOMAIN u : i # 1 => i - 1 \in DOMAIN list /\ u[i] = list[i - 1]
             /\ Len(list) < LocalEntries
                  => \A j \in DOMAIN list : j + 1 \in DOMAIN u /\ u[j + 1] = list[j]
<1> DEFINE n == Len(list)
           m == Least(LocalEntries, n + 1)
           u == [i \in 1..m |-> IF i = 1 THEN b ELSE list[i - 1]]
<1>0. /\ n \in Nat /\ DOMAIN list = 1..n /\ (\A i \in 1..n : list[i] \in Nat)
      /\ LocalEntries \in Nat /\ LocalEntries >= 1
  BY RateLimitAssumption
<1>1. PushFront(b, list) = u
  BY Zenon DEF PushFront
<1>2. m \in Nat /\ m >= 1 /\ m <= LocalEntries /\ m <= n + 1 /\ (n < LocalEntries => m = n + 1)
  BY <1>0 DEF Least
<1> HIDE DEF m, n
<1>3. \A i \in 1..m : i # 1 => i - 1 \in 1..n
  BY <1>0, <1>2
<1>4. u \in [1..m -> Nat]
  BY <1>0, <1>3, Zenon
<1>5. u \in Seq(Nat) /\ Len(u) = m /\ DOMAIN u = 1..m
  BY <1>2, <1>4
<1>6. 1 \in 1..m /\ u[1] = b /\ \A i \in 1..m : i # 1 => u[i] = list[i - 1]
  BY <1>2
<1>7. ASSUME n < LocalEntries, NEW j \in 1..n PROVE j + 1 \in 1..m /\ u[j + 1] = list[j]
  <2>1. j + 1 \in 1..m /\ j + 1 # 1 /\ (j + 1) - 1 = j
    BY <1>0, <1>2, <1>7
  <2> QED
    BY <1>6, <2>1, Zenon
<1> HIDE DEF u
<1> QED
  BY <1>0, <1>1, <1>2, <1>3, <1>5, <1>6, <1>7, Zenon DEF n

\* Buckets that differ in their tokens at most.
SameBuckets ==
  /\ buckets' \in Seq(Bucket) /\ DOMAIN buckets' = DOMAIN buckets
  /\ \A b \in DOMAIN buckets :
       /\ buckets'[b].node = buckets[b].node /\ buckets'[b].key = buckets[b].key
       /\ buckets'[b].policy = buckets[b].policy /\ buckets'[b].addedAt = buckets[b].addedAt
       /\ buckets'[b].evicted = buckets[b].evicted
       /\ buckets'[b].tokens <= buckets'[b].policy.burst

\* A cache with the elements of the list, in another order perhaps.
SameElements(list, u) ==
  /\ u \in Seq(Nat) /\ Len(u) <= LocalEntries
  /\ \A i \in DOMAIN u : \E j \in DOMAIN list : u[i] = list[j]
  /\ \A j \in DOMAIN list : \E i \in DOMAIN u : u[i] = list[j]
  /\ \A i, j \in DOMAIN u : u[i] = u[j] => i = j

SameCaches ==
  local' \in [Node -> Seq(Nat)] /\ \A n \in Node : SameElements(local[n], local'[n])

LEMMA BucketFacts ==
  ASSUME LocalType, NEW b \in DOMAIN buckets
  PROVE  /\ buckets[b] \in Bucket /\ b \in Nat
         /\ buckets[b].node \in Node /\ buckets[b].policy \in Policy
         /\ buckets[b].tokens \in Nat /\ buckets[b].addedAt \in Nat
<1>1. buckets \in Seq(Bucket)
  BY Zenon DEF LocalType
<1>2. buckets[b] \in Bucket /\ b \in Nat
  BY <1>1
<1> QED
  BY <1>2, Zenon DEF Bucket

LEMMA CacheKept ==
  ASSUME CacheInv, Clock, now' \in {now, now + 1}, SameBuckets, SameCaches
  PROVE  CacheInv'
<1> USE DEF CacheInv
<1>1. LocalType'
  BY Zenon DEF LocalType, SameBuckets, SameCaches, SameElements
<1>2. BucketsSound'
  <2>1. \A b \in DOMAIN buckets : buckets[b].addedAt \in Nat
    BY BucketFacts, Zenon
  <2>2. ASSUME NEW b \in DOMAIN buckets PROVE buckets'[b].addedAt <= now'
    <3>1. buckets'[b].addedAt = buckets[b].addedAt /\ buckets[b].addedAt <= now
      BY Zenon DEF SameBuckets, BucketsSound
    <3> QED
      BY <2>1, <3>1 DEF Clock
  <2> QED
    BY <2>2, Zenon DEF BucketsSound, SameBuckets
<1>3. CacheSound'
  <2>1. ASSUME NEW n \in Node, NEW i \in DOMAIN local'[n]
        PROVE  local'[n][i] \in DOMAIN buckets' /\ buckets'[local'[n][i]].node = n
    BY <2>1 DEF SameCaches, SameElements, SameBuckets, CacheSound
  <2>2. ASSUME NEW n \in Node, NEW i \in DOMAIN local'[n], NEW j \in DOMAIN local'[n],
               buckets'[local'[n][i]].key = buckets'[local'[n][j]].key
        PROVE  i = j
    <3>1. PICK a \in DOMAIN local[n] : local'[n][i] = local[n][a]
      BY Zenon DEF SameCaches, SameElements
    <3>2. PICK c \in DOMAIN local[n] : local'[n][j] = local[n][c]
      BY Zenon DEF SameCaches, SameElements
    <3>3. local[n][a] \in DOMAIN buckets /\ local[n][c] \in DOMAIN buckets
      BY Zenon DEF CacheSound
    <3>4. buckets[local[n][a]].key = buckets[local[n][c]].key
      BY <2>2, <3>1, <3>2, <3>3, Zenon DEF SameBuckets
    <3>5. a = c
      BY <3>4, Zenon DEF CacheSound
    <3> QED
      BY <3>1, <3>2, <3>5 DEF SameCaches, SameElements
  <2>3. \A n \in Node : Len(local'[n]) <= LocalEntries
    BY Zenon DEF SameCaches, SameElements
  <2> QED
    BY <2>1, <2>2, <2>3, Zenon DEF CacheSound
<1>4. Reachable'
  <2>1. ASSUME NEW b \in DOMAIN buckets
        PROVE  Cached(b)' \/ buckets'[b].evicted
               \/ \E m \in DOMAIN buckets' : m > b /\ Place(m)' = Place(b)'
    <3>1. CASE Cached(b)
      <4> DEFINE n == buckets[b].node
      <4>1. n \in Node /\ buckets'[b].node = n
        BY BucketFacts, Zenon DEF SameBuckets
      <4> QED
        BY <3>1, <4>1 DEF Cached, SameCaches, SameElements
    <3>2. CASE buckets[b].evicted
      BY <3>2, Zenon DEF SameBuckets
    <3>3. CASE \E m \in DOMAIN buckets : m > b /\ Place(m) = Place(b)
      BY <3>3, Zenon DEF SameBuckets, Place
    <3> QED
      BY <3>1, <3>2, <3>3, Zenon DEF Reachable
  <2> QED
    BY <2>1, Zenon DEF Reachable, SameBuckets
<1>5. InOrder'
  BY Zenon DEF InOrder, SameBuckets
<1>6. OneLocalBucket'
  <2>1. \A j \in DOMAIN buckets : j \in Nat /\ \A i \in 1..(j - 1) : i \in DOMAIN buckets
    BY DEF LocalType
  <2> SUFFICES ASSUME NEW j \in DOMAIN buckets', NEW i \in 1..(j - 1),
                      /\ buckets'[i].node = buckets'[j].node /\ buckets'[i].key = buckets'[j].key
                      /\ buckets'[i].policy = buckets'[j].policy
               PROVE  \/ buckets'[j].addedAt - buckets'[i].addedAt > LocalTTL
                      \/ buckets'[i].evicted
                      \/ \E m \in (i + 1)..(j - 1) :
                           /\ buckets'[m].node = buckets'[i].node
                           /\ buckets'[m].key = buckets'[i].key
                           /\ buckets'[m].policy # buckets'[i].policy
    BY Zenon DEF OneLocalBucket
  <2>2. i \in DOMAIN buckets /\ j \in DOMAIN buckets
    BY <2>1, Zenon DEF SameBuckets
  <2>3. \A m \in (i + 1)..(j - 1) : m \in DOMAIN buckets
    BY <2>1, <2>2
  <2>4. \/ buckets[j].addedAt - buckets[i].addedAt > LocalTTL
        \/ buckets[i].evicted
        \/ \E m \in (i + 1)..(j - 1) :
             /\ buckets[m].node = buckets[i].node
             /\ buckets[m].key = buckets[i].key
             /\ buckets[m].policy # buckets[i].policy
    BY <2>2 DEF OneLocalBucket, SameBuckets
  <2> QED
    BY <2>2, <2>3, <2>4, Zenon DEF SameBuckets
<1> QED
  BY <1>1, <1>2, <1>3, <1>4, <1>5, <1>6, Zenon

LEMMA CachesSame ==
  ASSUME CacheInv, UNCHANGED local
  PROVE  SameCaches
<1>1. \A n \in Node : \A i, j \in DOMAIN local[n] : local[n][i] = local[n][j] => i = j
  BY Zenon DEF CacheInv, CacheSound
<1> QED
  BY <1>1, Zenon DEF SameCaches, SameElements, CacheInv, LocalType, CacheSound

LEMMA BucketsSame ==
  ASSUME CacheInv, UNCHANGED buckets
  PROVE  SameBuckets
  BY Zenon DEF SameBuckets, CacheInv, LocalType, BucketsSound

LEMMA CacheSame ==
  ASSUME CacheInv, Clock, UNCHANGED <<now, cache>>
  PROVE  CacheInv'
  BY CachesSame, BucketsSame, CacheKept, Zenon DEF cache

\* A cache holds what it held after one of its elements moved to the front.
LEMMA PromoteFacts ==
  ASSUME NEW list \in Seq(Nat), NEW a \in DOMAIN list, Len(list) <= LocalEntries,
         \A i, j \in DOMAIN list : list[i] = list[j] => i = j
  PROVE  SameElements(list, PushFront(list[a], Without(list, {list[a]})))
<1> DEFINE b == list[a]
           w == Without(list, {b})
           u == PushFront(b, w)
<1>0. b \in Nat /\ LocalEntries \in Nat /\ Len(list) \in Nat
  BY RateLimitAssumption
<1>1. \A i, j \in DOMAIN list : list[i] \in {b} /\ list[j] \in {b} => i = j
  BY Zenon
<1>2. /\ w \in Seq(Nat) /\ Len(w) < Len(list)
      /\ \A i \in DOMAIN w : w[i] \notin {b} /\ \E j \in DOMAIN list : w[i] = list[j]
      /\ \A j \in DOMAIN list : list[j] \notin {b} => \E i \in DOMAIN w : w[i] = list[j]
      /\ \A i, j \in DOMAIN w : w[i] = w[j] => i = j
  BY <1>1, WithoutFacts, Zenon
<1> HIDE DEF w
<1>3. Len(w) \in Nat /\ Len(w) < LocalEntries
  BY <1>0, <1>2
<1>4. /\ u \in Seq(Nat) /\ Len(u) <= LocalEntries /\ 1 \in DOMAIN u /\ u[1] = b
      /\ \A i \in DOMAIN u : i # 1 => i - 1 \in DOMAIN w /\ u[i] = w[i - 1]
      /\ \A j \in DOMAIN w : j + 1 \in DOMAIN u /\ u[j + 1] = w[j]
  BY <1>0, <1>2, <1>3, PushFacts
<1>5. DOMAIN u \subseteq Nat
  BY <1>4
<1> HIDE DEF u
<1>6. ASSUME NEW i \in DOMAIN u PROVE \E j \in DOMAIN list : u[i] = list[j]
  <2>1. CASE i = 1
    BY <1>4, <2>1, Zenon
  <2>2. CASE i # 1
    <3>1. i - 1 \in DOMAIN w /\ u[i] = w[i - 1]
      BY <1>4, <2>2, Zenon
    <3> QED
      BY <1>2, <3>1
  <2> QED
    BY <2>1, <2>2, Zenon
<1>7. \A j \in DOMAIN list : \E i \in DOMAIN u : u[i] = list[j]
  <2> SUFFICES ASSUME NEW j \in DOMAIN list PROVE \E i \in DOMAIN u : u[i] = list[j]
    BY Zenon
  <2>1. CASE list[j] = b
    BY <1>4, <2>1, Zenon
  <2>2. CASE list[j] # b
    <3>1. PICK i \in DOMAIN w : w[i] = list[j]
      BY <1>2, <2>2, Zenon
    <3> QED
      BY <1>4, <3>1, Zenon
  <2> QED
    BY <2>1, <2>2, Zenon
<1>8. ASSUME NEW i \in DOMAIN u, NEW j \in DOMAIN u, u[i] = u[j] PROVE i = j
  <2>1. CASE i = 1 \/ j = 1
    BY <1>2, <1>4, <1>8, <2>1
  <2>2. CASE i # 1 /\ j # 1
    <3>1. i - 1 = j - 1
      BY <1>2, <1>4, <1>8, <2>2
    <3> QED
      BY <1>5, <3>1
  <2> QED
    BY <2>1, <2>2, Zenon
<1> QED
  BY <1>4, <1>6, <1>7, <1>8, Zenon DEF u, w, SameElements

LEMMA PromoteSame ==
  ASSUME CacheInv, NEW n \in Node, NEW b,
         b = None \/ \E a \in DOMAIN local[n] : local[n][a] = b,
         local' = Promoted(n, b)
  PROVE  SameCaches
<1>1. CASE b = None
  <2>1. UNCHANGED local
    BY <1>1, Zenon DEF Promoted
  <2> QED
    BY <2>1, CachesSame, Zenon
<1>2. CASE b # None
  <2>1. PICK a \in DOMAIN local[n] : local[n][a] = b
    BY <1>2, Zenon
  <2> DEFINE u == PushFront(b, Without(local[n], {b}))
  <2>2. local' = [local EXCEPT ![n] = u] /\ local \in [Node -> Seq(Nat)]
    BY <1>2, Zenon DEF Promoted, CacheInv, LocalType
  <2>3. /\ local[n] \in Seq(Nat) /\ Len(local[n]) <= LocalEntries
        /\ \A m \in Node : \A i, j \in DOMAIN local[m] : local[m][i] = local[m][j] => i = j
    BY <2>2, Zenon DEF CacheInv, CacheSound
  <2>4. SameElements(local[n], u)
    BY <2>1, <2>3, PromoteFacts, Zenon
  <2> HIDE DEF u
  <2>5. local'[n] = u /\ \A m \in Node \ {n} : local'[m] = local[m]
    BY <2>2, Zenon
  <2>6. local' \in [Node -> Seq(Nat)]
    BY <2>2, <2>4, Zenon DEF SameElements
  <2>7. \A m \in Node \ {n} : SameElements(local[m], local[m])
    BY <2>2, <2>3, Zenon DEF SameElements, CacheInv, CacheSound
  <2>8. \A m \in Node : SameElements(local[m], local'[m])
    BY <2>4, <2>5, <2>7, Zenon
  <2> QED
    BY <2>6, <2>8, Zenon DEF SameCaches, SameElements
<1> QED
  BY <1>1, <1>2, Zenon

LEMMA TakeSame ==
  ASSUME CacheInv, NEW b,
         buckets' = [buckets EXCEPT ![b].tokens = IF @ >= Token THEN @ - Token ELSE @]
  PROVE  SameBuckets
<1>0. buckets \in Seq(Bucket)
  BY Zenon DEF CacheInv, LocalType
<1>1. CASE b \notin DOMAIN buckets
  <2>1. buckets' = buckets
    BY <1>0, <1>1
  <2> QED
    BY <2>1, BucketsSame, Zenon
<1>2. CASE b \in DOMAIN buckets
  <2> DEFINE t == IF buckets[b].tokens >= Token THEN buckets[b].tokens - Token ELSE buckets[b].tokens
             x == [buckets[b] EXCEPT !.tokens = t]
  <2>1. buckets' = [buckets EXCEPT ![b] = x]
    BY <1>2, Zenon
  <2>2. /\ buckets[b] \in Bucket /\ buckets[b].policy \in Policy /\ buckets[b].tokens \in Nat
        /\ buckets[b].tokens <= buckets[b].policy.burst
    BY <1>2, BucketFacts, Zenon DEF CacheInv, BucketsSound
  <2>3. t \in Nat /\ t <= buckets[b].policy.burst
    BY <2>2, PolicyFacts
  <2> HIDE DEF t
  <2>4. /\ x \in Bucket /\ x.node = buckets[b].node /\ x.key = buckets[b].key
        /\ x.policy = buckets[b].policy /\ x.addedAt = buckets[b].addedAt
        /\ x.evicted = buckets[b].evicted /\ x.tokens = t
    BY <2>2, <2>3, Zenon DEF Bucket
  <2> HIDE DEF x
  <2>5. buckets' \in Seq(Bucket) /\ DOMAIN buckets' = DOMAIN buckets
    BY <1>0, <1>2, <2>1, <2>4
  <2>6. buckets'[b] = x /\ \A c \in DOMAIN buckets : c # b => buckets'[c] = buckets[c]
    BY <1>2, <2>1, Zenon
  <2> QED
    BY <2>3, <2>4, <2>5, <2>6, Zenon DEF SameBuckets, CacheInv, BucketsSound
<1> QED
  BY <1>1, <1>2, Zenon

LEMMA CacheTick ==
  ASSUME CacheInv, Clock, Tick
  PROVE  CacheInv'
<1>0. buckets \in Seq(Bucket)
  BY Zenon DEF CacheInv, LocalType
<1>1. /\ UNCHANGED local /\ now' = now + 1
      /\ buckets' = [i \in DOMAIN buckets |-> Refill(buckets[i])]
  BY Zenon DEF Tick
<1>2. ASSUME NEW i \in DOMAIN buckets
      PROVE  /\ Refill(buckets[i]) \in Bucket
             /\ Refill(buckets[i]).node = buckets[i].node /\ Refill(buckets[i]).key = buckets[i].key
             /\ Refill(buckets[i]).policy = buckets[i].policy
             /\ Refill(buckets[i]).addedAt = buckets[i].addedAt
             /\ Refill(buckets[i]).evicted = buckets[i].evicted
             /\ Refill(buckets[i]).tokens <= buckets[i].policy.burst
  <2> DEFINE x == buckets[i]
             u == Least(x.policy.burst, x.tokens + x.policy.rate)
  <2>1. x \in Bucket /\ x.policy \in Policy /\ x.tokens \in Nat
    BY BucketFacts, Zenon DEF CacheInv
  <2>2. u \in Nat /\ u <= x.policy.burst
    BY <2>1, RefillFacts
  <2>3. Refill(x) = [x EXCEPT !.tokens = u]
    BY Zenon DEF Refill
  <2> HIDE DEF u, x
  <2> QED
    BY <2>1, <2>2, <2>3, Zenon DEF Bucket, x
<1>3. SameBuckets
  <2>1. DOMAIN buckets' = DOMAIN buckets /\ \A i \in DOMAIN buckets : buckets'[i] = Refill(buckets[i])
    BY <1>1, Zenon
  <2>2. buckets' \in Seq(Bucket)
    <3>1. DOMAIN buckets = 1..Len(buckets) /\ Len(buckets) \in Nat
      BY <1>0
    <3>2. buckets' \in [1..Len(buckets) -> Bucket]
      BY <1>1, <1>2, <3>1, Zenon
    <3> QED
      BY <3>1, <3>2
  <2> QED
    BY <1>2, <2>1, <2>2, Zenon DEF SameBuckets
<1> QED
  BY <1>1, <1>3, CachesSame, CacheKept, Zenon

LEMMA CacheGet ==
  ASSUME ReqInv, CacheInv, NEW r \in Request, LocalGet(r)
  PROVE  CacheInv'
<1> DEFINE n == req[r].args.node
           b == Get(n, req[r].args.key)
<1>1. n \in Node
  BY Zenon DEF LocalGet, ReqInv, ArgsKnown, Fallback, Node
<1>2. UNCHANGED <<now, buckets>> /\ local' = Promoted(n, b)
  BY Zenon DEF LocalGet
<1>3. b = None \/ \E a \in DOMAIN local[n] : local[n][a] = b
  BY <1>1, GetFinds, Zenon DEF CacheInv
<1> HIDE DEF n, b
<1> QED
  BY <1>1, <1>2, <1>3, PromoteSame, BucketsSame, CacheKept, Zenon DEF ReqInv

LEMMA CacheTake ==
  ASSUME ReqInv, CacheInv, NEW r \in Request, LocalTake(r)
  PROVE  CacheInv'
<1>1. UNCHANGED <<now, local>>
  BY Zenon DEF LocalTake
<1>2. SameBuckets
  BY TakeSame, Zenon DEF LocalTake, Take
<1> QED
  BY <1>1, <1>2, CachesSame, CacheKept, Zenon DEF ReqInv

\* The cache and the buckets after Add: the key's entry has given way to the
\* new bucket, the other buckets are still there or were evicted.
LEMMA AddCache ==
  ASSUME CacheInv, NEW n \in Node, NEW k, NEW p, Add(n, k, p)
  PROVE  LET u == local'[n]
         IN  /\ local' \in [Node -> Seq(Nat)] /\ \A m \in Node \ {n} : local'[m] = local[m]
             /\ Len(u) <= LocalEntries
             /\ 1 \in DOMAIN u /\ u[1] = Len(buckets) + 1
             /\ \A i \in DOMAIN u : i # 1 =>
                  \E a \in DOMAIN local[n] : u[i] = local[n][a] /\ buckets[local[n][a]].key # k
             /\ \A i, j \in DOMAIN u : i # 1 /\ j # 1 /\ u[i] = u[j] => i = j
<1> DEFINE list == local[n]
           entry == {c \in Range(list) : buckets[c].key = k}
           w == Without(list, entry)
           b == Len(buckets) + 1
           u == PushFront(b, w)
<1>1. local' = [local EXCEPT ![n] = u]
  BY Zenon DEF Add
<1>2. local \in [Node -> Seq(Nat)] /\ list \in Seq(Nat) /\ b \in Nat
  BY DEF CacheInv, LocalType
<1>3. \A i \in DOMAIN list : list[i] \in entry <=> buckets[list[i]].key = k
  BY Zenon DEF Range
<1>4. \A i, j \in DOMAIN list : list[i] = list[j] => i = j
  BY Zenon DEF CacheInv, CacheSound
<1>5. \A i, j \in DOMAIN list : list[i] \in entry /\ list[j] \in entry => i = j
  BY <1>3 DEF CacheInv, CacheSound
<1> HIDE DEF list, entry
<1>6. /\ w \in Seq(Nat)
      /\ \A i \in DOMAIN w : w[i] \notin entry /\ \E j \in DOMAIN list : w[i] = list[j]
      /\ \A i, j \in DOMAIN w : w[i] = w[j] => i = j
  BY <1>2, <1>4, <1>5, WithoutFacts, Zenon
<1> HIDE DEF w, b
<1>7. /\ u \in Seq(Nat) /\ Len(u) <= LocalEntries /\ 1 \in DOMAIN u /\ u[1] = b
      /\ \A i \in DOMAIN u : i # 1 => i - 1 \in DOMAIN w /\ u[i] = w[i - 1]
  BY <1>2, <1>6, PushFacts
<1>8. DOMAIN u \subseteq Nat
  BY <1>7
<1> HIDE DEF u
<1>9. ASSUME NEW i \in DOMAIN u, i # 1
      PROVE  \E a \in DOMAIN list : u[i] = list[a] /\ buckets[list[a]].key # k
  <2>1. i - 1 \in DOMAIN w /\ u[i] = w[i - 1]
    BY <1>7, <1>9, Zenon
  <2>2. PICK a \in DOMAIN list : w[i - 1] = list[a]
    BY <1>6, <2>1, Zenon
  <2>3. list[a] \notin entry
    BY <1>6, <2>1, <2>2, Zenon
  <2> QED
    BY <1>3, <2>1, <2>2, <2>3, Zenon
<1>10. ASSUME NEW i \in DOMAIN u, NEW j \in DOMAIN u, i # 1, j # 1, u[i] = u[j] PROVE i = j
  <2>1. i - 1 = j - 1
    BY <1>6, <1>7, <1>10
  <2> QED
    BY <1>8, <2>1
<1>11. /\ local' \in [Node -> Seq(Nat)] /\ local'[n] = u
       /\ \A m \in Node \ {n} : local'[m] = local[m]
  BY <1>1, <1>2, <1>7, Zenon
<1> QED
  BY <1>7, <1>9, <1>10, <1>11, Zenon DEF list, b

LEMMA AddBuckets ==
  ASSUME CacheInv, Clock, NEW n \in Node, NEW k \in Key, NEW p \in Policy, Add(n, k, p)
  PROVE  /\ buckets' \in Seq(Bucket) /\ Len(buckets') = Len(buckets) + 1
         /\ \A b \in DOMAIN buckets :
              /\ buckets'[b].node = buckets[b].node /\ buckets'[b].key = buckets[b].key
              /\ buckets'[b].policy = buckets[b].policy /\ buckets'[b].tokens = buckets[b].tokens
              /\ buckets'[b].addedAt = buckets[b].addedAt
              /\ buckets[b].evicted => buckets'[b].evicted
         /\ buckets'[Len(buckets) + 1] = NewBucket(n, k, p)
         /\ \A a \in DOMAIN local[n] : local[n][a] \in DOMAIN buckets =>
              \/ buckets[local[n][a]].key = k
              \/ \E i \in DOMAIN local'[n] : local'[n][i] = local[n][a]
              \/ buckets'[local[n][a]].evicted
<1> DEFINE list == local[n]
           entry == {c \in Range(list) : buckets[c].key = k}
           w == Without(list, entry)
           u == PushFront(Len(buckets) + 1, w)
           out == Range(w) \ Range(u)
           old == [i \in DOMAIN buckets |-> [buckets[i] EXCEPT !.evicted = @ \/ i \in out]]
<1>0. buckets \in Seq(Bucket) /\ list \in Seq(Nat) /\ local \in [Node -> Seq(Nat)]
  BY Zenon DEF CacheInv, LocalType
<1>1. local' = [local EXCEPT ![n] = u] /\ buckets' = Append(old, NewBucket(n, k, p))
  BY Zenon DEF Add
<1>2. local'[n] = u
  BY <1>0, <1>1, Zenon
<1>3. \A i \in DOMAIN list : list[i] \in entry <=> buckets[list[i]].key = k
  BY Zenon DEF Range
<1>4. \A i, j \in DOMAIN list : list[i] \in entry /\ list[j] \in entry => i = j
  BY <1>3 DEF CacheInv, CacheSound
<1>5. \A j \in DOMAIN list : list[j] \notin entry => \E i \in DOMAIN w : w[i] = list[j]
  <2> HIDE DEF list, entry
  <2> QED
    BY <1>0, <1>4, WithoutFacts, Zenon
<1>6. ASSUME NEW a \in DOMAIN list, buckets[list[a]].key # k
      PROVE  list[a] \in out \/ \E i \in DOMAIN u : u[i] = list[a]
  <2> HIDE DEF entry, list, w, u
  <2>1. PICK i \in DOMAIN w : w[i] = list[a]
    BY <1>3, <1>5, <1>6, Zenon
  <2> QED
    BY <2>1, Zenon DEF Range
<1> HIDE DEF out
<1>7. ASSUME NEW i \in DOMAIN buckets
      PROVE  /\ old[i] \in Bucket
             /\ old[i].node = buckets[i].node /\ old[i].key = buckets[i].key
             /\ old[i].policy = buckets[i].policy /\ old[i].tokens = buckets[i].tokens
             /\ old[i].addedAt = buckets[i].addedAt
             /\ old[i].evicted = (buckets[i].evicted \/ i \in out)
  <2>1. old[i] = [buckets[i] EXCEPT !.evicted = buckets[i].evicted \/ i \in out]
    BY Zenon
  <2>2. buckets[i] \in Bucket
    BY BucketFacts, Zenon DEF CacheInv
  <2> HIDE DEF old
  <2> QED
    BY <2>1, <2>2, Zenon DEF Bucket
<1>8. NewBucket(n, k, p) \in Bucket
  BY PolicyFacts DEF NewBucket, Bucket, Clock
<1>9. old \in Seq(Bucket) /\ Len(old) = Len(buckets) /\ DOMAIN old = DOMAIN buckets
  <2>1. DOMAIN buckets = 1..Len(buckets) /\ Len(buckets) \in Nat
    BY <1>0
  <2>2. old \in [1..Len(buckets) -> Bucket]
    BY <1>7, <2>1, Zenon
  <2> HIDE DEF old
  <2> QED
    BY <2>1, <2>2
<1> HIDE DEF old
<1>10. /\ buckets' \in Seq(Bucket) /\ Len(buckets') = Len(buckets) + 1
       /\ buckets'[Len(buckets) + 1] = NewBucket(n, k, p)
       /\ \A i \in DOMAIN buckets : buckets'[i] = old[i]
  <2>1. DOMAIN old = 1..Len(buckets) /\ Len(buckets) \in Nat
    BY <1>0, <1>9
  <2> QED
    BY <1>1, <1>8, <1>9, <2>1
<1>11. \A a \in DOMAIN list : list[a] \in DOMAIN buckets =>
         \/ buckets[list[a]].key = k
         \/ \E i \in DOMAIN u : u[i] = list[a]
         \/ buckets'[list[a]].evicted
  <2> HIDE DEF u, list
  <2> QED
    BY <1>6, <1>7, <1>10, Zenon
<1>12. ASSUME NEW b \in DOMAIN buckets
       PROVE  /\ buckets'[b].node = buckets[b].node /\ buckets'[b].key = buckets[b].key
              /\ buckets'[b].policy = buckets[b].policy /\ buckets'[b].tokens = buckets[b].tokens
              /\ buckets'[b].addedAt = buckets[b].addedAt
              /\ buckets[b].evicted => buckets'[b].evicted
  BY <1>7, <1>10, Zenon
<1> HIDE DEF u, entry, w
<1>13. \A a \in DOMAIN local[n] : local[n][a] \in DOMAIN buckets =>
         \/ buckets[local[n][a]].key = k
         \/ \E i \in DOMAIN local'[n] : local'[n][i] = local[n][a]
         \/ buckets'[local[n][a]].evicted
  BY <1>2, <1>11, Zenon
<1> QED
  BY <1>10, <1>12, <1>13, Zenon

\* The cache a new bucket joins had none that a request could have used: an
\* older bucket of the same key and policy has outlived its time, was evicted,
\* or gave way to another policy.
LEMMA AddJustified ==
  ASSUME CacheInv, Clock, NEW n \in Node, NEW k \in Key, NEW p \in Policy, StillMissing(n, k, p),
         NEW i \in DOMAIN buckets,
         buckets[i].node = n, buckets[i].key = k, buckets[i].policy = p
  PROVE  \/ now - buckets[i].addedAt > LocalTTL
         \/ buckets[i].evicted
         \/ \E m \in DOMAIN buckets : /\ m > i
                                      /\ buckets[m].node = n /\ buckets[m].key = k
                                      /\ buckets[m].policy # p
<1> USE DEF CacheInv
<1>0. now \in Nat /\ buckets[i].addedAt \in Nat /\ LocalTTL \in Nat /\ i \in Nat
  BY BucketFacts, RateLimitAssumption, Zenon DEF Clock
<1>1. CASE Cached(i)
  <2>1. PICK a \in DOMAIN local[n] : local[n][a] = i
    BY <1>1, Zenon DEF Cached
  <2> SUFFICES ASSUME now - buckets[i].addedAt <= LocalTTL PROVE FALSE
    BY <1>0
  <2> DEFINE found == {b \in Range(local[n]) :
                         buckets[b].key = k /\ now - buckets[b].addedAt <= LocalTTL}
  <2>2. i \in found
    BY <2>1, Zenon DEF Range
  <2>3. Get(n, k) \in found
    BY <2>2, Zenon DEF Get
  <2>4. \A b \in found : b = i
    <3>1. ASSUME NEW b \in found PROVE b = i
      <4>1. PICK c \in DOMAIN local[n] : local[n][c] = b
        BY <3>1, Zenon DEF Range
      <4>2. buckets[local[n][c]].key = buckets[local[n][a]].key
        BY <2>1, <3>1, <4>1, Zenon
      <4>3. c = a
        BY <4>2, Zenon DEF CacheSound
      <4> QED
        BY <2>1, <4>1, <4>3, Zenon
    <3> QED
      BY <3>1, Zenon
  <2>5. i # None
    BY <1>0, RateLimitAssumption, Zenon
  <2> QED
    BY <2>3, <2>4, <2>5, Zenon DEF StillMissing, Matches
<1>2. CASE \E m \in DOMAIN buckets : m > i /\ Place(m) = Place(i)
  <2>1. PICK m \in DOMAIN buckets : m > i /\ Place(m) = Place(i)
    BY <1>2, Zenon
  <2>2. buckets[m].node = n /\ buckets[m].key = k
    BY <2>1, Zenon DEF Place
  <2>3. CASE buckets[m].policy # p
    BY <2>1, <2>2, <2>3, Zenon
  <2>4. CASE buckets[m].policy = p
    <3>1. m \in Nat /\ i \in 1..(m - 1) /\ buckets[m].addedAt \in Nat /\ buckets[m].addedAt <= now
      BY <1>0, <2>1, BucketFacts DEF BucketsSound, LocalType
    <3>2. \/ buckets[m].addedAt - buckets[i].addedAt > LocalTTL
          \/ buckets[i].evicted
          \/ \E l \in (i + 1)..(m - 1) :
               /\ <<buckets[l].node, buckets[l].key>> = <<buckets[i].node, buckets[i].key>>
               /\ buckets[l].policy # buckets[i].policy
      BY <2>1, <2>2, <2>4, <3>1 DEF OneLocalBucket
    <3>3. \A l \in (i + 1)..(m - 1) : l \in DOMAIN buckets /\ l > i
      BY <1>0, <2>1, <3>1 DEF LocalType
    <3>4. buckets[m].addedAt - buckets[i].addedAt > LocalTTL => now - buckets[i].addedAt > LocalTTL
      BY <1>0, <3>1
    <3> QED
      BY <3>2, <3>3, <3>4, Zenon
  <2> QED
    BY <2>3, <2>4, Zenon
<1> QED
  BY <1>1, <1>2, Zenon DEF Reachable

LEMMA CacheAdd ==
  ASSUME CacheInv, Clock, UNCHANGED now,
         NEW n \in Node, NEW k \in Key, NEW p \in Policy, StillMissing(n, k, p), Add(n, k, p)
  PROVE  CacheInv'
<1> USE DEF CacheInv
<1> DEFINE x == NewBucket(n, k, p)
<1>0. PICK N : N = Len(buckets) + 1
  OBVIOUS
<1>1. /\ local' \in [Node -> Seq(Nat)] /\ \A m \in Node \ {n} : local'[m] = local[m]
      /\ Len(local'[n]) <= LocalEntries
      /\ 1 \in DOMAIN local'[n] /\ local'[n][1] = N
      /\ \A i \in DOMAIN local'[n] : i # 1 =>
           \E a \in DOMAIN local[n] : local'[n][i] = local[n][a] /\ buckets[local[n][a]].key # k
      /\ \A i, j \in DOMAIN local'[n] : i # 1 /\ j # 1 /\ local'[n][i] = local'[n][j] => i = j
  BY <1>0, AddCache
<1>2. /\ buckets' \in Seq(Bucket) /\ Len(buckets') = N /\ buckets'[N] = x
      /\ \A b \in DOMAIN buckets :
           /\ buckets'[b].node = buckets[b].node /\ buckets'[b].key = buckets[b].key
           /\ buckets'[b].policy = buckets[b].policy /\ buckets'[b].tokens = buckets[b].tokens
           /\ buckets'[b].addedAt = buckets[b].addedAt
           /\ buckets[b].evicted => buckets'[b].evicted
      /\ \A a \in DOMAIN local[n] : local[n][a] \in DOMAIN buckets =>
           \/ buckets[local[n][a]].key = k
           \/ \E i \in DOMAIN local'[n] : local'[n][i] = local[n][a]
           \/ buckets'[local[n][a]].evicted
  BY <1>0, AddBuckets
<1>3. /\ x.node = n /\ x.key = k /\ x.policy = p /\ x.addedAt = now /\ x.tokens <= p.burst
  BY PolicyFacts DEF NewBucket
<1> HIDE DEF x
<1>4. /\ DOMAIN buckets' = DOMAIN buckets \cup {N} /\ N \notin DOMAIN buckets /\ N \in Nat
      /\ \A b \in DOMAIN buckets : b \in 1..(N - 1) /\ b < N
      /\ \A b \in 1..(N - 1) : b \in DOMAIN buckets
  <2>1. Len(buckets) \in Nat /\ DOMAIN buckets = 1..Len(buckets) /\ DOMAIN buckets' = 1..N
    BY <1>0, <1>2 DEF LocalType
  <2> QED
    BY <1>0, <2>1
<1>5. LocalType'
  BY <1>1, <1>2 DEF LocalType
<1>6. BucketsSound'
  <2>1. ASSUME NEW b \in DOMAIN buckets'
        PROVE  buckets'[b].tokens <= buckets'[b].policy.burst /\ buckets'[b].addedAt <= now'
    <3>1. CASE b = N
      BY <1>2, <1>3, <3>1 DEF Clock
    <3>2. CASE b \in DOMAIN buckets
      BY <1>2, <3>2 DEF BucketsSound
    <3> QED
      BY <1>4, <3>1, <3>2
  <2> QED
    BY <2>1 DEF BucketsSound
<1>7. CacheSound'
  <2>1. \A m \in Node : \A i \in DOMAIN local[m] :
          local[m][i] \in DOMAIN buckets /\ buckets[local[m][i]].node = m
    BY DEF CacheSound
  <2>2. ASSUME NEW m \in Node \ {n}
        PROVE  /\ Len(local'[m]) <= LocalEntries
               /\ \A i \in DOMAIN local'[m] :
                    local'[m][i] \in DOMAIN buckets' /\ buckets'[local'[m][i]].node = m
               /\ \A i, j \in DOMAIN local'[m] :
                    buckets'[local'[m][i]].key = buckets'[local'[m][j]].key => i = j
    <3>1. /\ local'[m] = local[m] /\ Len(local[m]) <= LocalEntries
          /\ \A i, j \in DOMAIN local[m] :
               buckets[local[m][i]].key = buckets[local[m][j]].key => i = j
      BY <1>1 DEF CacheSound
    <3> QED
      BY <1>2, <1>4, <2>1, <3>1
  <2>3. ASSUME NEW i \in DOMAIN local'[n]
        PROVE  /\ local'[n][i] \in DOMAIN buckets' /\ buckets'[local'[n][i]].node = n
               /\ i # 1 => buckets'[local'[n][i]].key # k
    <3>1. CASE i = 1
      BY <1>1, <1>2, <1>3, <1>4, <3>1
    <3>2. CASE i # 1
      <4>1. PICK a \in DOMAIN local[n] :
              local'[n][i] = local[n][a] /\ buckets[local[n][a]].key # k
        BY <1>1, <3>2
      <4> QED
        BY <1>2, <1>4, <2>1, <4>1
    <3> QED
      BY <3>1, <3>2
  <2>4. ASSUME NEW i \in DOMAIN local'[n], NEW j \in DOMAIN local'[n],
               buckets'[local'[n][i]].key = buckets'[local'[n][j]].key
        PROVE  i = j
    <3>1. CASE i = 1 \/ j = 1
      <4>1. buckets'[local'[n][1]].key = k
        BY <1>1, <1>2, <1>3
      <4> QED
        BY <2>3, <2>4, <3>1, <4>1
    <3>2. CASE i # 1 /\ j # 1
      <4>1. PICK a \in DOMAIN local[n] : local'[n][i] = local[n][a]
        BY <1>1, <3>2
      <4>2. PICK c \in DOMAIN local[n] : local'[n][j] = local[n][c]
        BY <1>1, <3>2
      <4>3. buckets[local[n][a]].key = buckets[local[n][c]].key
        BY <1>2, <2>1, <2>4, <4>1, <4>2
      <4>4. a = c
        BY <4>3 DEF CacheSound
      <4> QED
        BY <1>1, <3>2, <4>1, <4>2, <4>4
    <3> QED
      BY <3>1, <3>2
  <2> QED
    BY <1>1, <2>2, <2>3, <2>4 DEF CacheSound
<1>8. Reachable'
  <2>1. ASSUME NEW b \in DOMAIN buckets
        PROVE  Cached(b)' \/ buckets'[b].evicted
               \/ \E m \in DOMAIN buckets' : m > b /\ Place(m)' = Place(b)'
    <3>1. CASE Cached(b)
      <4>1. buckets'[b].node = buckets[b].node /\ buckets[b].node \in Node
        BY <1>2, BucketFacts
      <4>2. CASE buckets[b].node # n
        BY <1>1, <3>1, <4>1, <4>2 DEF Cached
      <4>3. CASE buckets[b].node = n
        <5>1. PICK a \in DOMAIN local[n] : local[n][a] = b
          BY <3>1, <4>3 DEF Cached
        <5>2. CASE buckets[b].key = k
          <6>1. Place(N)' = Place(b)' /\ N \in DOMAIN buckets' /\ N > b
            BY <1>2, <1>3, <1>4, <4>3, <5>2, BucketFacts DEF Place
          <6> QED
            BY <6>1
        <5>3. CASE \E i \in DOMAIN local'[n] : local'[n][i] = b
          BY <4>1, <4>3, <5>3 DEF Cached
        <5> QED
          BY <1>2, <5>1, <5>2, <5>3
      <4> QED
        BY <4>2, <4>3
    <3>2. CASE buckets[b].evicted
      BY <1>2, <3>2
    <3>3. CASE \E m \in DOMAIN buckets : m > b /\ Place(m) = Place(b)
      BY <1>2, <1>4, <3>3 DEF Place
    <3> QED
      BY <3>1, <3>2, <3>3 DEF Reachable
  <2>2. Cached(N)'
    BY <1>1, <1>2, <1>3 DEF Cached
  <2> QED
    BY <1>4, <2>1, <2>2 DEF Reachable
<1>9. InOrder'
  <2>1. ASSUME NEW i \in DOMAIN buckets', NEW j \in DOMAIN buckets', i < j
        PROVE  buckets'[i].addedAt <= buckets'[j].addedAt
    <3>1. i \in DOMAIN buckets
      <4>1. CASE i = N
        BY <1>4, <2>1, <4>1
      <4> QED
        BY <1>4, <4>1
    <3>2. CASE j = N
      BY <1>2, <1>3, <3>1, <3>2 DEF BucketsSound
    <3>3. CASE j \in DOMAIN buckets
      BY <1>2, <2>1, <3>1, <3>3 DEF InOrder
    <3> QED
      BY <1>4, <3>2, <3>3
  <2> QED
    BY <2>1 DEF InOrder
<1>10. OneLocalBucket'
  <2> SUFFICES ASSUME NEW j \in DOMAIN buckets', NEW i \in 1..(j - 1),
                      /\ buckets'[i].node = buckets'[j].node /\ buckets'[i].key = buckets'[j].key
                      /\ buckets'[i].policy = buckets'[j].policy
               PROVE  \/ buckets'[j].addedAt - buckets'[i].addedAt > LocalTTL
                      \/ buckets'[i].evicted
                      \/ \E m \in (i + 1)..(j - 1) :
                           /\ buckets'[m].node = buckets'[i].node
                           /\ buckets'[m].key = buckets'[i].key
                           /\ buckets'[m].policy # buckets'[i].policy
    BY DEF OneLocalBucket
  <2>1. j \in Nat /\ i \in Nat /\ i < j /\ i \in DOMAIN buckets
    BY <1>4
  <2>2. CASE j = N
    <3>1. buckets[i].node = n /\ buckets[i].key = k /\ buckets[i].policy = p
      BY <1>2, <1>3, <2>1, <2>2
    <3>2. \/ now - buckets[i].addedAt > LocalTTL
          \/ buckets[i].evicted
          \/ \E m \in DOMAIN buckets : /\ m > i
                                       /\ buckets[m].node = n /\ buckets[m].key = k
                                       /\ buckets[m].policy # p
      BY <2>1, <3>1, AddJustified
    <3>3. \A m \in DOMAIN buckets : m > i => m \in (i + 1)..(j - 1)
      BY <1>4, <2>1, <2>2
    <3> QED
      BY <1>2, <1>3, <2>1, <2>2, <3>1, <3>2, <3>3
  <2>3. CASE j \in DOMAIN buckets
    <3>1. \/ buckets[j].addedAt - buckets[i].addedAt > LocalTTL
          \/ buckets[i].evicted
          \/ \E m \in (i + 1)..(j - 1) :
               /\ buckets[m].node = buckets[i].node
               /\ buckets[m].key = buckets[i].key
               /\ buckets[m].policy # buckets[i].policy
      BY <1>2, <2>1, <2>3 DEF OneLocalBucket
    <3>2. \A m \in (i + 1)..(j - 1) : m \in DOMAIN buckets
      BY <1>4, <2>1, <2>3
    <3> QED
      BY <1>2, <2>1, <2>3, <3>1, <3>2
  <2> QED
    BY <1>4, <2>2, <2>3
<1> QED
  BY <1>5, <1>6, <1>7, <1>8, <1>9, <1>10

LEMMA CacheLocalAdd ==
  ASSUME ReqInv, CacheInv, NEW r \in Request, LocalAdd(r)
  PROVE  CacheInv'
<1> DEFINE n == req[r].args.node
           k == req[r].args.key
           p == req[r].args.policy
<1>1. n \in Node /\ k \in Key /\ p \in Policy
  BY Zenon DEF LocalAdd, ReqInv, ArgsKnown, Args
<1>2. UNCHANGED now
  BY Zenon DEF LocalAdd
<1>3. CASE StillMissing(n, k, p)
  <2>1. Add(n, k, p)
    BY <1>3, Zenon DEF LocalAdd
  <2> HIDE DEF n, k, p
  <2> QED
    BY <1>1, <1>2, <1>3, <2>1, CacheAdd, Zenon DEF ReqInv
<1>4. CASE ~StillMissing(n, k, p)
  <2>1. Take(r, Get(n, k)) /\ local' = Promoted(n, Get(n, k))
    BY <1>4, Zenon DEF LocalAdd
  <2> HIDE DEF n, k, p
  <2>2. Get(n, k) = None \/ \E a \in DOMAIN local[n] : local[n][a] = Get(n, k)
    BY <1>1, GetFinds, Zenon DEF CacheInv
  <2>3. SameBuckets
    BY <2>1, TakeSame, Zenon DEF Take
  <2>4. SameCaches
    BY <1>1, <2>1, <2>2, PromoteSame, Zenon
  <2> QED
    BY <1>2, <2>3, <2>4, CacheKept, Zenon DEF ReqInv
<1> QED
  BY <1>3, <1>4, Zenon

LEMMA CacheStep ==
  ASSUME ReqInv, CacheInv, [Next]_vars
  PROVE  CacheInv'
<1> USE DEF ReqInv
<1>1. ASSUME NEW r \in Request, Arrive(r) \/ Serve(r) PROVE CacheInv'
  BY <1>1, CacheSame, Zenon DEF Arrive, Serve
<1>2. ASSUME NEW r \in Request, Handler(r) PROVE CacheInv'
  <2>1. CASE AllowLeader(r) \/ LockClosed(r) \/ LockDial(r) \/ LockSend(r)
             \/ DialDone(r) \/ DialFails(r) \/ Reply(r) \/ CallFails(r)
    <3>1. UNCHANGED <<now, cache>>
      BY <2>1, Zenon
         DEF AllowLeader, LockClosed, LockDial, LockSend, DialDone, DialFails, Reply, CallFails
    <3> QED
      BY <3>1, CacheSame, Zenon
  <2> QED
    BY <1>2, <2>1, CacheGet, CacheTake, CacheLocalAdd, Zenon DEF Handler
<1>3. ASSUME NEW c \in Request, Accept(c) \/ Connection(c) PROVE CacheInv'
  BY <1>3, CacheSame, Zenon DEF Accept, Connection, Register, Deregister, Release
<1>4. ASSUME CloseLeader \/ CloseSockets PROVE CacheInv'
  BY <1>4, CacheSame, Zenon DEF CloseLeader, CloseSockets
<1>5. ASSUME NEW f \in Follower, CloseFollower(f) PROVE CacheInv'
  BY <1>5, CacheSame, Zenon DEF CloseFollower
<1>6. ASSUME UNCHANGED vars PROVE CacheInv'
  BY <1>6, CacheSame, Zenon DEF vars
<1> QED
  BY <1>1, <1>2, <1>3, <1>4, <1>5, <1>6, CacheTick, Zenon DEF Next

-----------------------------------------------------------------------------
(* The theorems. *)

LEMMA InitHolds ==
  ASSUME Init
  PROVE  IInv /\ TokenInv
<1>0. /\ 0 \in Nat /\ MaxTime \in Nat /\ MaxEntries \in Nat /\ MaxConnections \in Nat
      /\ LocalEntries \in Nat /\ 0 <= MaxTime /\ 0 <= MaxEntries /\ 0 <= MaxConnections
      /\ 0 <= LocalEntries
  BY RateLimitAssumption
<1>1. ReqInv
  BY <1>0, Zenon DEF Init, ReqInv, ReqType, ReqRec, ArgsKnown, Clock, Dialling, Fallback
<1>2. ConnInv
  <2>1. ConnType /\ NotDialled /\ CloseCovers
    BY Zenon DEF Init, ConnType, ConnRec, ServerRec, NotDialled, CloseCovers
  <2>2. Taken = {} /\ server.slots = 0
    BY Zenon DEF Init, Taken
  <2>3. SlotsCounted
    BY <1>0, <2>2, FS_EmptySet, Zenon DEF SlotsCounted
  <2> QED
    BY <2>1, <2>3, Zenon DEF ConnInv
<1>3. LinkInv
  <2>1. LinkType
    BY Zenon DEF Init, LinkType, LinkRec
  <2>2. /\ \A f \in Follower : link[f].mu = None /\ link[f].client = None /\ ~link[f].closed
        /\ \A r \in Request : req[r].pc = "idle" /\ req[r].via = None
    BY Zenon DEF Init
  <2> QED
    BY <2>1, <2>2, Zenon
       DEF LinkInv, HolderKnown, ClientKnown, ViaKnown, NoClientAfterClose, Fallback
<1>4. TableInv /\ TokenInv
  <2>1. TableType /\ \A k \in Key : limiters[k] = None /\ budget[k] = None
    BY Zenon DEF Init, TableType
  <2>2. Entries(limiters) = {}
    BY <2>1, Zenon DEF Entries
  <2>3. TableInv
    BY <1>0, <2>1, <2>2, FS_EmptySet, Zenon DEF TableInv
  <2>4. TokenInv
    BY <2>1, Zenon DEF TokenInv, Full
  <2> QED
    BY <2>3, <2>4, Zenon
<1>5. CacheInv
  <2>1. LocalType
    BY DEF Init, LocalType
  <2>2. DOMAIN buckets = {} /\ \A n \in Node : Len(local[n]) = 0 /\ DOMAIN local[n] = {}
    BY DEF Init
  <2> QED
    BY <1>0, <2>1, <2>2, Zenon
       DEF CacheInv, BucketsSound, CacheSound, Reachable, InOrder, OneLocalBucket
<1> QED
  BY <1>1, <1>2, <1>3, <1>4, <1>5, Zenon DEF IInv

LEMMA StepHolds ==
  ASSUME IInv, [Next]_vars
  PROVE  IInv'
<1>1. ReqInv /\ ConnInv /\ LinkInv /\ TableInv /\ CacheInv /\ LocalType
  BY Zenon DEF IInv, CacheInv
<1> QED
  BY <1>1, ReqStep, ConnStep, LinkStep, TableStep, CacheStep, Zenon DEF IInv

\* The parts of the state keep in step with one another: slots with the
\* connections taken on, clientMu with its holder, calls with their client,
\* the table with its bound, the caches with their buckets.
THEOREM RateLimitInvariant == Spec => []IInv
<1>1. Init => IInv
  BY InitHolds, Zenon
<1>2. IInv /\ [Next]_vars => IInv'
  BY StepHolds, Zenon
<1> QED
  BY <1>1, <1>2, PTL DEF Spec

\* Whichever side closes, no connection and no client is left or made
\* afterwards: Close of the leader shuts every connection that is served, and
\* a closed follower has no client and nobody holds its clientMu.
THEOREM ClosedForGoodHolds == Spec => []ClosedForGood
<1>1. IInv => ClosedForGood
  BY Zenon DEF IInv, ConnInv, CloseCovers, LinkInv, ClosedForGood, NoConnectionOutlivesClose
<1> QED
  BY <1>1, RateLimitInvariant, PTL

\* No call ever uses a connection on which an earlier call failed or timed out.
THEOREM FailedConnectionAbandonedHolds == Spec => []FailedConnectionAbandoned
<1>1. IInv => FailedConnectionAbandoned
  <2> SUFFICES ASSUME IInv, NEW r \in Request, NEW s \in Request, req[r].pc = "call",
                      req[s].pc \in Fallback, req[s].via # None
               PROVE  req[r].via # req[s].via
    BY Zenon DEF FailedConnectionAbandoned, Fallback
  <2>1. req[r].args.node \in Follower
    BY Zenon DEF IInv, ReqInv, ArgsKnown
  <2>2. link[req[r].args.node].client = req[r].via
    BY Zenon DEF IInv, LinkInv, ClientKnown
  <2>3. \A f \in Follower : link[f].client # req[s].via
    BY Zenon DEF IInv, LinkInv, ViaKnown
  <2> QED
    BY <2>1, <2>2, <2>3, Zenon
<1> QED
  BY <1>1, RateLimitInvariant, PTL

LEMMA BoundsFollow == IInv => TypeOK /\ TableBounded /\ OneLocalBucket
<1> SUFFICES ASSUME IInv PROVE TypeOK /\ TableBounded /\ OneLocalBucket
  BY Zenon
<1>1. TableBounded /\ OneLocalBucket
  BY Zenon DEF IInv, TableInv, CacheInv, TableBounded
<1>2. now \in 0..MaxTime
  BY RateLimitAssumption DEF IInv, ReqInv, Clock
<1>3. ASSUME NEW k \in Entries(limiters)
      PROVE  limiters[k].tokens \in 0..limiters[k].policy.burst
  <2>1. limiters[k] \in Entry /\ limiters[k].tokens <= limiters[k].policy.burst
    BY Zenon DEF IInv, TableInv, TableType, Entries
  <2>2. limiters[k].tokens \in Nat /\ limiters[k].policy.burst \in Nat
    BY <2>1, PolicyFacts, Zenon DEF Entry
  <2> QED
    BY <2>1, <2>2
<1>4. server.slots \in 0..MaxConnections
  <2>1. server.slots \in Nat /\ server.slots <= MaxConnections /\ MaxConnections \in Nat
    BY RateLimitAssumption, Zenon DEF IInv, ConnInv, ConnType, ServerRec, SlotsCounted
  <2> QED
    BY <2>1
<1>5. ASSUME NEW i \in DOMAIN buckets PROVE buckets[i].tokens \in 0..buckets[i].policy.burst
  <2>1. buckets[i].tokens \in Nat /\ buckets[i].tokens <= buckets[i].policy.burst
        /\ buckets[i].policy \in Policy
    BY BucketFacts, Zenon DEF IInv, CacheInv, BucketsSound
  <2> QED
    BY <2>1, PolicyFacts
<1>6. \A n \in Node : Len(local[n]) <= LocalEntries
  BY Zenon DEF IInv, CacheInv, CacheSound
<1> QED
  BY <1>1, <1>2, <1>3, <1>4, <1>5, <1>6, Zenon DEF TypeOK

\* Whatever the policies: the leader's table, its connection slots and the
\* local caches stay within their capacity, no bucket holds more than its
\* burst, and a node never gives a key two live buckets for one policy.
THEOREM BoundsHold == Spec => [](TypeOK /\ TableBounded /\ OneLocalBucket)
  BY BoundsFollow, RateLimitInvariant, PTL

\* For policies that refill before an idle entry expires, CheckLimit moreover
\* never lets a key have more tokens than one token bucket would have given it.
THEOREM TableSoundHolds == ASSUME RefillsInTime PROVE Spec => []TableSound
<1>1. Init => TokenInv
  BY InitHolds, Zenon
<1>2. IInv /\ TokenInv /\ [Next]_vars => TokenInv'
  BY TokenStep, Zenon DEF IInv
<1>3. IInv /\ TokenInv => TableSound
  <2>1. IInv /\ TokenInv => NoExtraTokens
    BY Zenon DEF TokenInv, Kept, NoExtraTokens, Entries
  <2> QED
    BY <2>1, BoundsFollow, Zenon DEF TableSound
<1> QED
  BY <1>1, <1>2, <1>3, RateLimitInvariant, PTL DEF Spec

=============================================================================
