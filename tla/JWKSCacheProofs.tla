-------------------------- MODULE JWKSCacheProofs --------------------------
(***************************************************************************)
(* Proofs about JWKSCache, for every finite set of requests, every set of  *)
(* endpoints and whatever issuers publish.  IInv is about the refresh      *)
(* locks; DInv, which needs it, is about the entries: how many there are,  *)
(* how old they are, and which keys a request may find missing.            *)
(***************************************************************************)
EXTENDS JWKSCache, FiniteSetTheorems, TLAPS

Holding == {"fetch", "store", "evict", "unlock"}          \* hold a lock's mutex
Referring == Holding \cup {"lock", "release"}             \* hold a reference
Working == Referring \cup {"lookup", "acquire", "verify"} \* have an endpoint
Control == Working \cup {"idle", "accepted", "unauthorized", "unavailable"}

\* The fields of a request that the argument reads.
IsRequest(q) == {"pc", "ask", "lock"} \subseteq DOMAIN q

RequestOK(q) ==
    /\ IsRequest(q)
    /\ q.pc \in Control
    /\ q.lock \in Request \cup {None}
    /\ q.lock # None <=> q.pc \in Referring
    /\ q.pc \in Working => q.ask.endpoint \in Endpoint

StateOK ==
    /\ req = [r \in Request |-> req[r]]
    /\ \A r \in Request : RequestOK(req[r])
    /\ locks \in [Endpoint -> Request \cup {None}]
    /\ lock \in [Request -> [refs : Nat, holder : Request \cup {None}]]

\* A request refers to the lock in the table.
Shared == \A r \in Request : req[r].pc \in Referring => locks[Endp(r)] = req[r].lock

\* A lock in the table was made by a request for that endpoint.
MadeFor ==
    \A e \in Endpoint : locks[e] # None =>
        /\ req[locks[e]].pc # "idle"
        /\ req[locks[e]].pc \in Working => Endp(locks[e]) = e

\* No lock is in the table twice.
Distinct == \A e, f \in Endpoint : locks[e] # None /\ locks[e] = locks[f] => e = f

\* Whoever is behind the lock holds it.
Held == \A r \in Request : req[r].pc \in Holding => lock[req[r].lock].holder = r

Users(l) == {r \in Request : req[r].lock = l}

\* References are counted exactly.
Counted == \A l \in Request : lock[l].refs = Cardinality(Users(l))

\* A lock in the table is in use.
Used == \A e \in Endpoint : locks[e] # None => Users(locks[e]) # {}

IInv == StateOK /\ Shared /\ MadeFor /\ Distinct /\ Held /\ Counted /\ Used

-----------------------------------------------------------------------------
LEMMA InitInv == Init => IInv
<1> SUFFICES ASSUME Init PROVE IInv
  BY Zenon
<1>0. None \notin Request /\ \A r \in Request : req[r] = Idle
  BY JWKSAssumption, Zenon DEF Init
<1>1. RequestOK(Idle)
  BY Zenon DEF RequestOK, IsRequest, Idle, Control, Working, Referring, Holding
<1>2. StateOK
  BY <1>0, <1>1, Zenon DEF Init, StateOK
<1>3. Shared /\ Held
  BY <1>0 DEF Idle, Shared, Held, Referring, Holding
<1>4. MadeFor /\ Distinct /\ Used
  BY Zenon DEF Init, MadeFor, Distinct, Used
<1>5. \A l \in Request : Users(l) = {}
  BY <1>0 DEF Users, Idle
<1>6. Counted
  BY <1>5, FS_EmptySet, Zenon DEF Init, Counted
<1> QED
  BY <1>2, <1>3, <1>4, <1>6, Zenon DEF IInv

\* What a request may do without acquiring or releasing a reference, and
\* without taking a mutex either.
Shifts(q, p) ==
    /\ RequestOK(p)
    /\ p.lock = q.lock
    /\ p.pc = "idle" => q.pc = "idle"
    /\ p.pc \in Working =>
         \/ q.pc = "idle"
         \/ q.pc \in Working /\ p.ask.endpoint = q.ask.endpoint

Moves(q, p) == Shifts(q, p) /\ (p.pc \in Holding => q.pc \in Holding)

\* The references stay, and whoever is behind a lock holds it.
LEMMA ShiftsInv ==
  ASSUME IInv, UNCHANGED locks, Held',
         lock' \in [Request -> [refs : Nat, holder : Request \cup {None}]],
         \A l \in Request : lock'[l].refs = lock[l].refs,
         req' = [r \in Request |-> req'[r]],
         \A r \in Request : Shifts(req[r], req'[r])
  PROVE  IInv'
<1>1. StateOK'
  BY Zenon DEF IInv, StateOK, Shifts
<1>2. Shared'
  <2> SUFFICES ASSUME NEW r \in Request, req'[r].pc \in Referring
               PROVE  locks[req'[r].ask.endpoint] = req'[r].lock
    BY Zenon DEF Shared, Endp
  <2>1. req[r].pc \in Referring /\ req'[r].lock = req[r].lock
    BY Zenon DEF IInv, StateOK, RequestOK, Shifts
  <2>2. req'[r].ask.endpoint = req[r].ask.endpoint
    BY <2>1, Zenon DEF Shifts, Working, Referring, Holding
  <2> QED
    BY <2>1, <2>2, Zenon DEF IInv, Shared, Endp
<1>3. MadeFor'
  <2> SUFFICES ASSUME NEW e \in Endpoint, locks[e] # None
               PROVE  /\ req'[locks[e]].pc # "idle"
                      /\ req'[locks[e]].pc \in Working => req'[locks[e]].ask.endpoint = e
    BY Zenon DEF MadeFor, Endp
  <2>1. locks[e] \in Request
    BY Zenon DEF IInv, StateOK
  <2>2. /\ req[locks[e]].pc # "idle"
        /\ req[locks[e]].pc \in Working => req[locks[e]].ask.endpoint = e
    BY Zenon DEF IInv, MadeFor, Endp
  <2> QED
    BY <2>1, <2>2, Zenon DEF Shifts
<1>4. Distinct'
  BY Zenon DEF IInv, Distinct
<1>5. \A l : Users(l)' = Users(l)
  BY Zenon DEF Users, Shifts
<1>6. Counted' /\ Used'
  BY <1>5, Zenon DEF IInv, Counted, Used
<1> QED
  BY <1>1, <1>2, <1>3, <1>4, <1>6, Zenon DEF IInv

\* The locks stay as they are.
LEMMA MovesInv ==
  ASSUME IInv, UNCHANGED <<locks, lock>>, req' = [r \in Request |-> req'[r]],
         \A r \in Request : Moves(req[r], req'[r])
  PROVE  IInv'
<1>1. Held'
  BY Zenon DEF IInv, Held, Moves, Shifts
<1> QED
  BY <1>1, ShiftsInv, Zenon DEF IInv, StateOK, Moves

LEMMA StaysPut ==
  ASSUME IInv
  PROVE  \A q \in Request : Moves(req[q], req[q])
  BY Zenon DEF IInv, StateOK, RequestOK, Moves, Shifts, Control

\* One request moves.
LEMMA OneMoves ==
  ASSUME IInv, UNCHANGED <<locks, lock>>, NEW r \in Request, NEW p,
         req' = [req EXCEPT ![r] = p], Moves(req[r], p)
  PROVE  IInv'
<1>1. req' = [q \in Request |-> req'[q]] /\ \A q \in Request \ {r} : req'[q] = req[q]
  BY Zenon DEF IInv, StateOK
<1>2. req'[r] = p
  BY Zenon DEF IInv, StateOK
<1> QED
  BY <1>1, <1>2, StaysPut, MovesInv, Zenon

\* Moves, from the control states before and after.
LEMMA Moving ==
  ASSUME NEW q, NEW p, RequestOK(q), IsRequest(p), p.lock = q.lock,
         \/ /\ q.pc = "idle" /\ p.pc = "lookup" /\ p.ask.endpoint \in Endpoint
         \/ /\ q.pc \in {"idle", "verify"} /\ p.pc \in {"accepted", "unauthorized"}
         \/ /\ p.ask = q.ask
            /\ \/ q.pc = "lookup" /\ p.pc \in {"verify", "acquire"}
               \/ q.pc = "verify" /\ p.pc = "lookup"
               \/ q.pc \in Holding /\ p.pc \in Holding
  PROVE  Moves(q, p)
  BY Zenon DEF Moves, Shifts, RequestOK, Control, Working, Referring, Holding

\* The steps that only move their request on.
LEMMA WalkInv ==
  ASSUME IInv, NEW r \in Request,
         \/ Arrive(r) \/ Lookup(r) \/ FetchFails(r) \/ Answer(r)
         \/ StoreEntry(r) \/ EvictEntries(r) \/ Verify(r)
  PROVE  IInv'
<1>0. RequestOK(req[r]) /\ IsRequest(req[r]) /\ req[r].pc \in Control
      /\ (req[r].pc \in {"idle", "lookup", "verify"} => req[r].lock = None)
  BY Zenon DEF IInv, StateOK, RequestOK, Control, Working, Referring, Holding
<1>1. CASE Arrive(r)
  <2>1. req[r].pc = "idle" /\ req[r].lock = None
    BY <1>0, <1>1, Zenon DEF Arrive
  <2>2. PICK ask \in Ask[r] : req' = [req EXCEPT ![r] =
                    IF ask.token = None
                    THEN Decided("unauthorized")
                    ELSE [Idle EXCEPT !.pc = "lookup", !.ask = ask, !.since = now,
                             !.live = VerifiesUnder(ask.token, served[ask.endpoint])]]
    BY <1>1, Zenon DEF Arrive
  <2>3. ask.endpoint \in Endpoint
    BY JWKSAssumption, Zenon
  <2>4. Moves(req[r], Decided("unauthorized"))
    <3> DEFINE p == Decided("unauthorized")
    <3>1. IsRequest(p) /\ p.pc = "unauthorized" /\ p.lock = None
      BY Zenon DEF IsRequest, Decided, Idle
    <3> QED
      BY <1>0, <2>1, <3>1, Moving, Zenon
  <2>5. Moves(req[r], [Idle EXCEPT !.pc = "lookup", !.ask = ask, !.since = now,
                          !.live = VerifiesUnder(ask.token, served[ask.endpoint])])
    <3> DEFINE p == [Idle EXCEPT !.pc = "lookup", !.ask = ask, !.since = now,
                        !.live = VerifiesUnder(ask.token, served[ask.endpoint])]
    <3>1. IsRequest(p) /\ p.pc = "lookup" /\ p.lock = None /\ p.ask = ask
      BY Zenon DEF IsRequest, Idle
    <3> QED
      BY <1>0, <2>1, <2>3, <3>1, Moving, Zenon
  <2>6. UNCHANGED <<locks, lock>>
    BY <1>1, Zenon DEF Arrive
  <2> QED
    BY <2>2, <2>4, <2>5, <2>6, OneMoves, Zenon
<1>2. CASE Lookup(r)
  <2> DEFINE cached == cache[Endp(r)]
             p == IF Usable(cached, req[r].previous)
                  THEN [req[r] EXCEPT !.entry = cached, !.pc = "verify"]
                  ELSE [req[r] EXCEPT !.entry = None, !.pc = "acquire"]
  <2>1. req' = [req EXCEPT ![r] = p] /\ UNCHANGED <<locks, lock>> /\ req[r].pc = "lookup"
    BY <1>2, Zenon DEF Lookup
  <2>2. IsRequest(p) /\ p.pc \in {"verify", "acquire"} /\ p.lock = req[r].lock /\ p.ask = req[r].ask
    BY <1>0, Zenon DEF IsRequest
  <2>3. Moves(req[r], p)
    BY <1>0, <2>1, <2>2, Moving, Zenon DEF Holding
  <2> QED
    BY <2>1, <2>3, OneMoves, Zenon
<1>3. CASE FetchFails(r)
  <2> DEFINE p == [req[r] EXCEPT !.pc = "unlock", !.began = 0]
  <2>1. req' = [req EXCEPT ![r] = p] /\ UNCHANGED <<locks, lock>> /\ req[r].pc = "fetch"
    BY <1>0, <1>3, Zenon DEF FetchFails, AfterFailure
  <2>2. IsRequest(p) /\ p.pc \in {"unlock"} /\ p.lock = req[r].lock /\ p.ask = req[r].ask
    BY <1>0, Zenon DEF IsRequest
  <2>3. Moves(req[r], p)
    BY <1>0, <2>1, <2>2, Moving, Zenon DEF Holding
  <2> QED
    BY <2>1, <2>3, OneMoves, Zenon
<1>4. CASE Answer(r)
  <2> DEFINE p == IF Acceptable(served[Endp(r)])
                  THEN [req[r] EXCEPT !.entry = NewEntry(r), !.pc = "store"]
                  ELSE [req[r] EXCEPT !.pc = "unlock", !.began = 0]
  <2>1. req' = [req EXCEPT ![r] = p] /\ UNCHANGED <<locks, lock>> /\ req[r].pc = "fetch"
    BY <1>4, Zenon DEF Answer, AfterFailure
  <2>2. IsRequest(p) /\ p.pc \in {"store", "unlock"} /\ p.lock = req[r].lock /\ p.ask = req[r].ask
    BY <1>0, Zenon DEF IsRequest
  <2>3. Moves(req[r], p)
    BY <1>0, <2>1, <2>2, Moving, Zenon DEF Holding
  <2> QED
    BY <2>1, <2>3, OneMoves, Zenon
<1>5. CASE StoreEntry(r)
  <2> DEFINE p == [req[r] EXCEPT !.pc = "evict", !.began = 0]
  <2>1. req' = [req EXCEPT ![r] = p] /\ UNCHANGED <<locks, lock>> /\ req[r].pc = "store"
    BY <1>0, <1>5, Zenon DEF StoreEntry
  <2>2. IsRequest(p) /\ p.pc \in {"evict"} /\ p.lock = req[r].lock /\ p.ask = req[r].ask
    BY <1>0, Zenon DEF IsRequest
  <2>3. Moves(req[r], p)
    BY <1>0, <2>1, <2>2, Moving, Zenon DEF Holding
  <2> QED
    BY <2>1, <2>3, OneMoves, Zenon
<1>6. CASE EvictEntries(r)
  <2> DEFINE p == [req[r] EXCEPT !.pc = "unlock"]
  <2>1. req' = [req EXCEPT ![r] = p] /\ UNCHANGED <<locks, lock>> /\ req[r].pc = "evict"
    BY <1>0, <1>6, Zenon DEF EvictEntries
  <2>2. IsRequest(p) /\ p.pc \in {"unlock"} /\ p.lock = req[r].lock /\ p.ask = req[r].ask
    BY <1>0, Zenon DEF IsRequest
  <2>3. Moves(req[r], p)
    BY <1>0, <2>1, <2>2, Moving, Zenon DEF Holding
  <2> QED
    BY <2>1, <2>3, OneMoves, Zenon
<1>7. CASE Verify(r)
  <2> DEFINE p == IF RefreshForced(r)
                  THEN [req[r] EXCEPT !.previous = req[r].entry, !.pc = "lookup"]
                  ELSE Decided(Verdict(r))
  <2>1. req' = [req EXCEPT ![r] = p] /\ UNCHANGED <<locks, lock>> /\ req[r].pc = "verify"
    BY <1>7, Zenon DEF Verify
  <2>2. Moves(req[r], [req[r] EXCEPT !.previous = req[r].entry, !.pc = "lookup"])
    <3> DEFINE d == [req[r] EXCEPT !.previous = req[r].entry, !.pc = "lookup"]
    <3>1. IsRequest(d) /\ d.pc = "lookup" /\ d.lock = req[r].lock /\ d.ask = req[r].ask
      BY <1>0, Zenon DEF IsRequest
    <3> QED
      BY <1>0, <2>1, <3>1, Moving, Zenon
  <2>3. Verdict(r) \in {"accepted", "unauthorized"}
    BY Zenon DEF Verdict
  <2>4. Moves(req[r], Decided(Verdict(r)))
    <3> DEFINE d == Decided(Verdict(r))
    <3>1. IsRequest(d) /\ d.pc = Verdict(r) /\ d.lock = None
      BY Zenon DEF IsRequest, Decided, Idle
    <3> QED
      BY <1>0, <2>1, <2>3, <3>1, Moving, Zenon
  <2> QED
    BY <2>1, <2>2, <2>4, OneMoves, Zenon
<1> QED
  BY <1>1, <1>2, <1>3, <1>4, <1>5, <1>6, <1>7, Zenon

\* An issuer publishes: only the history changes.
LEMMA PublishInv ==
  ASSUME IInv, NEW e \in Endpoint, NEW doc \in Document, Publish(e, doc)
  PROVE  IInv'
<1>1. /\ req' = [r \in Request |->
                   IF req[r].ask # None /\ Endp(r) = e
                   THEN [req[r] EXCEPT !.live = @ /\ VerifiesUnder(req[r].ask.token, doc)]
                   ELSE req[r]]
      /\ UNCHANGED <<locks, lock>>
  BY Zenon DEF Publish
<1>2. ASSUME NEW r \in Request PROVE Moves(req[r], req'[r])
  <2>1. RequestOK(req[r])
    BY Zenon DEF IInv, StateOK
  <2>2. \/ req'[r] = req[r]
        \/ req'[r] = [req[r] EXCEPT !.live = @ /\ VerifiesUnder(req[r].ask.token, doc)]
    BY <1>1, Zenon
  <2> QED
    BY <2>1, <2>2, Zenon DEF Moves, Shifts, RequestOK, IsRequest, Control
<1>3. req' = [r \in Request |-> req'[r]]
  BY <1>1, Zenon
<1> QED
  BY <1>1, <1>2, <1>3, MovesInv, Zenon

-----------------------------------------------------------------------------
(* The steps on a lock. *)

\* LookupLocked takes a mutex that is free.
LEMMA LookupLockedInv ==
  ASSUME IInv, NEW r \in Request, LookupLocked(r)
  PROVE  IInv'
<1> DEFINE l == req[r].lock
           cached == cache[Endp(r)]
           p == IF UsableLocked(cached, req[r].previous)
                THEN [req[r] EXCEPT !.entry = cached, !.pc = "unlock"]
                ELSE [req[r] EXCEPT !.pc = "fetch", !.began = now]
<1>1. /\ req[r].pc = "lock" /\ lock[l].holder = None /\ locks' = locks
      /\ lock' = [lock EXCEPT ![l].holder = r]
      /\ req' = [req EXCEPT ![r] = p]
  BY Zenon DEF LookupLocked
<1>2. RequestOK(req[r]) /\ l \in Request
  BY <1>1, Zenon DEF IInv, StateOK, RequestOK, Referring
<1>3. IsRequest(p) /\ p.pc \in {"unlock", "fetch"} /\ p.lock = l /\ p.ask = req[r].ask
  BY <1>2, Zenon DEF RequestOK, IsRequest
<1>4. Shifts(req[r], p)
  <2> HIDE DEF p
  <2> QED
    BY <1>1, <1>2, <1>3, Zenon DEF Shifts, RequestOK, Control, Working, Referring, Holding
<1>5. /\ req' = [q \in Request |-> req'[q]] /\ req'[r] = p
      /\ \A q \in Request \ {r} : req'[q] = req[q]
  <2> HIDE DEF p
  <2> QED
    BY <1>1, Zenon DEF IInv, StateOK
<1>6. /\ lock' \in [Request -> [refs : Nat, holder : Request \cup {None}]]
      /\ lock'[l].holder = r
      /\ \A k \in Request : lock'[k].refs = lock[k].refs
      /\ \A k \in Request \ {l} : lock'[k] = lock[k]
  BY <1>1, <1>2, Zenon DEF IInv, StateOK
<1>7. Held'
  <2> SUFFICES ASSUME NEW q \in Request, req'[q].pc \in Holding
               PROVE  lock'[req'[q].lock].holder = q
    BY Zenon DEF Held
  <2>1. CASE q = r
    BY <2>1, <1>3, <1>5, <1>6, Zenon
  <2>2. CASE q # r
    <3>1. req'[q] = req[q] /\ lock[req[q].lock].holder = q
      BY <2>2, <1>5, Zenon DEF IInv, Held
    <3>2. req[q].lock \in Request
      BY <3>1, Zenon DEF IInv, StateOK, RequestOK, Referring
    <3> QED
      BY <1>1, <1>6, <3>1, <3>2, JWKSAssumption
  <2> QED
    BY <2>1, <2>2, Zenon
<1>8. \A q \in Request : Shifts(req[q], req'[q])
  BY <1>4, <1>5, StaysPut, Zenon DEF Moves
<1> QED
  BY <1>1, <1>5, <1>6, <1>7, <1>8, ShiftsInv, Zenon

\* Unlock frees the mutex its request holds, and no other.
LEMMA UnlockInv ==
  ASSUME IInv, NEW r \in Request, Unlock(r)
  PROVE  IInv'
<1> DEFINE l == req[r].lock
           p == [req[r] EXCEPT !.pc = "release"]
<1>1. /\ req[r].pc = "unlock" /\ locks' = locks
      /\ lock' = [lock EXCEPT ![l].holder = None]
      /\ req' = [req EXCEPT ![r] = p]
  BY Zenon DEF Unlock
<1>2. RequestOK(req[r]) /\ l \in Request
  BY <1>1, Zenon DEF IInv, StateOK, RequestOK, Referring, Holding
<1>3. IsRequest(p) /\ p.pc = "release" /\ p.lock = l /\ p.ask = req[r].ask
  BY <1>2, Zenon DEF RequestOK, IsRequest
<1>4. Shifts(req[r], p)
  <2> HIDE DEF p
  <2> QED
    BY <1>1, <1>2, <1>3, Zenon DEF Shifts, RequestOK, Control, Working, Referring, Holding
<1>5. /\ req' = [q \in Request |-> req'[q]] /\ req'[r] = p
      /\ \A q \in Request \ {r} : req'[q] = req[q]
  <2> HIDE DEF p
  <2> QED
    BY <1>1, Zenon DEF IInv, StateOK
<1>6. /\ lock' \in [Request -> [refs : Nat, holder : Request \cup {None}]]
      /\ \A k \in Request : lock'[k].refs = lock[k].refs
      /\ \A k \in Request \ {l} : lock'[k] = lock[k]
  BY <1>1, <1>2, Zenon DEF IInv, StateOK
<1>7. Held'
  <2> SUFFICES ASSUME NEW q \in Request, req'[q].pc \in Holding
               PROVE  lock'[req'[q].lock].holder = q
    BY Zenon DEF Held
  <2>1. q # r
    BY <1>3, <1>5, Zenon DEF Holding
  <2>2. req'[q] = req[q] /\ lock[req[q].lock].holder = q /\ lock[l].holder = r
    BY <1>1, <1>5, <2>1, Zenon DEF IInv, Held, Holding
  <2>3. req[q].lock \in Request
    BY <2>2, Zenon DEF IInv, StateOK, RequestOK, Referring
  <2> QED
    BY <1>6, <2>1, <2>2, <2>3, Zenon
<1>8. \A q \in Request : Shifts(req[q], req'[q])
  BY <1>4, <1>5, StaysPut, Zenon DEF Moves
<1> QED
  BY <1>1, <1>5, <1>6, <1>7, <1>8, ShiftsInv, Zenon

LEMMA UsersFinite ==
  \A l : IsFiniteSet(Users(l)) /\ Cardinality(Users(l)) \in Nat
<1> TAKE l
<1>1. Users(l) \subseteq Request
  BY Zenon DEF Users
<1> QED
  BY <1>1, JWKSAssumption, FS_Subset, FS_CardinalityType, Zenon

\* AcquireLock adds a reference to the lock in the table, or to the request's own,
\* which it puts there; in the second case nobody refers to a lock at that endpoint
\* and no other endpoint has this one.
LEMMA AcquireInv ==
  ASSUME IInv, NEW r \in Request, AcquireLock(r)
  PROVE  IInv'
<1> DEFINE e == Endp(r)
           l == LockFor(r)
           p == [req[r] EXCEPT !.pc = "lock", !.lock = l]
<1>1. /\ req[r].pc = "acquire"
      /\ locks' = [locks EXCEPT ![e] = l]
      /\ lock' = [lock EXCEPT ![l].refs = @ + 1]
      /\ req' = [req EXCEPT ![r].pc = "lock", ![r].lock = l]
  BY Zenon DEF AcquireLock
<1>2. /\ RequestOK(req[r]) /\ e \in Endpoint /\ req[r].lock = None
      /\ req[r].pc \in Working /\ None \notin Request
  BY <1>1, JWKSAssumption, Zenon DEF IInv, StateOK, RequestOK, Endp, Working, Referring, Holding
<1>3. l \in Request /\ l # None /\ (locks[e] # None => l = locks[e]) /\ (locks[e] = None => l = r)
  BY <1>2, Zenon DEF LockFor, IInv, StateOK
<1> HIDE DEF l
<1>4. IsRequest(p) /\ p.pc = "lock" /\ p.lock = l /\ p.ask = req[r].ask
  BY <1>2, Zenon DEF RequestOK, IsRequest
<1>5. /\ req' = [q \in Request |-> req'[q]] /\ req'[r] = p
      /\ \A q \in Request \ {r} : req'[q] = req[q]
  BY <1>1, Zenon DEF IInv, StateOK
<1> HIDE DEF p
<1>6. RequestOK(p) /\ p.ask.endpoint = e
  BY <1>2, <1>3, <1>4, Zenon DEF RequestOK, Endp, Control, Working, Referring, Holding
<1>7. /\ lock' \in [Request -> [refs : Nat, holder : Request \cup {None}]]
      /\ \A k \in Request : lock'[k].holder = lock[k].holder
      /\ lock'[l].refs = lock[l].refs + 1
      /\ \A k \in Request \ {l} : lock'[k] = lock[k]
  BY <1>1, <1>3 DEF IInv, StateOK
<1>8. /\ locks' \in [Endpoint -> Request \cup {None}]
      /\ locks'[e] = l /\ \A f \in Endpoint \ {e} : locks'[f] = locks[f]
  BY <1>1, <1>2, <1>3, Zenon DEF IInv, StateOK
<1>9. \A f \in Endpoint \ {e} : locks[f] # r
  BY <1>2, Zenon DEF IInv, MadeFor
<1>10. StateOK'
  BY <1>5, <1>6, <1>7, <1>8, Zenon DEF IInv, StateOK
<1>11. Shared'
  <2> SUFFICES ASSUME NEW q \in Request, req'[q].pc \in Referring
               PROVE  locks'[req'[q].ask.endpoint] = req'[q].lock
    BY Zenon DEF Shared, Endp
  <2>1. CASE q = r
    BY <2>1, <1>4, <1>5, <1>6, <1>8, Zenon
  <2>2. CASE q # r
    <3>1. req'[q] = req[q] /\ locks[Endp(q)] = req[q].lock
      BY <2>2, <1>5, Zenon DEF IInv, Shared
    <3>2. Endp(q) \in Endpoint /\ req[q].lock # None
      BY <3>1, Zenon DEF IInv, StateOK, RequestOK, Endp, Working
    <3> QED
      BY <1>3, <1>8, <3>1, <3>2, Zenon DEF Endp
  <2> QED
    BY <2>1, <2>2, Zenon
<1>12. MadeFor'
  <2> SUFFICES ASSUME NEW f \in Endpoint, locks'[f] # None
               PROVE  /\ req'[locks'[f]].pc # "idle"
                      /\ req'[locks'[f]].pc \in Working => req'[locks'[f]].ask.endpoint = f
    BY Zenon DEF MadeFor, Endp
  <2>1. CASE locks'[f] = r
    <3>1. f = e
      BY <2>1, <1>8, <1>9, Zenon
    <3> QED
      BY <2>1, <3>1, <1>4, <1>5, <1>6, Zenon
  <2>2. CASE locks'[f] # r
    <3>1. locks'[f] = locks[f] /\ locks[f] \in Request \ {r}
      BY <2>2, <1>3, <1>8, Zenon DEF IInv, StateOK
    <3> QED
      BY <3>1, <1>5, Zenon DEF IInv, MadeFor, Endp
  <2> QED
    BY <2>1, <2>2, Zenon
<1>13. Distinct'
  <2>1. \A f \in Endpoint \ {e} : locks[f] # l
    BY <1>2, <1>3, <1>9, Zenon DEF IInv, Distinct
  <2> QED
    BY <1>8, <2>1, Zenon DEF IInv, Distinct
<1>14. Held'
  <2> SUFFICES ASSUME NEW q \in Request, req'[q].pc \in Holding
               PROVE  lock'[req'[q].lock].holder = q
    BY Zenon DEF Held
  <2>1. q # r
    BY <1>4, <1>5, Zenon DEF Holding
  <2>2. req'[q] = req[q] /\ lock[req[q].lock].holder = q /\ req[q].lock \in Request
    BY <1>5, <2>1, Zenon DEF IInv, Held, StateOK, RequestOK, Referring
  <2> QED
    BY <1>7, <2>2, Zenon
<1> DEFINE After(k) == {q \in Request : req'[q].lock = k}
<1>15. /\ After(l) = Users(l) \cup {r} /\ r \notin Users(l)
       /\ \A k \in Request \ {l} : After(k) = Users(k)
  BY <1>2, <1>3, <1>4, <1>5, Zenon DEF Users
<1>16. Counted'
  <2>1. Cardinality(Users(l) \cup {r}) = Cardinality(Users(l)) + 1
    BY <1>15, UsersFinite, FS_AddElement, Zenon
  <2>2. ASSUME NEW k \in Request PROVE lock'[k].refs = Cardinality(After(k))
    BY <1>3, <1>7, <1>15, <2>1, Zenon DEF IInv, Counted
  <2> QED
    BY <2>2, Zenon DEF Counted, Users
<1>17. Used'
  <2> SUFFICES ASSUME NEW f \in Endpoint, locks'[f] # None
               PROVE  After(locks'[f]) # {}
    BY Zenon DEF Used, Users
  <2>1. CASE locks'[f] = l
    BY <2>1, <1>15, Zenon
  <2>2. CASE locks'[f] # l
    <3>1. locks'[f] = locks[f] /\ locks[f] \in Request \ {l}
      BY <2>2, <1>8, Zenon DEF IInv, StateOK
    <3> QED
      BY <3>1, <1>15, Zenon DEF IInv, Used
  <2> QED
    BY <2>1, <2>2, Zenon
<1> QED
  BY <1>10, <1>11, <1>12, <1>13, <1>14, <1>16, <1>17, Zenon DEF IInv

\* ReleaseLock drops the lock from the table exactly when nobody else refers to it.
LEMMA ReleaseInv ==
  ASSUME IInv, NEW r \in Request, ReleaseLock(r)
  PROVE  IInv'
<1> DEFINE e == Endp(r)
           l == req[r].lock
           last == LastReference(lock[l].refs - 1)
           p == IF req[r].entry = None
                THEN Decided("unavailable")
                ELSE [req[r] EXCEPT !.lock = None, !.pc = "verify"]
           After(k) == {q \in Request : req'[q].lock = k}
<1>1. /\ req[r].pc = "release"
      /\ lock' = [lock EXCEPT ![l].refs = lock[l].refs - 1]
      /\ locks' = IF last THEN [locks EXCEPT ![e] = None] ELSE locks
      /\ req' = [req EXCEPT ![r] = p]
  BY Zenon DEF ReleaseLock
<1>2. /\ RequestOK(req[r]) /\ IsRequest(req[r]) /\ e \in Endpoint /\ l \in Request
      /\ locks[e] = l /\ None \notin Request
  BY <1>1, JWKSAssumption, Zenon DEF IInv, StateOK, Shared, RequestOK, Endp, Working, Referring
<1>3. Decided("unavailable").pc = "unavailable" /\ Decided("unavailable").lock = None
      /\ IsRequest(Decided("unavailable"))
  BY Zenon DEF Decided, Idle, IsRequest
<1>4. /\ IsRequest(p) /\ p.lock = None
      /\ p.pc = "unavailable" \/ (p.pc = "verify" /\ p.ask = req[r].ask)
  <2>1. CASE req[r].entry = None
    <3>1. p = Decided("unavailable")
      BY <2>1, Zenon
    <3> HIDE DEF p
    <3> QED
      BY <1>3, <3>1, Zenon
  <2>2. CASE req[r].entry # None
    <3>1. p = [req[r] EXCEPT !.lock = None, !.pc = "verify"]
      BY <2>2, Zenon
    <3> HIDE DEF p
    <3> QED
      BY <1>2, <3>1, Zenon DEF IsRequest
  <2> QED
    BY <2>1, <2>2, Zenon
<1> HIDE DEF p
<1>5. /\ req' = [q \in Request |-> req'[q]] /\ req'[r] = p
      /\ \A q \in Request \ {r} : req'[q] = req[q]
  BY <1>1, Zenon DEF IInv, StateOK
<1>6. RequestOK(p)
  BY <1>2, <1>4, Zenon DEF RequestOK, Endp, Control, Working, Referring, Holding
<1>7. /\ r \in Users(l) /\ IsFiniteSet(Users(l) \ {r})
      /\ lock[l].refs - 1 = Cardinality(Users(l) \ {r}) /\ lock[l].refs - 1 \in Nat
  <2>1. r \in Users(l) /\ lock[l].refs = Cardinality(Users(l))
    BY <1>2, Zenon DEF Users, IInv, Counted
  <2>2. IsFiniteSet(Users(l) \ {r}) /\ Cardinality(Users(l) \ {r}) = Cardinality(Users(l)) - 1
    BY <2>1, UsersFinite, FS_RemoveElement, Zenon
  <2>3. Cardinality(Users(l) \ {r}) \in Nat
    BY <2>2, FS_CardinalityType, Zenon
  <2> QED
    BY <2>1, <2>2, <2>3, Zenon
<1>8. last <=> Users(l) \ {r} = {}
  BY <1>7, FS_EmptySet, Zenon DEF LastReference
<1> HIDE DEF last
<1>9. /\ lock' \in [Request -> [refs : Nat, holder : Request \cup {None}]]
      /\ \A k \in Request : lock'[k].holder = lock[k].holder
      /\ lock'[l].refs = lock[l].refs - 1
      /\ \A k \in Request \ {l} : lock'[k] = lock[k]
  BY <1>1, <1>2, <1>7, Zenon DEF IInv, StateOK
<1>10. /\ locks' \in [Endpoint -> Request \cup {None}]
       /\ \A f \in Endpoint : locks'[f] = IF last /\ f = e THEN None ELSE locks[f]
  BY <1>1, <1>2, Zenon DEF IInv, StateOK
<1>11. StateOK'
  BY <1>5, <1>6, <1>9, <1>10, Zenon DEF IInv, StateOK
<1>12. Shared'
  <2> SUFFICES ASSUME NEW q \in Request, req'[q].pc \in Referring
               PROVE  locks'[req'[q].ask.endpoint] = req'[q].lock
    BY Zenon DEF Shared, Endp
  <2>1. q # r
    BY <1>4, <1>5, Zenon DEF Referring, Holding
  <2>2. req'[q] = req[q] /\ locks[Endp(q)] = req[q].lock
    BY <2>1, <1>5, Zenon DEF IInv, Shared
  <2>3. Endp(q) \in Endpoint
    BY <2>2, Zenon DEF IInv, StateOK, RequestOK, Endp, Working
  <2>4. ~(last /\ Endp(q) = e)
    BY <1>2, <1>8, <2>1, <2>2, Zenon DEF Users
  <2> QED
    BY <1>10, <2>2, <2>3, <2>4, Zenon DEF Endp
<1>13. MadeFor'
  <2> SUFFICES ASSUME NEW f \in Endpoint, locks'[f] # None
               PROVE  /\ req'[locks'[f]].pc # "idle"
                      /\ req'[locks'[f]].pc \in Working => req'[locks'[f]].ask.endpoint = f
    BY Zenon DEF MadeFor, Endp
  <2>1. /\ locks'[f] = locks[f] /\ locks[f] \in Request
        /\ req[locks[f]].pc # "idle"
        /\ req[locks[f]].pc \in Working => req[locks[f]].ask.endpoint = f
    BY <1>10, Zenon DEF IInv, StateOK, MadeFor, Endp
  <2>2. CASE locks[f] = r
    BY <2>1, <2>2, <1>1, <1>4, <1>5, Zenon DEF Working, Referring, Holding
  <2>3. CASE locks[f] # r
    BY <2>1, <2>3, <1>5, Zenon
  <2> QED
    BY <2>2, <2>3, Zenon
<1>14. Distinct'
  BY <1>10, Zenon DEF IInv, Distinct
<1>15. Held'
  <2> SUFFICES ASSUME NEW q \in Request, req'[q].pc \in Holding
               PROVE  lock'[req'[q].lock].holder = q
    BY Zenon DEF Held
  <2>1. q # r
    BY <1>4, <1>5, Zenon DEF Holding
  <2>2. req'[q] = req[q] /\ lock[req[q].lock].holder = q /\ req[q].lock \in Request
    BY <1>5, <2>1, Zenon DEF IInv, Held, StateOK, RequestOK, Referring
  <2> QED
    BY <1>9, <2>2, Zenon
<1>16. /\ After(l) = Users(l) \ {r}
       /\ \A k \in Request \ {l} : After(k) = Users(k)
  BY <1>2, <1>4, <1>5, Zenon DEF Users
<1>17. Counted'
  <2>1. ASSUME NEW k \in Request PROVE lock'[k].refs = Cardinality(After(k))
    BY <1>7, <1>9, <1>16 DEF IInv, Counted
  <2> QED
    BY <2>1, Zenon DEF Counted, Users
<1>18. Used'
  <2> SUFFICES ASSUME NEW f \in Endpoint, locks'[f] # None
               PROVE  After(locks'[f]) # {}
    BY Zenon DEF Used, Users
  <2>1. locks'[f] = locks[f] /\ locks[f] \in Request /\ ~(last /\ f = e)
    BY <1>10, Zenon DEF IInv, StateOK
  <2>2. CASE locks[f] = l
    <3>1. f = e
      BY <2>1, <2>2, <1>2, Zenon DEF IInv, Distinct
    <3> QED
      BY <3>1, <2>1, <2>2, <1>8, <1>16, Zenon
  <2>3. CASE locks[f] # l
    BY <2>1, <2>3, <1>16, Zenon DEF IInv, Used
  <2> QED
    BY <2>2, <2>3, Zenon
<1> QED
  BY <1>11, <1>12, <1>13, <1>14, <1>15, <1>17, <1>18, Zenon DEF IInv
-----------------------------------------------------------------------------
LEMMA StepInv == IInv /\ [Next]_vars => IInv'
<1> SUFFICES ASSUME IInv, [Next]_vars PROVE IInv'
  BY Zenon
<1>1. CASE \E r \in Request : Arrive(r) \/ Validation(r)
  BY <1>1, WalkInv, AcquireInv, LookupLockedInv, UnlockInv, ReleaseInv, Zenon DEF Validation
<1>2. CASE \E e \in Endpoint, doc \in Document : Publish(e, doc)
  BY <1>2, PublishInv, Zenon
<1>3. CASE Tick \/ UNCHANGED vars
  <2>1. UNCHANGED <<locks, lock>> /\ req' = req
    BY <1>3, Zenon DEF Tick, vars
  <2> QED
    BY <2>1, StaysPut, MovesInv, Zenon DEF IInv, StateOK
<1> QED
  BY <1>1, <1>2, <1>3, Zenon DEF Next

\* Whatever the number of requests and endpoints, whatever issuers publish and
\* however fetches end, getJWKSEntry never has two refreshes of one endpoint under
\* way: both would be behind the one lock that jwksLocks has for it.
THEOREM RefreshesNeverMeet == Spec => []RefreshesApart
<1>1. IInv => RefreshesApart
  <2> SUFFICES ASSUME IInv, NEW r \in Request, NEW q \in Request,
                      Refreshing(r), Refreshing(q), Endp(r) = Endp(q)
               PROVE  r = q
    BY Zenon DEF RefreshesApart
  <2>1. req[r].pc \in Holding /\ req[q].pc \in Holding
    BY Zenon DEF Refreshing, Holding
  <2>2. req[r].lock = req[q].lock
    BY <2>1, Zenon DEF IInv, Shared, Referring
  <2> QED
    BY <2>1, <2>2, Zenon DEF IInv, Held
<1> QED
  BY <1>1, InitInv, StepInv, PTL DEF Spec

\* acquireJWKSRefreshLock and releaseJWKSRefreshLock count exactly, and jwksLocks
\* has a lock for an endpoint exactly while some request refers to one.
THEOREM LockTableStaysExact == Spec => []LockTableExact
<1>1. IInv => LockTableExact
  <2> SUFFICES ASSUME IInv PROVE LockTableExact
    BY Zenon
  <2>1. \A l \in Request : lock[l].refs = Cardinality({r \in Request : req[r].lock = l})
    BY Zenon DEF IInv, Counted, Users
  <2>2. ASSUME NEW e \in Endpoint, NEW r \in Request, req[r].lock # None, Endp(r) = e
        PROVE  locks[e] # None
    BY <2>2, Zenon DEF IInv, StateOK, RequestOK, Shared
  <2>3. ASSUME NEW e \in Endpoint, locks[e] # None
        PROVE  \E r \in Request : req[r].lock # None /\ Endp(r) = e
    <3>1. PICK r \in Request : req[r].lock = locks[e]
      BY <2>3, Zenon DEF IInv, Used, Users
    <3>2. req[r].pc \in Referring /\ locks[Endp(r)] = locks[e]
      BY <2>3, <3>1, Zenon DEF IInv, StateOK, RequestOK, Shared
    <3>3. Endp(r) \in Endpoint
      BY <3>2, Zenon DEF IInv, StateOK, RequestOK, Working, Endp
    <3> QED
      BY <2>3, <3>1, <3>2, <3>3, Zenon DEF IInv, Distinct
  <2> QED
    BY <2>1, <2>2, <2>3, Zenon DEF LockTableExact
<1> QED
  BY <1>1, InitInv, StepInv, PTL DEF Spec
-----------------------------------------------------------------------------
(* The entries: a second invariant, on top of the first. *)

Fields == {"pc", "ask", "previous", "entry", "lock", "began", "since", "live"}

Cached(r) == cache[Endp(r)]
Kid(r) == req[r].ask.token.kid
InUse == {e \in Endpoint : cache[e] # None}

\* What a request holds at time t.
HoldsOK(q, t) ==
    /\ Fields \subseteq DOMAIN q
    /\ q.entry \in Entry \cup {None}
    /\ q.previous \in Entry \cup {None}
    /\ q.began \in 0..t /\ q.since \in 0..t
    /\ q.pc \in {"store", "evict", "verify"} => q.entry # None
    /\ q.pc \in {"acquire", "lock", "fetch"} => q.entry = None
    /\ q.pc \in Working => q.ask # None

DataOK ==
    /\ now \in 0..MaxTime /\ changes \in 0..MaxChanges
    /\ served \in [Endpoint -> Document]
    /\ cacheMu \in Request \cup {None}
    /\ cache \in [Endpoint -> Entry \cup {None}]
    /\ \A r \in Request : HoldsOK(req[r], now)
    /\ \A r \in Request : req[r].pc = "evict" <=> cacheMu = r

\* The number of entries.
Bounded == IsFiniteSet(InUse) /\ CacheBounded

\* A refresh takes at most FetchTimeout, and what it is about to store is its own.
Prompt ==
    \A r \in Request :
        /\ req[r].pc \in {"fetch", "store"} =>
              now - req[r].began <= FetchTimeout /\ req[r].since <= req[r].began
        /\ req[r].pc = "store" =>
              /\ req[r].entry.by[1] = r
              /\ req[r].entry.asOf >= req[r].began
              /\ req[r].entry.forced = ForcedAt(r)

\* NoNeedlessFetch, until the result is stored.
Needless ==
    \A r \in Request :
        req[r].pc \in {"fetch", "store"} /\ Cached(r) # None =>
            /\ \/ req[r].began >= Cached(r).expiresAt
               \/ req[r].previous # None /\ Cached(r) = req[r].previous
            /\ req[r].previous # None => req[r].began - Cached(r).forced >= RefreshDelay

Recent(r, x) == req[r].since - x.asOf <= FetchTimeout
Good(r, x) == req[r].since < x.expiresAt \/ Recent(r, x)

\* The key set has the request's key, or another request has asked for it lately.
Excused(r, x) ==
    \/ Kid(r) \in DOMAIN x.keys
    \/ /\ x.by[1] # r
       /\ \/ req[r].since - x.forced < RefreshDelay
          \/ req[r].since - x.forced <= FetchTimeout

Live(r) == req[r].pc \in Working /\ req[r].live

\* The lookup or the refresh has returned.
Returned == {"evict", "unlock", "release", "verify"}

\* The entry by which the request last knew the cache.
Seen(r) ==
    \/ req[r].previous # None
    \/ req[r].entry # None /\ req[r].pc \in Returned

Last(r) == IF req[r].previous # None THEN req[r].previous ELSE req[r].entry

\* What a request holds is good, and what replaced it in the cache is recent.
Recency ==
    \A r \in Request : req[r].pc \in Working =>
        /\ req[r].entry # None => Good(r, req[r].entry)
        /\ req[r].previous # None => Good(r, req[r].previous)
        /\ Seen(r) /\ Cached(r) # None => Cached(r) = Last(r) \/ Recent(r, Cached(r))

\* The history of a token that the issuer's document verifies all along.
LiveVerifies ==
    \A r \in Request : Live(r) => VerifiesUnder(req[r].ask.token, served[Endp(r)])

\* A key set that a request has fetched itself has its key.
OwnKnows ==
    \A r \in Request :
        /\ Live(r) => \A x \in {Cached(r), req[r].entry, req[r].previous} :
                          x # None /\ x.by[1] = r => Kid(r) \in DOMAIN x.keys
        /\ req[r].pc = "idle" => \A e \in Endpoint : cache[e] # None => cache[e].by[1] # r

\* An answer from before a request arrived was asked for by force, or the request
\* has not seen the cache yet.
Pending ==
    \A r, q \in Request :
        Live(r) /\ q # r /\ req[q].pc = "store" /\ Endp(q) = Endp(r) =>
            \/ Kid(r) \in DOMAIN req[q].entry.keys
            \/ req[q].previous # None
            \/ req[r].entry = None /\ req[r].previous = None

Rotation ==
    \A r \in Request : Live(r) =>
        /\ Seen(r) /\ Cached(r) # None => Cached(r) = Last(r) \/ Excused(r, Cached(r))
        /\ req[r].pc \in Returned \cup {"store"}
              /\ req[r].previous # None /\ req[r].entry # None
              => Excused(r, req[r].entry)

Knowledge == Recency /\ LiveVerifies /\ OwnKnows /\ Pending /\ Rotation

DInv == DataOK /\ Bounded /\ Prompt /\ Needless /\ Knowledge

-----------------------------------------------------------------------------
(* What each step does to its request, field by field. *)

Others(r) == \A q \in Request \ {r} : req'[q] = req[q]

Becomes(r, pc, ask, previous, entry, began, since) ==
    /\ Fields \subseteq DOMAIN req'[r]
    /\ req'[r].pc = pc /\ req'[r].ask = ask
    /\ req'[r].previous = previous /\ req'[r].entry = entry
    /\ req'[r].began = began /\ req'[r].since = since
    /\ Others(r)

\* The request goes on with what it has.
Continues(r, pc, began) ==
    /\ Becomes(r, pc, req[r].ask, req[r].previous, req[r].entry, began, req[r].since)
    /\ req'[r].live => req[r].live

Ends(r) ==
    /\ \E pc \in {"accepted", "unauthorized", "unavailable"} :
          Becomes(r, pc, None, None, None, 0, 0)
    /\ ~req'[r].live

LEMMA EndsEffect ==
  ASSUME StateOK, NEW r \in Request,
         NEW v \in {"accepted", "unauthorized", "unavailable"},
         req' = [req EXCEPT ![r] = Decided(v)]
  PROVE  Ends(r)
<1>1. req'[r] = Decided(v) /\ Others(r)
  BY Zenon DEF StateOK, Others
<1>2. /\ Fields \subseteq DOMAIN Decided(v) /\ Decided(v).pc = v
      /\ Decided(v).ask = None /\ Decided(v).previous = None /\ Decided(v).entry = None
      /\ Decided(v).began = 0 /\ Decided(v).since = 0 /\ ~Decided(v).live
  BY Zenon DEF Decided, Idle, Fields
<1> QED
  BY <1>1, <1>2, Zenon DEF Ends, Becomes

LEMMA ArriveEffect ==
  ASSUME StateOK, NEW r \in Request, Arrive(r)
  PROVE  \/ Ends(r)
         \/ \E ask \in Ask[r] :
               /\ Becomes(r, "lookup", ask, None, None, 0, now)
               /\ req'[r].live => VerifiesUnder(ask.token, served[ask.endpoint])
<1>1. PICK ask \in Ask[r] : req' = [req EXCEPT ![r] =
                    IF ask.token = None
                    THEN Decided("unauthorized")
                    ELSE [Idle EXCEPT !.pc = "lookup", !.ask = ask, !.since = now,
                             !.live = VerifiesUnder(ask.token, served[ask.endpoint])]]
  BY Zenon DEF Arrive
<1>2. CASE ask.token = None
  BY <1>1, <1>2, EndsEffect, Zenon
<1>3. CASE ask.token # None
  <2> DEFINE v == VerifiesUnder(ask.token, served[ask.endpoint])
             p == [Idle EXCEPT !.pc = "lookup", !.ask = ask, !.since = now, !.live = v]
  <2> HIDE DEF v
  <2>1. /\ Fields \subseteq DOMAIN p /\ p.pc = "lookup"
        /\ p.ask = ask /\ p.previous = None /\ p.entry = None
        /\ p.began = 0 /\ p.since = now /\ p.live = v
    BY Zenon DEF Idle, Fields
  <2>2. req' = [req EXCEPT ![r] = p]
    BY <1>1, <1>3, Zenon DEF v
  <2> HIDE DEF p
  <2>3. req'[r] = p /\ Others(r)
    BY <2>2, Zenon DEF StateOK, Others
  <2>4. Becomes(r, "lookup", ask, None, None, 0, now) /\ (req'[r].live => v)
    BY <2>1, <2>3, Zenon DEF Becomes
  <2> QED
    BY <2>4, Zenon DEF v
<1> QED
  BY <1>2, <1>3, Zenon

LEMMA LookupEffect ==
  ASSUME StateOK, DataOK, NEW r \in Request, Lookup(r)
  PROVE  \/ /\ Usable(Cached(r), req[r].previous)
            /\ Becomes(r, "verify", req[r].ask, req[r].previous, Cached(r),
                       req[r].began, req[r].since)
            /\ req'[r].live => req[r].live
         \/ /\ Becomes(r, "acquire", req[r].ask, req[r].previous, None,
                       req[r].began, req[r].since)
            /\ req'[r].live => req[r].live
<1> USE DEF StateOK, Others, DataOK, HoldsOK, Fields
<1> DEFINE hit == Usable(Cached(r), req[r].previous)
           c == Cached(r)
           p == [req[r] EXCEPT !.entry = c, !.pc = "verify"]
           n == [req[r] EXCEPT !.entry = None, !.pc = "acquire"]
<1>1. req' = [req EXCEPT ![r] = IF hit THEN p ELSE n]
  BY Zenon DEF Lookup, Cached
<1> HIDE DEF hit, c
<1>2. CASE hit
  <2>1. req'[r] = p /\ Others(r)
    BY <1>1, <1>2, Zenon
  <2>2. Becomes(r, "verify", req[r].ask, req[r].previous, c, req[r].began, req[r].since)
        /\ (req'[r].live => req[r].live)
    BY <2>1, Zenon DEF Becomes
  <2> QED
    BY <1>2, <2>2, Zenon DEF hit, c
<1>3. CASE ~hit
  <2>1. req'[r] = n /\ Others(r)
    BY <1>1, <1>3, Zenon
  <2> QED
    BY <2>1, Zenon DEF Becomes
<1> QED
  BY <1>2, <1>3, Zenon

LEMMA AcquireEffect ==
  ASSUME StateOK, DataOK, NEW r \in Request, AcquireLock(r)
  PROVE  Continues(r, "lock", req[r].began)
<1> DEFINE p == [req[r] EXCEPT !.pc = "lock", !.lock = LockFor(r)]
<1>1. req'[r] = p /\ Others(r)
  BY Zenon DEF StateOK, Others, AcquireLock
<1> QED
  BY <1>1, Zenon DEF Continues, Becomes, DataOK, HoldsOK, Fields

LEMMA LookupLockedEffect ==
  ASSUME StateOK, DataOK, NEW r \in Request, LookupLocked(r)
  PROVE  \/ /\ UsableLocked(Cached(r), req[r].previous)
            /\ Becomes(r, "unlock", req[r].ask, req[r].previous, Cached(r),
                       req[r].began, req[r].since)
            /\ req'[r].live => req[r].live
         \/ /\ ~UsableLocked(Cached(r), req[r].previous)
            /\ Continues(r, "fetch", now)
<1> USE DEF StateOK, Others, DataOK, HoldsOK, Fields
<1> DEFINE hit == UsableLocked(Cached(r), req[r].previous)
           c == Cached(r)
           p == [req[r] EXCEPT !.entry = c, !.pc = "unlock"]
           n == [req[r] EXCEPT !.pc = "fetch", !.began = now]
<1>1. req' = [req EXCEPT ![r] = IF hit THEN p ELSE n]
  BY Zenon DEF LookupLocked, Cached
<1> HIDE DEF hit, c
<1>2. CASE hit
  <2>1. req'[r] = p /\ Others(r)
    BY <1>1, <1>2, Zenon
  <2>2. Becomes(r, "unlock", req[r].ask, req[r].previous, c, req[r].began, req[r].since)
        /\ (req'[r].live => req[r].live)
    BY <2>1, Zenon DEF Becomes
  <2> QED
    BY <1>2, <2>2, Zenon DEF hit, c
<1>3. CASE ~hit
  <2>1. req'[r] = n /\ Others(r)
    BY <1>1, <1>3, Zenon
  <2>2. Continues(r, "fetch", now)
    BY <2>1, Zenon DEF Becomes, Continues
  <2> QED
    BY <1>3, <2>2, Zenon DEF hit
<1> QED
  BY <1>2, <1>3, Zenon

LEMMA FailsEffect ==
  ASSUME DataOK, NEW r \in Request,
         req'[r] = [req[r] EXCEPT !.pc = "unlock", !.began = 0], Others(r)
  PROVE  Continues(r, "unlock", 0)
  BY Zenon DEF Continues, Becomes, DataOK, HoldsOK, Fields

LEMMA FetchFailsEffect ==
  ASSUME StateOK, DataOK, NEW r \in Request, FetchFails(r)
  PROVE  Continues(r, "unlock", 0)
<1>1. req'[r] = [req[r] EXCEPT !.pc = "unlock", !.began = 0] /\ Others(r)
  BY Zenon DEF FetchFails, AfterFailure, StateOK, Others
<1> QED
  BY <1>1, FailsEffect, Zenon

LEMMA AnswerEffect ==
  ASSUME StateOK, DataOK, NEW r \in Request, Answer(r)
  PROVE  \/ /\ Acceptable(served[Endp(r)])
            /\ Becomes(r, "store", req[r].ask, req[r].previous, NewEntry(r),
                       req[r].began, req[r].since)
            /\ req'[r].live => req[r].live
         \/ Continues(r, "unlock", 0)
<1> DEFINE good == Acceptable(served[Endp(r)])
           x == NewEntry(r)
           p == [req[r] EXCEPT !.entry = x, !.pc = "store"]
           n == [req[r] EXCEPT !.pc = AfterFailure, !.began = 0]
<1>1. req' = [req EXCEPT ![r] = IF good THEN p ELSE n]
  BY Zenon DEF Answer
<1> HIDE DEF good, x
<1>2. CASE good
  <2>1. req'[r] = p /\ Others(r)
    BY <1>1, <1>2, Zenon DEF StateOK, Others
  <2>2. Becomes(r, "store", req[r].ask, req[r].previous, x, req[r].began, req[r].since)
        /\ (req'[r].live => req[r].live)
    BY <2>1, Zenon DEF Becomes, DataOK, HoldsOK, Fields
  <2> QED
    BY <1>2, <2>2, Zenon DEF good, x
<1>3. CASE ~good
  <2>1. req'[r] = [req[r] EXCEPT !.pc = "unlock", !.began = 0] /\ Others(r)
    BY <1>1, <1>3, Zenon DEF AfterFailure, StateOK, Others
  <2> QED
    BY <2>1, FailsEffect, Zenon
<1> QED
  BY <1>2, <1>3, Zenon

LEMMA StoreEffect ==
  ASSUME StateOK, DataOK, NEW r \in Request, StoreEntry(r)
  PROVE  Continues(r, "evict", 0)
<1>1. req'[r] = [req[r] EXCEPT !.pc = "evict", !.began = 0] /\ Others(r)
  BY Zenon DEF StateOK, Others, StoreEntry
<1> QED
  BY <1>1, Zenon DEF Continues, Becomes, DataOK, HoldsOK, Fields

LEMMA EvictEffect ==
  ASSUME StateOK, DataOK, NEW r \in Request, EvictEntries(r)
  PROVE  Continues(r, "unlock", req[r].began)
<1>1. req'[r] = [req[r] EXCEPT !.pc = "unlock"] /\ Others(r)
  BY Zenon DEF StateOK, Others, EvictEntries
<1> QED
  BY <1>1, Zenon DEF Continues, Becomes, DataOK, HoldsOK, Fields

LEMMA UnlockEffect ==
  ASSUME StateOK, DataOK, NEW r \in Request, Unlock(r)
  PROVE  Continues(r, "release", req[r].began)
<1>1. req'[r] = [req[r] EXCEPT !.pc = "release"] /\ Others(r)
  BY Zenon DEF StateOK, Others, Unlock
<1> QED
  BY <1>1, Zenon DEF Continues, Becomes, DataOK, HoldsOK, Fields

LEMMA ReleaseEffect ==
  ASSUME StateOK, DataOK, NEW r \in Request, ReleaseLock(r)
  PROVE  Ends(r) \/ (req[r].entry # None /\ Continues(r, "verify", req[r].began))
<1> DEFINE p == [req[r] EXCEPT !.lock = None, !.pc = "verify"]
<1>1. req' = [req EXCEPT ![r] = IF req[r].entry = None THEN Decided("unavailable") ELSE p]
  BY Zenon DEF ReleaseLock, StateOK
<1>2. CASE req[r].entry = None
  BY <1>1, <1>2, EndsEffect, Zenon
<1>3. CASE req[r].entry # None
  <2>1. req'[r] = p /\ Others(r)
    BY <1>1, <1>3, Zenon DEF StateOK, Others
  <2> QED
    BY <1>3, <2>1, Zenon DEF Continues, Becomes, DataOK, HoldsOK, Fields
<1> QED
  BY <1>2, <1>3, Zenon

LEMMA VerifyEffect ==
  ASSUME StateOK, DataOK, NEW r \in Request, Verify(r)
  PROVE  \/ Ends(r)
         \/ /\ RefreshForced(r)
            /\ Becomes(r, "lookup", req[r].ask, req[r].entry, req[r].entry,
                       req[r].began, req[r].since)
            /\ req'[r].live => req[r].live
<1> DEFINE p == [req[r] EXCEPT !.previous = req[r].entry, !.pc = "lookup"]
<1>1. req' = [req EXCEPT ![r] = IF RefreshForced(r) THEN p ELSE Decided(Verdict(r))]
  BY Zenon DEF Verify
<1>2. CASE ~RefreshForced(r)
  <2>1. Verdict(r) \in {"accepted", "unauthorized"}
    BY Zenon DEF Verdict
  <2> QED
    BY <1>1, <1>2, <2>1, EndsEffect, Zenon
<1>3. CASE RefreshForced(r)
  <2>1. req'[r] = p /\ Others(r)
    BY <1>1, <1>3, Zenon DEF StateOK, Others
  <2> QED
    BY <1>3, <2>1, Zenon DEF Becomes, DataOK, HoldsOK, Fields
<1> QED
  BY <1>2, <1>3, Zenon

\* What an issuer publishes ends the histories of the tokens it does not verify.
LEMMA PublishEffect ==
  ASSUME StateOK, DataOK, NEW e \in Endpoint, NEW doc \in Document, Publish(e, doc),
         NEW r \in Request
  PROVE  /\ Fields \subseteq DOMAIN req'[r]
         /\ req'[r].pc = req[r].pc /\ req'[r].ask = req[r].ask
         /\ req'[r].previous = req[r].previous /\ req'[r].entry = req[r].entry
         /\ req'[r].began = req[r].began /\ req'[r].since = req[r].since
         /\ req'[r].live => req[r].live
         /\ req'[r].live /\ req[r].ask # None /\ Endp(r) = e
               => VerifiesUnder(req[r].ask.token, doc)
<1> DEFINE v == VerifiesUnder(req[r].ask.token, doc)
<1>1. req'[r] = IF req[r].ask # None /\ Endp(r) = e
                THEN [req[r] EXCEPT !.live = @ /\ v] ELSE req[r]
  BY Zenon DEF Publish
<1>2. Fields \subseteq DOMAIN req[r]
  BY Zenon DEF DataOK, HoldsOK
<1> HIDE DEF v
<1>3. /\ Fields \subseteq DOMAIN req'[r]
      /\ req'[r].pc = req[r].pc /\ req'[r].ask = req[r].ask
      /\ req'[r].previous = req[r].previous /\ req'[r].entry = req[r].entry
      /\ req'[r].began = req[r].began /\ req'[r].since = req[r].since
      /\ req'[r].live => req[r].live
      /\ req'[r].live /\ req[r].ask # None /\ Endp(r) = e => v
  BY <1>1, <1>2, Zenon DEF Fields
<1> QED
  BY <1>3, Zenon DEF v

-----------------------------------------------------------------------------
(* Types. *)

LEMMA TTLRange == \A doc \in Document : TTL(doc) \in 1..MaxTTL
  BY JWKSAssumption DEF TTL, MaxAge

LEMMA NewEntryType ==
  ASSUME DataOK, NEW r \in Request, Endp(r) \in Endpoint, Acceptable(served[Endp(r)])
  PROVE  NewEntry(r) \in Entry
<1> DEFINE doc == served[Endp(r)]
<1>1. doc \in Document /\ KeySet(doc) \in {KeySet(d) : d \in {d \in Document : Acceptable(d)}}
  BY Zenon DEF DataOK
<1>2. req[r].began + TTL(doc) \in 1..(MaxTime + MaxTTL)
  <2>1. TTL(doc) \in 1..MaxTTL
    BY <1>1, TTLRange, Zenon
  <2> HIDE DEF doc
  <2> QED
    BY <2>1, JWKSAssumption DEF DataOK, HoldsOK
<1>3. now \in 0..MaxTime /\ ForcedAt(r) \in (0..MaxTime) \cup {Never}
  BY JWKSAssumption DEF DataOK, HoldsOK, ForcedAt
<1>4. (req[r].previous # None) \in BOOLEAN
  BY Zenon
<1> HIDE DEF doc
<1> DEFINE b == (req[r].previous # None)
           ks == {KeySet(d) : d \in {d \in Document : Acceptable(d)}}
           f == ForcedAt(r)
           k == KeySet(doc)
           x == req[r].began + TTL(doc)
<1>5. <<r, b>> \in Request \X BOOLEAN
  BY Zenon
<1>6. NewEntry(r) = [keys |-> k, expiresAt |-> x, forced |-> f, by |-> <<r, b>>, asOf |-> now]
  BY Zenon DEF NewEntry, doc
<1>7. k \in ks /\ f \in (0..MaxTime) \cup {Never} /\ x \in 1..(MaxTime + MaxTTL)
  BY <1>1, <1>2, <1>3, Zenon
<1> HIDE DEF b, ks, f, k, x
<1>8. [keys |-> k, expiresAt |-> x, forced |-> f, by |-> <<r, b>>, asOf |-> now]
        \in [keys : ks, expiresAt : 1..(MaxTime + MaxTTL), forced : (0..MaxTime) \cup {Never},
             by : Request \X BOOLEAN, asOf : 0..MaxTime]
  BY <1>3, <1>5, <1>7, Zenon
<1> QED
  BY <1>6, <1>8, Zenon DEF Entry, ks

\* The other requests keep what they hold.
LEMMA DataKept ==
  ASSUME DataOK, NEW r \in Request, Others(r), HoldsOK(req'[r], now),
         UNCHANGED <<now, served, changes>>,
         cache' \in [Endpoint -> Entry \cup {None}], cacheMu' \in Request \cup {None},
         \A q \in Request : req'[q].pc = "evict" <=> cacheMu' = q
  PROVE  DataOK'
  BY Zenon DEF DataOK, Others

LEMMA ContinuesData ==
  ASSUME StateOK, DataOK, NEW r \in Request, NEW pc, NEW began \in 0..now,
         req[r].pc \in Working, Continues(r, pc, began),
         pc \in {"store", "evict", "verify"} => req[r].entry # None,
         pc \in {"acquire", "lock", "fetch"} => req[r].entry = None
  PROVE  HoldsOK(req'[r], now)
  BY Zenon DEF DataOK, HoldsOK, Continues, Becomes

LEMMA EndsData ==
  ASSUME DataOK, NEW r \in Request, Ends(r)
  PROVE  HoldsOK(req'[r], now) /\ Others(r) /\ req'[r].pc # "evict"
<1>1. 0 \in 0..now
  BY JWKSAssumption DEF DataOK
<1>2. PICK pc \in {"accepted", "unauthorized", "unavailable"} :
         Becomes(r, pc, None, None, None, 0, 0)
  BY Zenon DEF Ends
<1> QED
  BY <1>1, <1>2, Zenon DEF HoldsOK, Becomes, Working, Referring, Holding

\* Nobody begins or ends an eviction.
LEMMA DataQuiet ==
  ASSUME DataOK, NEW r \in Request, Others(r), HoldsOK(req'[r], now),
         UNCHANGED <<now, served, changes, cache, cacheMu>>,
         req[r].pc # "evict", req'[r].pc # "evict"
  PROVE  DataOK'
<1>1. \A q \in Request : req'[q].pc = "evict" <=> cacheMu' = q
  BY Zenon DEF DataOK, Others
<1> QED
  BY <1>1, DataKept, Zenon DEF DataOK

LEMMA DataWalk ==
  ASSUME StateOK, DataOK, NEW r \in Request,
         Arrive(r) \/ Lookup(r) \/ Answer(r) \/ Verify(r)
  PROVE  DataOK'
<1> USE DEF Working, Referring, Holding
<1>0. UNCHANGED <<now, served, changes, cache, cacheMu>>
  BY Zenon DEF Arrive, Lookup, Answer, Verify
<1>1. now \in Nat /\ HoldsOK(req[r], now) /\ None \notin Entry
  BY JWKSAssumption, NoneAssumption DEF DataOK
<1>2. CASE Ends(r) /\ req[r].pc # "evict"
  BY <1>0, <1>2, EndsData, DataQuiet, Zenon
<1>3. CASE Arrive(r)
  <2>1. req[r].pc = "idle"
    BY <1>3, Zenon DEF Arrive
  <2>2. CASE \E ask \in Ask[r] : Becomes(r, "lookup", ask, None, None, 0, now)
    <3>1. PICK ask \in Ask[r] : Becomes(r, "lookup", ask, None, None, 0, now)
      BY <2>2, Zenon
    <3>2. ask # None
      BY JWKSAssumption, Zenon
    <3>3. HoldsOK(req'[r], now) /\ Others(r) /\ req'[r].pc # "evict"
      BY <1>1, <3>1, <3>2 DEF HoldsOK, Becomes
    <3> QED
      BY <1>0, <2>1, <3>3, DataQuiet, Zenon
  <2> QED
    BY <1>2, <1>3, <2>1, <2>2, ArriveEffect, Zenon
<1>4. CASE Lookup(r)
  <2>1. req[r].pc = "lookup" /\ Endp(r) \in Endpoint /\ req[r].ask # None
    BY <1>1, <1>4, Zenon DEF Lookup, StateOK, RequestOK, Endp, HoldsOK
  <2>2. Cached(r) \in Entry \cup {None} /\ (Usable(Cached(r), req[r].previous) => Cached(r) # None)
    BY <2>1, Zenon DEF Cached, DataOK, Usable
  <2>3. HoldsOK(req'[r], now) /\ Others(r) /\ req'[r].pc # "evict"
    BY <1>1, <1>4, <2>1, <2>2, LookupEffect DEF HoldsOK, Becomes
  <2> QED
    BY <1>0, <2>1, <2>3, DataQuiet, Zenon
<1>5. CASE Answer(r)
  <2>1. req[r].pc = "fetch" /\ Endp(r) \in Endpoint /\ req[r].ask # None
    BY <1>1, <1>5, Zenon DEF Answer, StateOK, RequestOK, Endp, HoldsOK
  <2>2. CASE Acceptable(served[Endp(r)])
             /\ Becomes(r, "store", req[r].ask, req[r].previous, NewEntry(r),
                       req[r].began, req[r].since)
    <3>1. NewEntry(r) \in Entry /\ NewEntry(r) # None
      BY <1>1, <2>1, <2>2, NewEntryType, Zenon
    <3>2. HoldsOK(req'[r], now) /\ Others(r) /\ req'[r].pc # "evict"
      BY <1>1, <2>1, <2>2, <3>1, Zenon DEF HoldsOK, Becomes
    <3> QED
      BY <1>0, <2>1, <3>2, DataQuiet, Zenon
  <2>3. CASE Continues(r, "unlock", 0)
    <3>1. 0 \in 0..now
      BY <1>1
    <3>2. HoldsOK(req'[r], now) /\ Others(r) /\ req'[r].pc # "evict"
      BY <2>1, <2>3, <3>1, ContinuesData, Zenon DEF Continues, Becomes
    <3> QED
      BY <1>0, <2>1, <3>2, DataQuiet, Zenon
  <2> QED
    BY <1>5, <2>2, <2>3, AnswerEffect, Zenon
<1>6. CASE Verify(r)
  <2>1. req[r].pc = "verify" /\ req[r].ask # None
    BY <1>1, <1>6, Zenon DEF Verify, HoldsOK
  <2>2. CASE Becomes(r, "lookup", req[r].ask, req[r].entry, req[r].entry,
                     req[r].began, req[r].since)
    <3>1. HoldsOK(req'[r], now) /\ Others(r) /\ req'[r].pc # "evict"
      BY <1>1, <2>1, <2>2, Zenon DEF HoldsOK, Becomes
    <3> QED
      BY <1>0, <2>1, <3>1, DataQuiet, Zenon
  <2> QED
    BY <1>2, <1>6, <2>1, <2>2, VerifyEffect, Zenon
<1> QED
  BY <1>3, <1>4, <1>5, <1>6, Zenon

LEMMA DataLocks ==
  ASSUME StateOK, DataOK, NEW r \in Request,
         AcquireLock(r) \/ LookupLocked(r) \/ FetchFails(r) \/ Unlock(r) \/ ReleaseLock(r)
  PROVE  DataOK'
<1> USE DEF Working, Referring, Holding
<1>0. UNCHANGED <<now, served, changes, cache, cacheMu>>
  BY Zenon DEF AcquireLock, LookupLocked, FetchFails, Unlock, ReleaseLock
<1>1. now \in Nat /\ HoldsOK(req[r], now) /\ None \notin Entry
      /\ req[r].pc # "evict" /\ req[r].pc \in Working /\ 0 \in 0..now /\ now \in 0..now
      /\ req[r].began \in 0..now
  BY JWKSAssumption, NoneAssumption
     DEF DataOK, HoldsOK, AcquireLock, LookupLocked, FetchFails, Unlock, ReleaseLock
<1>2. SUFFICES HoldsOK(req'[r], now) /\ Others(r) /\ req'[r].pc # "evict"
  BY <1>0, <1>1, DataQuiet, Zenon
<1>3. CASE AcquireLock(r)
  <2>1. req[r].entry = None
    BY <1>1, <1>3, Zenon DEF HoldsOK, AcquireLock
  <2> QED
    BY <1>1, <1>3, <2>1, AcquireEffect, ContinuesData, Zenon DEF Continues, Becomes
<1>4. CASE LookupLocked(r)
  <2>1. req[r].entry = None /\ Endp(r) \in Endpoint
    BY <1>1, <1>4, Zenon DEF HoldsOK, LookupLocked, StateOK, RequestOK, Endp
  <2>2. Cached(r) \in Entry \cup {None}
    BY <2>1, Zenon DEF Cached, DataOK
  <2>3. CASE Becomes(r, "unlock", req[r].ask, req[r].previous, Cached(r),
                     req[r].began, req[r].since)
    BY <1>1, <2>2, <2>3, Zenon DEF HoldsOK, Becomes
  <2>4. CASE Continues(r, "fetch", now)
    BY <1>1, <2>1, <2>4, ContinuesData, Zenon DEF Continues, Becomes
  <2> QED
    BY <1>4, <2>3, <2>4, LookupLockedEffect, Zenon
<1>5. CASE FetchFails(r)
  BY <1>1, <1>5, FetchFailsEffect, ContinuesData, Zenon DEF Continues, Becomes
<1>6. CASE Unlock(r)
  BY <1>1, <1>6, UnlockEffect, ContinuesData, Zenon DEF Continues, Becomes
<1>7. CASE ReleaseLock(r)
  BY <1>1, <1>7, ReleaseEffect, EndsData, ContinuesData, Zenon DEF Continues, Becomes
<1> QED
  BY <1>3, <1>4, <1>5, <1>6, <1>7, Zenon

\* What EvictEntries leaves of the cache.
LEMMA EvictCache ==
  ASSUME DataOK, NEW r \in Request, EvictEntries(r)
  PROVE  /\ cache' \in [Endpoint -> Entry \cup {None}]
         /\ \A e \in Endpoint : cache'[e] \in {cache[e], None}
  BY Zenon DEF EvictEntries, DataOK

LEMMA DataStores ==
  ASSUME StateOK, DataOK, NEW r \in Request, StoreEntry(r) \/ EvictEntries(r)
  PROVE  DataOK'
<1> USE DEF Working, Referring, Holding
<1>1. /\ UNCHANGED <<now, served, changes>> /\ None \notin Request
      /\ now \in Nat /\ HoldsOK(req[r], now) /\ req[r].pc \in Working
      /\ 0 \in 0..now /\ req[r].began \in 0..now
  BY JWKSAssumption DEF DataOK, HoldsOK, StoreEntry, EvictEntries
<1>2. CASE StoreEntry(r)
  <2>1. req[r].pc = "store" /\ Endp(r) \in Endpoint /\ req[r].entry \in Entry
        /\ req[r].entry # None /\ cacheMu = None /\ cacheMu' = r
    BY <1>1, <1>2, Zenon DEF StoreEntry, StateOK, RequestOK, Endp, HoldsOK
  <2>2. cache' \in [Endpoint -> Entry \cup {None}]
    BY <1>2, <2>1, Zenon DEF StoreEntry, DataOK
  <2>3. HoldsOK(req'[r], now) /\ Others(r) /\ req'[r].pc = "evict"
    BY <1>1, <1>2, <2>1, StoreEffect, ContinuesData, Zenon DEF Continues, Becomes
  <2>4. \A q \in Request : req'[q].pc = "evict" <=> cacheMu' = q
    BY <1>1, <2>1, <2>3, Zenon DEF DataOK, Others
  <2> QED
    BY <1>1, <2>1, <2>2, <2>3, <2>4, DataKept, Zenon
<1>3. CASE EvictEntries(r)
  <2>1. req[r].pc = "evict" /\ cacheMu = r /\ cacheMu' = None
    BY <1>3, Zenon DEF EvictEntries, DataOK
  <2>2. HoldsOK(req'[r], now) /\ Others(r) /\ req'[r].pc = "unlock"
    BY <1>1, <1>3, EvictEffect, ContinuesData, Zenon DEF Continues, Becomes
  <2>3. \A q \in Request : req'[q].pc = "evict" <=> cacheMu' = q
    BY <1>1, <2>1, <2>2, Zenon DEF DataOK, Others
  <2> QED
    BY <1>1, <1>3, <2>1, <2>2, <2>3, EvictCache, DataKept, Zenon
<1> QED
  BY <1>2, <1>3, Zenon

LEMMA DataPublish ==
  ASSUME StateOK, DataOK, NEW e \in Endpoint, NEW doc \in Document, Publish(e, doc)
  PROVE  DataOK'
<1>1. \A r \in Request : HoldsOK(req'[r], now) /\ req'[r].pc = req[r].pc
  <2> TAKE r \in Request
  <2>1. HoldsOK(req[r], now)
    BY Zenon DEF DataOK
  <2> QED
    BY <2>1, PublishEffect, Zenon DEF HoldsOK
<1>2. served' \in [Endpoint -> Document] /\ changes' \in 0..MaxChanges
  BY JWKSAssumption DEF Publish, DataOK
<1> QED
  BY <1>1, <1>2, Zenon DEF DataOK, Publish

LEMMA DataTick ==
  ASSUME DataOK, Tick
  PROVE  DataOK'
<1>1. \A r \in Request : HoldsOK(req[r], now + 1)
  BY JWKSAssumption DEF DataOK, HoldsOK
<1>2. now + 1 \in 0..MaxTime
  BY JWKSAssumption DEF DataOK, Tick
<1> QED
  BY <1>1, <1>2, Zenon DEF DataOK, Tick

-----------------------------------------------------------------------------
(* The size of the cache. *)

LEMMA BoundedKept ==
  ASSUME Bounded, UNCHANGED <<cache, cacheMu>>
  PROVE  Bounded'
  BY Zenon DEF Bounded, CacheBounded, InUse

\* StoreEntry adds at most one entry, and the mutex is held then.
LEMMA StoreBounded ==
  ASSUME StateOK, DataOK, Bounded, NEW r \in Request, StoreEntry(r)
  PROVE  Bounded'
<1> DEFINE e == Endp(r)
           after == {f \in Endpoint : cache'[f] # None}
<1>1. /\ e \in Endpoint /\ cacheMu = None /\ cacheMu' # None
      /\ cache' = [cache EXCEPT ![e] = req[r].entry] /\ req[r].entry # None
  BY JWKSAssumption, Zenon
     DEF StoreEntry, StateOK, RequestOK, Endp, DataOK, HoldsOK, Working, Referring, Holding
<1>2. after = InUse \cup {e}
  BY <1>1, Zenon DEF InUse, DataOK
<1>3. IsFiniteSet(InUse) /\ Cardinality(InUse) <= MaxEntries
  BY <1>1, JWKSAssumption DEF Bounded, CacheBounded, InUse
<1>4. /\ IsFiniteSet(InUse \cup {e}) /\ Cardinality(InUse) \in Nat
      /\ Cardinality(InUse \cup {e}) = Cardinality(InUse)
           \/ Cardinality(InUse \cup {e}) = Cardinality(InUse) + 1
  BY <1>3, FS_AddElement, FS_CardinalityType, Zenon
<1>0. MaxEntries \in Nat
  BY JWKSAssumption, Zenon
<1> HIDE DEF after, e
<1>5. IsFiniteSet(after) /\ Cardinality(after) <= MaxEntries + 1
  BY <1>2, <1>3, <1>4, <1>0
<1>6. IsFiniteSet(after) /\ Cardinality(after) <= MaxEntries + (IF cacheMu' = None THEN 0 ELSE 1)
  BY <1>1, <1>5, Zenon
<1> QED
  BY <1>6, Zenon DEF Bounded, CacheBounded, InUse, after

\* EvictEntries drops one other entry when the cache is over its limit, and there
\* is one then: the limit is not 0.
LEMMA EvictBounded ==
  ASSUME StateOK, DataOK, Bounded, NEW r \in Request, EvictEntries(r)
  PROVE  Bounded'
<1> DEFINE e == Endp(r)
           kept == InUse \ Stale(e)
           others == kept \ {e}
           after == {f \in Endpoint : cache'[f] # None}
<1>1. PICK victim \in Dropped(e) :
         cache' = [f \in Endpoint |-> IF f \in Stale(e) \cup {victim} THEN None ELSE cache[f]]
  BY Zenon DEF EvictEntries
<1>2. after = kept \ {victim}
  BY <1>1, Zenon DEF InUse
<1>3. /\ cacheMu # None /\ cacheMu' = None
      /\ IsFiniteSet(InUse) /\ Cardinality(InUse) <= MaxEntries + 1
  BY JWKSAssumption, Zenon DEF EvictEntries, DataOK, Bounded, CacheBounded, InUse
<1>4. /\ IsFiniteSet(kept) /\ Cardinality(kept) \in Nat
      /\ Cardinality(kept) <= Cardinality(InUse) /\ Cardinality(InUse) \in Nat
  BY <1>3, FS_Subset, FS_CardinalityType, Zenon
<1>5. Dropped(e) = IF Over(Cardinality(kept)) /\ others # {}
                   THEN {o \in others : \A p \in others : cache[o].expiresAt <= cache[p].expiresAt}
                   ELSE {None}
  BY Zenon DEF Dropped, InUse
<1>6. MaxEntries \in Nat /\ MaxEntries >= 1
  BY JWKSAssumption
<1> HIDE DEF after, kept
<1>7. CASE Over(Cardinality(kept)) /\ others # {}
  <2>1. victim \in kept
    BY <1>1, <1>5, <1>7, Zenon
  <2>2. IsFiniteSet(kept \ {victim}) /\ Cardinality(kept \ {victim}) = Cardinality(kept) - 1
    BY <1>4, <2>1, FS_RemoveElement, Zenon
  <2>3. IsFiniteSet(after) /\ Cardinality(after) <= MaxEntries
    BY <1>2, <1>3, <1>4, <1>6, <2>2
  <2> QED
    BY <1>3, <2>3, <1>6 DEF Bounded, CacheBounded, InUse, after
<1>8. CASE ~(Over(Cardinality(kept)) /\ others # {})
  <2>1. after \subseteq kept /\ IsFiniteSet(after) /\ Cardinality(after) <= Cardinality(kept)
        /\ Cardinality(after) \in Nat
    BY <1>2, <1>4, FS_Subset, FS_CardinalityType, Zenon
  <2>2. CASE others = {}
    <3>1. kept \subseteq {e}
      BY <2>2, Zenon
    <3>2. IsFiniteSet({e}) /\ Cardinality({e}) = 1
      BY FS_Singleton, Zenon
    <3>3. Cardinality(kept) <= 1
      BY <3>1, <3>2, FS_Subset, Zenon
    <3>4. Cardinality(after) <= MaxEntries
      BY <1>4, <1>6, <2>1, <3>3
    <3> QED
      BY <1>3, <2>1, <3>4, <1>6 DEF Bounded, CacheBounded, InUse, after
  <2>3. CASE ~Over(Cardinality(kept))
    <3>1. Cardinality(after) <= MaxEntries
      BY <1>4, <1>6, <2>1, <2>3 DEF Over
    <3> QED
      BY <1>3, <2>1, <3>1, <1>6 DEF Bounded, CacheBounded, InUse, after
  <2> QED
    BY <1>8, <2>2, <2>3, Zenon
<1> QED
  BY <1>7, <1>8, Zenon

-----------------------------------------------------------------------------
(* The timing of refreshes. *)

\* A request that is refreshing was so before, since the same time.
Refreshes(q, p) ==
    p.pc \in {"fetch", "store"} =>
        /\ q.pc = p.pc /\ p.began = q.began /\ p.since = q.since
        /\ p.ask = q.ask /\ p.previous = q.previous /\ p.entry = q.entry

CacheShrinks == \A e \in Endpoint : cache'[e] \in {cache[e], None}

LEMMA PromptKept ==
  ASSUME Prompt, now' = now, \A q \in Request : Refreshes(req[q], req'[q])
  PROVE  Prompt'
  BY DEF Prompt, Refreshes, ForcedAt

LEMMA NeedlessKept ==
  ASSUME StateOK, Needless, CacheShrinks, \A q \in Request : Refreshes(req[q], req'[q])
  PROVE  Needless'
<1> SUFFICES ASSUME NEW q \in Request, req'[q].pc \in {"fetch", "store"},
                    cache'[req'[q].ask.endpoint] # None
             PROVE  LET c == cache'[req'[q].ask.endpoint] IN
                    /\ \/ req'[q].began >= c.expiresAt
                       \/ req'[q].previous # None /\ c = req'[q].previous
                    /\ req'[q].previous # None => req'[q].began - c.forced >= RefreshDelay
  BY Zenon DEF Needless, Cached, Endp
<1>1. Refreshes(req[q], req'[q])
  BY Zenon
<1>2. req[q].ask.endpoint \in Endpoint /\ req'[q].ask = req[q].ask
  BY <1>1, Zenon DEF StateOK, RequestOK, Refreshes, Working, Referring, Holding
<1>3. cache'[req'[q].ask.endpoint] = cache[req[q].ask.endpoint]
  BY <1>2, Zenon DEF CacheShrinks
<1> QED
  BY <1>1, <1>3, Zenon DEF Needless, Refreshes, Cached, Endp

-----------------------------------------------------------------------------
(* What a request knows of the cache. *)

\* The request holds no more than before, and has seen the cache before.
Calm(q, p) ==
    /\ p.pc = "idle" => q.pc = "idle"
    /\ p.pc \in Working =>
         /\ q.pc \in Working
         /\ p.ask = q.ask /\ p.since = q.since /\ p.previous = q.previous
         /\ p.entry \in {q.entry, None}
         /\ p.live => q.live
         /\ p.pc = "store" => q.pc = "store" /\ p.entry = q.entry
         /\ p.entry # None /\ p.pc \in Returned => q.pc \in Returned

LEMMA CalmEntry ==
  ASSUME StateOK, CacheShrinks, NEW q \in Request,
         req'[q].pc \in Working, Calm(req[q], req'[q])
  PROVE  /\ Endp(q) \in Endpoint /\ req'[q].ask = req[q].ask
         /\ cache'[req'[q].ask.endpoint] \in {cache[req[q].ask.endpoint], None}
  BY Zenon DEF StateOK, RequestOK, Calm, Endp, CacheShrinks

LEMMA RecencyKept ==
  ASSUME StateOK, Recency, CacheShrinks, \A q \in Request : Calm(req[q], req'[q])
  PROVE  Recency'
<1> SUFFICES ASSUME NEW q \in Request, req'[q].pc \in Working
             PROVE  (/\ req[q].entry # None => Good(q, req[q].entry)
                     /\ req[q].previous # None => Good(q, req[q].previous)
                     /\ Seen(q) /\ Cached(q) # None =>
                           Cached(q) = Last(q) \/ Recent(q, Cached(q)))'
  BY Zenon DEF Recency
<1>1. Calm(req[q], req'[q])
  BY Zenon
<1> QED
  BY <1>1, CalmEntry DEF Recency, Calm, Good, Recent, Seen, Last, Cached, Endp

LEMMA OwnKnowsKept ==
  ASSUME StateOK, OwnKnows, CacheShrinks, \A q \in Request : Calm(req[q], req'[q])
  PROVE  OwnKnows'
<1>1. ASSUME NEW q \in Request, req'[q].pc \in Working, req'[q].live
      PROVE  \A x \in {cache'[req'[q].ask.endpoint], req'[q].entry, req'[q].previous} :
                x # None /\ x.by[1] = q => req'[q].ask.token.kid \in DOMAIN x.keys
  <2>1. Calm(req[q], req'[q])
    BY Zenon
  <2> QED
    BY <1>1, <2>1, CalmEntry DEF OwnKnows, Calm, Live, Cached, Kid, Endp
<1>2. ASSUME NEW q \in Request, req'[q].pc = "idle", NEW e \in Endpoint, cache'[e] # None
      PROVE  cache'[e].by[1] # q
  BY <1>2, Zenon DEF OwnKnows, Calm, CacheShrinks
<1> QED
  BY <1>1, <1>2, Zenon DEF OwnKnows, Live, Cached, Kid, Endp

LEMMA PendingKept ==
  ASSUME StateOK, Pending, \A q \in Request : Calm(req[q], req'[q])
  PROVE  Pending'
<1> SUFFICES ASSUME NEW q \in Request, NEW s \in Request, Live(q)', s # q,
                    req'[s].pc = "store", (Endp(s) = Endp(q))'
             PROVE  (\/ Kid(q) \in DOMAIN req[s].entry.keys
                     \/ req[s].previous # None
                     \/ req[q].entry = None /\ req[q].previous = None)'
  BY Zenon DEF Pending
<1>1. Calm(req[q], req'[q]) /\ Calm(req[s], req'[s])
  BY Zenon
<1>2. /\ req'[s].ask = req[s].ask /\ req[s].pc = "store" /\ req'[s].entry = req[s].entry
      /\ req'[s].previous = req[s].previous
  BY <1>1, Zenon DEF Calm, Working, Referring, Holding
<1>3. Live(q) /\ req'[q].ask = req[q].ask /\ req'[q].previous = req[q].previous
      /\ req'[q].entry \in {req[q].entry, None}
  BY <1>1, Zenon DEF Calm, Live
<1> QED
  BY <1>2, <1>3, Zenon DEF Pending, Kid, Endp

LEMMA RotationKept ==
  ASSUME StateOK, Rotation, CacheShrinks, \A q \in Request : Calm(req[q], req'[q])
  PROVE  Rotation'
<1> SUFFICES ASSUME NEW q \in Request, Live(q)'
             PROVE  (/\ Seen(q) /\ Cached(q) # None =>
                           Cached(q) = Last(q) \/ Excused(q, Cached(q))
                     /\ req[q].pc \in Returned \cup {"store"}
                           /\ req[q].previous # None /\ req[q].entry # None
                           => Excused(q, req[q].entry))'
  BY Zenon DEF Rotation
<1>1. Calm(req[q], req'[q]) /\ req'[q].pc \in Working /\ Live(q)
  BY Zenon DEF Live, Calm
<1> QED
  BY <1>1, CalmEntry DEF Rotation, Calm, Excused, Kid, Seen, Last, Cached, Endp

LEMMA LiveKept ==
  ASSUME LiveVerifies, served' = served, \A q \in Request : Calm(req[q], req'[q])
  PROVE  LiveVerifies'
  BY Zenon DEF LiveVerifies, Live, Calm, Endp

LEMMA KnowledgeKept ==
  ASSUME StateOK, Knowledge, served' = served, CacheShrinks,
         \A q \in Request : Calm(req[q], req'[q])
  PROVE  Knowledge'
  BY RecencyKept, LiveKept, OwnKnowsKept, PendingKept, RotationKept, Zenon DEF Knowledge

LEMMA CalmSelf ==
  ASSUME NEW r \in Request, Others(r), Calm(req[r], req'[r])
  PROVE  \A q \in Request : Calm(req[q], req'[q])
  BY Zenon DEF Others, Calm

LEMMA RefreshesSelf ==
  ASSUME NEW r \in Request, Others(r), Refreshes(req[r], req'[r])
  PROVE  \A q \in Request : Refreshes(req[q], req'[q])
  BY Zenon DEF Others, Refreshes

LEMMA EndsCalm ==
  ASSUME NEW r \in Request, Ends(r)
  PROVE  Calm(req[r], req'[r]) /\ Refreshes(req[r], req'[r]) /\ Others(r)
<1>1. PICK pc \in {"accepted", "unauthorized", "unavailable"} :
         Becomes(r, pc, None, None, None, 0, 0)
  BY Zenon DEF Ends
<1> QED
  BY <1>1, Zenon DEF Calm, Refreshes, Becomes, Working, Referring, Holding

\* The steps that neither look at the cache nor write to it.
LEMMA CalmInv ==
  ASSUME StateOK, DInv, NEW r \in Request,
         \/ AcquireLock(r) \/ FetchFails(r) \/ Unlock(r) \/ ReleaseLock(r)
         \/ Arrive(r) /\ Ends(r)
         \/ Lookup(r) /\ Becomes(r, "acquire", req[r].ask, req[r].previous, None,
                                 req[r].began, req[r].since) /\ (req'[r].live => req[r].live)
         \/ Answer(r) /\ Continues(r, "unlock", 0)
         \/ Verify(r) /\ Ends(r)
  PROVE  DInv'
<1> USE DEF Working, Referring, Holding, Returned
<1>1. DataOK /\ HoldsOK(req[r], now) /\ UNCHANGED <<now, served, cache, cacheMu>>
  BY Zenon
     DEF DInv, DataOK, AcquireLock, FetchFails, Unlock, ReleaseLock, Arrive, Lookup, Answer,
         Verify
<1>2. DataOK' /\ Bounded'
  BY <1>1, DataWalk, DataLocks, BoundedKept, Zenon DEF DInv
<1>3. Calm(req[r], req'[r]) /\ Refreshes(req[r], req'[r]) /\ Others(r)
  <2>1. CASE AcquireLock(r)
    <3>1. req[r].pc = "acquire" /\ Continues(r, "lock", req[r].began)
      BY <1>1, <2>1, AcquireEffect, Zenon DEF AcquireLock
    <3> QED
      BY <3>1, Zenon DEF Calm, Refreshes, Continues, Becomes
  <2>2. CASE FetchFails(r)
    <3>1. req[r].pc = "fetch" /\ req[r].entry = None /\ Continues(r, "unlock", 0)
      BY <1>1, <2>2, FetchFailsEffect, Zenon DEF FetchFails, HoldsOK
    <3> QED
      BY <3>1, Zenon DEF Calm, Refreshes, Continues, Becomes
  <2>3. CASE Unlock(r)
    <3>1. req[r].pc = "unlock" /\ Continues(r, "release", req[r].began)
      BY <1>1, <2>3, UnlockEffect, Zenon DEF Unlock
    <3> QED
      BY <3>1, Zenon DEF Calm, Refreshes, Continues, Becomes
  <2>4. CASE ReleaseLock(r)
    <3>1. req[r].pc = "release" /\ (Ends(r) \/ Continues(r, "verify", req[r].began))
      BY <1>1, <2>4, ReleaseEffect, Zenon DEF ReleaseLock
    <3>2. CASE Continues(r, "verify", req[r].began)
      BY <3>1, <3>2, Zenon DEF Calm, Refreshes, Continues, Becomes
    <3> QED
      BY <3>1, <3>2, EndsCalm, Zenon
  <2>5. CASE Ends(r)
    BY <2>5, EndsCalm, Zenon
  <2>6. CASE Lookup(r) /\ Becomes(r, "acquire", req[r].ask, req[r].previous, None,
                                  req[r].began, req[r].since) /\ (req'[r].live => req[r].live)
    BY <2>6, Zenon DEF Lookup, Becomes, Calm, Refreshes
  <2>7. CASE Answer(r) /\ Continues(r, "unlock", 0)
    <3>1. req[r].pc = "fetch" /\ req[r].entry = None
      BY <1>1, <2>7, Zenon DEF Answer, HoldsOK
    <3> QED
      BY <2>7, <3>1, Zenon DEF Calm, Refreshes, Continues, Becomes
  <2> QED
    BY <2>1, <2>2, <2>3, <2>4, <2>5, <2>6, <2>7, Zenon
<1>4. \A q \in Request : Calm(req[q], req'[q]) /\ Refreshes(req[q], req'[q])
  BY <1>3, CalmSelf, RefreshesSelf, Zenon
<1>5. CacheShrinks
  BY <1>1, Zenon DEF CacheShrinks
<1>6. Prompt' /\ Needless' /\ Knowledge'
  BY <1>1, <1>4, <1>5, PromptKept, NeedlessKept, KnowledgeKept, Zenon DEF DInv
<1> QED
  BY <1>2, <1>6, Zenon DEF DInv

LEMMA EvictKeeps ==
  ASSUME StateOK, DInv, NEW r \in Request, EvictEntries(r)
  PROVE  DInv'
<1>1. DataOK /\ UNCHANGED <<now, served>> /\ CacheShrinks
  BY EvictCache, Zenon DEF DInv, EvictEntries, CacheShrinks
<1>2. DataOK' /\ Bounded'
  BY DataStores, EvictBounded, Zenon DEF DInv
<1>3. Calm(req[r], req'[r]) /\ Refreshes(req[r], req'[r]) /\ Others(r)
  <2>1. req[r].pc = "evict" /\ Continues(r, "unlock", req[r].began)
    BY <1>1, EvictEffect, Zenon DEF EvictEntries
  <2> QED
    BY <2>1, Zenon DEF Calm, Refreshes, Continues, Becomes, Working, Referring, Holding, Returned
<1>4. \A q \in Request : Calm(req[q], req'[q]) /\ Refreshes(req[q], req'[q])
  BY <1>3, CalmSelf, RefreshesSelf, Zenon
<1>5. Prompt' /\ Needless' /\ Knowledge'
  BY <1>1, <1>4, PromptKept, NeedlessKept, KnowledgeKept, Zenon DEF DInv
<1> QED
  BY <1>2, <1>5, Zenon DEF DInv

LEMMA PublishKeeps ==
  ASSUME StateOK, DInv, NEW e \in Endpoint, NEW doc \in Document, Publish(e, doc)
  PROVE  DInv'
<1>1. DataOK /\ UNCHANGED <<now, cache, cacheMu>> /\ CacheShrinks
      /\ served' = [served EXCEPT ![e] = doc]
  BY Zenon DEF DInv, Publish, CacheShrinks
<1>2. DataOK' /\ Bounded'
  BY <1>1, DataPublish, BoundedKept, Zenon DEF DInv
<1>3. \A q \in Request : Calm(req[q], req'[q]) /\ Refreshes(req[q], req'[q])
  BY <1>1, PublishEffect, Zenon DEF Calm, Refreshes
<1>4. LiveVerifies'
  <2> SUFFICES ASSUME NEW r \in Request, req'[r].pc \in Working, req'[r].live
               PROVE  VerifiesUnder(req'[r].ask.token, served'[req'[r].ask.endpoint])
    BY Zenon DEF LiveVerifies, Live, Endp
  <2>1. /\ req'[r].pc = req[r].pc /\ req'[r].ask = req[r].ask /\ req[r].live
        /\ req[r].ask # None /\ Endp(r) = e => VerifiesUnder(req[r].ask.token, doc)
    BY <1>1, PublishEffect, Zenon
  <2>2. req[r].ask # None /\ Endp(r) \in Endpoint
    BY <1>1, <2>1, Zenon DEF DataOK, HoldsOK, StateOK, RequestOK, Endp
  <2>3. VerifiesUnder(req[r].ask.token, served[Endp(r)])
    BY <2>1, Zenon DEF DInv, Knowledge, LiveVerifies, Live
  <2>4. served'[Endp(r)] = IF Endp(r) = e THEN doc ELSE served[Endp(r)]
    BY <1>1, <2>2, Zenon DEF DataOK
  <2> QED
    BY <2>1, <2>2, <2>3, <2>4, Zenon DEF Endp
<1>5. Prompt' /\ Needless' /\ Recency' /\ OwnKnows' /\ Pending' /\ Rotation'
  BY <1>1, <1>3, PromptKept, NeedlessKept, RecencyKept, OwnKnowsKept, PendingKept, RotationKept,
     Zenon
     DEF DInv, Knowledge
<1> QED
  BY <1>2, <1>4, <1>5, Zenon DEF DInv, Knowledge

LEMMA TickKeeps ==
  ASSUME StateOK, DInv, Tick
  PROVE  DInv'
<1>1. DataOK /\ UNCHANGED <<served, cache, cacheMu, req>> /\ CacheShrinks /\ now' = now + 1
  BY Zenon DEF DInv, Tick, CacheShrinks
<1>2. DataOK' /\ Bounded'
  BY <1>1, DataTick, BoundedKept, Zenon DEF DInv
<1>3. \A q \in Request : Calm(req[q], req'[q]) /\ Refreshes(req[q], req'[q])
  BY <1>1, Zenon DEF Calm, Refreshes
<1>4. Prompt'
  <2>1. \A q \in Request : HoldsOK(req[q], now) /\ now \in Nat
    BY <1>1, JWKSAssumption DEF DataOK
  <2> QED
    BY <1>1, <2>1, JWKSAssumption DEF DInv, Prompt, Tick, HoldsOK, ForcedAt
<1>5. Needless' /\ Knowledge'
  BY <1>1, <1>3, NeedlessKept, KnowledgeKept, Zenon DEF DInv
<1> QED
  BY <1>2, <1>4, <1>5, Zenon DEF DInv

-----------------------------------------------------------------------------
(* The steps that look at the cache or write to it. *)

\* A request arrives: it has seen nothing yet.
LEMMA ArriveKeeps ==
  ASSUME StateOK, DInv, NEW r \in Request, Arrive(r)
  PROVE  DInv'
<1> USE DEF Working, Referring, Holding
<1>1. CASE Ends(r)
  BY <1>1, CalmInv, Zenon
<1>2. CASE \E ask \in Ask[r] :
               /\ Becomes(r, "lookup", ask, None, None, 0, now)
               /\ req'[r].live => VerifiesUnder(ask.token, served[ask.endpoint])
  <2>1. PICK ask \in Ask[r] :
               /\ Becomes(r, "lookup", ask, None, None, 0, now)
               /\ req'[r].live => VerifiesUnder(ask.token, served[ask.endpoint])
    BY <1>2, Zenon
  <2>2. /\ DataOK /\ UNCHANGED <<now, served, cache, cacheMu>> /\ req[r].pc = "idle"
        /\ ask.endpoint \in Endpoint /\ CacheShrinks
    BY JWKSAssumption, Zenon DEF DInv, Arrive, CacheShrinks
  <2>3. DataOK' /\ Bounded'
    BY <2>2, DataWalk, BoundedKept, Zenon DEF DInv
  <2>4. \A q \in Request : Refreshes(req[q], req'[q])
    BY <2>1, Zenon DEF Becomes, Others, Refreshes
  <2>5. Prompt' /\ Needless'
    BY <2>2, <2>4, PromptKept, NeedlessKept, Zenon DEF DInv
  <2>6. /\ req'[r].pc = "lookup" /\ req'[r].ask = ask /\ req'[r].previous = None
        /\ req'[r].entry = None /\ Others(r)
    BY <2>1, Zenon DEF Becomes
  <2>7. Recency' /\ Rotation'
    BY <2>2, <2>6
       DEF DInv, Knowledge, Recency, Rotation, Others, Seen, Last, Good, Recent, Excused, Live,
           Cached, Endp, Kid
  <2>8. LiveVerifies'
    BY <2>1, <2>2, <2>6, Zenon DEF DInv, Knowledge, LiveVerifies, Others, Live, Endp
  <2>9. OwnKnows'
    <3>1. \A e \in Endpoint : cache[e] # None => cache[e].by[1] # r
      BY <2>2, Zenon DEF DInv, Knowledge, OwnKnows
    <3> QED
      BY <2>2, <2>6, <3>1 DEF DInv, Knowledge, OwnKnows, Others, Live, Cached, Endp, Kid
  <2>10. Pending'
    BY <2>2, <2>6 DEF DInv, Knowledge, Pending, Others, Live, Endp, Kid
  <2> QED
    BY <2>3, <2>5, <2>7, <2>8, <2>9, <2>10, Zenon DEF DInv, Knowledge
<1> QED
  BY <1>1, <1>2, ArriveEffect, Zenon

\* The key function forces a refresh: the entry becomes the previous one.
LEMMA ForceKeeps ==
  ASSUME StateOK, DInv, NEW r \in Request, Verify(r)
  PROVE  DInv'
<1> USE DEF Working, Referring, Holding
<1>1. DataOK /\ HoldsOK(req[r], now) /\ req[r].pc = "verify" /\ CacheShrinks
      /\ UNCHANGED <<now, served, cache, cacheMu>>
  BY Zenon DEF DInv, DataOK, Verify, CacheShrinks
<1>2. CASE Ends(r)
  BY <1>2, CalmInv, Zenon
<1>3. CASE /\ RefreshForced(r)
           /\ Becomes(r, "lookup", req[r].ask, req[r].entry, req[r].entry,
                      req[r].began, req[r].since)
           /\ req'[r].live => req[r].live
  <2>1. /\ req'[r].pc = "lookup" /\ req'[r].ask = req[r].ask /\ req'[r].since = req[r].since
        /\ req'[r].previous = req[r].entry /\ req'[r].entry = req[r].entry
        /\ Others(r) /\ req[r].previous = None /\ req[r].entry # None
        /\ req'[r].live => req[r].live
    BY <1>1, <1>3, Zenon DEF Becomes, RefreshForced, HoldsOK
  <2>2. DataOK' /\ Bounded'
    BY <1>1, DataWalk, BoundedKept, Zenon DEF DInv
  <2>3. \A q \in Request : Refreshes(req[q], req'[q])
    BY <2>1, Zenon DEF Others, Refreshes
  <2>4. Prompt' /\ Needless'
    BY <1>1, <2>3, PromptKept, NeedlessKept, Zenon DEF DInv
  <2>5. Recency'
    BY <1>1, <2>1
       DEF DInv, Knowledge, Recency, Others, Seen, Last, Good, Recent, Cached, Endp, Returned
  <2>6. Rotation'
    BY <1>1, <2>1
       DEF DInv, Knowledge, Rotation, Others, Seen, Last, Excused, Live, Cached, Endp, Kid,
           Returned
  <2>7. LiveVerifies'
    BY <1>1, <2>1, Zenon DEF DInv, Knowledge, LiveVerifies, Others, Live, Endp
  <2>8. OwnKnows'
    BY <1>1, <2>1 DEF DInv, Knowledge, OwnKnows, Others, Live, Cached, Endp, Kid
  <2>9. Pending'
    BY <1>1, <2>1 DEF DInv, Knowledge, Pending, Others, Live, Endp, Kid
  <2> QED
    BY <2>2, <2>4, <2>5, <2>6, <2>7, <2>8, <2>9, Zenon DEF DInv, Knowledge
<1> QED
  BY <1>1, <1>2, <1>3, VerifyEffect, Zenon

\* The lookup under the lock fails: the refresh begins, and nothing else would do.
LEMMA FetchBegins ==
  ASSUME StateOK, DInv, NEW r \in Request, LookupLocked(r),
         ~UsableLocked(Cached(r), req[r].previous), Continues(r, "fetch", now)
  PROVE  DInv'
<1> USE DEF Working, Referring, Holding
<1>1. /\ DataOK /\ HoldsOK(req[r], now) /\ req[r].pc = "lock" /\ CacheShrinks
      /\ UNCHANGED <<now, served, cache, cacheMu>>
      /\ now \in Nat /\ req[r].since <= now
  BY JWKSAssumption DEF DInv, DataOK, HoldsOK, LookupLocked, CacheShrinks
<1>2. /\ req'[r].pc = "fetch" /\ req'[r].ask = req[r].ask /\ req'[r].since = req[r].since
      /\ req'[r].previous = req[r].previous /\ req'[r].began = now /\ Others(r)
  BY Zenon DEF Continues, Becomes
<1>3. DataOK' /\ Bounded'
  BY <1>1, DataLocks, BoundedKept, Zenon DEF DInv
<1>4. Prompt'
  BY <1>1, <1>2, JWKSAssumption DEF DInv, Prompt, Others, ForcedAt
<1>5. Needless'
  <2>1. Endp(r) \in Endpoint /\ Cached(r) \in Entry \cup {None}
    BY <1>1, Zenon DEF StateOK, RequestOK, Endp, Cached, DataOK
  <2>2. Cached(r) # None =>
            /\ \/ now >= Cached(r).expiresAt
               \/ req[r].previous # None /\ Cached(r) = req[r].previous
            /\ req[r].previous # None => now - Cached(r).forced >= RefreshDelay
    BY <1>1, <2>1, JWKSAssumption DEF UsableLocked, Usable, Throttled, Fresh, Entry, Never
  <2> QED
    BY <1>1, <1>2, <2>2 DEF DInv, Needless, Others, Cached, Endp
<1>6. Calm(req[r], req'[r]) /\ Others(r)
  BY <1>1, Zenon DEF Calm, Continues, Becomes, Returned
<1>7. Knowledge'
  BY <1>1, <1>6, CalmSelf, KnowledgeKept, Zenon DEF DInv
<1> QED
  BY <1>3, <1>4, <1>5, <1>7, Zenon DEF DInv

\* A lookup returns the cached entry.
LEMMA HitKeeps ==
  ASSUME StateOK, DInv, NEW r \in Request, NEW pc \in {"verify", "unlock"},
         req[r].pc \in {"lookup", "lock"}, DataOK',
         UNCHANGED <<now, served, cache, cacheMu>>,
         Becomes(r, pc, req[r].ask, req[r].previous, Cached(r), req[r].began, req[r].since),
         req'[r].live => req[r].live,
         Cached(r) # None, Good(r, Cached(r)),
         Live(r) /\ req[r].previous # None => Excused(r, Cached(r)),
         req[r].previous = None =>
             \A s \in Request : s # r /\ req[s].pc = "store" /\ Endp(s) = Endp(r)
                                   => req[s].previous # None
  PROVE  DInv'
<1> USE DEF Working, Referring, Holding
<1>1. /\ req'[r].pc = pc /\ req'[r].ask = req[r].ask /\ req'[r].since = req[r].since
      /\ req'[r].previous = req[r].previous /\ req'[r].entry = Cached(r)
      /\ Others(r) /\ CacheShrinks
  BY Zenon DEF Becomes, CacheShrinks
<1>2. Bounded'
  BY BoundedKept, Zenon DEF DInv
<1>3. \A q \in Request : Refreshes(req[q], req'[q])
  BY <1>1, Zenon DEF Others, Refreshes
<1>4. Prompt' /\ Needless'
  BY <1>1, <1>3, PromptKept, NeedlessKept, Zenon DEF DInv
<1>5. Recency'
  BY <1>1 DEF DInv, Knowledge, Recency, Others, Seen, Last, Good, Recent, Cached, Endp, Returned
<1>6. Rotation'
  <2> SUFFICES ASSUME NEW q \in Request, Live(q)'
               PROVE  (/\ Seen(q) /\ Cached(q) # None =>
                             Cached(q) = Last(q) \/ Excused(q, Cached(q))
                       /\ req[q].pc \in Returned \cup {"store"}
                             /\ req[q].previous # None /\ req[q].entry # None
                             => Excused(q, req[q].entry))'
    BY Zenon DEF Rotation
  <2>1. CASE q = r
    <3>1. Live(r)
      BY <1>1, <2>1, Zenon DEF Live
    <3>2. Excused(r, Cached(r))' <=> Excused(r, Cached(r))
      BY <1>1, Zenon DEF Excused, Cached, Endp, Kid
    <3>3. Excused(r, req[r].entry)' <=> Excused(r, Cached(r))
      BY <1>1, Zenon DEF Excused, Cached, Endp, Kid
    <3>4. Cached(r)' = Cached(r) /\ req'[r].entry = Cached(r)
          /\ Last(r)' = (IF req[r].previous # None THEN req[r].previous ELSE Cached(r))
      BY <1>1, Zenon DEF Cached, Endp, Last
    <3> QED
      BY <1>1, <2>1, <3>1, <3>2, <3>3, <3>4, Zenon
  <2>2. CASE q # r
    <3>1. req'[q] = req[q] /\ cache' = cache /\ Live(q)
      BY <1>1, <2>2, Zenon DEF Others, Live
    <3>2. /\ Seen(q) /\ Cached(q) # None => Cached(q) = Last(q) \/ Excused(q, Cached(q))
          /\ req[q].pc \in Returned \cup {"store"}
                /\ req[q].previous # None /\ req[q].entry # None
                => Excused(q, req[q].entry)
      BY <3>1, Zenon DEF DInv, Knowledge, Rotation
    <3> QED
      BY <3>1, <3>2, Zenon DEF Seen, Last, Excused, Cached, Endp, Kid
  <2> QED
    BY <2>1, <2>2, Zenon
<1>7. LiveVerifies'
  BY <1>1, Zenon DEF DInv, Knowledge, LiveVerifies, Others, Live, Endp
<1>8. OwnKnows'
  BY <1>1 DEF DInv, Knowledge, OwnKnows, Others, Live, Cached, Endp, Kid
<1>9. Pending'
  BY <1>1 DEF DInv, Knowledge, Pending, Others, Live, Endp, Kid
<1> QED
  BY <1>2, <1>4, <1>5, <1>6, <1>7, <1>8, <1>9, Zenon DEF DInv, Knowledge

LEMMA CachedType ==
  ASSUME StateOK, DataOK, NEW r \in Request, req[r].pc \in Working, Cached(r) # None
  PROVE  /\ Cached(r) \in Entry
         /\ Cached(r).expiresAt \in Nat /\ Cached(r).asOf \in Nat /\ Cached(r).forced \in Int
<1>1. Cached(r) \in Entry
  BY Zenon DEF StateOK, RequestOK, Endp, Cached, DataOK
<1> QED
  BY <1>1, JWKSAssumption DEF Entry, Never

\* A fresh entry that is not the one the key is missing from.
LEMMA FreshGood ==
  ASSUME StateOK, DInv, NEW r \in Request, req[r].pc \in Working,
         Usable(Cached(r), req[r].previous)
  PROVE  /\ Cached(r) # None /\ Good(r, Cached(r))
         /\ Live(r) /\ req[r].previous # None => Excused(r, Cached(r))
         /\ req[r].previous = None =>
             \A s \in Request : s # r /\ req[s].pc = "store" /\ Endp(s) = Endp(r)
                                   => req[s].previous # None
<1>1. Cached(r) # None /\ now < Cached(r).expiresAt
      /\ (req[r].previous = None \/ Cached(r) # req[r].previous)
  BY Zenon DEF Usable, Fresh
<1>2. /\ Cached(r).expiresAt \in Nat /\ now \in Nat /\ req[r].since \in Nat
      /\ req[r].since <= now
  BY <1>1, CachedType, JWKSAssumption DEF DInv, DataOK, HoldsOK
<1>3. Good(r, Cached(r))
  BY <1>1, <1>2 DEF Good
<1>4. Live(r) /\ req[r].previous # None => Excused(r, Cached(r))
  BY <1>1, Zenon DEF DInv, Knowledge, Rotation, Seen, Last
<1>5. ASSUME NEW s \in Request, req[s].pc = "store", Endp(s) = Endp(r), req[s].previous = None
      PROVE  FALSE
  <2>1. req[s].began >= Cached(r).expiresAt /\ req[s].began <= now /\ req[s].began \in Nat
    BY <1>1, <1>5, <1>2 DEF DInv, Needless, Cached, DataOK, HoldsOK
  <2> QED
    BY <1>1, <1>2, <2>1
<1> QED
  BY <1>1, <1>3, <1>4, <1>5, Zenon

\* An entry that may be stale, when a refresh has been forced lately.
LEMMA ThrottledGood ==
  ASSUME StateOK, DInv, NEW r \in Request, req[r].pc \in Working,
         Throttled(Cached(r), req[r].previous)
  PROVE  /\ Cached(r) # None /\ Good(r, Cached(r))
         /\ Live(r) => Excused(r, Cached(r))
         /\ req[r].previous # None
<1>1. Cached(r) # None /\ req[r].previous # None /\ now - Cached(r).forced < RefreshDelay
  BY Zenon DEF Throttled
<1>2. /\ Cached(r).forced \in Int /\ now \in Nat /\ req[r].since \in Nat
      /\ req[r].since <= now /\ RefreshDelay \in Nat
  BY <1>1, CachedType, JWKSAssumption DEF DInv, DataOK, HoldsOK
<1>3. Good(r, Cached(r))
  BY <1>1, Zenon DEF DInv, Knowledge, Recency, Seen, Last, Good
<1>4. ASSUME Live(r) PROVE Excused(r, Cached(r))
  <2>1. CASE Cached(r) = req[r].previous
    <3>1. Cached(r).by[1] = r => Kid(r) \in DOMAIN Cached(r).keys
      BY <1>1, <1>4, Zenon DEF DInv, Knowledge, OwnKnows
    <3>2. req[r].since - Cached(r).forced < RefreshDelay
      BY <1>1, <1>2
    <3> QED
      BY <3>1, <3>2, Zenon DEF Excused
  <2>2. CASE Cached(r) # req[r].previous
    BY <1>1, <1>4, <2>2, Zenon DEF DInv, Knowledge, Rotation, Seen, Last
  <2> QED
    BY <2>1, <2>2, Zenon
<1> QED
  BY <1>1, <1>3, <1>4, Zenon

LEMMA LookupKeeps ==
  ASSUME StateOK, DInv, NEW r \in Request, Lookup(r)
  PROVE  DInv'
<1>1. DataOK /\ DataOK' /\ req[r].pc = "lookup" /\ UNCHANGED <<now, served, cache, cacheMu>>
  BY DataWalk, Zenon DEF DInv, Lookup
<1>2. CASE /\ Usable(Cached(r), req[r].previous)
           /\ Becomes(r, "verify", req[r].ask, req[r].previous, Cached(r),
                      req[r].began, req[r].since)
           /\ req'[r].live => req[r].live
  <2>1. req[r].pc \in Working
    BY <1>1, Zenon DEF Working
  <2> QED
    BY <1>1, <1>2, <2>1, FreshGood, HitKeeps, Zenon
<1>3. CASE /\ Becomes(r, "acquire", req[r].ask, req[r].previous, None,
                      req[r].began, req[r].since)
           /\ req'[r].live => req[r].live
  BY <1>3, CalmInv, Zenon
<1> QED
  BY <1>1, <1>2, <1>3, LookupEffect, Zenon

LEMMA LookupLockedKeeps ==
  ASSUME StateOK, DInv, NEW r \in Request, LookupLocked(r)
  PROVE  DInv'
<1>1. DataOK /\ DataOK' /\ req[r].pc = "lock" /\ UNCHANGED <<now, served, cache, cacheMu>>
  BY DataLocks, Zenon DEF DInv, LookupLocked
<1>2. CASE /\ UsableLocked(Cached(r), req[r].previous)
           /\ Becomes(r, "unlock", req[r].ask, req[r].previous, Cached(r),
                      req[r].began, req[r].since)
           /\ req'[r].live => req[r].live
  <2>1. req[r].pc \in Working
    BY <1>1, Zenon DEF Working, Referring
  <2>2. CASE Usable(Cached(r), req[r].previous)
    BY <1>1, <1>2, <2>1, <2>2, FreshGood, HitKeeps, Zenon
  <2>3. CASE Throttled(Cached(r), req[r].previous)
    BY <1>1, <1>2, <2>1, <2>3, ThrottledGood, HitKeeps, Zenon
  <2> QED
    BY <1>2, <2>2, <2>3, Zenon DEF UsableLocked
<1>3. CASE ~UsableLocked(Cached(r), req[r].previous) /\ Continues(r, "fetch", now)
  BY <1>3, FetchBegins, Zenon
<1> QED
  BY <1>1, <1>2, <1>3, LookupLockedEffect, Zenon

\* The holders of a refresh lock for an endpoint.
LEMMA LockExcludes ==
  ASSUME IInv, NEW r \in Request, NEW q \in Request,
         req[r].pc \in Holding, req[q].pc \in Holding, Endp(r) = Endp(q)
  PROVE  r = q
<1>1. req[r].lock = req[q].lock
  BY Zenon DEF IInv, Shared, Referring
<1> QED
  BY <1>1, Zenon DEF IInv, Held

\* The fields of the entry that a refresh makes.
LEMMA NewEntryFields ==
  ASSUME NEW r \in Request
  PROVE  /\ NewEntry(r).keys = KeySet(served[Endp(r)])
         /\ NewEntry(r).forced = ForcedAt(r) /\ NewEntry(r).by[1] = r
         /\ NewEntry(r).asOf = now
  BY Zenon DEF NewEntry

\* The issuer's answer is recent, and has the keys of all tokens that it verifies.
LEMMA AnswerKeeps ==
  ASSUME IInv, DInv, NEW r \in Request, Answer(r)
  PROVE  DInv'
<1> USE DEF Working, Referring, Holding
<1>1. /\ StateOK /\ DataOK /\ HoldsOK(req[r], now) /\ req[r].pc = "fetch" /\ CacheShrinks
      /\ UNCHANGED <<now, served, cache, cacheMu>>
      /\ now \in Nat /\ req[r].since \in Nat /\ req[r].since <= now /\ req[r].began <= now
  BY JWKSAssumption DEF IInv, DInv, DataOK, HoldsOK, Answer, CacheShrinks
<1>2. CASE Continues(r, "unlock", 0)
  BY <1>1, <1>2, CalmInv, Zenon
<1>3. CASE /\ Acceptable(served[Endp(r)])
           /\ Becomes(r, "store", req[r].ask, req[r].previous, NewEntry(r),
                      req[r].began, req[r].since)
           /\ req'[r].live => req[r].live
  <2> DEFINE x == NewEntry(r)
  <2>1. /\ x.keys = KeySet(served[Endp(r)]) /\ x.forced = ForcedAt(r) /\ x.by[1] = r
        /\ x.asOf = now
    BY NewEntryFields, Zenon
  <2> HIDE DEF x
  <2>2. /\ req'[r].pc = "store" /\ req'[r].ask = req[r].ask /\ req'[r].since = req[r].since
        /\ req'[r].previous = req[r].previous /\ req'[r].began = req[r].began
        /\ req'[r].entry = x /\ Others(r)
        /\ req'[r].live => req[r].live
    BY <1>3, Zenon DEF Becomes, x
  <2>3. DataOK' /\ Bounded'
    BY <1>1, DataWalk, BoundedKept, Zenon DEF DInv
  <2>4. Prompt'
    BY <1>1, <2>1, <2>2 DEF DInv, Prompt, Others, ForcedAt
  <2>5. Needless'
    BY <1>1, <2>2 DEF DInv, Needless, Others, Cached, Endp
  <2>6. Recency'
    <3>1. req[r].since - now <= FetchTimeout
      BY <1>1, JWKSAssumption
    <3> QED
      BY <1>1, <2>1, <2>2, <3>1
         DEF DInv, Knowledge, Recency, Others, Seen, Last, Good, Recent, Cached, Endp, Returned
  <2>7. LiveVerifies'
    BY <1>1, <2>2, Zenon DEF DInv, Knowledge, LiveVerifies, Others, Live, Endp
  <2>8. \A q \in Request : Live(q) /\ Endp(q) = Endp(r) => Kid(q) \in DOMAIN x.keys
    BY <2>1, Zenon DEF DInv, Knowledge, LiveVerifies, VerifiesUnder, Kid
  <2>9. Live(r)' => Live(r) /\ Kid(r) \in DOMAIN x.keys
    BY <1>1, <2>2, <2>8, Zenon DEF Live
  <2>10. OwnKnows'
    BY <1>1, <2>2, <2>9 DEF DInv, Knowledge, OwnKnows, Others, Live, Cached, Endp, Kid
  <2>11. Pending'
    <3> SUFFICES ASSUME NEW q \in Request, NEW s \in Request, Live(q)', s # q,
                        req'[s].pc = "store", req'[s].ask.endpoint = req'[q].ask.endpoint
                 PROVE  \/ req'[q].ask.token.kid \in DOMAIN req'[s].entry.keys
                        \/ req'[s].previous # None
                        \/ req'[q].entry = None /\ req'[q].previous = None
      BY Zenon DEF Pending, Endp, Kid
    <3>1. Live(q) /\ Endp(s) = Endp(q)
      BY <1>1, <2>2, Zenon DEF Others, Live, Endp
    <3>2. CASE s = r
      <4>1. Kid(q) \in DOMAIN x.keys /\ req'[q] = req[q]
        BY <2>2, <2>8, <3>1, <3>2, Zenon DEF Others
      <4> QED
        BY <2>2, <3>2, <4>1, Zenon DEF Kid
    <3>3. CASE s # r /\ q = r
      BY <1>1, <2>2, <3>1, <3>3, LockExcludes, Zenon DEF Others
    <3>4. CASE s # r /\ q # r
      BY <2>2, <3>1, <3>4 DEF DInv, Knowledge, Pending, Others, Kid
    <3> QED
      BY <3>2, <3>3, <3>4, Zenon
  <2>12. Rotation'
    <3> SUFFICES ASSUME NEW q \in Request, Live(q)'
                 PROVE  (/\ Seen(q) /\ Cached(q) # None =>
                               Cached(q) = Last(q) \/ Excused(q, Cached(q))
                         /\ req[q].pc \in Returned \cup {"store"}
                               /\ req[q].previous # None /\ req[q].entry # None
                               => Excused(q, req[q].entry))'
      BY Zenon DEF Rotation
    <3>1. Live(q)
      BY <1>1, <2>2, Zenon DEF Live, Others
    <3>2. /\ Seen(q) /\ Cached(q) # None => Cached(q) = Last(q) \/ Excused(q, Cached(q))
          /\ req[q].pc \in Returned \cup {"store"}
                /\ req[q].previous # None /\ req[q].entry # None
                => Excused(q, req[q].entry)
      BY <3>1, Zenon DEF DInv, Knowledge, Rotation
    <3>3. CASE q = r
      <4>1. Excused(r, req[r].entry)'
        BY <2>2, <2>9, <3>3, Zenon DEF Excused, Kid
      <4>2. (Seen(r)' => req[r].previous # None) /\ Cached(r)' = Cached(r)
        BY <1>1, <2>2, Zenon DEF Seen, Returned, Cached, Endp
      <4>3. req[r].previous # None => Seen(r) /\ Last(r)' = Last(r)
        BY <2>2, Zenon DEF Seen, Last
      <4>4. Excused(r, Cached(r))' <=> Excused(r, Cached(r))
        BY <1>1, <2>2, Zenon DEF Excused, Cached, Endp, Kid
      <4> QED
        BY <3>2, <3>3, <4>1, <4>2, <4>3, <4>4, Zenon
    <3>4. CASE q # r
      <4>1. req'[q] = req[q] /\ cache' = cache
        BY <1>1, <2>2, <3>4, Zenon DEF Others
      <4> QED
        BY <3>2, <4>1, Zenon DEF Seen, Last, Excused, Cached, Endp, Kid
    <3> QED
      BY <3>3, <3>4, Zenon
  <2> QED
    BY <2>3, <2>4, <2>5, <2>6, <2>7, <2>10, <2>11, <2>12, Zenon DEF DInv, Knowledge
<1> QED
  BY <1>1, <1>2, <1>3, AnswerEffect, Zenon

\* What is stored is recent; for those who know the cache already it is no worse than
\* what they know, unless another request has forced the refresh.
LEMMA StoreKeeps ==
  ASSUME IInv, DInv, NEW r \in Request, StoreEntry(r)
  PROVE  DInv'
<1> USE DEF Working, Referring, Holding
<1> DEFINE e == Endp(r)
           x == req[r].entry
<1>1. /\ StateOK /\ DataOK /\ HoldsOK(req[r], now) /\ req[r].pc = "store"
      /\ UNCHANGED <<now, served>> /\ now \in Nat /\ FetchTimeout \in Nat
      /\ e \in Endpoint /\ x \in Entry /\ x # None
      /\ cache' = [cache EXCEPT ![e] = x]
  BY JWKSAssumption DEF IInv, StateOK, RequestOK, DInv, DataOK, HoldsOK, StoreEntry, Endp
<1>2. /\ req'[r].pc = "evict" /\ req'[r].ask = req[r].ask /\ req'[r].since = req[r].since
      /\ req'[r].previous = req[r].previous /\ req'[r].entry = x /\ Others(r)
      /\ req'[r].live => req[r].live
  BY <1>1, StoreEffect, Zenon DEF Continues, Becomes
<1>3. /\ cache'[e] = x
      /\ \A f \in Endpoint \ {e} : cache'[f] = cache[f]
  BY <1>1, Zenon DEF DataOK
<1>4. DataOK' /\ Bounded'
  BY <1>1, DataStores, StoreBounded, Zenon DEF DInv
<1>5. /\ x.by[1] = r /\ x.asOf >= req[r].began /\ x.forced = ForcedAt(r)
      /\ now - req[r].began <= FetchTimeout
      /\ req[r].began \in Nat /\ x.asOf \in Nat
  BY <1>1, JWKSAssumption DEF DInv, Prompt, HoldsOK, Entry
<1>6. \A q \in Request : req[q].since \in Nat /\ req[q].since <= now
  BY <1>1 DEF DataOK, HoldsOK
<1>7. \A q \in Request : req'[q].pc \in Working =>
         /\ Endp(q) \in Endpoint /\ req'[q].ask = req[q].ask /\ req[q].pc \in Working
         /\ req'[q].since = req[q].since /\ req'[q].previous = req[q].previous
         /\ req'[q].entry = req[q].entry
         /\ req'[q].live => req[q].live
  BY <1>1, <1>2, Zenon DEF Others, StateOK, RequestOK, Endp
<1> HIDE DEF e, x
<1>8. Prompt'
  BY <1>1, <1>2 DEF DInv, Prompt, Others, ForcedAt
<1>9. Needless'
  <2> SUFFICES ASSUME NEW q \in Request, req'[q].pc \in {"fetch", "store"},
                      cache'[req'[q].ask.endpoint] # None
               PROVE  LET c == cache'[req'[q].ask.endpoint] IN
                      /\ \/ req'[q].began >= c.expiresAt
                         \/ req'[q].previous # None /\ c = req'[q].previous
                      /\ req'[q].previous # None => req'[q].began - c.forced >= RefreshDelay
    BY Zenon DEF Needless, Cached, Endp
  <2>1. q # r /\ req'[q] = req[q] /\ Endp(q) \in Endpoint
    BY <1>2, <1>7, Zenon DEF Others
  <2>2. Endp(q) # e
    BY <1>1, <2>1, LockExcludes, Zenon DEF e
  <2>3. cache'[req'[q].ask.endpoint] = Cached(q)
    BY <1>3, <2>1, <2>2, Zenon DEF Cached, Endp
  <2> QED
    BY <2>1, <2>3, Zenon DEF DInv, Needless
<1>10. LiveVerifies'
  BY <1>1, <1>7, Zenon DEF DInv, Knowledge, LiveVerifies, Live, Endp
<1>11. \A q \in Request : req'[q].pc \in Working =>
          cache'[Endp(q)] = IF Endp(q) = e THEN x ELSE Cached(q)
  BY <1>3, <1>7, Zenon DEF Cached
<1>12. \A q \in Request : Recent(q, x)
  BY <1>1, <1>5, <1>6 DEF Recent
<1>13. Recency'
  <2> SUFFICES ASSUME NEW q \in Request, req'[q].pc \in Working
               PROVE  (/\ req[q].entry # None => Good(q, req[q].entry)
                       /\ req[q].previous # None => Good(q, req[q].previous)
                       /\ Seen(q) /\ Cached(q) # None =>
                             Cached(q) = Last(q) \/ Recent(q, Cached(q)))'
    BY Zenon DEF Recency
  <2>1. /\ req[q].entry # None => Good(q, req[q].entry)
        /\ req[q].previous # None => Good(q, req[q].previous)
        /\ Seen(q) /\ Cached(q) # None => Cached(q) = Last(q) \/ Recent(q, Cached(q))
    BY <1>7, Zenon DEF DInv, Knowledge, Recency
  <2>2. (/\ req[q].entry # None => Good(q, req[q].entry)
         /\ req[q].previous # None => Good(q, req[q].previous))'
    BY <1>7, <2>1, Zenon DEF Good, Recent
  <2>3. Last(q)' = Last(q) /\ Cached(q)' = IF Endp(q) = e THEN x ELSE Cached(q)
    BY <1>7, <1>11, Zenon DEF Last, Cached, Endp
  <2>4. CASE Endp(q) = e
    <3>1. Recent(q, Cached(q))'
      BY <1>7, <1>12, <2>3, <2>4, Zenon DEF Recent
    <3> QED
      BY <2>2, <3>1, Zenon
  <2>5. CASE Endp(q) # e
    <3>1. req'[q] = req[q]
      BY <1>2, <2>5, Zenon DEF Others, e
    <3>2. (Seen(q)' <=> Seen(q)) /\ (Recent(q, Cached(q))' <=> Recent(q, Cached(q)))
      BY <2>3, <2>5, <3>1, Zenon DEF Seen, Recent
    <3> QED
      BY <2>1, <2>2, <2>3, <2>5, <3>2, Zenon
  <2> QED
    BY <2>4, <2>5, Zenon
<1>14. OwnKnows'
  <2>1. ASSUME NEW q \in Request, req'[q].pc \in Working, req'[q].live
        PROVE  \A y \in {cache'[req'[q].ask.endpoint], req'[q].entry, req'[q].previous} :
                  y # None /\ y.by[1] = q => req'[q].ask.token.kid \in DOMAIN y.keys
    <3>1. \A y \in {Cached(q), req[q].entry, req[q].previous} :
             y # None /\ y.by[1] = q => Kid(q) \in DOMAIN y.keys
      BY <1>7, <2>1, Zenon DEF DInv, Knowledge, OwnKnows, Live
    <3>2. cache'[req'[q].ask.endpoint] \in {x, Cached(q)} /\ (q = r => x = req[q].entry)
      BY <1>7, <1>11, <2>1, Zenon DEF Endp, x
    <3> QED
      BY <1>5, <1>7, <2>1, <3>1, <3>2 DEF Kid
  <2>2. ASSUME NEW q \in Request, req'[q].pc = "idle", NEW f \in Endpoint, cache'[f] # None
        PROVE  cache'[f].by[1] # q
    <3>1. q # r /\ req[q].pc = "idle"
      BY <1>2, <2>2, Zenon DEF Others
    <3> QED
      BY <1>3, <1>5, <2>2, <3>1, Zenon DEF DInv, Knowledge, OwnKnows
  <2> QED
    BY <2>1, <2>2, Zenon DEF OwnKnows, Live, Cached, Kid, Endp
<1>15. Pending'
  <2> SUFFICES ASSUME NEW q \in Request, NEW s \in Request, Live(q)', s # q,
                      req'[s].pc = "store", (Endp(s) = Endp(q))'
               PROVE  (\/ Kid(q) \in DOMAIN req[s].entry.keys
                       \/ req[s].previous # None
                       \/ req[q].entry = None /\ req[q].previous = None)'
    BY Zenon DEF Pending
  <2>1. s # r /\ req'[s] = req[s] /\ Live(q) /\ req'[q].ask = req[q].ask
        /\ req'[q].entry = req[q].entry /\ req'[q].previous = req[q].previous
    BY <1>2, <1>7, Zenon DEF Others, Live
  <2> QED
    BY <2>1, Zenon DEF DInv, Knowledge, Pending, Kid, Endp
<1>16. Rotation'
  <2> SUFFICES ASSUME NEW q \in Request, Live(q)'
               PROVE  (/\ Seen(q) /\ Cached(q) # None =>
                             Cached(q) = Last(q) \/ Excused(q, Cached(q))
                       /\ req[q].pc \in Returned \cup {"store"}
                             /\ req[q].previous # None /\ req[q].entry # None
                             => Excused(q, req[q].entry))'
    BY Zenon DEF Rotation
  <2>1. Live(q) /\ req'[q].pc \in Working
    BY <1>7, Zenon DEF Live
  <2>2. /\ Seen(q) /\ Cached(q) # None => Cached(q) = Last(q) \/ Excused(q, Cached(q))
        /\ req[q].pc \in Returned \cup {"store"}
              /\ req[q].previous # None /\ req[q].entry # None
              => Excused(q, req[q].entry)
    BY <2>1, Zenon DEF DInv, Knowledge, Rotation
  <2>3. Last(q)' = Last(q) /\ Cached(q)' = IF Endp(q) = e THEN x ELSE Cached(q)
    BY <1>7, <1>11, <2>1, Zenon DEF Last, Cached, Endp
  <2>4. \A y : Excused(q, y) =>
           \/ req'[q].ask.token.kid \in DOMAIN y.keys
           \/ /\ y.by[1] # q
              /\ \/ req'[q].since - y.forced < RefreshDelay
                 \/ req'[q].since - y.forced <= FetchTimeout
    BY <1>7, <2>1, Zenon DEF Excused, Kid
  <2>5. req[q].pc \in Returned \cup {"store"}
           /\ req[q].previous # None /\ req[q].entry # None
           => Excused(q, req[q].entry)'
    BY <1>7, <2>1, <2>2, <2>4, Zenon DEF Excused, Kid
  <2>6. CASE q = r
    <3>1. req[q].pc \in Returned \cup {"store"} /\ req'[q].previous = req[q].previous
          /\ req'[q].entry = x /\ x # None /\ req[q].entry = x /\ Endp(q) = e
      BY <1>1, <1>2, <2>6, Zenon DEF x, e
    <3>2. CASE req[q].previous = None
      <4>1. Cached(q)' = Last(q)'
        BY <2>3, <3>1, <3>2, Zenon DEF Last
      <4> QED
        BY <3>1, <3>2, <4>1, Zenon
    <3>3. CASE req[q].previous # None
      <4>1. Excused(q, req[q].entry)' /\ Cached(q)' = req'[q].entry
        BY <2>3, <2>5, <3>1, <3>3, Zenon
      <4>2. Excused(q, Cached(q))'
        BY <4>1, Zenon DEF Excused
      <4> QED
        BY <4>1, <4>2, Zenon
    <3> QED
      BY <3>2, <3>3, Zenon
  <2>7. CASE q # r
    <3>1. req'[q] = req[q] /\ (Seen(q)' <=> Seen(q))
      BY <1>2, <2>7, Zenon DEF Others, Seen
    <3>2. CASE Endp(q) = e
      <4>1. Seen(q) => Kid(q) \in DOMAIN x.keys \/ req[r].previous # None
        BY <1>1, <2>1, <2>7, <3>2, Zenon DEF DInv, Knowledge, Pending, Seen, e, x
      <4>2. req[r].previous # None => x.forced = req[r].began
        BY <1>5, Zenon DEF ForcedAt
      <4>3. req[r].previous # None => req[q].since - x.forced <= FetchTimeout
        BY <1>1, <1>5, <1>6, <4>2
      <4>4. Seen(q) => Excused(q, x)
        BY <1>5, <2>7, <4>1, <4>3, Zenon DEF Excused
      <4>5. Seen(q) => Excused(q, Cached(q))'
        BY <2>3, <2>4, <3>2, <4>4, Zenon DEF Excused, Kid
      <4> QED
        BY <2>5, <3>1, <4>5, Zenon
    <3>3. CASE Endp(q) # e
      <4>1. Cached(q)' = Cached(q) /\ (Excused(q, Cached(q)) => Excused(q, Cached(q))')
        BY <2>3, <2>4, <3>3, Zenon DEF Excused, Kid
      <4> QED
        BY <2>2, <2>3, <2>5, <3>1, <4>1, Zenon
    <3> QED
      BY <3>2, <3>3, Zenon
  <2> QED
    BY <2>6, <2>7, Zenon
<1> QED
  BY <1>4, <1>8, <1>9, <1>10, <1>13, <1>14, <1>15, <1>16, Zenon DEF DInv, Knowledge

-----------------------------------------------------------------------------
LEMMA InitData == Init => DInv
<1> SUFFICES ASSUME Init PROVE DInv
  BY Zenon
<1>0. \A r \in Request : req[r] = Idle
  BY Zenon DEF Init
<1>1. /\ Idle.pc = "idle" /\ Idle.entry = None /\ Idle.previous = None
      /\ Fields \subseteq DOMAIN Idle /\ Idle.began = 0 /\ Idle.since = 0
      /\ "idle" \notin Working
  BY Zenon DEF Idle, Fields, Working, Referring, Holding
<1>2. HoldsOK(Idle, 0)
  BY <1>1 DEF HoldsOK
<1>3. DataOK
  BY <1>0, <1>1, <1>2, JWKSAssumption DEF Init, DataOK
<1>4. InUse = {}
  BY Zenon DEF Init, InUse
<1>5. IsFiniteSet({}) /\ Cardinality({}) = 0
  BY FS_EmptySet, Zenon
<1>6. Bounded
  <2>1. cacheMu = None /\ MaxEntries \in Nat /\ 0 <= MaxEntries + 0
    BY JWKSAssumption DEF Init
  <2> QED
    BY <1>4, <1>5, <2>1, Zenon DEF Bounded, CacheBounded, InUse
<1>7. Prompt /\ Needless /\ Recency /\ LiveVerifies /\ Pending /\ Rotation
  BY <1>0, <1>1, Zenon DEF Prompt, Needless, Recency, LiveVerifies, Pending, Rotation, Live
<1>8. OwnKnows
  BY <1>0, <1>1, Zenon DEF Init, OwnKnows, Live
<1> QED
  BY <1>3, <1>6, <1>7, <1>8, Zenon DEF DInv, Knowledge

LEMMA StepData == IInv /\ DInv /\ [Next]_vars => DInv'
<1> SUFFICES ASSUME IInv, DInv, [Next]_vars PROVE DInv'
  BY Zenon
<1>0. StateOK
  BY Zenon DEF IInv
<1>1. CASE \E r \in Request : Arrive(r) \/ Validation(r)
  BY <1>0, <1>1, ArriveKeeps, LookupKeeps, LookupLockedKeeps, AnswerKeeps, StoreKeeps, EvictKeeps,
     ForceKeeps, CalmInv, Zenon
     DEF Validation
<1>2. CASE \E e \in Endpoint, doc \in Document : Publish(e, doc)
  BY <1>0, <1>2, PublishKeeps, Zenon
<1>3. CASE Tick
  BY <1>0, <1>3, TickKeeps, Zenon
<1>4. CASE UNCHANGED vars
  <2>1. UNCHANGED <<now, served, changes, cache, cacheMu, req>> /\ CacheShrinks
    BY <1>4, Zenon DEF vars, CacheShrinks
  <2>2. \A q \in Request : Calm(req[q], req'[q]) /\ Refreshes(req[q], req'[q])
    BY <2>1, Zenon DEF Calm, Refreshes
  <2>3. DataOK' /\ Bounded'
    BY <2>1, BoundedKept, Zenon DEF DInv, DataOK
  <2>4. Prompt' /\ Needless' /\ Knowledge'
    BY <1>0, <2>1, <2>2, PromptKept, NeedlessKept, KnowledgeKept, Zenon DEF DInv
  <2> QED
    BY <2>3, <2>4, Zenon DEF DInv
<1> QED
  BY <1>1, <1>2, <1>3, <1>4, Zenon DEF Next

LEMMA AlwaysBoth == Spec => [](IInv /\ DInv)
<1>1. Init => IInv /\ DInv
  BY InitInv, InitData, Zenon
<1>2. (IInv /\ DInv) /\ [Next]_vars => (IInv /\ DInv)'
  BY StepInv, StepData, Zenon
<1> QED
  BY <1>1, <1>2, PTL DEF Spec

LEMMA TypesFollow == IInv /\ DInv => TypeOK
<1> SUFFICES ASSUME IInv, DInv PROVE TypeOK
  BY Zenon
<1>1. lock \in [Request -> [refs : 0..Cardinality(Request), holder : Request \cup {None}]]
  <2>1. \A l \in Request : lock[l].refs = Cardinality(Users(l)) /\ Users(l) \subseteq Request
    BY Zenon DEF IInv, Counted, Users
  <2>2. \A l \in Request : Cardinality(Users(l)) <= Cardinality(Request)
    BY <2>1, JWKSAssumption, FS_Subset, Zenon
  <2>3. Cardinality(Request) \in Nat
    BY JWKSAssumption, FS_CardinalityType, Zenon
  <2>4. \A l \in Request : lock[l].refs \in 0..Cardinality(Request)
    BY <2>1, <2>2, <2>3 DEF IInv, StateOK
  <2> QED
    BY <2>4, Zenon DEF IInv, StateOK
<1>2. ASSUME NEW r \in Request
      PROVE  /\ req[r].pc \in {"idle", "lookup", "acquire", "lock", "fetch", "store",
                               "evict", "unlock", "release", "verify",
                               "accepted", "unauthorized", "unavailable"}
             /\ req[r].lock \in Request \cup {None}
             /\ req[r].entry \in Entry \cup {None}
             /\ req[r].previous \in Entry \cup {None}
             /\ req[r].pc \in {"store", "evict", "verify"} => req[r].entry # None
  <2>1. RequestOK(req[r]) /\ HoldsOK(req[r], now)
    BY Zenon DEF IInv, StateOK, DInv, DataOK
  <2> QED
    BY <2>1, Zenon DEF RequestOK, HoldsOK, Control, Working, Referring, Holding
<1> QED
  BY <1>1, <1>2, Zenon DEF TypeOK, DInv, DataOK, IInv, StateOK

LEMMA OnlyVerifyDecides ==
  ASSUME StateOK, DataOK, Next, NEW r \in Request, req[r].pc = "verify",
         req'[r].pc = "unauthorized"
  PROVE  Verify(r)
<1>1. ASSUME NEW q \in Request, Arrive(q) \/ Validation(q) PROVE Others(q)
  BY <1>1, ArriveEffect, LookupEffect, AcquireEffect, LookupLockedEffect, FetchFailsEffect,
     AnswerEffect, StoreEffect, EvictEffect, UnlockEffect, ReleaseEffect, VerifyEffect, Zenon
     DEF Validation, Continues, Becomes, Ends
<1>2. CASE \E q \in Request : Arrive(q) \/ Validation(q)
  <2>1. PICK q \in Request : Arrive(q) \/ Validation(q)
    BY <1>2, Zenon
  <2>2. q = r
    BY <1>1, <2>1, Zenon DEF Others
  <2> QED
    BY <2>1, <2>2, Zenon
       DEF Validation, Arrive, Lookup, AcquireLock, LookupLocked, FetchFails, Answer, StoreEntry,
           EvictEntries, Unlock, ReleaseLock
<1>3. CASE \E e \in Endpoint, doc \in Document : Publish(e, doc)
  BY <1>3, PublishEffect, Zenon
<1>4. CASE Tick
  BY <1>4, Zenon DEF Tick
<1> QED
  BY <1>2, <1>3, <1>4, Zenon DEF Next

\* The whole of OneRefreshPerEndpoint: for every set of requests and endpoints,
\* getJWKSEntry coalesces the refreshes of an endpoint, its lock table counts exactly
\* and storeJWKSCacheEntry keeps the cache within maxJWKSCacheEntries, one more only
\* while it holds jwksCacheMu.
THEOREM RefreshesCoalesced == Spec => []OneRefreshPerEndpoint
<1>1. IInv /\ DInv => TypeOK /\ CacheBounded
  BY TypesFollow, Zenon DEF DInv, Bounded
<1> QED
  BY <1>1, AlwaysBoth, RefreshesNeverMeet, LockTableStaysExact, PTL DEF OneRefreshPerEndpoint

\* getJWKSEntry fetches a key set only when the cache, looked at again under the
\* refresh lock, has none that would do, and never forces a refresh less than
\* minJWKSForcedRefreshDelay after the one that the cached entry notes.
THEOREM FetchesNeeded == Spec => []NoNeedlessFetch
<1>1. IInv /\ DInv => NoNeedlessFetch
  BY Zenon DEF DInv, Needless, NoNeedlessFetch, Cached
<1> QED
  BY <1>1, AlwaysBoth, PTL

\* validateJWT accepts a token only under a key set that had not expired when the
\* request arrived, or that the issuer sent at most the timeout of jwksClient before.
THEOREM AcceptedUnderFreshKeys == Spec => AcceptedKeysFresh
<1>1. ASSUME IInv /\ DInv, NEW r \in Request, Decides(r, "accepted")
      PROVE  \/ req[r].since < req[r].entry.expiresAt
             \/ req[r].since - req[r].entry.asOf <= FetchTimeout
  <2>1. req[r].pc = "verify" /\ req[r].entry # None /\ req[r].pc \in Working
    BY <1>1, Zenon DEF Decides, DInv, DataOK, HoldsOK, Working
  <2> QED
    BY <1>1, <2>1, Zenon DEF DInv, Knowledge, Recency, Good, Recent
<1>2. IInv /\ DInv => [\A r \in Request : Decides(r, "accepted") =>
          \/ req[r].since < req[r].entry.expiresAt
          \/ req[r].since - req[r].entry.asOf <= FetchTimeout]_vars
  BY <1>1, Zenon
<1> QED
  BY <1>2, AlwaysBoth, PTL DEF AcceptedKeysFresh

\* A token that the issuer's document verified all along is refused with 401 only when
\* the cached key set has its kid with another key, or when another request's forced
\* refresh, less than minJWKSForcedRefreshDelay before the request arrived or under way
\* then, has missed the key.
THEOREM RotationAlwaysNoticed == Spec => RotationNoticed
<1>1. ASSUME IInv /\ DInv, Next, NEW r \in Request, Decides(r, "unauthorized"), req[r].live
      PROVE  \/ req[r].ask.token.kid \in DOMAIN req[r].entry.keys
             \/ /\ req[r].entry.by[1] # r
                /\ \/ req[r].since - req[r].entry.forced < RefreshDelay
                   \/ req[r].since - req[r].entry.forced <= FetchTimeout
  <2>1. /\ req[r].pc = "verify" /\ req'[r].pc = "unauthorized" /\ req[r].entry # None
        /\ Live(r) /\ StateOK /\ DataOK
    BY <1>1, Zenon DEF Decides, IInv, DInv, DataOK, HoldsOK, Working, Live
  <2>2. CASE req[r].previous # None
    BY <1>1, <2>1, <2>2, Zenon DEF DInv, Knowledge, Rotation, Returned, Excused, Kid
  <2>3. CASE req[r].previous = None
    <3>1. Verify(r)
      BY <1>1, <2>1, OnlyVerifyDecides, Zenon
    <3>2. ~RefreshForced(r)
      BY <2>1, <3>1 DEF Verify
    <3>3. VerifiesUnder(req[r].ask.token, served[Endp(r)])
      BY <1>1, <2>1, Zenon DEF DInv, Knowledge, LiveVerifies
    <3>4. req[r].ask.token.kid # None
      BY <3>3, Zenon DEF VerifiesUnder, KeySet, Parsed
    <3> QED
      BY <2>3, <3>2, <3>3, <3>4, Zenon DEF RefreshForced, VerifiesUnder
  <2> QED
    BY <2>2, <2>3, Zenon
<1>2. (IInv /\ DInv) /\ [Next]_vars => [\A r \in Request : Decides(r, "unauthorized") /\ req[r].live =>
          \/ req[r].ask.token.kid \in DOMAIN req[r].entry.keys
          \/ /\ req[r].entry.by[1] # r
             /\ \/ req[r].since - req[r].entry.forced < RefreshDelay
                \/ req[r].since - req[r].entry.forced <= FetchTimeout]_vars
  BY <1>1, Zenon
<1> QED
  BY <1>2, AlwaysBoth, PTL DEF RotationNoticed, Spec
=============================================================================
