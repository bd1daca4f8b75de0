------------------------ MODULE UpstreamPoolProofs ------------------------
(***************************************************************************)
(* Proofs about UpstreamPool for any number of requests and upstreams, any *)
(* threshold, cooldown and resolution of the clock (but see                *)
(* CooldownHonoured).                                                      *)
(***************************************************************************)
EXTENDS UpstreamPool, TLAPS

LEMMA DivMonotonic ==
  ASSUME NEW a \in Nat, NEW b \in Nat, NEW k \in Nat \ {0}, a <= b
  PROVE  a \div k <= b \div k
  BY Z3

LEMMA DivNat ==
  ASSUME NEW a \in Nat, NEW k \in Nat \ {0}
  PROVE  a \div k \in Nat
  BY Z3

LEMMA ModRange ==
  ASSUME NEW a \in Nat, NEW k \in Nat \ {0}
  PROVE  a % k \in 0..(k - 1)
  BY Z3

\* Whole seconds are natural numbers and grow with the clock.
LEMMA UnixNat ==
  ASSUME NEW t \in Nat
  PROVE  Unix(t) \in Nat
  BY PoolAssumption, DivNat, Zenon DEF Unix

LEMMA UnixMonotonic ==
  ASSUME NEW s \in Nat, NEW t \in Nat, s <= t
  PROVE  Unix(s) <= Unix(t)
  BY PoolAssumption, DivMonotonic, Zenon DEF Unix

\* The tick a trip is computed from lies in the past.
TripClockPast == \A r \in Request : pc[r] = "store" => now[r] <= clock

IInv == ProgramTypeOK /\ TripClockPast /\ LockoutBounded

LEMMA ZeroIsUpstream == 0 \in Upstream
  BY PoolAssumption DEF Upstream

LEMMA InitInv == Init => IInv
<1> SUFFICES ASSUME Init PROVE IInv
  BY Zenon
<1>1. ProgramTypeOK
  BY PoolAssumption, ZeroIsUpstream DEF Init, ProgramTypeOK, Control, Selecting
<1>2. TripClockPast
  BY Zenon DEF Init, TripClockPast
<1>3. LockoutBounded
  BY PoolAssumption, UnixNat DEF Init, LockoutBounded
<1> QED
  BY <1>1, <1>2, <1>3, Zenon DEF IInv

-----------------------------------------------------------------------------
\* What a request finishing does to its locals.
LEMMA FinishTypes ==
  ASSUME ProgramTypeOK, NEW r \in Request, Finish(r)
  PROVE  /\ pc' \in [Request -> Control] /\ now' \in [Request -> Nat]
         /\ tries' \in [Request -> 0..N] /\ up' \in [Request -> Upstream]
  BY PoolAssumption, ZeroIsUpstream DEF ProgramTypeOK, Finish, Goto, Control

LEMMA TypeStep ==
  ASSUME ProgramTypeOK, [Next]_vars
  PROVE  ProgramTypeOK'
<1> USE PoolAssumption
<1>1. ASSUME Tick PROVE ProgramTypeOK'
  BY <1>1 DEF ProgramTypeOK, Tick, local
<1>2. ASSUME NEW u \in Upstream, ServerChange(u) PROVE ProgramTypeOK'
  BY <1>2, Zenon DEF ProgramTypeOK, ServerChange, local
<1>3. ASSUME NEW u \in Upstream, CheckUpstream(u) PROVE ProgramTypeOK'
  BY <1>3, Zenon DEF ProgramTypeOK, CheckUpstream, local
<1>4. ASSUME NEW u \in Upstream, ApplyCheck(u) PROVE ProgramTypeOK'
  BY <1>4, Zenon DEF ProgramTypeOK, ApplyCheck, HealthAfter, local
<1>5. ASSUME NEW r \in Request, SelectStart(r) PROVE ProgramTypeOK'
  <2>1. Unix(clock) \in Nat
    BY UnixNat, Zenon DEF ProgramTypeOK
  <2> QED
    BY <1>5, <2>1, Zenon DEF ProgramTypeOK, SelectStart, Goto, Control, Selecting, pool
<1>6. ASSUME NEW r \in Request, Pick(r) PROVE ProgramTypeOK'
  <2>1. CASE tries[r] = Attempts
    BY <1>6, <2>1, Zenon DEF ProgramTypeOK, Pick, Goto, Control
  <2>2. CASE tries[r] # Attempts
    <3>1. NextIndex(counter) \in Upstream
      <4>1. counter + 1 \in Nat
        BY DEF ProgramTypeOK, Upstream
      <4> QED
        BY <4>1, ModRange, Zenon DEF NextIndex, Upstream
    <3>2. tries[r] + 1 \in 0..N
      BY <2>2 DEF ProgramTypeOK, Attempts
    <3> QED
      BY <1>6, <2>2, <3>1, <3>2 DEF ProgramTypeOK, Pick, Goto, Control, Selecting
  <2> QED
    BY <2>1, <2>2, Zenon
<1>7. ASSUME NEW r \in Request, LoadDeadUntil(r) PROVE ProgramTypeOK'
  <2>1. AfterLoad(deadUntil[up[r]], now[r]) \in Control
    BY Zenon DEF AfterLoad, Control, Selecting
  <2>2. pc' \in [Request -> Control]
    BY <1>7, <2>1, Zenon DEF ProgramTypeOK, LoadDeadUntil, Goto
  <2>3. loaded' \in [Request -> Nat]
    BY <1>7, Zenon DEF ProgramTypeOK, LoadDeadUntil
  <2> QED
    BY <1>7, <2>2, <2>3, Zenon DEF ProgramTypeOK, LoadDeadUntil, pool
<1>8. ASSUME NEW r \in Request, ClearDeadUntil(r) PROVE ProgramTypeOK'
  BY <1>8, Zenon DEF ProgramTypeOK, ClearDeadUntil, Goto, Control, Selecting
<1>9. ASSUME NEW r \in Request, LoadIsHealthy(r) PROVE ProgramTypeOK'
  BY <1>9, Zenon DEF ProgramTypeOK, LoadIsHealthy, Goto, Control, Selecting, pool
<1>10. ASSUME NEW r \in Request, ServiceUnavailable(r) \/ ClientCancelled(r) PROVE ProgramTypeOK'
  BY <1>10, FinishTypes, Zenon DEF ProgramTypeOK, ServiceUnavailable, ClientCancelled, pool
<1>11. ASSUME NEW r \in Request, ResponseSuccess(r) PROVE ProgramTypeOK'
  BY <1>11, FinishTypes DEF ProgramTypeOK, ResponseSuccess
<1>12. ASSUME NEW r \in Request, ResponseFailure(r) PROVE ProgramTypeOK'
  BY <1>12, Zenon DEF ProgramTypeOK, ResponseFailure, Goto, Control, pool
<1>13. ASSUME NEW r \in Request, RecordFailure(r) PROVE ProgramTypeOK'
  <2>1. consecutiveFailures' \in [Upstream -> 0..Threshold]
    BY <1>13 DEF ProgramTypeOK, RecordFailure
  <2>2. /\ pc' \in [Request -> Control] /\ now' \in [Request -> Nat]
        /\ tries' \in [Request -> 0..N] /\ up' \in [Request -> Upstream]
    BY <1>13, FinishTypes, Zenon DEF ProgramTypeOK, RecordFailure, Goto, Control
  <2> QED
    BY <1>13, <2>1, <2>2, Zenon DEF ProgramTypeOK, RecordFailure
<1>14. ASSUME NEW r \in Request, TripClock(r) PROVE ProgramTypeOK'
  BY <1>14, Zenon DEF ProgramTypeOK, TripClock, Goto, Control, pool
<1>15. ASSUME NEW r \in Request, TripBreaker(r) PROVE ProgramTypeOK'
  <2>1. CooldownEnd(now[r]) \in Nat
    BY UnixNat DEF ProgramTypeOK, CooldownEnd
  <2>2. deadUntil' \in [Upstream -> Nat]
    BY <1>15, <2>1, Zenon DEF ProgramTypeOK, TripBreaker
  <2> QED
    BY <1>15, <2>2, FinishTypes, Zenon DEF ProgramTypeOK, TripBreaker
<1>16. ASSUME UNCHANGED vars PROVE ProgramTypeOK'
  BY <1>16, Zenon DEF ProgramTypeOK, vars, pool, local
<1> QED
  BY <1>1, <1>2, <1>3, <1>4, <1>5, <1>6, <1>7, <1>8, <1>9, <1>10, <1>11, <1>12, <1>13, <1>14,
     <1>15, <1>16, Zenon
     DEF Next, RequestStep

-----------------------------------------------------------------------------
\* Only TripClock brings a request to its store, and time does not run back.
LEMMA TripClockPastStep ==
  ASSUME ProgramTypeOK, TripClockPast, [Next]_vars
  PROVE  TripClockPast'
<1>1. ASSUME clock' \in {clock, clock + 1},
             \A q \in Request : pc'[q] = "store" => pc[q] = "store" /\ now'[q] = now[q]
      PROVE  TripClockPast'
  BY <1>1 DEF ProgramTypeOK, TripClockPast
<1>2. ASSUME Tick \/ \E u \in Upstream : ServerChange(u) \/ CheckUpstream(u) \/ ApplyCheck(u)
      PROVE  TripClockPast'
  BY <1>2, <1>1, Zenon DEF Tick, ServerChange, CheckUpstream, ApplyCheck, local
<1>3. ASSUME NEW r \in Request,
             SelectStart(r) \/ Pick(r) \/ LoadDeadUntil(r) \/ ClearDeadUntil(r) \/ LoadIsHealthy(r)
      PROVE  TripClockPast'
  <2>1. clock' = clock /\ \A q \in Request : pc'[q] = "store" => pc[q] = "store" /\ now'[q] = now[q]
    BY <1>3, Zenon
       DEF ProgramTypeOK, SelectStart, Pick, LoadDeadUntil, ClearDeadUntil, LoadIsHealthy, Goto,
           AfterLoad, pool
  <2> QED
    BY <2>1, <1>1, Zenon
<1>4. ASSUME NEW r \in Request,
             \/ ServiceUnavailable(r) \/ ResponseSuccess(r) \/ ResponseFailure(r)
             \/ ClientCancelled(r) \/ RecordFailure(r) \/ TripBreaker(r)
      PROVE  TripClockPast'
  <2>1. clock' = clock /\ \A q \in Request : pc'[q] = "store" => pc[q] = "store" /\ now'[q] = now[q]
    BY <1>4
       DEF ProgramTypeOK, ServiceUnavailable, ResponseSuccess, ResponseFailure, ClientCancelled,
           RecordFailure, TripBreaker, Finish, Goto, pool
  <2> QED
    BY <2>1, <1>1, Zenon
<1>5. ASSUME NEW r \in Request, TripClock(r) PROVE TripClockPast'
  BY <1>5 DEF ProgramTypeOK, TripClockPast, TripClock, Goto, pool
<1>6. ASSUME UNCHANGED vars PROVE TripClockPast'
  BY <1>6, Zenon DEF TripClockPast, vars, pool, local
<1> QED
  BY <1>2, <1>3, <1>4, <1>5, <1>6, Zenon DEF Next, RequestStep

\* deadUntil changes only by ClearDeadUntil, to 0, and by TripBreaker, to the
\* end of a cooldown that began no later than now.
LEMMA LockoutStep ==
  ASSUME IInv, [Next]_vars
  PROVE  LockoutBounded'
<1> USE PoolAssumption
<1>1. ASSUME clock' = clock, deadUntil' = deadUntil PROVE LockoutBounded'
  BY <1>1, Zenon DEF IInv, LockoutBounded
<1>2. ASSUME Tick PROVE LockoutBounded'
  <2>1. Unix(clock + Cooldown) <= Unix(clock' + Cooldown)
    BY <1>2, UnixMonotonic DEF IInv, ProgramTypeOK, Tick
  <2>2. Unix(clock + Cooldown) \in Nat /\ Unix(clock' + Cooldown) \in Nat
    BY <1>2, UnixNat DEF IInv, ProgramTypeOK, Tick
  <2>3. \A u \in Upstream : deadUntil'[u] \in Nat /\ deadUntil'[u] <= Unix(clock + Cooldown)
    BY <1>2, Zenon DEF IInv, ProgramTypeOK, LockoutBounded, Tick
  <2> QED
    BY <2>1, <2>2, <2>3 DEF LockoutBounded
<1>3. ASSUME NEW r \in Request, ClearDeadUntil(r) PROVE LockoutBounded'
  <2>1. Unix(clock + Cooldown) \in Nat
    BY UnixNat DEF IInv, ProgramTypeOK
  <2> QED
    BY <1>3, <2>1 DEF IInv, ProgramTypeOK, LockoutBounded, ClearDeadUntil
<1>4. ASSUME NEW r \in Request, TripBreaker(r) PROVE LockoutBounded'
  <2>1. CooldownEnd(now[r]) <= Unix(clock + Cooldown)
    BY <1>4, UnixMonotonic DEF IInv, ProgramTypeOK, TripClockPast, TripBreaker, CooldownEnd
  <2> QED
    BY <1>4, <2>1, Zenon DEF IInv, ProgramTypeOK, LockoutBounded, TripBreaker
<1>5. ASSUME NEW u \in Upstream, ServerChange(u) \/ CheckUpstream(u) \/ ApplyCheck(u)
      PROVE  LockoutBounded'
  BY <1>5, <1>1, Zenon DEF ServerChange, CheckUpstream, ApplyCheck
<1>6. ASSUME NEW r \in Request,
             \/ SelectStart(r) \/ Pick(r) \/ LoadDeadUntil(r) \/ LoadIsHealthy(r)
             \/ ServiceUnavailable(r) \/ ResponseSuccess(r) \/ ResponseFailure(r)
             \/ ClientCancelled(r) \/ RecordFailure(r) \/ TripClock(r)
      PROVE  LockoutBounded'
  <2>1. clock' = clock /\ deadUntil' = deadUntil
    BY <1>6, Zenon
       DEF SelectStart, Pick, LoadDeadUntil, LoadIsHealthy, ServiceUnavailable, ResponseSuccess,
           ResponseFailure, ClientCancelled, RecordFailure, TripClock, pool
  <2> QED
    BY <2>1, <1>1, Zenon
<1>7. ASSUME UNCHANGED vars PROVE LockoutBounded'
  BY <1>7, <1>1, Zenon DEF vars, pool
<1> QED
  BY <1>2, <1>3, <1>4, <1>5, <1>6, <1>7, Zenon DEF Next, RequestStep

-----------------------------------------------------------------------------
LEMMA StepInv == IInv /\ [Next]_vars => IInv'
  BY TypeStep, TripClockPastStep, LockoutStep, Zenon DEF IInv

LEMMA Invariance == Spec => []IInv
  BY InitInv, StepInv, PTL DEF Spec

\* Type correctness of the pool: in particular the index selectUpstream
\* computes is always that of an upstream, and it makes at most N attempts.
THEOREM TypeCorrect == Spec => []ProgramTypeOK
<1>1. IInv => ProgramTypeOK
  BY Zenon DEF IInv
<1> QED
  BY <1>1, Invariance, PTL

\* However trips and clears race, recordUpstreamFailure never locks an upstream
\* out for longer than one cooldown from now.
THEOREM LockoutNeverExceedsCooldown == Spec => []LockoutBounded
<1>1. IInv => LockoutBounded
  BY Zenon DEF IInv
<1> QED
  BY <1>1, Invariance, PTL

-----------------------------------------------------------------------------
(***************************************************************************)
(* The cooldown.  With a clock of whole seconds, a trip that nothing has   *)
(* overwritten is still in deadUntil for as long as it is cooling.         *)
(***************************************************************************)
TripKept == \A u \in Upstream : Cooling(u) /\ ~shortened[u] => coolUntil[u] <= deadUntil[u]

\* A selection goes by a clock of the past, clears what had expired by it, and
\* got hold of an upstream in its cooldown only after a racing store.
SelectionCool(r) ==
  /\ pc[r] \in Selecting => now[r] <= clock
  /\ pc[r] = "clear" => loaded[r] <= now[r]
  /\ pc[r] \in {"clear", "health", "proxy"} /\ up[r] \in cooling[r] => shortened[up[r]]

CoolInv ==
  /\ TicksPerSecond = 1
  /\ coolUntil \in [Upstream -> Nat]
  /\ shortened \in [Upstream -> BOOLEAN]
  /\ TripKept
  /\ \A r \in Request : SelectionCool(r)

LEMMA UnixWhole ==
  ASSUME TicksPerSecond = 1, NEW t \in Nat
  PROVE  Unix(t) = t
<1>1. \A n \in Nat : n \div 1 = n
  BY Z3
<1> QED
  BY <1>1, Zenon DEF Unix

LEMMA InitCool == TicksPerSecond = 1 /\ Init => CoolInv
<1> SUFFICES ASSUME TicksPerSecond = 1, Init PROVE CoolInv
  BY Zenon
<1>1. coolUntil \in [Upstream -> Nat] /\ TripKept
  BY PoolAssumption DEF Init, TripKept, Cooling
<1>2. shortened \in [Upstream -> BOOLEAN]
  BY Zenon DEF Init
<1>3. \A r \in Request : SelectionCool(r)
  BY Zenon DEF Init, SelectionCool, Selecting
<1> QED
  BY <1>1, <1>2, <1>3, Zenon DEF CoolInv

\* The history of the cooldown, when no trip of u is stored ...
LEMMA CoolUntilQuiet ==
  ASSUME History, NEW u \in Upstream, coolUntil[u] \in Nat, clock' \in Nat,
         \A q \in Request : ~Leaves(q, "store", u)
  PROVE  coolUntil'[u] = IF clock' < coolUntil[u] THEN coolUntil[u] ELSE 0
<1> DEFINE end == CHOOSE e \in CooldownEnds(u) : \A f \in CooldownEnds(u) : f <= e
<1>1. coolUntil'[u] = IF clock' < end THEN end ELSE 0
  BY Zenon DEF History
<1>2. CooldownEnds(u) = {coolUntil[u]}
  BY Zenon DEF CooldownEnds
<1>3. end = coolUntil[u]
  <2>1. coolUntil[u] \in CooldownEnds(u) /\ \A f \in CooldownEnds(u) : f <= coolUntil[u]
    BY <1>2
  <2> QED
    BY <1>2, <2>1, Zenon
<1> HIDE DEF end
<1> QED
  BY <1>1, <1>3, Zenon

\* ... and when r stores one.
LEMMA CoolUntilTrip ==
  ASSUME History, IInv, NEW u \in Upstream, coolUntil[u] \in Nat, clock' \in Nat,
         NEW r \in Request, Leaves(r, "store", u),
         \A q \in Request \ {r} : ~Leaves(q, "store", u)
  PROVE  \/ coolUntil'[u] = coolUntil[u] /\ now[r] + Cooldown <= coolUntil[u] /\ clock' < coolUntil[u]
         \/ coolUntil'[u] = now[r] + Cooldown /\ coolUntil[u] <= now[r] + Cooldown
         \/ coolUntil'[u] = 0
<1> DEFINE end == CHOOSE e \in CooldownEnds(u) : \A f \in CooldownEnds(u) : f <= e
           t == now[r] + Cooldown
<1>0. t \in Nat
  BY PoolAssumption DEF IInv, ProgramTypeOK
<1>1. coolUntil'[u] = IF clock' < end THEN end ELSE 0
  BY Zenon DEF History
<1>2. CooldownEnds(u) = {t, coolUntil[u]}
  BY Zenon DEF CooldownEnds
<1> HIDE DEF t
<1>3. \E e \in CooldownEnds(u) : \A f \in CooldownEnds(u) : f <= e
  <2>1. CASE t <= coolUntil[u]
    BY <1>0, <1>2, <2>1
  <2>2. CASE coolUntil[u] <= t
    BY <1>0, <1>2, <2>2
  <2> QED
    BY <1>0, <2>1, <2>2
<1>4. end \in CooldownEnds(u) /\ \A f \in CooldownEnds(u) : f <= end
  BY <1>3, Zenon
<1> HIDE DEF end
<1>5. (end = t \/ end = coolUntil[u]) /\ t <= end /\ coolUntil[u] <= end
  BY <1>2, <1>4, Zenon
<1> QED
  BY <1>0, <1>1, <1>5, Zenon DEF t

\* What every step does to the rest of that history.
LEMMA CoolHistory ==
  ASSUME History
  PROVE  /\ shortened' \in [Upstream -> BOOLEAN]
         /\ \A u \in Upstream : shortened'[u] <=> Cooling(u)' /\ (shortened[u] \/ RacingStore(u))
         /\ \A r \in Request : pc'[r] \in Selecting \cup {"proxy"} /\ pc[r] # "idle" =>
               cooling'[r] = {u \in cooling[r] : Cooling(u)'}
<1>1. /\ shortened' \in [Upstream -> BOOLEAN]
      /\ \A u \in Upstream : shortened'[u] <=> Cooling(u)' /\ (shortened[u] \/ RacingStore(u))
  <2>1. shortened' = [u \in Upstream |-> Cooling(u)' /\ (shortened[u] \/ RacingStore(u))]
    BY Zenon DEF History
  <2> QED
    BY <2>1, Zenon
<1>2. ASSUME NEW r \in Request, pc'[r] \in Selecting \cup {"proxy"}, pc[r] # "idle"
      PROVE  cooling'[r] = {u \in cooling[r] : Cooling(u)'}
  <2>1. cooling'[r] = CASE pc'[r] \in Selecting -> {u \in Since(r, cooling) : Cooling(u)'}
                        [] pc'[r] = "proxy" -> {u \in cooling[r] : Cooling(u)'}
                        [] OTHER -> {}
    BY Zenon DEF History
  <2>2. Since(r, cooling) = cooling[r]
    BY <1>2, Zenon DEF Since
  <2>3. CASE pc'[r] \in Selecting
    <3>1. pc'[r] # "proxy"
      BY <2>3, Zenon DEF Selecting
    <3> QED
      BY <2>1, <2>2, <2>3, <3>1, Zenon
  <2>4. CASE pc'[r] = "proxy"
    <3>1. pc'[r] \notin Selecting
      BY <2>4, Zenon DEF Selecting
    <3> QED
      BY <2>1, <2>4, <3>1, Zenon
  <2> QED
    BY <1>2, <2>3, <2>4, Zenon
<1> QED
  BY <1>1, <1>2, Zenon

\* Once a request has hold of an upstream, it has it after a racing store or the
\* cooldown is over.
LEMMA TakenStays ==
  ASSUME CoolInv, IInv, History, NEW r \in Request,
         pc[r] \in {"clear", "health", "proxy"}, pc'[r] \in {"clear", "health", "proxy"},
         up'[r] = up[r], up'[r] \in cooling'[r]
  PROVE  shortened'[up'[r]]
<1>1. pc'[r] \in Selecting \cup {"proxy"} /\ pc[r] # "idle" /\ up[r] \in Upstream
  BY Zenon DEF Selecting, IInv, ProgramTypeOK
<1>2. up[r] \in cooling[r] /\ Cooling(up[r])'
  BY <1>1, CoolHistory, Zenon
<1>3. shortened[up[r]]
  BY <1>2, Zenon DEF CoolInv, SelectionCool
<1> QED
  BY <1>1, <1>2, <1>3, CoolHistory, Zenon

LEMMA BystanderCool ==
  ASSUME CoolInv, IInv, History, NEW r \in Request, clock' \in {clock, clock + 1},
         pc'[r] = pc[r], up'[r] = up[r], now'[r] = now[r], loaded'[r] = loaded[r]
  PROVE  SelectionCool(r)'
<1>1. SelectionCool(r) /\ clock \in Nat /\ now[r] \in Nat
  BY Zenon DEF CoolInv, IInv, ProgramTypeOK
<1>2. pc'[r] \in Selecting => now'[r] <= clock'
  BY <1>1 DEF SelectionCool
<1>3. pc'[r] = "clear" => loaded'[r] <= now'[r]
  BY <1>1, Zenon DEF SelectionCool
<1> QED
  BY <1>2, <1>3, TakenStays, Zenon DEF SelectionCool

\* A step that stores no deadUntil keeps TripKept.
LEMMA QuietTripKept ==
  ASSUME CoolInv, IInv, History, clock' \in {clock, clock + 1}, deadUntil' = deadUntil,
         \A q \in Request : pc[q] = "store" => pc'[q] = "store"
  PROVE  TripKept' /\ coolUntil' \in [Upstream -> Nat]
<1>1. clock \in Nat /\ clock' \in Nat /\ coolUntil \in [Upstream -> Nat]
  BY DEF CoolInv, IInv, ProgramTypeOK
<1>2. \A u \in Upstream : coolUntil'[u] = IF clock' < coolUntil[u] THEN coolUntil[u] ELSE 0
  BY <1>1, CoolUntilQuiet, Zenon DEF Leaves
<1>3. coolUntil' \in [Upstream -> Nat]
  <2>1. DOMAIN coolUntil' = Upstream /\ coolUntil' = [u \in Upstream |-> coolUntil'[u]]
    BY DEF History
  <2> QED
    BY <1>1, <1>2, <2>1
<1>4. TripKept'
  <2> SUFFICES ASSUME NEW u \in Upstream, Cooling(u)', ~shortened'[u]
               PROVE  coolUntil'[u] <= deadUntil'[u]
    BY Zenon DEF TripKept
  <2>1. coolUntil'[u] = coolUntil[u] /\ Cooling(u)
    BY <1>1, <1>2 DEF Cooling
  <2>2. ~shortened[u]
    BY CoolHistory, Zenon
  <2> QED
    BY <2>1, <2>2, Zenon DEF CoolInv, TripKept
<1> QED
  BY <1>3, <1>4, Zenon

LEMMA EnvironmentCool ==
  ASSUME CoolInv, IInv,
         Tick \/ \E u \in Upstream : ServerChange(u) \/ CheckUpstream(u) \/ ApplyCheck(u)
  PROVE  CoolInv'
<1>1. /\ History /\ clock' \in {clock, clock + 1} /\ deadUntil' = deadUntil
      /\ UNCHANGED <<pc, up, now, loaded>>
  BY Zenon DEF Tick, ServerChange, CheckUpstream, ApplyCheck, local
<1> QED
  BY <1>1, QuietTripKept, BystanderCool, CoolHistory, Zenon DEF CoolInv

\* The steps of a request that store no deadUntil and take no upstream.
LEMMA QuietRequestCool ==
  ASSUME CoolInv, IInv, NEW r \in Request,
         \/ SelectStart(r) \/ Pick(r) \/ LoadIsHealthy(r) \/ ServiceUnavailable(r)
         \/ ResponseSuccess(r) \/ ResponseFailure(r) \/ ClientCancelled(r)
         \/ RecordFailure(r) \/ TripClock(r) \/ LoadDeadUntil(r)
  PROVE  CoolInv'
<1>0. /\ ProgramTypeOK /\ SelectionCool(r) /\ TicksPerSecond = 1
      /\ clock \in Nat /\ now[r] \in Nat /\ up[r] \in Upstream
      /\ coolUntil \in [Upstream -> Nat] /\ deadUntil \in [Upstream -> Nat]
  BY Zenon DEF CoolInv, IInv, ProgramTypeOK
<1>1. History /\ clock' = clock /\ deadUntil' = deadUntil
  BY Zenon
     DEF SelectStart, Pick, LoadIsHealthy, ServiceUnavailable, ResponseSuccess, ResponseFailure,
         ClientCancelled, RecordFailure, TripClock, LoadDeadUntil, pool
<1>2. /\ \A q \in Request \ {r} : /\ pc'[q] = pc[q] /\ up'[q] = up[q]
                                  /\ now'[q] = now[q] /\ loaded'[q] = loaded[q]
      /\ pc[r] # "store"
  <2>1. CASE SelectStart(r) \/ Pick(r) \/ LoadIsHealthy(r) \/ ResponseFailure(r) \/ LoadDeadUntil(r)
    BY <1>0, <2>1, Zenon
       DEF ProgramTypeOK, SelectStart, Pick, LoadIsHealthy, ResponseFailure, LoadDeadUntil, Goto
  <2>2. CASE ServiceUnavailable(r) \/ ResponseSuccess(r) \/ ClientCancelled(r)
             \/ RecordFailure(r) \/ TripClock(r)
    BY <1>0, <2>2
       DEF ProgramTypeOK, ServiceUnavailable, ResponseSuccess, ClientCancelled, RecordFailure,
           TripClock, Goto, Finish
  <2> QED
    BY <2>1, <2>2, Zenon
<1>3. TripKept' /\ coolUntil' \in [Upstream -> Nat]
  BY <1>1, <1>2, QuietTripKept, Zenon
<1>4. SelectionCool(r)'
  <2>1. CASE SelectStart(r)
    <3>1. pc'[r] = "pick" /\ now'[r] = clock
      BY <1>0, <2>1, UnixWhole, Zenon DEF ProgramTypeOK, SelectStart, Goto
    <3> QED
      BY <1>0, <1>1, <3>1 DEF SelectionCool
  <2>2. CASE Pick(r)
    <3>1. pc'[r] \in {"none", "load"} /\ now'[r] = now[r] /\ pc[r] \in Selecting
      BY <1>0, <2>2, Zenon DEF ProgramTypeOK, Pick, Goto, Selecting
    <3> QED
      BY <1>0, <1>1, <3>1, Zenon DEF SelectionCool
  <2>3. CASE LoadIsHealthy(r)
    <3>1. /\ pc'[r] \in {"proxy", "pick"} /\ now'[r] = now[r] /\ pc[r] = "health"
          /\ pc[r] \in Selecting /\ up'[r] = up[r]
      BY <1>0, <2>3, Zenon DEF ProgramTypeOK, LoadIsHealthy, Goto, Selecting
    <3>2. pc'[r] \in Selecting => now'[r] <= clock'
      BY <1>0, <1>1, <3>1, Zenon DEF SelectionCool
    <3> QED
      BY <1>1, <3>1, <3>2, TakenStays, Zenon DEF SelectionCool
  <2>4. CASE LoadDeadUntil(r)
    <3> DEFINE d == deadUntil[up[r]]
    <3>0. d \in Nat
      BY <1>0, Zenon
    <3>1. /\ pc'[r] = AfterLoad(d, now[r]) /\ now'[r] = now[r] /\ pc[r] = "load"
          /\ pc[r] \in Selecting /\ up'[r] = up[r]
          /\ loaded'[r] = IF pc'[r] = "clear" THEN d ELSE 0
      BY <1>0, <2>4, Zenon DEF ProgramTypeOK, LoadDeadUntil, Goto, Selecting
    <3> HIDE DEF d
    <3>2. now[r] <= clock
      BY <1>0, <3>1, Zenon DEF SelectionCool
    <3>3. pc'[r] = "clear" => loaded'[r] <= now'[r]
      BY <1>0, <3>0, <3>1 DEF AfterLoad
    <3>4. ASSUME pc'[r] \in {"clear", "health", "proxy"}, up'[r] \in cooling'[r]
          PROVE  shortened'[up'[r]]
      <4>1. d <= now[r]
        BY <1>0, <3>0, <3>1, <3>4 DEF AfterLoad
      <4>2. Cooling(up[r])'
        BY <1>1, <3>1, <3>4, CoolHistory, Zenon DEF Selecting
      <4>3. coolUntil'[up[r]] = coolUntil[up[r]] /\ Cooling(up[r])
        <5>1. coolUntil'[up[r]] = IF clock' < coolUntil[up[r]] THEN coolUntil[up[r]] ELSE 0
          BY <1>0, <1>1, <1>2, CoolUntilQuiet, Zenon DEF Leaves
        <5> QED
          BY <1>0, <1>1, <3>1, <4>2, <5>1 DEF Cooling
      <4>4. shortened[up[r]]
        BY <1>0, <3>0, <3>2, <4>1, <4>3 DEF CoolInv, TripKept, Cooling, d
      <4> QED
        BY <1>0, <1>1, <3>1, <4>2, <4>4, CoolHistory, Zenon
    <3> QED
      BY <1>1, <3>1, <3>2, <3>3, <3>4, Zenon DEF SelectionCool
  <2>5. CASE ResponseFailure(r) \/ ServiceUnavailable(r) \/ ResponseSuccess(r) \/ ClientCancelled(r)
             \/ RecordFailure(r) \/ TripClock(r)
    <3>1. pc'[r] \in {"record", "idle", "trip", "store"}
      BY <1>0, <2>5, Zenon
         DEF ProgramTypeOK, ResponseFailure, ServiceUnavailable, ResponseSuccess, ClientCancelled,
             RecordFailure, TripClock, Goto, Finish
    <3> QED
      BY <3>1, Zenon DEF SelectionCool, Selecting
  <2> QED
    BY <2>1, <2>2, <2>3, <2>4, <2>5, Zenon
<1>5. \A q \in Request : SelectionCool(q)'
  BY <1>1, <1>2, <1>4, BystanderCool, Zenon
<1> QED
  BY <1>1, <1>3, <1>5, CoolHistory, Zenon DEF CoolInv

\* An expired deadUntil is cleared: if it is the one that was read, the trip it
\* belongs to was over, or a racing store had overwritten it before.
LEMMA ClearCool ==
  ASSUME CoolInv, IInv, NEW r \in Request, ClearDeadUntil(r)
  PROVE  CoolInv'
<1> DEFINE v == up[r]
<1>0. /\ ProgramTypeOK /\ SelectionCool(r)
      /\ clock \in Nat /\ now[r] \in Nat /\ v \in Upstream /\ loaded[r] \in Nat
      /\ coolUntil \in [Upstream -> Nat] /\ deadUntil \in [Upstream -> Nat]
  BY Zenon DEF CoolInv, IInv, ProgramTypeOK
<1>1. /\ History /\ clock' = clock /\ pc[r] = "clear" /\ pc'[r] = "health"
      /\ UNCHANGED <<up, now>> /\ deadUntil' = [deadUntil EXCEPT ![v] = 0]
      /\ \A q \in Request \ {r} : pc'[q] = pc[q] /\ loaded'[q] = loaded[q]
  BY <1>0, Zenon DEF ProgramTypeOK, ClearDeadUntil, Goto
<1> HIDE DEF v
<1>2. \A u \in Upstream : coolUntil'[u] = IF clock' < coolUntil[u] THEN coolUntil[u] ELSE 0
  BY <1>0, <1>1, CoolUntilQuiet, Zenon DEF Leaves
<1>3. coolUntil' \in [Upstream -> Nat]
  <2>1. DOMAIN coolUntil' = Upstream /\ coolUntil' = [u \in Upstream |-> coolUntil'[u]]
    BY <1>1 DEF History
  <2> QED
    BY <1>0, <1>2, <2>1
<1>4. now[r] <= clock /\ loaded[r] <= now[r]
  BY <1>1, Zenon DEF CoolInv, SelectionCool, Selecting
<1>5. TripKept'
  <2> SUFFICES ASSUME NEW u \in Upstream, Cooling(u)', ~shortened'[u]
               PROVE  coolUntil'[u] <= deadUntil'[u]
    BY Zenon DEF TripKept
  <2>1. coolUntil'[u] = coolUntil[u] /\ Cooling(u)
    BY <1>0, <1>1, <1>2 DEF Cooling
  <2>2. ~shortened[u] /\ ~RacingStore(u)
    BY <1>1, CoolHistory, Zenon
  <2>3. coolUntil[u] <= deadUntil[u]
    BY <2>1, <2>2, Zenon DEF CoolInv, TripKept
  <2>4. u # v
    <3> SUFFICES ASSUME u = v PROVE FALSE
      BY Zenon
    <3>1. Leaves(r, "clear", u)
      BY <1>1, Zenon DEF Leaves, v
    <3>2. deadUntil[u] = loaded[r]
      BY <2>2, <3>1, Zenon DEF RacingStore
    <3> QED
      BY <1>0, <1>4, <2>1, <2>3, <3>2 DEF Cooling
  <2> QED
    BY <1>0, <1>1, <2>1, <2>3, <2>4, Zenon
<1>6. SelectionCool(r)'
  <2>1. pc'[r] \in Selecting => now'[r] <= clock'
    BY <1>1, <1>4, Zenon
  <2> QED
    BY <1>1, <2>1, TakenStays, Zenon DEF SelectionCool
<1>7. \A q \in Request : SelectionCool(q)'
  BY <1>1, <1>6, BystanderCool, Zenon
<1> QED
  BY <1>1, <1>3, <1>5, <1>7, CoolHistory, Zenon DEF CoolInv

\* A trip is stored: it ends no earlier than the ones before, or it is itself the
\* racing store.
LEMMA TripCool ==
  ASSUME CoolInv, IInv, NEW r \in Request, TripBreaker(r)
  PROVE  CoolInv'
<1> DEFINE v == up[r]
           t == now[r] + Cooldown
<1>0. /\ ProgramTypeOK /\ TicksPerSecond = 1
      /\ clock \in Nat /\ now[r] \in Nat /\ v \in Upstream /\ t \in Nat
      /\ coolUntil \in [Upstream -> Nat] /\ deadUntil \in [Upstream -> Nat]
  BY PoolAssumption DEF CoolInv, IInv, ProgramTypeOK
<1>1. /\ History /\ clock' = clock /\ pc[r] = "store" /\ pc'[r] = "idle"
      /\ loaded' = loaded /\ deadUntil' = [deadUntil EXCEPT ![v] = t]
      /\ \A q \in Request \ {r} : pc'[q] = pc[q] /\ up'[q] = up[q] /\ now'[q] = now[q]
  BY <1>0, UnixWhole, Zenon DEF ProgramTypeOK, TripBreaker, CooldownEnd, Goto, Finish
<1>2. /\ Leaves(r, "store", v)
      /\ \A q \in Request \ {r} : ~Leaves(q, "store", v)
      /\ \A u \in Upstream \ {v} : \A q \in Request : ~Leaves(q, "store", u)
  BY <1>1, Zenon DEF Leaves
<1>3. \A u \in Upstream \ {v} : coolUntil'[u] = IF clock' < coolUntil[u] THEN coolUntil[u] ELSE 0
  BY <1>0, <1>1, <1>2, CoolUntilQuiet, Zenon
<1>4. \/ coolUntil'[v] = coolUntil[v] /\ t <= coolUntil[v] /\ clock' < coolUntil[v]
      \/ coolUntil'[v] = t /\ coolUntil[v] <= t
      \/ coolUntil'[v] = 0
  BY <1>0, <1>1, <1>2, CoolUntilTrip, Zenon
<1>5. coolUntil' \in [Upstream -> Nat]
  <2>1. DOMAIN coolUntil' = Upstream /\ coolUntil' = [u \in Upstream |-> coolUntil'[u]]
    BY <1>1 DEF History
  <2>2. \A u \in Upstream : coolUntil'[u] \in Nat
    BY <1>0, <1>3, <1>4
  <2> QED
    BY <2>1, <2>2, Zenon
<1>6. Unix(now[r] + Cooldown) = t
  BY <1>0, UnixWhole, Zenon
<1>7. TripKept'
  <2> SUFFICES ASSUME NEW u \in Upstream, Cooling(u)', ~shortened'[u]
               PROVE  coolUntil'[u] <= deadUntil'[u]
    BY Zenon DEF TripKept
  <2>1. ~shortened[u] /\ ~RacingStore(u)
    BY <1>1, CoolHistory, Zenon
  <2>2. CASE u # v
    <3>1. coolUntil'[u] = coolUntil[u] /\ Cooling(u)
      BY <1>0, <1>1, <1>3, <2>2 DEF Cooling
    <3> QED
      BY <1>0, <1>1, <2>1, <2>2, <3>1, Zenon DEF CoolInv, TripKept
  <2>3. CASE u = v
    <3>1. deadUntil[v] <= t /\ deadUntil'[v] = t
      <4>1. ~(Unix(now[r] + Cooldown) < deadUntil[v])
        BY <1>2, <2>1, <2>3, Zenon DEF RacingStore
      <4> QED
        BY <1>0, <1>1, <1>6, <4>1
    <3> HIDE DEF t, v
    <3>2. CASE coolUntil'[v] = coolUntil[v] /\ t <= coolUntil[v] /\ clock' < coolUntil[v]
      <4>1. coolUntil[v] <= deadUntil[v]
        BY <1>0, <1>1, <2>1, <2>3, <3>2, Zenon DEF CoolInv, TripKept, Cooling
      <4> QED
        BY <1>0, <2>3, <3>1, <3>2, <4>1
    <3> QED
      BY <1>0, <1>4, <2>3, <3>1, <3>2
  <2> QED
    BY <2>2, <2>3, Zenon
<1>8. \A q \in Request : SelectionCool(q)'
  <2>1. SelectionCool(r)'
    BY <1>1, Zenon DEF SelectionCool, Selecting
  <2> QED
    BY <1>1, <2>1, BystanderCool, Zenon
<1> QED
  BY <1>0, <1>1, <1>5, <1>7, <1>8, CoolHistory, Zenon DEF CoolInv

LEMMA StepCool == IInv /\ CoolInv /\ [Next]_vars => CoolInv'
<1> SUFFICES ASSUME IInv, CoolInv, [Next]_vars PROVE CoolInv'
  BY Zenon
<1>1. CASE UNCHANGED vars
  BY <1>1, Zenon DEF CoolInv, TripKept, SelectionCool, Cooling, vars, pool, local, history
<1> QED
  BY <1>1, EnvironmentCool, QuietRequestCool, ClearCool, TripCool, Zenon DEF Next, RequestStep

\* With a clock of whole seconds, every request whose selection begins during a
\* cooldown skips the tripped upstream until the cooldown is over, unless a racing
\* store (a late Store(0) of an older value, or an older trip stored late) put
\* deadUntil earlier.  (With a finer clock the code itself gives away up to a
\* second: Unix rounds the end of the cooldown down.)
THEOREM CooldownHonoured ==
  (TicksPerSecond = 1) /\ Spec => []CooldownHonouredUnlessShortened
<1>1. (TicksPerSecond = 1) /\ Init => IInv /\ CoolInv
  BY InitInv, InitCool, Zenon
<1>2. (IInv /\ CoolInv) /\ [Next]_vars => (IInv /\ CoolInv)'
  BY StepInv, StepCool, Zenon
<1>3. CoolInv => CooldownHonouredUnlessShortened
  BY Zenon DEF CoolInv, SelectionCool, CooldownHonouredUnlessShortened
<1> QED
  BY <1>1, <1>2, <1>3, PTL DEF Spec

-----------------------------------------------------------------------------
(***************************************************************************)
(* A selection on its own.  The upstreams it has not seen are the next     *)
(* N - tries[r] ahead of the counter, which it alone moves.                *)
(***************************************************************************)

\* How many moves of the counter bring it to u.
Ahead(u) == IF counter < u THEN u - counter ELSE u - counter + N

\* An upstream eligible since the beginning is still to be visited, or is the
\* one in hand.
Unseen(r) ==
  ~crowded[r] =>
    /\ pc[r] # "pick" => up[r] = counter
    /\ \A u \in avail[r] : Ahead(u) <= N - tries[r] \/ (pc[r] # "pick" /\ u = up[r])

SelectionSolo(r) ==
  /\ avail[r] \subseteq Upstream
  /\ pc[r] = "idle" => tries[r] = 0
  /\ pc[r] \in Selecting =>
        /\ \A q \in Request \ {r} : pc[q] \in Selecting => crowded[r]
        /\ Unseen(r)
  /\ pc[r] = "none" /\ ~crowded[r] => avail[r] = {}

SoloInv == \A r \in Request : SelectionSolo(r)

LEMMA InitSolo == Init => SoloInv
  BY Zenon DEF Init, SoloInv, SelectionSolo, Selecting

LEMMA NextIndexWraps ==
  ASSUME NEW c \in Upstream
  PROVE  NextIndex(c) = IF c + 1 = N THEN 0 ELSE c + 1
<1>1. \A k \in Nat \ {0}, n \in Nat : n < k => n % k = n
  BY Z3
<1>2. \A k \in Nat \ {0} : k % k = 0
  BY Z3
<1> QED
  BY <1>1, <1>2, PoolAssumption DEF NextIndex, Upstream

LEMMA AheadRange ==
  ASSUME ProgramTypeOK, NEW u \in Upstream
  PROVE  Ahead(u) \in 1..N
  BY PoolAssumption DEF ProgramTypeOK, Upstream, Ahead

\* The counter moves on: u is reached, or one step nearer.
LEMMA AheadStep ==
  ASSUME ProgramTypeOK, counter' = NextIndex(counter), NEW u \in Upstream
  PROVE  u = counter' \/ Ahead(u)' = Ahead(u) - 1
<1>1. counter' = IF counter + 1 = N THEN 0 ELSE counter + 1
  BY NextIndexWraps, Zenon DEF ProgramTypeOK
<1> QED
  BY <1>1, PoolAssumption DEF ProgramTypeOK, Upstream, Ahead

\* What every step does to the history of a selection.
LEMMA SoloHistory ==
  ASSUME History, NEW r \in Request
  PROVE  /\ pc'[r] \in Selecting =>
              /\ avail'[r] = {u \in Since(r, avail) : Eligible(r, u)'}
              /\ crowded'[r] <=> \/ pc[r] \in Selecting /\ crowded[r]
                                 \/ \E q \in Request \ {r} : pc'[q] \in Selecting
         /\ pc'[r] = "none" => avail'[r] = avail[r] /\ (crowded'[r] <=> crowded[r])
         /\ pc'[r] \notin Selecting \cup {"none"} => avail'[r] = {}
<1> DEFINE C == \/ pc[r] \in Selecting /\ crowded[r]
                \/ \E q \in Request \ {r} : pc'[q] \in Selecting
           A == {u \in Since(r, avail) : Eligible(r, u)'}
<1>1. avail'[r] = CASE pc'[r] \in Selecting -> A
                    [] pc'[r] = "none" -> avail[r]
                    [] OTHER -> {}
  BY Zenon DEF History
<1>2. crowded'[r] = CASE pc'[r] \in Selecting -> C
                      [] pc'[r] = "none" -> crowded[r]
                      [] OTHER -> FALSE
  BY Zenon DEF History
<1>3. "none" \notin Selecting
  BY Zenon DEF Selecting
<1> HIDE DEF A, C
<1>4. pc'[r] \in Selecting => avail'[r] = A
  BY <1>1, <1>3, Zenon
<1>5. pc'[r] \in Selecting => (crowded'[r] <=> C)
  BY <1>2, <1>3, Zenon
<1>6. pc'[r] = "none" => avail'[r] = avail[r] /\ (crowded'[r] <=> crowded[r])
  BY <1>1, <1>2, <1>3, Zenon
<1>7. pc'[r] \notin Selecting \cup {"none"} => avail'[r] = {}
  BY <1>1, Zenon
<1> QED
  BY <1>4, <1>5, <1>6, <1>7, Zenon DEF A, C

\* The part of SelectionSolo that holds after every step.
LEMMA SelectionSoloFrame ==
  ASSUME SoloInv, IInv, History, NEW r \in Request
  PROVE  /\ avail'[r] \subseteq Upstream
         /\ pc'[r] \in Selecting => \A q \in Request \ {r} : pc'[q] \in Selecting => crowded'[r]
         /\ pc[r] \in Selecting /\ pc'[r] \in Selecting =>
              /\ avail'[r] \subseteq avail[r]
              /\ \A u \in avail'[r] : Eligible(r, u)'
              /\ crowded[r] => crowded'[r]
<1>1. avail[r] \subseteq Upstream
  BY Zenon DEF SoloInv, SelectionSolo
<1>2. Since(r, avail) \subseteq Upstream /\ (pc[r] \in Selecting => Since(r, avail) = avail[r])
  BY <1>1, Zenon DEF Since, Selecting
<1>3. pc'[r] \in Selecting => avail'[r] = {u \in Since(r, avail) : Eligible(r, u)'}
  BY SoloHistory, Zenon
<1>4. avail'[r] \subseteq Upstream
  BY <1>1, <1>2, <1>3, SoloHistory, Zenon
<1> QED
  BY <1>2, <1>3, <1>4, SoloHistory, Zenon

LEMMA BystanderSolo ==
  ASSUME SoloInv, IInv, History, NEW r \in Request,
         pc'[r] = pc[r], up'[r] = up[r], tries'[r] = tries[r],
         counter' = counter \/ (pc[r] \in Selecting => crowded[r])
  PROVE  SelectionSolo(r)'
<1>1. SelectionSolo(r)
  BY Zenon DEF SoloInv
<1>2. pc'[r] \in Selecting => Unseen(r)'
  <2> SUFFICES ASSUME pc'[r] \in Selecting, ~crowded'[r] PROVE Unseen(r)'
    BY Zenon DEF Unseen
  <2>1. /\ ~crowded[r] /\ avail'[r] \subseteq avail[r]
    BY SelectionSoloFrame, Zenon
  <2>2. counter' = counter /\ Unseen(r)
    BY <1>1, <2>1, Zenon DEF SelectionSolo
  <2> QED
    BY <2>1, <2>2, Zenon DEF Unseen, Ahead
<1>3. pc'[r] = "none" /\ ~crowded'[r] => avail'[r] = {}
  BY <1>1, SoloHistory, Zenon DEF SelectionSolo
<1>4. pc'[r] = "idle" => tries'[r] = 0
  BY <1>1, Zenon DEF SelectionSolo
<1> QED
  BY <1>2, <1>3, <1>4, SelectionSoloFrame, Zenon DEF SelectionSolo

LEMMA EnvironmentSolo ==
  ASSUME SoloInv, IInv,
         Tick \/ \E u \in Upstream : ServerChange(u) \/ CheckUpstream(u) \/ ApplyCheck(u)
  PROVE  SoloInv'
<1>1. History /\ counter' = counter /\ UNCHANGED <<pc, up, tries>>
  BY Zenon DEF Tick, ServerChange, CheckUpstream, ApplyCheck, local
<1> QED
  BY <1>1, BystanderSolo, Zenon DEF SoloInv

\* The selection itself.
LEMMA SelectingSolo ==
  ASSUME SoloInv, IInv, NEW r \in Request,
         \/ SelectStart(r) \/ Pick(r) \/ LoadDeadUntil(r) \/ ClearDeadUntil(r) \/ LoadIsHealthy(r)
  PROVE  SoloInv'
<1>0. /\ ProgramTypeOK /\ SelectionSolo(r) /\ N \in Nat \ {0}
      /\ tries[r] \in 0..N /\ counter \in Upstream /\ up[r] \in Upstream
      /\ now[r] \in Nat /\ deadUntil[up[r]] \in Nat
  BY PoolAssumption, Zenon DEF SoloInv, IInv, ProgramTypeOK
<1>1. /\ History
      /\ \A q \in Request \ {r} : pc'[q] = pc[q] /\ up'[q] = up[q] /\ tries'[q] = tries[q]
      /\ counter' = counter \/ pc[r] \in Selecting
  BY <1>0, Zenon
     DEF ProgramTypeOK, SelectStart, Pick, LoadDeadUntil, ClearDeadUntil, LoadIsHealthy, Goto,
         pool, Selecting
<1>2. \A q \in Request \ {r} : SelectionSolo(q)'
  <2> TAKE q \in Request \ {r}
  <2>1. counter' = counter \/ (pc[q] \in Selecting => crowded[q])
    BY <1>1, Zenon DEF SoloInv, SelectionSolo
  <2> QED
    BY <1>1, <2>1, BystanderSolo, Zenon
<1>3. SelectionSolo(r)'
  <2>1. CASE SelectStart(r)
    <3>1. pc'[r] = "pick" /\ tries'[r] = 0 /\ counter' = counter
      BY <1>0, <2>1, Zenon DEF ProgramTypeOK, SelectStart, Goto, pool, SelectionSolo
    <3>2. \A u \in avail'[r] : Ahead(u)' <= N
      <4>1. \A u \in Upstream : Ahead(u) \in 1..N
        BY <1>0, AheadRange, Zenon
      <4>2. \A u \in Upstream : Ahead(u)' <= N
        BY <1>0, <3>1, <4>1 DEF Ahead
      <4> QED
        BY <1>1, <4>2, SelectionSoloFrame, Zenon
    <3>3. Unseen(r)'
      BY <1>0, <3>1, <3>2 DEF Unseen
    <3> QED
      BY <1>1, <3>1, <3>3, SelectionSoloFrame, Zenon DEF SelectionSolo
  <2>2. CASE Pick(r)
    <3>0. pc[r] = "pick" /\ pc[r] \in Selecting /\ Unseen(r)
      BY <1>0, <2>2, Zenon DEF Pick, Selecting, SelectionSolo
    <3>1. CASE tries[r] = N
      <4>1. pc'[r] = "none"
        BY <1>0, <2>2, <3>1, Zenon DEF ProgramTypeOK, Pick, Goto, Attempts
      <4>2. ~crowded[r] => avail[r] = {}
        <5> SUFFICES ASSUME ~crowded[r], NEW u \in avail[r] PROVE FALSE
          BY Zenon
        <5>1. Ahead(u) <= N - tries[r] /\ u \in Upstream
          BY <1>0, <3>0, Zenon DEF Unseen, SelectionSolo
        <5>2. Ahead(u) \in 1..N
          BY <1>0, <5>1, AheadRange, Zenon
        <5> QED
          BY <1>0, <3>1, <5>1, <5>2
      <4> QED
        BY <1>1, <4>1, <4>2, SoloHistory, SelectionSoloFrame, Zenon DEF SelectionSolo, Selecting
    <3>2. CASE tries[r] # N
      <4>1. /\ pc'[r] = "load" /\ counter' = NextIndex(counter) /\ up'[r] = counter'
            /\ tries'[r] = tries[r] + 1 /\ pc'[r] \in Selecting
        BY <1>0, <2>2, <3>2, Zenon DEF ProgramTypeOK, Pick, Goto, Attempts, Selecting
      <4>2. Unseen(r)'
        <5> SUFFICES ASSUME ~crowded'[r], NEW u \in avail'[r]
                     PROVE  Ahead(u)' <= N - tries'[r] \/ u = up'[r]
          BY <4>1, Zenon DEF Unseen
        <5>1. u \in avail[r] /\ ~crowded[r] /\ u \in Upstream
          BY <1>0, <1>1, <3>0, <4>1, SelectionSoloFrame, Zenon DEF SelectionSolo
        <5>2. Ahead(u) <= N - tries[r] /\ Ahead(u) \in 1..N
          BY <1>0, <3>0, <5>1, AheadRange, Zenon DEF Unseen
        <5>3. u = counter' \/ Ahead(u)' = Ahead(u) - 1
          BY <1>0, <4>1, <5>1, AheadStep, Zenon
        <5> QED
          BY <1>0, <4>1, <5>2, <5>3
      <4> QED
        BY <1>1, <4>1, <4>2, SelectionSoloFrame, Zenon DEF SelectionSolo
    <3> QED
      BY <3>1, <3>2, Zenon
  <2>3. ASSUME LoadDeadUntil(r) \/ ClearDeadUntil(r) \/ LoadIsHealthy(r)
        PROVE  SelectionSolo(r)'
    <3>0. /\ pc[r] \in {"load", "clear", "health"} /\ pc[r] \in Selecting /\ Unseen(r)
          /\ counter' = counter /\ up'[r] = up[r] /\ tries'[r] = tries[r] /\ now'[r] = now[r]
      BY <1>0, <2>3, Zenon
         DEF LoadDeadUntil, ClearDeadUntil, LoadIsHealthy, Selecting, SelectionSolo, pool
    <3>1. /\ pc'[r] \in {"pick", "clear", "health", "proxy"}
          /\ pc'[r] = "pick" => ~Eligible(r, up[r])'
      <4>1. CASE LoadDeadUntil(r)
        <5>1. pc'[r] = AfterLoad(deadUntil[up[r]], now[r]) /\ deadUntil' = deadUntil
          BY <1>0, <4>1, Zenon DEF ProgramTypeOK, LoadDeadUntil, Goto, pool
        <5> QED
          BY <1>0, <3>0, <5>1 DEF AfterLoad, Eligible
      <4>2. CASE ClearDeadUntil(r)
        BY <1>0, <4>2, Zenon DEF ProgramTypeOK, ClearDeadUntil, Goto
      <4>3. CASE LoadIsHealthy(r)
        BY <1>0, <3>0, <4>3, Zenon DEF ProgramTypeOK, LoadIsHealthy, Goto, Eligible, pool
      <4> QED
        BY <2>3, <4>1, <4>2, <4>3, Zenon
    <3>2. CASE pc'[r] = "proxy"
      <4>1. avail'[r] = {}
        BY <1>1, <3>2, SoloHistory, Zenon DEF Selecting
      <4> QED
        BY <3>2, <4>1, Zenon DEF SelectionSolo, Selecting
    <3>3. CASE pc'[r] # "proxy"
      <4>0. pc'[r] \in Selecting
        BY <3>1, <3>3, Zenon DEF Selecting
      <4>1. Unseen(r)'
        <5> SUFFICES ASSUME ~crowded'[r] PROVE Unseen(r)'
          BY Zenon DEF Unseen
        <5>1. /\ ~crowded[r] /\ avail'[r] \subseteq avail[r]
              /\ \A u \in avail'[r] : Eligible(r, u)'
          BY <1>1, <3>0, <4>0, SelectionSoloFrame, Zenon
        <5>2. up[r] = counter
          BY <3>0, <5>1, Zenon DEF Unseen
        <5>3. \A u \in avail'[r] : Ahead(u)' <= N - tries'[r] \/ u = up'[r]
          BY <3>0, <5>1, Zenon DEF Unseen, Ahead
        <5>4. pc'[r] = "pick" => up'[r] \notin avail'[r]
          BY <3>0, <3>1, <5>1, Zenon
        <5> QED
          BY <3>0, <5>2, <5>3, <5>4, Zenon DEF Unseen
      <4> QED
        BY <1>1, <3>1, <4>0, <4>1, SelectionSoloFrame, Zenon DEF SelectionSolo, Selecting
    <3> QED
      BY <3>2, <3>3, Zenon
  <2> QED
    BY <2>1, <2>2, <2>3, Zenon
<1> QED
  BY <1>2, <1>3, Zenon DEF SoloInv

\* The rest of a request.
LEMMA ServingSolo ==
  ASSUME SoloInv, IInv, NEW r \in Request,
         \/ ServiceUnavailable(r) \/ ResponseSuccess(r) \/ ResponseFailure(r)
         \/ ClientCancelled(r) \/ RecordFailure(r) \/ TripClock(r) \/ TripBreaker(r)
  PROVE  SoloInv'
<1>0. ProgramTypeOK
  BY Zenon DEF IInv
<1>1. /\ History /\ counter' = counter
      /\ \A q \in Request \ {r} : pc'[q] = pc[q] /\ up'[q] = up[q] /\ tries'[q] = tries[q]
      /\ pc'[r] \in {"idle", "record", "trip", "store"}
      /\ pc'[r] = "idle" => tries'[r] = 0
  <2>1. CASE ServiceUnavailable(r) \/ ResponseSuccess(r) \/ ResponseFailure(r) \/ ClientCancelled(r)
    BY <1>0, <2>1, Zenon
       DEF ProgramTypeOK, ServiceUnavailable, ResponseSuccess, ResponseFailure, ClientCancelled,
           Finish, Goto, pool
  <2>2. CASE RecordFailure(r) \/ TripClock(r) \/ TripBreaker(r)
    BY <1>0, <2>2 DEF ProgramTypeOK, RecordFailure, TripClock, TripBreaker, Finish, Goto, pool
  <2> QED
    BY <2>1, <2>2, Zenon
<1>2. SelectionSolo(r)'
  <2>1. pc'[r] \notin Selecting /\ pc'[r] # "none"
    BY <1>1, Zenon DEF Selecting
  <2>2. avail'[r] = {}
    BY <1>1, <2>1, SoloHistory, Zenon
  <2> QED
    BY <1>1, <2>1, <2>2, Zenon DEF SelectionSolo
<1> QED
  BY <1>1, <1>2, BystanderSolo, Zenon DEF SoloInv

LEMMA StepSolo == IInv /\ SoloInv /\ [Next]_vars => SoloInv'
<1> SUFFICES ASSUME IInv, SoloInv, [Next]_vars PROVE SoloInv'
  BY Zenon
<1>1. CASE UNCHANGED vars
  BY <1>1, Zenon DEF SoloInv, SelectionSolo, Unseen, Ahead, vars, pool, local, history
<1> QED
  BY <1>1, EnvironmentSolo, SelectingSolo, ServingSolo, Zenon DEF Next, RequestStep

\* A selection that no other selection overlapped answers 503 only if no upstream
\* was eligible from its beginning to its end, for any number of upstreams: the N
\* attempts of selectUpstream visit every one of them, wherever the shared counter
\* stood and whatever breaker and health checks did meanwhile.
THEOREM LoneSelectionFinds == Spec => []SoloSelectionFinds
<1>1. Init => IInv /\ SoloInv
  BY InitInv, InitSolo, Zenon
<1>2. (IInv /\ SoloInv) /\ [Next]_vars => (IInv /\ SoloInv)'
  BY StepInv, StepSolo, Zenon
<1>3. SoloInv => SoloSelectionFinds
  BY Zenon DEF SoloInv, SelectionSolo, SoloSelectionFinds
<1> QED
  BY <1>1, <1>2, <1>3, PTL DEF Spec
=============================================================================
