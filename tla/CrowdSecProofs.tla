--------------------------- MODULE CrowdSecProofs ---------------------------
(***************************************************************************)
(* Proofs about CrowdSec for every set of requests, any number of reloads  *)
(* with any cache_ttl each, and however often LAPI changes.                *)
(***************************************************************************)
EXTENDS CrowdSec, TLAPS

\* A request reads its clock before LAPI answers it.
RequestInv ==
  /\ ttl \in [Request -> Nat] /\ now \in [Request -> Nat] /\ asked \in [Request -> Nat]
  /\ DOMAIN verdict = Request
  /\ \A r \in Request :
       /\ now[r] <= clock /\ asked[r] <= clock
       /\ pc[r] \in {"store", "add"} => now[r] <= asked[r]

\* So an entry expires within its cache_ttl of LAPI's answer, not of the time it
\* was stored.
CacheInv ==
  /\ cache.expires \in Nat /\ cache.at \in Nat /\ cache.ttl \in Nat
  /\ cache.expires <= cache.at + cache.ttl

VerdictInv ==
  \A r \in Request :
    verdict[r].age \in Int /\ verdict[r].ttl \in Int /\ verdict[r].age < verdict[r].ttl

\* The generation whose checker runs: during a publication still the previous.
Newest == IF rl = "idle" THEN gen ELSE gen - 1

CheckerInv ==
  /\ Newest \in Gen
  /\ \A g \in Gen :
       /\ stop[g] <=> g < Newest
       /\ checker[g] = "none" <=> g > Newest
       /\ checker[g] = "stopped" => stop[g]

IInv == TypeOK /\ RequestInv /\ CacheInv /\ VerdictInv /\ CheckerInv

LEMMA InitInv == Init => IInv
<1> SUFFICES ASSUME Init PROVE IInv
  BY Zenon
<1> USE CrowdSecAssumption DEF Init
<1>1. TypeOK
  <2>1. gen \in Gen
    BY DEF Gen
  <2>2. cache.from \in 0..gen /\ cache.expires \in 0..(clock + cache.ttl)
    BY DEF NoEntry
  <2> QED
    BY <2>1, <2>2 DEF TypeOK
<1>2. RequestInv
  BY DEF RequestInv
<1>3. CacheInv
  BY DEF CacheInv, NoEntry
<1>4. VerdictInv
  BY DEF VerdictInv, NoVerdict
<1>5. CheckerInv
  BY DEF CheckerInv, Newest, Gen
<1> QED
  BY <1>1, <1>2, <1>3, <1>4, <1>5, Zenon DEF IInv

-----------------------------------------------------------------------------
\* The background checkers

LEMMA CheckerQuiet ==
  ASSUME CheckerInv, UNCHANGED <<checker, stop, rl, gen>>
  PROVE  CheckerInv'
  BY Zenon DEF CheckerInv, Newest

LEMMA CheckerKept ==
  ASSUME TypeOK, CheckerInv, [Next]_vars
  PROVE  CheckerInv'
<1> USE CrowdSecAssumption DEF published, checkers
<1>1. ASSUME Tick \/ LapiFlips \/ LapiDecides \/ Evict \/ UNCHANGED vars PROVE CheckerInv'
  BY <1>1, CheckerQuiet, Zenon DEF Tick, LapiFlips, LapiDecides, Evict, vars
<1>2. ASSUME NEW r \in Request, RequestStep(r) PROVE CheckerInv'
  BY <1>2, CheckerQuiet, Zenon
     DEF RequestStep, LoadBouncer, LoadTTL, CacheGet, Query, StoreHealth, CacheAdd
<1>3. ASSUME ReloadProbe PROVE CheckerInv'
  <2>1. Newest' = Newest
    BY <1>3 DEF ReloadProbe, Newest, TypeOK, Gen
  <2> QED
    BY <1>3, <2>1, Zenon DEF ReloadProbe, CheckerInv
<1>4. ASSUME PublishHealthy \/ PublishBouncer \/ PublishTTL \/ PurgeCache PROVE CheckerInv'
  <2>1. Newest' = Newest /\ UNCHANGED <<checker, stop>>
    BY <1>4, Zenon DEF PublishHealthy, PublishBouncer, PublishTTL, PurgeCache, Newest
  <2> QED
    BY <2>1, Zenon DEF CheckerInv
<1>5. ASSUME RestartHealthChecks PROVE CheckerInv'
  <2>1. Newest = gen - 1 /\ Newest' = gen /\ gen \in Gen
    BY <1>5, Zenon DEF RestartHealthChecks, Newest, TypeOK
  <2>2. \A g \in Gen : (stop'[g] <=> g < gen) /\ checker'[g] = IF g = gen THEN "wait" ELSE checker[g]
    BY <1>5, Zenon DEF RestartHealthChecks, Cancelled, TypeOK
  <2> QED
    BY <2>1, <2>2 DEF CheckerInv, Gen
<1>6. ASSUME NEW g \in Gen, CheckerStep(g) PROVE CheckerInv'
  <2>1. Newest' = Newest /\ stop' = stop
    BY <1>6, Zenon DEF CheckerStep, CheckerTick, CheckerAnswer, CheckerStore, CheckerStops, Newest
  <2>2. \A h \in Gen : h # g => checker'[h] = checker[h]
    BY <1>6, Zenon DEF CheckerStep, CheckerTick, CheckerAnswer, CheckerStore, CheckerStops, TypeOK
  <2>3. checker[g] # "none" /\ checker'[g] # "none" /\ (checker'[g] = "stopped" => stop[g])
    BY <1>6, Zenon DEF CheckerStep, CheckerTick, CheckerAnswer, CheckerStore, CheckerStops, TypeOK
  <2> QED
    BY <2>1, <2>2, <2>3, Zenon DEF CheckerInv
<1> QED
  BY <1>1, <1>2, <1>3, <1>4, <1>5, <1>6, Zenon DEF Next, ReloadStep

-----------------------------------------------------------------------------
\* The decision cache

LEMMA CacheKept ==
  ASSUME TypeOK, RequestInv, CacheInv, [Next]_vars
  PROVE  CacheInv'
<1>1. ASSUME cache' = NoEntry PROVE CacheInv'
  BY <1>1 DEF CacheInv, NoEntry
<1>2. ASSUME NEW r \in Request, CacheAdd(r) PROVE CacheInv'
  <2>1. now[r] \in Nat /\ ttl[r] \in Nat /\ asked[r] \in Nat /\ now[r] <= asked[r]
    BY <1>2, Zenon DEF CacheAdd, RequestInv
  <2>2. cache' = [banned |-> ans[r] = "banned", expires |-> now[r] + ttl[r],
                  from |-> bnc[r], at |-> asked[r], ttl |-> ttl[r]]
    BY <1>2, Zenon DEF CacheAdd, Expires
  <2> QED
    BY <2>1, <2>2 DEF CacheInv
<1>3. cache' = cache \/ cache' = NoEntry \/ \E r \in Request : CacheAdd(r)
  BY Zenon
     DEF Next, Tick, LapiFlips, LapiDecides, Evict, ReloadProbe, ReloadStep, PublishHealthy,
         PublishBouncer, PublishTTL, PurgeCache, RestartHealthChecks, CheckerStep, CheckerTick,
         CheckerAnswer, CheckerStore, CheckerStops, RequestStep, LoadBouncer, LoadTTL, CacheGet,
         Query, StoreHealth, vars
<1> QED
  BY <1>1, <1>2, <1>3, Zenon DEF CacheInv

\* Steps that are not a request's leave every request where it is.
LEMMA OtherSteps ==
  ASSUME TypeOK, [Next]_vars, ~\E r \in Request : RequestStep(r)
  PROVE  clock' \in {clock, clock + 1} /\ UNCHANGED local
  BY Zenon
     DEF Next, Tick, LapiFlips, LapiDecides, Evict, ReloadProbe, ReloadStep, PublishHealthy,
         PublishBouncer, PublishTTL, PurgeCache, RestartHealthChecks, CheckerStep, CheckerTick,
         CheckerAnswer, CheckerStore, CheckerStops, vars

LEMMA RequestKept ==
  ASSUME TypeOK, RequestInv, [Next]_vars
  PROVE  RequestInv'
<1> USE CrowdSecAssumption
<1>1. CASE ~\E r \in Request : RequestStep(r)
  BY <1>1, OtherSteps DEF RequestInv, TypeOK, local
<1>2. ASSUME NEW r \in Request, LoadBouncer(r) PROVE RequestInv'
  BY <1>2, Zenon DEF RequestInv, TypeOK, LoadBouncer
<1>3. ASSUME NEW r \in Request, LoadTTL(r) PROVE RequestInv'
  <2>1. TTL[cacheTTL] \in Nat
    BY DEF TypeOK, Gen
  <2> QED
    BY <1>3, <2>1 DEF RequestInv, TypeOK, LoadTTL
<1>4. ASSUME NEW r \in Request, Query(r) PROVE RequestInv'
  BY <1>4 DEF RequestInv, TypeOK, Query
<1>5. ASSUME NEW r \in Request, CacheGet(r) \/ StoreHealth(r) \/ CacheAdd(r) PROVE RequestInv'
  <2>1. CASE Return(r)
    BY <1>5, <2>1 DEF RequestInv, TypeOK, CacheGet, StoreHealth, CacheAdd, Return
  <2>2. CASE ~Return(r)
    BY <1>5, <2>2 DEF RequestInv, TypeOK, CacheGet, StoreHealth, CacheAdd
  <2> QED
    BY <2>1, <2>2, Zenon
<1> QED
  BY <1>1, <1>2, <1>3, <1>4, <1>5, Zenon DEF RequestStep

LEMMA VerdictKept ==
  ASSUME TypeOK, RequestInv, CacheInv, VerdictInv, [Next]_vars
  PROVE  VerdictInv'
<1>1. ASSUME NEW r \in Request, NEW v, verdict' = [verdict EXCEPT ![r] = v],
             v.age \in Int, v.ttl \in Int, v.age < v.ttl
      PROVE  VerdictInv'
  BY <1>1, Zenon DEF VerdictInv, RequestInv
<1>2. ASSUME verdict' = verdict PROVE VerdictInv'
  BY <1>2, Zenon DEF VerdictInv
<1>3. ASSUME NEW r \in Request, LoadBouncer(r) PROVE VerdictInv'
  <2>1. NoVerdict.age \in Int /\ NoVerdict.ttl \in Int /\ NoVerdict.age < NoVerdict.ttl
    BY DEF NoVerdict
  <2>2. verdict' = [verdict EXCEPT ![r] = NoVerdict]
    BY <1>3, Zenon DEF LoadBouncer
  <2> QED
    BY <1>1, <2>1, <2>2, Zenon
<1>4. ASSUME NEW r \in Request, Query(r) PROVE VerdictInv'
  <2> DEFINE v == [banned |-> ans'[r] = "banned", age |-> 0, ttl |-> 1]
  <2>1. v.age \in Int /\ v.ttl \in Int /\ v.age < v.ttl
    OBVIOUS
  <2>2. verdict' = [verdict EXCEPT ![r] = v]
    BY <1>4, Zenon DEF Query
  <2> HIDE DEF v
  <2> QED
    BY <1>1, <2>1, <2>2, Zenon
<1>5. ASSUME NEW r \in Request, CacheGet(r), Hit(r) PROVE VerdictInv'
  <2> DEFINE v == [banned |-> cache.banned, age |-> now[r] - cache.at, ttl |-> cache.ttl]
  <2>1. verdict' = [verdict EXCEPT ![r] = v]
    BY <1>5, Zenon DEF CacheGet
  <2>2. v.age = now[r] - cache.at /\ v.ttl = cache.ttl
    BY Zenon
  <2>3. now[r] < cache.expires /\ now[r] \in Nat
    BY <1>5, Zenon DEF Hit, RequestInv
  <2>4. v.age \in Int /\ v.ttl \in Int /\ v.age < v.ttl
    BY <2>2, <2>3 DEF CacheInv
  <2> HIDE DEF v
  <2> QED
    BY <1>1, <2>1, <2>4, Zenon
<1>6. ASSUME NEW r \in Request,
             \/ LoadTTL(r) \/ StoreHealth(r) \/ CacheAdd(r)
             \/ CacheGet(r) /\ ~Hit(r)
      PROVE  VerdictInv'
  BY <1>2, <1>6, Zenon DEF LoadTTL, StoreHealth, CacheAdd, CacheGet
<1>7. CASE ~\E r \in Request : RequestStep(r)
  BY <1>2, <1>7, OtherSteps, Zenon DEF local
<1> QED
  BY <1>3, <1>4, <1>5, <1>6, <1>7, Zenon DEF RequestStep

-----------------------------------------------------------------------------
\* The types

LEMMA GenGrows ==
  ASSUME TypeOK, [Next]_vars
  PROVE  gen' \in Gen /\ gen' \in {gen, gen + 1}
  BY CrowdSecAssumption
     DEF Next, Tick, LapiFlips, LapiDecides, Evict, ReloadProbe, ReloadStep, PublishHealthy,
         PublishBouncer, PublishTTL, PurgeCache, RestartHealthChecks, CheckerStep, CheckerTick,
         CheckerAnswer, CheckerStore, CheckerStops, RequestStep, LoadBouncer, LoadTTL, CacheGet,
         Query, StoreHealth, CacheAdd, vars, published, TypeOK, Gen

LEMMA ReturnTypes ==
  ASSUME TypeOK, NEW r \in Request, Return(r)
  PROVE  /\ pc' \in [Request -> {"ttl", "get", "query", "store", "add", "done"}]
         /\ bnc' \in [Request -> 0..gen]
         /\ ans' \in [Request -> {"none", "clean", "banned", "err"}]
  BY CrowdSecAssumption DEF TypeOK, Return, Gen

LEMMA TypeKept ==
  ASSUME TypeOK, RequestInv, CacheInv, [Next]_vars
  PROVE  TypeOK'
<1> USE CrowdSecAssumption DEF lapi, published, checkers, local
<1>1. ASSUME Tick PROVE TypeOK'
  BY <1>1 DEF TypeOK, Tick, CacheInv
<1>2. ASSUME LapiFlips \/ LapiDecides PROVE TypeOK'
  <2>1. lapiUp' \in BOOLEAN /\ lapiBans' \in BOOLEAN
    BY <1>2, Zenon DEF TypeOK, LapiFlips, LapiDecides
  <2> QED
    BY <1>2, <2>1 DEF TypeOK, LapiFlips, LapiDecides
<1>3. ASSUME Evict \/ PurgeCache PROVE TypeOK'
  <2>1. cache'.from = 0 /\ cache'.expires = 0 /\ cache'.ttl = 0
    BY <1>3 DEF Evict, PurgeCache, NoEntry
  <2>2. gen \in Nat /\ clock \in Nat
    BY DEF TypeOK, Gen
  <2> QED
    BY <1>3, <2>1, <2>2 DEF TypeOK, Evict, PurgeCache
<1>4. ASSUME ReloadProbe PROVE TypeOK'
  BY <1>4, GenGrows DEF TypeOK, ReloadProbe, Gen
<1>5. ASSUME PublishHealthy \/ PublishBouncer \/ PublishTTL PROVE TypeOK'
  <2>1. crowdsecHealthy' \in BOOLEAN
    BY <1>5, Zenon DEF TypeOK, PublishHealthy, PublishBouncer, PublishTTL
  <2>2. bouncer' \in 1..gen /\ cacheTTL' \in 1..gen
    BY <1>5 DEF TypeOK, PublishHealthy, PublishBouncer, PublishTTL, Gen
  <2> QED
    BY <1>5, <2>1, <2>2, Zenon DEF TypeOK, PublishHealthy, PublishBouncer, PublishTTL
<1>6. ASSUME RestartHealthChecks PROVE TypeOK'
  <2>1. stop' \in [Gen -> BOOLEAN]
    <3>1. \A g \in Gen : Cancelled(g) \in BOOLEAN
      BY DEF Cancelled
    <3> QED
      BY <1>6, <3>1, Zenon DEF RestartHealthChecks
  <2>2. checker' \in [Gen -> {"none", "wait", "probe", "ok", "err", "stopped"}]
    BY <1>6, Zenon DEF RestartHealthChecks, TypeOK
  <2> QED
    BY <1>6, <2>1, <2>2, Zenon DEF TypeOK, RestartHealthChecks
<1>7. ASSUME NEW g \in Gen, CheckerTick(g) \/ CheckerAnswer(g) \/ CheckerStops(g) PROVE TypeOK'
  <2>1. checker' \in [Gen -> {"none", "wait", "probe", "ok", "err", "stopped"}]
    BY <1>7, Zenon DEF CheckerTick, CheckerAnswer, CheckerStops, TypeOK
  <2> QED
    BY <1>7, <2>1, Zenon DEF TypeOK, CheckerTick, CheckerAnswer, CheckerStops
<1>8. ASSUME NEW g \in Gen, CheckerStore(g) PROVE TypeOK'
  <2>1. checker' \in [Gen -> {"none", "wait", "probe", "ok", "err", "stopped"}]
    BY <1>8, Zenon DEF CheckerStore, TypeOK
  <2>2. crowdsecHealthy' \in BOOLEAN
    BY <1>8, Zenon DEF CheckerStore, HealthAfterProbe
  <2> QED
    BY <1>8, <2>1, <2>2, Zenon DEF TypeOK, CheckerStore
<1>9. ASSUME NEW r \in Request, LoadBouncer(r) \/ LoadTTL(r) PROVE TypeOK'
  <2>1. bnc' \in [Request -> 0..gen]
    <3>1. bouncer \in 0..gen
      BY DEF TypeOK, Gen
    <3>2. bnc \in [Request -> 0..gen]
      BY Zenon DEF TypeOK
    <3> QED
      BY <1>9, <3>1, <3>2, Zenon DEF LoadBouncer, LoadTTL
  <2>2. pc' \in [Request -> {"ttl", "get", "query", "store", "add", "done"}]
    BY <1>9, Zenon DEF TypeOK, LoadBouncer, LoadTTL
  <2> QED
    BY <1>9, <2>1, <2>2, Zenon DEF TypeOK, LoadBouncer, LoadTTL
<1>10. ASSUME NEW r \in Request, CacheGet(r) PROVE TypeOK'
  BY <1>10, ReturnTypes, Zenon DEF TypeOK, CacheGet
<1>11. ASSUME NEW r \in Request, Query(r) PROVE TypeOK'
  <2>1. ans' \in [Request -> {"none", "clean", "banned", "err"}] /\ changes' \in 0..MaxChanges
    BY <1>11 DEF Query, TypeOK
  <2> QED
    BY <1>11, <2>1, Zenon DEF TypeOK, Query
<1>12. ASSUME NEW r \in Request, StoreHealth(r) PROVE TypeOK'
  <2>1. crowdsecHealthy' \in BOOLEAN
    BY <1>12, Zenon DEF StoreHealth
  <2> QED
    BY <1>12, <2>1, ReturnTypes, Zenon DEF TypeOK, StoreHealth
<1>13. ASSUME NEW r \in Request, CacheAdd(r) PROVE TypeOK'
  <2>1. cache'.from = bnc[r] /\ cache'.expires = now[r] + ttl[r] /\ cache'.ttl = ttl[r]
    BY <1>13, Zenon DEF CacheAdd, Expires
  <2>2. cache'.from \in 0..gen /\ cache'.expires \in 0..(clock + cache'.ttl)
    BY <2>1 DEF TypeOK, RequestInv
  <2> QED
    BY <1>13, <2>2, ReturnTypes, Zenon DEF TypeOK, CacheAdd
<1>14. ASSUME UNCHANGED vars PROVE TypeOK'
  BY <1>14, Zenon DEF TypeOK, vars
<1> QED
  BY <1>1, <1>2, <1>3, <1>4, <1>5, <1>6, <1>7, <1>8, <1>9, <1>10, <1>11, <1>12, <1>13, <1>14,
     Zenon
     DEF Next, ReloadStep, CheckerStep, RequestStep

-----------------------------------------------------------------------------
LEMMA StepInv == IInv /\ [Next]_vars => IInv'
  BY TypeKept, RequestKept, CacheKept, VerdictKept, CheckerKept, Zenon DEF IInv

LEMMA Invariance == Spec => []IInv
  BY InitInv, StepInv, PTL DEF Spec

\* crowdSecBanned never uses an answer of LAPI that is as old as the cache_ttl it
\* was stored under, however slow the query was and whatever a reload changed
\* between the reads of the bouncer, the lifetime and the cache.
THEOREM CachedDecisionsFresh == Spec => []DecisionFresh
<1>1. IInv => DecisionFresh
  BY Zenon DEF IInv, VerdictInv, DecisionFresh
<1> QED
  BY <1>1, Invariance, PTL

\* Between reloads exactly one background checker is live, that of the published
\* bouncer: restartHealthChecks leaves none of the earlier ones uncancelled.
THEOREM CheckersDoNotPileUp == Spec => []OneLiveChecker
<1>1. IInv => OneLiveChecker
  <2> SUFFICES ASSUME IInv, rl = "idle"
               PROVE  {g \in Gen : checker[g] \in {"wait", "probe", "ok", "err"} /\ ~stop[g]} = {gen}
    BY Zenon DEF OneLiveChecker
  <2>1. Newest = gen /\ gen \in Gen
    BY Zenon DEF IInv, TypeOK, Newest
  <2>2. ASSUME NEW g \in Gen
        PROVE  checker[g] \in {"wait", "probe", "ok", "err"} /\ ~stop[g] <=> g = gen
    BY <2>1 DEF IInv, TypeOK, CheckerInv, Gen
  <2> QED
    BY <2>1, <2>2, Zenon
<1> QED
  BY <1>1, Invariance, PTL
=============================================================================
