------------------------------ MODULE CrowdSec ------------------------------
(***************************************************************************)
(* The CrowdSec dependency of the WAF: the decision cache of               *)
(* crowdSecBanned, and crowdsecHealthy, the flag readiness reports, which  *)
(* request checks, the background checker of each published bouncer and    *)
(* Reload all write (internal/waf/middleware.go, config.go, readiness.go). *)
(*                                                                         *)
(* One client address is modelled: cache entries of different addresses do *)
(* not interact except by LRU eviction, which Evict stands for.  The       *)
(* configuration is fail-closed, so readiness depends on crowdsecHealthy.  *)
(***************************************************************************)
EXTENDS Integers, FiniteSets

CONSTANTS
  Request,    \* connections, each with one request after another
  MaxGen,     \* bound: published bouncers, the initial one included
  TTL,        \* generation -> crowdsec.cache_ttl
  MaxTime,    \* bound on the clock
  MaxChanges  \* bound: changes of LAPI's availability, of its decision, clients that go away

Gen == 1..MaxGen

ASSUME CrowdSecAssumption ==
  /\ MaxGen \in Nat \ {0}
  /\ TTL \in [Gen -> Nat]
  /\ MaxTime \in Nat /\ MaxChanges \in Nat

VARIABLES
  clock,
  lapiUp, lapiBans,   \* LAPI: reachable, and its decision on the client
  changes,
  gen,                \* generation of the latest reload
  crowdsecHealthy, bouncer, cacheTTL, \* published fields; the last two as generations
  cache,              \* the client's entry of crowdsecCache, or NoEntry
  rl,                 \* control of Reload's publication
  checker,            \* generation -> phase of its crowdSecHealthCheck
  stop,               \* generation -> its context is cancelled
  pc, bnc, ttl, now, ans, \* per request: control and locals of crowdSecBanned
  asked,              \* history, per request: when LAPI answered it
  verdict             \* per request: the result, with its age

lapi == <<lapiUp, lapiBans, changes>>
published == <<gen, crowdsecHealthy, bouncer, cacheTTL>>
checkers == <<checker, stop>>
local == <<pc, bnc, ttl, now, ans, asked, verdict>>
vars == <<clock, lapi, published, cache, rl, checkers, local>>

NoEntry == [banned |-> FALSE, expires |-> 0, from |-> 0, at |-> 0, ttl |-> 0]
NoVerdict == [banned |-> FALSE, age |-> 0, ttl |-> 1]

Init ==
  /\ clock = 0
  /\ lapiUp = TRUE
  /\ lapiBans \in BOOLEAN
  /\ changes = 0
  /\ gen = 1
  /\ crowdsecHealthy = TRUE
  /\ bouncer = 1
  /\ cacheTTL = 1
  /\ cache = NoEntry
  /\ rl = "idle"
  /\ checker = [g \in Gen |-> IF g = 1 THEN "wait" ELSE "none"]
  /\ stop = [g \in Gen |-> FALSE]
  /\ pc = [r \in Request |-> "done"]
  /\ bnc = [r \in Request |-> 0]
  /\ ttl = [r \in Request |-> 0]
  /\ now = [r \in Request |-> 0]
  /\ ans = [r \in Request |-> "none"]
  /\ asked = [r \in Request |-> 0]
  /\ verdict = [r \in Request |-> NoVerdict]

-----------------------------------------------------------------------------
\* Time, LAPI and the LRU

Tick ==
  /\ clock < MaxTime
  /\ clock' = clock + 1
  /\ UNCHANGED <<lapi, published, cache, rl, checkers, local>>

LapiFlips ==
  /\ changes < MaxChanges
  /\ changes' = changes + 1
  /\ lapiUp' = ~lapiUp
  /\ UNCHANGED <<clock, lapiBans, published, cache, rl, checkers, local>>

LapiDecides ==
  /\ changes < MaxChanges
  /\ changes' = changes + 1
  /\ lapiBans' = ~lapiBans
  /\ UNCHANGED <<clock, lapiUp, published, cache, rl, checkers, local>>

\* Entries of other addresses push this one out of the cache.
Evict ==
  /\ cache # NoEntry
  /\ cache' = NoEntry
  /\ UNCHANGED <<clock, lapi, published, rl, checkers, local>>

-----------------------------------------------------------------------------
\* Reload: the probe, then the stores of the publication that concern CrowdSec

\* In fail-closed mode a failed probe ends the reload.
ReloadProbe ==
  /\ rl = "idle" /\ gen < MaxGen
  /\ lapiUp
  /\ gen' = gen + 1
  /\ rl' = "healthy"
  /\ UNCHANGED <<clock, lapi, crowdsecHealthy, bouncer, cacheTTL, cache, checkers, local>>

PublishHealthy ==
  /\ rl = "healthy"
  /\ crowdsecHealthy' = TRUE
  /\ rl' = "bouncer"
  /\ UNCHANGED <<clock, lapi, gen, bouncer, cacheTTL, cache, checkers, local>>

PublishBouncer ==
  /\ rl = "bouncer"
  /\ bouncer' = gen
  /\ rl' = "ttl"
  /\ UNCHANGED <<clock, lapi, gen, crowdsecHealthy, cacheTTL, cache, checkers, local>>

PublishTTL ==
  /\ rl = "ttl"
  /\ cacheTTL' = gen
  /\ rl' = "purge"
  /\ UNCHANGED <<clock, lapi, gen, crowdsecHealthy, bouncer, cache, checkers, local>>

PurgeCache ==
  /\ rl = "purge"
  /\ cache' = NoEntry
  /\ rl' = "restart"
  /\ UNCHANGED <<clock, lapi, published, checkers, local>>

\* (Mutant: the old context is not cancelled.)
CancelsNone(g) == stop[g]

\* The contexts healthChecksStop has cancelled once the new one is in place.
Cancelled(g) == g < gen

\* restartHealthChecks cancels the context of the previous generation; the
\* checker of the new bouncer is started before runtimeMu is released.
RestartHealthChecks ==
  /\ rl = "restart"
  /\ stop' = [g \in Gen |-> Cancelled(g)]
  /\ checker' = [checker EXCEPT ![gen] = "wait"]
  /\ rl' = "idle"
  /\ UNCHANGED <<clock, lapi, published, cache, local>>

-----------------------------------------------------------------------------
\* crowdSecHealthCheck of generation g

CheckerTick(g) ==
  /\ checker[g] = "wait"
  /\ checker' = [checker EXCEPT ![g] = "probe"]
  /\ UNCHANGED <<clock, lapi, published, cache, rl, stop, local>>

\* bouncer.Get: a cancelled context is an error as well, unless the answer won.
CheckerAnswer(g) ==
  /\ checker[g] = "probe"
  /\ \/ lapiUp /\ checker' = [checker EXCEPT ![g] = "ok"]
     \/ (~lapiUp \/ stop[g]) /\ checker' = [checker EXCEPT ![g] = "err"]
  /\ UNCHANGED <<clock, lapi, published, cache, rl, stop, local>>

\* (Mutant: a good probe does not restore health.)
ProbeOnlyLowers(healthy, ok) == healthy /\ ok
\* crowdsecHealthy.Store(err == nil)
HealthAfterProbe(healthy, ok) == ok

CheckerStore(g) ==
  /\ checker[g] \in {"ok", "err"}
  /\ crowdsecHealthy' = HealthAfterProbe(crowdsecHealthy, checker[g] = "ok")
  /\ checker' = [checker EXCEPT ![g] = IF stop[g] THEN "stopped" ELSE "wait"]
  /\ UNCHANGED <<clock, lapi, gen, bouncer, cacheTTL, cache, rl, stop, local>>

CheckerStops(g) ==
  /\ checker[g] = "wait" /\ stop[g]
  /\ checker' = [checker EXCEPT ![g] = "stopped"]
  /\ UNCHANGED <<clock, lapi, published, cache, rl, stop, local>>

-----------------------------------------------------------------------------
\* A request's check: h.bouncer.Load in ServeHTTP, then crowdSecBanned

LoadBouncer(r) ==
  /\ pc[r] = "done"
  /\ verdict' = [verdict EXCEPT ![r] = NoVerdict]
  /\ bnc' = [bnc EXCEPT ![r] = bouncer]
  /\ pc' = [pc EXCEPT ![r] = "ttl"]
  /\ UNCHANGED <<clock, lapi, published, cache, rl, checkers, ttl, now, ans, asked>>

LoadTTL(r) ==
  /\ pc[r] = "ttl"
  /\ ttl' = [ttl EXCEPT ![r] = TTL[cacheTTL]]
  /\ now' = [now EXCEPT ![r] = clock]
  /\ pc' = [pc EXCEPT ![r] = "get"]
  /\ UNCHANGED <<clock, lapi, published, cache, rl, checkers, bnc, ans, asked, verdict>>

\* (Mutant: the expiry instant still counts.)
HitLate(r) == ttl[r] > 0 /\ cache # NoEntry /\ now[r] <= cache.expires

\* now.Before(decision.expires)
Hit(r) == ttl[r] > 0 /\ cache # NoEntry /\ now[r] < cache.expires

\* The request leaves crowdSecBanned: its locals are gone, and the connection is
\* ready for the next.
Return(r) ==
  /\ pc' = [pc EXCEPT ![r] = "done"]
  /\ bnc' = [bnc EXCEPT ![r] = 0]
  /\ ttl' = [ttl EXCEPT ![r] = 0]
  /\ now' = [now EXCEPT ![r] = 0]
  /\ ans' = [ans EXCEPT ![r] = "none"]
  /\ asked' = [asked EXCEPT ![r] = 0]

CacheGet(r) ==
  /\ pc[r] = "get"
  /\ IF Hit(r)
     THEN /\ verdict' = [verdict EXCEPT ![r] =
               [banned |-> cache.banned, age |-> now[r] - cache.at, ttl |-> cache.ttl]]
          /\ Return(r)
     ELSE pc' = [pc EXCEPT ![r] = "query"] /\ UNCHANGED <<bnc, ttl, now, ans, asked, verdict>>
  /\ UNCHANGED <<clock, lapi, published, cache, rl, checkers>>

\* bouncer.Get under a context derived from the request's: it fails when LAPI is
\* down and when the client goes away; either way crowdsecHealthy is lowered.
Query(r) ==
  /\ pc[r] = "query"
  /\ \/ lapiUp /\ ans' = [ans EXCEPT ![r] = IF lapiBans THEN "banned" ELSE "clean"] /\ UNCHANGED changes
     \/ ~lapiUp /\ ans' = [ans EXCEPT ![r] = "err"] /\ UNCHANGED changes
     \/ changes < MaxChanges /\ changes' = changes + 1 /\ ans' = [ans EXCEPT ![r] = "err"]
  /\ verdict' = [verdict EXCEPT ![r] = [banned |-> ans'[r] = "banned", age |-> 0, ttl |-> 1]]
  /\ asked' = [asked EXCEPT ![r] = clock]
  /\ pc' = [pc EXCEPT ![r] = "store"]
  /\ UNCHANGED <<clock, lapiUp, lapiBans, published, cache, rl, checkers, bnc, ttl, now>>

StoreHealth(r) ==
  /\ pc[r] = "store"
  /\ crowdsecHealthy' = (ans[r] # "err")
  /\ IF ans[r] # "err" /\ ttl[r] > 0
     THEN pc' = [pc EXCEPT ![r] = "add"] /\ UNCHANGED <<bnc, ttl, now, ans, asked>>
     ELSE Return(r)
  /\ UNCHANGED <<clock, lapi, gen, bouncer, cacheTTL, cache, rl, checkers, verdict>>

\* now.Add(ttl), where now was read before the query
Expires(r) == now[r] + ttl[r]

CacheAdd(r) ==
  /\ pc[r] = "add"
  /\ cache' = [banned |-> ans[r] = "banned", expires |-> Expires(r),
               from |-> bnc[r], at |-> asked[r], ttl |-> ttl[r]]
  /\ Return(r)
  /\ UNCHANGED <<clock, lapi, published, rl, checkers, verdict>>

-----------------------------------------------------------------------------
ReloadStep ==
  \/ PublishHealthy \/ PublishBouncer \/ PublishTTL \/ PurgeCache \/ RestartHealthChecks

CheckerStep(g) == CheckerTick(g) \/ CheckerAnswer(g) \/ CheckerStore(g) \/ CheckerStops(g)

RequestStep(r) ==
  \/ LoadBouncer(r) \/ LoadTTL(r) \/ CacheGet(r) \/ Query(r) \/ StoreHealth(r) \/ CacheAdd(r)

Next ==
  \/ Tick \/ LapiFlips \/ LapiDecides \/ Evict \/ ReloadProbe \/ ReloadStep
  \/ \E g \in Gen : CheckerStep(g)
  \/ \E r \in Request : RequestStep(r)

Spec == Init /\ [][Next]_vars

\* The goroutines of the program make progress: tickers fire, queries end
\* within securityDependencyTimeout.
FairSpec ==
  /\ Spec
  /\ WF_vars(ReloadStep)
  /\ \A g \in Gen : WF_vars(CheckerStep(g))
  /\ \A r \in Request : WF_vars(RequestStep(r))
-----------------------------------------------------------------------------
\* The variables stay in their ranges; no entry outlives its cache_ttl from now.
TypeOK ==
  /\ clock \in 0..MaxTime
  /\ lapiUp \in BOOLEAN /\ lapiBans \in BOOLEAN
  /\ changes \in 0..MaxChanges
  /\ gen \in Gen /\ bouncer \in 1..gen /\ cacheTTL \in 1..gen
  /\ crowdsecHealthy \in BOOLEAN
  /\ cache.from \in 0..gen /\ cache.expires \in 0..(clock + cache.ttl)
  /\ rl \in {"idle", "healthy", "bouncer", "ttl", "purge", "restart"}
  /\ checker \in [Gen -> {"none", "wait", "probe", "ok", "err", "stopped"}]
  /\ stop \in [Gen -> BOOLEAN]
  /\ pc \in [Request -> {"ttl", "get", "query", "store", "add", "done"}]
  /\ bnc \in [Request -> 0..gen]
  /\ ans \in [Request -> {"none", "clean", "banned", "err"}]

\* A cached decision is used only while LAPI's answer is younger than the
\* cache_ttl it was stored under, however long the query, the reload and other
\* requests took in between; no entry outlives that cache_ttl (TypeOK).
DecisionFresh ==
  /\ TypeOK
  /\ \A r \in Request : pc[r] = "done" => verdict[r].age < verdict[r].ttl

\* At most one background checker is left running per published bouncer, and
\* only the newest is not cancelled: reloads do not pile up live checkers.
OneLiveChecker ==
  rl = "idle" => {g \in Gen : checker[g] \in {"wait", "probe", "ok", "err"} /\ ~stop[g]} = {gen}

\* An outage that lasts is eventually reported by crowdsecHealthy for good,
\* although answers from before it may still be stored late.
OutageNoticed == <>[]~lapiUp => <>[]~crowdsecHealthy

\* A recovery that lasts is eventually reported for good, although checks that
\* failed or were cancelled before may still be stored late.
RecoveryNoticed == <>[]lapiUp => <>[]crowdsecHealthy

\* However the stores of requests, checkers and Reload interleave, crowdsecHealthy
\* ends up as LAPI does.
HealthSettles == OutageNoticed /\ RecoveryNoticed

=============================================================================
