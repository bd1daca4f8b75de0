---------------------------- MODULE UpstreamPool ----------------------------
(***************************************************************************)
(* One tenant's upstream pool: round-robin selection, the passive circuit  *)
(* breaker and the active health checks (internal/waf/middleware.go).      *)
(*                                                                         *)
(* Every field of TenantState and UpstreamServer is an atomic, and no lock *)
(* covers a selection, so each atomic operation is a step of its own and   *)
(* requests interleave between any two of them.                            *)
(*                                                                         *)
(* Time is counted in ticks, TicksPerSecond of them to a second, because   *)
(* the code keeps deadUntil in whole Unix seconds.  The round-robin        *)
(* counter is kept modulo N, which is exact but for the wrap of the 64-bit *)
(* counter when N is no power of two.  consecutiveFailures saturates at    *)
(* Threshold: larger values are told apart by nothing short of the wrap of *)
(* the 32-bit counter.                                                     *)
(***************************************************************************)
EXTENDS Integers

CONSTANTS
  Request,         \* request goroutines; each serves one request after another
  N,               \* number of upstreams of the tenant
  Threshold,       \* circuit_breaker.threshold
  Cooldown,        \* circuit_breaker.cooldown, in ticks (zero already defaulted)
  TicksPerSecond,
  Flapping,        \* bound: the upstreams whose server goes up and down
  FailUntil,       \* bound: upstreams answer with failures up to this tick
  MaxTime          \* bound: the clock stops here

ASSUME PoolAssumption ==
  /\ N \in Nat \ {0}
  /\ Threshold \in Nat \ {0}
  /\ Cooldown \in Nat \ {0}
  /\ TicksPerSecond \in Nat \ {0}
  /\ Flapping \subseteq 0..(N - 1)
  /\ FailUntil \in Nat
  /\ MaxTime \in Nat

VARIABLES
  clock,
  counter,              \* TenantState.counter
  isHealthy,            \* per upstream, written by its health-check goroutine
  consecutiveFailures,
  deadUntil,            \* Unix seconds; 0 is "not tripped"
  serverUp,             \* environment: what an active check would find
  check,                \* per upstream: the answer its health check is about to apply
  pc, now, tries, up,   \* per request: control, selectUpstream's locals
  loaded,               \* per request: the deadUntil it has read and is about to clear
  avail,                \* history: upstreams eligible to it ever since the selection began
  cooling,              \* history: upstreams in their cooldown ever since it began
  crowded,              \* history: another selection overlapped this one
  coolUntil,            \* history: tick at which the latest trip's cooldown ends, 0 if over
  shortened             \* history: a racing store overwrote the deadUntil of that trip

pool == <<clock, counter, isHealthy, consecutiveFailures, deadUntil, serverUp, check>>
local == <<pc, now, tries, up, loaded>>
history == <<avail, cooling, crowded, coolUntil, shortened>>
vars == <<pool, local, history>>

Upstream == 0..(N - 1)

Selecting == {"pick", "load", "clear", "health"}
Control == Selecting \cup {"idle", "none", "proxy", "record", "trip", "store"}

\* time.Time.Unix: whole seconds, rounded down.
Unix(t) == t \div TicksPerSecond

\* By the clock that r's selection goes by.
Eligible(r, u) == isHealthy[u] /\ deadUntil[u] <= now[r]
Cooling(u) == clock < coolUntil[u]

Goto(r, l) == pc' = [pc EXCEPT ![r] = l]

\* The request is answered and the locals of its goroutine are gone.
Finish(r) ==
  /\ Goto(r, "idle")
  /\ now' = [now EXCEPT ![r] = 0]
  /\ tries' = [tries EXCEPT ![r] = 0]
  /\ up' = [up EXCEPT ![r] = 0]

-----------------------------------------------------------------------------
\* The history variables, updated by every step.

\* What a selection that began earlier still remembers; a fresh one starts from
\* everything.
Since(r, old) == IF pc[r] = "idle" THEN Upstream ELSE old[r]

\* Request r leaves label l, acting on upstream u.
Leaves(r, l, u) == pc[r] = l /\ pc'[r] # l /\ up[r] = u

\* The cooldown ends that this step stores for u, and the one already running.
CooldownEnds(u) ==
  {now[r] + Cooldown : r \in {q \in Request : Leaves(q, "store", u)}} \cup {coolUntil[u]}

\* This step overwrites deadUntil[u] with 0 although it is no longer the value
\* read, or with an earlier end than the one stored.
RacingStore(u) ==
  \E r \in Request :
    \/ Leaves(r, "clear", u) /\ deadUntil[u] # loaded[r]
    \/ Leaves(r, "store", u) /\ Unix(now[r] + Cooldown) < deadUntil[u]

History ==
  /\ coolUntil' = [u \in Upstream |->
       LET end == CHOOSE e \in CooldownEnds(u) : \A f \in CooldownEnds(u) : f <= e
       IN IF clock' < end THEN end ELSE 0]
  /\ shortened' = [u \in Upstream |->
       Cooling(u)' /\ (shortened[u] \/ RacingStore(u))]
  /\ avail' = [r \in Request |->
       CASE pc'[r] \in Selecting -> {u \in Since(r, avail) : Eligible(r, u)'}
         [] pc'[r] = "none" -> avail[r]
         [] OTHER -> {}]
  /\ cooling' = [r \in Request |->
       CASE pc'[r] \in Selecting -> {u \in Since(r, cooling) : Cooling(u)'}
         [] pc'[r] = "proxy" -> {u \in cooling[r] : Cooling(u)'}
         [] OTHER -> {}]
  /\ crowded' = [r \in Request |->
       CASE pc'[r] \in Selecting -> \/ pc[r] \in Selecting /\ crowded[r]
                                    \/ \E q \in Request \ {r} : pc'[q] \in Selecting
         [] pc'[r] = "none" -> crowded[r]
         [] OTHER -> FALSE]

-----------------------------------------------------------------------------
\* The clock starts a full second after the epoch, so that 0 is never a time.
\* The tenant's upstreams have been probed before it was published.
Init ==
  /\ clock = TicksPerSecond
  /\ counter = 0
  /\ serverUp \in [Upstream -> BOOLEAN]
  /\ isHealthy = serverUp
  /\ consecutiveFailures = [u \in Upstream |-> 0]
  /\ deadUntil = [u \in Upstream |-> 0]
  /\ check = [u \in Upstream |-> "waiting"]
  /\ pc = [r \in Request |-> "idle"]
  /\ now = [r \in Request |-> 0]
  /\ tries = [r \in Request |-> 0]
  /\ up = [r \in Request |-> 0]
  /\ loaded = [r \in Request |-> 0]
  /\ avail = [r \in Request |-> {}]
  /\ cooling = [r \in Request |-> {}]
  /\ crowded = [r \in Request |-> FALSE]
  /\ coolUntil = [u \in Upstream |-> 0]
  /\ shortened = [u \in Upstream |-> FALSE]

Tick ==
  /\ clock < MaxTime
  /\ clock < FailUntil \/ \A r \in Request : pc[r] \notin {"record", "trip", "store"}
  /\ clock' = clock + 1
  /\ UNCHANGED <<counter, isHealthy, consecutiveFailures, deadUntil, serverUp, check, local>>
  /\ History

ServerChange(u) ==
  /\ u \in Flapping
  /\ serverUp' = [serverUp EXCEPT ![u] = ~@]
  /\ UNCHANGED <<clock, counter, isHealthy, consecutiveFailures, deadUntil, check, local>>
  /\ History

-----------------------------------------------------------------------------
\* selectUpstream

\* ServeHTTP calls selectUpstream, which reads the clock once.
SelectStart(r) ==
  /\ pc[r] = "idle"
  /\ now' = [now EXCEPT ![r] = Unix(clock)]
  /\ Goto(r, "pick")
  /\ UNCHANGED <<pool, tries, up, loaded>>
  /\ History

\* The loop runs once per upstream.  (Mutant: one attempt short.)
AttemptsShort == N - 1

Attempts == N

\* Where the shared counter moves.
NextIndex(c) == (c + 1) % N

\* Head of the loop: nil after N attempts, otherwise the shared counter moves on.
Pick(r) ==
  /\ pc[r] = "pick"
  /\ IF tries[r] = Attempts
     THEN Goto(r, "none") /\ UNCHANGED <<counter, tries, up>>
     ELSE /\ counter' = NextIndex(counter)
          /\ up' = [up EXCEPT ![r] = counter']
          /\ tries' = [tries EXCEPT ![r] = @ + 1]
          /\ Goto(r, "load")
  /\ UNCHANGED <<clock, isHealthy, consecutiveFailures, deadUntil, serverUp, check, now, loaded>>
  /\ History

\* What a selection at time t does with an upstream whose deadUntil is d.
\* (Mutants: the last second of the cooldown is given away; an expired cooldown
\* is never cleared.)
AfterLoadEarly(d, t) ==
  IF d = 0 THEN "health" ELSE IF t + 1 < d THEN "pick" ELSE "clear"

AfterLoadStuck(d, t) == IF d = 0 THEN "health" ELSE "pick"

AfterLoad(d, t) == IF d = 0 THEN "health" ELSE IF t < d THEN "pick" ELSE "clear"

LoadDeadUntil(r) ==
  LET d == deadUntil[up[r]] IN
  /\ pc[r] = "load"
  /\ Goto(r, AfterLoad(d, now[r]))
  /\ loaded' = [loaded EXCEPT ![r] = IF pc'[r] = "clear" THEN d ELSE 0]
  /\ UNCHANGED <<pool, now, tries, up>>
  /\ History

\* Cooldown expired, try again.
ClearDeadUntil(r) ==
  /\ pc[r] = "clear"
  /\ deadUntil' = [deadUntil EXCEPT ![up[r]] = 0]
  /\ loaded' = [loaded EXCEPT ![r] = 0]
  /\ Goto(r, "health")
  /\ UNCHANGED <<clock, counter, isHealthy, consecutiveFailures, serverUp, check, now, tries, up>>
  /\ History

LoadIsHealthy(r) ==
  /\ pc[r] = "health"
  /\ Goto(r, IF isHealthy[up[r]] THEN "proxy" ELSE "pick")
  /\ UNCHANGED <<pool, now, tries, up, loaded>>
  /\ History

\* selectUpstream returned nil: the request is answered with 503.
ServiceUnavailable(r) ==
  /\ pc[r] = "none"
  /\ Finish(r)
  /\ UNCHANGED <<pool, loaded>>
  /\ History

-----------------------------------------------------------------------------
\* The proxied request and the breaker

\* ModifyResponse with a status outside failure_status_codes.
ResponseSuccess(r) ==
  /\ pc[r] = "proxy"
  /\ serverUp[up[r]]
  /\ consecutiveFailures' = [consecutiveFailures EXCEPT ![up[r]] = 0]
  /\ Finish(r)
  /\ UNCHANGED <<loaded, clock, counter, isHealthy, deadUntil, serverUp, check>>
  /\ History

\* ModifyResponse with a failure status, or ErrorHandler after a connection
\* failure: recordUpstreamFailure follows.
ResponseFailure(r) ==
  /\ pc[r] = "proxy"
  /\ clock <= FailUntil
  /\ Goto(r, "record")
  /\ UNCHANGED <<pool, now, tries, up, loaded>>
  /\ History

\* ErrorHandler when the client went away: not a failure of the upstream.
ClientCancelled(r) ==
  /\ pc[r] = "proxy"
  /\ Finish(r)
  /\ UNCHANGED <<pool, loaded>>
  /\ History

\* recordUpstreamFailure: the failure count ...
RecordFailure(r) ==
  LET fails == consecutiveFailures[up[r]] + 1 IN
  /\ pc[r] = "record"
  /\ consecutiveFailures' =
       [consecutiveFailures EXCEPT ![up[r]] = IF fails > Threshold THEN Threshold ELSE fails]
  /\ IF fails >= Threshold
     THEN Goto(r, "trip") /\ UNCHANGED <<now, tries, up>>
     ELSE Finish(r)
  /\ UNCHANGED <<loaded, clock, counter, isHealthy, deadUntil, serverUp, check>>
  /\ History

\* ... and, at the threshold, the end of the cooldown: the clock is read again
\* (the local now holds the tick here) ...
TripClock(r) ==
  /\ pc[r] = "trip"
  /\ now' = [now EXCEPT ![r] = clock]
  /\ Goto(r, "store")
  /\ UNCHANGED <<pool, tries, up, loaded>>
  /\ History

\* (Mutant: the cooldown is added twice.)
CooldownEndTwice(t) == Unix(t + Cooldown + Cooldown)

CooldownEnd(t) == Unix(t + Cooldown)

\* ... and stored.
TripBreaker(r) ==
  /\ pc[r] = "store"
  /\ deadUntil' = [deadUntil EXCEPT ![up[r]] = CooldownEnd(now[r])]
  /\ Finish(r)
  /\ UNCHANGED <<loaded, clock, counter, isHealthy, consecutiveFailures, serverUp, check>>
  /\ History

-----------------------------------------------------------------------------
\* Active health checks: one goroutine per upstream, performCheck on each tick

CheckUpstream(u) ==
  /\ check[u] = "waiting"
  /\ check' = [check EXCEPT ![u] = IF serverUp[u] THEN "ok" ELSE "error"]
  /\ UNCHANGED <<clock, counter, isHealthy, consecutiveFailures, deadUntil, serverUp, local>>
  /\ History

\* (Mutant: an upstream that is back up is not marked so.)
HealthAfterDownOnly(healthy, answer) == healthy /\ answer = "ok"

HealthAfter(healthy, answer) == answer = "ok"

ApplyCheck(u) ==
  /\ check[u] # "waiting"
  /\ isHealthy' = [isHealthy EXCEPT ![u] = HealthAfter(@, check[u])]
  /\ check' = [check EXCEPT ![u] = "waiting"]
  /\ UNCHANGED <<clock, counter, consecutiveFailures, deadUntil, serverUp, local>>
  /\ History

-----------------------------------------------------------------------------
RequestStep(r) ==
  \/ SelectStart(r)
  \/ Pick(r)
  \/ LoadDeadUntil(r)
  \/ ClearDeadUntil(r)
  \/ LoadIsHealthy(r)
  \/ ServiceUnavailable(r)
  \/ ResponseSuccess(r)
  \/ ResponseFailure(r)
  \/ ClientCancelled(r)
  \/ RecordFailure(r)
  \/ TripClock(r)
  \/ TripBreaker(r)

Next ==
  \/ Tick
  \/ \E u \in Upstream : ServerChange(u) \/ CheckUpstream(u) \/ ApplyCheck(u)
  \/ \E r \in Request : RequestStep(r)

Spec == Init /\ [][Next]_vars

\* The clock runs, the tickers of the health checks fire, and every request
\* goroutine goes on; traffic never ends (SelectStart is part of RequestStep).
FairSpec ==
  /\ Spec
  /\ WF_vars(Tick)
  /\ \A u \in Upstream : WF_vars(CheckUpstream(u) \/ ApplyCheck(u))
  /\ \A r \in Request : WF_vars(RequestStep(r))

-----------------------------------------------------------------------------
\* The program's own variables stay in their ranges: indices are indices, the
\* failure count stays within its cap, times are times.
ProgramTypeOK ==
  /\ clock \in Nat
  /\ counter \in Upstream
  /\ isHealthy \in [Upstream -> BOOLEAN]
  /\ consecutiveFailures \in [Upstream -> 0..Threshold]
  /\ deadUntil \in [Upstream -> Nat]
  /\ serverUp \in [Upstream -> BOOLEAN]
  /\ check \in [Upstream -> {"waiting", "ok", "error"}]
  /\ pc \in [Request -> Control]
  /\ now \in [Request -> Nat]
  /\ tries \in [Request -> 0..N]
  /\ up \in [Request -> Upstream]
  /\ loaded \in [Request -> Nat]

\* A selection that no other selection overlapped answers 503 only if no
\* upstream was eligible from its beginning to its end: the N attempts of
\* selectUpstream then visit every upstream, whatever the health checks and the
\* responses of earlier requests do meanwhile.
SoloSelectionFinds ==
  \A r \in Request : pc[r] = "none" /\ ~crowded[r] => avail[r] = {}

\* An upstream that recordUpstreamFailure tripped is skipped for the cooldown by
\* every request whose selection begins after the trip, with one exception: a
\* racing store that left deadUntil earlier than the latest trip put it, which is
\* another request's Store(0) of an older, expired value, or an older trip stored
\* late.  (Whole-second ticks.)
CooldownHonouredUnlessShortened ==
  \A r \in Request : pc[r] = "proxy" /\ up[r] \in cooling[r] => shortened[up[r]]

\* No interleaving of trips and clears locks an upstream out for longer than one
\* cooldown from now.
LockoutBounded ==
  \A u \in Upstream : deadUntil[u] <= Unix(clock + Cooldown)

\* A tripped breaker is cleared again, as long as traffic goes on: round robin
\* brings some selection to the upstream after its cooldown.
BreakerCloses ==
  \A u \in Upstream : deadUntil[u] # 0 ~> deadUntil[u] = 0

\* If an upstream stays up (or down) from some time on, the health checks end up
\* saying so, whatever a check in flight at the change still reports.
HealthFollowsServer ==
  \A u \in Upstream :
    /\ <>[]serverUp[u] => <>[]isHealthy[u]
    /\ <>[](~serverUp[u]) => <>[](~isHealthy[u])

\* An upstream comes back: neither the breaker nor the health flag keeps it out
\* for good.
UpstreamReturns == BreakerCloses /\ HealthFollowsServer
=============================================================================
