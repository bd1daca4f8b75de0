------------------------------ MODULE Runtime ------------------------------
(***************************************************************************)
(* The published runtime of the WAF: SafeWAFRegistry.Reload builds a       *)
(* candidate, opens its resources and publishes it field by field, while   *)
(* ServeHTTP reads the same fields without a lock, readiness reads them    *)
(* under runtimeMu, and Close tears the runtime down at shutdown           *)
(* (internal/waf/config.go, middleware.go, middleware_serve.go).           *)
(*                                                                         *)
(* Every reload is a generation; a published field holds the generation    *)
(* that stored it.  Settings gives what the decisions of a request depend  *)
(* on in each configuration.  The outcome of the rate limiters, of         *)
(* authentication and of content inspection is left open (a request may be *)
(* denied there); their state is modelled in modules of their own.         *)
(***************************************************************************)
EXTENDS Integers, Sequences, FiniteSets

CONSTANTS
  Host,        \* host names requests ask for
  Request,     \* request goroutines
  Config,      \* configurations the operator may write
  Settings,    \* Config -> record, see SettingsType
  Coordinator, \* Config -> coordinator section, or NoCoordinator
  NoCoordinator,
  Invalid,     \* content LoadConfig rejects
  MaxGen,      \* bound: reload attempts, the initial one included
  External     \* <<answer of CrowdSec, answer of the GeoIP database>> to choose from:
               \* "clean", "banned" or "down", and "allowed" or "blocked"

SettingsType ==
  [tenants : SUBSET Host,      \* tenant host names
   geo : SUBSET Host,          \* those with geoip_enabled
   crowd : SUBSET Host,        \* those with crowdsec_enabled
   blocks : BOOLEAN,           \* the client is on the global block list
   allows : BOOLEAN,           \* the client is on the global allow list
   closed : BOOLEAN,           \* security_dependency_failure_mode: fail_closed
   acme : BOOLEAN]             \* acme.enabled

ASSUME RuntimeAssumption ==
  /\ Settings \in [Config -> SettingsType]
  /\ \A c \in Config : Settings[c].geo \subseteq Settings[c].tenants
                    /\ Settings[c].crowd \subseteq Settings[c].tenants
  /\ \A c \in Config : Settings[c].tenants # {}
  /\ Invalid \notin Config
  /\ External \subseteq {"clean", "banned", "down"} \X {"allowed", "blocked"}
  /\ MaxGen \in Nat \ {0}

VARIABLES
  domainManager, \* progress of main.go to SetDomainManager
  managed,       \* hosts CertMagic manages certificates for
  refused,       \* history: hosts ManageAsync returned an error for
  gen,           \* generation of the latest reload
  cfg,           \* generation -> configuration
  live,          \* published field -> generation
  tenantStates,  \* host -> generation, 0 if there is no entry
  openGeo, openCoord, openTransport, \* generations whose resource is open
  rl,            \* control of the reload
  next,          \* the resources the running reload holds
  pub,           \* position in PublishOrder
  stopping,      \* cancelRun has been called
  closed,        \* progress of ProxyHandler.Close
  lapi, country,
  pc, host, entry, reader, allowlisted, verdict, \* per request: control, locals
  seen,          \* history: generations a request has read
  base,          \* history: generation published when it began
  disturbed      \* history: a publication overlapped it

acme == <<domainManager, managed, refused>>
published == <<live, tenantStates>>
resources == <<openGeo, openCoord, openTransport>>
reload == <<gen, cfg, rl, next, pub>>
shutdown == <<stopping, closed>>
env == <<lapi, country>>
request == <<pc, host, entry, reader, allowlisted, verdict, seen, base>>
vars == <<acme, published, resources, reload, shutdown, env, request, disturbed>>

Gen == 1..MaxGen
S(g) == Settings[cfg[g]]

\* (Mutant: the store of blockIPs forgotten.)
PublishOrderNoBlocklist ==
  <<"globalLimiter", "allowIPs", "trustedProxyCIDRs", "coordinator",
    "trustForwardedFor", "requestBodyLimit", "responseMaskingLimit", "dependencyMode",
    "crowdsecRequired", "crowdsecHealthy", "bouncer", "crowdsecCacheTTL", "geoIP",
    "healthChecks", "deleteStates", "storeStates", "mapping">>

\* (Mutant: the tenant mapping published before the rest.)
PublishOrderMappingFirst ==
  <<"mapping", "globalLimiter", "allowIPs", "blockIPs", "trustedProxyCIDRs", "coordinator",
    "trustForwardedFor", "requestBodyLimit", "responseMaskingLimit", "dependencyMode",
    "crowdsecRequired", "crowdsecHealthy", "bouncer", "crowdsecCacheTTL", "geoIP",
    "healthChecks", "deleteStates", "storeStates">>

\* The stores of Reload's publication in source order.  The two steps on
\* tenantStates touch one host at a time.
PublishOrder ==
  <<"globalLimiter", "allowIPs", "blockIPs", "trustedProxyCIDRs", "coordinator",
    "trustForwardedFor", "requestBodyLimit", "responseMaskingLimit", "dependencyMode",
    "crowdsecRequired", "crowdsecHealthy", "bouncer", "crowdsecCacheTTL", "geoIP",
    "healthChecks", "deleteStates", "storeStates", "mapping">>

Field ==
  {"globalLimiter", "allowIPs", "blockIPs", "trustedProxyCIDRs", "coordinator",
   "trustForwardedFor", "requestBodyLimit", "responseMaskingLimit", "dependencyMode",
   "crowdsecRequired", "crowdsecHealthy", "bouncer", "crowdsecCacheTTL", "geoIP",
   "healthChecks", "mapping"}

\* Who holds runtimeMu, and whether a reader holds geoMu.
Publishing == rl = "publish"
RuntimeMuFree == ~Publishing /\ closed # "half"
GeoMuFree == \A r \in Request : reader[r] = 0

NoResource == [geo |-> 0, coord |-> 0, oldCoord |-> 0, oldGeo |-> 0, added |-> {}]

\* Which generation's resource a field points to; 0 is nil.
GeoOf(g) == IF S(g).geo # {} THEN g ELSE 0
NilBouncer(g) == g = 0 \/ S(g).crowd = {}
CoordOf(g) == Coordinator[cfg[g]]

-----------------------------------------------------------------------------
\* run() serves only after the initial Reload has succeeded: generation 1 is
\* published.
Init ==
  /\ domainManager = "none"
  /\ managed = {}
  /\ refused = {}
  /\ gen = 1
  /\ \E c \in Config : cfg = [g \in Gen |-> c]
  /\ \E answers \in External : lapi = answers[1] /\ country = answers[2]
  /\ openGeo = {GeoOf(1)} \ {0}
  /\ openCoord = IF CoordOf(1) = NoCoordinator THEN {} ELSE {1}
  /\ openTransport = {1}
  /\ live = [f \in Field |->
       CASE f = "geoIP" -> GeoOf(1)
         [] f = "coordinator" -> IF CoordOf(1) = NoCoordinator THEN 0 ELSE 1
         [] OTHER -> 1]
  /\ tenantStates = [h \in Host |-> IF h \in S(1).tenants THEN 1 ELSE 0]
  /\ rl = "idle"
  /\ next = NoResource
  /\ pub = 1
  /\ stopping = FALSE
  /\ closed = "open"
  /\ pc = [r \in Request |-> "idle"]
  /\ host \in [Request -> Host]
  /\ entry = [r \in Request |-> 0]
  /\ reader = [r \in Request |-> 0]
  /\ allowlisted = [r \in Request |-> FALSE]
  /\ verdict = [r \in Request |-> "none"]
  /\ seen = [r \in Request |-> {}]
  /\ base = [r \in Request |-> 0]
  /\ disturbed = [r \in Request |-> FALSE]

\* A request is disturbed by every step of a publication or of Close.
Disturb ==
  disturbed' = [r \in Request |-> disturbed[r] \/ pc[r] \notin {"idle", "done"}]

-----------------------------------------------------------------------------
\* main.go

\* GetDomains and ManageSync, which the program waits for ...
ManageSync ==
  /\ domainManager = "none"
  /\ S(live["mapping"]).acme
  /\ domainManager' = "syncing"
  /\ managed' = S(live["mapping"]).tenants
  /\ UNCHANGED <<refused, published, resources, reload, shutdown, env, request, disturbed>>

\* ... and SetDomainManager, under reloadMu.
SetDomainManager ==
  /\ domainManager = "syncing"
  /\ rl = "idle"
  /\ domainManager' = "set"
  /\ UNCHANGED <<managed, refused, published, resources, reload, shutdown, env, request, disturbed>>

\* SIGTERM: cancelRun stops the watcher, but a Reload it is in goes on.
Stop ==
  /\ ~stopping
  /\ stopping' = TRUE
  /\ UNCHANGED <<acme, published, resources, reload, closed, env, request, disturbed>>

-----------------------------------------------------------------------------
\* Reload, up to the publication

\* (Mutant: a reload asks for no certificates.)
AddedDomainsNone(c) == {}

\* Tenants whose certificates the reload has to ask for.
AddedDomains(c) ==
  IF Settings[c].acme THEN Settings[c].tenants \ S(live["mapping"]).tenants ELSE {}

\* LoadConfig and the checks that need no resource.
AcceptsCandidate(c) ==
  /\ c # Invalid
  /\ Settings[c].acme = S(live["mapping"]).acme
  /\ AddedDomains(c) # {} => domainManager = "set"

\* The watcher calls Reload; c is what LoadConfig finds on disk.  The select of
\* the watcher may still choose its timer when the context is cancelled.
ReloadStart(c) ==
  /\ rl = "idle"
  /\ gen < MaxGen
  /\ gen' = gen + 1
  /\ IF AcceptsCandidate(c)
     THEN /\ rl' = "build"
          /\ cfg' = [cfg EXCEPT ![gen'] = c]
          /\ next' = [next EXCEPT !.added = AddedDomains(c)]
     ELSE UNCHANGED <<rl, cfg, next>>
  /\ UNCHANGED <<acme, published, resources, pub, shutdown, env, request, disturbed>>

\* (Mutant: the error paths leave the country reader open.)
ReloadFailLeak ==
  /\ rl' = "idle"
  /\ next' = NoResource
  /\ openTransport' = openTransport \ {gen}
  /\ UNCHANGED <<openGeo, openCoord>>

\* An error return: the deferred cleanup closes the candidate's transports, the
\* error paths after openCountryLookup close its reader.
ReloadFail ==
  /\ rl' = "idle"
  /\ next' = NoResource
  /\ openGeo' = openGeo \ {next.geo}
  /\ openTransport' = openTransport \ {gen}
  /\ UNCHANGED openCoord

\* One fresh transport per upstream of every tenant, owned by this candidate.
BuildTenantState == openTransport' = openTransport \cup {gen}

\* Coraza instances, block pages and buildTenantState for every tenant; any of
\* them may fail.
BuildTenants ==
  /\ rl = "build"
  /\ \/ rl' = "bouncer" /\ BuildTenantState /\ UNCHANGED <<next, openGeo, openCoord>>
     \/ ReloadFail
  /\ UNCHANGED <<acme, published, gen, cfg, pub, shutdown, env, request, disturbed>>

\* Bouncer Init and probe: an unanswered probe is an error in fail-closed mode.
\* LAPI may answer the probe and fail the requests' queries, or the other way.
InitBouncer ==
  /\ rl = "bouncer"
  /\ \/ rl' = "geo" /\ UNCHANGED <<next, resources>>
     \/ S(gen).crowd # {} /\ S(gen).closed /\ ReloadFail
  /\ UNCHANGED <<acme, published, gen, cfg, pub, shutdown, env, request, disturbed>>

OpenGeoIP ==
  /\ rl = "geo"
  /\ \/ /\ rl' = "coord"
        /\ next' = [next EXCEPT !.geo = GeoOf(gen)]
        /\ openGeo' = openGeo \cup ({GeoOf(gen)} \ {0})
        /\ UNCHANGED <<openCoord, openTransport>>
     \/ S(gen).geo # {} /\ ReloadFail
  /\ UNCHANGED <<acme, published, gen, cfg, pub, shutdown, env, request, disturbed>>

IsLeader(c) == c # NoCoordinator /\ c.role = "leader"

AddressFree(new) ==
  IsLeader(new) => \A g \in openCoord : IsLeader(CoordOf(g)) => CoordOf(g).address # new.address

\* ConfigureTLS and Start may fail for reasons of their own; Start certainly
\* fails on an address this process still listens on.
StartCoordinator ==
  LET old == live["coordinator"]
      new == CoordOf(gen)
      same == old # 0 /\ CoordOf(old) = new
  IN
  /\ rl = "coord"
  /\ \/ /\ new = NoCoordinator \/ same
        /\ rl' = "probe"
        /\ next' = [next EXCEPT !.coord = IF same THEN old ELSE 0]
        /\ UNCHANGED resources
     \/ /\ new # NoCoordinator /\ ~same
        /\ AddressFree(new)
        /\ rl' = "probe"
        /\ next' = [next EXCEPT !.coord = gen]
        /\ openCoord' = openCoord \cup {gen}
        /\ UNCHANGED <<openGeo, openTransport>>
     \/ /\ new # NoCoordinator
        /\ ReloadFail
  /\ UNCHANGED <<acme, published, gen, cfg, pub, shutdown, env, request, disturbed>>

\* probeTenantStates, then runtimeMu.Lock and the load of the old coordinator.
ProbeAndLock ==
  /\ rl = "probe"
  /\ RuntimeMuFree
  /\ rl' = "publish"
  /\ pub' = 1
  /\ next' = [next EXCEPT !.oldCoord = live["coordinator"]]
  /\ UNCHANGED <<acme, published, resources, gen, cfg, shutdown, env, request, disturbed>>

-----------------------------------------------------------------------------
\* Reload, the publication under runtimeMu

At(step) == rl = "publish" /\ pub <= Len(PublishOrder) /\ PublishOrder[pub] = step

PublishField ==
  /\ rl = "publish" /\ pub <= Len(PublishOrder)
  /\ LET f == PublishOrder[pub] IN
     /\ f \notin {"geoIP", "deleteStates", "storeStates"}
     /\ live' = [live EXCEPT ![f] = IF f = "coordinator" THEN next.coord ELSE gen]
  /\ pub' = pub + 1
  /\ Disturb
  /\ UNCHANGED <<acme, tenantStates, resources, gen, cfg, rl, next, shutdown, env, request>>

\* (Mutant: the reader is swapped without geoMu.)
GeoSwapUnlocked == TRUE

\* The swap of the reader under geoMu.
GeoSwapAllowed == GeoMuFree

PublishGeoIP ==
  /\ At("geoIP")
  /\ GeoSwapAllowed
  /\ live' = [live EXCEPT !["geoIP"] = next.geo]
  /\ next' = [next EXCEPT !.oldGeo = live["geoIP"]]
  /\ pub' = pub + 1
  /\ Disturb
  /\ UNCHANGED <<acme, tenantStates, resources, gen, cfg, rl, shutdown, env, request>>

\* replaceTenantStates: every old entry is deleted, then the new ones are stored.
DeleteState(h) ==
  /\ At("deleteStates")
  /\ tenantStates[h] # 0
  /\ tenantStates' = [tenantStates EXCEPT ![h] = 0]
  /\ Disturb
  /\ UNCHANGED <<acme, live, resources, reload, shutdown, env, request>>

StatesDeleted ==
  /\ At("deleteStates")
  /\ \A h \in Host : tenantStates[h] = 0
  /\ pub' = pub + 1
  /\ Disturb
  /\ UNCHANGED <<acme, published, resources, gen, cfg, rl, next, shutdown, env, request>>

StoreState(h) ==
  /\ At("storeStates")
  /\ h \in S(gen).tenants
  /\ tenantStates[h] # gen
  /\ tenantStates' = [tenantStates EXCEPT ![h] = gen]
  /\ Disturb
  /\ UNCHANGED <<acme, live, resources, reload, shutdown, env, request>>

\* closeTenantStates of the previous generation ends replaceTenantStates.
StatesStored ==
  /\ At("storeStates")
  /\ \A h \in S(gen).tenants : tenantStates[h] = gen
  /\ openTransport' = {gen}
  /\ pub' = pub + 1
  /\ Disturb
  /\ UNCHANGED <<acme, published, openGeo, openCoord, gen, cfg, rl, next, shutdown, env, request>>

\* The old coordinator, unless it is kept, and the old reader are closed and
\* runtimeMu is released.
CoordinatorsToClose == {next.oldCoord} \ {next.coord}

PublishEnd ==
  /\ rl = "publish" /\ pub > Len(PublishOrder)
  /\ openCoord' = openCoord \ CoordinatorsToClose
  /\ openGeo' = openGeo \ {next.oldGeo}
  /\ rl' = "domains"
  /\ pub' = 1
  /\ Disturb
  /\ UNCHANGED <<acme, published, openTransport, gen, cfg, next, shutdown, env, request>>

\* domainManager for the added domains; an error is logged.
ManageAdded ==
  /\ rl = "domains"
  /\ \/ managed' = managed \cup next.added /\ UNCHANGED refused
     \/ next.added # {} /\ refused' = refused \cup next.added /\ UNCHANGED managed
  /\ rl' = "idle"
  /\ next' = NoResource
  /\ UNCHANGED <<domainManager, published, resources, gen, cfg, pub, shutdown, env, request, disturbed>>

-----------------------------------------------------------------------------
\* ProxyHandler.Close

CloseCoordinator ==
  /\ stopping /\ closed = "open"
  /\ RuntimeMuFree
  /\ closed' = "half"
  /\ live' = [live EXCEPT !["healthChecks"] = 0, !["coordinator"] = 0]
  /\ openCoord' = openCoord \ {live["coordinator"]}
  /\ Disturb
  /\ UNCHANGED <<acme, tenantStates, openGeo, openTransport, reload, stopping, env, request>>

CloseGeoIP ==
  /\ closed = "half"
  /\ GeoMuFree
  /\ closed' = "closed"
  /\ live' = [live EXCEPT !["geoIP"] = 0]
  /\ openGeo' = openGeo \ {live["geoIP"]}
  /\ openTransport' = openTransport \ {live["mapping"]}
  /\ Disturb
  /\ UNCHANGED <<acme, tenantStates, openCoord, reload, stopping, env, request>>
-----------------------------------------------------------------------------
\* ServeHTTP, one action per read of published state

Outside == <<acme, published, resources, reload, shutdown, env, host>>

Goto(r, label) == pc' = [pc EXCEPT ![r] = label] /\ UNCHANGED verdict
Answer(r, v) == pc' = [pc EXCEPT ![r] = "done"] /\ verdict' = [verdict EXCEPT ![r] = v]
See(r, g) == seen' = [seen EXCEPT ![r] = @ \cup ({g} \ {0})]

\* ServeHTTP begins with h.trustedProxies().  With ACME the listeners open
\* after SetDomainManager.
Begin(r) ==
  /\ pc[r] = "idle"
  /\ S(live["mapping"]).acme => domainManager = "set"
  /\ ~stopping
  /\ base' = [base EXCEPT ![r] = live["mapping"]]
  /\ disturbed' = [disturbed EXCEPT ![r] = ~RuntimeMuFree]
  /\ See(r, live["trustedProxyCIDRs"])
  /\ Goto(r, "trust")
  /\ UNCHANGED <<Outside, entry, reader, allowlisted>>

ReadTrustForwardedFor(r) ==
  /\ pc[r] = "trust"
  /\ See(r, live["trustForwardedFor"])
  /\ Goto(r, "resolve")
  /\ UNCHANGED <<Outside, entry, reader, allowlisted, base, disturbed>>

\* registry.Get: the entry is resolved once and kept by the request.
Resolve(r) ==
  /\ pc[r] = "resolve"
  /\ See(r, live["mapping"])
  /\ entry' = [entry EXCEPT ![r] = live["mapping"]]
  /\ Goto(r, "blocklist")
  /\ UNCHANGED <<Outside, reader, allowlisted, base, disturbed>>

Blocklist(r) ==
  /\ pc[r] = "blocklist"
  /\ See(r, live["blockIPs"])
  /\ IF S(live["blockIPs"]).blocks THEN Answer(r, "blocked") ELSE Goto(r, "allowlist")
  /\ UNCHANGED <<Outside, entry, reader, allowlisted, base, disturbed>>

\* (Mutant: the allow list does not skip the country policy.)
ChecksCountryAlways(r, allow) == host[r] \in S(entry[r]).geo

\* The country policy applies to tenants that enable it, unless allow-listed.
ChecksCountry(r, allow) == ~allow /\ host[r] \in S(entry[r]).geo

Allowlist(r) ==
  LET allow == S(live["allowIPs"]).allows IN
  /\ pc[r] = "allowlist"
  /\ See(r, live["allowIPs"])
  /\ allowlisted' = [allowlisted EXCEPT ![r] = allow]
  /\ Goto(r, IF ChecksCountry(r, allow) THEN "geo" ELSE "limiter")
  /\ UNCHANGED <<Outside, entry, reader, base, disturbed>>

\* lookupCountry: the reader is used while geoMu is read-locked.
GeoBegin(r) ==
  /\ pc[r] = "geo"
  /\ reader' = [reader EXCEPT ![r] = live["geoIP"]]
  /\ See(r, live["geoIP"])
  /\ Goto(r, IF live["geoIP"] = 0 THEN "geoMode" ELSE "geoLookup")
  /\ UNCHANGED <<Outside, entry, allowlisted, base, disturbed>>

\* (Mutant: the blocked path returns without unlocking geoMu.)
GeoEndLocked(r) ==
  /\ pc[r] = "geoLookup"
  /\ reader' = [reader EXCEPT ![r] = IF country = "blocked" THEN @ ELSE 0]
  /\ IF country = "blocked" THEN Answer(r, "country") ELSE Goto(r, "limiter")
  /\ UNCHANGED <<Outside, entry, allowlisted, seen, base, disturbed>>

GeoEnd(r) ==
  /\ pc[r] = "geoLookup"
  /\ reader' = [reader EXCEPT ![r] = 0]
  /\ IF country = "blocked" THEN Answer(r, "country") ELSE Goto(r, "limiter")
  /\ UNCHANGED <<Outside, entry, allowlisted, seen, base, disturbed>>

\* getDependencyFailMode after a dependency was found missing or failing.
FailMode(r) ==
  /\ pc[r] \in {"geoMode", "crowdMode"}
  /\ See(r, live["dependencyMode"])
  /\ IF S(live["dependencyMode"]).closed
     THEN Answer(r, "dependency")
     ELSE Goto(r, IF pc[r] = "geoMode" THEN "limiter" ELSE "inspect")
  /\ UNCHANGED <<Outside, entry, reader, allowlisted, base, disturbed>>

GlobalLimiter(r) ==
  /\ pc[r] = "limiter"
  /\ IF allowlisted[r] THEN UNCHANGED seen ELSE See(r, live["globalLimiter"])
  /\ \/ ~allowlisted[r] /\ Answer(r, "denied")
     \/ IF host[r] \in S(entry[r]).tenants THEN Goto(r, "rate") ELSE Answer(r, "unknown_host")
  /\ UNCHANGED <<Outside, entry, reader, allowlisted, base, disturbed>>

\* allowRateLimitedRequest loads the coordinator; any coordinator, none, or one
\* closed in the meantime (which falls back to local buckets) can give either answer.
RateLimit(r) ==
  /\ pc[r] = "rate"
  /\ \/ ~allowlisted[r] /\ Answer(r, "denied")
     \/ Goto(r, "auth")
  /\ UNCHANGED <<Outside, entry, reader, allowlisted, seen, base, disturbed>>

\* validateJWT and checkBasicAuth read the request's own entry only.
Authenticate(r) ==
  /\ pc[r] = "auth"
  /\ \/ Answer(r, "denied")
     \/ Goto(r, IF host[r] \in S(entry[r]).crowd THEN "crowd" ELSE "inspect")
  /\ UNCHANGED <<Outside, entry, reader, allowlisted, seen, base, disturbed>>

\* (Mutant: a failed query is taken for a clean one.)
MissingWhenNil(b) == NilBouncer(b)

\* A nil bouncer and a failed query both lead to the failure mode.
NoDecision(b) == NilBouncer(b) \/ lapi = "down"

CrowdSec(r) ==
  /\ pc[r] = "crowd"
  /\ See(r, live["bouncer"])
  /\ IF NoDecision(live["bouncer"]) THEN Goto(r, "crowdMode")
     ELSE IF lapi = "banned" THEN Answer(r, "banned")
     ELSE Goto(r, "inspect")
  /\ UNCHANGED <<Outside, entry, reader, allowlisted, base, disturbed>>

Inspect(r) ==
  /\ pc[r] = "inspect"
  /\ IF allowlisted[r] THEN UNCHANGED seen ELSE See(r, live["requestBodyLimit"])
  /\ \/ ~allowlisted[r] /\ Answer(r, "denied")
     \/ Goto(r, "state")
  /\ UNCHANGED <<Outside, entry, reader, allowlisted, base, disturbed>>

\* tenantStates.Load, then the upstream of that state answers.
Proxy(r) ==
  /\ pc[r] = "state"
  /\ See(r, tenantStates[host[r]])
  /\ Answer(r, IF tenantStates[host[r]] = 0 THEN "no_backend" ELSE "proxied")
  /\ UNCHANGED <<Outside, entry, reader, allowlisted, base, disturbed>>

-----------------------------------------------------------------------------
ReloadStep ==
  \/ BuildTenants \/ InitBouncer \/ OpenGeoIP \/ StartCoordinator \/ ProbeAndLock
  \/ PublishField \/ PublishGeoIP \/ StatesDeleted \/ StatesStored \/ PublishEnd \/ ManageAdded
  \/ \E h \in Host : DeleteState(h) \/ StoreState(h)

RequestStep(r) ==
  \/ ReadTrustForwardedFor(r) \/ Resolve(r) \/ Blocklist(r) \/ Allowlist(r)
  \/ GeoBegin(r) \/ GeoEnd(r) \/ FailMode(r) \/ GlobalLimiter(r) \/ RateLimit(r)
  \/ Authenticate(r) \/ CrowdSec(r) \/ Inspect(r) \/ Proxy(r)

\* After Close, with no request and no reload left, the process exits.
Exited ==
  /\ closed = "closed" /\ rl = "idle"
  /\ \A r \in Request : pc[r] \in {"idle", "done"}
  /\ UNCHANGED vars

\* Everything but the start of a reload, which is the watcher's.
Elsewhere ==
  \/ ManageSync \/ Stop \/ ReloadStep
  \/ CloseCoordinator \/ CloseGeoIP
  \/ \E r \in Request : Begin(r) \/ RequestStep(r)
  \/ Exited

Next ==
  \/ \E c \in Config \cup {Invalid} : ReloadStart(c)
  \/ SetDomainManager
  \/ Elsewhere

Spec == Init /\ [][Next]_vars

-----------------------------------------------------------------------------
\* The program's variables stay in their ranges; published fields hold
\* generations that exist.
TypeOK ==
  /\ domainManager \in {"none", "syncing", "set"}
  /\ managed \subseteq Host /\ refused \subseteq Host
  /\ gen \in Gen
  /\ cfg \in [Gen -> Config]
  /\ live \in [Field -> 0..gen]
  /\ tenantStates \in [Host -> 0..gen]
  /\ openGeo \subseteq 1..gen /\ openCoord \subseteq 1..gen /\ openTransport \subseteq 1..gen
  /\ rl \in {"idle", "build", "bouncer", "geo", "coord", "probe", "publish", "domains"}
  /\ next \in [geo : 0..gen, coord : 0..gen, oldCoord : 0..gen, oldGeo : 0..gen, added : SUBSET Host]
  /\ pub \in 1..(Len(PublishOrder) + 1)
  /\ stopping \in BOOLEAN
  /\ closed \in {"open", "half", "closed"}
  /\ pc \in [Request -> {"idle", "trust", "resolve", "blocklist", "allowlist", "geo",
                         "geoLookup", "geoMode", "limiter", "rate", "auth", "crowd",
                         "crowdMode", "inspect", "state", "done"}]
  /\ host \in [Request -> Host]
  /\ entry \in [Request -> 0..gen]
  /\ reader \in [Request -> 0..gen]
  /\ allowlisted \in [Request -> BOOLEAN]

Configuration == Field \ {"coordinator", "geoIP", "healthChecks"}

\* Whenever runtimeMu is free, which is when ReadinessReport and the tests
\* look, the runtime is that of one generation: every configuration field, the
\* set of tenant states, and the kind of country reader and coordinator.
Untorn ==
  RuntimeMuFree =>
    LET g == live["mapping"] IN
    /\ \A f \in Configuration : live[f] = g
    /\ \A h \in Host : tenantStates[h] = IF h \in S(g).tenants THEN g ELSE 0
    /\ closed = "open" =>
         /\ live["geoIP"] = GeoOf(g)
         /\ live["healthChecks"] = g
         /\ IF CoordOf(g) = NoCoordinator THEN live["coordinator"] = 0
            ELSE live["coordinator"] # 0 /\ CoordOf(live["coordinator"]) = CoordOf(g)

\* Types, and the published runtime in one piece where it must be.
PublishedWhole == TypeOK /\ Untorn

\* Between reloads exactly the published resources are open: no reload, failed
\* at any of its steps or successful, leaks a GeoIP reader, a coordinator or a
\* tenant transport, and none closes one that is in use: a country lookup never
\* uses a reader that Reload or Close has closed.
ResourcesMatchPublished ==
  /\ rl = "idle" /\ closed = "open" =>
       /\ openGeo = {live["geoIP"]} \ {0}
       /\ openCoord = {live["coordinator"]} \ {0}
       /\ openTransport = {live["mapping"]}
  /\ \A r \in Request : pc[r] = "geoLookup" => reader[r] \in openGeo

\* A request that begins after a reload has published sees nothing older than
\* that reload in any of the fields it reads.
FreshReads ==
  \A r \in Request : \A g \in seen[r] : g >= base[r]

\* What ServeHTTP answers under one configuration, as the documentation's
\* processing order gives it; "denied" stands for the controls left open here.
Expected(c, h) ==
  LET s == Settings[c] IN
  IF s.blocks THEN {"blocked"}
  ELSE IF ~s.allows /\ h \in s.geo /\ country = "blocked" THEN {"country"}
  ELSE IF h \notin s.tenants THEN {"unknown_host"} \cup (IF s.allows THEN {} ELSE {"denied"})
  ELSE {"denied"} \cup
       (IF h \notin s.crowd \/ lapi = "clean" THEN {"proxied"}
        ELSE IF lapi = "banned" THEN {"banned"}
        ELSE IF s.closed THEN {"dependency"} ELSE {"proxied"})

\* A request that no publication and no Close overlaps is answered as its
\* configuration alone prescribes.
UndisturbedAnswer ==
  \A r \in Request :
    pc[r] = "done" /\ ~disturbed[r] => verdict[r] \in Expected(cfg[base[r]], host[r])

\* With ACME, certificates are managed for every published tenant, however
\* reloads interleave with the start of certificate management; a tenant whose
\* request CertMagic refused is the only exception.
CertificatesManaged ==
  rl = "idle" /\ domainManager = "set" =>
    S(live["mapping"]).tenants \subseteq managed \cup refused

\* Reload, Close and the lookups take runtimeMu and geoMu in an order in which
\* they cannot all wait for one another: while a reload or Close is under way,
\* one of those who run can go on.  Each of them has finitely many steps.
NobodyDeadlocked ==
  rl # "idle" \/ closed = "half" =>
    ENABLED (ReloadStep \/ CloseCoordinator \/ CloseGeoIP \/ \E r \in Request : RequestStep(r))

-----------------------------------------------------------------------------
\* Documentation: a reload "publishes everything in one synchronized step".
\* Then a host every configuration serves always has a backend.
AlwaysServed ==
  \A r \in Request :
    verdict[r] = "no_backend" => \E c \in Config : host[r] \notin Settings[c].tenants
=============================================================================
