--------------------------- MODULE RuntimeProofs ---------------------------
(***************************************************************************)
(* Proofs about Runtime and ConfigWatch, for all configurations and hosts, *)
(* any number of requests, reloads and edits.                              *)
(*                                                                         *)
(* The inductive invariant follows the publication: the generation before  *)
(* the running reload is live["mapping"] until the last store of           *)
(* PublishOrder, the fields already passed hold gen, and the resources     *)
(* open are those of the two generations and of nobody else.               *)
(***************************************************************************)
EXTENDS ConfigWatch, TLAPS

Building == rl \in {"build", "bouncer", "geo", "coord", "probe"}

\* The publication has stored field f, or has taken step f.
Passed(f) == rl = "publish" /\ \E i \in 1..(pub - 1) : PublishOrder[i] = f

\* The generation field f belongs to.
Target(f) == IF Passed(f) THEN gen ELSE live["mapping"]

\* Coordinator c is one for the configuration of generation g.
CoordMatches(c, g) ==
  IF CoordOf(g) = NoCoordinator THEN c = 0
  ELSE c # 0 /\ CoordOf(c) = CoordOf(g)

\* The part of TypeOK that requests do not change.
CoreType ==
  /\ gen \in Gen
  /\ cfg \in [Gen -> Config]
  /\ live \in [Field -> 0..gen]
  /\ tenantStates \in [Host -> 0..gen]
  /\ rl \in {"idle", "build", "bouncer", "geo", "coord", "probe", "publish", "domains"}
  /\ next \in [geo : 0..gen, coord : 0..gen, oldCoord : 0..gen, oldGeo : 0..gen, added : SUBSET Host]
  /\ pub \in 1..19
  /\ closed \in {"open", "half", "closed"}

\* Publication and Close exclude one another; Close comes with shutdown.
Locked ==
  /\ closed = "half" => rl # "publish"
  /\ closed # "open" => stopping

\* mapping is the previous generation until it is passed.
Stages ==
  /\ live["mapping"] \in 1..gen
  /\ Building \/ (rl = "publish" /\ ~Passed("mapping")) => live["mapping"] < gen
  /\ Passed("mapping") \/ rl = "domains" => live["mapping"] = gen

FieldsOK ==
  /\ \A f \in Configuration : live[f] = Target(f)
  /\ live["geoIP"] \in {0, GeoOf(Target("geoIP"))}
  /\ live["coordinator"] # 0 => CoordOf(live["coordinator"]) # NoCoordinator
  /\ closed = "open" =>
       /\ live["geoIP"] = GeoOf(Target("geoIP"))
       /\ live["healthChecks"] = Target("healthChecks")
       /\ CoordMatches(live["coordinator"], Target("coordinator"))

\* The tenant states of generation g.
StateOf(g, h) == IF h \in S(g).tenants THEN g ELSE 0

\* replaceTenantStates is at its deletions when pub is 16 and at its stores when
\* it is 17.
StatesOK ==
  \A h \in Host :
    /\ rl # "publish" \/ pub < 16 => tenantStates[h] = StateOf(live["mapping"], h)
    /\ rl = "publish" /\ pub = 16 => tenantStates[h] \in {0, StateOf(live["mapping"], h)}
    /\ rl = "publish" /\ pub = 17 => tenantStates[h] \in {0, StateOf(gen, h)}
    /\ rl = "publish" /\ pub > 17 => tenantStates[h] = StateOf(gen, h)

\* What the running reload holds.
HeldOK ==
  /\ rl = "idle" => next = NoResource
  /\ rl \in {"build", "bouncer", "geo"} => next.geo = 0
  /\ rl \in {"coord", "probe", "publish"} => next.geo = GeoOf(gen)
  /\ rl \in {"build", "bouncer", "geo", "coord"} => next.coord = 0
  /\ rl \in {"probe", "publish"} => CoordMatches(next.coord, gen)
  /\ Building => next.oldCoord = 0
  /\ rl = "publish" => live["coordinator"] = IF Passed("coordinator") THEN next.coord ELSE next.oldCoord
  /\ rl \notin {"domains"} /\ ~Passed("geoIP") => next.oldGeo = 0
  /\ Passed("geoIP") => next.oldGeo < gen /\ live["geoIP"] = next.geo

\* What is open.
OpenOK ==
  /\ openGeo \subseteq 1..gen /\ openCoord \subseteq 1..gen /\ openTransport \subseteq 1..gen
  /\ live["geoIP"] # 0 => live["geoIP"] \in openGeo
  /\ rl \in {"coord", "probe", "publish"} /\ next.geo # 0 => next.geo \in openGeo
  /\ closed = "open" =>
       /\ openGeo = ({live["geoIP"]} \cup IF rl = "domains" THEN {} ELSE {next.geo, next.oldGeo}) \ {0}
       /\ openCoord = ({live["coordinator"]} \cup
                        IF rl = "domains" THEN {} ELSE {next.coord, next.oldCoord}) \ {0}
       /\ openTransport =
            IF Passed("storeStates") THEN {gen}
            ELSE {live["mapping"]} \cup
                 IF rl \in {"bouncer", "geo", "coord", "probe", "publish"} THEN {gen} ELSE {}

PubInv == CoreType /\ Locked /\ Stages /\ FieldsOK /\ StatesOK /\ HeldOK /\ OpenOK

\* Certificates: the candidate's tenants are old or added, the published ones
\* are managed but for those the running reload has yet to ask for.
CertInv ==
  /\ domainManager \in {"none", "syncing", "set"}
  /\ managed \subseteq Host /\ refused \subseteq Host
  /\ Building \/ rl = "publish" =>
       /\ S(gen).acme <=> S(live["mapping"]).acme
       /\ S(gen).acme => S(gen).tenants \subseteq S(live["mapping"]).tenants \cup next.added
  /\ domainManager # "none" =>
       /\ S(live["mapping"]).acme
       /\ S(live["mapping"]).tenants \subseteq
            managed \cup refused \cup
            IF Passed("mapping") \/ rl = "domains" THEN next.added ELSE {}

\* A lookup holds geoMu, so that the reader it uses is the published one.
ReaderInv ==
  \A r \in Request :
    /\ reader[r] # 0 <=> pc[r] = "geoLookup"
    /\ reader[r] # 0 => reader[r] = live["geoIP"]

\* The part of TypeOK that is the requests' own, and the history variables.
Label == {"idle", "trust", "resolve", "blocklist", "allowlist", "geo", "geoLookup", "geoMode",
          "limiter", "rate", "auth", "crowd", "crowdMode", "inspect", "state", "done"}

RequestType ==
  /\ pc \in [Request -> Label]
  /\ host \in [Request -> Host]
  /\ entry \in [Request -> 0..gen]
  /\ reader \in [Request -> 0..gen]
  /\ allowlisted \in [Request -> BOOLEAN]
  /\ DOMAIN verdict = Request /\ verdict = [r \in Request |-> verdict[r]]
  /\ seen \in [Request -> SUBSET Nat]
  /\ base \in [Request -> 0..gen]
  /\ disturbed \in [Request -> BOOLEAN]
  /\ lapi \in {"clean", "banned", "down"} /\ country \in {"allowed", "blocked"}

\* Published generations only grow.
SeenInv ==
  \A r \in Request :
    /\ base[r] <= live["mapping"]
    /\ pc[r] = "idle" => seen[r] = {}
    /\ pc[r] # "idle" => base[r] >= 1
    /\ \A g \in seen[r] : g >= base[r]

Running(r) == pc[r] \notin {"idle", "done"}

Past(labels) == {"geo", "geoLookup", "geoMode", "limiter", "rate", "auth", "crowd", "crowdMode",
                 "inspect", "state"} \ labels

\* How far an undisturbed request has followed its one configuration.
Progress(r) ==
  LET s == S(base[r]) h == host[r] IN
  /\ pc[r] \notin {"trust", "resolve"} => entry[r] = base[r]
  /\ pc[r] \notin {"trust", "resolve", "blocklist"} => ~s.blocks
  /\ pc[r] \in Past({}) => (allowlisted[r] <=> s.allows)
  /\ pc[r] # "geoMode"
  /\ pc[r] \in {"geo", "geoLookup"} => ~s.allows /\ h \in s.geo
  /\ pc[r] \in Past({"geo", "geoLookup"}) => s.allows \/ h \notin s.geo \/ country # "blocked"
  /\ pc[r] \in Past({"geo", "geoLookup", "geoMode", "limiter"}) => h \in s.tenants
  /\ pc[r] \in {"crowd", "crowdMode"} => h \in s.crowd
  /\ pc[r] = "crowdMode" => lapi = "down"
  /\ pc[r] \in {"inspect", "state"} =>
       h \notin s.crowd \/ lapi = "clean" \/ (lapi = "down" /\ ~s.closed)

CalmInv ==
  \A r \in Request : ~disturbed[r] =>
    /\ Running(r) =>
         /\ closed = "open"
         /\ rl = "publish" => pub = 1
         /\ base[r] = live["mapping"]
         /\ Progress(r)
    /\ pc[r] = "done" => verdict[r] \in Expected(cfg[base[r]], host[r])

\* The watcher.
Files == Main \X (Shards \cup {NoDir})

WatchType ==
  /\ disk \in Files /\ loaded \in Files
  /\ watching \in {"start", "config", "ready", "ended"}
  /\ watched \in BOOLEAN /\ inotify \in BOOLEAN /\ missed \in BOOLEAN
  /\ queue \in Seq({"main", "shard", "removed", "created"})
  /\ timer \in {"off", "running", "expired"}
  /\ reading \in {<<>>} \cup {<<m>> : m \in Main}

Queued(event) == \E i \in 1..Len(queue) : queue[i] = event

\* An event that makes addWatch add the new tenants.d is still queued.
Rewatches ==
  \E i \in 1..Len(queue) :
    queue[i] = "created" /\ (watched => \E j \in 1..(i - 1) : queue[j] = "removed")

WatchInv ==
  /\ watching \in {"start", "config"} =>
       /\ timer = "off" /\ reading = <<>> /\ ~watched /\ ~inotify
       /\ queue = <<>> => loaded = disk \/ missed
  /\ watching = "ready" =>
       /\ queue = <<>> /\ timer = "off" =>
            IF reading = <<>> THEN loaded = disk \/ missed ELSE reading[1] = disk[1]
       /\ disk[2] # NoDir /\ ~inotify => Rewatches
       /\ disk[2] = NoDir /\ watched => Queued("removed")

-----------------------------------------------------------------------------
(***************************************************************************)
(* The order of publication.                                               *)
(***************************************************************************)
LEMMA OrderIs ==
  /\ Len(PublishOrder) = 18
  /\ PublishOrder[1] = "globalLimiter" /\ PublishOrder[2] = "allowIPs"
  /\ PublishOrder[3] = "blockIPs" /\ PublishOrder[4] = "trustedProxyCIDRs"
  /\ PublishOrder[5] = "coordinator" /\ PublishOrder[6] = "trustForwardedFor"
  /\ PublishOrder[7] = "requestBodyLimit" /\ PublishOrder[8] = "responseMaskingLimit"
  /\ PublishOrder[9] = "dependencyMode" /\ PublishOrder[10] = "crowdsecRequired"
  /\ PublishOrder[11] = "crowdsecHealthy" /\ PublishOrder[12] = "bouncer"
  /\ PublishOrder[13] = "crowdsecCacheTTL" /\ PublishOrder[14] = "geoIP"
  /\ PublishOrder[15] = "healthChecks" /\ PublishOrder[16] = "deleteStates"
  /\ PublishOrder[17] = "storeStates" /\ PublishOrder[18] = "mapping"
  BY Zenon DEF PublishOrder

LEMMA OrderOnce ==
  ASSUME NEW i \in 1..18
  PROVE  /\ PublishOrder[i] = "coordinator" <=> i = 5
         /\ PublishOrder[i] = "geoIP" <=> i = 14
         /\ PublishOrder[i] = "healthChecks" <=> i = 15
         /\ PublishOrder[i] = "deleteStates" <=> i = 16
         /\ PublishOrder[i] = "storeStates" <=> i = 17
         /\ PublishOrder[i] = "mapping" <=> i = 18
         /\ PublishOrder[i] \in Field \cup {"deleteStates", "storeStates"}
<1>1. \/ i = 1 \/ i = 2 \/ i = 3 \/ i = 4 \/ i = 5 \/ i = 6 \/ i = 7 \/ i = 8 \/ i = 9
      \/ i = 10 \/ i = 11 \/ i = 12 \/ i = 13 \/ i = 14 \/ i = 15 \/ i = 16 \/ i = 17 \/ i = 18
  OBVIOUS
<1> QED
  BY <1>1, OrderIs DEF Field

\* Every field is published.
LEMMA OrderComplete ==
  ASSUME NEW f \in Field
  PROVE  \E i \in 1..18 : PublishOrder[i] = f
  BY OrderIs DEF Field

LEMMA PassedPlaces ==
  ASSUME rl = "publish", pub \in 1..19
  PROVE  /\ Passed("coordinator") <=> pub > 5
         /\ Passed("geoIP") <=> pub > 14
         /\ Passed("healthChecks") <=> pub > 15
         /\ Passed("deleteStates") <=> pub > 16
         /\ Passed("storeStates") <=> pub > 17
         /\ Passed("mapping") <=> pub > 18
         /\ At("geoIP") <=> pub = 14
         /\ At("deleteStates") <=> pub = 16
         /\ At("storeStates") <=> pub = 17
<1>1. \A i \in 1..(pub - 1) : i \in 1..18
  OBVIOUS
<1>2. pub <= Len(PublishOrder) <=> pub \in 1..18
  BY OrderIs
<1> QED
  BY <1>1, <1>2, OrderOnce, OrderIs DEF Passed, At

LEMMA PassedNone ==
  ASSUME NEW f, rl # "publish" \/ pub = 1
  PROVE  ~Passed(f)
  BY DEF Passed

LEMMA PassedAll ==
  ASSUME rl = "publish", pub = 19, NEW f \in Field
  PROVE  Passed(f)
  BY OrderComplete DEF Passed

LEMMA PassedStep ==
  ASSUME rl = "publish", rl' = "publish", pub \in 1..18, pub' = pub + 1, NEW f
  PROVE  Passed(f)' <=> Passed(f) \/ f = PublishOrder[pub]
<1>1. \A i : i \in 1..(pub' - 1) <=> i \in 1..(pub - 1) \/ i = pub
  OBVIOUS
<1> QED
  BY <1>1, Zenon DEF Passed

-----------------------------------------------------------------------------
(***************************************************************************)
(* The published runtime and its resources.                                *)
(***************************************************************************)
LEMMA SettingsKnown ==
  ASSUME cfg \in [Gen -> Config], NEW g \in Gen
  PROVE  /\ cfg[g] \in Config /\ S(g) \in SettingsType
         /\ S(g).tenants \subseteq Host
         /\ S(g).geo \subseteq S(g).tenants /\ S(g).crowd \subseteq S(g).tenants
         /\ GeoOf(g) \in {0, g}
  BY RuntimeAssumption, Zenon DEF S, SettingsType, GeoOf

LEMMA InitPub == Init => PubInv
<1> SUFFICES ASSUME Init PROVE PubInv
  BY Zenon
<1>0. /\ 1 \in Gen /\ gen = 1 /\ rl = "idle" /\ next = NoResource /\ pub = 1
      /\ closed = "open" /\ stopping = FALSE /\ cfg \in [Gen -> Config]
  BY RuntimeAssumption DEF Init, Gen
<1>1. GeoOf(1) \in {0, 1}
  BY <1>0, SettingsKnown, Zenon
<1>2. \A f : ~Passed(f)
  BY <1>0, PassedNone, Zenon
<1>3. /\ live \in [Field -> {0, 1}]
      /\ live["geoIP"] = GeoOf(1)
      /\ live["coordinator"] = IF CoordOf(1) = NoCoordinator THEN 0 ELSE 1
      /\ \A f \in Field \ {"geoIP", "coordinator"} : live[f] = 1
  BY <1>1, Zenon DEF Init, Field
<1>4. live["mapping"] = 1 /\ live["healthChecks"] = 1 /\ \A f \in Configuration : live[f] = 1
  BY <1>3, Zenon DEF Field, Configuration
<1>5. \A f : Target(f) = 1
  BY <1>2, <1>4, Zenon DEF Target
<1>6. CoreType
  <2>1. tenantStates \in [Host -> 0..gen]
    BY <1>0 DEF Init
  <2> QED
    BY <1>0, <1>3, <2>1 DEF CoreType, NoResource
<1>7. Locked /\ Stages
  BY <1>0, <1>2, <1>4 DEF Locked, Stages, Building
<1>8. FieldsOK
  BY <1>3, <1>4, <1>5 DEF FieldsOK, CoordMatches
<1>9. StatesOK
  BY <1>0, <1>4, Zenon DEF Init, StatesOK, StateOf
<1>10. HeldOK
  BY <1>0, <1>2, Zenon DEF HeldOK, Building, NoResource
<1>11. OpenOK
  <2>1. openGeo = {GeoOf(1)} \ {0} /\ openTransport = {1}
        /\ openCoord = IF CoordOf(1) = NoCoordinator THEN {} ELSE {1}
    BY Zenon DEF Init
  <2> QED
    BY <1>0, <1>1, <1>2, <1>3, <1>4, <2>1 DEF OpenOK, NoResource
<1> QED
  BY <1>6, <1>7, <1>8, <1>9, <1>10, <1>11, Zenon DEF PubInv

\* Nothing of it changes.
LEMMA StillPub ==
  ASSUME PubInv, UNCHANGED <<published, resources, reload, closed>>, stopping' \in {stopping, TRUE}
  PROVE  PubInv'
<1>1. UNCHANGED <<live, tenantStates, openGeo, openCoord, openTransport, gen, cfg, rl, next, pub, closed>>
  BY Zenon DEF published, resources, reload
<1>2. \A f : Passed(f)' <=> Passed(f)
  BY <1>1, Zenon DEF Passed
<1>3. \A f : Target(f)' = Target(f)
  BY <1>1, <1>2, Zenon DEF Target
<1>4. CoreType' /\ Locked' /\ Stages'
  BY <1>1, <1>2, Zenon DEF PubInv, CoreType, Locked, Stages, Building
<1>5. FieldsOK'
  BY <1>1, <1>3, Zenon DEF PubInv, FieldsOK, CoordMatches, GeoOf, CoordOf, S
<1>6. StatesOK'
  BY <1>1, Zenon DEF PubInv, StatesOK, StateOf, S
<1>7. HeldOK'
  BY <1>1, <1>2, Zenon DEF PubInv, HeldOK, CoordMatches, GeoOf, CoordOf, S, Building
<1>8. OpenOK'
  BY <1>1, <1>2, Zenon DEF PubInv, OpenOK
<1> QED
  BY <1>4, <1>5, <1>6, <1>7, <1>8, Zenon DEF PubInv

\* Before and after the publication, what is published stays.
LEMMA QuietPub ==
  ASSUME PubInv, UNCHANGED <<published, gen, cfg, closed, stopping>>,
         rl # "publish", rl' \notin {"publish", "domains"}, Building' => Building
  PROVE  /\ Locked' /\ Stages' /\ FieldsOK' /\ StatesOK'
         /\ \A f : ~Passed(f) /\ ~Passed(f)'
<1>1. UNCHANGED <<live, tenantStates>>
  BY Zenon DEF published
<1>2. \A f : ~Passed(f) /\ ~Passed(f)'
  BY Zenon DEF Passed
<1>3. \A f : Target(f)' = Target(f)
  BY <1>1, <1>2, Zenon DEF Target
<1>4. Locked' /\ Stages'
  BY <1>1, <1>2, Zenon DEF PubInv, Locked, Stages
<1>5. FieldsOK'
  BY <1>1, <1>3, Zenon DEF PubInv, FieldsOK, CoordMatches, GeoOf, CoordOf, S
<1>6. StatesOK'
  BY <1>1, Zenon DEF PubInv, StatesOK, StateOf, S
<1> QED
  BY <1>2, <1>4, <1>5, <1>6, Zenon

\* Until its own turn in the publication, what a candidate replaces is older.
LEMMA Older ==
  ASSUME PubInv, Building \/ (rl = "publish" /\ ~Passed("geoIP") /\ ~Passed("mapping"))
  PROVE  /\ gen \in Nat \ {0} /\ live["mapping"] \in 1..(gen - 1) /\ live["geoIP"] \in 0..(gen - 1)
         /\ Target("geoIP") = live["mapping"]
<1>1. gen \in Gen /\ gen \in Nat \ {0}
  BY RuntimeAssumption DEF PubInv, CoreType, Gen
<1>2. live["mapping"] \in 1..(gen - 1)
  BY <1>1 DEF PubInv, Stages
<1>3. ~Passed("geoIP")
  BY Zenon DEF Passed, Building
<1>4. Target("geoIP") = live["mapping"]
  BY <1>3, Zenon DEF Target
<1>5. GeoOf(live["mapping"]) \in {0, live["mapping"]}
  BY Zenon DEF GeoOf
<1> QED
  BY <1>1, <1>2, <1>4, <1>5 DEF PubInv, FieldsOK

\* A reload begins, with a candidate or without.
LEMMA ReloadStartPub ==
  ASSUME PubInv, NEW c \in Config \cup {Invalid}, ReloadStart(c)
  PROVE  PubInv'
<1>0. /\ gen \in Gen /\ gen \in Nat \ {0} /\ gen' = gen + 1 /\ gen' \in Gen /\ rl = "idle"
      /\ UNCHANGED <<live, tenantStates, openGeo, openCoord, openTransport, pub, stopping, closed>>
      /\ cfg \in [Gen -> Config] /\ live["mapping"] \in 1..gen
  BY RuntimeAssumption
     DEF PubInv, CoreType, Stages, Gen, ReloadStart, published, resources, shutdown
<1>1. /\ rl' \in {"idle", "build"} /\ cfg' \in [Gen -> Config]
      /\ \A g \in Gen \ {gen'} : cfg'[g] = cfg[g]
      /\ next = NoResource /\ next' = [next EXCEPT !.added = next'.added]
      /\ next'.added \subseteq Host /\ (rl' = "idle" => next' = NoResource)
  <2>0. next = NoResource
    BY <1>0, Zenon DEF PubInv, HeldOK
  <2>1. CASE AcceptsCandidate(c)
    <3>1. c \in Config
      BY <2>1, Zenon DEF AcceptsCandidate
    <3>2. AddedDomains(c) \subseteq Host
      BY <3>1, RuntimeAssumption, Zenon DEF AddedDomains, SettingsType
    <3> QED
      BY <1>0, <2>0, <2>1, <3>1, <3>2, Zenon DEF ReloadStart, NoResource
  <2>2. CASE ~AcceptsCandidate(c)
    BY <1>0, <2>0, <2>2 DEF ReloadStart, NoResource
  <2> QED
    BY <2>1, <2>2, Zenon
<1>2. \A g \in 1..gen : g \in Gen \ {gen'} /\ cfg'[g] = cfg[g] /\ S(g)' = S(g)
  <2>1. \A g \in 1..gen : g \in Gen \ {gen'}
    BY <1>0, RuntimeAssumption DEF Gen
  <2> QED
    BY <1>1, <2>1, Zenon DEF S
<1>3. \A f : ~Passed(f) /\ ~Passed(f)'
  BY <1>0, <1>1, Zenon DEF Passed
<1>4. \A f : Target(f) = live["mapping"] /\ Target(f)' = live["mapping"]
  BY <1>0, <1>3, Zenon DEF Target
<1>5. CoreType'
  <2>1. next' \in [geo : 0..gen', coord : 0..gen', oldCoord : 0..gen', oldGeo : 0..gen', added : SUBSET Host]
    BY <1>0, <1>1 DEF NoResource
  <2>2. live' \in [Field -> 0..gen'] /\ tenantStates' \in [Host -> 0..gen']
    BY <1>0 DEF PubInv, CoreType
  <2> QED
    BY <1>0, <1>1, <2>1, <2>2, Zenon DEF PubInv, CoreType
<1>6. Locked' /\ Stages'
  BY <1>0, <1>1, <1>3 DEF PubInv, Locked, Stages, Building
<1>7. FieldsOK'
  <2>1. GeoOf(live["mapping"])' = GeoOf(live["mapping"])
    BY <1>0, <1>2, Zenon DEF GeoOf
  <2>2. \A d \in 1..gen : CoordOf(d)' = CoordOf(d)
    BY <1>2, Zenon DEF CoordOf
  <2>3. live["coordinator"] \in 0..gen
    BY Zenon DEF PubInv, CoreType, Field
  <2>4. CoordMatches(live["coordinator"], live["mapping"])
          => CoordMatches(live["coordinator"], live["mapping"])'
    BY <1>0, <2>2, <2>3 DEF CoordMatches
  <2> QED
    BY <1>0, <1>4, <2>1, <2>2, <2>3, <2>4 DEF PubInv, FieldsOK
<1>8. StatesOK'
  BY <1>0, <1>1, <1>2, Zenon DEF PubInv, StatesOK, StateOf
<1>9. HeldOK'
  BY <1>0, <1>1, <1>3, Zenon DEF HeldOK, Building, NoResource
<1>10. OpenOK'
  <2>1. next'.geo = 0 /\ next'.oldGeo = 0 /\ next'.coord = 0 /\ next'.oldCoord = 0
        /\ next.geo = 0 /\ next.oldGeo = 0 /\ next.coord = 0 /\ next.oldCoord = 0
    BY <1>1, Zenon DEF NoResource
  <2> QED
    BY <1>0, <1>1, <1>3, <2>1 DEF PubInv, OpenOK
<1> QED
  BY <1>5, <1>6, <1>7, <1>8, <1>9, <1>10, Zenon DEF PubInv

\* An error return of a reload.
LEMMA ReloadFailPub ==
  ASSUME PubInv, rl \in {"build", "bouncer", "geo", "coord"}, ReloadFail,
         UNCHANGED <<published, gen, cfg, pub, closed, stopping>>
  PROVE  PubInv'
<1>0. /\ rl' = "idle" /\ next' = NoResource /\ openCoord' = openCoord
      /\ openGeo' = openGeo \ {next.geo} /\ openTransport' = openTransport \ {gen}
      /\ UNCHANGED <<live, tenantStates>> /\ Building /\ ~Building'
  BY Zenon DEF ReloadFail, published, Building
<1>1. /\ gen \in Nat \ {0} /\ live["mapping"] \in 1..(gen - 1) /\ live["geoIP"] \in 0..(gen - 1)
  BY <1>0, Older, Zenon
<1>2. /\ Locked' /\ Stages' /\ FieldsOK' /\ StatesOK'
      /\ \A f : ~Passed(f) /\ ~Passed(f)'
  BY <1>0, QuietPub, Zenon
<1>3. /\ next.geo \in {0, gen} /\ next.oldGeo = 0 /\ next.coord = 0 /\ next.oldCoord = 0
  BY <1>0, <1>2, Zenon DEF PubInv, HeldOK, GeoOf
<1>4. CoreType'
  BY <1>0, <1>1 DEF PubInv, CoreType, NoResource
<1>5. HeldOK'
  BY <1>0, <1>2, Zenon DEF HeldOK, NoResource
<1>6. OpenOK'
  <2>0. /\ next'.geo = 0 /\ next'.oldGeo = 0 /\ next'.coord = 0 /\ next'.oldCoord = 0
        /\ rl' = "idle" /\ rl # "domains"
    BY <1>0, Zenon DEF NoResource, Building
  <2>1. /\ openGeo' \subseteq 1..gen' /\ openCoord' \subseteq 1..gen' /\ openTransport' \subseteq 1..gen'
        /\ live'["geoIP"] # 0 => live'["geoIP"] \in openGeo'
    <3>1. /\ openGeo \subseteq 1..gen /\ openCoord \subseteq 1..gen /\ openTransport \subseteq 1..gen
          /\ live["geoIP"] # 0 => live["geoIP"] \in openGeo
      BY Zenon DEF PubInv, OpenOK
    <3>2. live["geoIP"] # 0 => live["geoIP"] # next.geo
      BY <1>1, <1>3
    <3>3. gen' = gen /\ live' = live
      BY <1>0, Zenon
    <3> QED
      BY <1>0, <3>1, <3>2, <3>3, Zenon
  <2>2. ASSUME closed' = "open"
        PROVE  /\ openGeo' = {live'["geoIP"], 0} \ {0}
               /\ openCoord' = {live'["coordinator"], 0} \ {0}
               /\ openTransport' = {live'["mapping"]}
    <3>1. /\ openGeo = {live["geoIP"], next.geo, 0} \ {0}
          /\ openCoord = {live["coordinator"], 0} \ {0}
          /\ openTransport \in {{live["mapping"]}, {live["mapping"], gen}}
      BY <1>2, <1>3, <2>0, <2>2, Zenon DEF PubInv, OpenOK
    <3> QED
      BY <1>0, <1>1, <1>3, <3>1
  <2> QED
    BY <1>2, <2>0, <2>1, <2>2, Zenon DEF OpenOK
<1> QED
  BY <1>2, <1>4, <1>5, <1>6, Zenon DEF PubInv

\* The steps that prepare a candidate.
LEMMA BuildPub ==
  ASSUME PubInv, BuildTenants
  PROVE  PubInv'
<1>0. /\ UNCHANGED <<published, gen, cfg, pub, closed, stopping>> /\ rl = "build"
  BY Zenon DEF BuildTenants, shutdown
<1>1. CASE ReloadFail
  BY <1>0, <1>1, ReloadFailPub, Zenon
<1>2. CASE rl' = "bouncer" /\ BuildTenantState /\ UNCHANGED <<next, openGeo, openCoord>>
  <2>0. UNCHANGED <<live, tenantStates>> /\ Building /\ gen \in Nat \ {0}
    BY <1>0, Older, Zenon DEF published, Building
  <2>1. /\ Locked' /\ Stages' /\ FieldsOK' /\ StatesOK' /\ \A f : ~Passed(f) /\ ~Passed(f)'
    BY <1>0, <1>2, <2>0, QuietPub, Zenon
  <2>2. CoreType'
    BY <1>0, <1>2, <2>0, Zenon DEF PubInv, CoreType
  <2>3. HeldOK'
    BY <1>0, <1>2, <2>0, <2>1, Zenon DEF PubInv, HeldOK, Building
  <2>4. OpenOK'
    BY <1>0, <1>2, <2>0, <2>1 DEF PubInv, OpenOK, BuildTenantState
  <2> QED
    BY <2>1, <2>2, <2>3, <2>4, Zenon DEF PubInv
<1> QED
  BY <1>1, <1>2, Zenon DEF BuildTenants

LEMMA BouncerPub ==
  ASSUME PubInv, InitBouncer
  PROVE  PubInv'
<1>0. /\ UNCHANGED <<published, gen, cfg, pub, closed, stopping>> /\ rl = "bouncer"
  BY Zenon DEF InitBouncer, shutdown
<1>1. CASE ReloadFail
  BY <1>0, <1>1, ReloadFailPub, Zenon
<1>2. CASE rl' = "geo" /\ UNCHANGED <<next, resources>>
  <2>0. /\ UNCHANGED <<live, tenantStates, openGeo, openCoord, openTransport>>
        /\ Building /\ gen \in Nat \ {0}
    BY <1>0, <1>2, Older, Zenon DEF published, resources, Building
  <2>1. /\ Locked' /\ Stages' /\ FieldsOK' /\ StatesOK' /\ \A f : ~Passed(f) /\ ~Passed(f)'
    BY <1>0, <1>2, <2>0, QuietPub, Zenon
  <2>2. CoreType'
    BY <1>0, <1>2, <2>0, Zenon DEF PubInv, CoreType
  <2>3. HeldOK'
    BY <1>0, <1>2, <2>0, <2>1, Zenon DEF PubInv, HeldOK, Building
  <2>4. OpenOK'
    BY <1>0, <1>2, <2>0, <2>1, Zenon DEF PubInv, OpenOK
  <2> QED
    BY <2>1, <2>2, <2>3, <2>4, Zenon DEF PubInv
<1> QED
  BY <1>1, <1>2, Zenon DEF InitBouncer

LEMMA OpenGeoPub ==
  ASSUME PubInv, OpenGeoIP
  PROVE  PubInv'
<1>0. /\ UNCHANGED <<published, gen, cfg, pub, closed, stopping>> /\ rl = "geo"
  BY Zenon DEF OpenGeoIP, shutdown
<1>1. CASE ReloadFail
  BY <1>0, <1>1, ReloadFailPub, Zenon
<1>2. CASE /\ rl' = "coord"
           /\ next' = [next EXCEPT !.geo = GeoOf(gen)]
           /\ openGeo' = openGeo \cup ({GeoOf(gen)} \ {0})
           /\ UNCHANGED <<openCoord, openTransport>>
  <2>0. /\ UNCHANGED <<live, tenantStates>> /\ Building /\ gen \in Nat \ {0}
        /\ GeoOf(gen) \in {0, gen} /\ GeoOf(gen)' = GeoOf(gen)
    BY <1>0, Older, Zenon DEF published, Building, GeoOf, S
  <2>1. /\ Locked' /\ Stages' /\ FieldsOK' /\ StatesOK' /\ \A f : ~Passed(f) /\ ~Passed(f)'
    BY <1>0, <1>2, <2>0, QuietPub, Zenon
  <2>2. /\ next.geo = 0 /\ next'.geo = GeoOf(gen) /\ next'.coord = next.coord
        /\ next'.oldGeo = next.oldGeo /\ next'.oldCoord = next.oldCoord
    BY <1>0, <1>2, Zenon DEF PubInv, CoreType, HeldOK
  <2>3. CoreType'
    BY <1>0, <1>2, <2>0 DEF PubInv, CoreType
  <2>4. HeldOK'
    BY <1>0, <1>2, <2>0, <2>1, <2>2, Zenon DEF PubInv, HeldOK, Building
  <2>5. OpenOK'
    <3>1. /\ openGeo \subseteq 1..gen /\ openCoord \subseteq 1..gen /\ openTransport \subseteq 1..gen
          /\ live["geoIP"] # 0 => live["geoIP"] \in openGeo
      BY Zenon DEF PubInv, OpenOK
    <3>2. ASSUME closed = "open"
          PROVE  /\ openGeo = {live["geoIP"], 0, next.oldGeo} \ {0}
                 /\ openCoord = {live["coordinator"], next.coord, next.oldCoord} \ {0}
                 /\ openTransport = {live["mapping"], gen}
      BY <1>0, <2>1, <2>2, <3>2, Zenon DEF PubInv, OpenOK
    <3>3. /\ openGeo' \subseteq 1..gen' /\ openCoord' \subseteq 1..gen' /\ openTransport' \subseteq 1..gen'
          /\ live'["geoIP"] # 0 => live'["geoIP"] \in openGeo'
          /\ next'.geo # 0 => next'.geo \in openGeo'
      BY <1>0, <1>2, <2>0, <2>2, <3>1
    <3>4. ASSUME closed' = "open"
          PROVE  /\ openGeo' = {live'["geoIP"], next'.geo, next'.oldGeo} \ {0}
                 /\ openCoord' = {live'["coordinator"], next'.coord, next'.oldCoord} \ {0}
                 /\ openTransport' = {live'["mapping"], gen'}
      BY <1>0, <1>2, <2>0, <2>2, <3>2, <3>4, Zenon
    <3> QED
      BY <1>2, <2>1, <3>3, <3>4, Zenon DEF OpenOK
  <2> QED
    BY <2>1, <2>3, <2>4, <2>5, Zenon DEF PubInv
<1> QED
  BY <1>1, <1>2, Zenon DEF OpenGeoIP

LEMMA CoordinatorPub ==
  ASSUME PubInv, StartCoordinator
  PROVE  PubInv'
<1> DEFINE old == live["coordinator"]
           new == CoordOf(gen)
           same == old # 0 /\ CoordOf(old) = new
<1>0. /\ UNCHANGED <<published, gen, cfg, pub, closed, stopping>> /\ rl = "coord"
  BY Zenon DEF StartCoordinator, shutdown
<1>1. CASE ReloadFail
  BY <1>0, <1>1, ReloadFailPub, Zenon
<1>2. ASSUME NEW c \in 0..gen, rl' = "probe", next' = [next EXCEPT !.coord = c], CoordMatches(c, gen),
             openCoord' \subseteq openCoord \cup ({c} \ {0}), UNCHANGED <<openGeo, openTransport>>,
             closed = "open" => openCoord' = openCoord \cup ({c} \ {0})
      PROVE  PubInv'
  <2>0. /\ UNCHANGED <<live, tenantStates>> /\ Building /\ gen \in Nat \ {0}
        /\ GeoOf(gen)' = GeoOf(gen) /\ CoordMatches(c, gen)'
    BY <1>0, <1>2, Older, Zenon DEF published, Building, GeoOf, S, CoordMatches, CoordOf
  <2>1. /\ Locked' /\ Stages' /\ FieldsOK' /\ StatesOK' /\ \A f : ~Passed(f) /\ ~Passed(f)'
    BY <1>0, <1>2, <2>0, QuietPub, Zenon
  <2>2. /\ next.coord = 0 /\ next'.geo = next.geo /\ next'.coord = c
        /\ next'.oldGeo = next.oldGeo /\ next'.oldCoord = next.oldCoord
    BY <1>0, <1>2, Zenon DEF PubInv, CoreType, HeldOK
  <2>3. CoreType'
    BY <1>0, <1>2, <2>0, Zenon DEF PubInv, CoreType
  <2>4. HeldOK'
    BY <1>0, <1>2, <2>0, <2>1, <2>2, Zenon DEF PubInv, HeldOK, Building
  <2>5. OpenOK'
    <3>1. /\ openGeo \subseteq 1..gen /\ openCoord \subseteq 1..gen /\ openTransport \subseteq 1..gen
          /\ live["geoIP"] # 0 => live["geoIP"] \in openGeo
          /\ next.geo # 0 => next.geo \in openGeo
      BY <1>0, Zenon DEF PubInv, OpenOK
    <3>2. ASSUME closed = "open"
          PROVE  /\ openGeo = {live["geoIP"], next.geo, next.oldGeo} \ {0}
                 /\ openCoord = {live["coordinator"], 0, next.oldCoord} \ {0}
                 /\ openTransport = {live["mapping"], gen}
      BY <1>0, <2>1, <2>2, <3>2, Zenon DEF PubInv, OpenOK
    <3>3. /\ openGeo' \subseteq 1..gen' /\ openCoord' \subseteq 1..gen' /\ openTransport' \subseteq 1..gen'
          /\ live'["geoIP"] # 0 => live'["geoIP"] \in openGeo'
          /\ next'.geo # 0 => next'.geo \in openGeo'
      BY <1>0, <1>2, <2>0, <2>2, <3>1
    <3>4. ASSUME closed' = "open"
          PROVE  /\ openGeo' = {live'["geoIP"], next'.geo, next'.oldGeo} \ {0}
                 /\ openCoord' = {live'["coordinator"], next'.coord, next'.oldCoord} \ {0}
                 /\ openTransport' = {live'["mapping"], gen'}
      BY <1>0, <1>2, <2>0, <2>2, <3>2, <3>4, Zenon
    <3> QED
      BY <1>2, <2>1, <3>3, <3>4, Zenon DEF OpenOK
  <2> QED
    BY <2>1, <2>3, <2>4, <2>5, Zenon DEF PubInv
<1>3. CASE /\ new = NoCoordinator \/ same
           /\ rl' = "probe"
           /\ next' = [next EXCEPT !.coord = IF same THEN old ELSE 0]
           /\ UNCHANGED resources
  <2>1. old \in 0..gen /\ 0 \in 0..gen /\ (old # 0 => CoordOf(old) # NoCoordinator)
    BY RuntimeAssumption DEF PubInv, CoreType, Field, FieldsOK, Gen
  <2>2. CASE same
    <3>1. CoordMatches(old, gen)
      BY <2>1, <2>2, Zenon DEF CoordMatches
    <3>2. openCoord' = openCoord /\ (closed = "open" => openCoord' = openCoord \cup ({old} \ {0}))
      <4>1. closed = "open" => old \in openCoord
        BY <1>0, <2>2, Zenon DEF PubInv, OpenOK
      <4> QED
        BY <1>3, <2>2, <4>1, Zenon DEF resources
    <3> QED
      BY <1>2, <1>3, <2>1, <2>2, <3>1, <3>2, Zenon DEF resources
  <2>3. CASE ~same
    <3>1. CoordMatches(0, gen)
      BY <1>3, <2>3, Zenon DEF CoordMatches
    <3>2. openCoord' = openCoord \cup ({0} \ {0})
      BY <1>3, Zenon DEF resources
    <3> QED
      BY <1>2, <1>3, <2>1, <2>3, <3>1, <3>2, Zenon DEF resources
  <2> QED
    BY <2>2, <2>3, Zenon
<1>4. CASE /\ new # NoCoordinator /\ ~same
           /\ AddressFree(new)
           /\ rl' = "probe"
           /\ next' = [next EXCEPT !.coord = gen]
           /\ openCoord' = openCoord \cup {gen}
           /\ UNCHANGED <<openGeo, openTransport>>
  <2>1. gen \in 0..gen /\ gen # 0
    BY RuntimeAssumption DEF PubInv, CoreType, Gen
  <2>2. CoordMatches(gen, gen)
    BY <1>4, <2>1, Zenon DEF CoordMatches
  <2> QED
    BY <1>2, <1>4, <2>1, <2>2
<1> QED
  BY <1>1, <1>3, <1>4, Zenon DEF StartCoordinator

LEMMA LockPub ==
  ASSUME PubInv, ProbeAndLock
  PROVE  PubInv'
<1>0. /\ UNCHANGED <<live, tenantStates, openGeo, openCoord, openTransport, gen, cfg, closed, stopping>>
      /\ rl = "probe" /\ rl' = "publish" /\ pub' = 1 /\ closed # "half" /\ Building /\ ~Building'
      /\ next' = [next EXCEPT !.oldCoord = live["coordinator"]]
  BY Zenon DEF ProbeAndLock, shutdown, published, resources, RuntimeMuFree, Building
<1>1. \A f : ~Passed(f) /\ ~Passed(f)'
  BY <1>0, PassedNone DEF Passed
<1>2. \A f : Target(f)' = Target(f)
  BY <1>0, <1>1, Zenon DEF Target
<1>3. /\ next'.geo = next.geo /\ next'.coord = next.coord /\ next'.oldGeo = next.oldGeo
      /\ next'.oldCoord = live["coordinator"] /\ next.oldCoord = 0
  BY <1>0, Zenon DEF PubInv, CoreType, HeldOK
<1>4. CoreType'
  <2>1. live["coordinator"] \in 0..gen
    BY Zenon DEF PubInv, CoreType, Field
  <2> QED
    BY <1>0, <2>1 DEF PubInv, CoreType
<1>5. Locked' /\ Stages'
  BY <1>0, <1>1, Zenon DEF PubInv, Locked, Stages
<1>6. FieldsOK'
  BY <1>0, <1>2, Zenon DEF PubInv, FieldsOK, CoordMatches, GeoOf, CoordOf, S
<1>7. StatesOK'
  BY <1>0 DEF PubInv, StatesOK, StateOf, S
<1>8. HeldOK'
  BY <1>0, <1>1, <1>3, Zenon DEF PubInv, HeldOK, CoordMatches, GeoOf, CoordOf, S
<1>9. OpenOK'
  <2>1. closed = "open" => openCoord = {live["coordinator"], next.coord, 0} \ {0}
    BY <1>0, <1>3, Zenon DEF PubInv, OpenOK
  <2>2. closed = "open" => openCoord' = {live'["coordinator"], next'.coord, next'.oldCoord} \ {0}
    BY <1>0, <1>3, <2>1, Zenon
  <2> QED
    BY <1>0, <1>1, <1>3, <2>2 DEF PubInv, OpenOK
<1> QED
  BY <1>4, <1>5, <1>6, <1>7, <1>8, <1>9, Zenon DEF PubInv

\* One store: the field becomes the candidate's, the others keep what they had.
LEMMA TargetsMove ==
  ASSUME PubInv, rl = "publish", rl' = "publish", pub \in 1..18, pub' = pub + 1, gen' = gen,
         live["mapping"]' = IF PublishOrder[pub] = "mapping" THEN gen ELSE live["mapping"]
  PROVE  /\ \A x \in Field : Target(x)' = IF x = PublishOrder[pub] THEN gen ELSE Target(x)
         /\ \A x : Passed(x)' <=> Passed(x) \/ x = PublishOrder[pub]
<1>1. \A x : Passed(x)' <=> Passed(x) \/ x = PublishOrder[pub]
  BY PassedStep, Zenon
<1>2. CASE PublishOrder[pub] # "mapping"
  BY <1>1, <1>2, Zenon DEF Target
<1>3. CASE PublishOrder[pub] = "mapping"
  <2>1. pub' = 19
    BY <1>3, OrderOnce
  <2>2. \A x \in Field : Passed(x)'
    BY <2>1, OrderComplete DEF Passed
  <2>3. \A x \in Field : x # PublishOrder[pub] => Passed(x)
    BY <1>1, <2>2, Zenon
  <2> QED
    BY <1>1, <2>2, <2>3, Zenon DEF Target
<1> QED
  BY <1>1, <1>2, <1>3, Zenon

LEMMA FieldPub ==
  ASSUME PubInv, PublishField
  PROVE  PubInv'
<1> DEFINE f == PublishOrder[pub]
           v == IF f = "coordinator" THEN next.coord ELSE gen
<1>0. /\ UNCHANGED <<tenantStates, openGeo, openCoord, openTransport, gen, cfg, next, closed, stopping>>
      /\ rl = "publish" /\ rl' = "publish" /\ pub \in 1..18 /\ pub' = pub + 1
      /\ f \notin {"geoIP", "deleteStates", "storeStates"}
      /\ live' = [live EXCEPT ![f] = v]
  BY OrderIs DEF PublishField, shutdown, resources, PubInv, CoreType
<1>1. /\ f \in Field /\ pub \notin {14, 16, 17} /\ (f = "mapping" <=> pub = 18)
      /\ (f = "coordinator" <=> pub = 5)
  BY <1>0, OrderOnce, Zenon
<1>2. /\ live'[f] = v /\ \A x \in Field \ {f} : live'[x] = live[x]
      /\ live["mapping"]' = IF f = "mapping" THEN gen ELSE live["mapping"]
  BY <1>0, <1>1, Zenon DEF PubInv, CoreType, Field
<1>3. /\ \A x \in Field : Target(x)' = IF x = f THEN gen ELSE Target(x)
      /\ \A x : Passed(x)' <=> Passed(x) \/ x = f
  BY <1>0, <1>2, TargetsMove, Zenon
<1>4. /\ gen \in Nat /\ gen >= 1 /\ next.coord \in 0..gen /\ next.geo = GeoOf(gen)
      /\ CoordMatches(next.coord, gen)
  BY <1>0, RuntimeAssumption DEF PubInv, CoreType, HeldOK, Gen
<1> HIDE DEF f
<1>5. CoreType'
  <2>1. v \in 0..gen
    BY <1>4
  <2>2. live' \in [Field -> 0..gen]
    BY <1>0, <2>1, Zenon DEF PubInv, CoreType
  <2>3. pub' \in 1..19
    BY <1>0
  <2> QED
    BY <1>0, <2>2, <2>3, Zenon DEF PubInv, CoreType
<1>6. Locked' /\ Stages'
  <2>1. ~Passed("mapping") /\ (Passed("mapping")' <=> f = "mapping")
    BY <1>0, <1>3, PassedPlaces
  <2> QED
    BY <1>0, <1>2, <1>4, <2>1 DEF PubInv, Locked, Stages, Building
<1>7. FieldsOK'
  <2>1. \A x \in Configuration : live'[x] = Target(x)'
    <3> TAKE x \in Configuration
    <3>1. x \in Field /\ x # "coordinator" /\ live[x] = Target(x)
      BY Zenon DEF Configuration, PubInv, FieldsOK
    <3> QED
      BY <1>2, <1>3, <3>1, Zenon
  <2>2. live'["geoIP"] = live["geoIP"] /\ Target("geoIP")' = Target("geoIP")
    BY <1>0, <1>2, <1>3, Zenon DEF Field
  <2>3. closed = "open" => live'["healthChecks"] = Target("healthChecks")'
    BY <1>2, <1>3, Zenon DEF Field, PubInv, FieldsOK
  <2>4. CASE f = "coordinator"
    <3>1. live'["coordinator"] = next.coord /\ Target("coordinator")' = gen
      BY <1>1, <1>2, <1>3, <2>4, Zenon
    <3>2. next.coord # 0 => CoordOf(next.coord) # NoCoordinator
      BY <1>4, Zenon DEF CoordMatches
    <3> QED
      BY <1>0, <1>4, <2>1, <2>2, <2>3, <3>1, <3>2, Zenon
         DEF PubInv, FieldsOK, CoordMatches, GeoOf, CoordOf, S
  <2>5. CASE f # "coordinator"
    <3>1. live'["coordinator"] = live["coordinator"] /\ Target("coordinator")' = Target("coordinator")
      BY <1>2, <1>3, <2>5, Zenon DEF Field
    <3> QED
      BY <1>0, <2>1, <2>2, <2>3, <3>1, Zenon DEF PubInv, FieldsOK, CoordMatches, GeoOf, CoordOf, S
  <2> QED
    BY <2>4, <2>5, Zenon
<1>8. StatesOK'
  <2> SUFFICES ASSUME NEW h \in Host
               PROVE  /\ pub' < 16 => tenantStates'[h] = StateOf(live["mapping"], h)'
                      /\ pub' = 16 => tenantStates'[h] \in {0, StateOf(live["mapping"], h)'}
                      /\ pub' = 17 => tenantStates'[h] \in {0, StateOf(gen, h)'}
                      /\ pub' > 17 => tenantStates'[h] = StateOf(gen, h)'
    BY <1>0, Zenon DEF StatesOK, StateOf, S
  <2>1. CASE pub < 16
    <3>1. pub' <= 16 /\ live'["mapping"] = live["mapping"]
      BY <1>0, <1>1, <1>2, <2>1
    <3>2. tenantStates[h] = StateOf(live["mapping"], h)
      BY <1>0, <2>1, Zenon DEF PubInv, StatesOK
    <3> QED
      BY <1>0, <3>1, <3>2 DEF StateOf, S
  <2>2. CASE pub = 18
    <3>1. tenantStates[h] = StateOf(gen, h)
      BY <1>0, <2>2 DEF PubInv, StatesOK
    <3> QED
      BY <1>0, <2>2, <3>1 DEF StateOf, S
  <2> QED
    BY <1>0, <1>1, <2>1, <2>2
<1>9. HeldOK'
  <2>1. live'["coordinator"] = IF Passed("coordinator")' THEN next.coord ELSE next.oldCoord
    <3>1. CASE f = "coordinator"
      BY <1>1, <1>2, <1>3, <3>1, Zenon
    <3>2. CASE f # "coordinator"
      <4>1. live'["coordinator"] = live["coordinator"] /\ (Passed("coordinator")' <=> Passed("coordinator"))
        BY <1>2, <1>3, <3>2, Zenon DEF Field
      <4>2. live["coordinator"] = IF Passed("coordinator") THEN next.coord ELSE next.oldCoord
        BY <1>0, Zenon DEF PubInv, HeldOK
      <4> QED
        BY <4>1, <4>2, Zenon
    <3> QED
      BY <3>1, <3>2, Zenon
  <2>2. live'["geoIP"] = live["geoIP"] /\ (Passed("geoIP")' <=> Passed("geoIP"))
    BY <1>0, <1>2, <1>3, Zenon DEF Field
  <2> QED
    BY <1>0, <2>1, <2>2, Zenon DEF PubInv, HeldOK, Building, CoordMatches, GeoOf, CoordOf, S
<1>10. OpenOK'
  <2>1. live'["geoIP"] = live["geoIP"] /\ (Passed("storeStates")' <=> Passed("storeStates"))
    BY <1>0, <1>2, <1>3, Zenon DEF Field
  <2>2. closed = "open" => openCoord = {live'["coordinator"], next.coord, next.oldCoord} \ {0}
    <3> SUFFICES ASSUME closed = "open" PROVE openCoord = {live'["coordinator"], next.coord, next.oldCoord} \ {0}
      BY Zenon
    <3>1. openCoord = {live["coordinator"], next.coord, next.oldCoord} \ {0}
      BY <1>0, Zenon DEF PubInv, OpenOK
    <3>2. live["coordinator"] \in {next.coord, next.oldCoord}
      BY <1>0, Zenon DEF PubInv, HeldOK
    <3>3. live'["coordinator"] \in {live["coordinator"], next.coord}
      BY <1>1, <1>2, Zenon DEF Field
    <3> QED
      BY <3>1, <3>2, <3>3, Zenon
  <2>3. closed = "open" => openTransport = IF Passed("storeStates") THEN {gen} ELSE {live'["mapping"], gen}
    <3>1. closed = "open" => openTransport = IF Passed("storeStates") THEN {gen} ELSE {live["mapping"], gen}
      BY <1>0, Zenon DEF PubInv, OpenOK
    <3>2. f = "mapping" => Passed("storeStates")
      BY <1>0, <1>1, PassedPlaces
    <3> QED
      BY <1>2, <3>1, <3>2, Zenon
  <2> QED
    BY <1>0, <2>1, <2>2, <2>3 DEF PubInv, OpenOK
<1> QED
  BY <1>5, <1>6, <1>7, <1>8, <1>9, <1>10, Zenon DEF PubInv

LEMMA GeoPub ==
  ASSUME PubInv, PublishGeoIP
  PROVE  PubInv'
<1>0. /\ UNCHANGED <<tenantStates, openGeo, openCoord, openTransport, gen, cfg, closed, stopping>>
      /\ rl = "publish" /\ rl' = "publish" /\ pub \in 1..19 /\ pub' = pub + 1
      /\ live' = [live EXCEPT !["geoIP"] = next.geo]
      /\ next' = [next EXCEPT !.oldGeo = live["geoIP"]]
  BY Zenon DEF PublishGeoIP, At, shutdown, resources, PubInv, CoreType
<1>1. pub = 14 /\ PublishOrder[pub] = "geoIP"
  BY <1>0, PassedPlaces, Zenon DEF PublishGeoIP, At
<1>2. /\ live'["geoIP"] = next.geo /\ \A x \in Field \ {"geoIP"} : live'[x] = live[x]
      /\ live["mapping"]' = live["mapping"]
  BY <1>0, Zenon DEF PubInv, CoreType, Field
<1>3. /\ \A x \in Field : Target(x)' = IF x = "geoIP" THEN gen ELSE Target(x)
      /\ \A x : Passed(x)' <=> Passed(x) \/ x = "geoIP"
  BY <1>0, <1>1, <1>2, TargetsMove
<1>4. ~Passed("geoIP") /\ ~Passed("mapping") /\ ~Passed("storeStates")
  BY <1>0, <1>1, PassedPlaces
<1>5. live["geoIP"] \in 0..(gen - 1) /\ gen \in Nat \ {0}
  BY <1>0, <1>4, Older, Zenon
<1>6. /\ next'.oldGeo = live["geoIP"] /\ next'.geo = next.geo /\ next'.coord = next.coord
      /\ next'.oldCoord = next.oldCoord
      /\ next.geo = GeoOf(gen) /\ next.geo \in 0..gen /\ next.oldGeo = 0
  BY <1>0, <1>4, Zenon DEF PubInv, CoreType, HeldOK
<1>7. CoreType'
  <2>1. live' \in [Field -> 0..gen]
    BY <1>0, <1>6, Zenon DEF PubInv, CoreType
  <2>2. live["geoIP"] \in 0..gen
    BY Zenon DEF PubInv, CoreType, Field
  <2>3. pub' \in 1..19
    BY <1>0, <1>1
  <2> QED
    BY <1>0, <2>1, <2>2, <2>3, Zenon DEF PubInv, CoreType
<1>8. Locked' /\ Stages'
  BY <1>0, <1>2, <1>3, <1>4, Zenon DEF PubInv, Locked, Stages, Building
<1>9. FieldsOK'
  <2>1. \A x \in Configuration : live'[x] = Target(x)'
    <3> TAKE x \in Configuration
    <3>1. x \in Field /\ x # "geoIP" /\ live[x] = Target(x)
      BY Zenon DEF Configuration, Field, PubInv, FieldsOK
    <3> QED
      BY <1>2, <1>3, <3>1, Zenon
  <2>2. /\ live'["coordinator"] = live["coordinator"] /\ Target("coordinator")' = Target("coordinator")
        /\ live'["healthChecks"] = live["healthChecks"] /\ Target("healthChecks")' = Target("healthChecks")
        /\ live'["geoIP"] = GeoOf(gen) /\ Target("geoIP")' = gen
    BY <1>2, <1>3, <1>6, Zenon DEF Field
  <2> QED
    BY <1>0, <2>1, <2>2, Zenon DEF PubInv, FieldsOK, CoordMatches, GeoOf, CoordOf, S
<1>10. StatesOK'
  BY <1>0, <1>1, <1>2 DEF PubInv, StatesOK, StateOf, S
<1>11. HeldOK'
  <2>1. live'["coordinator"] = live["coordinator"] /\ (Passed("coordinator")' <=> Passed("coordinator"))
    BY <1>2, <1>3, Zenon DEF Field
  <2> QED
    BY <1>0, <1>2, <1>3, <1>5, <1>6, <2>1
       DEF PubInv, HeldOK, Building, CoordMatches, GeoOf, CoordOf, S
<1>12. OpenOK'
  <2>1. live'["coordinator"] = live["coordinator"] /\ ~Passed("storeStates")'
    BY <1>2, <1>3, <1>4, Zenon DEF Field
  <2>2. closed = "open" => openGeo = {live["geoIP"], next.geo, 0} \ {0}
    BY <1>0, <1>6, Zenon DEF PubInv, OpenOK
  <2>3. closed = "open" => openGeo = {live'["geoIP"], next'.geo, next'.oldGeo} \ {0}
    BY <1>2, <1>6, <2>2, Zenon
  <2> QED
    BY <1>0, <1>2, <1>4, <1>6, <2>1, <2>3 DEF PubInv, OpenOK
<1> QED
  BY <1>7, <1>8, <1>9, <1>10, <1>11, <1>12, Zenon DEF PubInv

\* replaceTenantStates: while it is at one of its two steps only StatesOK moves.
LEMMA StateStepPub ==
  ASSUME PubInv, UNCHANGED <<live, openGeo, openCoord, openTransport, gen, cfg, rl, next, pub, closed, stopping>>,
         tenantStates' \in [Host -> 0..gen], StatesOK'
  PROVE  PubInv'
<1>1. \A f : (Passed(f)' <=> Passed(f)) /\ Target(f)' = Target(f)
  BY Zenon DEF Passed, Target
<1>2. CoreType' /\ Locked' /\ Stages'
  BY <1>1, Zenon DEF PubInv, CoreType, Locked, Stages, Building
<1>3. FieldsOK'
  BY <1>1, Zenon DEF PubInv, FieldsOK, CoordMatches, GeoOf, CoordOf, S
<1>4. HeldOK'
  BY <1>1, Zenon DEF PubInv, HeldOK, CoordMatches, GeoOf, CoordOf, S, Building
<1>5. OpenOK'
  BY <1>1, Zenon DEF PubInv, OpenOK
<1> QED
  BY <1>2, <1>3, <1>4, <1>5, Zenon DEF PubInv

LEMMA StatesMovePub ==
  ASSUME PubInv, NEW h \in Host, DeleteState(h) \/ StoreState(h)
  PROVE  PubInv'
<1>0. /\ UNCHANGED <<live, openGeo, openCoord, openTransport, gen, cfg, rl, next, pub, closed, stopping>>
      /\ rl = "publish" /\ pub \in 1..19
  BY Zenon DEF DeleteState, StoreState, At, shutdown, resources, reload, PubInv, CoreType
<1>1. gen \in Nat /\ gen >= 1 /\ tenantStates \in [Host -> 0..gen]
  BY RuntimeAssumption DEF PubInv, CoreType, Gen
<1>2. CASE DeleteState(h)
  <2>1. pub = 16 /\ tenantStates' = [tenantStates EXCEPT ![h] = 0]
    BY <1>0, <1>2, PassedPlaces, Zenon DEF DeleteState
  <2>2. tenantStates' \in [Host -> 0..gen]
    BY <1>1, <2>1
  <2>3. StatesOK'
    BY <1>0, <1>1, <2>1 DEF PubInv, StatesOK, StateOf, S
  <2> QED
    BY <1>0, <2>2, <2>3, StateStepPub, Zenon
<1>3. CASE StoreState(h)
  <2>1. pub = 17 /\ tenantStates' = [tenantStates EXCEPT ![h] = gen] /\ h \in S(gen).tenants
    BY <1>0, <1>3, PassedPlaces, Zenon DEF StoreState
  <2>2. tenantStates' \in [Host -> 0..gen]
    BY <1>1, <2>1
  <2>3. StatesOK'
    BY <1>0, <1>1, <2>1 DEF PubInv, StatesOK, StateOf, S
  <2> QED
    BY <1>0, <2>2, <2>3, StateStepPub, Zenon
<1> QED
  BY <1>2, <1>3, Zenon

LEMMA StatesDonePub ==
  ASSUME PubInv, StatesDeleted \/ StatesStored
  PROVE  PubInv'
<1>0. /\ UNCHANGED <<live, tenantStates, openGeo, openCoord, gen, cfg, rl, next, closed, stopping>>
      /\ rl = "publish" /\ rl' = "publish" /\ pub \in 1..19 /\ pub' = pub + 1
  BY Zenon DEF StatesDeleted, StatesStored, At, published, shutdown, resources, PubInv, CoreType
<1>1. /\ StatesDeleted => pub = 16 /\ PublishOrder[pub] = "deleteStates" /\ openTransport' = openTransport
                          /\ \A h \in Host : tenantStates[h] = 0
      /\ StatesStored => pub = 17 /\ PublishOrder[pub] = "storeStates" /\ openTransport' = {gen}
                          /\ \A h \in S(gen).tenants : tenantStates[h] = gen
  BY <1>0, PassedPlaces, Zenon DEF StatesDeleted, StatesStored, At, resources
<1>2. pub \in 16..17 /\ PublishOrder[pub] \in {"deleteStates", "storeStates"}
  BY <1>1
<1>3. /\ \A x \in Field : Target(x)' = Target(x) /\ (Passed(x)' <=> Passed(x))
      /\ \A x : Passed(x)' <=> Passed(x) \/ x = PublishOrder[pub]
  <2>1. \A x \in Field : x \notin {"deleteStates", "storeStates", PublishOrder[pub]}
    BY <1>2, Zenon DEF Field
  <2> QED
    BY <1>0, <1>2, <2>1, TargetsMove
<1>4. gen \in Nat /\ gen >= 1 /\ gen \in Gen
  BY RuntimeAssumption DEF PubInv, CoreType, Gen
<1>5. CoreType' /\ Locked' /\ Stages'
  <2>1. Passed("mapping")' <=> Passed("mapping")
    BY <1>3, Zenon DEF Field
  <2> QED
    BY <1>0, <1>2, <2>1 DEF PubInv, CoreType, Locked, Stages, Building
<1>6. FieldsOK'
  <2>1. \A x \in Configuration \cup {"geoIP", "coordinator", "healthChecks"} : Target(x)' = Target(x)
    BY <1>3, Zenon DEF Configuration, Field
  <2> QED
    BY <1>0, <2>1, Zenon DEF PubInv, FieldsOK, CoordMatches, GeoOf, CoordOf, S
<1>7. StatesOK'
  <2>1. CASE StatesDeleted
    BY <1>0, <1>1, <2>1 DEF StatesOK, StateOf, S
  <2>2. CASE StatesStored
    <3>1. \A h \in Host : tenantStates[h] \in {0, StateOf(gen, h)}
      BY <1>0, <1>1, <2>2, Zenon DEF PubInv, StatesOK
    <3>2. \A h \in Host : tenantStates[h] = StateOf(gen, h)
      BY <1>1, <2>2, <3>1, Zenon DEF StateOf
    <3> QED
      BY <1>0, <1>1, <2>2, <3>2 DEF StatesOK, StateOf, S
  <2> QED
    BY <2>1, <2>2, Zenon
<1>8. HeldOK'
  <2>1. (Passed("coordinator")' <=> Passed("coordinator")) /\ (Passed("geoIP")' <=> Passed("geoIP"))
    BY <1>3, Zenon DEF Field
  <2> QED
    BY <1>0, <2>1, Zenon DEF PubInv, HeldOK, CoordMatches, GeoOf, CoordOf, S, Building
<1>9. OpenOK'
  <2>1. ~Passed("storeStates")
    BY <1>0, <1>2, PassedPlaces
  <2>2. CASE StatesDeleted
    <3>1. ~Passed("storeStates")'
      BY <1>1, <1>3, <2>1, <2>2, Zenon
    <3> QED
      BY <1>0, <1>1, <2>1, <2>2, <3>1, Zenon DEF PubInv, OpenOK
  <2>3. CASE StatesStored
    <3>1. Passed("storeStates")' /\ openTransport' = {gen}
      BY <1>1, <1>3, <2>3, Zenon
    <3>2. openTransport' \subseteq 1..gen
      BY <1>4, <3>1
    <3> QED
      BY <1>0, <3>1, <3>2, Zenon DEF PubInv, OpenOK
  <2> QED
    BY <2>2, <2>3, Zenon
<1> QED
  BY <1>5, <1>6, <1>7, <1>8, <1>9, Zenon DEF PubInv

LEMMA EndPub ==
  ASSUME PubInv, PublishEnd
  PROVE  PubInv'
<1>0. /\ UNCHANGED <<live, tenantStates, openTransport, gen, cfg, next, closed, stopping>>
      /\ rl = "publish" /\ rl' = "domains" /\ pub = 19 /\ pub' = 1
      /\ openCoord' = openCoord \ ({next.oldCoord} \ {next.coord})
      /\ openGeo' = openGeo \ {next.oldGeo}
  BY OrderIs DEF PublishEnd, CoordinatorsToClose, published, shutdown, PubInv, CoreType
<1>1. /\ \A x \in Field : Passed(x) /\ ~Passed(x)'
      /\ Passed("storeStates") /\ ~Passed("storeStates")'
  BY <1>0, PassedAll, PassedPlaces DEF Passed
<1>2. live["mapping"] = gen /\ \A x \in Field : Target(x)' = gen /\ Target(x) = gen
  BY <1>0, <1>1, Zenon DEF PubInv, Stages, Field, Target
<1>3. CoreType'
  BY <1>0 DEF PubInv, CoreType
<1>4. Locked' /\ Stages'
  BY <1>0, <1>2, Zenon DEF PubInv, Locked, Stages, Building
<1>5. FieldsOK'
  <2>1. \A x \in Configuration \cup {"geoIP", "coordinator", "healthChecks"} : Target(x)' = Target(x)
    BY <1>2, Zenon DEF Configuration, Field
  <2> QED
    BY <1>0, <2>1, Zenon DEF PubInv, FieldsOK, CoordMatches, GeoOf, CoordOf, S
<1>6. StatesOK'
  BY <1>0, <1>2 DEF PubInv, StatesOK, StateOf, S
<1>7. HeldOK'
  BY <1>0, Zenon DEF HeldOK, Building, Passed
<1>8. OpenOK'
  <2>1. /\ next.oldGeo < gen /\ live["geoIP"] = next.geo /\ next.geo = GeoOf(gen)
        /\ live["coordinator"] = next.coord
        /\ gen \in Nat /\ gen >= 1 /\ next.oldGeo \in 0..gen /\ next.geo \in {0, gen}
    <3>1. Passed("geoIP") /\ Passed("coordinator")
      BY <1>1, Zenon DEF Field
    <3>2. next.oldGeo < gen /\ live["geoIP"] = next.geo /\ next.geo = GeoOf(gen)
          /\ live["coordinator"] = next.coord
      BY <1>0, <3>1, Zenon DEF PubInv, HeldOK
    <3>3. gen \in Nat /\ gen >= 1 /\ next.oldGeo \in 0..gen
      BY RuntimeAssumption DEF PubInv, CoreType, Gen
    <3> QED
      BY <3>2, <3>3, Zenon DEF GeoOf
  <2>2. live["geoIP"] # 0 => live["geoIP"] # next.oldGeo
    BY <2>1
  <2>3. closed = "open" => openGeo' = {live["geoIP"]} \ {0}
    <3>1. closed = "open" => openGeo = {live["geoIP"], next.geo, next.oldGeo} \ {0}
      BY <1>0, Zenon DEF PubInv, OpenOK
    <3> QED
      BY <1>0, <2>1, <2>2, <3>1, Zenon
  <2>4. closed = "open" => openCoord' = {live["coordinator"]} \ {0}
    <3>1. closed = "open" => openCoord = {live["coordinator"], next.coord, next.oldCoord} \ {0}
      BY <1>0, Zenon DEF PubInv, OpenOK
    <3> QED
      BY <1>0, <2>1, <3>1, Zenon
  <2>5. closed = "open" => openTransport' = {live["mapping"]}
    BY <1>0, <1>1, <1>2, Zenon DEF PubInv, OpenOK
  <2>6. /\ openGeo' \subseteq 1..gen /\ openCoord' \subseteq 1..gen /\ openTransport' \subseteq 1..gen
        /\ live["geoIP"] # 0 => live["geoIP"] \in openGeo'
    BY <1>0, <2>2, Zenon DEF PubInv, OpenOK
  <2> QED
    BY <1>0, <1>1, <2>3, <2>4, <2>5, <2>6, Zenon DEF OpenOK
<1> QED
  BY <1>3, <1>4, <1>5, <1>6, <1>7, <1>8, Zenon DEF PubInv

LEMMA DomainsPub ==
  ASSUME PubInv, ManageAdded
  PROVE  PubInv'
<1>0. /\ UNCHANGED <<live, tenantStates, openGeo, openCoord, openTransport, gen, cfg, pub, closed, stopping>>
      /\ rl = "domains" /\ rl' = "idle" /\ next' = NoResource /\ ~Building /\ ~Building'
  BY Zenon DEF ManageAdded, published, resources, shutdown, Building
<1>1. /\ Locked' /\ Stages' /\ FieldsOK' /\ StatesOK'
      /\ \A f : ~Passed(f) /\ ~Passed(f)'
  BY <1>0, QuietPub, Zenon DEF published
<1>2. CoreType'
  BY <1>0, RuntimeAssumption DEF PubInv, CoreType, NoResource, Gen
<1>3. HeldOK'
  BY <1>0, <1>1, Zenon DEF HeldOK, NoResource
<1>4. OpenOK'
  <2>1. /\ openGeo \subseteq 1..gen /\ openCoord \subseteq 1..gen /\ openTransport \subseteq 1..gen
        /\ live["geoIP"] # 0 => live["geoIP"] \in openGeo
        /\ closed = "open" => openGeo = {live["geoIP"]} \ {0} /\ openCoord = {live["coordinator"]} \ {0}
                              /\ openTransport = {live["mapping"]}
    BY <1>0, <1>1, Zenon DEF PubInv, OpenOK
  <2> QED
    BY <1>0, <1>1, <2>1, Zenon DEF OpenOK, NoResource
<1> QED
  BY <1>1, <1>2, <1>3, <1>4, Zenon DEF PubInv

LEMMA ClosePub ==
  ASSUME PubInv, CloseCoordinator \/ CloseGeoIP
  PROVE  PubInv'
<1>0. /\ UNCHANGED <<tenantStates, gen, cfg, rl, next, pub, stopping>>
      /\ closed' \in {"half", "closed"} /\ stopping /\ rl # "publish"
      /\ openGeo' \subseteq openGeo /\ openCoord' \subseteq openCoord /\ openTransport' \subseteq openTransport
      /\ \/ live' = [live EXCEPT !["healthChecks"] = 0, !["coordinator"] = 0] /\ openGeo' = openGeo
         \/ live' = [live EXCEPT !["geoIP"] = 0] /\ openGeo' = openGeo \ {live["geoIP"]}
  BY Zenon DEF CloseCoordinator, CloseGeoIP, RuntimeMuFree, Publishing, reload, PubInv, Locked
<1>1. \A f : ~Passed(f) /\ ~Passed(f)'
  BY <1>0, Zenon DEF Passed
<1>2. /\ live["mapping"]' = live["mapping"] /\ \A f \in Configuration : live'[f] = live[f]
      /\ live'["coordinator"] \in {0, live["coordinator"]}
      /\ live'["geoIP"] \in {0, live["geoIP"]}
      /\ live["geoIP"] # 0 /\ live'["geoIP"] # 0 => openGeo' = openGeo
  BY <1>0, Zenon DEF PubInv, CoreType, Field, Configuration
<1>3. \A f : Target(f)' = Target(f)
  BY <1>0, <1>1, <1>2, Zenon DEF Target
<1>4. CoreType'
  <2>1. gen \in Nat
    BY RuntimeAssumption DEF PubInv, CoreType, Gen
  <2>2. live' \in [Field -> 0..gen]
    BY <1>0, <2>1 DEF PubInv, CoreType
  <2> QED
    BY <1>0, <2>2, Zenon DEF PubInv, CoreType
<1>5. Locked' /\ Stages'
  BY <1>0, <1>1, <1>2, Zenon DEF PubInv, Locked, Stages, Building
<1>6. FieldsOK'
  BY <1>0, <1>2, <1>3, Zenon DEF PubInv, FieldsOK, GeoOf, CoordOf, S
<1>7. StatesOK'
  BY <1>0, <1>2, Zenon DEF PubInv, StatesOK, StateOf, S
<1>8. HeldOK'
  BY <1>0, <1>1, Zenon DEF PubInv, HeldOK, CoordMatches, GeoOf, CoordOf, S, Building
<1>9. OpenOK'
  <2>1. rl \in {"coord", "probe", "publish"} /\ next.geo # 0 => next.geo \in openGeo /\ next.geo # live["geoIP"]
    <3> SUFFICES ASSUME rl \in {"coord", "probe", "publish"}, next.geo # 0
                 PROVE  next.geo \in openGeo /\ next.geo # live["geoIP"]
      BY Zenon
    <3>1. Building
      BY <1>0, Zenon DEF Building
    <3>2. live["geoIP"] \in 0..(gen - 1) /\ gen \in Nat
      BY <3>1, Older, Zenon
    <3>3. next.geo = gen
      BY Zenon DEF PubInv, HeldOK, GeoOf
    <3> QED
      BY <3>2, <3>3 DEF PubInv, OpenOK
  <2>2. rl \in {"coord", "probe", "publish"} /\ next.geo # 0 => next.geo \in openGeo'
    BY <1>0, <2>1, Zenon
  <2>3. /\ openGeo' \subseteq 1..gen /\ openCoord' \subseteq 1..gen /\ openTransport' \subseteq 1..gen
        /\ live'["geoIP"] # 0 => live'["geoIP"] \in openGeo'
    BY <1>0, <1>2, Zenon DEF PubInv, OpenOK
  <2> QED
    BY <1>0, <2>2, <2>3, Zenon DEF OpenOK
<1> QED
  BY <1>4, <1>5, <1>6, <1>7, <1>8, <1>9, Zenon DEF PubInv

LEMMA StepPub ==
  ASSUME PubInv, [Next]_vars
  PROVE  PubInv'
<1>1. CASE UNCHANGED vars
  BY <1>1, StillPub, Zenon DEF vars, shutdown
<1>2. ASSUME NEW c \in Config \cup {Invalid}, ReloadStart(c) PROVE PubInv'
  BY <1>2, ReloadStartPub, Zenon
<1>3. CASE SetDomainManager \/ ManageSync \/ Stop \/ Exited
  BY <1>3, StillPub, Zenon DEF SetDomainManager, ManageSync, Stop, Exited, vars, shutdown
<1>4. CASE BuildTenants \/ InitBouncer \/ OpenGeoIP \/ StartCoordinator
  BY <1>4, BuildPub, BouncerPub, OpenGeoPub, CoordinatorPub, Zenon
<1>5. CASE ProbeAndLock \/ PublishField \/ PublishGeoIP \/ StatesDeleted \/ StatesStored
  BY <1>5, LockPub, FieldPub, GeoPub, StatesDonePub, Zenon
<1>6. CASE PublishEnd \/ ManageAdded \/ CloseCoordinator \/ CloseGeoIP
  BY <1>6, EndPub, DomainsPub, ClosePub, Zenon
<1>7. ASSUME NEW h \in Host, DeleteState(h) \/ StoreState(h) PROVE PubInv'
  BY <1>7, StatesMovePub, Zenon
<1>8. ASSUME NEW r \in Request, Begin(r) \/ RequestStep(r) PROVE PubInv'
  <2>1. UNCHANGED Outside
    BY <1>8, Zenon
       DEF Begin, RequestStep, ReadTrustForwardedFor, Resolve, Blocklist, Allowlist, GeoBegin,
           GeoEnd, FailMode, GlobalLimiter, RateLimit, Authenticate, CrowdSec, Inspect, Proxy
  <2> QED
    BY <2>1, StillPub, Zenon DEF Outside, shutdown
<1> QED
  BY <1>1, <1>2, <1>3, <1>4, <1>5, <1>6, <1>7, <1>8, Zenon DEF Next, Elsewhere, ReloadStep

-----------------------------------------------------------------------------
(***************************************************************************)
(* The watcher drives Reload, and reads every edit.                        *)
(***************************************************************************)
LEMMA InitWatch == WatchInit => WatchType /\ WatchInv
<1> SUFFICES ASSUME WatchInit PROVE WatchType /\ WatchInv
  BY Zenon
<1>1. WatchType
  <2>1. disk \in Start /\ loaded = disk
    BY Zenon DEF WatchInit
  <2>2. disk \in Files /\ loaded \in Files
    BY <2>1, ConfigWatchAssumption, Zenon DEF Files
  <2>3. queue = <<>> /\ reading = <<>>
    BY Zenon DEF WatchInit
  <2>4. queue \in Seq({"main", "shard", "removed", "created"}) /\ reading \in {<<>>} \cup {<<m>> : m \in Main}
    BY <2>3
  <2> QED
    BY <2>2, <2>4, Zenon DEF WatchInit, WatchType
<1>2. WatchInv
  BY Zenon DEF WatchInit, WatchInv
<1> QED
  BY <1>1, <1>2, Zenon

\* What an edit does to the queue.
LEMMA EditEffect ==
  ASSUME WatchType, WatchInv, NEW files \in Files, NEW event \in {"main", "shard", "removed", "created"},
         NEW noticed \in BOOLEAN, Edit(files, event, noticed), inotify' \in BOOLEAN
  PROVE  /\ WatchType'
         /\ UNCHANGED <<watching, watched, timer, reading, loaded>> /\ disk' = files
         /\ noticed => queue' # <<>> /\ Len(queue') = Len(queue) + 1 /\ queue'[Len(queue')] = event
         /\ ~noticed => queue' = queue
         /\ ~noticed /\ watching \in {"start", "config"} => missed'
         /\ missed => missed'
         /\ \A i \in 1..Len(queue) : i \in 1..Len(queue') /\ queue'[i] = queue[i]
         /\ Rewatches => Rewatches'
         /\ Queued("removed") => Queued("removed")'
<1>1. /\ UNCHANGED <<watching, watched, timer, reading, loaded>> /\ disk' = files
      /\ queue' = IF noticed THEN Append(queue, event) ELSE queue
      /\ missed' = (missed \/ (~noticed /\ watching \in {"start", "config"}))
  BY Zenon DEF Edit
<1>2. queue \in Seq({"main", "shard", "removed", "created"}) /\ Len(queue) \in Nat
  BY DEF WatchType
<1>3. /\ queue' \in Seq({"main", "shard", "removed", "created"})
      /\ noticed => queue' # <<>> /\ Len(queue') = Len(queue) + 1 /\ queue'[Len(queue')] = event
      /\ \A i \in 1..Len(queue) : i \in 1..Len(queue') /\ queue'[i] = queue[i]
  BY <1>1, <1>2
<1>4. missed' \in BOOLEAN
  BY <1>1, Zenon
<1>5. WatchType'
  BY <1>1, <1>3, <1>4, Zenon DEF WatchType
<1>6. Rewatches => Rewatches'
  <2> SUFFICES ASSUME Rewatches PROVE Rewatches'
    BY Zenon
  <2>1. PICK i \in 1..Len(queue) : queue[i] = "created" /\ (watched => \E j \in 1..(i - 1) : queue[j] = "removed")
    BY Zenon DEF Rewatches
  <2>2. \A j \in 1..(i - 1) : j \in 1..Len(queue)
    BY <1>2
  <2>3. i \in 1..Len(queue') /\ queue'[i] = "created" /\ (watched => \E j \in 1..(i - 1) : queue'[j] = "removed")
    BY <1>3, <2>1, <2>2, Zenon
  <2> QED
    BY <1>1, <2>3, Zenon DEF Rewatches
<1>7. Queued("removed") => Queued("removed")'
  BY <1>3, Zenon DEF Queued
<1> QED
  BY <1>1, <1>3, <1>5, <1>6, <1>7, Zenon

LEMMA OperatorStep ==
  ASSUME WatchType, WatchInv, Operator
  PROVE  WatchType' /\ WatchInv'
<1>0. disk = <<disk[1], disk[2]>> /\ disk[1] \in Main /\ disk[2] \in Shards \cup {NoDir}
  BY DEF WatchType, Files
<1>1. ASSUME NEW m \in Main, EditMain(m) PROVE WatchType' /\ WatchInv'
  <2>1. <<m, disk[2]>> \in Files
    BY <1>0, Zenon DEF Files
  <2>2. Edit(<<m, disk[2]>>, "main", ConfigDirWatched) /\ inotify' = inotify /\ ConfigDirWatched \in BOOLEAN
    BY <1>1 DEF EditMain, ConfigDirWatched
  <2>3. inotify' \in BOOLEAN
    BY <2>2, Zenon DEF WatchType
  <2> DEFINE d == <<m, disk[2]>>
  <2>4. d[2] = disk[2] /\ d \in Files
    BY <2>1, Zenon
  <2> HIDE DEF d
  <2>5. Edit(d, "main", ConfigDirWatched)
    BY <2>2, Zenon DEF d
  <2>6. /\ WatchType' /\ UNCHANGED <<watching, watched, timer, reading, loaded>> /\ disk' = d
        /\ ConfigDirWatched => queue' # <<>>
        /\ ~ConfigDirWatched /\ watching \in {"start", "config"} => missed'
        /\ Rewatches => Rewatches'
        /\ Queued("removed") => Queued("removed")'
    BY <2>2, <2>3, <2>4, <2>5, EditEffect, Zenon
  <2> QED
    BY <2>2, <2>4, <2>6, Zenon DEF WatchInv, ConfigDirWatched
<1>2. ASSUME NEW s \in Shards, EditShards(s) PROVE WatchType' /\ WatchInv'
  <2> DEFINE d == <<disk[1], s>>
  <2>1. d[2] = s /\ d[1] = disk[1] /\ d \in Files /\ s # NoDir
    BY <1>0, ConfigWatchAssumption, Zenon DEF Files
  <2> HIDE DEF d
  <2>2. Edit(d, "shard", inotify) /\ inotify' = inotify /\ inotify \in BOOLEAN /\ disk[2] # NoDir
    BY <1>2, Zenon DEF EditShards, d, WatchType
  <2>3. inotify' \in BOOLEAN
    BY <2>2, Zenon
  <2>4. /\ WatchType' /\ UNCHANGED <<watching, watched, timer, reading, loaded>> /\ disk' = d
        /\ inotify => queue' # <<>>
        /\ ~inotify => queue' = queue
        /\ ~inotify /\ watching \in {"start", "config"} => missed'
        /\ Rewatches => Rewatches'
    BY <2>1, <2>2, <2>3, EditEffect, Zenon
  <2>5. watching = "ready" => queue' # <<>>
    <3>1. watching = "ready" /\ ~inotify => queue # <<>>
      BY <2>2 DEF WatchInv, Rewatches
    <3> QED
      BY <2>4, <3>1, Zenon
  <2> QED
    BY <2>1, <2>2, <2>4, <2>5, Zenon DEF WatchInv
<1>3. CASE RemoveDir
  <2> DEFINE d == <<disk[1], NoDir>>
  <2>1. d[2] = NoDir /\ d \in Files
    BY <1>0, Zenon DEF Files
  <2> HIDE DEF d
  <2>2. Edit(d, "removed", ConfigDirWatched) /\ inotify' = FALSE /\ ConfigDirWatched \in BOOLEAN
    BY <1>3 DEF RemoveDir, d, ConfigDirWatched
  <2>3. inotify' \in BOOLEAN
    BY <2>2, Zenon
  <2>4. /\ WatchType' /\ UNCHANGED <<watching, watched, timer, reading, loaded>> /\ disk' = d
        /\ ConfigDirWatched => queue' # <<>> /\ Len(queue') = Len(queue) + 1 /\ queue'[Len(queue')] = "removed"
        /\ ~ConfigDirWatched /\ watching \in {"start", "config"} => missed'
    BY <2>1, <2>2, <2>3, EditEffect, Zenon
  <2>5. ConfigDirWatched => Queued("removed")'
    <3>1. Len(queue) \in Nat
      BY DEF WatchType
    <3>2. ConfigDirWatched => Len(queue') \in 1..Len(queue')
      BY <2>4, <3>1
    <3> QED
      BY <2>4, <3>2, Zenon DEF Queued
  <2> QED
    BY <2>1, <2>2, <2>4, <2>5, Zenon DEF WatchInv, ConfigDirWatched
<1>4. ASSUME NEW s \in Shards, CreateDir(s) PROVE WatchType' /\ WatchInv'
  <2> DEFINE d == <<disk[1], s>>
  <2>1. d[2] = s /\ d \in Files /\ s # NoDir
    BY <1>0, ConfigWatchAssumption, Zenon DEF Files
  <2> HIDE DEF d
  <2>2. Edit(d, "created", ConfigDirWatched) /\ inotify' = inotify /\ ConfigDirWatched \in BOOLEAN /\ disk[2] = NoDir
    BY <1>4 DEF CreateDir, d, ConfigDirWatched
  <2>3. inotify' \in BOOLEAN
    BY <2>2, Zenon DEF WatchType
  <2>4. /\ WatchType' /\ UNCHANGED <<watching, watched, timer, reading, loaded>> /\ disk' = d
        /\ ConfigDirWatched => queue' # <<>> /\ Len(queue') = Len(queue) + 1 /\ queue'[Len(queue')] = "created"
        /\ ~ConfigDirWatched /\ watching \in {"start", "config"} => missed'
        /\ \A i \in 1..Len(queue) : i \in 1..Len(queue') /\ queue'[i] = queue[i]
    BY <2>1, <2>2, <2>3, EditEffect, Zenon
  <2>5. watching = "ready" => Rewatches'
    <3> SUFFICES ASSUME watching = "ready" PROVE Rewatches'
      BY Zenon
    <3>1. Len(queue) \in Nat /\ Len(queue') = Len(queue) + 1 /\ queue'[Len(queue')] = "created"
      BY <2>4 DEF WatchType, ConfigDirWatched
    <3>2. watched => \E j \in 1..Len(queue) : queue[j] = "removed"
      BY <2>2, Zenon DEF WatchInv, Queued
    <3>3. watched' => \E j \in 1..(Len(queue') - 1) : queue'[j] = "removed"
      BY <2>4, <3>1, <3>2
    <3>4. Len(queue') \in 1..Len(queue')
      BY <3>1
    <3> QED
      BY <3>1, <3>3, <3>4, Zenon DEF Rewatches
  <2> QED
    BY <2>1, <2>2, <2>4, <2>5, Zenon DEF WatchInv, ConfigDirWatched
<1> QED
  BY <1>1, <1>2, <1>3, <1>4, Zenon DEF Operator

LEMMA HandleStep ==
  ASSUME WatchType, WatchInv, HandleEvent
  PROVE  WatchType' /\ WatchInv'
<1> DEFINE event == Head(queue)
           adds == event = "created" /\ ~WatchedBefore(event) /\ disk[2] # NoDir
<1>0. /\ UNCHANGED <<disk, watching, reading, loaded, missed>> /\ watching = "ready" /\ queue # <<>>
      /\ watched' = (WatchedBefore(event) \/ adds) /\ inotify' = (inotify \/ adds)
      /\ timer' = "running" /\ queue' = Tail(queue)
  BY Zenon DEF HandleEvent, Schedules
<1>1. /\ queue \in Seq({"main", "shard", "removed", "created"}) /\ Len(queue) \in Nat /\ Len(queue) >= 1
      /\ event = queue[1]
  BY <1>0 DEF WatchType
<1>2. /\ queue' \in Seq({"main", "shard", "removed", "created"}) /\ Len(queue') = Len(queue) - 1
      /\ \A i \in 2..Len(queue) : i - 1 \in 1..Len(queue') /\ queue'[i - 1] = queue[i]
  BY <1>0, <1>1
<1>3. watched' \in BOOLEAN /\ inotify' \in BOOLEAN
  BY <1>0, Zenon
<1>4. WatchType'
  BY <1>0, <1>2, <1>3, Zenon DEF WatchType
<1>5. disk[2] # NoDir /\ ~inotify' => Rewatches'
  <2> SUFFICES ASSUME disk[2] # NoDir, ~inotify' PROVE Rewatches'
    BY Zenon
  <2>1. ~inotify /\ ~adds
    BY <1>0, Zenon
  <2>2. PICK i \in 1..Len(queue) : queue[i] = "created" /\ (watched => \E j \in 1..(i - 1) : queue[j] = "removed")
    BY <1>0, <2>1, Zenon DEF WatchInv, Rewatches
  <2>3. i # 1
    BY <1>1, <2>1, <2>2 DEF WatchedBefore
  <2>4. i \in 2..Len(queue)
    BY <1>1, <2>3
  <2>5. watched' => \E j \in 1..(i - 2) : queue'[j] = "removed"
    <3> SUFFICES ASSUME watched' PROVE \E j \in 1..(i - 2) : queue'[j] = "removed"
      BY Zenon
    <3>1. watched /\ event # "removed"
      BY <1>0, <2>1, Zenon DEF WatchedBefore
    <3>2. PICK j \in 1..(i - 1) : queue[j] = "removed"
      BY <2>2, <3>1, Zenon
    <3>3. j \in 2..Len(queue) /\ j - 1 \in 1..(i - 2)
      BY <1>1, <2>4, <3>1, <3>2
    <3> QED
      BY <1>2, <3>2, <3>3, Zenon
  <2>6. i - 1 \in 1..Len(queue') /\ queue'[i - 1] = "created" /\ (i - 1) - 1 = i - 2
    BY <1>2, <2>2, <2>4
  <2> QED
    BY <2>5, <2>6, Zenon DEF Rewatches
<1>6. disk[2] = NoDir /\ watched' => Queued("removed")'
  <2> SUFFICES ASSUME disk[2] = NoDir, watched' PROVE Queued("removed")'
    BY Zenon
  <2>1. watched /\ event # "removed"
    BY <1>0, Zenon DEF WatchedBefore
  <2>2. PICK j \in 1..Len(queue) : queue[j] = "removed"
    BY <1>0, <2>1, Zenon DEF WatchInv, Queued
  <2>3. j \in 2..Len(queue)
    BY <1>1, <2>1, <2>2
  <2> QED
    BY <1>2, <2>2, <2>3, Zenon DEF Queued
<1>7. WatchInv'
  BY <1>0, <1>5, <1>6, Zenon DEF WatchInv
<1> QED
  BY <1>4, <1>7, Zenon

LEMMA WatcherStep ==
  ASSUME WatchType, WatchInv, Watcher
  PROVE  WatchType' /\ WatchInv'
<1>1. CASE WatchConfigDir
  <2>1. UNCHANGED <<disk, watched, inotify, queue, timer, reading, loaded, missed>>
        /\ watching = "start" /\ watching' \in {"config", "ended"}
    BY <1>1, Zenon DEF WatchConfigDir
  <2> QED
    BY <2>1, Zenon DEF WatchType, WatchInv
<1>2. CASE WatchTenantsDir
  <2>1. UNCHANGED <<disk, queue, timer, reading, loaded, missed>> /\ watching = "config"
        /\ \/ disk[2] # NoDir /\ watching' = "ready" /\ watched' = TRUE /\ inotify' = TRUE
           \/ disk[2] = NoDir /\ watching' = "ready" /\ watched' = watched /\ inotify' = inotify
           \/ watching' = "ended" /\ watched' = watched /\ inotify' = inotify
    BY <1>2, Zenon DEF WatchTenantsDir
  <2>2. watched' \in BOOLEAN /\ inotify' \in BOOLEAN
    BY <2>1, Zenon DEF WatchType
  <2>3. WatchType'
    BY <2>1, <2>2, Zenon DEF WatchType
  <2>4. WatchInv'
    BY <2>1 DEF WatchInv
  <2> QED
    BY <2>3, <2>4, Zenon
<1>3. CASE HandleEvent
  BY <1>3, HandleStep, Zenon
<1>4. CASE TimerExpires
  <2>1. UNCHANGED <<disk, watching, watched, inotify, queue, reading, loaded, missed>>
        /\ timer = "running" /\ timer' = "expired"
    BY <1>4, Zenon DEF TimerExpires
  <2> QED
    BY <2>1, Zenon DEF WatchType, WatchInv, Rewatches, Queued
<1>5. CASE LoadMain
  <2>1. UNCHANGED <<disk, watching, watched, inotify, queue, loaded>> /\ watching = "ready"
        /\ timer' = "off" /\ reading' = <<disk[1]>> /\ missed' = FALSE
    BY <1>5, Zenon DEF LoadMain
  <2>2. reading' # <<>> /\ reading'[1] = disk[1] /\ reading' \in {<<m>> : m \in Main}
    BY <2>1, Zenon DEF WatchType, Files
  <2>3. WatchType'
    BY <2>1, <2>2, Zenon DEF WatchType
  <2>4. WatchInv'
    BY <2>1, <2>2, Zenon DEF WatchInv, Rewatches, Queued
  <2> QED
    BY <2>3, <2>4, Zenon
<1>6. CASE LoadShards
  <2>1. UNCHANGED <<disk, watching, watched, inotify, queue, timer, missed>>
        /\ reading # <<>> /\ reading' = <<>> /\ loaded' = <<reading[1], disk[2]>>
    BY <1>6, Zenon DEF LoadShards
  <2>2. disk = <<disk[1], disk[2]>> /\ disk[2] \in Shards \cup {NoDir} /\ reading[1] \in Main
    BY <2>1 DEF WatchType, Files
  <2>3. loaded' \in Files /\ (reading[1] = disk[1] => loaded' = disk)
    BY <2>1, <2>2, Zenon DEF Files
  <2>4. WatchType'
    BY <2>1, <2>3, Zenon DEF WatchType
  <2>5. watching \notin {"start", "config"}
    BY <2>1, Zenon DEF WatchInv
  <2>6. (Rewatches' <=> Rewatches) /\ (Queued("removed")' <=> Queued("removed"))
    BY <2>1, Zenon DEF Rewatches, Queued
  <2>7. WatchInv'
    BY <2>1, <2>3, <2>5, <2>6, Zenon DEF WatchInv
  <2> QED
    BY <2>4, <2>7, Zenon
<1>7. CASE WatcherReturns
  <2>1. UNCHANGED <<disk, watched, inotify, queue, timer, reading, loaded, missed>> /\ watching' = "ended"
    BY <1>7, Zenon DEF WatcherReturns
  <2> QED
    BY <2>1, Zenon DEF WatchType, WatchInv
<1> QED
  BY <1>1, <1>2, <1>3, <1>4, <1>5, <1>6, <1>7, Zenon DEF Watcher

\* Edits and the watcher stay outside of the runtime but for ReloadStart, on
\* what LoadConfig makes of files that were on disk.
LEMMA WatchRefines ==
  ASSUME WatchType, [WatchNext]_wvars
  PROVE  [Next]_vars
<1>1. CASE Operator
  BY <1>1, Zenon DEF Operator, EditMain, EditShards, CreateDir, RemoveDir, Edit
<1>2. CASE Watcher /\ ~LoadShards
  BY <1>2, Zenon
     DEF Watcher, WatchConfigDir, WatchTenantsDir, HandleEvent, TimerExpires, LoadMain,
         WatcherReturns
<1>3. CASE LoadShards
  <2>1. reading # <<>> /\ loaded' = <<reading[1], disk[2]>> /\ ReloadStart(Load[loaded'])
    BY <1>3, Zenon DEF LoadShards
  <2>2. disk[2] \in Shards \cup {NoDir} /\ reading[1] \in Main
    BY <2>1 DEF WatchType, Files
  <2>3. Load[loaded'] \in Config \cup {Invalid}
    BY <2>1, <2>2, ConfigWatchAssumption, Zenon
  <2> QED
    BY <2>1, <2>3, Zenon DEF Next
<1> QED
  BY <1>1, <1>2, <1>3, Zenon DEF WatchNext, wvars, Next

LEMMA StepWatch ==
  ASSUME WatchType, WatchInv, [WatchNext]_wvars
  PROVE  WatchType' /\ WatchInv'
<1>1. CASE UNCHANGED <<disk, edits, watch>>
  BY <1>1, Zenon DEF watch, WatchType, WatchInv, Rewatches, Queued
<1> QED
  BY <1>1, OperatorStep, WatcherStep, Zenon DEF WatchNext, wvars

LEMMA WatchSafe == WatchSpec => [](WatchType /\ WatchInv)
<1>1. WatchInit => WatchType /\ WatchInv
  BY InitWatch, Zenon
<1>2. WatchType /\ WatchInv /\ [WatchNext]_wvars => (WatchType /\ WatchInv)'
  BY StepWatch, Zenon
<1> QED
  BY <1>1, <1>2, PTL DEF WatchSpec

\* The watcher only ever reloads: with watchConfig, its timer, its watches and
\* an operator editing the files around it, the runtime goes through behaviours
\* of Runtime's own specification.
THEOREM WatcherOnlyReloads == WatchSpec => Spec
<1>1. WatchInit => Init
  BY Zenon DEF WatchInit
<1>2. WatchType /\ [WatchNext]_wvars => [Next]_vars
  BY WatchRefines, Zenon
<1> QED
  BY <1>1, <1>2, WatchSafe, PTL DEF WatchSpec, Spec

\* No edit of the configuration is lost, however many there are and whenever
\* tenants.d comes and goes: once the watcher is at rest, Reload has read what
\* is on disk.
THEOREM EditsAreRead == WatchSpec => []NoEditLost
<1>1. WatchInv => NoEditLost
  BY Zenon DEF WatchInv, NoEditLost, Free
<1> QED
  BY <1>1, WatchSafe, PTL

-----------------------------------------------------------------------------
(***************************************************************************)
(* Certificates.                                                           *)
(***************************************************************************)
Published == Passed("mapping") \/ rl = "domains"

LEMMA InitCert == Init => CertInv
  BY Zenon DEF Init, CertInv, Building

\* Steps that leave certificates and the published tenants alone.
LEMMA CertKept ==
  ASSUME CertInv, UNCHANGED <<acme, gen, cfg>>, live["mapping"]' = live["mapping"],
         Published' <=> Published,
         (Building \/ rl = "publish")' => next'.added = next.added /\ (Building \/ rl = "publish"),
         Published => next'.added = next.added
  PROVE  CertInv'
<1>1. UNCHANGED <<domainManager, managed, refused>>
  BY Zenon DEF acme
<1> QED
  BY <1>1, Zenon DEF CertInv, Published, S

LEMMA StepCert ==
  ASSUME PubInv, CertInv, [Next]_vars
  PROVE  CertInv'
<1>0. gen \in Nat /\ gen >= 1 /\ gen \in Gen /\ live["mapping"] \in 1..gen
  BY RuntimeAssumption DEF PubInv, CoreType, Stages, Gen
<1>1. CASE UNCHANGED <<acme, published, reload>>
  <2>1. UNCHANGED <<acme, live, gen, cfg, rl, next, pub>>
    BY <1>1, Zenon DEF published, reload
  <2>2. Published' <=> Published
    BY <2>1, Zenon DEF Published, Passed
  <2> QED
    BY <2>1, <2>2, CertKept, Zenon DEF Building
<1>2. ASSUME NEW c \in Config \cup {Invalid}, ReloadStart(c) PROVE CertInv'
  <2>1. /\ UNCHANGED <<domainManager, managed, refused, live>> /\ rl = "idle" /\ gen' = gen + 1 /\ gen' \in Gen
        /\ gen < MaxGen
    BY <1>0, <1>2, RuntimeAssumption DEF ReloadStart, acme, published, Gen
  <2>2. CASE AcceptsCandidate(c)
    <3>1. /\ rl' = "build" /\ cfg' = [cfg EXCEPT ![gen'] = c]
          /\ next' = [next EXCEPT !.added = AddedDomains(c)]
      BY <1>2, <2>2, Zenon DEF ReloadStart
    <3>2. cfg'[gen'] = c /\ cfg'[live["mapping"]] = cfg[live["mapping"]] /\ next'.added = AddedDomains(c)
      BY <1>0, <2>1, <3>1 DEF PubInv, CoreType
    <3>3. Settings[c].acme <=> S(live["mapping"]).acme
      <4>1. live["mapping"] \in Gen
        BY <1>0, RuntimeAssumption DEF Gen
      <4>2. c \in Config
        BY <2>2, Zenon DEF AcceptsCandidate
      <4>3. Settings[c].acme \in BOOLEAN /\ S(live["mapping"]).acme \in BOOLEAN
        BY <4>1, <4>2, RuntimeAssumption, Zenon DEF PubInv, CoreType, S, SettingsType
      <4> QED
        BY <2>2, <4>3, Zenon DEF AcceptsCandidate
    <3>4. Settings[c].acme => Settings[c].tenants \subseteq S(live["mapping"]).tenants \cup AddedDomains(c)
      BY Zenon DEF AddedDomains
    <3>5. S(gen)' = Settings[c] /\ S(live["mapping"])' = S(live["mapping"])
      BY <2>1, <3>2, Zenon DEF S
    <3>6. ~Published /\ ~Published'
      BY <2>1, <3>1, Zenon DEF Published, Passed
    <3> QED
      BY <2>1, <3>1, <3>2, <3>3, <3>4, <3>5, <3>6, Zenon DEF CertInv, Published
  <2>3. CASE ~AcceptsCandidate(c)
    <3>1. UNCHANGED <<rl, cfg, next>>
      BY <1>2, <2>3, Zenon DEF ReloadStart
    <3> QED
      BY <2>1, <3>1, Zenon DEF CertInv, Building, S, Passed
  <2> QED
    BY <2>2, <2>3, Zenon
<1>3. CASE SetDomainManager
  <2>1. UNCHANGED <<managed, refused, live, gen, cfg, rl, next, pub>> /\ domainManager = "syncing" /\ domainManager' = "set"
    BY <1>3, Zenon DEF SetDomainManager, published, reload
  <2> QED
    BY <2>1, Zenon DEF CertInv, Building, S, Passed
<1>4. CASE ManageSync
  <2>1. /\ UNCHANGED <<refused, live, gen, cfg, rl, next, pub>> /\ domainManager' = "syncing"
        /\ S(live["mapping"]).acme /\ managed' = S(live["mapping"]).tenants
    BY <1>4, Zenon DEF ManageSync, published, reload
  <2>2. managed' \subseteq Host
    <3>1. live["mapping"] \in Gen
      BY <1>0, RuntimeAssumption DEF Gen
    <3> QED
      BY <2>1, <3>1, SettingsKnown, Zenon DEF PubInv, CoreType
  <2> QED
    BY <2>1, <2>2, Zenon DEF CertInv, Building, S, Passed
<1>5. CASE BuildTenants \/ InitBouncer \/ OpenGeoIP \/ StartCoordinator \/ ProbeAndLock
  <2>1. /\ UNCHANGED <<acme, live, gen, cfg>> /\ Building
        /\ Building' \/ rl' = "publish" => next'.added = next.added
        /\ rl' # "domains" /\ (rl' = "publish" => pub' = 1)
    BY <1>5, Zenon
       DEF BuildTenants, InitBouncer, OpenGeoIP, StartCoordinator, ProbeAndLock, ReloadFail,
           Building, published, PubInv, CoreType
  <2>2. ~Published /\ ~Published'
    BY <2>1 DEF Published, Passed, Building
  <2> QED
    BY <2>1, <2>2, CertKept, Zenon
<1>6. CASE PublishField
  <2>1. /\ UNCHANGED <<acme, gen, cfg, rl, next>> /\ rl = "publish" /\ pub \in 1..18 /\ pub' = pub + 1
        /\ live' = [live EXCEPT ![PublishOrder[pub]] = IF PublishOrder[pub] = "coordinator" THEN next.coord ELSE gen]
    BY <1>6, OrderIs DEF PublishField, PubInv, CoreType
  <2>2. Passed("mapping")' <=> Passed("mapping") \/ PublishOrder[pub] = "mapping"
    BY <2>1, PassedStep, Zenon
  <2>3. ~Passed("mapping")
    BY <2>1, PassedPlaces
  <2>4. CASE PublishOrder[pub] # "mapping"
    <3>1. live["mapping"]' = live["mapping"]
      BY <2>1, <2>4, Zenon DEF PubInv, CoreType, Field
    <3> QED
      BY <2>1, <2>2, <2>3, <2>4, <3>1, CertKept, Zenon DEF Published
  <2>5. CASE PublishOrder[pub] = "mapping"
    <3>1. live["mapping"]' = gen /\ Passed("mapping")'
      BY <2>1, <2>2, <2>5, Zenon DEF PubInv, CoreType, Field
    <3> QED
      BY <2>1, <2>3, <3>1, Zenon DEF CertInv, S, Building, acme
  <2> QED
    BY <2>4, <2>5, Zenon
<1>7. CASE PublishGeoIP \/ StatesDeleted \/ StatesStored
  <2>1. /\ UNCHANGED <<acme, gen, cfg, rl>> /\ next'.added = next.added /\ rl = "publish" /\ pub \in 1..18
        /\ pub' = pub + 1 /\ PublishOrder[pub] \in {"geoIP", "deleteStates", "storeStates"}
        /\ live["mapping"]' = live["mapping"]
    BY <1>7, OrderIs
       DEF PublishGeoIP, StatesDeleted, StatesStored, At, published, PubInv, CoreType, Field
  <2>2. Passed("mapping")' <=> Passed("mapping")
    BY <2>1, PassedStep, Zenon
  <2> QED
    BY <2>1, <2>2, CertKept, Zenon DEF Published
<1>8. ASSUME NEW h \in Host, DeleteState(h) \/ StoreState(h) PROVE CertInv'
  <2>1. UNCHANGED <<acme, live, gen, cfg, rl, next, pub>>
    BY <1>8, Zenon DEF DeleteState, StoreState, reload
  <2>2. Published' <=> Published
    BY <2>1, Zenon DEF Published, Passed
  <2> QED
    BY <2>1, <2>2, CertKept, Zenon DEF Building
<1>9. CASE PublishEnd
  <2>1. UNCHANGED <<acme, live, gen, cfg, next>> /\ rl = "publish" /\ rl' = "domains" /\ pub = 19
    BY <1>9, OrderIs DEF PublishEnd, published, PubInv, CoreType
  <2>2. Published /\ Published'
    BY <2>1, PassedPlaces DEF Published
  <2> QED
    BY <2>1, <2>2, CertKept, Zenon DEF Building
<1>10. CASE ManageAdded
  <2>1. /\ UNCHANGED <<domainManager, live, gen, cfg>> /\ rl = "domains" /\ rl' = "idle"
        /\ managed \cup refused \cup next.added = managed' \cup refused'
        /\ managed' \subseteq managed \cup next.added /\ refused' \subseteq refused \cup next.added
    BY <1>10, Zenon DEF ManageAdded, published
  <2>2. next.added \subseteq Host
    BY Zenon DEF PubInv, CoreType
  <2> QED
    BY <2>1, <2>2, Zenon DEF CertInv, Building, S, Passed
<1>11. CASE CloseCoordinator \/ CloseGeoIP
  <2>1. UNCHANGED <<acme, gen, cfg, rl, next, pub>> /\ live["mapping"]' = live["mapping"]
    BY <1>11, Zenon DEF CloseCoordinator, CloseGeoIP, reload, PubInv, CoreType, Field
  <2>2. Published' <=> Published
    BY <2>1, Zenon DEF Published, Passed
  <2> QED
    BY <2>1, <2>2, CertKept, Zenon DEF Building
<1>12. ASSUME NEW r \in Request, Begin(r) \/ RequestStep(r) PROVE UNCHANGED <<acme, published, reload>>
  BY <1>12, Zenon
     DEF Begin, RequestStep, ReadTrustForwardedFor, Resolve, Blocklist, Allowlist, GeoBegin,
         GeoEnd, FailMode, GlobalLimiter, RateLimit, Authenticate, CrowdSec, Inspect, Proxy,
         Outside
<1>13. CASE Stop \/ Exited \/ UNCHANGED vars
  BY <1>1, <1>13, Zenon DEF Stop, Exited, vars
<1> QED
  BY <1>1, <1>2, <1>3, <1>4, <1>5, <1>6, <1>7, <1>8, <1>9, <1>10, <1>11, <1>12, <1>13, Zenon
     DEF Next, Elsewhere, ReloadStep

-----------------------------------------------------------------------------
(***************************************************************************)
(* Requests.                                                               *)
(***************************************************************************)

\* A step of request r touches its own locals only.
Own(r) ==
  /\ UNCHANGED <<published, resources, reload, shutdown, lapi, country, host>>
  /\ \A q \in Request \ {r} :
       /\ pc'[q] = pc[q] /\ entry'[q] = entry[q] /\ reader'[q] = reader[q]
       /\ allowlisted'[q] = allowlisted[q] /\ verdict'[q] = verdict[q]
       /\ seen'[q] = seen[q] /\ base'[q] = base[q] /\ disturbed'[q] = disturbed[q]


VerdictType == DOMAIN verdict = Request /\ verdict = [r \in Request |-> verdict[r]]

\* pc and verdict after Goto or Answer, seen after See.
LEMMA GotoEffect ==
  ASSUME RequestType, NEW r \in Request, NEW l \in Label, Goto(r, l)
  PROVE  /\ pc' \in [Request -> Label] /\ VerdictType'
         /\ pc'[r] = l /\ verdict'[r] = verdict[r]
         /\ \A q \in Request \ {r} : pc'[q] = pc[q] /\ verdict'[q] = verdict[q]
  BY Zenon DEF RequestType, Goto, VerdictType

LEMMA AnswerEffect ==
  ASSUME RequestType, NEW r \in Request, NEW v, Answer(r, v)
  PROVE  /\ pc' \in [Request -> Label] /\ VerdictType'
         /\ pc'[r] = "done" /\ verdict'[r] = v
         /\ \A q \in Request \ {r} : pc'[q] = pc[q] /\ verdict'[q] = verdict[q]
<1>1. pc \in [Request -> Label] /\ "done" \in Label
  BY Zenon DEF RequestType, Label
<1>2. /\ pc' \in [Request -> Label] /\ pc'[r] = "done"
      /\ \A q \in Request \ {r} : pc'[q] = pc[q]
  BY <1>1, Zenon DEF Answer
<1>3. DOMAIN verdict = Request /\ verdict' = [verdict EXCEPT ![r] = v]
  BY Zenon DEF RequestType, Answer
<1>4. VerdictType' /\ verdict'[r] = v /\ \A q \in Request \ {r} : verdict'[q] = verdict[q]
  BY <1>3, Zenon DEF VerdictType
<1> QED
  BY <1>2, <1>4, Zenon

LEMMA SeeEffect ==
  ASSUME RequestType, NEW r \in Request, NEW g \in Nat, See(r, g)
  PROVE  /\ seen' \in [Request -> SUBSET Nat] /\ seen'[r] = seen[r] \cup ({g} \ {0})
         /\ \A q \in Request \ {r} : seen'[q] = seen[q]
  BY Zenon DEF RequestType, See

\* The fields a request reads hold generations, none older than the published
\* mapping.
LEMMA ReadsKnown ==
  ASSUME PubInv
  PROVE  /\ gen \in Nat /\ gen \in Gen /\ live["mapping"] \in 1..gen
         /\ \A f \in Field : live[f] \in 0..gen /\ live[f] \in Nat
         /\ \A h \in Host : tenantStates[h] \in 0..gen /\ tenantStates[h] \in Nat
         /\ \A f \in Configuration : live[f] >= live["mapping"] /\ live[f] \in Gen
         /\ live["geoIP"] = 0 \/ live["geoIP"] >= live["mapping"]
         /\ \A h \in Host : tenantStates[h] = 0 \/ tenantStates[h] >= live["mapping"]
<1>1. /\ gen \in Nat /\ gen \in Gen /\ live["mapping"] \in 1..gen
      /\ \A f \in Field : live[f] \in 0..gen /\ live[f] \in Nat
      /\ \A h \in Host : tenantStates[h] \in 0..gen /\ tenantStates[h] \in Nat
  BY RuntimeAssumption DEF PubInv, CoreType, Gen, Stages
<1>2. \A f : Target(f) \in {gen, live["mapping"]}
  BY Zenon DEF Target
<1>3. \A f \in Configuration : live[f] >= live["mapping"] /\ live[f] \in Gen
  BY <1>1, <1>2, RuntimeAssumption DEF PubInv, FieldsOK, Gen
<1>4. live["geoIP"] = 0 \/ live["geoIP"] >= live["mapping"]
  BY <1>1, <1>2 DEF PubInv, FieldsOK, GeoOf
<1>5. \A h \in Host : tenantStates[h] \in {0, live["mapping"], gen}
  <2> TAKE h \in Host
  <2>1. StateOf(gen, h) \in {0, gen} /\ StateOf(live["mapping"], h) \in {0, live["mapping"]}
    BY Zenon DEF StateOf
  <2>2. \/ rl # "publish" \/ pub < 16 \/ (rl = "publish" /\ pub = 16) \/ (rl = "publish" /\ pub = 17)
        \/ (rl = "publish" /\ pub > 17)
    BY DEF PubInv, CoreType
  <2> QED
    BY <2>1, <2>2, Zenon DEF PubInv, StatesOK
<1> QED
  BY <1>1, <1>3, <1>4, <1>5

\* What a step of a request does to its own locals.
LEMMA OwnStep ==
  ASSUME RequestType, NEW r \in Request, gen \in Nat,
         UNCHANGED <<published, resources, reload, shutdown, lapi, country, host>>,
         (\E l \in Label : Goto(r, l)) \/ (\E v : Answer(r, v)),
         UNCHANGED seen \/ (\E g \in Nat : See(r, g)),
         UNCHANGED entry \/ (\E e \in 0..gen : entry' = [entry EXCEPT ![r] = e]),
         UNCHANGED reader \/ (\E e \in 0..gen : reader' = [reader EXCEPT ![r] = e]),
         UNCHANGED allowlisted \/ (\E a \in BOOLEAN : allowlisted' = [allowlisted EXCEPT ![r] = a]),
         UNCHANGED base \/ (\E e \in 0..gen : base' = [base EXCEPT ![r] = e]),
         UNCHANGED disturbed \/ (\E a \in BOOLEAN : disturbed' = [disturbed EXCEPT ![r] = a])
  PROVE  RequestType' /\ Own(r)
<1>0. gen' = gen
  BY Zenon DEF reload
<1>1. /\ pc' \in [Request -> Label] /\ VerdictType'
      /\ \A q \in Request \ {r} : pc'[q] = pc[q] /\ verdict'[q] = verdict[q]
  BY GotoEffect, AnswerEffect, Zenon
<1>2. seen' \in [Request -> SUBSET Nat] /\ \A q \in Request \ {r} : seen'[q] = seen[q]
  BY SeeEffect, Zenon DEF RequestType
<1>3. entry' \in [Request -> 0..gen] /\ \A q \in Request \ {r} : entry'[q] = entry[q]
  BY DEF RequestType
<1>4. reader' \in [Request -> 0..gen] /\ \A q \in Request \ {r} : reader'[q] = reader[q]
  BY DEF RequestType
<1>5. allowlisted' \in [Request -> BOOLEAN] /\ \A q \in Request \ {r} : allowlisted'[q] = allowlisted[q]
  BY Zenon DEF RequestType
<1>6. base' \in [Request -> 0..gen] /\ \A q \in Request \ {r} : base'[q] = base[q]
  BY DEF RequestType
<1>7. disturbed' \in [Request -> BOOLEAN] /\ \A q \in Request \ {r} : disturbed'[q] = disturbed[q]
  BY Zenon DEF RequestType
<1>8. RequestType'
  BY <1>0, <1>1, <1>2, <1>3, <1>4, <1>5, <1>6, <1>7, Zenon DEF RequestType, VerdictType
<1> QED
  BY <1>1, <1>2, <1>3, <1>4, <1>5, <1>6, <1>7, <1>8, Zenon DEF Own

LEMMA RequestMoves ==
  ASSUME PubInv, RequestType, NEW r \in Request, Begin(r) \/ RequestStep(r)
  PROVE  RequestType' /\ Own(r)
<1> USE DEF Outside, env
<1>0. /\ gen \in Nat /\ \A f \in Field : live[f] \in 0..gen /\ live[f] \in Nat
      /\ \A h \in Host : tenantStates[h] \in Nat
      /\ host[r] \in Host /\ 0 \in 0..gen
  BY ReadsKnown DEF RequestType
<1>1. CASE Begin(r)
  <2>1. (~RuntimeMuFree) \in BOOLEAN /\ live["mapping"] \in 0..gen /\ live["trustedProxyCIDRs"] \in Nat /\ "trust" \in Label
    BY <1>0, Zenon DEF Field, Label
  <2> QED
    BY <1>0, <1>1, <2>1, OwnStep, Zenon DEF Begin
<1>2. CASE ReadTrustForwardedFor(r)
  <2>1. live["trustForwardedFor"] \in Nat /\ "resolve" \in Label
    BY <1>0, Zenon DEF Field, Label
  <2> QED
    BY <1>0, <1>2, <2>1, OwnStep, Zenon DEF ReadTrustForwardedFor
<1>3. CASE Resolve(r)
  <2>1. live["mapping"] \in Nat /\ live["mapping"] \in 0..gen /\ "blocklist" \in Label
    BY <1>0, Zenon DEF Field, Label
  <2> QED
    BY <1>0, <1>3, <2>1, OwnStep, Zenon DEF Resolve
<1>4. CASE Blocklist(r)
  <2>1. live["blockIPs"] \in Nat /\ "allowlist" \in Label
    BY <1>0, Zenon DEF Field, Label
  <2> QED
    BY <1>0, <1>4, <2>1, OwnStep, Zenon DEF Blocklist
<1>5. CASE Allowlist(r)
  <2>1. live["allowIPs"] \in Nat /\ {"geo", "limiter"} \subseteq Label
    BY <1>0, Zenon DEF Field, Label
  <2>2. S(live["allowIPs"]).allows \in BOOLEAN
    <3>1. live["allowIPs"] \in Gen
      BY ReadsKnown, Zenon DEF Configuration, Field
    <3> QED
      BY <3>1, RuntimeAssumption, Zenon DEF PubInv, CoreType, S, SettingsType
  <2> QED
    BY <1>0, <1>5, <2>1, <2>2, OwnStep, Zenon DEF Allowlist
<1>6. CASE GeoBegin(r)
  <2>1. live["geoIP"] \in Nat /\ live["geoIP"] \in 0..gen /\ {"geoMode", "geoLookup"} \subseteq Label
    BY <1>0, Zenon DEF Field, Label
  <2> QED
    BY <1>0, <1>6, <2>1, OwnStep, Zenon DEF GeoBegin
<1>7. CASE GeoEnd(r)
  <2>1. "limiter" \in Label
    BY Zenon DEF Label
  <2> QED
    BY <1>0, <1>7, <2>1, OwnStep, Zenon DEF GeoEnd
<1>8. CASE FailMode(r)
  <2>1. live["dependencyMode"] \in Nat /\ {"limiter", "inspect"} \subseteq Label
    BY <1>0, Zenon DEF Field, Label
  <2> QED
    BY <1>0, <1>8, <2>1, OwnStep, Zenon DEF FailMode
<1>9. CASE GlobalLimiter(r)
  <2>1. live["globalLimiter"] \in Nat /\ "rate" \in Label
    BY <1>0, Zenon DEF Field, Label
  <2> QED
    BY <1>0, <1>9, <2>1, OwnStep, Zenon DEF GlobalLimiter
<1>10. CASE RateLimit(r)
  <2>1. "auth" \in Label
    BY Zenon DEF Label
  <2> QED
    BY <1>0, <1>10, <2>1, OwnStep, Zenon DEF RateLimit
<1>11. CASE Authenticate(r)
  <2>1. {"crowd", "inspect"} \subseteq Label
    BY Zenon DEF Label
  <2> QED
    BY <1>0, <1>11, <2>1, OwnStep, Zenon DEF Authenticate
<1>12. CASE CrowdSec(r)
  <2>1. live["bouncer"] \in Nat /\ {"crowdMode", "inspect"} \subseteq Label
    BY <1>0, Zenon DEF Field, Label
  <2> QED
    BY <1>0, <1>12, <2>1, OwnStep, Zenon DEF CrowdSec
<1>13. CASE Inspect(r)
  <2>1. live["requestBodyLimit"] \in Nat /\ "state" \in Label
    BY <1>0, Zenon DEF Field, Label
  <2> QED
    BY <1>0, <1>13, <2>1, OwnStep, Zenon DEF Inspect
<1>14. CASE Proxy(r)
  BY <1>0, <1>14, OwnStep, Zenon DEF Proxy
<1> QED
  BY <1>1, <1>2, <1>3, <1>4, <1>5, <1>6, <1>7, <1>8, <1>9, <1>10, <1>11, <1>12, <1>13, <1>14,
     Zenon
     DEF RequestStep

\* What requests see of the other steps.
System ==
  /\ UNCHANGED <<request, env>>
  /\ gen' >= gen
  /\ live["mapping"]' \in {live["mapping"], gen}
  /\ live["geoIP"]' = live["geoIP"] \/ GeoMuFree
  /\ \A g \in 1..gen : cfg'[g] = cfg[g]
  /\ \/ Disturb
     \/ /\ UNCHANGED <<disturbed, published, closed>>
        /\ rl' = "publish" => pub' = 1 \/ (rl = "publish" /\ pub' = pub)

LEMMA SystemStep ==
  ASSUME PubInv, [Next]_vars, ~\E r \in Request : Begin(r) \/ RequestStep(r)
  PROVE  System
<1>0. gen \in Nat /\ gen \in Gen /\ gen >= gen /\ "mapping" \in Field /\ "geoIP" \in Field
  BY ReadsKnown DEF Field
<1>1. CASE UNCHANGED vars \/ Exited \/ Stop \/ SetDomainManager \/ ManageSync
  <2>1. UNCHANGED <<request, env, gen, cfg, disturbed, live, tenantStates, closed, rl, pub>>
    BY <1>1, Zenon
       DEF vars, Exited, Stop, SetDomainManager, ManageSync, published, reload, shutdown
  <2> QED
    BY <1>0, <2>1, Zenon DEF System, published
<1>2. ASSUME NEW c \in Config \cup {Invalid}, ReloadStart(c) PROVE System
  <2>1. UNCHANGED <<request, env, disturbed, live, tenantStates, closed, pub>> /\ gen' = gen + 1
        /\ rl' # "publish" /\ gen < MaxGen /\ (cfg' = cfg \/ cfg' = [cfg EXCEPT ![gen'] = c])
    BY <1>2, Zenon DEF ReloadStart, published, shutdown
  <2>2. \A g \in 1..gen : cfg'[g] = cfg[g]
    <3> TAKE g \in 1..gen
    <3>1. g \in Gen /\ g # gen'
      BY <1>0, <2>1, RuntimeAssumption DEF Gen
    <3>2. cfg \in [Gen -> Config]
      BY Zenon DEF PubInv, CoreType
    <3> QED
      BY <2>1, <3>1, <3>2, Zenon
  <2> QED
    BY <1>0, <2>1, <2>2 DEF System, published
<1>3. CASE BuildTenants \/ InitBouncer \/ OpenGeoIP \/ StartCoordinator \/ ProbeAndLock \/ ManageAdded
  <2>1. UNCHANGED <<request, env, gen, cfg, disturbed, live, tenantStates, closed>>
        /\ (rl' = "publish" => pub' = 1)
    BY <1>3, Zenon
       DEF BuildTenants, InitBouncer, OpenGeoIP, StartCoordinator, ProbeAndLock, ManageAdded,
           ReloadFail, published, shutdown
  <2> QED
    BY <1>0, <2>1, Zenon DEF System, published
<1>4. CASE PublishField
  <2>1. UNCHANGED <<request, env, gen, cfg>> /\ Disturb /\ pub \in 1..18
        /\ PublishOrder[pub] # "geoIP"
        /\ live' = [live EXCEPT ![PublishOrder[pub]] = IF PublishOrder[pub] = "coordinator" THEN next.coord ELSE gen]
    BY <1>4, OrderIs DEF PublishField, PubInv, CoreType
  <2>2. live["mapping"]' \in {live["mapping"], gen} /\ live["geoIP"]' = live["geoIP"]
    BY <1>0, <2>1, Zenon DEF PubInv, CoreType
  <2> QED
    BY <1>0, <2>1, <2>2, Zenon DEF System
<1>5. CASE PublishGeoIP
  <2>1. UNCHANGED <<request, env, gen, cfg>> /\ Disturb /\ GeoMuFree
        /\ live' = [live EXCEPT !["geoIP"] = next.geo]
    BY <1>5, Zenon DEF PublishGeoIP, GeoSwapAllowed
  <2>2. live["mapping"]' = live["mapping"]
    BY <1>0, <2>1, Zenon DEF PubInv, CoreType
  <2> QED
    BY <1>0, <2>1, <2>2, Zenon DEF System
<1>6. ASSUME NEW h \in Host, DeleteState(h) \/ StoreState(h) PROVE System
  <2>1. UNCHANGED <<request, env, gen, cfg, live>> /\ Disturb
    BY <1>6, Zenon DEF DeleteState, StoreState, reload
  <2> QED
    BY <1>0, <2>1, Zenon DEF System
<1>7. CASE StatesDeleted \/ StatesStored \/ PublishEnd
  <2>1. UNCHANGED <<request, env, gen, cfg, live>> /\ Disturb
    BY <1>7, Zenon DEF StatesDeleted, StatesStored, PublishEnd, published
  <2> QED
    BY <1>0, <2>1, Zenon DEF System
<1>8. CASE CloseCoordinator \/ CloseGeoIP
  <2>1. /\ UNCHANGED <<request, env, gen, cfg>> /\ Disturb
        /\ \/ live' = [live EXCEPT !["healthChecks"] = 0, !["coordinator"] = 0]
           \/ GeoMuFree /\ live' = [live EXCEPT !["geoIP"] = 0]
    BY <1>8, Zenon DEF CloseCoordinator, CloseGeoIP, reload
  <2>2. live["mapping"]' = live["mapping"] /\ (live["geoIP"]' = live["geoIP"] \/ GeoMuFree)
    BY <1>0, <2>1, Zenon DEF PubInv, CoreType
  <2> QED
    BY <1>0, <2>1, <2>2, Zenon DEF System
<1> QED
  BY <1>1, <1>2, <1>3, <1>4, <1>5, <1>6, <1>7, <1>8, Zenon DEF Next, Elsewhere, ReloadStep

\* A step of ServeHTTP reads at most one field, none older than the mapping, and
\* holds geoMu exactly during the lookup.
Steady(r) ==
  /\ base'[r] = base[r] /\ disturbed'[r] = disturbed[r] /\ pc[r] # "idle" /\ pc'[r] # "idle"
  /\ seen'[r] = seen[r] \/ \E g \in Nat : g >= live["mapping"] /\ seen'[r] = seen[r] \cup {g}
  /\ reader'[r] # 0 <=> pc'[r] = "geoLookup"
  /\ reader'[r] \in {0, live["geoIP"]}

LEMMA SeeFresh ==
  ASSUME PubInv, RequestType, NEW r \in Request, NEW g \in Nat, g = 0 \/ g >= live["mapping"], See(r, g)
  PROVE  seen'[r] = seen[r] \/ \E x \in Nat : x >= live["mapping"] /\ seen'[r] = seen[r] \cup {x}
<1>1. seen'[r] = seen[r] \cup ({g} \ {0})
  BY SeeEffect, Zenon
<1>2. CASE g = 0
  BY <1>1, <1>2, Zenon
<1>3. CASE g # 0
  <2>1. seen'[r] = seen[r] \cup {g}
    BY <1>1, <1>3, Zenon
  <2> QED
    BY <1>3, <2>1, Zenon
<1> QED
  BY <1>2, <1>3, Zenon

LEMMA RequestSteady ==
  ASSUME PubInv, RequestType, ReaderInv, NEW r \in Request, RequestStep(r)
  PROVE  Steady(r)
<1> USE DEF Steady
<1>0. /\ \A f \in Configuration : live[f] \in Nat /\ live[f] >= live["mapping"]
      /\ live["geoIP"] \in Nat /\ (live["geoIP"] = 0 \/ live["geoIP"] >= live["mapping"])
      /\ host[r] \in Host /\ tenantStates[host[r]] \in Nat
      /\ tenantStates[host[r]] = 0 \/ tenantStates[host[r]] >= live["mapping"]
  BY ReadsKnown, Zenon DEF RequestType, Configuration, Field
<1>00. \A f \in {"trustForwardedFor", "mapping", "blockIPs", "allowIPs", "dependencyMode", "globalLimiter",
                 "bouncer", "requestBodyLimit"} : live[f] \in Nat /\ live[f] >= live["mapping"]
  BY <1>0, Zenon DEF Configuration, Field
<1>1. CASE ReadTrustForwardedFor(r) \/ Resolve(r)
  <2>1. UNCHANGED <<reader, base, disturbed>> /\ pc[r] \in {"trust", "resolve"}
        /\ (Goto(r, "resolve") \/ Goto(r, "blocklist"))
        /\ (See(r, live["trustForwardedFor"]) \/ See(r, live["mapping"]))
    BY <1>1, Zenon DEF ReadTrustForwardedFor, Resolve
  <2>2. pc'[r] \in {"resolve", "blocklist"}
    BY <2>1, GotoEffect, Zenon DEF Label
  <2> QED
    BY <1>00, <2>1, <2>2, SeeFresh, Zenon DEF ReaderInv
<1>2. CASE Blocklist(r)
  <2>1. UNCHANGED <<reader, base, disturbed>> /\ pc[r] = "blocklist"
        /\ (Answer(r, "blocked") \/ Goto(r, "allowlist")) /\ See(r, live["blockIPs"])
    BY <1>2, Zenon DEF Blocklist
  <2>2. pc'[r] \in {"done", "allowlist"}
    BY <2>1, GotoEffect, AnswerEffect, Zenon DEF Label
  <2> QED
    BY <1>00, <2>1, <2>2, SeeFresh, Zenon DEF ReaderInv
<1>3. CASE Allowlist(r)
  <2>1. UNCHANGED <<reader, base, disturbed>> /\ pc[r] = "allowlist"
        /\ (Goto(r, "geo") \/ Goto(r, "limiter")) /\ See(r, live["allowIPs"])
    BY <1>3, Zenon DEF Allowlist
  <2>2. pc'[r] \in {"geo", "limiter"}
    BY <2>1, GotoEffect, Zenon DEF Label
  <2> QED
    BY <1>00, <2>1, <2>2, SeeFresh, Zenon DEF ReaderInv
<1>4. CASE GeoBegin(r)
  <2>1. UNCHANGED <<base, disturbed>> /\ pc[r] = "geo" /\ reader' = [reader EXCEPT ![r] = live["geoIP"]]
        /\ Goto(r, IF live["geoIP"] = 0 THEN "geoMode" ELSE "geoLookup") /\ See(r, live["geoIP"])
    BY <1>4, Zenon DEF GeoBegin
  <2>2. pc'[r] = IF live["geoIP"] = 0 THEN "geoMode" ELSE "geoLookup"
    BY <2>1, GotoEffect, Zenon DEF Label
  <2>3. reader'[r] = live["geoIP"]
    BY <2>1, Zenon DEF RequestType
  <2> QED
    BY <1>0, <2>1, <2>2, <2>3, SeeFresh, Zenon
<1>5. CASE GeoEnd(r)
  <2>1. UNCHANGED <<base, disturbed, seen>> /\ pc[r] = "geoLookup" /\ reader' = [reader EXCEPT ![r] = 0]
        /\ (Answer(r, "country") \/ Goto(r, "limiter"))
    BY <1>5, Zenon DEF GeoEnd
  <2>2. pc'[r] \in {"done", "limiter"}
    BY <2>1, GotoEffect, AnswerEffect, Zenon DEF Label
  <2>3. reader'[r] = 0
    BY <2>1, Zenon DEF RequestType
  <2> QED
    BY <2>1, <2>2, <2>3, Zenon
<1>6. CASE FailMode(r)
  <2>1. UNCHANGED <<reader, base, disturbed>> /\ pc[r] \in {"geoMode", "crowdMode"}
        /\ (Answer(r, "dependency") \/ Goto(r, "limiter") \/ Goto(r, "inspect")) /\ See(r, live["dependencyMode"])
    BY <1>6, Zenon DEF FailMode
  <2>2. pc'[r] \in {"done", "limiter", "inspect"}
    BY <2>1, GotoEffect, AnswerEffect, Zenon DEF Label
  <2> QED
    BY <1>00, <2>1, <2>2, SeeFresh, Zenon DEF ReaderInv
<1>7. CASE GlobalLimiter(r)
  <2>1. UNCHANGED <<reader, base, disturbed>> /\ pc[r] = "limiter"
        /\ (Answer(r, "denied") \/ Goto(r, "rate") \/ Answer(r, "unknown_host"))
        /\ (UNCHANGED seen \/ See(r, live["globalLimiter"]))
    BY <1>7, Zenon DEF GlobalLimiter
  <2>2. pc'[r] \in {"done", "rate"}
    BY <2>1, GotoEffect, AnswerEffect, Zenon DEF Label
  <2> QED
    BY <1>00, <2>1, <2>2, SeeFresh, Zenon DEF ReaderInv
<1>8. CASE RateLimit(r) \/ Authenticate(r)
  <2>1. UNCHANGED <<reader, base, disturbed, seen>> /\ pc[r] \in {"rate", "auth"}
        /\ (Answer(r, "denied") \/ Goto(r, "auth") \/ Goto(r, "crowd") \/ Goto(r, "inspect"))
    BY <1>8, Zenon DEF RateLimit, Authenticate
  <2>2. pc'[r] \in {"done", "auth", "crowd", "inspect"}
    BY <2>1, GotoEffect, AnswerEffect, Zenon DEF Label
  <2> QED
    BY <2>1, <2>2, Zenon DEF ReaderInv
<1>9. CASE CrowdSec(r)
  <2>1. UNCHANGED <<reader, base, disturbed>> /\ pc[r] = "crowd"
        /\ (Answer(r, "banned") \/ Goto(r, "crowdMode") \/ Goto(r, "inspect")) /\ See(r, live["bouncer"])
    BY <1>9, Zenon DEF CrowdSec
  <2>2. pc'[r] \in {"done", "crowdMode", "inspect"}
    BY <2>1, GotoEffect, AnswerEffect, Zenon DEF Label
  <2> QED
    BY <1>00, <2>1, <2>2, SeeFresh, Zenon DEF ReaderInv
<1>10. CASE Inspect(r)
  <2>1. UNCHANGED <<reader, base, disturbed>> /\ pc[r] = "inspect"
        /\ (Answer(r, "denied") \/ Goto(r, "state")) /\ (UNCHANGED seen \/ See(r, live["requestBodyLimit"]))
    BY <1>10, Zenon DEF Inspect
  <2>2. pc'[r] \in {"done", "state"}
    BY <2>1, GotoEffect, AnswerEffect, Zenon DEF Label
  <2> QED
    BY <1>00, <2>1, <2>2, SeeFresh, Zenon DEF ReaderInv
<1>11. CASE Proxy(r)
  <2>1. UNCHANGED <<reader, base, disturbed>> /\ pc[r] = "state"
        /\ (Answer(r, "no_backend") \/ Answer(r, "proxied")) /\ See(r, tenantStates[host[r]])
    BY <1>11, Zenon DEF Proxy
  <2>2. pc'[r] = "done"
    BY <2>1, AnswerEffect, Zenon
  <2> QED
    BY <1>0, <2>1, <2>2, SeeFresh, Zenon DEF ReaderInv
<1> QED
  BY <1>1, <1>2, <1>3, <1>4, <1>5, <1>6, <1>7, <1>8, <1>9, <1>10, <1>11, Zenon DEF RequestStep

\* The request's own control and the reader it holds.
LEMMA StepRequest ==
  ASSUME PubInv, RequestType, ReaderInv, SeenInv, [Next]_vars
  PROVE  RequestType' /\ ReaderInv' /\ SeenInv'
<1>0. /\ gen \in Nat /\ gen \in Gen /\ live["mapping"] \in 1..gen /\ gen' \in Nat
      /\ live'["mapping"] \in Nat
  <2>1. PubInv'
    BY StepPub, Zenon
  <2> QED
    BY <2>1, ReadsKnown, RuntimeAssumption DEF PubInv, CoreType, Gen, Stages
<1>1. CASE System
  <2>1. UNCHANGED <<pc, host, entry, reader, allowlisted, verdict, seen, base, lapi, country>>
    BY <1>1, Zenon DEF System, request, env
  <2>2. disturbed' \in [Request -> BOOLEAN]
    BY <1>1, Zenon DEF System, Disturb, RequestType
  <2>3. 0..gen \subseteq 0..gen'
    BY <1>0, <1>1 DEF System
  <2>4. RequestType'
    BY <2>1, <2>2, <2>3, Zenon DEF RequestType
  <2>5. ReaderInv'
    BY <1>1, <2>1, Zenon DEF ReaderInv, System, GeoMuFree
  <2>6. SeenInv'
    <3>1. live["mapping"]' >= live["mapping"]
      BY <1>0, <1>1 DEF System
    <3>2. \A r \in Request : base[r] \in Nat
      BY <1>0 DEF RequestType
    <3> QED
      BY <1>0, <2>1, <3>1, <3>2 DEF SeenInv
  <2> QED
    BY <2>4, <2>5, <2>6, Zenon
<1>2. ASSUME NEW r \in Request, Begin(r) \/ RequestStep(r) PROVE RequestType' /\ ReaderInv' /\ SeenInv'
  <2>1. RequestType' /\ Own(r)
    BY <1>2, RequestMoves, Zenon
  <2>2. live' = live /\ \A q \in Request : base[q] \in Nat
    BY <1>0, <2>1 DEF Own, published, RequestType
  <2>3. CASE RequestStep(r)
    <3>1. Steady(r)
      BY <2>3, RequestSteady, Zenon
    <3>2. ReaderInv'
      BY <2>1, <2>2, <3>1, Zenon DEF ReaderInv, Own, Steady
    <3>3. \A g \in seen'[r] : g >= base'[r]
      BY <1>0, <2>2, <3>1 DEF SeenInv, Steady
    <3>4. SeenInv'
      BY <2>1, <2>2, <3>1, <3>3, Zenon DEF SeenInv, Own, Steady
    <3> QED
      BY <2>1, <3>2, <3>4, Zenon
  <2>4. CASE Begin(r)
    <3>1. /\ pc[r] = "idle" /\ Goto(r, "trust") /\ See(r, live["trustedProxyCIDRs"]) /\ UNCHANGED reader
          /\ base' = [base EXCEPT ![r] = live["mapping"]]
      BY <2>4, Zenon DEF Begin
    <3>2. live["trustedProxyCIDRs"] \in Nat /\ live["trustedProxyCIDRs"] >= live["mapping"]
      BY ReadsKnown, Zenon DEF Configuration, Field
    <3>3. pc'[r] = "trust" /\ base'[r] = live["mapping"] /\ seen[r] = {}
      BY <3>1, GotoEffect, Zenon DEF Label, RequestType, SeenInv
    <3>4. seen'[r] = {live["trustedProxyCIDRs"]} \ {0}
      BY <3>1, <3>2, <3>3, SeeEffect, Zenon
    <3>5. ReaderInv'
      BY <2>1, <2>2, <3>1, <3>3, Zenon DEF ReaderInv, Own
    <3>6. SeenInv'
      BY <1>0, <2>1, <2>2, <3>2, <3>3, <3>4 DEF SeenInv, Own
    <3> QED
      BY <2>1, <3>5, <3>6, Zenon
  <2> QED
    BY <1>2, <2>3, <2>4, Zenon
<1> QED
  BY <1>1, <1>2, SystemStep, Zenon

-----------------------------------------------------------------------------
(***************************************************************************)
(* Answers of undisturbed requests.                                        *)
(***************************************************************************)

\* What such a request can read is of one generation.
LEMMA CalmFields ==
  ASSUME PubInv, CalmInv, SeenInv, NEW r \in Request, ~disturbed[r], Running(r)
  PROVE  /\ closed = "open" /\ base[r] = live["mapping"] /\ base[r] \in Gen /\ base[r] # 0
         /\ \A f \in Configuration : live[f] = base[r]
         /\ live["geoIP"] = GeoOf(base[r])
         /\ \A h \in Host : tenantStates[h] = IF h \in S(base[r]).tenants THEN base[r] ELSE 0
         /\ Progress(r)
<1>1. closed = "open" /\ base[r] = live["mapping"] /\ Progress(r) /\ (rl = "publish" => pub = 1)
  BY Zenon DEF CalmInv
<1>2. base[r] \in Gen /\ base[r] # 0
  BY <1>1, ReadsKnown, RuntimeAssumption DEF Gen
<1>3. \A f : Target(f) = base[r]
  BY <1>1, PassedNone, Zenon DEF Target
<1>4. \A h \in Host : tenantStates[h] = StateOf(base[r], h)
  BY <1>1 DEF PubInv, StatesOK
<1> QED
  BY <1>1, <1>2, <1>3, <1>4, Zenon DEF PubInv, FieldsOK, StateOf

LEMMA SystemCalm ==
  ASSUME PubInv, RequestType, SeenInv, CalmInv, System
  PROVE  CalmInv'
<1>1. UNCHANGED <<pc, host, entry, reader, allowlisted, verdict, base, lapi, country>>
  BY Zenon DEF System, request, env
<1> SUFFICES ASSUME NEW r \in Request, ~disturbed'[r]
             PROVE  /\ Running(r)' =>
                         /\ closed' = "open"
                         /\ rl' = "publish" => pub' = 1
                         /\ base'[r] = live'["mapping"]
                         /\ Progress(r)'
                    /\ pc'[r] = "done" => verdict'[r] \in Expected(cfg[base[r]], host[r])'
  BY Zenon DEF CalmInv
<1>2. ~disturbed[r] /\ (Running(r) => UNCHANGED <<published, closed>>
                         /\ (rl' = "publish" => pub' = 1 \/ (rl = "publish" /\ pub' = pub)))
  BY Zenon DEF System, Disturb, Running, RequestType
<1>3. pc[r] # "idle" => cfg'[base[r]] = cfg[base[r]]
  <2>1. pc[r] # "idle" => base[r] \in 1..gen
    BY ReadsKnown DEF SeenInv, RequestType
  <2> QED
    BY <2>1, Zenon DEF System
<1>4. CASE Running(r)
  <2>1. closed' = "open" /\ base'[r] = live'["mapping"] /\ (rl' = "publish" => pub' = 1) /\ Progress(r)
    BY <1>1, <1>2, <1>4, Zenon DEF CalmInv, published
  <2>2. S(base[r])' = S(base[r])
    BY <1>1, <1>3, <1>4, Zenon DEF S, Running
  <2>3. Progress(r)'
    BY <1>1, <2>1, <2>2, Zenon DEF Progress
  <2> QED
    BY <1>1, <1>4, <2>1, <2>3, Zenon DEF Running
<1>5. CASE pc[r] = "done"
  <2>1. verdict[r] \in Expected(cfg[base[r]], host[r]) /\ cfg'[base[r]] = cfg[base[r]]
    BY <1>2, <1>3, <1>5, Zenon DEF CalmInv
  <2>2. Expected(cfg[base[r]], host[r])' = Expected(cfg[base[r]], host[r])
    BY <1>1, <2>1, Zenon DEF Expected
  <2> QED
    BY <1>1, <1>5, <2>1, <2>2, Zenon DEF Running
<1> QED
  BY <1>1, <1>4, <1>5, Zenon DEF Running

LEMMA OwnCalm ==
  ASSUME PubInv, RequestType, ReaderInv, SeenInv, CalmInv, NEW r \in Request, ~disturbed[r], RequestStep(r)
  PROVE  /\ pc'[r] # "done" => Progress(r)'
         /\ pc'[r] = "done" => verdict'[r] \in Expected(cfg[base[r]], host[r])'
<1> DEFINE s == S(base[r])
           h == host[r]
<1>1. RequestType' /\ Own(r) /\ Steady(r)
  BY RequestMoves, RequestSteady, Zenon
<1>2. /\ base'[r] = base[r] /\ host'[r] = h /\ lapi' = lapi /\ country' = country
      /\ cfg' = cfg /\ S(base[r])' = s
  BY <1>1, Zenon DEF Own, Steady, reload, S
<1>3. /\ base[r] \in Gen /\ base[r] # 0 /\ h \in Host
      /\ s.geo \subseteq s.tenants /\ s.crowd \subseteq s.tenants /\ s.allows \in BOOLEAN
      /\ lapi \in {"clean", "banned", "down"}
  <2>1. base[r] \in Gen /\ base[r] # 0
    <3>1. Running(r)
      BY Zenon
         DEF Running, RequestStep, ReadTrustForwardedFor, Resolve, Blocklist, Allowlist, GeoBegin,
             GeoEnd, FailMode, GlobalLimiter, RateLimit, Authenticate, CrowdSec, Inspect, Proxy
    <3> QED
      BY <3>1, CalmFields, Zenon
  <2> QED
    BY <2>1, SettingsKnown, RuntimeAssumption, Zenon
       DEF PubInv, CoreType, RequestType, S, SettingsType
<1>4. /\ \A f \in Configuration : live[f] = base[r]
      /\ live["geoIP"] = GeoOf(base[r])
      /\ tenantStates[h] = IF h \in s.tenants THEN base[r] ELSE 0
      /\ Progress(r)
  <2>1. Running(r)
    BY Zenon
       DEF Running, RequestStep, ReadTrustForwardedFor, Resolve, Blocklist, Allowlist, GeoBegin,
           GeoEnd, FailMode, GlobalLimiter, RateLimit, Authenticate, CrowdSec, Inspect, Proxy
  <2> QED
    BY <1>3, <2>1, CalmFields, Zenon
<1>5. \A f \in {"trustForwardedFor", "mapping", "blockIPs", "allowIPs", "dependencyMode", "globalLimiter",
                "bouncer", "requestBodyLimit"} : live[f] = base[r]
  BY <1>4, Zenon DEF Configuration, Field
<1>6. Expected(cfg[base[r]], host[r])' =
        IF s.blocks THEN {"blocked"}
        ELSE IF ~s.allows /\ h \in s.geo /\ country = "blocked" THEN {"country"}
        ELSE IF h \notin s.tenants THEN {"unknown_host"} \cup (IF s.allows THEN {} ELSE {"denied"})
        ELSE {"denied"} \cup
             (IF h \notin s.crowd \/ lapi = "clean" THEN {"proxied"}
              ELSE IF lapi = "banned" THEN {"banned"}
              ELSE IF s.closed THEN {"dependency"} ELSE {"proxied"})
  BY <1>2, Zenon DEF Expected, S
<1> DEFINE Answered(v) == pc'[r] = "done" /\ verdict'[r] = v
           Ahead(l) == pc'[r] = l
<1>7. \A l \in Label : Goto(r, l) => Ahead(l)
  BY GotoEffect, Zenon
<1>8. \A v : Answer(r, v) => Answered(v)
  BY AnswerEffect, Zenon
<1> HIDE DEF Answered, Ahead
<1>9. CASE ReadTrustForwardedFor(r)
  <2>1. Ahead("resolve")
    BY <1>7, <1>9, Zenon DEF ReadTrustForwardedFor, Label
  <2> QED
    BY <1>2, <2>1, Zenon DEF Progress, Past, Ahead
<1>10. CASE Resolve(r)
  <2>1. Ahead("blocklist") /\ entry'[r] = base[r]
    BY <1>5, <1>7, <1>10, Zenon DEF Resolve, Label, RequestType
  <2> QED
    BY <1>2, <2>1, Zenon DEF Progress, Past, Ahead
<1>11. CASE Blocklist(r)
  <2>1. pc[r] = "blocklist" /\ entry'[r] = entry[r] /\ IF s.blocks THEN Answered("blocked") ELSE Ahead("allowlist")
    BY <1>5, <1>7, <1>8, <1>11, Zenon DEF Blocklist, Label
  <2> QED
    BY <1>2, <1>4, <1>6, <2>1, Zenon DEF Progress, Past, Ahead, Answered
<1>12. CASE Allowlist(r)
  <2>1. pc[r] = "allowlist" /\ entry'[r] = entry[r] /\ allowlisted'[r] = s.allows /\ entry[r] = base[r] /\ ~s.blocks
    BY <1>4, <1>5, <1>12, Zenon DEF Allowlist, RequestType, Progress
  <2>2. IF ~s.allows /\ h \in s.geo THEN Ahead("geo") ELSE Ahead("limiter")
    BY <1>5, <1>7, <1>12, <2>1, Zenon DEF Allowlist, ChecksCountry, Label
  <2> QED
    BY <1>2, <2>1, <2>2, Zenon DEF Progress, Past, Ahead
<1>13. CASE GeoBegin(r)
  <2>1. pc[r] = "geo" /\ entry'[r] = entry[r] /\ allowlisted'[r] = allowlisted[r]
    BY <1>13, Zenon DEF GeoBegin
  <2>2. live["geoIP"] = base[r]
    BY <1>4, <2>1, Zenon DEF GeoOf, Progress
  <2>3. Ahead("geoLookup")
    BY <1>3, <1>7, <1>13, <2>2, Zenon DEF GeoBegin, Label
  <2> QED
    BY <1>2, <1>4, <2>1, <2>3, Zenon DEF Progress, Past, Ahead
<1>14. CASE GeoEnd(r)
  <2>1. pc[r] = "geoLookup" /\ entry'[r] = entry[r] /\ allowlisted'[r] = allowlisted[r]
        /\ IF country = "blocked" THEN Answered("country") ELSE Ahead("limiter")
    BY <1>7, <1>8, <1>14, Zenon DEF GeoEnd, Label
  <2> QED
    BY <1>2, <1>4, <1>6, <2>1, Zenon DEF Progress, Past, Ahead, Answered
<1>15. CASE FailMode(r)
  <2>1. pc[r] = "crowdMode" /\ entry'[r] = entry[r] /\ allowlisted'[r] = allowlisted[r]
    BY <1>4, <1>15, Zenon DEF FailMode, Progress
  <2>2. IF s.closed THEN Answered("dependency") ELSE Ahead("inspect")
    BY <1>5, <1>7, <1>8, <1>15, <2>1, Zenon DEF FailMode, Label
  <2> QED
    BY <1>2, <1>3, <1>4, <1>6, <2>1, <2>2, Zenon DEF Progress, Past, Ahead, Answered
<1>16. CASE GlobalLimiter(r)
  <2>1. pc[r] = "limiter" /\ entry'[r] = entry[r] /\ allowlisted'[r] = allowlisted[r] /\ entry[r] = base[r]
    BY <1>4, <1>16, Zenon DEF GlobalLimiter, Progress
  <2>2. \/ ~allowlisted[r] /\ Answered("denied")
        \/ h \in s.tenants /\ Ahead("rate")
        \/ h \notin s.tenants /\ Answered("unknown_host")
    BY <1>7, <1>8, <1>16, <2>1, Zenon DEF GlobalLimiter, Label
  <2>3. (allowlisted[r] <=> s.allows) /\ ~s.blocks /\ (s.allows \/ h \notin s.geo \/ country # "blocked")
    BY <1>4, <2>1, Zenon DEF Progress, Past
  <2> QED
    BY <1>2, <1>4, <1>6, <2>1, <2>2, <2>3, Zenon DEF Progress, Past, Ahead, Answered
<1>17. CASE RateLimit(r)
  <2>1. pc[r] = "rate" /\ entry'[r] = entry[r] /\ allowlisted'[r] = allowlisted[r]
        /\ (Answered("denied") \/ Ahead("auth"))
    BY <1>7, <1>8, <1>17, Zenon DEF RateLimit, Label
  <2> QED
    BY <1>2, <1>4, <1>6, <2>1, Zenon DEF Progress, Past, Ahead, Answered
<1>18. CASE Authenticate(r)
  <2>1. pc[r] = "auth" /\ entry'[r] = entry[r] /\ allowlisted'[r] = allowlisted[r] /\ entry[r] = base[r]
    BY <1>4, <1>18, Zenon DEF Authenticate, Progress
  <2>2. Answered("denied") \/ IF h \in s.crowd THEN Ahead("crowd") ELSE Ahead("inspect")
    BY <1>7, <1>8, <1>18, <2>1, Zenon DEF Authenticate, Label
  <2> QED
    BY <1>2, <1>4, <1>6, <2>1, <2>2, Zenon DEF Progress, Past, Ahead, Answered
<1>19. CASE CrowdSec(r)
  <2>1. pc[r] = "crowd" /\ entry'[r] = entry[r] /\ allowlisted'[r] = allowlisted[r] /\ h \in s.crowd
    BY <1>4, <1>19, Zenon DEF CrowdSec, Progress
  <2>2. NoDecision(live["bouncer"]) <=> lapi = "down"
    BY <1>3, <1>5, <2>1, Zenon DEF NoDecision, NilBouncer
  <2>3. \/ lapi = "down" /\ Ahead("crowdMode")
        \/ lapi = "banned" /\ Answered("banned")
        \/ lapi = "clean" /\ Ahead("inspect")
    BY <1>3, <1>7, <1>8, <1>19, <2>2, Zenon DEF CrowdSec, Label
  <2> QED
    BY <1>2, <1>4, <1>6, <2>1, <2>3, Zenon DEF Progress, Past, Ahead, Answered
<1>20. CASE Inspect(r)
  <2>1. pc[r] = "inspect" /\ entry'[r] = entry[r] /\ allowlisted'[r] = allowlisted[r]
        /\ (Answered("denied") \/ Ahead("state"))
    BY <1>7, <1>8, <1>20, Zenon DEF Inspect, Label
  <2> QED
    BY <1>2, <1>4, <1>6, <2>1, Zenon DEF Progress, Past, Ahead, Answered
<1>21. CASE Proxy(r)
  <2>1. pc[r] = "state" /\ h \in s.tenants
    BY <1>4, <1>21, Zenon DEF Proxy, Progress, Past
  <2>2. Answered("proxied")
    BY <1>3, <1>4, <1>8, <1>21, <2>1, Zenon DEF Proxy
  <2> QED
    BY <1>2, <1>4, <1>6, <2>1, <2>2, Zenon DEF Progress, Past, Answered
<1> QED
  BY <1>9, <1>10, <1>11, <1>12, <1>13, <1>14, <1>15, <1>16, <1>17, <1>18, <1>19, <1>20, <1>21,
     Zenon
     DEF RequestStep

LEMMA StepCalm ==
  ASSUME PubInv, RequestType, ReaderInv, SeenInv, CalmInv, [Next]_vars
  PROVE  CalmInv'
<1>1. CASE System
  BY <1>1, SystemCalm, Zenon
<1>2. ASSUME NEW r \in Request, Begin(r) \/ RequestStep(r) PROVE CalmInv'
  <2>1. RequestType' /\ Own(r)
    BY <1>2, RequestMoves, Zenon
  <2>2. /\ UNCHANGED <<live, closed, rl, pub, cfg, lapi, country, host>>
        /\ \A q \in Request \ {r} :
             /\ pc'[q] = pc[q] /\ entry'[q] = entry[q] /\ allowlisted'[q] = allowlisted[q]
             /\ verdict'[q] = verdict[q] /\ base'[q] = base[q] /\ disturbed'[q] = disturbed[q]
    BY <2>1, Zenon DEF Own, published, shutdown, reload
  <2>3. \A q \in Request \ {r} :
          /\ Running(q)' <=> Running(q)
          /\ Progress(q)' <=> Progress(q)
          /\ Expected(cfg[base[q]], host[q])' = Expected(cfg[base[q]], host[q])
    <3> TAKE q \in Request \ {r}
    <3>1. /\ pc'[q] = pc[q] /\ entry'[q] = entry[q] /\ allowlisted'[q] = allowlisted[q]
          /\ base'[q] = base[q] /\ cfg' = cfg /\ host' = host /\ lapi' = lapi /\ country' = country
      BY <2>2, Zenon
    <3>2. Running(q)' <=> Running(q)
      BY <3>1, Zenon DEF Running
    <3>3. S(base[q])' = S(base[q])
      BY <3>1, Zenon DEF S
    <3>4. Progress(q)' <=> Progress(q)
      BY <3>1, <3>3 DEF Progress
    <3>5. Expected(cfg[base[q]], host[q])' = Expected(cfg[base[q]], host[q])
      BY <3>1, Zenon DEF Expected
    <3> QED
      BY <3>2, <3>4, <3>5, Zenon
  <2>4. ASSUME NEW q \in Request \ {r}, ~disturbed'[q]
        PROVE  /\ Running(q)' =>
                    /\ closed' = "open"
                    /\ rl' = "publish" => pub' = 1
                    /\ base'[q] = live'["mapping"]
                    /\ Progress(q)'
               /\ pc'[q] = "done" => verdict'[q] \in Expected(cfg[base[q]], host[q])'
    BY <2>2, <2>3, <2>4, Zenon DEF CalmInv
  <2>5. ASSUME ~disturbed'[r]
        PROVE  /\ Running(r)' =>
                    /\ closed' = "open"
                    /\ rl' = "publish" => pub' = 1
                    /\ base'[r] = live'["mapping"]
                    /\ Progress(r)'
               /\ pc'[r] = "done" => verdict'[r] \in Expected(cfg[base[r]], host[r])'
    <3>1. CASE RequestStep(r)
      <4>1. Steady(r) /\ ~disturbed[r]
        BY <2>5, <3>1, RequestSteady, Zenon DEF Steady
      <4>2. Running(r)
        BY <3>1, Zenon
           DEF Running, RequestStep, ReadTrustForwardedFor, Resolve, Blocklist, Allowlist,
               GeoBegin, GeoEnd, FailMode, GlobalLimiter, RateLimit, Authenticate, CrowdSec,
               Inspect, Proxy
      <4>3. closed = "open" /\ (rl = "publish" => pub = 1) /\ base[r] = live["mapping"]
        BY <4>1, <4>2, Zenon DEF CalmInv
      <4>4. /\ pc'[r] # "done" => Progress(r)'
            /\ pc'[r] = "done" => verdict'[r] \in Expected(cfg[base[r]], host[r])'
        BY <3>1, <4>1, OwnCalm, Zenon
      <4> QED
        BY <2>2, <4>1, <4>3, <4>4, Zenon DEF Running, Steady
    <3>2. CASE Begin(r)
      <4>1. /\ disturbed'[r] = ~RuntimeMuFree /\ base'[r] = live["mapping"] /\ pc'[r] = "trust" /\ ~stopping
        BY <3>2, GotoEffect, Zenon DEF Begin, RequestType, Label
      <4>2. closed = "open" /\ rl # "publish"
        BY <2>5, <4>1, Zenon DEF RuntimeMuFree, Publishing, PubInv, Locked, CoreType
      <4> QED
        BY <2>2, <4>1, <4>2, Zenon DEF Progress, Past
    <3> QED
      BY <1>2, <3>1, <3>2, Zenon
  <2> QED
    BY <2>4, <2>5, Zenon DEF CalmInv
<1> QED
  BY <1>1, <1>2, SystemStep, Zenon

-----------------------------------------------------------------------------
(***************************************************************************)
(* The theorems.                                                           *)
(***************************************************************************)
RuntimeInv == PubInv /\ CertInv /\ RequestType /\ ReaderInv /\ SeenInv /\ CalmInv

\* SIGTERM is noted once.
Stoppable == stopping \in BOOLEAN

LEMMA InitRequest == Init => RequestType /\ ReaderInv /\ SeenInv /\ CalmInv /\ Stoppable
<1> SUFFICES ASSUME Init PROVE RequestType /\ ReaderInv /\ SeenInv /\ CalmInv /\ Stoppable
  BY Zenon
<1>0. PubInv /\ gen \in Nat /\ live["mapping"] \in Nat
  BY InitPub, ReadsKnown
<1>1. /\ pc = [r \in Request |-> "idle"] /\ host \in [Request -> Host] /\ entry = [r \in Request |-> 0]
      /\ reader = [r \in Request |-> 0] /\ allowlisted = [r \in Request |-> FALSE]
      /\ verdict = [r \in Request |-> "none"] /\ seen = [r \in Request |-> {}]
      /\ base = [r \in Request |-> 0] /\ disturbed = [r \in Request |-> FALSE] /\ stopping = FALSE
  BY Zenon DEF Init
<1>2. lapi \in {"clean", "banned", "down"} /\ country \in {"allowed", "blocked"}
  <2>1. PICK answers \in External : lapi = answers[1] /\ country = answers[2]
    BY Zenon DEF Init
  <2> QED
    BY <2>1, RuntimeAssumption, Zenon
<1>3. RequestType
  BY <1>0, <1>1, <1>2 DEF RequestType, Label
<1>4. ReaderInv /\ SeenInv /\ CalmInv
  BY <1>0, <1>1 DEF ReaderInv, SeenInv, CalmInv, Running
<1> QED
  BY <1>1, <1>3, <1>4, Zenon DEF Stoppable

LEMMA StepStoppable == Stoppable /\ [Next]_vars => Stoppable'
<1> SUFFICES ASSUME Stoppable, [Next]_vars PROVE Stoppable'
  BY Zenon
<1>1. stopping' = stopping \/ stopping' = TRUE
  BY Zenon
     DEF Next, Elsewhere, ReloadStep, RequestStep, vars, shutdown, Exited, ReloadStart,
         SetDomainManager, ManageSync, Stop, BuildTenants, InitBouncer, OpenGeoIP,
         StartCoordinator, ProbeAndLock, PublishField, PublishGeoIP, StatesDeleted, StatesStored,
         PublishEnd, ManageAdded, DeleteState, StoreState, CloseCoordinator, CloseGeoIP, Begin,
         ReadTrustForwardedFor, Resolve, Blocklist, Allowlist, GeoBegin, GeoEnd, FailMode,
         GlobalLimiter, RateLimit, Authenticate, CrowdSec, Inspect, Proxy, Outside
<1> QED
  BY <1>1, Zenon DEF Stoppable

LEMMA RuntimeSafe == Spec => [](RuntimeInv /\ Stoppable)
<1>1. Init => RuntimeInv /\ Stoppable
  BY InitPub, InitCert, InitRequest, Zenon DEF RuntimeInv
<1>2. RuntimeInv /\ Stoppable /\ [Next]_vars => (RuntimeInv /\ Stoppable)'
  BY StepPub, StepCert, StepRequest, StepCalm, StepStoppable, Zenon DEF RuntimeInv
<1> QED
  BY <1>1, <1>2, PTL DEF Spec

\* Whenever runtimeMu is free the runtime is that of one generation: Reload
\* publishes all of a configuration or, failing at any step, none of it.
THEOREM PublishedAsOne == Spec => []PublishedWhole
<1>1. ASSUME RuntimeInv, Stoppable PROVE PublishedWhole
  <2>1. TypeOK
    BY <1>1, OrderIs
       DEF RuntimeInv, Stoppable, TypeOK, PubInv, CoreType, CertInv, OpenOK, RequestType, Label
  <2>2. Untorn
    <3> SUFFICES ASSUME RuntimeMuFree PROVE Untorn
      BY Zenon DEF Untorn
    <3>1. rl # "publish"
      BY Zenon DEF RuntimeMuFree, Publishing
    <3>2. \A f : Target(f) = live["mapping"]
      BY <3>1, PassedNone, Zenon DEF Target
    <3> QED
      BY <1>1, <3>1, <3>2, Zenon
         DEF Untorn, RuntimeInv, PubInv, FieldsOK, StatesOK, StateOf, CoordMatches
  <2> QED
    BY <2>1, <2>2, Zenon DEF PublishedWhole
<1> QED
  BY <1>1, RuntimeSafe, PTL

\* Between reloads exactly the published resources are open, and no lookup uses
\* a closed country reader.
THEOREM NothingLeaks == Spec => []ResourcesMatchPublished
<1>1. ASSUME RuntimeInv PROVE ResourcesMatchPublished
  <2>1. rl = "idle" /\ closed = "open" =>
          /\ openGeo = {live["geoIP"]} \ {0}
          /\ openCoord = {live["coordinator"]} \ {0}
          /\ openTransport = {live["mapping"]}
    <3> SUFFICES ASSUME rl = "idle", closed = "open"
                 PROVE  /\ openGeo = {live["geoIP"]} \ {0}
                        /\ openCoord = {live["coordinator"]} \ {0}
                        /\ openTransport = {live["mapping"]}
      BY Zenon
    <3>1. ~Passed("storeStates") /\ next.geo = 0 /\ next.coord = 0 /\ next.oldGeo = 0 /\ next.oldCoord = 0
      BY <1>1, PassedNone DEF RuntimeInv, PubInv, HeldOK, NoResource
    <3> QED
      BY <1>1, <3>1, Zenon DEF RuntimeInv, PubInv, OpenOK
  <2>2. \A r \in Request : pc[r] = "geoLookup" => reader[r] \in openGeo
    BY <1>1, Zenon DEF RuntimeInv, ReaderInv, PubInv, OpenOK
  <2> QED
    BY <2>1, <2>2, Zenon DEF ResourcesMatchPublished
<1> QED
  BY <1>1, RuntimeSafe, PTL

\* A request reads nothing older than what was published when it began.
THEOREM ReadsAreFresh == Spec => []FreshReads
<1>1. RuntimeInv => FreshReads
  BY Zenon DEF RuntimeInv, SeenInv, FreshReads
<1> QED
  BY <1>1, RuntimeSafe, PTL

\* A request no publication and no Close overlaps is answered by the pipeline as
\* its configuration alone prescribes.
THEOREM UndisturbedAsConfigured == Spec => []UndisturbedAnswer
<1>1. RuntimeInv => UndisturbedAnswer
  BY Zenon DEF RuntimeInv, CalmInv, UndisturbedAnswer
<1> QED
  BY <1>1, RuntimeSafe, PTL

\* Certificates are managed for every published tenant once a reload is over.
THEOREM TenantsHaveCertificates == Spec => []CertificatesManaged
<1>1. ASSUME RuntimeInv PROVE CertificatesManaged
  <2> SUFFICES ASSUME rl = "idle", domainManager = "set"
               PROVE  S(live["mapping"]).tenants \subseteq managed \cup refused
    BY Zenon DEF CertificatesManaged
  <2> QED
    BY <1>1, PassedNone, Zenon DEF RuntimeInv, CertInv
<1> QED
  BY <1>1, RuntimeSafe, PTL

\* All of it with the watcher and the operator around it.
THEOREM WatchedRuntimeSafe ==
  WatchSpec => [](/\ PublishedWhole /\ ResourcesMatchPublished /\ FreshReads
                  /\ UndisturbedAnswer /\ CertificatesManaged)
  BY WatcherOnlyReloads, PublishedAsOne, NothingLeaks, ReadsAreFresh, UndisturbedAsConfigured,
     TenantsHaveCertificates, PTL
=============================================================================
