---------------------------- MODULE LogReceiver ----------------------------
(***************************************************************************)
(* The AI Logs Receiver (services/ai-logs-receiver/main.go): handleLogs    *)
(* with its limiter of failed authentications and the storage of one       *)
(* tenant, the retention sweep, and crashes of the process or of the       *)
(* machine.  Tenants share nothing but the map of their states.            *)
(*                                                                         *)
(* A payload is its length.  Log files are named by day; a file is its     *)
(* size, the part of it that has been synced, and its modification time.   *)
(***************************************************************************)
EXTENDS Integers, FiniteSets, FiniteSetsExt

CONSTANTS
  Conn,               \* connections, each with one request after another
  Length,             \* payload lengths to choose from
  MaxTenantBytes,
  RequestsPerMinute,
  Minute,             \* ticks of the rate window
  DayLength,          \* ticks of a day
  Retention,          \* ticks
  Address,            \* remote addresses
  Peers,              \* who may be connected: Conn -> address, whether the token is known
                      \* and whether content type and length are accepted
  MaxAuthFailures, AuthFailureWindow, MaxAuthFailureClients,
  MaxTime,            \* bound on the clock
  MaxCrashes          \* bound on crashes

ASSUME ReceiverAssumption ==
  /\ Length \subseteq Nat \ {0}
  /\ MaxTenantBytes \in Nat /\ RequestsPerMinute \in Nat \ {0}
  /\ Minute \in Nat \ {0} /\ DayLength \in Nat \ {0} /\ Retention \in Nat \ {0}
  /\ MaxAuthFailures \in Nat \ {0} /\ AuthFailureWindow \in Nat \ {0}
  /\ MaxAuthFailureClients \in Nat \ {0}
  /\ Peers \subseteq [Conn -> [ip : Address, token : BOOLEAN, media : BOOLEAN]]
  /\ IsFiniteSet(Conn)
  /\ MaxTime \in Nat /\ MaxCrashes \in Nat

VARIABLES
  clock, crashes,
  size, synced, mtime,              \* day -> its file, size 0 if there is none
  windowStart, requests,            \* tenantReceiverState; NoWindow is the zero time
  usedBytes, usedKnown,
  clients,                          \* authFailureLimiter: address -> window start, count
  peer,                             \* per connection: an element of Peers
  pc, now, len,                     \* per connection: control and locals of handleLogs
  acked,                            \* history: what was stored and answered with 200
  lastFailure                       \* history: the last failure from an address

disk == <<size, synced, mtime>>
window == <<windowStart, requests>>
usage == <<usedBytes, usedKnown>>
local == <<pc, now, len>>
auth == <<clients, peer, lastFailure>>
vars == <<clock, crashes, disk, window, usage, auth, local, acked>>

Day == 0..(MaxTime \div DayLength)
DayOf(t) == t \div DayLength
NoWindow == -1

\* No entry of the limiter has a count of 0.
NoEntry == [start |-> 0, count |-> 0]
Entries == {a \in Address : clients[a] # NoEntry}

\* The bytes in the tenant's directory, and directoryBytes, which adds up the
\* sizes of its files.
Stored == UNION {{d} \X (1..size[d]) : d \in Day}

DirectoryBytes == Cardinality(Stored)

\* (Mutant: the tenant is locked while its body is read.)
HoldingWhileReading == {"reading", "write", "sync"}

\* Where handleLogs holds state.mu.
Holding == {"write", "sync"}

MuFree == \A c \in Conn : pc[c] \notin Holding

Init ==
  /\ clock = 0 /\ crashes = 0
  /\ size = [d \in Day |-> 0]
  /\ synced = [d \in Day |-> 0]
  /\ mtime = [d \in Day |-> 0]
  /\ windowStart = NoWindow /\ requests = 0
  /\ usedBytes = 0 /\ usedKnown = FALSE
  /\ pc = [c \in Conn |-> "idle"]
  /\ now = [c \in Conn |-> 0]
  /\ len = [c \in Conn |-> 0]
  /\ acked = {}
  /\ clients = [a \in Address |-> NoEntry]
  /\ lastFailure = [a \in Address |-> NoWindow]
  /\ peer \in Peers

Tick ==
  /\ clock < MaxTime
  /\ clock' = clock + 1
  /\ UNCHANGED <<crashes, disk, window, usage, auth, local, acked>>

\* The request is answered.
Respond(c) ==
  /\ pc' = [pc EXCEPT ![c] = "idle"]
  /\ now' = [now EXCEPT ![c] = 0]
  /\ len' = [len EXCEPT ![c] = 0]

-----------------------------------------------------------------------------
\* handleLogs

\* The clock is read.
Arrive(c) ==
  /\ pc[c] = "idle"
  /\ pc' = [pc EXCEPT ![c] = "auth"]
  /\ now' = [now EXCEPT ![c] = clock]
  /\ UNCHANGED <<clock, crashes, disk, window, usage, auth, len, acked>>

Stale(entry, t) == t - entry.start >= AuthFailureWindow

\* (Mutant: a refused request starts the window again.)
EntryProlonged(entry, t) ==
  IF Stale(entry, t) THEN NoEntry
  ELSE IF entry.count >= MaxAuthFailures THEN [entry EXCEPT !.start = t] ELSE entry

\* What blocked leaves of an entry it looks at.
EntryAfterLook(entry, t) == IF Stale(entry, t) THEN NoEntry ELSE entry

\* authFailures.blocked, under its mutex, and then the token.
Authenticate(c) ==
  LET a == peer[c].ip
      entry == EntryAfterLook(clients[a], now[c])
  IN
  /\ pc[c] = "auth"
  /\ clients' = [clients EXCEPT ![a] = entry]
  /\ IF entry.count >= MaxAuthFailures
     THEN Respond(c)
     ELSE /\ pc' = [pc EXCEPT ![c] = IF peer[c].token THEN "admission" ELSE "failed"]
          /\ UNCHANGED <<now, len>>
  /\ UNCHANGED <<clock, crashes, disk, window, usage, peer, lastFailure, acked>>

\* (Mutant: an entry is only replaced when it has expired.)
EvictedExpired(t) == {{a \in Entries : Stale(clients[a], t)}}

\* evict: the expired entries, or an arbitrary one when none has expired; what
\* it removes, one set per outcome.
Evicted(t) ==
  LET expired == {a \in Entries : Stale(clients[a], t)}
  IN IF expired # {} THEN {expired} ELSE {{a} : a \in Entries}

\* recordFailure, under the mutex, and the answer 401 or 403.
RecordFailure(c) ==
  LET a == peer[c].ip
      entry == clients[a]
  IN
  /\ pc[c] = "failed"
  /\ IF entry # NoEntry /\ ~Stale(entry, now[c])
     THEN clients' = [clients EXCEPT ![a].count = @ + 1]
     ELSE \E gone \in IF entry = NoEntry /\ Cardinality(Entries) >= MaxAuthFailureClients
                      THEN Evicted(now[c]) ELSE {{}} :
            clients' = [x \in Address |->
              IF x = a THEN [start |-> now[c], count |-> 1]
              ELSE IF x \in gone THEN NoEntry ELSE clients[x]]
  /\ lastFailure' = [lastFailure EXCEPT ![a] = Max({@, now[c]})]
  /\ Respond(c)
  /\ UNCHANGED <<clock, crashes, disk, window, usage, peer, acked>>

\* The content type or the declared length is refused.
RejectHeaders(c) ==
  /\ pc[c] = "admission"
  /\ ~peer[c].media
  /\ Respond(c)
  /\ UNCHANGED <<clock, crashes, disk, window, usage, auth, acked>>

StartsWindow(t) == windowStart = NoWindow \/ t - windowStart >= Minute

AtLimit(n) == n >= RequestsPerMinute

\* allowRequest, under state.mu.
AllowRequest(c) ==
  LET counted == IF StartsWindow(now[c]) THEN 0 ELSE requests IN
  /\ pc[c] = "admission"
  /\ peer[c].media
  /\ MuFree
  /\ windowStart' = IF StartsWindow(now[c]) THEN now[c] ELSE windowStart
  /\ IF AtLimit(counted)
     THEN requests' = counted /\ Respond(c)
     ELSE requests' = counted + 1 /\ pc' = [pc EXCEPT ![c] = "reading"] /\ UNCHANGED <<now, len>>
  /\ UNCHANGED <<clock, crashes, auth, disk, usage, acked>>

\* The body arrives and logLines accepts it as n bytes ...
ReadBody(c, n) ==
  /\ pc[c] = "reading"
  /\ pc' = [pc EXCEPT ![c] = "lock"]
  /\ len' = [len EXCEPT ![c] = n]
  /\ UNCHANGED <<clock, crashes, auth, disk, window, usage, now, acked>>

\* ... or it is too large, broken off or invalid.
RejectBody(c) ==
  /\ pc[c] = "reading"
  /\ Respond(c)
  /\ UNCHANGED <<clock, crashes, auth, disk, window, usage, acked>>

Fits(used, n) == used + n <= MaxTenantBytes

\* state.mu.Lock, the directory, its usage if it is not known, the quota, and
\* the file.  Directory, scan and open may fail.
LockTenant(c) ==
  /\ pc[c] = "lock"
  /\ MuFree
  /\ \/ Respond(c) /\ UNCHANGED usage
     \/ /\ usedKnown' = TRUE
        /\ usedBytes' = IF usedKnown THEN usedBytes ELSE DirectoryBytes
        /\ \/ Fits(usedBytes', len[c]) /\ pc' = [pc EXCEPT ![c] = "write"] /\ UNCHANGED <<now, len>>
           \/ Respond(c)
  /\ UNCHANGED <<clock, crashes, auth, disk, window, acked>>

\* (Mutant: only complete writes are counted.)
UsedIfComplete(written, n) == IF written = n THEN usedBytes + written ELSE usedBytes

UsedAfter(written, n) == usedBytes + written

\* f.Write in append mode: a short write is an error.
Write(c, written) ==
  LET d == DayOf(now[c]) IN
  /\ pc[c] = "write"
  /\ written <= len[c]
  /\ size' = [size EXCEPT ![d] = @ + written]
  /\ mtime' = [mtime EXCEPT ![d] = IF written > 0 THEN clock ELSE @]
  /\ usedBytes' = UsedAfter(written, len[c])
  /\ IF written = len[c]
     THEN pc' = [pc EXCEPT ![c] = "sync"] /\ UNCHANGED <<now, len>>
     ELSE Respond(c)
  /\ UNCHANGED <<clock, crashes, auth, synced, window, usedKnown, acked>>

\* (Mutant: the answer does not wait for the disk.)
NotSynced(d) == synced

SyncFile(d) == [synced EXCEPT ![d] = size[d]]

\* f.Sync and the answer 200.
Sync(c) ==
  LET d == DayOf(now[c]) IN
  /\ pc[c] = "sync"
  /\ synced' = SyncFile(d)
  /\ acked' = acked \cup {[day |-> d, end |-> size[d], at |-> mtime[d]]}
  /\ Respond(c)
  /\ UNCHANGED <<clock, crashes, auth, size, mtime, window, usage>>

SyncFails(c) ==
  /\ pc[c] = "sync"
  /\ Respond(c)
  /\ UNCHANGED <<clock, crashes, auth, disk, window, usage, acked>>

-----------------------------------------------------------------------------
\* runRetention and crashes

\* (Mutant: a file is as old as its name.)
ExpiredByName(d) == size[d] > 0 /\ d * DayLength < clock - Retention

\* ModTime before the cutoff.
Expired(d) == size[d] > 0 /\ mtime[d] < clock - Retention

UsageAfterSweep(scanned) == IF scanned THEN DirectoryBytes' ELSE 0

\* cleanupExpiredLogs for this tenant, under state.mu: files are removed in
\* order of their names until one cannot be; then the directory is scanned.
Sweep(last, scanned) ==
  LET gone(d) == Expired(d) /\ d <= last IN
  /\ MuFree
  /\ size' = [d \in Day |-> IF gone(d) THEN 0 ELSE size[d]]
  /\ synced' = [d \in Day |-> IF gone(d) THEN 0 ELSE synced[d]]
  /\ mtime' = [d \in Day |-> IF gone(d) THEN 0 ELSE mtime[d]]
  /\ acked' = {a \in acked : ~gone(a.day)}
  /\ usedBytes' = UsageAfterSweep(scanned)
  /\ usedKnown' = scanned
  /\ UNCHANGED <<clock, crashes, auth, window, local>>

\* The process dies, perhaps with the machine: then any part of what was not
\* synced may be lost.
Crash ==
  /\ crashes < MaxCrashes
  /\ crashes' = crashes + 1
  /\ size' \in {kept \in [Day -> 0..MaxTenantBytes] :
                \A d \in Day : synced[d] <= kept[d] /\ kept[d] <= size[d]}
  /\ windowStart' = NoWindow /\ requests' = 0
  /\ usedBytes' = 0 /\ usedKnown' = FALSE
  /\ clients' = [a \in Address |-> NoEntry]
  /\ lastFailure' = [a \in Address |-> NoWindow]
  /\ pc' = [c \in Conn |-> "idle"]
  /\ now' = [c \in Conn |-> 0]
  /\ len' = [c \in Conn |-> 0]
  /\ UNCHANGED <<clock, synced, mtime, acked, peer>>

-----------------------------------------------------------------------------
StorageStep(c) ==
  LockTenant(c) \/ (\E n \in 0..MaxTenantBytes : Write(c, n)) \/ Sync(c) \/ SyncFails(c)

Next ==
  \/ Tick
  \/ \E c \in Conn :
       \/ Arrive(c) \/ Authenticate(c) \/ RecordFailure(c) \/ RejectHeaders(c)
       \/ AllowRequest(c) \/ RejectBody(c) \/ StorageStep(c)
       \/ \E n \in Length : ReadBody(c, n)
  \/ \E last \in {-1} \cup {d \in Day : Expired(d)}, scanned \in BOOLEAN : Sweep(last, scanned)
  \/ Crash

Spec == Init /\ [][Next]_vars

\* Handlers that have their body go on; uploads may take for ever.
FairSpec == Spec /\ \A c \in Conn : WF_vars(AllowRequest(c)) /\ WF_vars(StorageStep(c))

-----------------------------------------------------------------------------
\* The variables stay in their ranges.
TypeOK ==
  /\ clock \in 0..MaxTime /\ crashes \in 0..MaxCrashes
  /\ size \in [Day -> Nat] /\ synced \in [Day -> Nat] /\ mtime \in [Day -> 0..MaxTime]
  /\ \A d \in Day : synced[d] <= size[d]
  /\ windowStart \in {NoWindow} \cup 0..MaxTime
  /\ requests \in 0..RequestsPerMinute
  /\ usedBytes \in Nat /\ usedKnown \in BOOLEAN
  /\ pc \in [Conn -> {"idle", "auth", "failed", "admission", "reading", "lock", "write", "sync"}]
  /\ now \in [Conn -> 0..MaxTime]
  /\ len \in [Conn -> Nat]
  /\ clients \in [Address -> [start : 0..MaxTime, count : Nat]]

\* The cached usage is the size of the directory whenever it is trusted: short
\* writes, failed syncs, sweeps that fail halfway and restarts included.
UsageExact == usedKnown => usedBytes = DirectoryBytes

\* The tenant's files never exceed its quota.
QuotaRespected == DirectoryBytes <= MaxTenantBytes

\* handleLogs decides by the cached usage, and rightly so: it is exact, and the
\* quota holds on disk.
QuotaSound == TypeOK /\ UsageExact /\ QuotaRespected

\* What was answered with 200 is on disk until it expires, whatever crashes.
AckedDurable == \A a \in acked : a.end <= size[a.day]

\* A sweep removes only what is older than the retention, also when a slow
\* upload has been appended to the file of an earlier day.
RetentionHonoured == [][\A a \in acked : a \notin acked' => a.at < clock - Retention]_vars

\* The limiter holds in spite of its two critical sections: the table keeps its
\* bound, and requests that were let through before an address reached its
\* limit are all that can fail beyond it.
GuessesBounded ==
  /\ Cardinality(Entries) <= MaxAuthFailureClients
  /\ \A a \in Address : clients[a].count < MaxAuthFailures + Cardinality({c \in Conn : peer[c].ip = a})

\* (Of a step.) A request is refused for failed authentications only if one from its address
\* was recorded less than a window before it: requests that are refused do not
\* prolong the lockout, and no stale entry outlives its window.
LockoutEnds ==
  \A c \in Conn : pc[c] = "auth" /\ pc'[c] = "idle" /\ crashes' = crashes =>
    /\ lastFailure[peer[c].ip] # NoWindow
    /\ now[c] - lastFailure[peer[c].ip] < AuthFailureWindow

\* The limiter neither lets more guesses through nor locks out for longer.
LockoutSound == [][GuessesBounded' /\ LockoutEnds]_vars

\* A request whose body has arrived is answered although another upload hangs.
SlowUploadHarmless == \A c \in Conn : pc[c] = "lock" ~> pc[c] = "idle"
=============================================================================
