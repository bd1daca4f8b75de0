------------------------- MODULE LogReceiverProofs -------------------------
(***************************************************************************)
(* Proofs about LogReceiver for every finite set of connections, every set *)
(* of addresses, any payload lengths, quota, rates, windows, retention and *)
(* number of crashes.                                                      *)
(***************************************************************************)
EXTENDS LogReceiver, FiniteSetTheorems, TLAPS

LEMMA DivMonotonic ==
  ASSUME NEW a \in Nat, NEW b \in Nat, NEW k \in Nat \ {0}, a <= b
  PROVE  a \div k <= b \div k
  BY Z3

LEMMA DivNat ==
  ASSUME NEW a \in Nat, NEW k \in Nat \ {0}
  PROVE  a \div k \in Nat
  BY Z3

\* A request read the clock on a day that has a file name.
LEMMA DayOfIsDay ==
  ASSUME NEW t \in 0..MaxTime
  PROVE  DayOf(t) \in Day
<1> USE ReceiverAssumption
<1>1. t \in Nat /\ t <= MaxTime
  OBVIOUS
<1>2. t \div DayLength \in Nat /\ MaxTime \div DayLength \in Nat
  BY <1>1, DivNat, Zenon
<1>3. t \div DayLength <= MaxTime \div DayLength
  BY <1>1, DivMonotonic, Zenon
<1> QED
  BY <1>2, <1>3 DEF DayOf, Day

LEMMA MaxOfTwo ==
  ASSUME NEW x \in Int, NEW y \in Int
  PROVE  Max({x, y}) \in {x, y} /\ Max({x, y}) >= x /\ Max({x, y}) >= y
<1>1. \E m \in {x, y} : \A n \in {x, y} : m >= n
  OBVIOUS
<1>2. Max({x, y}) \in {x, y} /\ \A n \in {x, y} : Max({x, y}) >= n
  BY <1>1, Zenon DEF Max
<1> QED
  BY <1>2, Zenon

LEMMA OneMore ==
  ASSUME NEW S, IsFiniteSet(S), NEW x
  PROVE  /\ IsFiniteSet(S \cup {x}) /\ Cardinality(S \cup {x}) \in Nat
         /\ Cardinality(S \cup {x}) <= Cardinality(S) + 1
<1>1. Cardinality(S \cup {x}) = IF x \in S THEN Cardinality(S) ELSE Cardinality(S) + 1
  BY FS_AddElement, Zenon
<1>2. Cardinality(S) \in Nat
  BY FS_CardinalityType, Zenon
<1>3. IsFiniteSet(S \cup {x})
  BY FS_AddElement, Zenon
<1> QED
  BY <1>1, <1>2, <1>3

-----------------------------------------------------------------------------
\* directoryBytes

LEMMA StoredElements ==
  \A x : x \in Stored <=> \E d \in Day : \E i \in 1..size[d] : x = <<d, i>>
  BY DEF Stored

\* What a write appends is added to the sum of the sizes.
LEMMA StoredGrows ==
  ASSUME size \in [Day -> Nat], IsFiniteSet(Stored), NEW d \in Day, NEW n \in Nat,
         size' = [size EXCEPT ![d] = @ + n]
  PROVE  IsFiniteSet(Stored') /\ DirectoryBytes' = DirectoryBytes + n
<1> DEFINE new == (size[d] + 1)..(size[d] + n)
           added == {d} \X new
<1>1. IsFiniteSet(new) /\ Cardinality(new) = n
  <2>1. size[d] + 1 \in Int /\ size[d] + n \in Int
    OBVIOUS
  <2>2. /\ IsFiniteSet(new)
        /\ Cardinality(new) = IF size[d] + 1 > size[d] + n THEN 0
                              ELSE (size[d] + n) - (size[d] + 1) + 1
    BY <2>1, FS_Interval, Zenon
  <2>3. size[d] \in Nat
    OBVIOUS
  <2> HIDE DEF new
  <2> QED
    BY <2>2, <2>3
<1>2. IsFiniteSet({d}) /\ Cardinality({d}) = 1
  BY FS_Singleton
<1>3. IsFiniteSet(added) /\ Cardinality(added) = n
  <2>1. IsFiniteSet(added) /\ Cardinality(added) = Cardinality({d}) * Cardinality(new)
    <3> HIDE DEF new
    <3> QED BY <1>1, <1>2, FS_Product
  <2> QED
    BY <2>1, <1>1, <1>2
<1>4. Stored' = Stored \cup added
  <2>1. \A x : x \in Stored' <=> \E e \in Day : \E i \in 1..size'[e] : x = <<e, i>>
    BY DEF Stored
  <2>2. ASSUME NEW x, x \in Stored' PROVE x \in Stored \cup added
    <3>1. PICK e \in Day, i \in Nat : i \in 1..size'[e] /\ x = <<e, i>>
      BY <2>1, <2>2
    <3>2. CASE e = d /\ i > size[d]
      BY <3>1, <3>2
    <3>3. CASE ~(e = d /\ i > size[d])
      <4>1. i \in 1..size[e]
        BY <3>1, <3>3
      <4> QED
        BY <4>1, <3>1, StoredElements
    <3> QED
      BY <3>2, <3>3
  <2>3. ASSUME NEW x, x \in Stored PROVE x \in Stored'
    <3>1. PICK e \in Day, i \in Nat : i \in 1..size[e] /\ x = <<e, i>>
      BY <2>3, StoredElements
    <3>2. i \in 1..size'[e]
      BY <3>1
    <3> QED
      BY <3>1, <3>2, <2>1
  <2>4. ASSUME NEW x, x \in added PROVE x \in Stored'
    <3>1. PICK i \in new : x = <<d, i>>
      BY <2>4
    <3>2. i \in 1..size'[d]
      BY <3>1
    <3> QED
      BY <3>1, <3>2, <2>1
  <2> QED
    BY <2>2, <2>3, <2>4
<1>5. Stored \cap added = {}
  BY StoredElements
<1>6. Cardinality(Stored) \in Nat
  BY FS_CardinalityType
<1> HIDE DEF added
<1> QED
  BY <1>3, <1>4, <1>5, <1>6, FS_Union, FS_EmptySet DEF DirectoryBytes

\* Truncated and removed files only lower it.
LEMMA StoredShrinks ==
  ASSUME size \in [Day -> Nat], size' \in [Day -> Nat], IsFiniteSet(Stored),
         \A d \in Day : size'[d] <= size[d]
  PROVE  IsFiniteSet(Stored') /\ DirectoryBytes' <= DirectoryBytes
<1>1. \A x : x \in Stored' <=> \E e \in Day : \E i \in 1..size'[e] : x = <<e, i>>
  BY DEF Stored
<1>2. Stored' \subseteq Stored
  <2>1. SUFFICES ASSUME NEW x \in Stored' PROVE x \in Stored
    BY Zenon
  <2>2. PICK e \in Day, i \in Nat : i \in 1..size'[e] /\ x = <<e, i>>
    BY <1>1
  <2>3. i \in 1..size[e]
    BY <2>2
  <2> QED
    BY <2>2, <2>3, StoredElements, Zenon
<1> QED
  BY <1>2, FS_Subset, Zenon DEF DirectoryBytes

LEMMA DirectoryBytesNat ==
  ASSUME IsFiniteSet(Stored)
  PROVE  DirectoryBytes \in Nat
  BY FS_CardinalityType, Zenon DEF DirectoryBytes

-----------------------------------------------------------------------------
\* The inductive invariant.

Base == TypeOK /\ peer \in Peers /\ IsFiniteSet(Stored)

\* One handler at a time is in the part of handleLogs that holds state.mu.
MuExclusive == \A b, c \in Conn : pc[b] \in Holding /\ pc[c] \in Holding => b = c

\* The quota was checked for what is about to be written, and nothing has been
\* added since.
WriterFits ==
  \A c \in Conn : pc[c] = "write" => usedKnown /\ usedBytes + len[c] <= MaxTenantBytes

StorageInv == MuExclusive /\ WriterFits /\ UsageExact /\ QuotaRespected

\* What was acknowledged is in the synced part of its file, which was modified
\* no earlier.
AckedInv ==
  /\ \A d \in Day : mtime[d] <= clock
  /\ \A a \in acked : /\ a.day \in Day /\ a.end \in Nat /\ a.at \in Nat
                      /\ a.end <= synced[a.day]
                      /\ a.at <= mtime[a.day]

\* The requests of an address, and those of them whose failure blocked has let
\* through and recordFailure has yet to count.
From(a) == {c \in Conn : peer[c].ip = a}
Failing(a) == {c \in From(a) : pc[c] = "failed"}

AuthInv ==
  /\ lastFailure \in [Address -> {NoWindow} \cup 0..MaxTime]
  /\ \A a \in Address : clients[a] # NoEntry => clients[a].start <= lastFailure[a]
  /\ IsFiniteSet(Entries) /\ Cardinality(Entries) <= MaxAuthFailureClients
  /\ \A a \in Address :
       clients[a].count + Cardinality(Failing(a)) < MaxAuthFailures + Cardinality(From(a))

IInv == Base /\ StorageInv /\ AckedInv /\ AuthInv

LEMMA InitInv == Init => IInv
<1> SUFFICES ASSUME Init PROVE IInv
  BY Zenon
<1> USE ReceiverAssumption DEF Init
<1>1. Stored = {}
  <2>1. \A x : x \notin Stored
    BY StoredElements
  <2> QED
    BY <2>1, Zenon
<1>2. Entries = {}
  BY Zenon DEF Entries
<1>3. Base
  <2>1. TypeOK
    <3>1. NoEntry \in [start : 0..MaxTime, count : Nat]
      BY DEF NoEntry
    <3>2. clients \in [Address -> [start : 0..MaxTime, count : Nat]]
      BY <3>1, Zenon
    <3>3. \A d \in Day : synced[d] <= size[d]
      OBVIOUS
    <3>4. /\ size \in [Day -> Nat] /\ synced \in [Day -> Nat] /\ mtime \in [Day -> 0..MaxTime]
          /\ now \in [Conn -> 0..MaxTime] /\ len \in [Conn -> Nat]
      OBVIOUS
    <3>5. usedKnown \in BOOLEAN
      BY Zenon
    <3>6. /\ windowStart \in {NoWindow} \cup 0..MaxTime /\ requests \in 0..RequestsPerMinute
          /\ usedBytes \in Nat /\ clock \in 0..MaxTime /\ crashes \in 0..MaxCrashes
      OBVIOUS
    <3>7. pc \in [Conn -> {"idle", "auth", "failed", "admission", "reading", "lock", "write", "sync"}]
      BY Zenon
    <3> QED
      BY <3>2, <3>3, <3>4, <3>5, <3>6, <3>7, Zenon DEF TypeOK
  <2> QED
    BY <2>1, <1>1, FS_EmptySet, Zenon DEF Base
<1>4. StorageInv
  BY <1>1, FS_EmptySet
     DEF StorageInv, MuExclusive, WriterFits, UsageExact, QuotaRespected, DirectoryBytes, Holding
<1>5. AckedInv
  BY DEF AckedInv
<1>6. AuthInv
  <2>1. \A a \in Address : Cardinality(From(a)) \in Nat
    BY FS_Subset, FS_CardinalityType, Zenon DEF From
  <2>2. \A a \in Address : Failing(a) = {}
    BY Zenon DEF Failing, From
  <2>3. lastFailure \in [Address -> {NoWindow} \cup 0..MaxTime]
    BY Zenon
  <2>4. \A a \in Address : clients[a] = NoEntry /\ clients[a].count = 0
    BY Zenon DEF NoEntry
  <2>5. \A a \in Address :
          clients[a].count + Cardinality(Failing(a)) < MaxAuthFailures + Cardinality(From(a))
    <3> TAKE a \in Address
    <3>1. Cardinality(Failing(a)) = 0 /\ clients[a].count = 0 /\ Cardinality(From(a)) \in Nat
      BY <2>1, <2>2, <2>4, FS_EmptySet, Zenon
    <3> QED
      BY <3>1
  <2>6. IsFiniteSet(Entries) /\ Cardinality(Entries) <= MaxAuthFailureClients
    BY <1>2, FS_EmptySet
  <2> QED
    BY <2>3, <2>4, <2>5, <2>6, Zenon DEF AuthInv
<1> QED
  BY <1>3, <1>4, <1>5, <1>6, Zenon DEF IInv

-----------------------------------------------------------------------------
\* The types

LEMMA RespondTypes ==
  ASSUME TypeOK, NEW c \in Conn, Respond(c)
  PROVE  /\ pc' \in [Conn -> {"idle", "auth", "failed", "admission", "reading", "lock", "write", "sync"}]
         /\ now' \in [Conn -> 0..MaxTime] /\ len' \in [Conn -> Nat]
  BY ReceiverAssumption DEF TypeOK, Respond

LEMMA IpIsAddress ==
  ASSUME Base, NEW c \in Conn
  PROVE  peer[c].ip \in Address
  BY ReceiverAssumption, Zenon DEF Base

LEMMA ClientsTypes ==
  ASSUME Base, NEW c \in Conn, Authenticate(c) \/ RecordFailure(c)
  PROVE  clients' \in [Address -> [start : 0..MaxTime, count : Nat]]
<1> DEFINE E == [start : 0..MaxTime, count : Nat]
           a == peer[c].ip
<1> USE ReceiverAssumption
<1>1. a \in Address /\ clients \in [Address -> E] /\ now[c] \in 0..MaxTime
  BY IpIsAddress, Zenon DEF Base, TypeOK
<1>2. NoEntry \in E
  BY DEF NoEntry
<1>3. ASSUME Authenticate(c) PROVE clients' \in [Address -> E]
  <2>1. EntryAfterLook(clients[a], now[c]) \in E
    BY <1>1, <1>2, Zenon DEF EntryAfterLook
  <2> HIDE DEF E
  <2> QED
    BY <1>1, <1>3, <2>1, Zenon DEF Authenticate
<1>4. ASSUME RecordFailure(c) PROVE clients' \in [Address -> E]
  <2>1. [clients[a] EXCEPT !.count = @ + 1] \in E
    BY <1>1
  <2>2. [start |-> now[c], count |-> 1] \in E
    BY <1>1, Zenon
  <2> HIDE DEF E
  <2> QED
    BY <1>1, <1>2, <1>4, <2>1, <2>2 DEF RecordFailure
<1> QED
  BY <1>3, <1>4, Zenon

LEMMA DiskTypes ==
  ASSUME Base, NEW c \in Conn, NEW n \in 0..MaxTenantBytes, Write(c, n)
  PROVE  /\ DayOf(now[c]) \in Day /\ n \in Nat
         /\ size' = [size EXCEPT ![DayOf(now[c])] = @ + n]
         /\ size' \in [Day -> Nat] /\ mtime' \in [Day -> 0..MaxTime]
         /\ \A d \in Day : synced[d] <= size'[d]
<1> USE ReceiverAssumption
<1>1. DayOf(now[c]) \in Day
  BY DayOfIsDay, Zenon DEF Base, TypeOK
<1>2. size' = [size EXCEPT ![DayOf(now[c])] = @ + n]
  BY Zenon DEF Write
<1>3. size' \in [Day -> Nat]
  BY <1>1, <1>2 DEF Base, TypeOK
<1>4. mtime' \in [Day -> 0..MaxTime]
  BY <1>1, Zenon DEF Base, TypeOK, Write
<1>5. \A d \in Day : synced[d] <= size'[d]
  BY <1>1, <1>2 DEF Base, TypeOK
<1> QED
  BY <1>1, <1>2, <1>3, <1>4, <1>5

\* Files shrink when they expire and when a crash loses what was not synced.
LEMMA SweepFiles ==
  ASSUME Base, NEW last, NEW scanned, Sweep(last, scanned)
  PROVE  /\ size' \in [Day -> Nat] /\ synced' \in [Day -> Nat] /\ mtime' \in [Day -> 0..MaxTime]
         /\ \A d \in Day : synced'[d] <= size'[d] /\ size'[d] <= size[d]
  BY ReceiverAssumption DEF Base, TypeOK, Sweep

LEMMA CrashFiles ==
  ASSUME Base, Crash
  PROVE  /\ size' \in [Day -> Nat]
         /\ \A d \in Day : synced[d] <= size'[d] /\ size'[d] <= size[d]
  BY ReceiverAssumption DEF Base, TypeOK, Crash

\* The directory stays finite.
LEMMA StoredStep ==
  ASSUME Base, [Next]_vars
  PROVE  IsFiniteSet(Stored')
<1> USE DEF disk
<1>1. ASSUME size' = size PROVE IsFiniteSet(Stored')
  BY <1>1, Zenon DEF Base, Stored
<1>2. ASSUME NEW c \in Conn, NEW n \in 0..MaxTenantBytes, Write(c, n)
      PROVE  IsFiniteSet(Stored')
  BY <1>2, DiskTypes, StoredGrows, Zenon DEF Base, TypeOK
<1>3. ASSUME NEW last, NEW scanned, Sweep(last, scanned) PROVE IsFiniteSet(Stored')
  BY <1>3, SweepFiles, StoredShrinks, Zenon DEF Base, TypeOK
<1>4. ASSUME Crash PROVE IsFiniteSet(Stored')
  BY <1>4, CrashFiles, StoredShrinks, Zenon DEF Base, TypeOK
<1>5. ASSUME NEW c \in Conn,
             \/ Arrive(c) \/ Authenticate(c) \/ RecordFailure(c) \/ RejectHeaders(c)
             \/ AllowRequest(c) \/ RejectBody(c) \/ LockTenant(c) \/ Sync(c) \/ SyncFails(c)
             \/ \E n \in Length : ReadBody(c, n)
      PROVE  IsFiniteSet(Stored')
  <2>1. size' = size
    BY <1>5, Zenon
       DEF Arrive, Authenticate, RecordFailure, RejectHeaders, AllowRequest, RejectBody,
           LockTenant, Sync, SyncFails, ReadBody
  <2> QED
    BY <2>1, <1>1, Zenon
<1>6. ASSUME Tick \/ UNCHANGED vars PROVE IsFiniteSet(Stored')
  BY <1>6, <1>1, Zenon DEF Tick, vars
<1> QED
  BY <1>2, <1>3, <1>4, <1>5, <1>6, Zenon DEF Next, StorageStep

LEMMA BaseStep ==
  ASSUME Base, [Next]_vars
  PROVE  Base'
<1> USE ReceiverAssumption DEF disk, window, usage, local, auth
<1>1. IsFiniteSet(Stored')
  BY StoredStep, Zenon
<1>2. DirectoryBytes \in Nat /\ DirectoryBytes' \in Nat
  <2>1. DirectoryBytes \in Nat
    BY DirectoryBytesNat, Zenon DEF Base
  <2>2. DirectoryBytes' \in Nat
    BY <1>1, FS_CardinalityType, Zenon DEF DirectoryBytes
  <2> QED
    BY <2>1, <2>2, Zenon
<1>3. ASSUME Tick PROVE TypeOK'
  BY <1>3 DEF Base, TypeOK, Tick
<1>4. ASSUME NEW c \in Conn, Arrive(c) PROVE TypeOK'
  BY <1>4, Zenon DEF Base, TypeOK, Arrive
<1>5. ASSUME NEW c \in Conn, Authenticate(c) PROVE TypeOK'
  <2>1. clients' \in [Address -> [start : 0..MaxTime, count : Nat]]
    BY <1>5, ClientsTypes, Zenon
  <2>2. /\ pc' \in [Conn -> {"idle", "auth", "failed", "admission", "reading", "lock", "write", "sync"}]
        /\ now' \in [Conn -> 0..MaxTime] /\ len' \in [Conn -> Nat]
    BY <1>5, RespondTypes, Zenon DEF Base, TypeOK, Authenticate
  <2> QED
    BY <1>5, <2>1, <2>2, Zenon DEF Base, TypeOK, Authenticate
<1>6. ASSUME NEW c \in Conn, RecordFailure(c) PROVE TypeOK'
  <2>1. clients' \in [Address -> [start : 0..MaxTime, count : Nat]]
    BY <1>6, ClientsTypes, Zenon
  <2>2. Respond(c) /\ UNCHANGED <<clock, crashes, disk, window, usage>>
    BY <1>6, Zenon DEF RecordFailure
  <2> QED
    BY <2>1, <2>2, RespondTypes, Zenon DEF Base, TypeOK
<1>7. ASSUME NEW c \in Conn, RejectHeaders(c) \/ RejectBody(c) \/ SyncFails(c) PROVE TypeOK'
  BY <1>7, RespondTypes, Zenon DEF Base, TypeOK, RejectHeaders, RejectBody, SyncFails
<1>8. ASSUME NEW c \in Conn, AllowRequest(c) PROVE TypeOK'
  <2>1. /\ pc' \in [Conn -> {"idle", "auth", "failed", "admission", "reading", "lock", "write", "sync"}]
        /\ now' \in [Conn -> 0..MaxTime] /\ len' \in [Conn -> Nat]
    BY <1>8, RespondTypes, Zenon DEF Base, TypeOK, AllowRequest
  <2>2. windowStart' \in {NoWindow} \cup 0..MaxTime /\ requests' \in 0..RequestsPerMinute
    BY <1>8 DEF Base, TypeOK, AllowRequest, AtLimit
  <2> QED
    BY <1>8, <2>1, <2>2, Zenon DEF Base, TypeOK, AllowRequest
<1>9. ASSUME NEW c \in Conn, NEW n \in Length, ReadBody(c, n) PROVE TypeOK'
  BY <1>9, Zenon DEF Base, TypeOK, ReadBody
<1>10. ASSUME NEW c \in Conn, LockTenant(c) PROVE TypeOK'
  <2>1. /\ pc' \in [Conn -> {"idle", "auth", "failed", "admission", "reading", "lock", "write", "sync"}]
        /\ now' \in [Conn -> 0..MaxTime] /\ len' \in [Conn -> Nat]
    BY <1>10, RespondTypes, Zenon DEF Base, TypeOK, LockTenant
  <2>2. usedBytes' \in Nat /\ usedKnown' \in BOOLEAN
    BY <1>10, <1>2, Zenon DEF Base, TypeOK, LockTenant
  <2> QED
    BY <1>10, <2>1, <2>2, Zenon DEF Base, TypeOK, LockTenant
<1>11. ASSUME NEW c \in Conn, NEW n \in 0..MaxTenantBytes, Write(c, n) PROVE TypeOK'
  <2>1. /\ pc' \in [Conn -> {"idle", "auth", "failed", "admission", "reading", "lock", "write", "sync"}]
        /\ now' \in [Conn -> 0..MaxTime] /\ len' \in [Conn -> Nat]
    BY <1>11, RespondTypes, Zenon DEF Base, TypeOK, Write
  <2>2. usedBytes' \in Nat
    BY <1>11 DEF Base, TypeOK, Write, UsedAfter
  <2>3. /\ size' \in [Day -> Nat] /\ mtime' \in [Day -> 0..MaxTime]
        /\ \A d \in Day : synced[d] <= size'[d]
    BY <1>11, DiskTypes, Zenon
  <2> QED
    BY <1>11, <2>1, <2>2, <2>3, Zenon DEF Base, TypeOK, Write
<1>12. ASSUME NEW c \in Conn, Sync(c) PROVE TypeOK'
  <2>1. DayOf(now[c]) \in Day
    BY DayOfIsDay, Zenon DEF Base, TypeOK
  <2>2. synced' \in [Day -> Nat] /\ \A d \in Day : synced'[d] <= size'[d]
    BY <1>12, <2>1 DEF Base, TypeOK, Sync, SyncFile
  <2> QED
    BY <1>12, <2>2, RespondTypes, Zenon DEF Base, TypeOK, Sync
<1>13. ASSUME NEW last, NEW scanned \in BOOLEAN, Sweep(last, scanned) PROVE TypeOK'
  <2>1. usedBytes' \in Nat /\ usedKnown' \in BOOLEAN
    BY <1>13, <1>2, Zenon DEF Sweep, UsageAfterSweep
  <2>2. /\ size' \in [Day -> Nat] /\ synced' \in [Day -> Nat] /\ mtime' \in [Day -> 0..MaxTime]
        /\ \A d \in Day : synced'[d] <= size'[d]
    BY <1>13, SweepFiles, Zenon
  <2>3. UNCHANGED <<clock, crashes, auth, window, local>>
    BY <1>13, Zenon DEF Sweep
  <2> QED
    BY <2>1, <2>2, <2>3, Zenon DEF Base, TypeOK
<1>14. ASSUME Crash PROVE TypeOK'
  <2>1. NoEntry \in [start : 0..MaxTime, count : Nat]
    BY DEF NoEntry
  <2>2. clients' \in [Address -> [start : 0..MaxTime, count : Nat]]
    BY <1>14, <2>1, Zenon DEF Crash
  <2>3. /\ pc' \in [Conn -> {"idle", "auth", "failed", "admission", "reading", "lock", "write", "sync"}]
        /\ now' \in [Conn -> 0..MaxTime] /\ len' \in [Conn -> Nat]
    BY <1>14 DEF Crash
  <2>4. size' \in [Day -> Nat] /\ \A d \in Day : synced[d] <= size'[d]
    BY <1>14, CrashFiles, Zenon
  <2>5. /\ windowStart' \in {NoWindow} \cup 0..MaxTime /\ requests' \in 0..RequestsPerMinute
        /\ usedBytes' \in Nat /\ crashes' \in 0..MaxCrashes
    BY <1>14 DEF Crash, Base, TypeOK
  <2>6. usedKnown' \in BOOLEAN
    BY <1>14, Zenon DEF Crash
  <2>7. UNCHANGED <<clock, synced, mtime>>
    BY <1>14, Zenon DEF Crash
  <2> QED
    BY <2>2, <2>3, <2>4, <2>5, <2>6, <2>7, Zenon DEF Base, TypeOK
<1>15. ASSUME UNCHANGED vars PROVE TypeOK'
  BY <1>15, Zenon DEF Base, TypeOK, vars
<1>16. TypeOK'
  BY <1>3, <1>4, <1>5, <1>6, <1>7, <1>8, <1>9, <1>10, <1>11, <1>12, <1>13, <1>14, <1>15, Zenon
     DEF Next, StorageStep
<1>17. peer' = peer
  BY Zenon
     DEF Next, StorageStep, Tick, Arrive, Authenticate, RecordFailure, RejectHeaders,
         AllowRequest, ReadBody, RejectBody, LockTenant, Write, Sync, SyncFails, Sweep, Crash,
         vars
<1> QED
  BY <1>1, <1>16, <1>17, Zenon DEF Base

-----------------------------------------------------------------------------
\* The quota

\* Steps that neither touch the files nor take state.mu.
LEMMA StorageQuiet ==
  ASSUME StorageInv, UNCHANGED <<size, usedBytes, usedKnown>>,
         \A c \in Conn : pc'[c] \in Holding => pc[c] \in Holding,
         \A c \in Conn : pc'[c] = "write" => pc[c] = "write" /\ len'[c] = len[c]
  PROVE  StorageInv'
<1>1. Stored' = Stored
  BY Zenon DEF Stored
<1> QED
  BY <1>1, Zenon
     DEF StorageInv, MuExclusive, WriterFits, UsageExact, QuotaRespected, DirectoryBytes

LEMMA LockTenantStorage ==
  ASSUME Base, StorageInv, NEW c \in Conn, LockTenant(c)
  PROVE  StorageInv'
<1> USE ReceiverAssumption DEF disk, usage
<1>1. Stored' = Stored
  BY Zenon DEF LockTenant, Stored
<1>2. CASE Respond(c) /\ UNCHANGED usage
  BY <1>2, StorageQuiet, Zenon DEF LockTenant, Respond, Base, TypeOK, Holding
<1>3. CASE ~(Respond(c) /\ UNCHANGED usage)
  <2>1. /\ usedKnown' = TRUE
        /\ usedBytes' = IF usedKnown THEN usedBytes ELSE DirectoryBytes
    BY <1>3, Zenon DEF LockTenant
  <2>2. UsageExact' /\ QuotaRespected'
    BY <2>1, <1>1, Zenon DEF StorageInv, UsageExact, QuotaRespected, DirectoryBytes
  <2>3. \A b \in Conn : pc'[b] \in Holding => b = c
    BY Zenon DEF LockTenant, MuFree, Respond, Base, TypeOK
  <2>4. ASSUME pc'[c] = "write" PROVE usedBytes' + len'[c] <= MaxTenantBytes
    BY <1>3, <2>4, Zenon DEF LockTenant, Fits, Respond, Base, TypeOK
  <2> QED
    BY <2>1, <2>2, <2>3, <2>4, Zenon DEF StorageInv, MuExclusive, WriterFits, Holding
<1> QED
  BY <1>2, <1>3, Zenon

\* The bytes a write adds, all of them or fewer, are counted as they are stored.
LEMMA WriteStorage ==
  ASSUME Base, StorageInv, NEW c \in Conn, NEW n \in 0..MaxTenantBytes, Write(c, n)
  PROVE  StorageInv'
<1> USE ReceiverAssumption DEF disk, usage
<1>1. DirectoryBytes' = DirectoryBytes + n /\ DirectoryBytes \in Nat /\ n \in Nat
  BY DiskTypes, StoredGrows, DirectoryBytesNat, Zenon DEF Base, TypeOK
<1>2. /\ usedKnown /\ usedBytes + len[c] <= MaxTenantBytes /\ n <= len[c]
      /\ usedBytes' = usedBytes + n /\ usedKnown' = usedKnown /\ usedBytes = DirectoryBytes
  BY Zenon DEF Write, UsedAfter, StorageInv, WriterFits, UsageExact
<1>3. UsageExact' /\ QuotaRespected'
  BY <1>1, <1>2 DEF UsageExact, QuotaRespected, Base, TypeOK
<1>4. \A b \in Conn : pc'[b] \in Holding => b = c
  BY DEF Write, StorageInv, MuExclusive, Holding, Respond, Base, TypeOK
<1>5. pc'[c] # "write"
  BY Zenon DEF Write, Respond, Base, TypeOK
<1> QED
  BY <1>3, <1>4, <1>5, Zenon DEF StorageInv, MuExclusive, WriterFits, Holding

LEMMA StorageKept ==
  ASSUME Base, Base', StorageInv, [Next]_vars
  PROVE  StorageInv'
<1> USE ReceiverAssumption DEF disk, usage, local
<1>1. ASSUME NEW c \in Conn,
             \/ Arrive(c) \/ Authenticate(c) \/ RecordFailure(c) \/ RejectHeaders(c)
             \/ AllowRequest(c) \/ RejectBody(c) \/ SyncFails(c)
             \/ \E n \in Length : ReadBody(c, n)
      PROVE  StorageInv'
  <2>1. UNCHANGED <<size, usedBytes, usedKnown>>
    BY <1>1, Zenon
       DEF Arrive, Authenticate, RecordFailure, RejectHeaders, AllowRequest, RejectBody,
           SyncFails, ReadBody
  <2>2. \A b \in Conn : b # c => pc'[b] = pc[b] /\ len'[b] = len[b]
    BY <1>1
       DEF Arrive, Authenticate, RecordFailure, RejectHeaders, AllowRequest, RejectBody,
           SyncFails, ReadBody, Respond, Base, TypeOK
  <2>3. pc'[c] \notin Holding
    BY <1>1
       DEF Arrive, Authenticate, RecordFailure, RejectHeaders, AllowRequest, RejectBody,
           SyncFails, ReadBody, Respond, Base, TypeOK, Holding
  <2> QED
    BY <2>1, <2>2, <2>3, StorageQuiet, Zenon DEF Holding
<1>2. ASSUME NEW c \in Conn, Sync(c) PROVE StorageInv'
  <2>1. UNCHANGED <<size, usedBytes, usedKnown>>
    BY <1>2, Zenon DEF Sync
  <2>2. \A b \in Conn : b # c => pc'[b] = pc[b] /\ len'[b] = len[b]
    BY <1>2, Zenon DEF Sync, Respond, Base, TypeOK
  <2>3. pc'[c] \notin Holding
    BY <1>2, Zenon DEF Sync, Respond, Base, TypeOK, Holding
  <2> QED
    BY <2>1, <2>2, <2>3, StorageQuiet, Zenon DEF Holding
<1>3. ASSUME NEW last, NEW scanned \in BOOLEAN, Sweep(last, scanned) PROVE StorageInv'
  <2>1. DirectoryBytes' <= DirectoryBytes /\ DirectoryBytes \in Nat /\ DirectoryBytes' \in Nat
    <3>1. DirectoryBytes' \in Nat
      BY FS_CardinalityType, Zenon DEF Base, DirectoryBytes
    <3> QED
      BY <1>3, <3>1, SweepFiles, StoredShrinks, DirectoryBytesNat, Zenon DEF Base, TypeOK
  <2>2. QuotaRespected'
    BY <2>1 DEF StorageInv, QuotaRespected
  <2>3. UsageExact'
    BY <1>3, Zenon DEF Sweep, UsageExact, UsageAfterSweep
  <2>4. \A b \in Conn : pc'[b] \notin Holding
    BY <1>3, Zenon DEF Sweep, MuFree
  <2> QED
    BY <2>2, <2>3, <2>4, Zenon DEF StorageInv, MuExclusive, WriterFits, Holding
<1>4. ASSUME Crash PROVE StorageInv'
  <2>1. DirectoryBytes' <= DirectoryBytes /\ DirectoryBytes \in Nat /\ DirectoryBytes' \in Nat
    <3>1. DirectoryBytes' \in Nat
      BY FS_CardinalityType, Zenon DEF Base, DirectoryBytes
    <3> QED
      BY <1>4, <3>1, CrashFiles, StoredShrinks, DirectoryBytesNat, Zenon DEF Base, TypeOK
  <2>2. QuotaRespected'
    BY <2>1 DEF StorageInv, QuotaRespected
  <2>3. UsageExact'
    BY <1>4, Zenon DEF Crash, UsageExact
  <2>4. \A b \in Conn : pc'[b] \notin Holding
    BY <1>4, Zenon DEF Crash, Holding
  <2> QED
    BY <2>2, <2>3, <2>4, Zenon DEF StorageInv, MuExclusive, WriterFits, Holding
<1>5. ASSUME Tick \/ UNCHANGED vars PROVE StorageInv'
  BY <1>5, StorageQuiet, Zenon DEF Tick, vars
<1> QED
  BY <1>1, <1>2, <1>3, <1>4, <1>5, LockTenantStorage, WriteStorage, Zenon DEF Next, StorageStep

-----------------------------------------------------------------------------
\* Durability and retention

LEMMA AckedKept ==
  ASSUME Base, AckedInv, [Next]_vars
  PROVE  AckedInv'
<1> USE ReceiverAssumption DEF disk
<1>1. ASSUME UNCHANGED <<synced, mtime, acked>>, clock' \in {clock, clock + 1} PROVE AckedInv'
  BY <1>1 DEF AckedInv, Base, TypeOK
<1>2. ASSUME NEW c \in Conn, NEW n \in 0..MaxTenantBytes, Write(c, n) PROVE AckedInv'
  BY <1>2 DEF AckedInv, Base, TypeOK, Write
<1>3. ASSUME NEW c \in Conn, Sync(c) PROVE AckedInv'
  <2>1. DayOf(now[c]) \in Day
    BY DayOfIsDay, Zenon DEF Base, TypeOK
  <2>2. \A d \in Day : synced'[d] \in Nat /\ synced[d] <= synced'[d]
    BY <1>3, <2>1 DEF Base, TypeOK, Sync, SyncFile
  <2>3. /\ UNCHANGED <<mtime, clock>>
        /\ synced'[DayOf(now[c])] = size[DayOf(now[c])]
        /\ acked' = acked \cup {[day |-> DayOf(now[c]), end |-> size[DayOf(now[c])],
                                 at |-> mtime[DayOf(now[c])]]}
    BY <1>3, <2>1, Zenon DEF Base, TypeOK, Sync, SyncFile
  <2>4. size[DayOf(now[c])] \in Nat /\ mtime[DayOf(now[c])] \in Nat
    BY <2>1 DEF Base, TypeOK
  <2> HIDE DEF disk
  <2>5. ASSUME NEW a \in acked'
        PROVE  /\ a.day \in Day /\ a.end \in Nat /\ a.at \in Nat
               /\ a.end <= synced'[a.day] /\ a.at <= mtime'[a.day]
    BY <2>1, <2>2, <2>3, <2>4, <2>5 DEF AckedInv, Base, TypeOK
  <2> QED
    BY <2>3, <2>5, Zenon DEF AckedInv
<1>4. ASSUME NEW last, NEW scanned, Sweep(last, scanned) PROVE AckedInv'
  <2>1. /\ \A d \in Day : mtime'[d] = IF Expired(d) /\ d <= last THEN 0 ELSE mtime[d]
        /\ \A d \in Day : synced'[d] = IF Expired(d) /\ d <= last THEN 0 ELSE synced[d]
        /\ acked' = {a \in acked : ~(Expired(a.day) /\ a.day <= last)}
        /\ clock' = clock
    BY <1>4, Zenon DEF Sweep
  <2> QED
    BY <2>1 DEF AckedInv, Base, TypeOK
<1>5. ASSUME Crash PROVE AckedInv'
  BY <1>5, <1>1, Zenon DEF Crash
<1>6. ASSUME NEW c \in Conn,
             \/ Arrive(c) \/ Authenticate(c) \/ RecordFailure(c) \/ RejectHeaders(c)
             \/ AllowRequest(c) \/ RejectBody(c) \/ LockTenant(c) \/ SyncFails(c)
             \/ \E n \in Length : ReadBody(c, n)
      PROVE  AckedInv'
  <2>1. UNCHANGED <<synced, mtime, acked, clock>>
    BY <1>6, Zenon
       DEF Arrive, Authenticate, RecordFailure, RejectHeaders, AllowRequest, RejectBody,
           LockTenant, SyncFails, ReadBody
  <2> QED
    BY <2>1, <1>1, Zenon
<1>7. ASSUME Tick \/ UNCHANGED vars PROVE AckedInv'
  BY <1>7, <1>1, Zenon DEF Tick, vars
<1> QED
  BY <1>2, <1>3, <1>4, <1>5, <1>6, <1>7, Zenon DEF Next, StorageStep

-----------------------------------------------------------------------------
\* The limiter of failed authentications

LEMMA RequestsFinite ==
  ASSUME NEW a
  PROVE  /\ IsFiniteSet(From(a)) /\ Cardinality(From(a)) \in Nat
         /\ IsFiniteSet(Failing(a)) /\ Cardinality(Failing(a)) \in Nat
         /\ Cardinality(Failing(a)) <= Cardinality(From(a))
<1>1. IsFiniteSet(From(a))
  BY ReceiverAssumption, FS_Subset, Zenon DEF From
<1>2. IsFiniteSet(Failing(a)) /\ Cardinality(Failing(a)) <= Cardinality(From(a))
  BY <1>1, FS_Subset, Zenon DEF Failing
<1> QED
  BY <1>1, <1>2, FS_CardinalityType, Zenon

\* Steps that leave the table alone and start no failure.
LEMMA AuthQuiet ==
  ASSUME Base, AuthInv, UNCHANGED <<clients, lastFailure, peer>>,
         \A c \in Conn : pc'[c] = "failed" => pc[c] = "failed"
  PROVE  AuthInv'
<1>1. Entries' = Entries
  BY Zenon DEF Entries
<1>2. ASSUME NEW a \in Address
      PROVE  clients'[a].count + Cardinality(Failing(a)') < MaxAuthFailures + Cardinality(From(a)')
  <2>1. From(a)' = From(a) /\ Failing(a)' \subseteq Failing(a)
    BY Zenon DEF From, Failing
  <2>2. Cardinality(Failing(a)') \in Nat /\ Cardinality(Failing(a)') <= Cardinality(Failing(a))
    BY <2>1, RequestsFinite, FS_Subset, FS_CardinalityType, Zenon
  <2>3. clients[a].count \in Nat /\ Cardinality(From(a)) \in Nat /\ Cardinality(Failing(a)) \in Nat
    BY RequestsFinite, Zenon DEF Base, TypeOK
  <2>4. clients[a].count + Cardinality(Failing(a)) < MaxAuthFailures + Cardinality(From(a))
    BY Zenon DEF AuthInv
  <2> QED
    BY <2>1, <2>2, <2>3, <2>4, ReceiverAssumption
<1> QED
  BY <1>1, <1>2, Zenon DEF AuthInv

\* blocked lets a request through only below the limit, so the failures under
\* way and the count stay below the limit plus the requests of the address.
LEMMA AuthenticateAuth ==
  ASSUME Base, AuthInv, NEW c \in Conn, Authenticate(c)
  PROVE  AuthInv'
<1> USE ReceiverAssumption
<1> DEFINE p == peer[c].ip
           look == EntryAfterLook(clients[p], now[c])
<1>1. /\ p \in Address /\ clients' = [clients EXCEPT ![p] = look]
      /\ UNCHANGED <<peer, lastFailure>>
      /\ clients \in [Address -> [start : 0..MaxTime, count : Nat]]
  BY IpIsAddress, Zenon DEF Authenticate, Base, TypeOK
<1>2. look = NoEntry \/ look = clients[p]
  BY Zenon DEF EntryAfterLook
<1>3. NoEntry.count = 0
  BY Zenon DEF NoEntry
<1>4. \A a \in Address : clients'[a] = clients[a] \/ clients'[a] = NoEntry
  BY <1>1, <1>2, Zenon
<1>5. Entries' \subseteq Entries
  BY <1>4, Zenon DEF Entries
<1>6. IsFiniteSet(Entries') /\ Cardinality(Entries') <= MaxAuthFailureClients
  <2>1. /\ IsFiniteSet(Entries') /\ Cardinality(Entries') <= Cardinality(Entries)
    BY <1>5, FS_Subset, Zenon DEF AuthInv
  <2>2. Cardinality(Entries) \in Nat /\ Cardinality(Entries') \in Nat
    BY <2>1, FS_CardinalityType, Zenon DEF AuthInv
  <2> QED
    BY <2>1, <2>2 DEF AuthInv
<1>7. \A a \in Address : clients'[a] # NoEntry => clients'[a].start <= lastFailure'[a]
  BY <1>1, <1>3, <1>4, Zenon DEF AuthInv
<1>8. ASSUME NEW a \in Address
      PROVE  clients'[a].count + Cardinality(Failing(a)') < MaxAuthFailures + Cardinality(From(a)')
  <2>1. /\ Cardinality(From(a)) \in Nat /\ Cardinality(Failing(a)) \in Nat
        /\ IsFiniteSet(From(a)) /\ IsFiniteSet(Failing(a))
    BY RequestsFinite, Zenon
  <2>2. From(a)' = From(a)
    BY <1>1, Zenon DEF From
  <2>3. Failing(a)' \subseteq From(a)
    BY <2>2, Zenon DEF Failing
  <2>4. Cardinality(Failing(a)') \in Nat /\ Cardinality(Failing(a)') <= Cardinality(From(a))
    BY <2>1, <2>3, FS_Subset, FS_CardinalityType, Zenon
  <2>5. clients[a].count \in Nat /\ clients'[a].count \in Nat /\ clients'[a].count <= clients[a].count
    BY <1>1, <1>3, <1>4
  <2>6. CASE a = p /\ look.count < MaxAuthFailures
    <3>1. clients'[a].count < MaxAuthFailures
      BY <2>6, <1>1, Zenon
    <3> QED
      BY <3>1, <2>1, <2>2, <2>4, <2>5
  <2>7. CASE ~(a = p /\ look.count < MaxAuthFailures)
    <3>1. \A b \in From(a) : pc'[b] = "failed" => pc[b] = "failed"
      <4>1. CASE a = p
        <5>1. look.count \in Nat
          BY <1>1, <1>2, <1>3
        <5>2. Respond(c)
          BY <2>7, <4>1, <5>1 DEF Authenticate
        <5> QED
          BY <5>2, Zenon DEF Respond, Base, TypeOK, From
      <4>2. CASE a # p
        <5>1. c \notin From(a)
          BY <4>2, Zenon DEF From
        <5>2. \A b \in Conn : b # c => pc'[b] = pc[b]
          BY Zenon DEF Authenticate, Respond, Base, TypeOK
        <5> QED
          BY <5>1, <5>2, Zenon DEF From
      <4> QED
        BY <4>1, <4>2, Zenon
    <3>2. Failing(a)' \subseteq Failing(a)
      BY <3>1, <2>2, Zenon DEF Failing
    <3>3. Cardinality(Failing(a)') <= Cardinality(Failing(a))
      BY <3>2, <2>1, FS_Subset, Zenon
    <3>4. clients[a].count + Cardinality(Failing(a)) < MaxAuthFailures + Cardinality(From(a))
      BY Zenon DEF AuthInv
    <3> HIDE DEF p, look
    <3> QED
      BY <3>3, <3>4, <2>1, <2>2, <2>4, <2>5
  <2> QED
    BY <2>6, <2>7, Zenon
<1>9. lastFailure' \in [Address -> {NoWindow} \cup 0..MaxTime]
  BY <1>1, Zenon DEF AuthInv
<1> QED
  BY <1>6, <1>7, <1>8, <1>9, Zenon DEF AuthInv

\* The table after recordFailure: the count of the address goes up by one or
\* starts again, the table never grows past its bound.
LEMMA RecordedEntry ==
  ASSUME Base, AuthInv, NEW c \in Conn, RecordFailure(c)
  PROVE  LET p == peer[c].ip IN
         /\ \A a \in Address \ {p} : clients'[a] = clients[a] \/ clients'[a] = NoEntry
         /\ \/ clients'[p].count = 1 /\ clients'[p].start = now[c]
            \/ /\ clients'[p].count = clients[p].count + 1 /\ clients'[p].start = clients[p].start
               /\ clients[p] # NoEntry
         /\ IsFiniteSet(Entries') /\ Cardinality(Entries') <= MaxAuthFailureClients
<1> USE ReceiverAssumption
<1> DEFINE p == peer[c].ip
<1>1. /\ p \in Address /\ clients \in [Address -> [start : 0..MaxTime, count : Nat]]
      /\ IsFiniteSet(Entries) /\ Cardinality(Entries) \in Nat
      /\ Cardinality(Entries) <= MaxAuthFailureClients
  BY IpIsAddress, FS_CardinalityType, Zenon DEF AuthInv, Base, TypeOK
<1>2. NoEntry.count = 0
  BY Zenon DEF NoEntry
<1>3. CASE clients[p] # NoEntry /\ ~Stale(clients[p], now[c])
  <2>1. clients' = [clients EXCEPT ![p].count = @ + 1]
    BY <1>3, Zenon DEF RecordFailure
  <2>2. clients'[p].count = clients[p].count + 1 /\ clients'[p].start = clients[p].start
    BY <1>1, <2>1, Zenon
  <2>3. \A a \in Address \ {p} : clients'[a] = clients[a]
    BY <1>1, <2>1, Zenon
  <2>4. clients'[p] # NoEntry
    BY <1>1, <1>2, <2>2
  <2>5. Entries' = Entries
    BY <1>3, <2>3, <2>4, Zenon DEF Entries
  <2> QED
    BY <1>1, <1>3, <2>2, <2>3, <2>5, Zenon
<1>4. CASE ~(clients[p] # NoEntry /\ ~Stale(clients[p], now[c]))
  <2>1. PICK gone \in IF clients[p] = NoEntry /\ Cardinality(Entries) >= MaxAuthFailureClients
                      THEN Evicted(now[c]) ELSE {{}} :
               clients' = [x \in Address |->
                 IF x = p THEN [start |-> now[c], count |-> 1]
                 ELSE IF x \in gone THEN NoEntry ELSE clients[x]]
    BY <1>4, Zenon DEF RecordFailure
  <2>2. clients'[p].count = 1 /\ clients'[p].start = now[c]
    BY <1>1, <2>1, Zenon
  <2>3. \A a \in Address \ {p} : clients'[a] = IF a \in gone THEN NoEntry ELSE clients[a]
    BY <2>1, Zenon
  <2>4. Entries' \subseteq (Entries \ gone) \cup {p}
    BY <2>3, Zenon DEF Entries
  <2>5. CASE clients[p] # NoEntry
    <3>1. Entries' \subseteq Entries
      BY <1>1, <2>4, <2>5, Zenon DEF Entries
    <3>2. /\ IsFiniteSet(Entries') /\ Cardinality(Entries') <= Cardinality(Entries)
          /\ Cardinality(Entries') \in Nat
      BY <1>1, <3>1, FS_Subset, FS_CardinalityType, Zenon
    <3> QED
      BY <1>1, <2>2, <2>3, <3>2
  <2>6. CASE clients[p] = NoEntry /\ Cardinality(Entries) < MaxAuthFailureClients
    <3>1. IsFiniteSet(Entries \cup {p}) /\ Cardinality(Entries \cup {p}) <= Cardinality(Entries) + 1
      BY <1>1, OneMore, Zenon
    <3>2. Entries' \subseteq Entries \cup {p}
      BY <2>4, Zenon
    <3>3. /\ IsFiniteSet(Entries') /\ Cardinality(Entries') <= Cardinality(Entries \cup {p})
          /\ Cardinality(Entries') \in Nat /\ Cardinality(Entries \cup {p}) \in Nat
      BY <3>1, <3>2, FS_Subset, FS_CardinalityType, Zenon
    <3>4. Cardinality(Entries') <= MaxAuthFailureClients
      BY <1>1, <2>6, <3>1, <3>3
    <3> QED
      BY <2>2, <2>3, <3>3, <3>4, Zenon
  <2>7. CASE clients[p] = NoEntry /\ Cardinality(Entries) >= MaxAuthFailureClients
    <3>1. PICK g \in Entries : g \in gone
      BY <2>1, <2>7, Zenon DEF Evicted
    <3>2. IsFiniteSet(Entries \ {g}) /\ Cardinality(Entries \ {g}) = Cardinality(Entries) - 1
      BY <1>1, <3>1, FS_RemoveElement, Zenon
    <3>3. /\ IsFiniteSet((Entries \ {g}) \cup {p})
          /\ Cardinality((Entries \ {g}) \cup {p}) <= Cardinality(Entries)
      <4>1. /\ IsFiniteSet((Entries \ {g}) \cup {p})
            /\ Cardinality((Entries \ {g}) \cup {p}) \in Nat
            /\ Cardinality((Entries \ {g}) \cup {p}) <= Cardinality(Entries \ {g}) + 1
        BY <3>2, OneMore, Zenon
      <4> QED
        BY <1>1, <3>2, <4>1
    <3>4. Entries' \subseteq (Entries \ {g}) \cup {p}
      BY <2>4, <3>1, Zenon
    <3>5. /\ IsFiniteSet(Entries') /\ Cardinality(Entries') <= Cardinality((Entries \ {g}) \cup {p})
          /\ Cardinality(Entries') \in Nat /\ Cardinality((Entries \ {g}) \cup {p}) \in Nat
      BY <3>3, <3>4, FS_Subset, FS_CardinalityType, Zenon
    <3>6. Cardinality(Entries') <= MaxAuthFailureClients
      BY <1>1, <3>3, <3>5
    <3> QED
      BY <2>2, <2>3, <3>5, <3>6, Zenon
  <2> QED
    BY <1>1, <2>5, <2>6, <2>7
<1> QED
  BY <1>3, <1>4, Zenon

LEMMA RecordFailureAuth ==
  ASSUME Base, Base', AuthInv, NEW c \in Conn, RecordFailure(c)
  PROVE  AuthInv'
<1> USE ReceiverAssumption
<1> DEFINE p == peer[c].ip
<1>1. /\ p \in Address /\ UNCHANGED peer /\ pc[c] = "failed" /\ pc'[c] = "idle"
      /\ \A b \in Conn \ {c} : pc'[b] = pc[b]
      /\ now[c] \in 0..MaxTime
  BY IpIsAddress, Zenon DEF RecordFailure, Respond, Base, TypeOK
<1>2. /\ \A a \in Address \ {p} : clients'[a] = clients[a] \/ clients'[a] = NoEntry
      /\ \/ clients'[p].count = 1 /\ clients'[p].start = now[c]
         \/ /\ clients'[p].count = clients[p].count + 1 /\ clients'[p].start = clients[p].start
            /\ clients[p] # NoEntry
      /\ IsFiniteSet(Entries') /\ Cardinality(Entries') <= MaxAuthFailureClients
  BY RecordedEntry, Zenon
<1>3. NoEntry.count = 0
  BY Zenon DEF NoEntry
<1>4. /\ lastFailure' \in [Address -> {NoWindow} \cup 0..MaxTime]
      /\ lastFailure'[p] >= lastFailure[p] /\ lastFailure'[p] >= now[c]
      /\ \A a \in Address \ {p} : lastFailure'[a] = lastFailure[a]
  <2>1. lastFailure[p] \in Int /\ now[c] \in Int
    BY <1>1 DEF AuthInv, NoWindow
  <2>2. lastFailure' = [lastFailure EXCEPT ![p] = Max({lastFailure[p], now[c]})]
    BY Zenon DEF RecordFailure
  <2>3. /\ Max({lastFailure[p], now[c]}) \in {lastFailure[p], now[c]}
        /\ Max({lastFailure[p], now[c]}) >= lastFailure[p]
        /\ Max({lastFailure[p], now[c]}) >= now[c]
    BY <2>1, MaxOfTwo, Zenon
  <2> QED
    BY <1>1, <2>2, <2>3, Zenon DEF AuthInv
<1>5. \A a \in Address : clients'[a] # NoEntry => clients'[a].start <= lastFailure'[a]
  <2> TAKE a \in Address
  <2>1. CASE a = p
    <3>1. /\ clients[a].start \in Int /\ clients'[a].start \in Int /\ now[c] \in Int
          /\ lastFailure[a] \in Int /\ lastFailure'[a] \in Int
      BY <1>1, <1>4 DEF AuthInv, Base, TypeOK, NoWindow
    <3>2. clients[a] # NoEntry => clients[a].start <= lastFailure[a]
      BY Zenon DEF AuthInv
    <3>3. \/ clients'[a].start = now[c]
          \/ clients'[a].start = clients[a].start /\ clients[a] # NoEntry
      BY <1>2, <2>1, Zenon
    <3>4. lastFailure'[a] >= lastFailure[a] /\ lastFailure'[a] >= now[c]
      BY <1>4, <2>1, Zenon
    <3> HIDE DEF p
    <3> QED
      BY <3>1, <3>2, <3>3, <3>4
  <2>2. CASE a # p
    BY <1>2, <1>4, <2>2, Zenon DEF AuthInv
  <2> QED
    BY <2>1, <2>2, Zenon
<1>6. ASSUME NEW a \in Address
      PROVE  clients'[a].count + Cardinality(Failing(a)') < MaxAuthFailures + Cardinality(From(a)')
  <2>1. /\ Cardinality(From(a)) \in Nat /\ Cardinality(Failing(a)) \in Nat
        /\ IsFiniteSet(From(a)) /\ IsFiniteSet(Failing(a))
        /\ Cardinality(Failing(a)) <= Cardinality(From(a))
    BY RequestsFinite, Zenon
  <2>2. From(a)' = From(a)
    BY <1>1, Zenon DEF From
  <2>3. Failing(a)' = Failing(a) \ {c}
    BY <1>1, <2>2, Zenon DEF Failing, From
  <2>4. clients[a].count + Cardinality(Failing(a)) < MaxAuthFailures + Cardinality(From(a))
    BY Zenon DEF AuthInv
  <2>5. clients[a].count \in Nat /\ clients'[a].count \in Nat
    BY Zenon DEF Base, TypeOK
  <2>6. CASE a = p
    <3>1. c \in Failing(a)
      BY <1>1, <2>6, Zenon DEF Failing, From
    <3>2. Cardinality(Failing(a)') = Cardinality(Failing(a)) - 1
      BY <2>1, <2>3, <3>1, FS_RemoveElement, Zenon
    <3>3. clients'[a].count = 1 \/ clients'[a].count = clients[a].count + 1
      BY <1>2, <2>6, Zenon
    <3> HIDE DEF p
    <3> QED
      BY <2>1, <2>2, <2>4, <2>5, <3>2, <3>3
  <2>7. CASE a # p
    <3>1. Failing(a)' = Failing(a)
      BY <2>3, <2>7, Zenon DEF Failing, From
    <3>2. clients'[a].count <= clients[a].count
      BY <1>2, <1>3, <2>5, <2>7
    <3> HIDE DEF p
    <3> QED
      BY <2>1, <2>2, <2>4, <2>5, <3>1, <3>2
  <2> QED
    BY <2>6, <2>7, Zenon
<1> QED
  BY <1>2, <1>4, <1>5, <1>6, Zenon DEF AuthInv

LEMMA AuthKept ==
  ASSUME Base, Base', AuthInv, [Next]_vars
  PROVE  AuthInv'
<1> USE ReceiverAssumption DEF auth, local
<1>1. ASSUME NEW c \in Conn,
             \/ Arrive(c) \/ RejectHeaders(c) \/ AllowRequest(c) \/ RejectBody(c) \/ LockTenant(c)
             \/ Sync(c) \/ SyncFails(c)
             \/ \E n \in Length : ReadBody(c, n)
             \/ \E n \in 0..MaxTenantBytes : Write(c, n)
      PROVE  AuthInv'
  <2>1. UNCHANGED <<clients, lastFailure, peer>>
    BY <1>1, Zenon
       DEF Arrive, RejectHeaders, AllowRequest, RejectBody, LockTenant, Sync, SyncFails, ReadBody,
           Write
  <2>2. \A b \in Conn : pc'[b] = "failed" => pc[b] = "failed"
    BY <1>1
       DEF Arrive, RejectHeaders, AllowRequest, RejectBody, LockTenant, Sync, SyncFails, ReadBody,
           Write, Respond, Base, TypeOK
  <2> QED
    BY <2>1, <2>2, AuthQuiet, Zenon
<1>2. ASSUME NEW last, NEW scanned, Sweep(last, scanned) PROVE AuthInv'
  BY <1>2, AuthQuiet, Zenon DEF Sweep
<1>3. ASSUME Tick \/ UNCHANGED vars PROVE AuthInv'
  BY <1>3, AuthQuiet, Zenon DEF Tick, vars
<1>4. ASSUME Crash PROVE AuthInv'
  <2>1. /\ \A a \in Address : clients'[a] = NoEntry
        /\ lastFailure' \in [Address -> {NoWindow} \cup 0..MaxTime]
        /\ \A c \in Conn : pc'[c] = "idle"
    BY <1>4, Zenon DEF Crash
  <2>2. Entries' = {}
    BY <2>1, Zenon DEF Entries
  <2>3. ASSUME NEW a \in Address
        PROVE  clients'[a].count + Cardinality(Failing(a)') < MaxAuthFailures + Cardinality(From(a)')
    <3>1. Failing(a)' = {} /\ From(a)' = From(a)
      BY <1>4, <2>1, Zenon DEF Failing, From, Crash
    <3>2. clients'[a].count = 0 /\ Cardinality(Failing(a)') = 0
      BY <2>1, <3>1, FS_EmptySet DEF NoEntry
    <3>3. Cardinality(From(a)) \in Nat
      BY RequestsFinite, Zenon
    <3> QED
      BY <3>1, <3>2, <3>3
  <2> QED
    BY <2>1, <2>2, <2>3, FS_EmptySet DEF AuthInv
<1> QED
  BY <1>1, <1>2, <1>3, <1>4, AuthenticateAuth, RecordFailureAuth, Zenon DEF Next, StorageStep

-----------------------------------------------------------------------------
LEMMA StepInv == IInv /\ [Next]_vars => IInv'
  BY BaseStep, StorageKept, AckedKept, AuthKept, Zenon DEF IInv

LEMMA Invariance == Spec => []IInv
  BY InitInv, StepInv, PTL DEF Spec

\* However uploads, short writes, failing syncs, sweeps that stop half-way and
\* crashes follow each other, the usage handleLogs goes by is the size of the
\* tenant's directory whenever it is trusted, and the directory stays within the
\* quota.
THEOREM QuotaAlwaysSound == Spec => []QuotaSound
<1>1. IInv => QuotaSound
  BY Zenon DEF IInv, Base, StorageInv, QuotaSound
<1> QED
  BY <1>1, Invariance, PTL

\* What handleLogs answered with 200 is in its file until it expires: a crash of
\* the machine loses only what was not synced, and nothing of that was answered.
THEOREM AcknowledgedSurvives == Spec => []AckedDurable
<1>1. IInv => AckedDurable
  BY DEF IInv, Base, TypeOK, AckedInv, AckedDurable
<1> QED
  BY <1>1, Invariance, PTL

\* cleanupExpiredLogs deletes no acknowledged line younger than the retention,
\* not even one appended late to the file of an earlier day.
THEOREM NothingYoungDeleted == Spec => RetentionHonoured
<1>1. ASSUME IInv, [Next]_vars
      PROVE  [\A a \in acked : a \notin acked' => a.at < clock - Retention]_vars
  <2>1. SUFFICES ASSUME NEW a \in acked, a \notin acked' PROVE a.at < clock - Retention
    BY Zenon
  <2>2. PICK last, scanned : Sweep(last, scanned)
    BY <1>1, <2>1, Zenon
       DEF Next, StorageStep, Tick, Arrive, Authenticate, RecordFailure, RejectHeaders,
           AllowRequest, ReadBody, RejectBody, LockTenant, Write, Sync, SyncFails, Crash, vars
  <2>3. Expired(a.day)
    BY <2>1, <2>2, Zenon DEF Sweep
  <2>4. a.day \in Day /\ a.at \in Nat /\ a.at <= mtime[a.day]
    BY <1>1, Zenon DEF IInv, AckedInv
  <2>5. mtime[a.day] \in Nat /\ clock \in Nat /\ Retention \in Nat
    BY <1>1, <2>4, ReceiverAssumption DEF IInv, Base, TypeOK
  <2> QED
    BY <2>3, <2>4, <2>5 DEF Expired
<1> QED
  BY <1>1, Invariance, PTL DEF Spec, RetentionHonoured

\* The limiter's two critical sections keep its promises: the table keeps its
\* bound, an address has at most as many failures counted beyond the limit as it
\* has requests, and blocked refuses a request only within one window of a
\* failure from its address.
THEOREM LimiterSound == Spec => LockoutSound
<1>1. IInv => GuessesBounded
  <2> SUFFICES ASSUME IInv PROVE GuessesBounded
    BY Zenon
  <2>1. ASSUME NEW a \in Address
        PROVE  clients[a].count < MaxAuthFailures + Cardinality({c \in Conn : peer[c].ip = a})
    <3>1. clients[a].count + Cardinality(Failing(a)) < MaxAuthFailures + Cardinality(From(a))
      BY Zenon DEF IInv, AuthInv
    <3>2. /\ Cardinality(Failing(a)) \in Nat /\ Cardinality(From(a)) \in Nat
          /\ clients[a].count \in Nat
      BY RequestsFinite, Zenon DEF IInv, Base, TypeOK
    <3>3. clients[a].count < MaxAuthFailures + Cardinality(From(a))
      BY <3>1, <3>2, ReceiverAssumption
    <3> QED
      BY <3>3, Zenon DEF From
  <2> QED
    BY <2>1, Zenon DEF IInv, AuthInv, GuessesBounded
<1>2. ASSUME IInv, [Next]_vars, vars' # vars PROVE LockoutEnds
  <2>1. SUFFICES ASSUME NEW c \in Conn, pc[c] = "auth", pc'[c] = "idle", crashes' = crashes
                 PROVE  /\ lastFailure[peer[c].ip] # NoWindow
                        /\ now[c] - lastFailure[peer[c].ip] < AuthFailureWindow
    BY Zenon DEF LockoutEnds
  <2>2. Authenticate(c)
    <3>1. ~Crash
      BY <1>2, <2>1 DEF Crash, IInv, Base, TypeOK
    <3>2. ~Tick /\ \A last, scanned : ~Sweep(last, scanned)
      BY <2>1, Zenon DEF Tick, Sweep, local
    <3>3. ASSUME NEW b \in Conn,
                 \/ Arrive(b) \/ RecordFailure(b) \/ RejectHeaders(b) \/ AllowRequest(b)
                 \/ RejectBody(b) \/ StorageStep(b) \/ \E n \in Length : ReadBody(b, n)
          PROVE  FALSE
      BY <1>2, <2>1, <3>3, Zenon
         DEF Arrive, RecordFailure, RejectHeaders, AllowRequest, RejectBody, StorageStep,
             LockTenant, Write, Sync, SyncFails, ReadBody, Respond, IInv, Base, TypeOK
    <3>4. ASSUME NEW b \in Conn, Authenticate(b), b # c PROVE FALSE
      BY <1>2, <2>1, <3>4, Zenon DEF Authenticate, Respond, IInv, Base, TypeOK
    <3> QED
      BY <1>2, <3>1, <3>2, <3>3, <3>4, Zenon DEF Next
  <2> DEFINE p == peer[c].ip
  <2>3. /\ p \in Address /\ clients[p].start \in Nat /\ clients[p].count \in Nat /\ now[c] \in Nat
        /\ lastFailure[p] \in Int
    BY <1>2, IpIsAddress DEF IInv, Base, TypeOK, AuthInv, NoWindow
  <2>4. EntryAfterLook(clients[p], now[c]).count >= MaxAuthFailures
    BY <1>2, <2>1, <2>2, Zenon DEF Authenticate, IInv, Base, TypeOK
  <2>5. NoEntry.count = 0
    BY Zenon DEF NoEntry
  <2>6. ~Stale(clients[p], now[c]) /\ clients[p] # NoEntry
    BY <2>4, <2>5, ReceiverAssumption DEF EntryAfterLook
  <2>7. clients[p].start <= lastFailure[p]
    BY <1>2, <2>3, <2>6, Zenon DEF IInv, AuthInv
  <2> HIDE DEF p
  <2>8. lastFailure[p] # NoWindow /\ now[c] - lastFailure[p] < AuthFailureWindow
    BY <2>3, <2>6, <2>7, ReceiverAssumption DEF Stale, NoWindow
  <2> QED
    BY <2>8, Zenon DEF p
<1>3. IInv /\ IInv' /\ [Next]_vars => [GuessesBounded' /\ LockoutEnds]_vars
  <2>1. IInv' => GuessesBounded'
    BY <1>1, PTL
  <2> QED
    BY <1>2, <2>1, Zenon
<1> QED
  BY <1>3, Invariance, PTL DEF Spec, LockoutSound
=============================================================================
