------------------------------ MODULE JWKSCache ------------------------------
(***************************************************************************)
(* JWT validation against the key sets (JWKS) that identity providers      *)
(* publish: validateJWT, getJWKSEntry, the cache of key sets and its       *)
(* refresh locks (internal/waf/middleware.go).                             *)
(*                                                                         *)
(* Requests validate one token each.  They share the cache, read without a *)
(* lock and written under jwksCacheMu, and one reference-counted refresh   *)
(* lock per endpoint, kept in jwksLocks.  Meanwhile the issuers publish    *)
(* new documents, answers are under way, fetches fail and time passes.     *)
(*                                                                         *)
(* A key is its type and material.  A token verifies under a key when the  *)
(* key signed it and its claims hold.  An entry or lock is named after the *)
(* request that made it: the code compares entries by pointer.             *)
(***************************************************************************)
EXTENDS Integers, Sequences, FiniteSets, Functions

CONSTANTS
    Request,       \* the requests, each validated once
    Endpoint,      \* JWKS endpoints
    Document,      \* the documents an issuer may publish: [keys, maxAge],
                   \* keys a sequence of [kid, type, material]
    First,         \* the documents published at the start
    Ask,           \* per request: the records [endpoint, token] it may have
    None,          \* no kid, token, entry, lock or request
    MaxKeys,       \* maxJWKSKeys
    MaxEntries,    \* maxJWKSCacheEntries
    DefaultTTL,    \* time to live without a max-age
    MaxTTL,        \* maxJWKSCacheTTL
    RefreshDelay,  \* minJWKSForcedRefreshDelay
    FetchTimeout,  \* timeout of jwksClient
    MaxChanges,    \* bound: documents published after the start
    MaxTime        \* bound of the clock

ASSUME JWKSAssumption ==
    /\ IsFiniteSet(Request)
    /\ \A r \in Request : \A ask \in Ask[r] : ask # None /\ ask.endpoint \in Endpoint
    /\ First \subseteq Document
    /\ \A d \in Document : d.maxAge \in Nat
    /\ MaxKeys \in Nat /\ MaxEntries \in Nat \ {0}
    /\ DefaultTTL \in Nat \ {0} /\ MaxTTL \in Nat \ {0}
    /\ RefreshDelay \in Nat \ {0} /\ FetchTimeout \in Nat \ {0}
    /\ MaxChanges \in Nat /\ MaxTime \in Nat
    /\ None \notin Request \cup Endpoint

VARIABLES
    now,
    served,    \* per endpoint: the document the issuer serves
    changes,   \* documents published so far
    cache,     \* jwksCache: endpoint -> entry or None
    cacheMu,   \* holder of jwksCacheMu
    locks,     \* jwksLocks: endpoint -> lock or None
    lock,      \* per lock: its reference count and the holder of its mutex
    req        \* per request: pc; ask; previous and entry of getJWKSEntry;
               \* lock: the refresh lock; began: its `now` at the fetch;
               \* history: since, when it arrived; live, whether its token
               \* verified under the document served at every moment since

vars == <<now, served, changes, cache, cacheMu, locks, lock, req>>

Idle == [pc |-> "idle", ask |-> None, previous |-> None, entry |-> None,
         lock |-> None, began |-> 0, since |-> 0, live |-> FALSE]

Decided(verdict) == [Idle EXCEPT !.pc = verdict]

Init ==
    /\ now = 0
    /\ served \in [Endpoint -> First]
    /\ changes = 0
    /\ cache = [e \in Endpoint |-> None]
    /\ cacheMu = None
    /\ locks = [e \in Endpoint |-> None]
    /\ lock = [r \in Request |-> [refs |-> 0, holder |-> None]]
    /\ req = [r \in Request |-> Idle]

-----------------------------------------------------------------------------
(* Parsing a document. *)

\* parseJWK: the key types it supports.
Parses(jwk) == jwk.type \in {"RSA", "EC", "OKP"}

\* The positions whose key enters parsedKeys.
Parsed(doc) == {i \in DOMAIN doc.keys :
                  doc.keys[i].kid # None /\ Parses(doc.keys[i])}

\* A kid that is in parsedKeys already when it occurs again.
DuplicateKid(doc) ==
    \E i \in Parsed(doc), j \in DOMAIN doc.keys :
        i < j /\ doc.keys[i].kid = doc.keys[j].kid

Acceptable(doc) ==
    /\ Len(doc.keys) <= MaxKeys
    /\ ~DuplicateKid(doc)
    /\ Parsed(doc) # {}

\* parsedKeys of an acceptable document: kid -> key.
KeySet(doc) ==
    [kid \in {doc.keys[i].kid : i \in Parsed(doc)} |->
        LET jwk == doc.keys[CHOOSE i \in Parsed(doc) : doc.keys[i].kid = kid]
        IN  [type |-> jwk.type, material |-> jwk.material]]

MaxAge(doc) == IF doc.maxAge > 0 THEN doc.maxAge ELSE DefaultTTL

TTL(doc) == IF MaxAge(doc) > MaxTTL THEN MaxTTL ELSE MaxAge(doc)

-----------------------------------------------------------------------------
(* Verifying a token. *)

\* jwtValidMethods, by the family of the algorithm.
ValidMethods == {"RSA", "EC", "OKP"}

KeyMatchesMethod(method, key) == method = key.type

\* What jwt.Parse decides once the key function has returned the key.
Verifies(token, key) ==
    /\ KeyMatchesMethod(token.method, key)
    /\ token.signer = key
    /\ token.claims

VerifiesUnder(token, doc) ==
    /\ token # None
    /\ Acceptable(doc)
    /\ token.method \in ValidMethods
    /\ token.kid \in DOMAIN KeySet(doc)
    /\ Verifies(token, KeySet(doc)[token.kid])

-----------------------------------------------------------------------------
(* getJWKSEntry. *)

Never == -RefreshDelay   \* the zero lastForcedRefresh: before any delay

\* jwksCacheEntry: the keys of a document that parsed, when they expire, when a
\* refresh was last forced; by and asOf are history, see NewEntry.
Entry ==
    [keys : {KeySet(doc) : doc \in {d \in Document : Acceptable(d)}},
     expiresAt : 1..(MaxTime + MaxTTL),
     forced : (0..MaxTime) \cup {Never},
     by : Request \X BOOLEAN,
     asOf : 0..MaxTime]

ASSUME NoneAssumption == None \notin Entry

Endp(r) == req[r].ask.endpoint

\* (Mutant: an entry can be used at the moment it expires.)
FreshLate(entry) == now <= entry.expiresAt

Fresh(entry) == now < entry.expiresAt

\* The cases of both lookups that return the cached entry.
Usable(entry, previous) ==
    /\ entry # None
    /\ Fresh(entry)
    /\ previous = None \/ entry # previous

\* The third case of the lookup under the lock.
Throttled(entry, previous) ==
    /\ entry # None
    /\ previous # None
    /\ now - entry.forced < RefreshDelay

\* (Mutant: the lookup is not repeated once the lock is held.)
NotRepeated(entry, previous) == Throttled(entry, previous)

UsableLocked(entry, previous) ==
    Usable(entry, previous) \/ Throttled(entry, previous)

Arrive(r) ==
    /\ req[r].pc = "idle"
    /\ \E ask \in Ask[r] :
          req' = [req EXCEPT ![r] =
                    IF ask.token = None
                    THEN Decided("unauthorized")
                    ELSE [Idle EXCEPT !.pc = "lookup", !.ask = ask, !.since = now,
                             !.live = VerifiesUnder(ask.token,
                                                    served[ask.endpoint])]]
    /\ UNCHANGED <<now, served, changes, cache, cacheMu, locks, lock>>

Lookup(r) ==
    /\ req[r].pc = "lookup"
    /\ LET cached == cache[Endp(r)]
       IN  req' = [req EXCEPT ![r] =
                     IF Usable(cached, req[r].previous)
                     THEN [@ EXCEPT !.entry = cached, !.pc = "verify"]
                     ELSE [@ EXCEPT !.entry = None, !.pc = "acquire"]]
    /\ UNCHANGED <<now, served, changes, cache, cacheMu, locks, lock>>

\* (Mutant: a lock that is there already is not shared.)
OwnLock(r) == r

\* The lock the request is given: the endpoint's, or a new one.
LockFor(r) == IF locks[Endp(r)] = None THEN r ELSE locks[Endp(r)]

AcquireLock(r) ==
    /\ req[r].pc = "acquire"
    /\ locks' = [locks EXCEPT ![Endp(r)] = LockFor(r)]
    /\ lock' = [lock EXCEPT ![LockFor(r)].refs = @ + 1]
    /\ req' = [req EXCEPT ![r].pc = "lock", ![r].lock = LockFor(r)]
    /\ UNCHANGED <<now, served, changes, cache, cacheMu>>

LookupLocked(r) ==
    /\ req[r].pc = "lock"
    /\ lock[req[r].lock].holder = None
    /\ lock' = [lock EXCEPT ![req[r].lock].holder = r]
    /\ LET cached == cache[Endp(r)]
       IN  req' = [req EXCEPT ![r] =
                     IF UsableLocked(cached, req[r].previous)
                     THEN [@ EXCEPT !.entry = cached, !.pc = "unlock"]
                     ELSE [@ EXCEPT !.pc = "fetch", !.began = now]]
    /\ UNCHANGED <<now, served, changes, cache, cacheMu, locks>>

\* (Mutant: a failed fetch returns without unlocking.)
StaysLocked == "release"

AfterFailure == "unlock"

\* A transport error, a status other than 200, a body that is too large or
\* no JSON, the timeout, or the client has gone.
FetchFails(r) ==
    /\ req[r].pc = "fetch"
    /\ req' = [req EXCEPT ![r].pc = AfterFailure, ![r].began = 0]
    /\ UNCHANGED <<now, served, changes, cache, cacheMu, locks, lock>>

ForcedAt(r) == IF req[r].previous # None THEN req[r].began ELSE Never

NewEntry(r) ==
    [keys |-> KeySet(served[Endp(r)]),
     expiresAt |-> req[r].began + TTL(served[Endp(r)]),
     forced |-> ForcedAt(r),
     by |-> <<r, req[r].previous # None>>,
     asOf |-> now]    \* history: when the issuer answered

\* The issuer answers with the document it serves now; it is parsed.
Answer(r) ==
    /\ req[r].pc = "fetch"
    /\ req' = [req EXCEPT ![r] =
                 IF Acceptable(served[Endp(r)])
                 THEN [@ EXCEPT !.entry = NewEntry(r), !.pc = "store"]
                 ELSE [@ EXCEPT !.pc = AfterFailure, !.began = 0]]
    /\ UNCHANGED <<now, served, changes, cache, cacheMu, locks, lock>>

StoreEntry(r) ==
    /\ req[r].pc = "store"
    /\ cacheMu = None
    /\ cacheMu' = r
    /\ cache' = [cache EXCEPT ![Endp(r)] = req[r].entry]
    /\ req' = [req EXCEPT ![r].pc = "evict", ![r].began = 0]
    /\ UNCHANGED <<now, served, changes, locks, lock>>

\* The other endpoints' entries that have expired.
Stale(e) == {o \in Endpoint \ {e} : cache[o] # None /\ ~Fresh(cache[o])}

Over(n) == n > MaxEntries

\* The entry to drop when the cache is over its limit: one of those that
\* expire first, among equals the one Range meets first.
Dropped(e) ==
    LET kept   == {o \in Endpoint : cache[o] # None} \ Stale(e)
        others == kept \ {e}
    IN  IF Over(Cardinality(kept)) /\ others # {}
        THEN {o \in others :
                \A p \in others : cache[o].expiresAt <= cache[p].expiresAt}
        ELSE {None}

EvictEntries(r) ==
    /\ req[r].pc = "evict"
    /\ \E victim \in Dropped(Endp(r)) :
          cache' = [e \in Endpoint |->
                      IF e \in Stale(Endp(r)) \cup {victim} THEN None ELSE cache[e]]
    /\ cacheMu' = None
    /\ req' = [req EXCEPT ![r].pc = "unlock"]
    /\ UNCHANGED <<now, served, changes, locks, lock>>

Unlock(r) ==
    /\ req[r].pc = "unlock"
    /\ lock' = [lock EXCEPT ![req[r].lock].holder = None]
    /\ req' = [req EXCEPT ![r].pc = "release"]
    /\ UNCHANGED <<now, served, changes, cache, cacheMu, locks>>

\* (Mutant: the last reference does not drop the lock.)
NoReference(refs) == FALSE

LastReference(refs) == refs = 0

\* releaseJWKSRefreshLock; without an entry getJWKSEntry returns an error
\* and validateJWT answers 503.
ReleaseLock(r) ==
    /\ req[r].pc = "release"
    /\ LET refs == lock[req[r].lock].refs - 1
       IN  /\ lock' = [lock EXCEPT ![req[r].lock].refs = refs]
           /\ locks' = IF LastReference(refs)
                       THEN [locks EXCEPT ![Endp(r)] = None] ELSE locks
    /\ req' = [req EXCEPT ![r] = IF @.entry = None
                                 THEN Decided("unavailable")
                                 ELSE [@ EXCEPT !.lock = None, !.pc = "verify"]]
    /\ UNCHANGED <<now, served, changes, cache, cacheMu>>

-----------------------------------------------------------------------------
(* jwt.Parse with the key function of validateJWT. *)

\* (Mutant: an unknown kid is refused without a refresh.)
NoRefresh(r) == FALSE

\* The key function forces a refresh: once, for a kid it does not know.
RefreshForced(r) ==
    LET token == req[r].ask.token
    IN  /\ req[r].previous = None
        /\ token.method \in ValidMethods
        /\ token.kid # None
        /\ token.kid \notin DOMAIN req[r].entry.keys

Verdict(r) ==
    LET token == req[r].ask.token
        keys  == req[r].entry.keys
    IN  IF /\ token.method \in ValidMethods
           /\ token.kid \in DOMAIN keys
           /\ Verifies(token, keys[token.kid])
        THEN "accepted" ELSE "unauthorized"

Verify(r) ==
    /\ req[r].pc = "verify"
    /\ req' = [req EXCEPT ![r] =
                 IF RefreshForced(r)
                 THEN [@ EXCEPT !.previous = req[r].entry, !.pc = "lookup"]
                 ELSE Decided(Verdict(r))]
    /\ UNCHANGED <<now, served, changes, cache, cacheMu, locks, lock>>

-----------------------------------------------------------------------------
(* The issuers and the clock. *)

Publish(e, doc) ==
    /\ changes < MaxChanges
    /\ doc # served[e]
    /\ changes' = changes + 1
    /\ served' = [served EXCEPT ![e] = doc]
    /\ req' = [r \in Request |->
                 IF req[r].ask # None /\ Endp(r) = e
                 THEN [req[r] EXCEPT !.live =
                         @ /\ VerifiesUnder(req[r].ask.token, doc)]
                 ELSE req[r]]
    /\ UNCHANGED <<now, cache, cacheMu, locks, lock>>

\* A fetch, with the storing of its result, takes at most FetchTimeout.
Tick ==
    /\ now < MaxTime
    /\ \A r \in Request : req[r].pc \in {"fetch", "store"}
                             => now - req[r].began < FetchTimeout
    /\ now' = now + 1
    /\ UNCHANGED <<served, changes, cache, cacheMu, locks, lock, req>>

Validation(r) ==
    \/ Lookup(r) \/ AcquireLock(r) \/ LookupLocked(r)
    \/ FetchFails(r) \/ Answer(r) \/ StoreEntry(r) \/ EvictEntries(r)
    \/ Unlock(r) \/ ReleaseLock(r) \/ Verify(r)

Next ==
    \/ \E r \in Request : Arrive(r) \/ Validation(r)
    \/ \E e \in Endpoint, doc \in Document : Publish(e, doc)
    \/ Tick

Spec == Init /\ [][Next]_vars

\* The scheduler runs every goroutine; sync.Mutex hands its lock on.
FairSpec == Spec /\ \A r \in Request : WF_vars(Validation(r))
-----------------------------------------------------------------------------
(* Properties. *)

\* The state of the validations, the cache and the lock table keeps its type;
\* every cached entry holds the keys of a document that parsed.
TypeOK ==
    /\ now \in 0..MaxTime /\ changes \in 0..MaxChanges
    /\ served \in [Endpoint -> Document]
    /\ cacheMu \in Request \cup {None}
    /\ locks \in [Endpoint -> Request \cup {None}]
    /\ lock \in [Request -> [refs : 0..Cardinality(Request),
                             holder : Request \cup {None}]]
    /\ cache \in [Endpoint -> Entry \cup {None}]
    /\ \A r \in Request :
          /\ req[r].pc \in {"idle", "lookup", "acquire", "lock", "fetch", "store",
                            "evict", "unlock", "release", "verify",
                            "accepted", "unauthorized", "unavailable"}
          /\ req[r].lock \in Request \cup {None}
          /\ req[r].entry \in Entry \cup {None}
          /\ req[r].previous \in Entry \cup {None}
          /\ req[r].pc \in {"store", "evict", "verify"} => req[r].entry # None

Refreshing(r) == req[r].pc \in {"fetch", "store", "evict"}

\* The refresh lock of an endpoint is made on demand, counted and dropped with
\* its last reference; whatever the order of arrivals and releases, no two
\* requests refresh the same endpoint at a time (the coalesced refresh of
\* docs/configuration.md).
RefreshesApart ==
    \A r, q \in Request :
        Refreshing(r) /\ Refreshing(q) /\ Endp(r) = Endp(q) => r = q

\* acquireJWKSRefreshLock and releaseJWKSRefreshLock count exactly the requests
\* that hold a reference, and jwksLocks keeps a lock just as long as there is one:
\* the table does not grow with the endpoints ever used.
LockTableExact ==
    /\ \A l \in Request :
          lock[l].refs = Cardinality({r \in Request : req[r].lock = l})
    /\ \A e \in Endpoint :
          {r \in Request : req[r].lock # None /\ Endp(r) = e} # {}
             <=> locks[e] # None

\* While a request fetches a key set, there was no other way when it began: no
\* fresh key set was in the cache, or, to look for an unknown kid, none but the one
\* that lacks it, and no refresh noted there was forced less than RefreshDelay
\* before.  Requests that waited for the lock use the result of the one before
\* them, and unknown kids do not make the proxy hammer the issuer.
NoNeedlessFetch ==
    \A r \in Request :
        LET cached == cache[Endp(r)]
            forced == req[r].previous # None
        IN  req[r].pc = "fetch" /\ cached # None =>
                /\ \/ req[r].began >= cached.expiresAt
                   \/ forced /\ cached = req[r].previous
                /\ forced => req[r].began - cached.forced >= RefreshDelay

\* storeJWKSCacheEntry leaves at most MaxEntries key sets behind; only while it
\* runs there can be one more.
CacheBounded ==
    Cardinality({e \in Endpoint : cache[e] # None})
        <= MaxEntries + (IF cacheMu = None THEN 0 ELSE 1)

\* Refreshes of an endpoint are coalesced by a lock that exists just as long as
\* it is used, and neither the locks nor the cache grow with the endpoints ever
\* asked for.
OneRefreshPerEndpoint == TypeOK /\ RefreshesApart /\ LockTableExact /\ CacheBounded

Decides(r, verdict) == req[r].pc = "verify" /\ req'[r].pc = verdict

\* A token is accepted only under a key set that had not expired when the request
\* arrived, or that the issuer sent at most FetchTimeout before: a key that the
\* issuer withdraws is no longer accepted after its time to live.  (The second
\* case is the throttled lookup, which does not look at expiresAt.)
AcceptedKeysFresh ==
    [][\A r \in Request : Decides(r, "accepted") =>
          \/ req[r].since < req[r].entry.expiresAt
          \/ req[r].since - req[r].entry.asOf <= FetchTimeout]_vars

\* A request whose token verified under the issuer's document all along is answered
\* 401 only because another request has forced a refresh less than RefreshDelay
\* before it arrived, or had one under way then, that missed the key; or because
\* the issuer has reused a kid that is cached with another key.
RotationNoticed ==
    [][\A r \in Request : Decides(r, "unauthorized") /\ req[r].live =>
          \/ req[r].ask.token.kid \in DOMAIN req[r].entry.keys
          \/ /\ req[r].entry.by[1] # r
             /\ \/ req[r].since - req[r].entry.forced < RefreshDelay
                \/ req[r].since - req[r].entry.forced <= FetchTimeout]_vars

\* Every request is answered: whichever way a fetch ends, its lock is handed on.
Answered ==
    \A r \in Request :
        req[r].pc = "lookup" ~> req[r].pc \in {"accepted", "unauthorized",
                                               "unavailable"}
=============================================================================
