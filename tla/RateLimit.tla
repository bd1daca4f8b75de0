------------------------------ MODULE RateLimit ------------------------------
(***************************************************************************)
(* Per-tenant, per-client rate limiting across a cluster:                  *)
(* allowRateLimitedRequest (internal/waf/middleware.go) and the RPC        *)
(* coordinator it asks first (internal/waf/coordinator.go).                *)
(*                                                                         *)
(* One node is the leader and holds the shared table of token buckets.     *)
(* The followers ask it over one persistent connection each, guarded by    *)
(* clientMu, and fall back to a local table when the call fails.  The      *)
(* leader's accept loop, the serving goroutines, Close on either side and  *)
(* the requests interleave.                                                *)
(*                                                                         *)
(* A request dials at most once, so a connection is named after the        *)
(* request that dialled it.  Time is a bounded clock.  A bucket holds      *)
(* fractions of a token, as rate.Limiter does: a request costs Token       *)
(* units, a bucket gains policy.rate units per tick up to policy.burst     *)
(* units.  The two-second deadline of a dial or a call may expire at any   *)
(* moment.                                                                 *)
(***************************************************************************)
EXTENDS Integers, Sequences, FiniteSets, Functions

CONSTANTS
    Request,          \* the requests served, each once
    Leader,           \* the node with role "leader"
    Follower,         \* the nodes with role "follower"
    Key,              \* rate-limit keys: tenant and client
    Policy,           \* records [rate, burst], in units
    Token,            \* the units a request costs
    Origin,           \* per request: the records [node, key, policy] it may have
    None,             \* no request, connection, entry or bucket
    MaxEntries,       \* maxEntries of the leader's table
    EntryTTL,         \* entryTTL of the leader's table
    CleanupInterval,  \* time between two sweeps of it
    MaxConnections,   \* capacity of connectionSlots
    IdleTimeout,      \* defaultCoordinatorIdleTimeout
    LocalEntries,     \* capacity of the local LRU cache
    LocalTTL,         \* its time to live
    MaxTime           \* bound of the clock

ASSUME RateLimitAssumption ==
    /\ \A p \in Policy : p.rate \in Nat \ {0} /\ p.burst \in Nat \ {0}
    /\ Token \in Nat \ {0} /\ \A p \in Policy : p.burst >= Token
    /\ MaxEntries \in Nat \ {0} /\ MaxConnections \in Nat \ {0}
    /\ LocalEntries \in Nat \ {0}
    /\ EntryTTL \in Nat /\ CleanupInterval \in Nat \ {0}
    /\ IdleTimeout \in Nat \ {0} /\ LocalTTL \in Nat /\ MaxTime \in Nat
    /\ Leader \notin Follower
    /\ \A r \in Request : Origin[r] \subseteq
          [node : Follower \cup {Leader}, key : Key, policy : Policy]
    /\ None \notin Request /\ None \notin Nat
    /\ \A p \in Policy : \A t \in 0..p.burst :
          /\ [policy |-> p, tokens |-> t] # None
          /\ \A s \in 0..MaxTime : [policy |-> p, tokens |-> t, lastSeen |-> s] # None

VARIABLES
    now,
    req,          \* per request: pc; args: its node, key and policy; call and
                  \* via: the state and connection of its call; held: the
                  \* local bucket Get has found
    limiters,     \* leader: the table, Key -> entry or None
    nextCleanup,  \* leader: time of the next sweep (0: IsZero)
    budget,       \* history: an ideal bucket per key, see NoExtraTokens
    conn,         \* per connection: its state at the leader; read: when the
                  \* leader last read from it; shut: an end has closed it
    server,       \* leader: tokens in connectionSlots; whether the accept loop
                  \* has returned; Close, and the connections it has copied
    link,         \* per follower: holder of clientMu, client, clientLastUsed
                  \* and clientClosed
    local,        \* per node: the LRU cache, most recent first
    buckets       \* every local bucket made, in order of creation

shared == <<limiters, nextCleanup, budget>>
cache == <<local, buckets>>
vars == <<now, req, shared, conn, server, link, cache>>

Node == Follower \cup {Leader}

Least(a, b) == IF a < b THEN a ELSE b

Init ==
    /\ now = 0
    /\ req = [r \in Request |-> [pc |-> "idle", args |-> None, call |-> "none",
                                 via |-> None, held |-> None]]
    /\ limiters = [k \in Key |-> None]
    /\ nextCleanup = 0
    /\ budget = [k \in Key |-> None]
    /\ conn = [c \in Request |-> [state |-> "none", read |-> 0, shut |-> FALSE]]
    /\ server = [slots |-> 0, stopped |-> FALSE, close |-> "no", copied |-> {}]
    /\ link = [f \in Follower |->
                 [mu |-> None, client |-> None, used |-> 0, closed |-> FALSE]]
    /\ local = [n \in Node |-> <<>>]
    /\ buckets = <<>>

-----------------------------------------------------------------------------
(* The leader's table: CheckLimit, under c.mu. *)

\* (Mutant: an entry expires one tick early.)
ExpiredEarly(entry) == now - entry.lastSeen >= EntryTTL

Expired(entry) == now - entry.lastSeen > EntryTTL

SweepDue == nextCleanup = 0 \/ now >= nextCleanup

Swept ==
    [k \in Key |-> IF SweepDue /\ limiters[k] # None /\ Expired(limiters[k])
                   THEN None ELSE limiters[k]]

Entries(table) == {k \in Key : table[k] # None}

TableFull(table) == Cardinality(Entries(table)) >= MaxEntries

Oldest(table) ==
    {k \in Entries(table) :
        \A j \in Entries(table) : table[k].lastSeen <= table[j].lastSeen}

\* The keys that may make room for key k: none, or one of the oldest (the
\* order of Go's map iteration decides among equals).
Victims(table, k) ==
    IF table[k] = None /\ TableFull(table) THEN Oldest(table) ELSE {None}

FreshEntry(p) == [policy |-> p, tokens |-> p.burst, lastSeen |-> now]

EntryFor(table, k, p) ==
    IF table[k] = None \/ table[k].policy # p
    THEN FreshEntry(p)
    ELSE [table[k] EXCEPT !.lastSeen = now]

\* What the ideal bucket of key k holds when policy p asks: a fresh bucket
\* the first time, after an eviction and after a change of policy, else what
\* is left; expiry does not refill it.
Owed(k, p) ==
    IF budget[k] = None \/ budget[k].policy # p
    THEN [policy |-> p, tokens |-> p.burst]
    ELSE budget[k]

Allowed(k, p) == EntryFor(Swept, k, p).tokens >= Token

CheckLimit(k, p) ==
    LET entry == EntryFor(Swept, k, p)
        cost  == IF entry.tokens >= Token THEN Token ELSE 0
    IN  /\ \E victim \in Victims(Swept, k) :
              /\ limiters' = [j \in Key |->
                    IF j = k THEN [entry EXCEPT !.tokens = @ - cost]
                    ELSE IF j = victim THEN None ELSE Swept[j]]
              /\ budget' = [j \in Key |->
                    IF j = k THEN [Owed(k, p) EXCEPT !.tokens = @ - cost]
                    ELSE IF j = victim THEN None ELSE budget[j]]
        /\ nextCleanup' = IF SweepDue THEN now + CleanupInterval
                          ELSE nextCleanup

-----------------------------------------------------------------------------
(* The leader's accept loop, serving goroutines and Close. *)

\* Connection c closed by one of its ends.
Shut(c) == [conn EXCEPT ![c].shut = TRUE]

Gone(c) == [conn EXCEPT ![c] = [state |-> "gone", read |-> 0, shut |-> TRUE]]

SlotFree == server.slots < MaxConnections

\* Accept hands over a connection; without a free slot it is closed.
Accept(c) ==
    /\ ~server.stopped /\ server.close # "done"
    /\ conn[c].state = "dialled" /\ \A d \in Request : conn[d].state # "slotted"
    /\ IF SlotFree
       THEN /\ server' = [server EXCEPT !.slots = @ + 1]
            /\ conn' = [conn EXCEPT ![c].state = "slotted"]
       ELSE conn' = Gone(c) /\ UNCHANGED server
    /\ UNCHANGED <<now, req, shared, link, cache>>

\* (Mutant: the loop does not look at serverClosed.)
NeverRefused == FALSE

Refused == server.close # "no"

\* The loop registers the connection and starts to serve it, or gives the
\* slot back and returns.
Register(c) ==
    /\ conn[c].state = "slotted"
    /\ IF Refused
       THEN /\ server' = [server EXCEPT !.slots = @ - 1, !.stopped = TRUE]
            /\ conn' = Gone(c)
       ELSE /\ conn' = [conn EXCEPT ![c].state = "serving", ![c].read = now]
            /\ UNCHANGED server
    /\ UNCHANGED <<now, req, shared, link, cache>>

\* ServeConn calls CheckLimit for a request it has read, in a goroutine of
\* its own, and waits for it before it returns.  The answer is lost on a
\* closed connection.
Serve(r) ==
    LET k == req[r].args.key
        p == req[r].args.policy
    IN  /\ req[r].call = "sent" /\ conn[req[r].via].state = "serving"
        /\ req' = [req EXCEPT ![r].call = IF Allowed(k, p) THEN "yes" ELSE "no"]
        /\ conn' = [conn EXCEPT ![req[r].via].read = now]
        /\ CheckLimit(k, p)
        /\ UNCHANGED <<now, server, link, cache>>

\* ServeConn returns: the connection is closed or was idle for too long.
Deregister(c) ==
    /\ conn[c].state = "serving"
    /\ conn[c].shut \/ now - conn[c].read >= IdleTimeout
    /\ conn' = [conn EXCEPT ![c].state = "leaving"]
    /\ UNCHANGED <<now, req, shared, server, link, cache>>

SlotsLeft == server.slots - 1

Release(c) ==
    /\ conn[c].state = "leaving"
    /\ server' = [server EXCEPT !.slots = SlotsLeft]
    /\ conn' = Gone(c)
    /\ UNCHANGED <<now, req, shared, link, cache>>

\* Close of the leader: under c.mu, mark it closed and copy the connections.
CloseLeader ==
    /\ server.close = "no"
    /\ server' = [server EXCEPT !.close = "begun",
                    !.copied = {c \in Request : conn[c].state = "serving"}]
    /\ UNCHANGED <<now, req, shared, conn, link, cache>>

\* Then, without the lock, close the listener and the copied connections.
\* Connections nobody has accepted are reset; the accept loop ends.
CloseSockets ==
    /\ server.close = "begun"
    /\ conn' = [c \in Request |->
                  IF conn[c].state = "dialled" THEN Gone(c)[c]
                  ELSE IF c \in server.copied THEN Shut(c)[c] ELSE conn[c]]
    /\ server' = [server EXCEPT !.close = "done", !.copied = {}]
    /\ UNCHANGED <<now, req, shared, link, cache>>

-----------------------------------------------------------------------------
(* A request: allowRateLimitedRequest and Allow. *)

Goto(r, l) == [req EXCEPT ![r].pc = l]
Answer(r, allowed) ==
    [req EXCEPT ![r].pc = IF allowed THEN "allowed" ELSE "denied",
                ![r].held = None]
Answered(r) == req[r].pc \in {"allowed", "denied"}

Arrive(r) ==
    /\ req[r].pc = "idle"
    /\ \E a \in Origin[r] :
          req' = [req EXCEPT ![r].args = a,
                    ![r].pc = IF a.node = Leader THEN "leader" ELSE "lock"]
    /\ UNCHANGED <<now, shared, conn, server, link, cache>>

\* role == "leader": CheckLimit is called directly.
AllowLeader(r) ==
    LET k == req[r].args.key
        p == req[r].args.policy
    IN  /\ req[r].pc = "leader"
        /\ CheckLimit(k, p)
        /\ req' = Answer(r, Allowed(k, p))
        /\ UNCHANGED <<now, conn, server, link, cache>>

MayUse(f) == ~link[f].closed

Usable(f) == link[f].client # None /\ now - link[f].used < IdleTimeout

\* clientMu.Lock: a closed coordinator fails.
LockClosed(r) ==
    LET f == req[r].args.node
    IN  /\ req[r].pc = "lock" /\ link[f].mu = None /\ ~MayUse(f)
        /\ req' = Goto(r, "local")
        /\ UNCHANGED <<now, shared, conn, server, link, cache>>

\* Without a client the request dials; one idle for too long is closed first.
LockDial(r) ==
    LET f == req[r].args.node
    IN  /\ req[r].pc = "lock" /\ link[f].mu = None /\ MayUse(f) /\ ~Usable(f)
        /\ link' = [link EXCEPT ![f].mu = r, ![f].client = None, ![f].used = 0]
        /\ conn' = [c \in Request |->
              IF c = r THEN IF server.close = "done" THEN Gone(c)[c]
                            ELSE [conn[c] EXCEPT !.state = "dialled"]
              ELSE IF c = link[f].client THEN Shut(c)[c] ELSE conn[c]]
        /\ req' = Goto(r, "dial")
        /\ UNCHANGED <<now, shared, server, cache>>

Send(r, c) ==
    req' = [req EXCEPT ![r].pc = "call", ![r].call = "sent", ![r].via = c]

LockSend(r) ==
    LET f == req[r].args.node
    IN  /\ req[r].pc = "lock" /\ link[f].mu = None /\ MayUse(f) /\ Usable(f)
        /\ link' = [link EXCEPT ![f].mu = r]
        /\ Send(r, link[f].client)
        /\ UNCHANGED <<now, shared, conn, server, cache>>

\* The TLS handshake ends once the leader serves the connection; the call
\* follows.
DialDone(r) ==
    LET f == req[r].args.node
    IN  /\ req[r].pc = "dial" /\ conn[r].state = "serving" /\ ~conn[r].shut
        /\ link' = [link EXCEPT ![f].client = r, ![f].used = now]
        /\ Send(r, r)
        /\ UNCHANGED <<now, shared, conn, server, cache>>

\* (Mutant: the failed dial returns without unlocking.)
StaysLocked(f) == link[f].mu

Unlocked(f) == None

\* The dial is refused or times out.
DialFails(r) ==
    LET f == req[r].args.node
    IN  /\ req[r].pc = "dial"
        /\ conn' = Shut(r)
        /\ link' = [link EXCEPT ![f].mu = Unlocked(f)]
        /\ req' = Goto(r, "local")
        /\ UNCHANGED <<now, shared, server, cache>>

\* The reply arrives in time.
Reply(r) ==
    LET f == req[r].args.node
    IN  /\ req[r].pc = "call" /\ req[r].call # "sent" /\ ~conn[req[r].via].shut
        /\ link' = [link EXCEPT ![f].mu = None, ![f].used = now]
        /\ req' = Answer(r, req[r].call = "yes")
        /\ UNCHANGED <<now, shared, conn, server, cache>>

\* (Mutant: the failed client is kept.)
ClientKept(f) == link[f].client

ClientAfterFailure(f) == None

\* The call fails or its deadline passes: the client is closed.
CallFails(r) ==
    LET f == req[r].args.node
    IN  /\ req[r].pc = "call"
        /\ conn' = Shut(link[f].client)
        /\ link' = [link EXCEPT ![f].mu = None, ![f].used = 0,
                                ![f].client = ClientAfterFailure(f)]
        /\ req' = Goto(r, "local")
        /\ UNCHANGED <<now, shared, server, cache>>

\* Close of a follower.
CloseFollower(f) ==
    /\ ~link[f].closed /\ link[f].mu = None
    /\ conn' = IF link[f].client = None THEN conn ELSE Shut(link[f].client)
    /\ link' = [link EXCEPT ![f].closed = TRUE, ![f].client = None,
                            ![f].used = 0]
    /\ UNCHANGED <<now, req, shared, server, cache>>

-----------------------------------------------------------------------------
(* The local fallback: an LRU cache of pointers to buckets. *)

\* The bucket Get returns for the key: None when there is no entry or it
\* has outlived the time to live, which Add starts and Get does not renew.
Get(n, k) ==
    LET found == {b \in Range(local[n]) :
                     buckets[b].key = k /\ now - buckets[b].addedAt <= LocalTTL}
    IN  IF found = {} THEN None ELSE CHOOSE b \in found : TRUE

\* A list without the one of its elements that is in gone, if there is one.
Without(list, gone) ==
    LET at == {i \in DOMAIN list : list[i] \in gone}
        x  == CHOOSE i \in at : TRUE
    IN  IF at = {} THEN list
        ELSE [i \in 1..(Len(list) - 1) |-> IF i < x THEN list[i] ELSE list[i + 1]]

\* b in front of the list, whose last element leaves a full cache.
PushFront(b, list) ==
    [i \in 1..Least(LocalEntries, Len(list) + 1) |->
        IF i = 1 THEN b ELSE list[i - 1]]

Promoted(n, b) ==
    IF b = None THEN local
    ELSE [local EXCEPT ![n] = PushFront(b, Without(@, {b}))]

Matches(b, p) == b # None /\ buckets[b].policy = p

\* limiter.Allow
Take(r, b) ==
    /\ req' = Answer(r, buckets[b].tokens >= Token)
    /\ buckets' = [buckets EXCEPT ![b].tokens =
                     IF @ >= Token THEN @ - Token ELSE @]

\* The first Get, without rateLimiterMu.
LocalGet(r) ==
    LET n == req[r].args.node
        b == Get(n, req[r].args.key)
    IN  /\ req[r].pc = "local"
        /\ local' = Promoted(n, b)
        /\ req' = IF Matches(b, req[r].args.policy)
                  THEN [req EXCEPT ![r].held = b, ![r].pc = "take"]
                  ELSE Goto(r, "locked")
        /\ UNCHANGED <<now, shared, conn, server, link, buckets>>

\* Allow on the bucket found, which may have been replaced since.
LocalTake(r) ==
    /\ req[r].pc = "take"
    /\ Take(r, req[r].held)
    /\ UNCHANGED <<now, shared, conn, server, link, local>>

\* A new bucket, its first token taken.
NewBucket(n, k, p) ==
    [node |-> n, key |-> k, policy |-> p, tokens |-> p.burst - Token,
     addedAt |-> now, evicted |-> FALSE]

\* (Mutant: the cache is not consulted again under rateLimiterMu.)
MissAlways(n, k, p) == TRUE

StillMissing(n, k, p) == ~Matches(Get(n, k), p)

\* Add replaces the key's entry, and the least recently used entry leaves a
\* full cache.
Add(n, k, p) ==
    LET entry  == {c \in Range(local[n]) : buckets[c].key = k}
        others == Without(local[n], entry)
        kept   == PushFront(Len(buckets) + 1, others)
        out    == Range(others) \ Range(kept)
    IN  /\ local' = [local EXCEPT ![n] = kept]
        /\ buckets' = Append([i \in DOMAIN buckets |->
                                [buckets[i] EXCEPT !.evicted = @ \/ i \in out]],
                             NewBucket(n, k, p))

\* Under rateLimiterMu: Get once more and take from that bucket, or Add.
LocalAdd(r) ==
    LET n == req[r].args.node
        k == req[r].args.key
        p == req[r].args.policy
    IN  /\ req[r].pc = "locked"
        /\ IF StillMissing(n, k, p)
           THEN Add(n, k, p) /\ req' = Answer(r, TRUE)
           ELSE Take(r, Get(n, k)) /\ local' = Promoted(n, Get(n, k))
        /\ UNCHANGED <<now, shared, conn, server, link>>

-----------------------------------------------------------------------------

Refill(b) == [b EXCEPT !.tokens = Least(b.policy.burst, @ + b.policy.rate)]

RefillAll(t) == [k \in Key |-> IF t[k] = None THEN None ELSE Refill(t[k])]

Tick ==
    /\ now < MaxTime
    /\ now' = now + 1
    /\ limiters' = RefillAll(limiters)
    /\ budget' = RefillAll(budget)
    /\ buckets' = [i \in DOMAIN buckets |-> Refill(buckets[i])]
    /\ UNCHANGED <<req, nextCleanup, conn, server, link, local>>

\* A request's goroutine, with the expiry of its deadlines.
Handler(r) ==
    \/ AllowLeader(r) \/ LockClosed(r) \/ LockDial(r) \/ LockSend(r)
    \/ DialDone(r) \/ DialFails(r) \/ Reply(r) \/ CallFails(r)
    \/ LocalGet(r) \/ LocalTake(r) \/ LocalAdd(r)

\* The accept loop with connection c in hand, then its serving goroutine.
Connection(c) == Register(c) \/ Deregister(c) \/ Release(c)

Next ==
    \/ \E r \in Request : Arrive(r) \/ Handler(r) \/ Serve(r)
    \/ \E c \in Request : Accept(c) \/ Connection(c)
    \/ CloseLeader \/ CloseSockets
    \/ \E f \in Follower : CloseFollower(f)
    \/ Tick

Spec == Init /\ [][Next]_vars

\* Every goroutine that can run does: the requests, with the expiry of their
\* deadlines, the leader's goroutines, and a Close that has begun.  Nobody
\* has to send a request or to call Close, and the clock may stop.
FairSpec ==
    /\ Spec
    /\ \A r \in Request : WF_vars(Handler(r)) /\ WF_vars(Connection(r))
    /\ WF_vars(CloseSockets)

-----------------------------------------------------------------------------
(* Properties *)

\* Types; in particular connectionSlots never holds more than its capacity,
\* and a bucket's tokens stay within its burst.
TypeOK ==
    /\ now \in 0..MaxTime
    /\ \A k \in Entries(limiters) : limiters[k].tokens \in 0..limiters[k].policy.burst
    /\ server.slots \in 0..MaxConnections
    /\ \A i \in DOMAIN buckets : buckets[i].tokens \in 0..buckets[i].policy.burst
    /\ \A n \in Node : Len(local[n]) <= LocalEntries

\* The leader's table never holds more than maxEntries keys, whatever mix of
\* sweeps, evictions and new keys (CheckLimit).
TableBounded == Cardinality(Entries(limiters)) <= MaxEntries

\* Nothing but an eviction or a change of policy gives a key more tokens
\* than one token bucket would have: the sweep may forget an idle key, but
\* only one whose bucket is full again.  The budget is that ideal bucket
\* (CheckLimit; for policies that refill within EntryTTL).
NoExtraTokens ==
    \A k \in Entries(limiters) : limiters[k].tokens <= budget[k].tokens

\* Once Close of the leader has closed its sockets, no connection is left
\* open and served, even one the accept loop had in hand when Close began.
NoConnectionOutlivesClose ==
    server.close = "done" =>
        \A c \in Request : conn[c].state = "serving" => conn[c].shut

\* A closed follower has no client: a request that comes late fails at once
\* and does not dial again (Allow, Close).
NoClientAfterClose ==
    \A f \in Follower :
        link[f].closed => link[f].client = None /\ link[f].mu = None

\* Whichever side closes, no connection or client is left or made afterwards.
ClosedForGood == NoConnectionOutlivesClose /\ NoClientAfterClose

\* A connection on which a call failed or timed out carries no later call:
\* an answer that comes late is lost with it, and the next request dials
\* (Allow, closeFollowerClientLocked).
FailedConnectionAbandoned ==
    \A r, s \in Request :
        /\ req[r].pc = "call"
        /\ req[s].pc \in {"local", "take", "locked"} /\ req[s].via # None
        => req[r].via # req[s].via

\* On one node, a key gets a second bucket for the same policy only after
\* the first one outlived the cache's time to live, was evicted, or gave way
\* to another policy: requests that miss at the same time share one bucket
\* (allowRateLimitedRequest).
OneLocalBucket ==
    \A j \in DOMAIN buckets : \A i \in 1..(j - 1) :
        LET a == buckets[i]
            b == buckets[j]
        IN  <<a.node, a.key, a.policy>> = <<b.node, b.key, b.policy>>
            => \/ b.addedAt - a.addedAt > LocalTTL
               \/ a.evicted
               \/ \E m \in (i + 1)..(j - 1) :
                     /\ <<buckets[m].node, buckets[m].key>> = <<a.node, a.key>>
                     /\ buckets[m].policy # a.policy

\* Neither CheckLimit, which keeps its table within its bound, nor a node's own
\* fallback gives tokens away.
TableSound == TypeOK /\ TableBounded /\ NoExtraTokens /\ OneLocalBucket

\* Every request is decided, although requests of a follower queue up for
\* clientMu behind dials and calls that time out.
Decided == \A r \in Request : req[r].pc # "idle" ~> Answered(r)

\* After Close of the leader every connection slot is given back
\* (startServer, Close).
SlotsReturned == server.close = "done" ~> server.slots = 0

\* Dead connections hold up neither the requests nor the leader's slots.
NothingStuck == Decided /\ SlotsReturned
=============================================================================
