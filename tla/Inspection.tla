----------------------------- MODULE Inspection -----------------------------
(***************************************************************************)
(* Basic authentication and content inspection, steps 7 and 9 of           *)
(* ServeHTTP.  Coraza (applyWAF), GraphQL (applyGraphQLProtection) and LLM *)
(* protection (applyLLMProtection) look at one body that is read at most   *)
(* once (inspectionBody) and forwarded afterwards.  LLM protection cuts    *)
(* texts into chunks, looks their scores up in the cache all requests      *)
(* share, and asks the sidecar for the rest; checkBasicAuth has a cache of *)
(* its own in front of bcrypt.  Reload changes the body limit, empties the *)
(* caches and publishes other policies while requests are under way.       *)
(*                                                                         *)
(* A text is a record: starts (see TextChunks) and phrase, the bytes       *)
(* <<from, to>> a sidecar of Detecting scores above the threshold when one *)
(* of its chunks holds all of them.  Coraza, the sidecar's model and the   *)
(* clients are external; of a body only its size and what it parses to     *)
(* are kept.                                                               *)
(***************************************************************************)
EXTENDS TextChunks, GraphQL, FiniteSets, TLC

CONSTANTS
  Request,       \* requests under way at a time
  Scenario,      \* sets of [content: request -> what it carries,
                 \*  configs: the configurations before and after a reload]
  Detecting,     \* sidecar URLs whose model knows the phrase
  Timeout,       \* llm_protection.timeout, in ticks
  GuardChunk,    \* CHUNK_BYTES
  GuardOverlap,  \* CHUNK_OVERLAP_BYTES
  LongestWalk    \* steps from an operation to its farthest selection

VARIABLES
  req,       \* request -> its handler's control and locals
  activeTx,  \* requests with an open Coraza transaction
  limit,     \* requestBodyLimit
  config,    \* the configurations of this behaviour
  mapping,   \* which of them the published mapping holds
  llmCache,  \* <<url, chunk>> -> score
  basicAuthCache, \* <<user, password, hash>> that were compared and match
  reload     \* control of Reload

caches == <<llmCache, basicAuthCache>>
vars == <<req, activeTx, limit, config, mapping, caches, reload>>

Pass == 0          \* a stage lets the request through
Forwarded == 200   \* the request went to an upstream

\* The bytes of one chunk, as a text of its own.
Bytes(text, chunk) ==
  [starts |-> SubSeq(text.starts, chunk[1] + 1, chunk[2]),
   phrase |-> IF text.phrase[2] <= chunk[1] \/ chunk[2] <= text.phrase[1]
              THEN <<0, 0>>
              ELSE <<text.phrase[1] - chunk[1], text.phrase[2] - chunk[1]>>]

HasPhrase(text) == text.phrase[1] < text.phrase[2]

\* The guard's answer for one text: the highest score of its own chunks.
GuardScore(url, text) ==
  IF /\ url \in Detecting /\ HasPhrase(text)
     /\ \E c \in GuardChunks(text.starts, GuardChunk, GuardOverlap) :
          c[1] <= text.phrase[1] /\ text.phrase[2] <= c[2]
  THEN 1 ELSE 0

Arriving(c) ==
  [pc |-> "new", c |-> c, policy |-> 1, tried |-> 0, read |-> FALSE, left |-> c.size, seen |-> 0,
   todo |-> <<>>, start |-> 0, chunks |-> <<>>, ask |-> <<>>, scores |-> <<>>,
   spent |-> 0, called |-> 0, highest |-> 0, by |-> "none", status |-> Pass]

Init ==
  /\ \E family \in Scenario : \E s \in family :
       /\ req = [r \in Request |-> Arriving(s.content[r])]
       /\ config = s.configs
  /\ activeTx = {}
  /\ mapping = 1
  /\ limit = config[1].limit
  /\ llmCache = [k \in {} |-> 0]
  /\ basicAuthCache = {}
  /\ reload = "idle"

-----------------------------------------------------------------------------
\* Control

Set(r, q) == req' = [req EXCEPT ![r] = q]
Policy(q) == config[q.policy]

\* A stage answers the request itself, or the request goes on upstream.
Finish(q, by, status) == [q EXCEPT !.pc = "done", !.by = by, !.status = status]

\* The answer of a stage: status, or on to the next stage.
Answer(q, by, status, next) ==
  IF status = Pass THEN [q EXCEPT !.pc = next] ELSE Finish(q, by, status)

\* Early returns, in order: the status of the first condition that holds.
FirstOf(returns) ==
  LET taken == SelectSeq(returns, LAMBDA c : c[1])
  IN IF taken = <<>> THEN Pass ELSE Head(taken)[2]

\* Allowlisted clients and the development bypass skip the stages.
Admit(q) ==
  IF q.c.bypass THEN Finish(q, "bypass", Forwarded)
  ELSE [q EXCEPT !.pc = IF Policy(q).waf THEN "waf" ELSE "graphql"]

\* The tenant's policies are those of the entry found in the mapping.
Begin(r) ==
  /\ req[r].pc = "new"
  /\ LET q == [req[r] EXCEPT !.policy = mapping]
     IN Set(r, IF Policy(q).accounts = <<>> THEN Admit(q) ELSE [q EXCEPT !.pc = "login"])
  /\ UNCHANGED <<activeTx, limit, config, mapping, caches, reload>>

-----------------------------------------------------------------------------
\* checkBasicAuth.  An account is a user and a hash, the hash a salt and the
\* password it was made of; c.login is <<user, password>>, or <<>>.

\* bcrypt.CompareHashAndPassword.
CompareHashAndPassword(hash, pass) == hash.of = pass

\* (Mutant: the key leaves the hash out.)
basicAuthCacheKeyLogin(login, hash) == <<login, "">>

basicAuthCacheKey(login, hash) == <<login, hash>>

\* The next account of the user is looked up in the cache.
CheckBasicAuth(r) ==
  /\ req[r].pc = "login"
  /\ LET q == req[r]
         accounts == Policy(q).accounts
         mine == {i \in q.tried + 1 .. Len(accounts) :
                    q.c.login # <<>> /\ accounts[i].user = q.c.login[1]}
     IN Set(r, IF mine = {} THEN Finish(q, "basic_auth", 401)
               ELSE IF basicAuthCacheKey(q.c.login, accounts[Min(mine)].hash) \in basicAuthCache
               THEN Admit(q)
               ELSE [q EXCEPT !.pc = "bcrypt", !.tried = Min(mine)])
  /\ UNCHANGED <<activeTx, limit, config, mapping, caches, reload>>

\* The comparison is slow: others run, and a reload may purge, before Add.
CompareAndAdd(r) ==
  /\ req[r].pc = "bcrypt"
  /\ LET q == req[r]
         hash == Policy(q).accounts[q.tried].hash
         equal == CompareHashAndPassword(hash, q.c.login[2])
     IN /\ Set(r, IF equal THEN Admit(q) ELSE [q EXCEPT !.pc = "login"])
        /\ basicAuthCache' = basicAuthCache \cup
             (IF equal THEN {basicAuthCacheKey(q.c.login, hash)} ELSE {})
  /\ UNCHANGED <<activeTx, limit, config, mapping, llmCache, reload>>

-----------------------------------------------------------------------------
\* inspectionBody

\* (Mutant: no byte beyond the limit is asked for.)
ReadAtMostLimit(max) == max

\* io.LimitReader's bound.
ReadAtMost(max) == max + 1

\* The body is read once.  A body of known length over the limit is refused
\* unread; one that breaks off fails the read and is gone.
inspectionBody(q, max) ==
  LET size == q.c.size
      data == IF size < ReadAtMost(max) THEN size ELSE ReadAtMost(max)
      Large(after) == [err |-> "large", q |-> after]
      Data(after) == [err |-> "none", q |-> after]
  IN IF q.read THEN IF q.seen > max THEN Large(q) ELSE Data(q)
     ELSE IF size = 0 THEN Data([q EXCEPT !.seen = 0])
     ELSE IF q.c.declared /\ size > max THEN Large(q)
     ELSE IF q.c.broken /\ size < ReadAtMost(max) THEN [err |-> "read", q |-> [q EXCEPT !.left = 0]]
     ELSE IF data > max THEN Large([q EXCEPT !.left = size - data])
     ELSE Data([q EXCEPT !.left = data, !.seen = data, !.read = TRUE])

-----------------------------------------------------------------------------
\* applyWAF.  Coraza never interrupts in audit mode; an interrupted request is
\* answered with 403, or sent to block_page_url.

Interrupts(q) == IF Policy(q).audit THEN {} ELSE {302, 403}

\* The connection, URI and header phases.
WAFHeaders(r) ==
  /\ req[r].pc = "waf"
  /\ \/ /\ Set(r, [req[r] EXCEPT !.pc = "wafbody"])
        /\ activeTx' = activeTx \cup {r}
     \/ /\ \E status \in Interrupts(req[r]) : Set(r, Finish(req[r], "waf", status))
        /\ UNCHANGED activeTx
  /\ UNCHANGED <<limit, config, mapping, caches, reload>>

\* The body phase.  Its deferred function closes the transaction.
WAFBody(r) ==
  /\ req[r].pc = "wafbody"
  /\ LET q == req[r]
         hasBody == q.c.size > 0 \/ ~q.c.declared
         b == inspectionBody(q, limit)
     IN \E engine \in {Pass, 500} \cup Interrupts(q) :
          Set(r, IF ~hasBody THEN Answer(q, "waf", engine, "graphql")
                 ELSE IF q.c.encoded THEN Finish(q, "waf", 415)
                 ELSE Answer(b.q, "waf", FirstOf(<< <<b.err = "large", 413>>,
                                                    <<b.err = "read", 500>>,
                                                    <<TRUE, engine>> >>), "graphql"))
  /\ activeTx' = activeTx \ {r}
  /\ UNCHANGED <<limit, config, mapping, caches, reload>>

-----------------------------------------------------------------------------
\* applyGraphQLProtection.  The query of a GET request is its parameter; a
\* batch item without a query string is a query of kind "missing".

Kinds(c) == {c.queries[i].kind : i \in DOMAIN c.queries}
Denied(c, p) == \E i \in DOMAIN c.queries : ~checkGraphQLRequest(c.queries[i], p)

FromURL(c, p) == FirstOf(<< <<"missing" \in Kinds(c), 400>>, <<Denied(c, p), 403>> >>)

FromJSON(c, p) ==
  FirstOf(<< <<~c.valid, 400>>,
             <<c.payload = "object" /\ Kinds(c) \cap {"missing", "blank"} # {}, 400>>,
             <<c.payload = "array" /\ p.batch > 0 /\ Len(c.queries) > p.batch, 403>>,
             <<c.payload = "array" /\ "missing" \in Kinds(c), 400>>,
             <<c.queries = <<>>, 400>>,
             <<Denied(c, p), 403>> >>)

FromBody(c, p) ==
  CASE c.media = "invalid" -> 415
    [] c.media = "graphql" -> IF Denied(c, p) THEN 403 ELSE Pass
    [] c.media = "json" -> FromJSON(c, p)
    [] OTHER -> 415

applyGraphQLProtection(r) ==
  /\ req[r].pc = "graphql"
  /\ LET q == req[r]
         c == q.c
         p == Policy(q).graphql
         b == inspectionBody(q, limit)
         Return(after, status) == Set(r, Answer(after, "graphql", status, "llm"))
     IN \/ ~(p.enabled /\ c.graphql) /\ Return(q, Pass)
        \/ /\ p.enabled /\ c.graphql
           /\ \/ c.method = "GET" /\ Return(q, FromURL(c, p))
              \/ c.method \notin {"GET", "POST"} /\ Return(q, 405)
              \/ c.method = "POST" /\ c.encoded /\ Return(q, 415)
              \/ /\ c.method = "POST" /\ ~c.encoded
                 /\ Return(b.q, FirstOf(<< <<b.err = "large", 413>>,
                                           <<b.err = "read", 403>>,
                                           <<TRUE, FromBody(c, p)>> >>))
  /\ UNCHANGED <<activeTx, limit, config, mapping, caches, reload>>

-----------------------------------------------------------------------------
\* applyLLMProtection

\* The sidecar or the body failed: fail_mode decides.
OnFailure(q) ==
  Finish(q, "failure", IF Policy(q).llm.failMode = "closed" THEN 403 ELSE Forwarded)

\* A detection, or a text the sidecar refuses: action decides.
OnDetection(q, by, status) ==
  Finish(q, by, IF Policy(q).llm.action = "audit" THEN Forwarded ELSE status)

\* Up to the texts to be scored.
LLMTexts(r) ==
  /\ req[r].pc = "llm"
  /\ LET q == req[r]
         c == q.c
         p == Policy(q).llm
         b == inspectionBody(q, IF p.limit > 0 THEN p.limit ELSE limit)
         skipped == ~p.enabled \/ ~c.llm
         before == FirstOf(<< <<skipped, Forwarded>>,
                              <<c.media = "invalid", 415>>,
                              <<c.media \notin {"json", "text"}, Forwarded>>,
                              <<c.encoded, 415>> >>)
         after == FirstOf(<< <<b.err = "large", 413>>,
                             <<c.media = "json" /\ ~c.valid, 400>>,
                             <<c.texts = <<>> \/ p.mode = "rules", Forwarded>> >>)
     IN Set(r, IF before # Pass THEN Finish(q, "llm", before)
               ELSE IF b.err = "read" THEN OnFailure(b.q)
               ELSE Answer([b.q EXCEPT !.todo = c.texts], "llm", after, "split"))
  /\ UNCHANGED <<activeTx, limit, config, mapping, caches, reload>>

\* One chunk of splitLLMText, for the text at hand.
SplitText(r) ==
  /\ req[r].pc = "split"
  /\ LET q == req[r]
         text == Head(q.todo)
         maxBytes == Policy(q).llm.maxText
         size == Len(text.starts)
         end == IF size <= maxBytes THEN size ELSE ChunkEnd(text.starts, q.start, maxBytes)
         more == [q EXCEPT !.chunks = Append(@, Bytes(text, <<q.start, end>>))]
     IN Set(r, IF end < size
               THEN [more EXCEPT !.start = NextStart(text.starts, q.start, maxBytes)]
               ELSE [more EXCEPT !.start = 0, !.todo = Tail(@),
                                 !.pc = IF Len(q.todo) > 1 THEN "split" ELSE "lookup"])
  /\ UNCHANGED <<activeTx, limit, config, mapping, caches, reload>>

\* (Mutant: the key leaves the sidecar out.)
llmCacheKeyText(q, text) == <<"", text>>

\* Tenant and path, also in the key, only tell more entries apart.
llmCacheKey(q, text) == <<Policy(q).llm.url, text>>

Higher(a, b) == IF a > b THEN a ELSE b

\* One chunk is looked up, and queued if it is neither cached nor queued.
Lookup(r) ==
  /\ req[r].pc = "lookup"
  /\ LET q == req[r]
         text == Head(q.chunks)
         key == llmCacheKey(q, text)
         hit == key \in DOMAIN llmCache
         ask == IF hit \/ text \in Range(q.ask) THEN q.ask ELSE Append(q.ask, text)
         highest == IF hit THEN Higher(q.highest, llmCache[key]) ELSE q.highest
     IN Set(r, [q EXCEPT !.chunks = Tail(@), !.ask = ask, !.highest = highest,
                         !.pc = IF Len(q.chunks) > 1 THEN "lookup"
                                ELSE IF ask = <<>> THEN "verdict" ELSE "query"])
  /\ UNCHANGED <<activeTx, limit, config, mapping, caches, reload>>

-----------------------------------------------------------------------------
\* querySidecarBatched and querySidecar

\* The texts of the call under way.
Batch(q) ==
  SubSeq(q.ask, Len(q.scores) + 1,
         Min({Len(q.scores) + Policy(q).llm.batch, Len(q.ask)}))

\* (Mutant: only the call's own deadline counts.)
ExpiredPerCall(q) == q.spent - q.called >= Timeout

\* The context of all calls, or the one of this call, is done.
Expired(q) == q.spent >= Timeout \/ q.spent - q.called >= Timeout

SidecarWorks(r) ==
  /\ req[r].pc = "query"
  /\ ~Expired(req[r])
  /\ Set(r, [req[r] EXCEPT !.spent = @ + 1])
  /\ UNCHANGED <<activeTx, limit, config, mapping, caches, reload>>

\* One score for every text; the next call begins.  The guard takes no empty
\* text.
SidecarAnswers(r) ==
  /\ req[r].pc = "query"
  /\ ~Expired(req[r])
  /\ LET q == req[r]
         batch == Batch(q)
         scores == q.scores \o [i \in DOMAIN batch |-> GuardScore(Policy(q).llm.url, batch[i])]
     IN /\ \A i \in DOMAIN batch : batch[i].starts # <<>>
        /\ Set(r, [q EXCEPT !.scores = scores, !.called = q.spent,
                            !.pc = IF Len(scores) = Len(q.ask) THEN "store" ELSE "query"])
  /\ UNCHANGED <<activeTx, limit, config, mapping, caches, reload>>

\* 400, 413 or 422: errSidecarRejectedInput.
SidecarRejects(r) ==
  /\ req[r].pc = "query"
  /\ ~Expired(req[r])
  /\ Set(r, OnDetection(req[r], "rejected", 422))
  /\ UNCHANGED <<activeTx, limit, config, mapping, caches, reload>>

\* No connection, the deadline, the client gone, another status, or scores
\* that do not fit the texts.
SidecarFails(r) ==
  /\ req[r].pc = "query"
  /\ Set(r, OnFailure(req[r]))
  /\ UNCHANGED <<activeTx, limit, config, mapping, caches, reload>>

\* One score is cached and counted.
StoreScore(r) ==
  /\ req[r].pc = "store"
  /\ LET q == req[r]
         score == Head(q.scores)
     IN /\ llmCache' = (llmCacheKey(q, Head(q.ask)) :> score) @@ llmCache
        /\ Set(r, [q EXCEPT !.ask = Tail(@), !.scores = Tail(@), !.highest = Higher(@, score),
                            !.pc = IF Len(q.ask) > 1 THEN "store" ELSE "verdict"])
  /\ UNCHANGED <<activeTx, limit, config, mapping, basicAuthCache, reload>>

Verdict(r) ==
  /\ req[r].pc = "verdict"
  /\ Set(r, IF req[r].highest = 0 THEN Finish(req[r], "verdict", Forwarded)
            ELSE OnDetection(req[r], "verdict", 403))
  /\ UNCHANGED <<activeTx, limit, config, mapping, caches, reload>>

-----------------------------------------------------------------------------
\* Reload, in the order of its stores, and the cache's own removals

ReloadLimit ==
  /\ reload = "idle"
  /\ limit' = config[2].limit
  /\ reload' = "purge"
  /\ UNCHANGED <<req, activeTx, config, mapping, caches>>

\* Both caches; no step of a request looks at both.
ReloadPurge ==
  /\ reload = "purge"
  /\ llmCache' = [k \in {} |-> 0]
  /\ basicAuthCache' = {}
  /\ reload' = "mapping"
  /\ UNCHANGED <<req, activeTx, limit, config, mapping>>

ReloadMapping ==
  /\ reload = "mapping"
  /\ mapping' = 2
  /\ reload' = "done"
  /\ UNCHANGED <<req, activeTx, limit, config, caches>>

\* An entry is too old, or one too many.
Evict ==
  /\ \/ /\ \E k \in DOMAIN llmCache : llmCache' = [j \in DOMAIN llmCache \ {k} |-> llmCache[j]]
        /\ UNCHANGED basicAuthCache
     \/ /\ \E k \in basicAuthCache : basicAuthCache' = basicAuthCache \ {k}
        /\ UNCHANGED llmCache
  /\ UNCHANGED <<req, activeTx, limit, config, mapping, reload>>

Done ==
  /\ \A r \in Request : req[r].pc = "done"
  /\ UNCHANGED vars

Handler(r) ==
  \/ Begin(r) \/ CheckBasicAuth(r) \/ CompareAndAdd(r)
  \/ WAFHeaders(r) \/ WAFBody(r) \/ applyGraphQLProtection(r)
  \/ LLMTexts(r) \/ SplitText(r) \/ Lookup(r)
  \/ SidecarWorks(r) \/ SidecarAnswers(r) \/ SidecarRejects(r) \/ SidecarFails(r)
  \/ StoreScore(r) \/ Verdict(r)

Next ==
  \/ \E r \in Request : Handler(r)
  \/ ReloadLimit \/ ReloadPurge \/ ReloadMapping \/ Evict \/ Done

Spec == Init /\ [][Next]_vars

-----------------------------------------------------------------------------
\* Properties

\* "A larger body returns 413; it is never truncated or forwarded
\* uninspected": what is forwarded is the body the client sent, and every
\* stage that let it pass after reading it has seen all of it, whatever the
\* limits of the stages are and whenever a reload changes them
\* (inspectionBody; a body that breaks off fails upstream as well).
InspectedWhole ==
  \A r \in Request :
    LET q == req[r]
        p == Policy(q)
    IN q.status = Forwarded /\ ~q.c.broken =>
         /\ q.left = q.c.size
         /\ \/ q.seen = q.c.size
            \/ q.c.bypass
            \/ /\ ~p.waf
               /\ ~(p.graphql.enabled /\ q.c.graphql /\ q.c.method = "POST")
               /\ ~(p.llm.enabled /\ q.c.llm /\ q.c.media \in {"json", "text"})

\* A request judged by its scores is judged by what the sidecar of its own
\* policy says of its whole texts: a phrase no longer than the overlaps is
\* found although it straddles cuts of the WAF and of the guard, although
\* chunks come from the cache, in batches or only once, and although a
\* request of the old policy stores its scores after the purge of a reload.
ScoresSound ==
  \A r \in Request :
    LET q == req[r]
    IN q.by = "verdict" =>
         (q.highest = 1 <=> /\ Policy(q).llm.url \in Detecting
                            /\ \E t \in Range(q.c.texts) : HasPhrase(t))

\* A request passes Basic Auth exactly if its login is one of its own policy,
\* although an account's password changes with a reload and a request of the
\* old policy caches its comparison after the purge (checkBasicAuth).
LoginsSound ==
  \A r \in Request :
    LET q == req[r]
        accounts == Policy(q).accounts
        entitled == \/ accounts = <<>>
                    \/ \E i \in DOMAIN accounts :
                         /\ q.c.login # <<>> /\ accounts[i].user = q.c.login[1]
                         /\ accounts[i].hash.of = q.c.login[2]
    IN q.pc \notin {"new", "login", "bcrypt"} => (q.by = "basic_auth" <=> ~entitled)

\* What requests take from the shared caches is what their own policy says:
\* scores of texts and accepted logins.
VerdictSound == ScoresSound /\ LoginsSound

\* "It is one deadline for all sidecar calls of a request, not per batch":
\* a request never waits for the sidecar longer than timeout, however many
\* batches it needs (querySidecarBatched).
OneDeadline == \A r \in Request : req[r].spent <= Timeout

\* splitLLMText ends: every chunk of a text moves on, so that a text of n
\* bytes has at most n chunks ("split into overlapping chunks of at most
\* this size").
ChunksBounded ==
  \A r \in Request :
    LET bytes == [i \in DOMAIN req[r].c.texts |-> Higher(1, Len(req[r].c.texts[i].starts))]
    IN Len(req[r].chunks) <= FoldSeq(+, 0, bytes)

\* A query passes the GraphQL stage exactly if everything its operations
\* reach through fields, inline fragments and spreads obeys the policy, as a
\* walk without the code's bookkeeping of visited fragments finds it
\* (selectionDepth, hasIntrospection, checkGraphQLRequest).
GraphQLExact ==
  \A r \in Request :
    LET q == req[r]
        p == Policy(q).graphql
        Allowed(query) ==
          /\ query.kind = "document" /\ query.operations # <<>>
          /\ query.bytes <= p.bytes /\ query.nesting <= NestingBudget(p)
          /\ \A i \in DOMAIN query.operations : Obeys(query, query.operations[i], p, LongestWalk)
        allowed ==
          /\ \A i \in DOMAIN q.c.queries : Allowed(q.c.queries[i])
          /\ q.c.payload = "array" /\ p.batch > 0 => Len(q.c.queries) <= p.batch
    IN q.pc = "done" /\ p.enabled /\ q.c.graphql /\ ~q.c.bypass =>
         /\ q.by \notin {"basic_auth", "waf", "graphql"} => allowed
         /\ q.by = "graphql" /\ q.status = 403 => ~allowed \/ q.c.broken
=============================================================================
