---------------------------- MODULE MCInspection ----------------------------
EXTENDS Inspection

CONSTANTS r1, r2

-----------------------------------------------------------------------------
\* Policies

NoGraphQL == [enabled |-> FALSE, depth |-> 0, batch |-> 0, bytes |-> 1, blockIntrospection |-> FALSE]
NoLLM == [enabled |-> FALSE, mode |-> "ml", action |-> "deny", failMode |-> "open",
          limit |-> 0, maxText |-> 16, batch |-> 1, url |-> "u1"]
Plain == [accounts |-> <<>>, waf |-> FALSE, audit |-> FALSE, limit |-> 2, graphql |-> NoGraphQL, llm |-> NoLLM]
Still(p) == <<p, p>>     \* the reload changes nothing

LLM(maxText, url) ==
  [Plain EXCEPT !.llm = [NoLLM EXCEPT !.enabled = TRUE, !.maxText = maxText, !.url = url]]

-----------------------------------------------------------------------------
\* Contents

Other == [login |-> <<>>, bypass |-> FALSE, graphql |-> FALSE, llm |-> FALSE, method |-> "POST", media |-> "other",
          encoded |-> FALSE, declared |-> TRUE, size |-> 0, broken |-> FALSE, valid |-> TRUE,
          payload |-> "object", queries |-> <<>>, texts |-> <<>>]
Skipped == [Other EXCEPT !.bypass = TRUE]
Chat(texts) == [Other EXCEPT !.llm = TRUE, !.media = "json", !.size = 1, !.texts = texts]

Alone(c) == [r \in Request |-> IF r = r1 THEN c ELSE Skipped]
Pair(c, d) == [r \in Request |-> IF r = r1 THEN c ELSE d]

Field(name, set) == [kind |-> "field", name |-> name, set |-> set]
Inline(set) == [kind |-> "inline", name |-> "", set |-> set]
Spread(name) == [kind |-> "spread", name |-> name, set |-> <<>>]

SelectionSets ==
  LET a == Field("a", <<>>)
  IN {<<a>>, <<a, Field("a", <<a>>)>>, <<Field("__schema", <<>>)>>, <<Field("a", <<Field("__type", <<>>)>>)>>,
      <<Spread("f")>>, <<Spread("g"), Field("__type", <<>>)>>, <<Field("a", <<Spread("f")>>), Spread("g")>>,
      <<Inline(<<a, Spread("g")>>)>>, <<Field("a", <<Inline(<<Spread("g")>>)>>)>>}

Query(operations, fragments) ==
  [kind |-> "document", bytes |-> 9, nesting |-> 64, operations |-> operations, fragments |-> fragments]
Shallow == Query(<< <<Field("a", <<>>)>> >>, [f |-> <<>>])

\* The texts of n bytes whose runes have the given sizes.
Starts(n, sizes) ==
  LET Texts[k \in 0 .. n] ==
        IF k = 0 THEN {<<>>}
        ELSE UNION {{t \o [i \in 1 .. w |-> i = 1] : t \in Texts[k - w]} : w \in {s \in sizes : s <= k}}
  IN Texts[n]

Whole(starts, i) == i = Len(starts) \/ RuneStart(starts, i)

\* The phrases of at most max bytes in starts, and none.
Phrases(starts, max) ==
  {<<0, 0>>} \cup
  {<<i, j>> \in (0 .. Len(starts)) \X (0 .. Len(starts)) :
     i < j /\ j - i <= max /\ Whole(starts, i) /\ Whole(starts, j)}

Text(starts, phrase) == [starts |-> starts, phrase |-> phrase]

Word(n, phrase) == Text([i \in 1 .. n |-> TRUE], phrase)

Scene(content, configs) == [content |-> content, configs |-> configs]

\* One long text, cut everywhere it can be.
Cuts ==
  {Scene(Alone(Chat(<<Text(t, p)>>)), Still(LLM(16, "u1"))) :
     <<t, p>> \in UNION {{s} \X Phrases(s, 2) : s \in Starts(18, {1, 4})}}

\* Chunks hardly longer than a rune, whose overlap is one byte.
TightCuts ==
  {Scene(Alone(Chat(<<Text(t, p)>>)), Still(LLM(m, "u1"))) :
     <<t, p>> \in UNION {{s} \X Phrases(s, 1) : s \in Starts(8, {1, 3, 4})}, m \in {4, 7}}

\* Two requests with chunks in common, while the sidecar changes.
Shared ==
  LET a == Word(2, <<0, 2>>)
      b == Word(2, <<0, 0>>)
      c == Word(10, <<7, 9>>)
      policies == {<<LLM(8, u), LLM(8, v)>> : u, v \in {"u1", "u2"}}
  IN {Scene(Pair(Chat(x), Chat(y)), p) : x \in {<<a>>, <<b, a>>}, y \in {<<a>>, <<c>>}, p \in policies}

\* Bodies around the limits, which a reload changes; broken off, encoded, of
\* unknown length.
Bodies ==
  LET stages == {[Plain EXCEPT !.waf = w, !.audit = a, !.graphql.enabled = ~a, !.graphql.bytes = 9, !.limit = n,
                               !.llm.enabled = TRUE, !.llm.failMode = f, !.llm.limit = k] :
                   w, a \in BOOLEAN, n \in {1, 2}, f \in {"open", "closed"}, k \in {0, 2}}
      carried == [login : {<<>>}, bypass : {FALSE}, graphql : BOOLEAN, llm : {TRUE}, method : {"POST"},
                  media : {"json", "text", "invalid"}, encoded : {FALSE}, declared : BOOLEAN,
                  size : 0 .. 3, broken : BOOLEAN, valid : {TRUE}, payload : {"object"},
                  queries : {<<Shallow>>}, texts : {<<Word(1, <<0, 1>>)>>}]
      Carrying(c) == IF c.size > 0 THEN c
                     ELSE [c EXCEPT !.valid = FALSE, !.queries = <<>>, !.texts = <<Word(0, <<0, 0>>)>>]
  IN {Scene(Alone(Carrying(c)), <<p, [p EXCEPT !.limit = 3 - @]>>) : c \in carried, p \in stages}

\* The other ways through the stages.
Detours ==
  LET audited == [LLM(8, "u1") EXCEPT !.llm.action = "audit"]
      ruled == [LLM(8, "u1") EXCEPT !.llm.mode = "rules"]
      chat == Chat(<<Word(1, <<0, 1>>)>>)
      contents == {chat, [chat EXCEPT !.encoded = TRUE], [chat EXCEPT !.media = "other"], Chat(<<>>), Other}
  IN {Scene(Alone(c), Still(p)) : c \in contents, p \in {audited, ruled, Plain, [ruled EXCEPT !.waf = TRUE]}}

-----------------------------------------------------------------------------
\* GraphQL documents

GraphQLPolicies ==
  {[Plain EXCEPT !.graphql = [enabled |-> TRUE, depth |-> d, batch |-> 1, bytes |-> 9, blockIntrospection |-> b]] :
     d \in 0 .. 2, b \in BOOLEAN}
Posted(queries) == [Other EXCEPT !.graphql = TRUE, !.media = "json", !.size = 1, !.queries = queries]

Documents ==
  {Scene(Alone(Posted(<<Query(<<set>>, [f |-> f, g |-> g])>>)), Still(p)) :
     set \in SelectionSets \cup {<<Spread("h")>>}, f, g \in SelectionSets, p \in GraphQLPolicies}

Transports ==
  LET bad == {[Shallow EXCEPT !.kind = k] : k \in {"missing", "blank", "malformed"}}
             \cup {[Shallow EXCEPT !.bytes = 10], [Shallow EXCEPT !.nesting = 65], [Shallow EXCEPT !.operations = <<>>]}
      lists == {<<>>, <<Shallow>>, <<Shallow, Shallow>>} \cup {<<q>> : q \in bad} \cup {<<Shallow, q>> : q \in bad}
      One(c) == (c.method = "GET" \/ c.payload = "object" \/ c.media = "graphql") => Len(c.queries) = 1
      None(c) == c.payload = "other" => c.queries = <<>>
      contents == {[Posted(l) EXCEPT !.payload = y, !.media = m, !.method = v, !.valid = j, !.encoded = e] :
                     l \in lists, y \in {"object", "array", "other"}, m \in {"json", "graphql", "other", "invalid"},
                     v \in {"GET", "POST", "PUT"}, j, e \in BOOLEAN}
      policies == {p \in GraphQLPolicies : p.graphql.depth = 1} \cup {[p EXCEPT !.graphql.batch = 0] : p \in GraphQLPolicies}
  IN {Scene(Alone(c), Still(p)) : c \in {x \in contents : One(x) /\ None(x)}, p \in policies}

\* Accounts whose passwords change, appear and go, also two of one user.
Accounts ==
  LET Account(user, salt, pass) == [user |-> user, hash |-> [salt |-> salt, of |-> pass]]
      lists == {<<>>, <<Account("alice", 1, "old")>>, <<Account("alice", 2, "new")>>,
                <<Account("bob", 3, "old")>>, <<Account("alice", 1, "old"), Account("alice", 2, "new")>>}
      logins == {<<>>, <<"alice", "old">>, <<"alice", "new">>, <<"bob", "old">>}
      As(login) == [Skipped EXCEPT !.login = login]
      With(accounts) == [Plain EXCEPT !.accounts = accounts]
  IN {Scene(Pair(As(x), As(y)), <<With(k), With(l)>>) : x, y \in logins, k, l \in lists}

\* A rune longer than max_text_bytes.
SmallLimit == {{Scene(Alone(Chat(<<Text(<<TRUE, FALSE, FALSE, TRUE>>, <<0, 0>>)>>)), Still(LLM(2, "u1")))}}

MCScenario == {Cuts, TightCuts, Shared, Bodies, Detours, Documents, Transports, Accounts}
=============================================================================
