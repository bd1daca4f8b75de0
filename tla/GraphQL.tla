------------------------------- MODULE GraphQL -------------------------------
(***************************************************************************)
(* The document checks of internal/waf/graphql.go, beside a reference      *)
(* that says what a document's selections really reach.                    *)
(*                                                                         *)
(* A query is a record: kind ("blank", "malformed" or "document"), bytes,  *)
(* nesting (the braces graphQLNestingDepth counts), operations (their      *)
(* selection sets) and fragments (name -> selection set).  A selection set *)
(* is a sequence of selections, each with a kind ("field", "inline" or     *)
(* "spread"), a name and a selection set of its own.                       *)
(***************************************************************************)
EXTENDS Integers, Sequences, FiniteSetsExt, SequencesExt

Invalid == -1      \* the error of an unknown or cyclic fragment
MetaFields == {"__schema", "__type"}

RECURSIVE selectionDepth(_, _, _), hasIntrospection(_, _, _)

\* A spread that cannot be followed: unknown, or being followed already.
Dangling(fragments, name, visiting) ==
  name \notin DOMAIN fragments \/ name \in visiting

\* (Mutant: a fragment counts as a level of its own.)
LevelOfAnySelection(kind) == IF kind = "inline" THEN 0 ELSE 1

\* Only a field adds a level.
Level(kind) == IF kind = "field" THEN 1 ELSE 0

selectionDepth(fragments, set, visiting) ==
  LET Below(s) ==
        IF s.kind # "spread"
        THEN selectionDepth(fragments, s.set, visiting)
        ELSE IF Dangling(fragments, s.name, visiting)
             THEN Invalid
             ELSE selectionDepth(fragments, fragments[s.name], visiting \cup {s.name})
      below == [i \in DOMAIN set |-> Below(set[i])]
  IN IF Invalid \in Range(below)
     THEN Invalid
     ELSE Max({0} \cup {below[i] + Level(set[i].kind) : i \in DOMAIN set})

\* The answer of the first selection that has one: "found", "invalid", or
\* "none" if no selection has.
hasIntrospection(fragments, set, visiting) ==
  LET Answer(s) ==
        CASE s.kind = "field" /\ s.name \in MetaFields -> "found"
          [] s.kind = "spread" /\ Dangling(fragments, s.name, visiting) -> "invalid"
          [] s.kind = "spread" /\ ~Dangling(fragments, s.name, visiting) ->
               hasIntrospection(fragments, fragments[s.name], visiting \cup {s.name})
          [] OTHER -> hasIntrospection(fragments, s.set, visiting)
      told == SelectSeq([i \in DOMAIN set |-> Answer(set[i])], LAMBDA a : a # "none")
  IN IF told = <<>> THEN "none" ELSE Head(told)

\* minGraphQLNestingBudget, or room for a query of the allowed depth.
NestingBudget(policy) == Max({64, 2 * policy.depth + 16})

OperationAllowed(query, set, policy) ==
  LET depth == selectionDepth(query.fragments, set, {})
  IN /\ policy.blockIntrospection => hasIntrospection(query.fragments, set, {}) = "none"
     /\ depth # Invalid
     /\ policy.depth = 0 \/ depth <= policy.depth

\* checkGraphQLRequest returns nil.
checkGraphQLRequest(query, policy) ==
  /\ query.kind # "blank"
  /\ query.bytes <= policy.bytes
  /\ query.nesting <= NestingBudget(policy)
  /\ query.kind = "document"
  /\ \A i \in DOMAIN query.operations :
       OperationAllowed(query, query.operations[i], policy)
  /\ query.operations # <<>>

-----------------------------------------------------------------------------
\* The reference: walk the document level by level, with no memory of where
\* the walk has been.  A walk longer than every path without a repetition
\* has gone round a cycle.

Children(fragments, s) ==
  IF s.kind # "spread" THEN Range(s.set)
  ELSE IF s.name \in DOMAIN fragments THEN Range(fragments[s.name]) ELSE {}

\* <<selection, fields on the way to it>> of every selection n steps down.
Walk(fragments, set, n) ==
  LET Count(s) == IF s.kind = "field" THEN 1 ELSE 0
      W[k \in 0 .. n] ==
        IF k = 0
        THEN {<<s, Count(s)>> : s \in Range(set)}
        ELSE UNION {{<<c, w[2] + Count(c)>> : c \in Children(fragments, w[1])} : w \in W[k - 1]}
  IN W[n]

Obeys(query, set, policy, longest) ==
  LET reached == UNION {Walk(query.fragments, set, n) : n \in 0 .. longest}
  IN /\ Walk(query.fragments, set, longest + 1) = {}
     /\ \A w \in reached :
          /\ w[1].kind = "spread" => w[1].name \in DOMAIN query.fragments
          /\ policy.depth > 0 => w[2] <= policy.depth
          /\ policy.blockIntrospection => ~(w[1].kind = "field" /\ w[1].name \in MetaFields)
=============================================================================
