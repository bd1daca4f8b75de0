----------------------------- MODULE MCRuntime -----------------------------
(* Files, and the configurations they hold, for the runs of ConfigWatch and *)
(* Runtime: each run picks a few of them.                                   *)
EXTENDS ConfigWatch, TLC

CONSTANTS
  h1, h2,
  m1,   \* main file: one tenant without external dependencies
  m2,   \* GeoIP and CrowdSec, fail-open, client allow-listed, a follower;
        \* also defines the tenant of s1
  m3,   \* as m1, but the leader has another secret
  m4,   \* the client is block-listed, no ACME, no coordinator
  s0,   \* an empty tenants.d
  s1    \* a second tenant with GeoIP and CrowdSec

Leader(secret) == [role |-> "leader", address |-> "a", secret |-> secret]
Follower == [role |-> "follower", address |-> "a", secret |-> "k"]

MainSettings ==
  LET plain == [tenants |-> {h1}, geo |-> {}, crowd |-> {}, blocks |-> FALSE,
                allows |-> FALSE, closed |-> TRUE, acme |-> TRUE]
  IN (m1 :> plain) @@
     (m2 :> [plain EXCEPT !.tenants = {h1, h2}, !.geo = {h1}, !.crowd = {h1},
                           !.allows = TRUE, !.closed = FALSE]) @@
     (m3 :> plain) @@
     (m4 :> [plain EXCEPT !.blocks = TRUE, !.acme = FALSE])

MainCoordinator ==
  (m1 :> Leader("k")) @@ (m2 :> Follower) @@ (m3 :> Leader("l")) @@
  (m4 :> NoCoordinator)

MCConfig == Main \X {s0, s1}

MCSettings == [c \in MCConfig |->
  IF c[2] = s1
  THEN [MainSettings[c[1]] EXCEPT !.tenants = @ \cup {h2}, !.geo = @ \cup {h2}, !.crowd = @ \cup {h2}]
  ELSE MainSettings[c[1]]]

MCCoordinator == [c \in MCConfig |-> MainCoordinator[c[1]]]

\* A tenant that is defined twice is an error.
MCLoad == [files \in Main \X (Shards \cup {NoDir}) |->
  IF files[2] # s1 THEN <<files[1], s0>>
  ELSE IF h2 \in MainSettings[files[1]].tenants THEN Invalid
  ELSE files]

MCStart == {<<m1, s1>>, <<m4, NoDir>>} \cap (Main \X (Shards \cup {NoDir}))

MCExternal ==
  {<<"clean", "allowed">>, <<"banned", "allowed">>, <<"down", "allowed">>, <<"clean", "blocked">>}
=============================================================================
