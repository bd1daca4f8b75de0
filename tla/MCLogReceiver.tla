--------------------------- MODULE MCLogReceiver ---------------------------
(* Instances of LogReceiver for TLC. *)
EXTENDS LogReceiver, TLC

CONSTANTS c1, c2, a1, a2

Sender(a) == [ip |-> a, token |-> TRUE, media |-> TRUE]
Plain(a) == [ip |-> a, token |-> TRUE, media |-> FALSE]
Unknown(a) == [ip |-> a, token |-> FALSE, media |-> TRUE]

\* Two senders of the tenant; a client with its token next to one without at the
\* same address; two clients without a token at one address, or at two.
MCPeers ==
  {(c1 :> Sender(a1)) @@ (c2 :> Sender(a1)),
   (c1 :> Plain(a1)) @@ (c2 :> Unknown(a1)),
   (c1 :> Unknown(a1)) @@ (c2 :> Unknown(a1)),
   (c1 :> Unknown(a1)) @@ (c2 :> Unknown(a2))}
=============================================================================
