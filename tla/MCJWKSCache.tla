---------------------------- MODULE MCJWKSCache ----------------------------
(* Small instances of JWKSCache.                                           *)
EXTENDS JWKSCache, TLC

CONSTANTS r1, r2, e1, e2

JWK(kid, type, material) == [kid |-> kid, type |-> type, material |-> material]
Key(type, material) == [type |-> type, material |-> material]

\* Before the rotation, with a key of an unsupported type and one without kid;
\* to be kept for longer than MaxTTL.
old == [keys |-> <<JWK("a", "RSA", 1), JWK("x", "oct", 1), JWK(None, "RSA", 3)>>,
        maxAge |-> 5]
\* After it: a new key, and the old kid with new material; without a
\* max-age.
new == [keys |-> <<JWK("a", "RSA", 2), JWK("b", "EC", 1)>>, maxAge |-> 0]
\* A kid twice.
broken == [keys |-> <<JWK("a", "RSA", 1), JWK("a", "EC", 1)>>, maxAge |-> 0]

MCDocument == {old, new, broken}
MCFirst == {old}

Signed(kid, method, key) ==
    [kid |-> kid, method |-> method, signer |-> key, claims |-> TRUE]

byOld == Signed("a", "RSA", Key("RSA", 1))
byNew == Signed("b", "EC", Key("EC", 1))
byReused == Signed("a", "RSA", Key("RSA", 2))
\* A symmetric algorithm, refused before its key is looked up.
symmetric == Signed("c", "HMAC", Key("oct", 1))

At(e, token) == [endpoint |-> e, token |-> token]

\* One request for the new key; another for it, for the old key, for the reused
\* kid, with an algorithm not accepted, without a token, or at another endpoint.
MCAsk == (r1 :> {At(e1, byNew)})
         @@ (r2 :> {At(e1, byNew), At(e1, byOld), At(e1, byReused),
                    At(e1, symmetric), At(e1, None), At(e2, byOld)})
=============================================================================
