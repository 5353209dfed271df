--------------------------- MODULE MCPgpExchange ---------------------------
(* Model-checking instances of PgpExchange. *)
EXTENDS PgpExchange

MCRsa == {[keyAlgorithm |-> "RSA", rsaKeyBits |-> 2048]}
MCEd25519 == {[keyAlgorithm |-> "ED25519_X25519", rsaKeyBits |-> 2048]}
MCBoth == MCRsa \cup MCEd25519
MCFlagChoices == {{"sign"}, {"encrypt"}}
MCOnePassword == {"pw1"}
MCExpirations == {0, 1}
MCLongExpirations == {0, 7}
MCNever == {0}

\* Each key family explores its own hard case: RSA the expiry of one identity's
\* subkeys, Ed25519/X25519 the replacement of the identity (by one of two subkeys)
\* and the rotation of three subkeys that never expire.
MCExpiryOrRotation ==
    IF construction.keyAlgorithm = "RSA"
    THEN ownMaster <= 1 /\ Len(ownSubkeys) <= 2
    ELSE /\ now = 0
         /\ keyExpirationSeconds = 0
         /\ ownMaster = 2 => Len(ownSubkeys) <= 2
         /\ \A i \in DOMAIN ownSubkeys : ownSubkeys[i].binding.exp = 0
=============================================================================
