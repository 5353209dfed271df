--------------------------- MODULE MCPgpIdentity ---------------------------
(* Model-checking instance of PgpIdentity: one run covers both key families *)
(* and an RSA key size GenerateKeyPair refuses.                             *)
EXTENDS PgpIdentity, TLC

MCConstructions == {[keyAlgorithm |-> "RSA", rsaKeyBits |-> 2048],
                    [keyAlgorithm |-> "RSA", rsaKeyBits |-> 512],
                    [keyAlgorithm |-> "ED25519_X25519", rsaKeyBits |-> 2048]}
MCFlagChoices == {{"sign"}, {"sign", "encrypt"}}
PasswordSymmetry == Permutations(Passwords)
MCExpirations == {0, 2}
=============================================================================
