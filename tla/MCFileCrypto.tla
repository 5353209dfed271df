--------------------------- MODULE MCFileCrypto ---------------------------
(* Model-checking instances of FileCrypto. *)
EXTENDS FileCrypto

MCPasswords == {"pw1", "pw2"}
MCChunks == {"c1", "c2"}
MCUserFiles == {<<"c1", "c2">>}
=============================================================================
