------------------------ MODULE MCSharedInstances ------------------------
(* Model-checking instance of SharedInstances: the defaults asked for by two *)
(* overloads, and one configuration that differs in its last field only.     *)
EXTENDS SharedInstances, TLC

MCDefault == "signatureAlgorithm" :> "ECDSA_P256_SHA256" @@ "keyAgreementAlgorithm" :> "ECDH_P256"
MCRequests == {"signatureAlgorithm" :> "ECDSA_P256_SHA256", "keyAgreementAlgorithm" :> "ECDH_P256",
               "keyAgreementAlgorithm" :> "X25519"}
=============================================================================
