---------------------------- MODULE PgpIdentity ----------------------------
(***************************************************************************)
(* The life of one CPgpEngine identity (src/src/Pgp/PgpEngine.cpp): key    *)
(* generation, User IDs, subkeys, expiration and the secret key password.  *)
(*                                                                         *)
(* The engine keeps CACHED packets: every self-certification, subkey       *)
(* binding and encrypted secret packet is produced once and concatenated   *)
(* on export (renderOwnKeyBlocks), so a mutator that forgets to re-issue   *)
(* one of them leaves an exported key that disagrees with the getters.     *)
(* A packet is abstracted to what a reader of it learns: who signed it,    *)
(* when, and the subpackets it carries; an encrypted secret packet to the  *)
(* password that opens it.                                                 *)
(***************************************************************************)
EXTENDS Integers, Sequences

CONSTANTS Passwords,      \* the non-empty passwords callers use
          Expirations,    \* values of expirationSeconds callers pass; 0 = never
          FlagChoices,    \* values of keyFlags callers pass, as sets of usages
          Constructions,  \* the constructor arguments instances are made with
          MaxIdentities,  \* bound: calls of GenerateKeyPair that succeed
          MaxUserIds,     \* bound: length of ownUserIds
          MaxSubkeys,     \* bound: length of ownSubkeys
          MaxTime         \* bound: the last second of the clock

ASSUME PgpConstantsAssumption ==
    /\ Expirations \subseteq Nat
    /\ FlagChoices \subseteq SUBSET {"sign", "encrypt", "auth"}
    /\ Constructions \subseteq [keyAlgorithm : {"RSA", "ED25519_X25519"}, rsaKeyBits : Nat]
    /\ MaxIdentities \in Nat
    /\ MaxUserIds \in Nat \ {0}
    /\ MaxSubkeys \in Nat \ {0}
    /\ MaxTime \in Nat

VARIABLES
    construction,           \* keyAlgorithm and rsaKeyBits, set by the constructor
    ownKeyGenerated,        \* impl_->ownKeyGenerated
    ownMaster,              \* which master key pair the instance holds (0: none yet)
    ownMasterSecret,        \* password that opens ownMasterSecretPacketBody
    ownSubkey,              \* the flat ownSubkey*/ownX25519* fields
    ownUserIds,             \* impl_->ownUserIds
    ownSubkeys,             \* impl_->ownSubkeys
    keyExpirationSeconds,   \* impl_->keyExpirationSeconds
    passwordCheckHash,      \* the password whose SHA-256 is stored
    now,                    \* std::time(nullptr)
    status                  \* what the last call returned

identityVars == <<construction, ownKeyGenerated, ownMaster, ownMasterSecret, ownSubkey,
                  ownUserIds, ownSubkeys, keyExpirationSeconds,
                  passwordCheckHash>>
vars == <<identityVars, now, status>>

-----------------------------------------------------------------------------
NoPassword == "none"
KeyFlags == SUBSET {"sign", "encrypt", "auth"}
Statuses == {"NO_ERROR", "INVALID_ARGUMENT", "NOT_IMPLEMENTED", "UNEXPECTED_ERROR"}

\* A key pair is named by the identity it was generated for and its place in
\* it: 0 is the master key, n the n-th subkey. Fresh randomness never repeats.
Keys == [identity : Nat, number : Nat]
MasterKey(id) == [identity |-> id, number |-> 0]
\* Mutant: an index that starts one too low.
SubkeyKeyOffByOne(id, n) == [identity |-> id, number |-> n - 2]
SubkeyKey(id, n) == [identity |-> id, number |-> n]

\* A 0x13 self-certification: its issuer, creation time, and its key
\* expiration and primary-User-ID subpackets.
Certs == [issuer : Nat, time : Nat, exp : Nat, primary : BOOLEAN]
\* A 0x18 subkey binding signature.
Bindings == [issuer : Nat, exp : Nat, flags : KeyFlags]

OwnUserId == [cert : Certs, isPrimary : BOOLEAN, isRevoked : BOOLEAN]
OwnSubkey == [key : Keys, creationTime : Nat, expirationSeconds : Nat,
              keyFlags : KeyFlags, binding : Bindings, isRevoked : BOOLEAN,
              secret : Passwords]

TypeOK ==
    /\ construction \in Constructions
    /\ ownKeyGenerated \in BOOLEAN
    /\ ownMaster \in Nat
    /\ ownMasterSecret \in Passwords \cup {NoPassword}
    /\ ownSubkey \in Keys
    /\ ownUserIds \in Seq(OwnUserId)
    /\ ownSubkeys \in Seq(OwnSubkey)
    /\ keyExpirationSeconds \in Nat
    /\ passwordCheckHash \in Passwords \cup {NoPassword}
    /\ now \in Nat
    /\ status \in Statuses

-----------------------------------------------------------------------------
Init ==
    /\ construction \in Constructions
    /\ ownKeyGenerated = FALSE
    /\ ownMaster = 0
    /\ ownMasterSecret = NoPassword
    /\ ownSubkey = MasterKey(0)
    /\ ownUserIds = <<>>
    /\ ownSubkeys = <<>>
    /\ keyExpirationSeconds = 0
    /\ passwordCheckHash = NoPassword
    /\ now = 0
    /\ status = "NO_ERROR"

\* A call that returns an error before it changed anything.
Refuse(code) == status' = code /\ UNCHANGED <<identityVars, now>>

\* Mutant: the password is not compared.
AuthorisedByAnyPassword(password) == ownKeyGenerated

\* Every mutator's two opening checks.
Authorised(password) == ownKeyGenerated /\ password = passwordCheckHash

\* Signing or encrypting produced an empty packet, or threw.
PacketFailure == Refuse("UNEXPECTED_ERROR")

\* signWithOwnMasterKey(0x13, ...): certExtraSubpackets and the time come from
\* the state of the call.
UserIdCert(master, exp, primary) ==
    [issuer |-> master, time |-> now, exp |-> exp, primary |-> primary]

\* Mutant: the expiration subpacket is forgotten.
SubkeyBindingWithoutExpiration(master, exp, flags) ==
    [issuer |-> master, exp |-> 0, flags |-> flags]

SubkeyBinding(master, exp, flags) ==
    [issuer |-> master, exp |-> exp, flags |-> flags]

RsaKeyBitsSupported ==
    construction.keyAlgorithm = "RSA" => construction.rsaKeyBits \in {1024, 2048, 3072, 4096}

NewSubkey(master, n, password, flags, exp) ==
    [key |-> SubkeyKey(master, n), creationTime |-> now,
     expirationSeconds |-> exp, keyFlags |-> flags,
     binding |-> SubkeyBinding(master, exp, flags), isRevoked |-> FALSE,
     secret |-> password]

SeededUserId(exp) ==
    [cert |-> UserIdCert(ownMaster + 1, exp, FALSE), isPrimary |-> TRUE, isRevoked |-> FALSE]

SeededSubkey(password, exp) == NewSubkey(ownMaster + 1, 1, password, {"encrypt"}, exp)

\* The part of the commit that is about the new key itself.
CommitKey(password, exp) ==
    /\ ownMaster' = ownMaster + 1
    /\ ownMasterSecret' = password
    /\ ownSubkey' = SubkeyKey(ownMaster + 1, 1)
    /\ keyExpirationSeconds' = exp
    /\ passwordCheckHash' = password
    /\ ownKeyGenerated' = TRUE
    /\ UNCHANGED construction

\* Mutant: the vectors are not cleared before they are seeded.
CommitIdentityWithoutClear(password, exp) ==
    /\ CommitKey(password, exp)
    /\ ownUserIds' = <<SeededUserId(exp)>>
    /\ ownSubkeys' = Append(ownSubkeys, SeededSubkey(password, exp))

CommitIdentity(password, exp) ==
    /\ CommitKey(password, exp)
    /\ ownUserIds' = <<SeededUserId(exp)>>
    /\ ownSubkeys' = <<SeededSubkey(password, exp)>>

\* GenerateKeyPair builds everything in locals and commits at the end, so a
\* failure keeps the previous identity and a success replaces all of it.
GenerateKeyPair(password, exp) ==
    \/ ~RsaKeyBitsSupported /\ Refuse("INVALID_ARGUMENT")
    \/ RsaKeyBitsSupported /\ PacketFailure
    \/ /\ RsaKeyBitsSupported
       /\ ownMaster < MaxIdentities
       /\ CommitIdentity(password, exp)
       /\ status' = "NO_ERROR"
       /\ UNCHANGED now

\* Mutants of WithPrimary: the flag of the others is not cleared; re-issuing a
\* certificate drops the revocation.
WithPrimaryKeepingOthers(uids, i) ==
    [uids EXCEPT ![i].cert = UserIdCert(ownMaster, keyExpirationSeconds, TRUE),
                 ![i].isPrimary = TRUE]
WithPrimaryUnrevoked(uids, i) ==
    [j \in DOMAIN uids |->
        IF j = i
        THEN [cert |-> UserIdCert(ownMaster, keyExpirationSeconds, TRUE),
              isPrimary |-> TRUE, isRevoked |-> FALSE]
        ELSE [uids[j] EXCEPT !.isPrimary = FALSE]]

\* SetPrimaryUserId re-certifies the target and moves the in-memory flag; the
\* certificates of the other User IDs are left as they are.
WithPrimary(uids, i) ==
    [j \in DOMAIN uids |->
        IF j = i
        THEN [uids[j] EXCEPT !.cert = UserIdCert(ownMaster, keyExpirationSeconds, TRUE),
                             !.isPrimary = TRUE]
        ELSE [uids[j] EXCEPT !.isPrimary = FALSE]]

WithNewUserId ==
    Append(ownUserIds, [cert |-> UserIdCert(ownMaster, keyExpirationSeconds, FALSE),
                        isPrimary |-> FALSE, isRevoked |-> FALSE])

SetOwnUserIds(uids, code) ==
    /\ ownUserIds' = uids
    /\ status' = code
    /\ UNCHANGED <<construction, ownKeyGenerated, ownMaster, ownMasterSecret, ownSubkey, ownSubkeys,
                   keyExpirationSeconds, passwordCheckHash, now>>

\* AddUserId pushes the new User ID before it calls SetPrimaryUserId: when that
\* nested call fails, its error is returned and the User ID stays.
AddUserId(password, makePrimary) ==
    \/ ~Authorised(password) /\ Refuse("INVALID_ARGUMENT")
    \/ Authorised(password) /\ PacketFailure
    \/ /\ Authorised(password)
       /\ Len(ownUserIds) < MaxUserIds
       /\ \/ ~makePrimary /\ SetOwnUserIds(WithNewUserId, "NO_ERROR")
          \/ /\ makePrimary
             /\ SetOwnUserIds(WithPrimary(WithNewUserId, Len(ownUserIds) + 1), "NO_ERROR")
          \/ makePrimary /\ SetOwnUserIds(WithNewUserId, "UNEXPECTED_ERROR")

RevokeUserId(password, i) ==
    \/ /\ ~Authorised(password) \/ i \notin DOMAIN ownUserIds
       /\ Refuse("INVALID_ARGUMENT")
    \/ Authorised(password) /\ i \in DOMAIN ownUserIds /\ PacketFailure
    \/ /\ Authorised(password)
       /\ i \in DOMAIN ownUserIds
       /\ SetOwnUserIds([ownUserIds EXCEPT ![i].isRevoked = TRUE], "NO_ERROR")

\* Mutant: the flags move before the new certificate is known to exist.
SetPrimaryUserIdFlagFirst(password, i) ==
    /\ Authorised(password)
    /\ i \in DOMAIN ownUserIds
    /\ \/ SetOwnUserIds(WithPrimary(ownUserIds, i), "NO_ERROR")
       \/ SetOwnUserIds([j \in DOMAIN ownUserIds |-> [ownUserIds[j] EXCEPT !.isPrimary = (j = i)]],
                        "UNEXPECTED_ERROR")

SetPrimaryUserId(password, i) ==
    \/ /\ ~Authorised(password) \/ i \notin DOMAIN ownUserIds
       /\ Refuse("INVALID_ARGUMENT")
    \/ Authorised(password) /\ i \in DOMAIN ownUserIds /\ PacketFailure
    \/ /\ Authorised(password)
       /\ i \in DOMAIN ownUserIds
       /\ SetOwnUserIds(WithPrimary(ownUserIds, i), "NO_ERROR")

SetOwnSubkeys(subkeys) ==
    /\ ownSubkeys' = subkeys
    /\ status' = "NO_ERROR"
    /\ UNCHANGED <<construction, ownKeyGenerated, ownMaster, ownMasterSecret, ownSubkey, ownUserIds,
                   keyExpirationSeconds, passwordCheckHash, now>>

\* The Ed25519 family has an encryption (0x0C) and a signing (0x02) subkey path only.
SubkeyFlagsSupported(flags) ==
    construction.keyAlgorithm = "ED25519_X25519" => flags \in {{"encrypt"}, {"sign"}}

AddSubkey(password, flags, exp) ==
    \/ ~Authorised(password) /\ Refuse("INVALID_ARGUMENT")
    \/ /\ Authorised(password)
       /\ ~SubkeyFlagsSupported(flags)
       /\ Refuse("NOT_IMPLEMENTED")
    \/ Authorised(password) /\ SubkeyFlagsSupported(flags) /\ PacketFailure
    \/ /\ Authorised(password)
       /\ SubkeyFlagsSupported(flags)
       /\ Len(ownSubkeys) < MaxSubkeys
       /\ SetOwnSubkeys(Append(ownSubkeys,
             NewSubkey(ownMaster, Len(ownSubkeys) + 1, password, flags, exp)))

RevokeSubkey(password, i) ==
    \/ /\ ~Authorised(password) \/ i \notin DOMAIN ownSubkeys
       /\ Refuse("INVALID_ARGUMENT")
    \/ Authorised(password) /\ i \in DOMAIN ownSubkeys /\ PacketFailure
    \/ /\ Authorised(password)
       /\ i \in DOMAIN ownSubkeys
       /\ SetOwnSubkeys([ownSubkeys EXCEPT ![i].isRevoked = TRUE])

\* Mutant: always the first User ID.
FirstUserIdIndex == 1

\* SetKeyExpiration's search: the first User ID marked primary, else the first.
PrimaryIndex ==
    IF \E i \in DOMAIN ownUserIds : ownUserIds[i].isPrimary
    THEN CHOOSE i \in DOMAIN ownUserIds :
            /\ ownUserIds[i].isPrimary
            /\ \A j \in DOMAIN ownUserIds : ownUserIds[j].isPrimary => i <= j
    ELSE 1

CommitPrimaryExpiration(exp) ==
    /\ ownUserIds' = [ownUserIds EXCEPT ![PrimaryIndex].cert =
                         UserIdCert(ownMaster, exp, ownUserIds[PrimaryIndex].isPrimary)]
    /\ keyExpirationSeconds' = exp
    /\ status' = "NO_ERROR"
    /\ UNCHANGED <<construction, ownKeyGenerated, ownMaster, ownMasterSecret, ownSubkey,
                   ownSubkeys, passwordCheckHash, now>>

\* SetKeyExpiration with subkeyIndex == -1.
SetPrimaryKeyExpiration(password, exp) ==
    \/ ~Authorised(password) /\ Refuse("INVALID_ARGUMENT")
    \/ Authorised(password) /\ PacketFailure
    \/ Authorised(password) /\ ownUserIds # <<>> /\ CommitPrimaryExpiration(exp)

\* SetKeyExpiration with an index into ownSubkeys.
SetSubkeyExpiration(password, i, exp) ==
    \/ /\ ~Authorised(password) \/ i \notin DOMAIN ownSubkeys
       /\ Refuse("INVALID_ARGUMENT")
    \/ Authorised(password) /\ i \in DOMAIN ownSubkeys /\ PacketFailure
    \/ /\ Authorised(password)
       /\ i \in DOMAIN ownSubkeys
       /\ SetOwnSubkeys([ownSubkeys EXCEPT
             ![i].binding = SubkeyBinding(ownMaster, exp, ownSubkeys[i].keyFlags),
             ![i].expirationSeconds = exp])

CommitPassword(new) ==
    /\ ownMasterSecret' = new
    /\ ownSubkeys' = [i \in DOMAIN ownSubkeys |-> [ownSubkeys[i] EXCEPT !.secret = new]]
    /\ passwordCheckHash' = new
    /\ status' = "NO_ERROR"
    /\ UNCHANGED <<construction, ownKeyGenerated, ownMaster, ownSubkey, ownUserIds,
                   keyExpirationSeconds, now>>

\* ChangePassword re-encrypts the master and every subkey into temporaries and
\* commits them with the new password hash.
ChangePassword(old, new) ==
    \/ ~Authorised(old) /\ Refuse("INVALID_ARGUMENT")
    \/ Authorised(old) /\ PacketFailure
    \/ Authorised(old) /\ CommitPassword(new)

\* The wall clock, in seconds; several calls may share a second.
Tick == now < MaxTime /\ now' = now + 1 /\ UNCHANGED <<identityVars, status>>

\* Calls that replace the identity, or change its subkeys or its password ...
KeyCall ==
    \E password \in Passwords :
        \/ \E exp \in Expirations : GenerateKeyPair(password, exp)
        \/ \E flags \in FlagChoices, exp \in Expirations : AddSubkey(password, flags, exp)
        \/ \E i \in 1 .. MaxSubkeys : RevokeSubkey(password, i)
        \/ \E i \in 1 .. MaxSubkeys, exp \in Expirations :
              SetSubkeyExpiration(password, i, exp)
        \/ \E new \in Passwords : ChangePassword(password, new)

\* ... and calls that change its User IDs and their certificates.
UserIdCall ==
    \E password \in Passwords :
        \/ \E makePrimary \in BOOLEAN : AddUserId(password, makePrimary)
        \/ \E i \in 1 .. MaxUserIds : RevokeUserId(password, i)
        \/ \E i \in 1 .. MaxUserIds : SetPrimaryUserId(password, i)
        \/ \E exp \in Expirations : SetPrimaryKeyExpiration(password, exp)

Next == KeyCall \/ UserIdCall \/ Tick

Spec == Init /\ [][Next]_vars

-----------------------------------------------------------------------------
(***************************************************************************)
(* Safety properties.                                                      *)
(***************************************************************************)

\* Every secret packet an ExportSecretKeyArmored would write opens under the one
\* password the identity currently answers to, whatever order AddSubkey,
\* ChangePassword (and failures of either) came in.
OnePassword ==
    ownKeyGenerated =>
        /\ ownMasterSecret = passwordCheckHash
        /\ \A i \in DOMAIN ownSubkeys : ownSubkeys[i].secret = passwordCheckHash

\* Exactly one User ID is marked primary (GetUserIdIsPrimary), also after an
\* AddUserId(makePrimary) that failed half way or a revoked primary.
UniquePrimary ==
    ownKeyGenerated =>
        \E i \in DOMAIN ownUserIds :
            \A j \in DOMAIN ownUserIds : ownUserIds[j].isPrimary <=> j = i

\* The primary User ID's exported certificate is the one a keyring resolves the
\* key by: it carries the expiration GetKeyExpirationSeconds reports, and no
\* other certificate that claims to be primary is newer. SetPrimaryUserId and
\* SetKeyExpiration(-1) re-sign only one User ID and rely on this.
PrimaryCertGoverns ==
    \A i \in DOMAIN ownUserIds : ownUserIds[i].isPrimary =>
        /\ ownUserIds[i].cert.exp = keyExpirationSeconds
        /\ \A j \in DOMAIN ownUserIds : ownUserIds[j].cert.primary =>
              /\ ownUserIds[i].cert.primary
              /\ ownUserIds[j].cert.time <= ownUserIds[i].cert.time

\* The exported block never mixes identities: every certificate and binding was
\* issued by the master key it is exported with, and every subkey belongs to it.
ExportedByOwnMaster ==
    /\ \A i \in DOMAIN ownUserIds : ownUserIds[i].cert.issuer = ownMaster
    /\ \A i \in DOMAIN ownSubkeys :
          /\ ownSubkeys[i].binding.issuer = ownMaster
          /\ ownSubkeys[i].key = SubkeyKey(ownMaster, i)

\* The flat ownSubkey* fields, which the decryption fast path and DecryptFile
\* use, are the key pair of ownSubkeys[0].
FlatSubkeyMirrors ==
    ownKeyGenerated => /\ ownSubkeys # <<>>
                       /\ ownSubkey = ownSubkeys[1].key

\* GetSubkeyExpirationSeconds and the stored key flags say what the exported
\* binding signature says.
BindingMatchesGetters ==
    \A i \in DOMAIN ownSubkeys :
        /\ ownSubkeys[i].binding.exp = ownSubkeys[i].expirationSeconds
        /\ ownSubkeys[i].binding.flags = ownSubkeys[i].keyFlags

\* While the identity is kept, a revocation is never taken back and no User ID
\* or subkey leaves the exported block or changes its place in it.
RevocationIsForever ==
    [][ownMaster' = ownMaster =>
          /\ \A i \in DOMAIN ownUserIds :
                /\ i \in DOMAIN ownUserIds'
                /\ ownUserIds[i].isRevoked => ownUserIds'[i].isRevoked
          /\ \A i \in DOMAIN ownSubkeys :
                /\ i \in DOMAIN ownSubkeys'
                /\ ownSubkeys'[i].key = ownSubkeys[i].key
                /\ ownSubkeys[i].isRevoked => ownSubkeys'[i].isRevoked]_vars

\* A call that reports an error leaves every entry that existed as it was: at
\* most AddUserId's own new, non-primary User ID stays behind.
ErrorKeepsIdentity ==
    [][status' # "NO_ERROR" /\ now' = now =>
          /\ \A i \in DOMAIN ownUserIds :
                i \in DOMAIN ownUserIds' /\ ownUserIds'[i] = ownUserIds[i]
          /\ \A i \in DOMAIN ownUserIds' :
                i \notin DOMAIN ownUserIds => ~ownUserIds'[i].isPrimary
          /\ UNCHANGED <<ownMaster, ownMasterSecret, ownSubkey, ownSubkeys,
                         keyExpirationSeconds, passwordCheckHash>>]_vars
=============================================================================
