---------------------------- MODULE PgpExchange ----------------------------
(***************************************************************************)
(* An identity (PgpIdentity) that goes on changing while a correspondent   *)
(* works from whatever copy of its public key block was imported last.     *)
(*                                                                         *)
(* The owner exports its block, signs and decrypts; the correspondent is a *)
(* second CPgpEngine that imports the block (possibly much later, and      *)
(* possibly after the owner changed it), encrypts to it and verifies       *)
(* signatures against it. One encrypted message or one detached signature  *)
(* is in flight at a time and may be consumed any number of times: the two *)
(* kinds never meet in the code.                                           *)
(***************************************************************************)
EXTENDS PgpIdentity

CONSTANT TimeModulus   \* std::uint32_t arithmetic on times wraps at this value

ASSUME TimeModulusAssumption == TimeModulus \in Nat \ {0}

VARIABLES
    keyBlock,    \* the public key block ExportPublicKeyArmored produced last
    peer,        \* the correspondent's peer* fields
    inFlight,    \* the message or signature in flight, and the key it names
    reply        \* what the last exchange call returned

exchangeVars == <<keyBlock, peer, inFlight, reply>>
allVars == <<vars, exchangeVars>>

NoKey == [identity |-> 0, number |-> 0]
NoReply == [op |-> "none", code |-> "NO_ERROR", isValid |-> FALSE]

PeerSubkey == [key : Keys, creationTime : Nat, keyFlags : KeyFlags,
               expirationSeconds : Nat, isRevoked : BOOLEAN]
Ops == {"none", "ExportPublicKeyArmored", "ImportPeerPublicKey", "Encrypt",
        "DecryptBuffer", "DecryptFile", "SignBuffer", "SignFile",
        "VerifyBuffer", "VerifyFile"}

\* The exchange part of the state is well formed: the cached block, the
\* correspondent's copy of it and the reply of the last call.
ExchangeTypeOK ==
    /\ TypeOK
    /\ keyBlock \in [master : Nat, subkeys : Seq(PeerSubkey)]
    /\ peer \in [imported : BOOLEAN, master : Nat, subkeys : Seq(PeerSubkey),
                 encryptTo : Keys, importedAt : Nat]
    /\ inFlight \in [kind : {"none", "message", "signature"}, key : Keys]
    /\ reply \in [op : Ops, code : Statuses \cup {"INVALID_DATA"}, isValid : BOOLEAN]

-----------------------------------------------------------------------------
(* Exporting: renderOwnKeyBlocks concatenates the cached packets. *)

\* Mutant: an off-by-one in the exported expiration.
ExportedSubkeyOffByOne(subkey) ==
    [key |-> subkey.key, creationTime |-> subkey.creationTime,
     keyFlags |-> subkey.binding.flags, expirationSeconds |-> subkey.binding.exp - 1,
     isRevoked |-> subkey.isRevoked]

ExportedSubkey(subkey) ==
    [key |-> subkey.key, creationTime |-> subkey.creationTime,
     keyFlags |-> subkey.binding.flags, expirationSeconds |-> subkey.binding.exp,
     isRevoked |-> subkey.isRevoked]

renderOwnKeyBlocks ==
    [master |-> ownMaster,
     subkeys |-> [i \in DOMAIN ownSubkeys |-> ExportedSubkey(ownSubkeys[i])]]

-----------------------------------------------------------------------------
(* Importing: which of a peer's subkeys to encrypt to. *)

\* creationTime + expirationSeconds <= now, in 32-bit unsigned arithmetic.
Expired(subkey) ==
    /\ subkey.expirationSeconds > 0
    /\ (subkey.creationTime + subkey.expirationSeconds) % TimeModulus <= now

\* The newest candidate; among equally new ones the first in the block.
Newest(subkeys, candidates) ==
    CHOOSE i \in candidates : \A j \in candidates :
        \/ subkeys[j].creationTime < subkeys[i].creationTime
        \/ subkeys[j].creationTime = subkeys[i].creationTime /\ i <= j

\* Mutant: revoked subkeys stay candidates.
UsableIgnoringRevocation(subkeys) == {i \in DOMAIN subkeys : ~Expired(subkeys[i])}

Usable(subkeys) ==
    {i \in DOMAIN subkeys : ~subkeys[i].isRevoked /\ ~Expired(subkeys[i])}

\* bestWithFlags, else bestAny; the caller's fallback is the RSA master key.
chooseBestPeerEncryptionSubkey(block) ==
    LET usable == Usable(block.subkeys)
        withFlags == {i \in usable : "encrypt" \in block.subkeys[i].keyFlags}
    IN  CASE withFlags # {} -> block.subkeys[Newest(block.subkeys, withFlags)].key
          [] withFlags = {} /\ usable # {} -> block.subkeys[Newest(block.subkeys, usable)].key
          [] withFlags = {} /\ usable = {} ->
                IF construction.keyAlgorithm = "RSA" THEN MasterKey(block.master) ELSE NoKey

\* Ed25519 signing subkeys have no X25519 point, so nothing can be encrypted to
\* them; RSA keys accept it whatever their flags say.
CanEncryptTo(key) ==
    /\ key # NoKey
    /\ construction.keyAlgorithm = "ED25519_X25519" =>
          \E i \in DOMAIN peer.subkeys :
              peer.subkeys[i].key = key /\ "sign" \notin peer.subkeys[i].keyFlags

-----------------------------------------------------------------------------
(* Signing and verifying. *)

\* Mutant: the revocation check is dropped.
SignCapableIgnoringRevocation == {i \in DOMAIN ownSubkeys : "sign" \in ownSubkeys[i].keyFlags}

SignCapable ==
    {i \in DOMAIN ownSubkeys : ~ownSubkeys[i].isRevoked /\ "sign" \in ownSubkeys[i].keyFlags}

\* The last subkey that may sign and is not revoked, else the master key.
selectActiveSigningKeyMaterial ==
    IF SignCapable = {} THEN MasterKey(ownMaster)
    ELSE ownSubkeys[CHOOSE i \in SignCapable : \A j \in SignCapable : j <= i].key

\* Mutants: verify with the master key only; take the issuer's word for it.
VerifyWithMasterOnly(issuer) == MasterKey(peer.master)
VerifyWithNamedIssuer(issuer) == issuer

\* The subkey the issuer names when it can verify, else the peer's master key.
selectPeerVerificationKeyMaterial(issuer) ==
    LET matching == {i \in DOMAIN peer.subkeys :
                        /\ peer.subkeys[i].key = issuer
                        /\ construction.keyAlgorithm = "RSA" \/ "sign" \in peer.subkeys[i].keyFlags}
    IN  IF issuer # MasterKey(peer.master) /\ matching # {}
        THEN issuer ELSE MasterKey(peer.master)

-----------------------------------------------------------------------------
(* Decrypting. *)

\* Mutant: only the flat fields are tried.
DecryptWithFlatSubkeyOnly(key) == key = ownSubkey

\* The flat fields first, then every subkey, revoked or expired ones too.
parseAndDecryptMessageWithAnyOwnSubkey(key) ==
    key = ownSubkey \/ \E i \in DOMAIN ownSubkeys : ownSubkeys[i].key = key

\* parseEncryptedFileHeader is given the flat fields only.
parseEncryptedFileHeader(key) == key = ownSubkey

-----------------------------------------------------------------------------
ExchangeInit ==
    /\ Init
    /\ keyBlock = [master |-> 0, subkeys |-> <<>>]
    /\ peer = [imported |-> FALSE, master |-> 0, subkeys |-> <<>>,
               encryptTo |-> NoKey, importedAt |-> 0]
    /\ inFlight = [kind |-> "none", key |-> NoKey]
    /\ reply = NoReply

Replies(op, code, valid) == reply' = [op |-> op, code |-> code, isValid |-> valid]

\* The getters that render the block return INVALID_ARGUMENT before a key exists.
ExportPublicKeyArmored ==
    /\ \/ /\ ~ownKeyGenerated
          /\ Replies("ExportPublicKeyArmored", "INVALID_ARGUMENT", FALSE)
          /\ UNCHANGED keyBlock
       \/ /\ ownKeyGenerated
          /\ keyBlock' = renderOwnKeyBlocks
          /\ Replies("ExportPublicKeyArmored", "NO_ERROR", FALSE)
    /\ UNCHANGED <<vars, peer, inFlight>>

\* ImportPeerPublicKey chooses the encryption key now and keeps the choice. It
\* does not look at parsed.haveSubkey.
ImportPeerPublicKey ==
    /\ keyBlock.master # 0
    /\ peer' = [imported |-> TRUE, master |-> keyBlock.master, subkeys |-> keyBlock.subkeys,
                encryptTo |-> chooseBestPeerEncryptionSubkey(keyBlock), importedAt |-> now]
    /\ Replies("ImportPeerPublicKey", "NO_ERROR", FALSE)
    /\ UNCHANGED <<vars, keyBlock, inFlight>>

\* EncryptBuffer, EncryptStringArmored or EncryptFile by the correspondent.
Encrypt ==
    /\ \/ /\ ~peer.imported
          /\ Replies("Encrypt", "INVALID_ARGUMENT", FALSE)
          /\ UNCHANGED inFlight
       \/ /\ peer.imported
          /\ ~CanEncryptTo(peer.encryptTo)
          /\ Replies("Encrypt", "UNEXPECTED_ERROR", FALSE)
          /\ UNCHANGED inFlight
       \/ /\ peer.imported
          /\ CanEncryptTo(peer.encryptTo)
          /\ inFlight' = [kind |-> "message", key |-> peer.encryptTo]
          /\ Replies("Encrypt", "NO_ERROR", FALSE)
    /\ UNCHANGED <<vars, keyBlock, peer>>

Decrypt(op, password, opens) ==
    /\ inFlight.kind = "message"
    /\ \/ /\ ~Authorised(password)
          /\ Replies(op, "INVALID_ARGUMENT", FALSE)
       \/ /\ Authorised(password)
          /\ opens
          /\ Replies(op, "NO_ERROR", FALSE)
       \/ /\ Authorised(password)
          /\ ~opens
          /\ Replies(op, "INVALID_DATA", FALSE)
    /\ UNCHANGED <<vars, keyBlock, peer, inFlight>>

DecryptBuffer(password) ==
    Decrypt("DecryptBuffer", password, parseAndDecryptMessageWithAnyOwnSubkey(inFlight.key))

DecryptFile(password) ==
    Decrypt("DecryptFile", password, parseEncryptedFileHeader(inFlight.key))

Sign(op, password, key) ==
    /\ \/ /\ ~Authorised(password)
          /\ Replies(op, "INVALID_ARGUMENT", FALSE)
          /\ UNCHANGED inFlight
       \/ /\ Authorised(password)
          /\ inFlight' = [kind |-> "signature", key |-> key]
          /\ Replies(op, "NO_ERROR", FALSE)
    /\ UNCHANGED <<vars, keyBlock, peer>>

\* SignBuffer and ClearSignString pick the newest signing subkey ...
SignBuffer(password) == Sign("SignBuffer", password, selectActiveSigningKeyMaterial)
\* ... SignFile always signs with the master key.
SignFile(password) == Sign("SignFile", password, MasterKey(ownMaster))

Verify(op, key) ==
    /\ inFlight.kind = "signature"
    /\ \/ /\ ~peer.imported
          /\ Replies(op, "INVALID_ARGUMENT", FALSE)
       \/ /\ peer.imported
          /\ Replies(op, "NO_ERROR", key = inFlight.key)
    /\ UNCHANGED <<vars, keyBlock, peer, inFlight>>

VerifyBuffer == Verify("VerifyBuffer", selectPeerVerificationKeyMaterial(inFlight.key))
\* VerifyFile is given the peer's master key only.
VerifyFile == Verify("VerifyFile", MasterKey(peer.master))

\* A mutator of the identity, or the passing of time. Left out is what touches
\* nothing any operation of this module reads: the calls that change User IDs only
\* (UserIdCall), and a KeyCall that fails (ErrorKeepsIdentity).
OwnerStep ==
    /\ KeyCall \/ Tick
    /\ status' = "NO_ERROR"
    /\ reply' = NoReply
    /\ UNCHANGED <<keyBlock, peer, inFlight>>

ExchangeNext ==
    \/ OwnerStep
    \/ ExportPublicKeyArmored
    \/ ImportPeerPublicKey
    \/ Encrypt
    \/ \E password \in Passwords :
          DecryptBuffer(password) \/ DecryptFile(password) \/ SignBuffer(password) \/ SignFile(password)
    \/ VerifyBuffer
    \/ VerifyFile

ExchangeSpec == ExchangeInit /\ [][ExchangeNext]_allVars

-----------------------------------------------------------------------------
(***************************************************************************)
(* Properties. "reply" is reset by every owner step, so an invariant about *)
(* it speaks of the state the call was made in.                            *)
(***************************************************************************)

\* DecryptBuffer opens exactly the messages addressed to one of the current
\* identity's subkeys, however old the correspondent's copy of the key block is
\* and whatever was revoked, expired, re-bound or re-encrypted since.
BufferMessageOpens ==
    reply.op = "DecryptBuffer" /\ reply.code \in {"NO_ERROR", "INVALID_DATA"} =>
        (reply.code = "NO_ERROR" <=> /\ inFlight.key.identity = ownMaster
                                     /\ inFlight.key.number # 0)

\* A signature verifies at a correspondent whose copy of the block is of the same
\* identity and recent enough to list the signing subkey, even when that subkey
\* was added, revoked or superseded around the export.
SignatureVerifies ==
    (/\ reply.op = "VerifyBuffer"
     /\ reply.code = "NO_ERROR"
     /\ inFlight.key.identity = peer.master
     /\ inFlight.key.number <= Len(peer.subkeys))
        => reply.isValid

\* A signature of another identity, or of a subkey the copy does not list yet,
\* is reported invalid, never valid.
UnknownSignerIsInvalid ==
    (/\ reply.op \in {"VerifyBuffer", "VerifyFile"}
     /\ \/ inFlight.key.identity # peer.master
        \/ inFlight.key.number > Len(peer.subkeys))
        => ~reply.isValid

\* SignBuffer signs for the current identity, never with a revoked subkey, and
\* with no signing subkey added later left unused.
SignsWithNewestSubkey ==
    reply.op = "SignBuffer" /\ reply.code = "NO_ERROR" =>
        /\ inFlight.key.identity = ownMaster
        /\ inFlight.key.number # 0 => ~ownSubkeys[inFlight.key.number].isRevoked
        /\ \A i \in DOMAIN ownSubkeys :
              "sign" \in ownSubkeys[i].keyFlags /\ ~ownSubkeys[i].isRevoked
                  => i <= inFlight.key.number

\* Ends of validity in exact arithmetic, for the subkeys of the imported copy.
ExpiredAt(subkey, t) ==
    subkey.expirationSeconds > 0 /\ subkey.creationTime + subkey.expirationSeconds <= t

UsableAtImport ==
    {i \in DOMAIN peer.subkeys : /\ "encrypt" \in peer.subkeys[i].keyFlags
                                 /\ ~peer.subkeys[i].isRevoked
                                 /\ ~ExpiredAt(peer.subkeys[i], peer.importedAt)}

\* The key a correspondent encrypts to is not revoked in, and had not expired at
\* the import of, its copy of the block; and while that copy has an encryption
\* subkey that is neither, it is the newest such subkey.
EncryptsToBestSubkey ==
    peer.imported =>
        /\ peer.encryptTo.number # 0 =>
              LET chosen == peer.subkeys[peer.encryptTo.number]
              IN  ~chosen.isRevoked /\ ~ExpiredAt(chosen, peer.importedAt)
        /\ UsableAtImport # {} =>
              /\ peer.encryptTo.number \in UsableAtImport
              /\ \A i \in UsableAtImport : peer.subkeys[i].creationTime <=
                    peer.subkeys[peer.encryptTo.number].creationTime

\* What PgpEngine.h says of the own-identity helpers ("Decrypt* all use these"):
\* DecryptFile opens whatever DecryptBuffer opens.
FileMessageOpens ==
    reply.op = "DecryptFile" /\ reply.code = "INVALID_DATA" =>
        ~parseAndDecryptMessageWithAnyOwnSubkey(inFlight.key)

\* What the fallback of parsePeerPublicKeyBlock is for: a message the engine
\* itself addressed to the (RSA) master key, whose Key ID is the instance's own,
\* can be opened by its owner.
MasterMessageOpens ==
    (/\ reply.op = "DecryptBuffer"
     /\ inFlight.key.identity = ownMaster
     /\ inFlight.key.number = 0)
        => reply.code # "INVALID_DATA"

\* What chooseBestPeerEncryptionSubkey's comment says: flags are only ignored when
\* no candidate carries any. Every binding of this engine carries them.
EncryptFlagRespected ==
    peer.imported /\ peer.encryptTo.number # 0 =>
        "encrypt" \in peer.subkeys[peer.encryptTo.number].keyFlags

\* What PgpEngine.h says of expirationSeconds ("how many seconds after this call's
\* creation timestamp the key expires"): a correspondent does not drop an
\* encryption subkey before that time.
ExpirationIsExact ==
    peer.imported /\ UsableAtImport # {} => peer.encryptTo.number \in UsableAtImport
=============================================================================
