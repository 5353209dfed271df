------------------------- MODULE PgpExchangeProofs -------------------------
(***************************************************************************)
(* Proofs about PgpIdentity and PgpExchange, for every number of           *)
(* identities, User IDs, subkeys, passwords and seconds. First the         *)
(* identity by itself, Spec; then what the correspondent's copy of a key   *)
(* block, however old, still has in common with the identity it was taken  *)
(* from, ExchangeSpec.                                                     *)
(***************************************************************************)
EXTENDS PgpExchange, NaturalOrder

-----------------------------------------------------------------------------
(* The identity: every call either refuses or has one of these effects. *)

\* A call that succeeded before the effect below was reached had checked the
\* password, so the effects other than CommitIdentity happen to a live identity.
Effect ==
    \/ \E code \in Statuses : Refuse(code)
    \/ \E password \in Passwords, exp \in Expirations :
          CommitIdentity(password, exp) /\ status' = "NO_ERROR" /\ UNCHANGED now
    \/ /\ ownKeyGenerated
       /\ \E code \in Statuses : SetOwnUserIds(WithNewUserId, code)
    \/ /\ ownKeyGenerated
       /\ SetOwnUserIds(WithPrimary(WithNewUserId, Len(ownUserIds) + 1), "NO_ERROR")
    \/ /\ ownKeyGenerated
       /\ \E i \in DOMAIN ownUserIds :
             SetOwnUserIds([ownUserIds EXCEPT ![i].isRevoked = TRUE], "NO_ERROR")
    \/ /\ ownKeyGenerated
       /\ \E i \in DOMAIN ownUserIds : SetOwnUserIds(WithPrimary(ownUserIds, i), "NO_ERROR")
    \/ /\ ownKeyGenerated
       /\ ownUserIds # <<>>
       /\ \E exp \in Expirations : CommitPrimaryExpiration(exp)
    \/ \E password \in Passwords, flags \in FlagChoices, exp \in Expirations :
          /\ Authorised(password)
          /\ SetOwnSubkeys(Append(ownSubkeys,
                NewSubkey(ownMaster, Len(ownSubkeys) + 1, password, flags, exp)))
    \/ /\ ownKeyGenerated
       /\ \E i \in DOMAIN ownSubkeys : SetOwnSubkeys([ownSubkeys EXCEPT ![i].isRevoked = TRUE])
    \/ /\ ownKeyGenerated
       /\ \E i \in DOMAIN ownSubkeys, exp \in Expirations :
             SetOwnSubkeys([ownSubkeys EXCEPT
                ![i].binding = SubkeyBinding(ownMaster, exp, ownSubkeys[i].keyFlags),
                ![i].expirationSeconds = exp])
    \/ ownKeyGenerated /\ \E new \in Passwords : CommitPassword(new)
    \/ Tick

\* Every call of the public interface has one of these effects.
LEMMA NextHasEffect == Next => Effect
<1> SUFFICES ASSUME Next PROVE Effect
  OBVIOUS
<1> USE DEF Statuses, PacketFailure, Authorised
<1>1. CASE Tick
  BY <1>1 DEF Effect
<1>2. ASSUME NEW password \in Passwords, NEW exp \in Expirations, GenerateKeyPair(password, exp)
      PROVE  Effect
  BY <1>2 DEF GenerateKeyPair, Effect
<1>3. ASSUME NEW password \in Passwords, NEW flags \in FlagChoices, NEW exp \in Expirations,
             AddSubkey(password, flags, exp)
      PROVE  Effect
  BY <1>3 DEF AddSubkey, Effect
<1>4. ASSUME NEW password \in Passwords, NEW i \in 1 .. MaxSubkeys, RevokeSubkey(password, i)
      PROVE  Effect
  BY <1>4 DEF RevokeSubkey, Effect
<1>5. ASSUME NEW password \in Passwords, NEW i \in 1 .. MaxSubkeys, NEW exp \in Expirations,
             SetSubkeyExpiration(password, i, exp)
      PROVE  Effect
  BY <1>5 DEF SetSubkeyExpiration, Effect
<1>6. ASSUME NEW password \in Passwords, NEW new \in Passwords, ChangePassword(password, new)
      PROVE  Effect
  BY <1>6 DEF ChangePassword, Effect
<1>7. ASSUME NEW password \in Passwords, NEW makePrimary \in BOOLEAN,
             AddUserId(password, makePrimary)
      PROVE  Effect
  BY <1>7 DEF AddUserId, Effect
<1>8. ASSUME NEW password \in Passwords, NEW i \in 1 .. MaxUserIds, RevokeUserId(password, i)
      PROVE  Effect
  BY <1>8 DEF RevokeUserId, Effect
<1>9. ASSUME NEW password \in Passwords, NEW i \in 1 .. MaxUserIds, SetPrimaryUserId(password, i)
      PROVE  Effect
  BY <1>9 DEF SetPrimaryUserId, Effect
<1>10. ASSUME NEW password \in Passwords, NEW exp \in Expirations,
              SetPrimaryKeyExpiration(password, exp)
       PROVE  Effect
  BY <1>10 DEF SetPrimaryKeyExpiration, Effect
<1> QED
  BY <1>1, <1>2, <1>3, <1>4, <1>5, <1>6, <1>7, <1>8, <1>9, <1>10 DEF Next, KeyCall, UserIdCall

-----------------------------------------------------------------------------
(* Types. *)

\* A function on the positions of a sequence is a sequence of its values.
LEMMA SeqMap ==
    ASSUME NEW S, NEW T, NEW s \in Seq(S), NEW f \in [DOMAIN s -> T]
    PROVE  f \in Seq(T) /\ Len(f) = Len(s)
  OBVIOUS

\* Append lengthens a sequence by one and keeps what was there (push_back).
LEMMA AppendFacts ==
    ASSUME NEW S, NEW s \in Seq(S), NEW e \in S
    PROVE  /\ Append(s, e) \in Seq(S)
           /\ Len(Append(s, e)) = Len(s) + 1
           /\ \A i \in DOMAIN s : Append(s, e)[i] = s[i]
           /\ Append(s, e)[Len(s) + 1] = e
  OBVIOUS

\* A self-certification built by signWithOwnMasterKey is a Cert.
LEMMA UserIdCertType ==
    ASSUME TypeOK, NEW master \in Nat, NEW exp \in Nat, NEW primary \in BOOLEAN
    PROVE  UserIdCert(master, exp, primary) \in Certs
  BY DEF TypeOK, UserIdCert, Certs

\* A subkey built by GenerateKeyPair or AddSubkey is an OwnSubkey.
LEMMA NewSubkeyType ==
    ASSUME TypeOK, NEW master \in Nat, NEW n \in Nat, NEW password \in Passwords,
           NEW flags \in KeyFlags, NEW exp \in Nat
    PROVE  NewSubkey(master, n, password, flags, exp) \in OwnSubkey
  BY DEF TypeOK, NewSubkey, SubkeyBinding, SubkeyKey, Keys, Bindings, OwnSubkey

\* AddUserId's new list of User IDs is well formed.
LEMMA WithNewUserIdType ==
    ASSUME TypeOK
    PROVE  /\ WithNewUserId \in Seq(OwnUserId)
           /\ Len(WithNewUserId) = Len(ownUserIds) + 1
           /\ \A i \in DOMAIN ownUserIds : WithNewUserId[i] = ownUserIds[i]
           /\ WithNewUserId[Len(ownUserIds) + 1] =
                 [cert |-> UserIdCert(ownMaster, keyExpirationSeconds, FALSE),
                  isPrimary |-> FALSE, isRevoked |-> FALSE]
<1> DEFINE new == [cert |-> UserIdCert(ownMaster, keyExpirationSeconds, FALSE),
                   isPrimary |-> FALSE, isRevoked |-> FALSE]
<1>1. new \in OwnUserId
  BY UserIdCertType DEF TypeOK, OwnUserId
<1>2. WithNewUserId = Append(ownUserIds, new) /\ ownUserIds \in Seq(OwnUserId)
  BY DEF TypeOK, WithNewUserId
<1> HIDE DEF new
<1>3. /\ Append(ownUserIds, new) \in Seq(OwnUserId)
      /\ Len(Append(ownUserIds, new)) = Len(ownUserIds) + 1
      /\ \A i \in DOMAIN ownUserIds : Append(ownUserIds, new)[i] = ownUserIds[i]
      /\ Append(ownUserIds, new)[Len(ownUserIds) + 1] = new
  BY <1>1, <1>2, AppendFacts
<1> QED
  BY <1>2, <1>3, Zenon DEF new

\* SetPrimaryUserId's new list of User IDs is well formed.
LEMMA WithPrimaryType ==
    ASSUME TypeOK, NEW uids \in Seq(OwnUserId), NEW i \in DOMAIN uids
    PROVE  /\ WithPrimary(uids, i) \in Seq(OwnUserId)
           /\ DOMAIN WithPrimary(uids, i) = DOMAIN uids
<1>1. UserIdCert(ownMaster, keyExpirationSeconds, TRUE) \in Certs
  BY UserIdCertType DEF TypeOK
<1>2. ASSUME NEW j \in DOMAIN uids
      PROVE  WithPrimary(uids, i)[j] \in OwnUserId
  <2>1. uids[j] \in OwnUserId
    BY <1>2
  <2> QED
    BY <1>1, <2>1 DEF WithPrimary, OwnUserId
<1>3. WithPrimary(uids, i) \in [DOMAIN uids -> OwnUserId]
  BY <1>2 DEF WithPrimary
<1> QED
  BY <1>3, SeqMap

\* Marking an entry revoked, or re-issuing one of its packets, keeps its type.
LEMMA UserIdUpdateType ==
    ASSUME NEW uids \in Seq(OwnUserId), NEW i \in DOMAIN uids, NEW c \in Certs
    PROVE  /\ [uids EXCEPT ![i].isRevoked = TRUE] \in Seq(OwnUserId)
           /\ [uids EXCEPT ![i].cert = c] \in Seq(OwnUserId)
<1>1. uids[i] \in OwnUserId
  OBVIOUS
<1>2. /\ [uids[i] EXCEPT !.isRevoked = TRUE] \in OwnUserId
      /\ [uids[i] EXCEPT !.cert = c] \in OwnUserId
  BY <1>1 DEF OwnUserId
<1> QED
  BY <1>2, SeqMap

\* Revoking a subkey, or re-issuing its binding or secret, keeps its type.
LEMMA SubkeyUpdateType ==
    ASSUME NEW subkeys \in Seq(OwnSubkey), NEW i \in DOMAIN subkeys,
           NEW master \in Nat, NEW exp \in Nat
    PROVE  /\ [subkeys EXCEPT ![i].isRevoked = TRUE] \in Seq(OwnSubkey)
           /\ [subkeys EXCEPT
                 ![i].binding = SubkeyBinding(master, exp, subkeys[i].keyFlags),
                 ![i].expirationSeconds = exp] \in Seq(OwnSubkey)
<1>1. subkeys[i] \in OwnSubkey
  OBVIOUS
<1>2. /\ [subkeys[i] EXCEPT !.isRevoked = TRUE] \in OwnSubkey
      /\ [subkeys[i] EXCEPT !.binding = SubkeyBinding(master, exp, subkeys[i].keyFlags),
                            !.expirationSeconds = exp] \in OwnSubkey
  BY <1>1 DEF OwnSubkey, SubkeyBinding, Bindings
<1>3. [subkeys EXCEPT ![i].isRevoked = TRUE] \in Seq(OwnSubkey)
  BY <1>2, SeqMap
<1>4. [subkeys EXCEPT
         ![i].binding = SubkeyBinding(master, exp, subkeys[i].keyFlags),
         ![i].expirationSeconds = exp]
       = [subkeys EXCEPT ![i] = [subkeys[i] EXCEPT
             !.binding = SubkeyBinding(master, exp, subkeys[i].keyFlags),
             !.expirationSeconds = exp]]
  OBVIOUS
<1> QED
  BY <1>2, <1>3, <1>4, SeqMap

\* SetKeyExpiration's search finds the one primary User ID.
LEMMA PrimaryIndexIsPrimary ==
    ASSUME TypeOK, UniquePrimary, ownKeyGenerated
    PROVE  /\ PrimaryIndex \in DOMAIN ownUserIds
           /\ \A j \in DOMAIN ownUserIds : ownUserIds[j].isPrimary <=> j = PrimaryIndex
<1>1. PICK i \in DOMAIN ownUserIds :
          \A j \in DOMAIN ownUserIds : ownUserIds[j].isPrimary <=> j = i
  BY DEF UniquePrimary
<1>2. i \in Nat
  BY DEF TypeOK
<1>3. /\ ownUserIds[i].isPrimary
      /\ \A j \in DOMAIN ownUserIds : ownUserIds[j].isPrimary => i <= j
  BY <1>1, <1>2
<1>4. PrimaryIndex = CHOOSE k \in DOMAIN ownUserIds :
          /\ ownUserIds[k].isPrimary
          /\ \A j \in DOMAIN ownUserIds : ownUserIds[j].isPrimary => k <= j
  BY <1>3, Zenon DEF PrimaryIndex
<1>5. /\ PrimaryIndex \in DOMAIN ownUserIds
      /\ ownUserIds[PrimaryIndex].isPrimary
  BY <1>3, <1>4, Zenon
<1> QED
  BY <1>1, <1>5, Zenon

\* Every call keeps the types of the fields.
LEMMA TypeStep ==
    ASSUME TypeOK, UniquePrimary, Effect
    PROVE  TypeOK'
<1> USE PgpConstantsAssumption
<1>1. ASSUME NEW code \in Statuses, Refuse(code)
      PROVE  TypeOK'
  BY <1>1 DEF TypeOK, Refuse, identityVars
<1>2. ASSUME NEW password \in Passwords, NEW exp \in Expirations,
             CommitIdentity(password, exp), status' = "NO_ERROR", UNCHANGED now
      PROVE  TypeOK'
  <2>1. ownMaster + 1 \in Nat /\ exp \in Nat
    BY DEF TypeOK
  <2>2. SeededSubkey(password, exp) \in OwnSubkey
    <3>1. {"encrypt"} \in KeyFlags
      BY DEF KeyFlags
    <3> QED
      BY <2>1, <3>1, NewSubkeyType DEF SeededSubkey
  <2>3. SeededUserId(exp) \in OwnUserId
    BY <2>1, UserIdCertType DEF SeededUserId, OwnUserId
  <2>4. ownUserIds' \in Seq(OwnUserId) /\ ownSubkeys' \in Seq(OwnSubkey)
    BY <1>2, <2>2, <2>3 DEF CommitIdentity
  <2>5. ownSubkey' \in Keys
    BY <1>2, <2>1 DEF CommitIdentity, CommitKey, SubkeyKey, Keys
  <2> QED
    BY <1>2, <2>1, <2>4, <2>5 DEF TypeOK, CommitIdentity, CommitKey, Statuses
<1>3. ASSUME NEW uids \in Seq(OwnUserId), NEW code \in Statuses, SetOwnUserIds(uids, code)
      PROVE  TypeOK'
  BY <1>3 DEF TypeOK, SetOwnUserIds
<1>4. ASSUME NEW code \in Statuses, SetOwnUserIds(WithNewUserId, code)
      PROVE  TypeOK'
  BY <1>3, <1>4, WithNewUserIdType
<1> "NO_ERROR" \in Statuses
  BY DEF Statuses
<1>5. ASSUME SetOwnUserIds(WithPrimary(WithNewUserId, Len(ownUserIds) + 1), "NO_ERROR")
      PROVE  TypeOK'
  <2>1. Len(ownUserIds) + 1 \in DOMAIN WithNewUserId
    BY WithNewUserIdType DEF TypeOK
  <2> QED
    BY <1>3, <1>5, <2>1, WithNewUserIdType, WithPrimaryType
<1>6. ASSUME NEW i \in DOMAIN ownUserIds,
             SetOwnUserIds([ownUserIds EXCEPT ![i].isRevoked = TRUE], "NO_ERROR")
      PROVE  TypeOK'
  <2>1. ownUserIds \in Seq(OwnUserId) /\ ownUserIds[i] \in OwnUserId
    BY DEF TypeOK
  <2>2. ownUserIds[i].cert \in Certs
    BY <2>1 DEF OwnUserId
  <2>3. [ownUserIds EXCEPT ![i].isRevoked = TRUE] \in Seq(OwnUserId)
    BY <2>1, <2>2, UserIdUpdateType
  <2> QED
    BY <1>3, <1>6, <2>3
<1>7. ASSUME NEW i \in DOMAIN ownUserIds, SetOwnUserIds(WithPrimary(ownUserIds, i), "NO_ERROR")
      PROVE  TypeOK'
  BY <1>3, <1>7, WithPrimaryType DEF TypeOK
<1>8. ASSUME ownKeyGenerated, NEW exp \in Expirations, CommitPrimaryExpiration(exp)
      PROVE  TypeOK'
  <2>1. PrimaryIndex \in DOMAIN ownUserIds
    BY <1>8, PrimaryIndexIsPrimary
  <2>2. ownUserIds[PrimaryIndex] \in OwnUserId
    BY <2>1 DEF TypeOK
  <2>3. ownUserIds[PrimaryIndex].isPrimary \in BOOLEAN
    BY <2>2 DEF OwnUserId
  <2>4. UserIdCert(ownMaster, exp, ownUserIds[PrimaryIndex].isPrimary) \in Certs
    BY <2>3, UserIdCertType DEF TypeOK
  <2>5. ownUserIds' \in Seq(OwnUserId)
    BY <1>8, <2>1, <2>4, UserIdUpdateType DEF CommitPrimaryExpiration, TypeOK
  <2> QED
    BY <1>8, <2>5 DEF TypeOK, CommitPrimaryExpiration
<1>9. ASSUME NEW subkeys \in Seq(OwnSubkey), SetOwnSubkeys(subkeys)
      PROVE  TypeOK'
  BY <1>9 DEF TypeOK, SetOwnSubkeys
<1>10. ASSUME NEW password \in Passwords, NEW flags \in FlagChoices, NEW exp \in Expirations,
              SetOwnSubkeys(Append(ownSubkeys,
                 NewSubkey(ownMaster, Len(ownSubkeys) + 1, password, flags, exp)))
       PROVE  TypeOK'
  <2>1. NewSubkey(ownMaster, Len(ownSubkeys) + 1, password, flags, exp) \in OwnSubkey
    BY NewSubkeyType DEF TypeOK, KeyFlags
  <2> QED
    BY <1>9, <1>10, <2>1, AppendFacts DEF TypeOK
<1>11. ASSUME NEW i \in DOMAIN ownSubkeys,
              SetOwnSubkeys([ownSubkeys EXCEPT ![i].isRevoked = TRUE])
       PROVE  TypeOK'
  BY <1>9, <1>11, SubkeyUpdateType DEF TypeOK
<1>12. ASSUME NEW i \in DOMAIN ownSubkeys, NEW exp \in Expirations,
              SetOwnSubkeys([ownSubkeys EXCEPT
                 ![i].binding = SubkeyBinding(ownMaster, exp, ownSubkeys[i].keyFlags),
                 ![i].expirationSeconds = exp])
       PROVE  TypeOK'
  BY <1>9, <1>12, SubkeyUpdateType DEF TypeOK
<1>13. ASSUME NEW new \in Passwords, CommitPassword(new)
       PROVE  TypeOK'
  <2>1. ASSUME NEW i \in DOMAIN ownSubkeys
        PROVE  [ownSubkeys[i] EXCEPT !.secret = new] \in OwnSubkey
    <3>1. ownSubkeys[i] \in OwnSubkey
      BY <2>1 DEF TypeOK
    <3> QED
      BY <3>1 DEF OwnSubkey
  <2>2. ownSubkeys' \in Seq(OwnSubkey)
    BY <1>13, <2>1, SeqMap DEF TypeOK, CommitPassword
  <2> QED
    BY <1>13, <2>2 DEF TypeOK, CommitPassword, Statuses
<1>14. CASE Tick
  BY <1>14 DEF TypeOK, Tick, identityVars
<1> QED
  BY <1>1, <1>2, <1>4, <1>5, <1>6, <1>7, <1>8, <1>10, <1>11, <1>12, <1>13, <1>14 DEF Effect

-----------------------------------------------------------------------------
(* The User IDs: their flags and what their certificates say. *)

\* Every call leaves exactly one User ID marked primary.
LEMMA UniquePrimaryStep ==
    ASSUME TypeOK, UniquePrimary, Effect
    PROVE  UniquePrimary'
<1>1. ASSUME UNCHANGED <<ownKeyGenerated, ownUserIds>>
      PROVE  UniquePrimary'
  BY <1>1 DEF UniquePrimary
<1>2. ASSUME NEW password \in Passwords, NEW exp \in Expirations, CommitIdentity(password, exp)
      PROVE  UniquePrimary'
  <2>1. ownUserIds' = <<SeededUserId(exp)>> /\ SeededUserId(exp).isPrimary
    BY <1>2 DEF CommitIdentity, SeededUserId
  <2>2. 1 \in DOMAIN ownUserIds' /\ \A j \in DOMAIN ownUserIds' : j = 1 /\ ownUserIds'[j].isPrimary
    BY <2>1
  <2> QED
    BY <2>2 DEF UniquePrimary
<1>3. ASSUME ownKeyGenerated, NEW code \in Statuses, SetOwnUserIds(WithNewUserId, code)
      PROVE  UniquePrimary'
  <2>1. PICK i \in DOMAIN ownUserIds :
            \A j \in DOMAIN ownUserIds : ownUserIds[j].isPrimary <=> j = i
    BY <1>3 DEF UniquePrimary
  <2>2. ~WithNewUserId[Len(ownUserIds) + 1].isPrimary
    BY WithNewUserIdType
  <2>3. i \in DOMAIN WithNewUserId /\ i # Len(ownUserIds) + 1
    BY WithNewUserIdType DEF TypeOK
  <2>4. ASSUME NEW j \in DOMAIN WithNewUserId, j # Len(ownUserIds) + 1
        PROVE  j \in DOMAIN ownUserIds
    BY <2>4, WithNewUserIdType DEF TypeOK
  <2>5. \A j \in DOMAIN WithNewUserId : WithNewUserId[j].isPrimary <=> j = i
    BY <2>1, <2>2, <2>3, <2>4, WithNewUserIdType, Zenon
  <2> QED
    BY <1>3, <2>3, <2>5, Zenon DEF UniquePrimary, SetOwnUserIds
<1>4. ASSUME NEW uids \in Seq(OwnUserId), NEW i \in DOMAIN uids,
             SetOwnUserIds(WithPrimary(uids, i), "NO_ERROR")
      PROVE  UniquePrimary'
  <2>1. DOMAIN WithPrimary(uids, i) = DOMAIN uids
    BY DEF WithPrimary
  <2>2. ASSUME NEW j \in DOMAIN uids
        PROVE  WithPrimary(uids, i)[j].isPrimary <=> j = i
    <3>1. uids[j] \in OwnUserId
      BY <2>2
    <3> QED
      BY <3>1 DEF WithPrimary, OwnUserId
  <2>3. ownUserIds' = WithPrimary(uids, i)
    BY <1>4 DEF SetOwnUserIds
  <2>4. i \in DOMAIN ownUserIds' /\ \A j \in DOMAIN ownUserIds' : ownUserIds'[j].isPrimary <=> j = i
    BY <2>1, <2>2, <2>3
  <2> QED
    BY <2>4 DEF UniquePrimary
<1>5. ASSUME DOMAIN ownUserIds' = DOMAIN ownUserIds, UNCHANGED ownKeyGenerated,
             \A j \in DOMAIN ownUserIds : ownUserIds'[j].isPrimary = ownUserIds[j].isPrimary
      PROVE  UniquePrimary'
  <2> SUFFICES ASSUME ownKeyGenerated
               PROVE  \E i \in DOMAIN ownUserIds' :
                          \A j \in DOMAIN ownUserIds' : ownUserIds'[j].isPrimary <=> j = i
    BY <1>5 DEF UniquePrimary
  <2>1. PICK i \in DOMAIN ownUserIds :
            \A j \in DOMAIN ownUserIds : ownUserIds[j].isPrimary <=> j = i
    BY DEF UniquePrimary
  <2> QED
    BY <1>5, <2>1
<1>6. ASSUME NEW i \in DOMAIN ownUserIds,
             SetOwnUserIds([ownUserIds EXCEPT ![i].isRevoked = TRUE], "NO_ERROR")
      PROVE  UniquePrimary'
  <2>1. ownUserIds' = [ownUserIds EXCEPT ![i].isRevoked = TRUE]
    BY <1>6 DEF SetOwnUserIds
  <2>2. ASSUME NEW j \in DOMAIN ownUserIds
        PROVE  ownUserIds'[j].isPrimary = ownUserIds[j].isPrimary
    <3>1. ownUserIds[j] \in OwnUserId
      BY <2>2 DEF TypeOK
    <3> QED
      BY <2>1, <3>1 DEF OwnUserId
  <2> QED
    BY <1>5, <1>6, <2>1, <2>2 DEF SetOwnUserIds
<1>7. ASSUME NEW exp \in Expirations, CommitPrimaryExpiration(exp)
      PROVE  UniquePrimary'
  <2>1. ownUserIds' = [ownUserIds EXCEPT ![PrimaryIndex].cert =
                          UserIdCert(ownMaster, exp, ownUserIds[PrimaryIndex].isPrimary)]
    BY <1>7 DEF CommitPrimaryExpiration
  <2>2. ASSUME NEW j \in DOMAIN ownUserIds
        PROVE  ownUserIds'[j].isPrimary = ownUserIds[j].isPrimary
    <3>1. ownUserIds[j] \in OwnUserId
      BY <2>2 DEF TypeOK
    <3> QED
      BY <2>1, <3>1 DEF OwnUserId
  <2> QED
    BY <1>5, <1>7, <2>1, <2>2 DEF CommitPrimaryExpiration
<1> QED
  <2>1. ASSUME SetOwnUserIds(WithPrimary(WithNewUserId, Len(ownUserIds) + 1), "NO_ERROR")
        PROVE  UniquePrimary'
    <3>1. Len(ownUserIds) + 1 \in DOMAIN WithNewUserId
      BY WithNewUserIdType DEF TypeOK
    <3> QED
      BY <1>4, <2>1, <3>1, WithNewUserIdType
  <2>2. ASSUME NEW i \in DOMAIN ownUserIds, SetOwnUserIds(WithPrimary(ownUserIds, i), "NO_ERROR")
        PROVE  UniquePrimary'
    BY <1>4, <2>2 DEF TypeOK
  <2>3. ASSUME \/ \E code \in Statuses : Refuse(code)
               \/ \E subkeys : SetOwnSubkeys(subkeys)
               \/ \E new \in Passwords : CommitPassword(new)
               \/ Tick
        PROVE  UniquePrimary'
    BY <1>1, <2>3 DEF Refuse, identityVars, SetOwnSubkeys, CommitPassword, Tick
  <2> QED
    BY <1>2, <1>3, <1>6, <1>7, <2>1, <2>2, <2>3 DEF Effect

\* What WithPrimary does to the certificates.
LEMMA WithPrimaryCerts ==
    ASSUME TypeOK, NEW uids \in Seq(OwnUserId), NEW i \in DOMAIN uids
    PROVE  /\ WithPrimary(uids, i)[i].cert
                 = UserIdCert(ownMaster, keyExpirationSeconds, TRUE)
           /\ \A j \in DOMAIN uids \ {i} :
                 /\ WithPrimary(uids, i)[j].cert = uids[j].cert
                 /\ WithPrimary(uids, i)[j].isPrimary = FALSE
<1>1. uids[i] \in OwnUserId
  OBVIOUS
<1>2. WithPrimary(uids, i)[i].cert = UserIdCert(ownMaster, keyExpirationSeconds, TRUE)
  BY <1>1 DEF WithPrimary, OwnUserId
<1>3. ASSUME NEW j \in DOMAIN uids \ {i}
      PROVE  /\ WithPrimary(uids, i)[j].cert = uids[j].cert
             /\ WithPrimary(uids, i)[j].isPrimary = FALSE
  <2>1. uids[j] \in OwnUserId
    BY <1>3
  <2> QED
    BY <2>1 DEF WithPrimary, OwnUserId
<1> QED
  BY <1>2, <1>3

\* No certificate comes from the future: what makes a re-issued one the newest.
CertsInThePast == \A i \in DOMAIN ownUserIds : ownUserIds[i].cert.time <= now

\* Every call leaves the primary User ID's certificate in charge.
LEMMA PrimaryCertStep ==
    ASSUME TypeOK, UniquePrimary, CertsInThePast, PrimaryCertGoverns, Effect
    PROVE  CertsInThePast' /\ PrimaryCertGoverns'
<1> DEFINE Goal == CertsInThePast' /\ PrimaryCertGoverns'
<1>a. /\ now \in Nat
      /\ \A i \in DOMAIN ownUserIds : ownUserIds[i] \in OwnUserId
  BY DEF TypeOK
<1>b. \A i \in DOMAIN ownUserIds : ownUserIds[i].cert.time \in Nat
  BY <1>a DEF OwnUserId, Certs
<1>1. ASSUME UNCHANGED <<ownUserIds, keyExpirationSeconds>>, now' \in Nat, now <= now'
      PROVE  Goal
  BY <1>1, <1>a, <1>b DEF CertsInThePast, PrimaryCertGoverns
<1>2. ASSUME NEW password \in Passwords, NEW exp \in Expirations, CommitIdentity(password, exp),
             UNCHANGED now
      PROVE  Goal
  <2>1. /\ ownUserIds' = <<SeededUserId(exp)>>
        /\ SeededUserId(exp).cert = UserIdCert(ownMaster + 1, exp, FALSE)
        /\ keyExpirationSeconds' = exp
    BY <1>2 DEF CommitIdentity, CommitKey, SeededUserId
  <2>2. /\ UserIdCert(ownMaster + 1, exp, FALSE).time = now
        /\ UserIdCert(ownMaster + 1, exp, FALSE).exp = exp
        /\ UserIdCert(ownMaster + 1, exp, FALSE).primary = FALSE
    BY DEF UserIdCert
  <2>3. \A i \in DOMAIN ownUserIds' : /\ ownUserIds'[i].cert.time = now
                                      /\ ownUserIds'[i].cert.exp = exp
                                      /\ ownUserIds'[i].cert.primary = FALSE
    <3>1. \A i \in DOMAIN ownUserIds' : ownUserIds'[i] = SeededUserId(exp)
      BY <2>1
    <3> QED
      BY <2>1, <2>2, <3>1, Zenon
  <2> QED
    BY <1>2, <1>a, <2>1, <2>3 DEF CertsInThePast, PrimaryCertGoverns
<1>3. ASSUME NEW code \in Statuses, SetOwnUserIds(WithNewUserId, code)
      PROVE  Goal
  <2> DEFINE n == Len(ownUserIds) + 1
  <2>1. /\ ownUserIds' = WithNewUserId
        /\ UNCHANGED <<now, keyExpirationSeconds>>
    BY <1>3 DEF SetOwnUserIds
  <2>2. /\ WithNewUserId[n].cert.time = now
        /\ WithNewUserId[n].cert.primary = FALSE
        /\ WithNewUserId[n].isPrimary = FALSE
    BY WithNewUserIdType DEF UserIdCert
  <2>3. \A j \in DOMAIN WithNewUserId :
            j = n \/ (j \in DOMAIN ownUserIds /\ WithNewUserId[j] = ownUserIds[j])
    BY WithNewUserIdType DEF TypeOK
  <2> QED
    BY <1>a, <2>1, <2>2, <2>3 DEF CertsInThePast, PrimaryCertGoverns
<1>4. ASSUME NEW uids \in Seq(OwnUserId), NEW i \in DOMAIN uids,
             \A j \in DOMAIN uids : uids[j].cert.time <= now,
             SetOwnUserIds(WithPrimary(uids, i), "NO_ERROR")
      PROVE  Goal
  <2>1. /\ ownUserIds' = WithPrimary(uids, i)
        /\ UNCHANGED <<now, keyExpirationSeconds>>
    BY <1>4 DEF SetOwnUserIds
  <2>2. DOMAIN ownUserIds' = DOMAIN uids
    BY <2>1, WithPrimaryType
  <2>3. /\ ownUserIds'[i].cert.time = now
        /\ ownUserIds'[i].cert.exp = keyExpirationSeconds
        /\ ownUserIds'[i].cert.primary = TRUE
    <3>1. ownUserIds'[i].cert = UserIdCert(ownMaster, keyExpirationSeconds, TRUE)
      BY <2>1, WithPrimaryCerts
    <3> QED
      BY <3>1 DEF UserIdCert
  <2>4. \A j \in DOMAIN uids : j # i => /\ ownUserIds'[j].cert = uids[j].cert
                                        /\ ownUserIds'[j].isPrimary = FALSE
    BY <2>1, WithPrimaryCerts
  <2>5. \A j \in DOMAIN uids : ownUserIds'[j].cert.time <= now
    BY <1>4, <1>a, <2>3, <2>4
  <2>6. CertsInThePast'
    BY <2>1, <2>2, <2>5 DEF CertsInThePast
  <2>7. PrimaryCertGoverns'
    BY <1>4, <2>1, <2>2, <2>3, <2>4, <2>5 DEF PrimaryCertGoverns
  <2> QED
    BY <2>6, <2>7
<1>5. ASSUME NEW i \in DOMAIN ownUserIds,
             SetOwnUserIds([ownUserIds EXCEPT ![i].isRevoked = TRUE], "NO_ERROR")
      PROVE  Goal
  <2>1. /\ ownUserIds' = [ownUserIds EXCEPT ![i].isRevoked = TRUE]
        /\ UNCHANGED <<now, keyExpirationSeconds>>
    BY <1>5 DEF SetOwnUserIds
  <2>2. ASSUME NEW j \in DOMAIN ownUserIds
        PROVE  /\ ownUserIds'[j].isPrimary = ownUserIds[j].isPrimary
               /\ ownUserIds'[j].cert = ownUserIds[j].cert
    BY <1>a, <2>1, <2>2 DEF OwnUserId
  <2>3. DOMAIN ownUserIds' = DOMAIN ownUserIds
    BY <2>1
  <2> QED
    BY <2>1, <2>2, <2>3 DEF CertsInThePast, PrimaryCertGoverns
<1>6. ASSUME ownKeyGenerated, NEW exp \in Expirations, CommitPrimaryExpiration(exp)
      PROVE  Goal
  <2> DEFINE p == PrimaryIndex
  <2>1. /\ ownUserIds' = [ownUserIds EXCEPT ![p].cert =
                             UserIdCert(ownMaster, exp, ownUserIds[p].isPrimary)]
        /\ UNCHANGED now
        /\ keyExpirationSeconds' = exp
    BY <1>6 DEF CommitPrimaryExpiration
  <2>2. /\ p \in DOMAIN ownUserIds
        /\ \A j \in DOMAIN ownUserIds : ownUserIds[j].isPrimary <=> j = p
    BY <1>6, PrimaryIndexIsPrimary
  <2> HIDE DEF p
  <2>3. DOMAIN ownUserIds' = DOMAIN ownUserIds
    BY <2>1
  <2>4. /\ ownUserIds'[p].cert = UserIdCert(ownMaster, exp, ownUserIds[p].isPrimary)
        /\ ownUserIds'[p].isPrimary = ownUserIds[p].isPrimary
    BY <1>a, <2>1, <2>2 DEF OwnUserId
  <2>5. /\ ownUserIds'[p].cert.time = now
        /\ ownUserIds'[p].cert.exp = exp
        /\ ownUserIds'[p].cert.primary
    BY <2>2, <2>4 DEF UserIdCert
  <2>6. \A j \in DOMAIN ownUserIds : j # p => ownUserIds'[j] = ownUserIds[j]
    BY <2>1
  <2>7. \A j \in DOMAIN ownUserIds : ownUserIds'[j].cert.time <= now
    BY <1>a, <2>5, <2>6 DEF CertsInThePast
  <2>8. CertsInThePast'
    BY <2>1, <2>3, <2>7 DEF CertsInThePast
  <2>9. PrimaryCertGoverns'
    <3>1. \A j \in DOMAIN ownUserIds : ownUserIds'[j].isPrimary => j = p
      BY <2>2, <2>6, Zenon
    <3> QED
      BY <2>1, <2>3, <2>5, <2>7, <3>1 DEF PrimaryCertGoverns
  <2> QED
    BY <2>8, <2>9
<1> QED
  <2>1. ASSUME SetOwnUserIds(WithPrimary(WithNewUserId, Len(ownUserIds) + 1), "NO_ERROR")
        PROVE  Goal
    <3>1. Len(ownUserIds) + 1 \in DOMAIN WithNewUserId
      BY WithNewUserIdType DEF TypeOK
    <3>2. \A j \in DOMAIN WithNewUserId :
              j = Len(ownUserIds) + 1 \/ (j \in DOMAIN ownUserIds /\ WithNewUserId[j] = ownUserIds[j])
      BY WithNewUserIdType DEF TypeOK
    <3>3. WithNewUserId[Len(ownUserIds) + 1].cert.time = now
      BY WithNewUserIdType DEF UserIdCert
    <3>4. \A j \in DOMAIN WithNewUserId : WithNewUserId[j].cert.time <= now
      BY <1>a, <3>2, <3>3 DEF CertsInThePast
    <3> QED
      BY <1>4, <2>1, <3>1, <3>4, WithNewUserIdType
  <2>2. ASSUME NEW i \in DOMAIN ownUserIds, SetOwnUserIds(WithPrimary(ownUserIds, i), "NO_ERROR")
        PROVE  Goal
    BY <1>4, <2>2 DEF TypeOK, CertsInThePast
  <2>3. ASSUME \/ \E code \in Statuses : Refuse(code)
               \/ \E subkeys : SetOwnSubkeys(subkeys)
               \/ \E new \in Passwords : CommitPassword(new)
               \/ Tick
        PROVE  Goal
    BY <1>1, <1>a, <2>3 DEF Refuse, identityVars, SetOwnSubkeys, CommitPassword, Tick
  <2> QED
    BY <1>2, <1>3, <1>5, <1>6, <2>1, <2>2, <2>3 DEF Effect

-----------------------------------------------------------------------------
(* The subkeys: their keys, bindings and the password on their secrets. *)

SubkeyInv ==
    /\ OnePassword
    /\ ExportedByOwnMaster
    /\ FlatSubkeyMirrors
    /\ BindingMatchesGetters

\* The part of SubkeyInv about one entry, at its place in the vector.
EntryOK(subkey, i, master, password) ==
    /\ subkey.secret = password
    /\ subkey.binding.issuer = master
    /\ subkey.key = SubkeyKey(master, i)
    /\ subkey.binding.exp = subkey.expirationSeconds
    /\ subkey.binding.flags = subkey.keyFlags

\* SubkeyInv of a live identity, entry by entry.
LEMMA SubkeyInvByEntry ==
    ASSUME ownKeyGenerated
    PROVE  SubkeyInv <=>
             /\ ownMasterSecret = passwordCheckHash
             /\ \A i \in DOMAIN ownUserIds : ownUserIds[i].cert.issuer = ownMaster
             /\ \A i \in DOMAIN ownSubkeys :
                   EntryOK(ownSubkeys[i], i, ownMaster, passwordCheckHash)
             /\ ownSubkeys # <<>>
             /\ ownSubkey = ownSubkeys[1].key
  BY DEF SubkeyInv, OnePassword, ExportedByOwnMaster, FlatSubkeyMirrors, BindingMatchesGetters,
         EntryOK

\* A new subkey is well formed at its place.
LEMMA NewSubkeyEntry ==
    ASSUME NEW master, NEW n, NEW password, NEW flags, NEW exp
    PROVE  EntryOK(NewSubkey(master, n, password, flags, exp), n, master, password)
  BY DEF EntryOK, NewSubkey, SubkeyBinding

\* Whatever a call does to the User IDs, the issuer of their certificates stays.
LEMMA WithNewUserIdIssuer ==
    ASSUME TypeOK, \A i \in DOMAIN ownUserIds : ownUserIds[i].cert.issuer = ownMaster
    PROVE  \A i \in DOMAIN WithNewUserId : WithNewUserId[i].cert.issuer = ownMaster
<1>1. \A j \in DOMAIN WithNewUserId :
          j = Len(ownUserIds) + 1 \/ (j \in DOMAIN ownUserIds /\ WithNewUserId[j] = ownUserIds[j])
  BY WithNewUserIdType DEF TypeOK
<1>2. WithNewUserId[Len(ownUserIds) + 1].cert.issuer = ownMaster
  BY WithNewUserIdType DEF UserIdCert
<1> QED
  BY <1>1, <1>2

\* SetPrimaryUserId certifies with the master key the other certificates have.
LEMMA WithPrimaryIssuer ==
    ASSUME TypeOK, NEW uids \in Seq(OwnUserId), NEW i \in DOMAIN uids,
           \A j \in DOMAIN uids : uids[j].cert.issuer = ownMaster
    PROVE  \A j \in DOMAIN WithPrimary(uids, i) :
              WithPrimary(uids, i)[j].cert.issuer = ownMaster
<1>1. WithPrimary(uids, i)[i].cert = UserIdCert(ownMaster, keyExpirationSeconds, TRUE)
  BY WithPrimaryCerts
<1>2. WithPrimary(uids, i)[i].cert.issuer = ownMaster
  BY <1>1 DEF UserIdCert
<1>3. \A j \in DOMAIN uids : j # i => WithPrimary(uids, i)[j].cert = uids[j].cert
  BY WithPrimaryCerts
<1>4. DOMAIN WithPrimary(uids, i) = DOMAIN uids
  BY WithPrimaryType
<1> QED
  BY <1>2, <1>3, <1>4, Zenon

\* Every call keeps passwords, issuers, bindings and the flat fields consistent.
LEMMA SubkeyStep ==
    ASSUME TypeOK, UniquePrimary, SubkeyInv, Effect
    PROVE  SubkeyInv'
<1> DEFINE Issued(uids) == \A i \in DOMAIN uids : uids[i].cert.issuer = ownMaster
           Entries(subkeys, password) ==
             \A i \in DOMAIN subkeys : EntryOK(subkeys[i], i, ownMaster, password)
<1>a. ownKeyGenerated =>
          /\ ownMasterSecret = passwordCheckHash
          /\ Issued(ownUserIds)
          /\ Entries(ownSubkeys, passwordCheckHash)
          /\ ownSubkeys # <<>>
          /\ ownSubkey = ownSubkeys[1].key
  BY SubkeyInvByEntry
<1>b. \A i \in DOMAIN ownSubkeys : ownSubkeys[i] \in OwnSubkey
  BY DEF TypeOK
<1>1. ASSUME UNCHANGED identityVars
      PROVE  SubkeyInv'
  BY <1>1 DEF identityVars, SubkeyInv, OnePassword, ExportedByOwnMaster, FlatSubkeyMirrors,
              BindingMatchesGetters
<1>2. ASSUME NEW password \in Passwords, NEW exp \in Expirations, CommitIdentity(password, exp)
      PROVE  SubkeyInv'
  <2> DEFINE new == NewSubkey(ownMaster + 1, 1, password, {"encrypt"}, exp)
  <2>1. /\ ownSubkeys' = <<new>>
        /\ ownUserIds' = <<SeededUserId(exp)>>
        /\ ownMaster' = ownMaster + 1
        /\ ownMasterSecret' = password
        /\ passwordCheckHash' = password
        /\ ownSubkey' = SubkeyKey(ownMaster + 1, 1)
        /\ ownKeyGenerated'
    BY <1>2 DEF CommitIdentity, CommitKey, SeededSubkey
  <2>2. EntryOK(new, 1, ownMaster + 1, password)
    BY NewSubkeyEntry
  <2>3. SeededUserId(exp).cert.issuer = ownMaster + 1
    BY DEF SeededUserId, UserIdCert
  <2>4. new.key = SubkeyKey(ownMaster + 1, 1)
    BY DEF NewSubkey
  <2> HIDE DEF new
  <2>5. \A i \in DOMAIN ownSubkeys' : i = 1 /\ ownSubkeys'[i] = new
    BY <2>1
  <2>6. \A i \in DOMAIN ownUserIds' : ownUserIds'[i].cert.issuer = ownMaster'
    BY <2>1, <2>3
  <2>7. \A i \in DOMAIN ownSubkeys' : EntryOK(ownSubkeys'[i], i, ownMaster', passwordCheckHash')
    BY <2>1, <2>2, <2>5
  <2>8. ownSubkeys' # <<>> /\ ownSubkey' = ownSubkeys'[1].key
    BY <2>1, <2>4
  <2> QED
    BY <2>1, <2>6, <2>7, <2>8 DEF SubkeyInv, OnePassword, ExportedByOwnMaster, FlatSubkeyMirrors,
                                  BindingMatchesGetters, EntryOK
<1>3. ASSUME ownKeyGenerated, NEW uids, NEW code, SetOwnUserIds(uids, code), Issued(uids)
      PROVE  SubkeyInv'
  BY <1>3, <1>a DEF SetOwnUserIds, SubkeyInv, OnePassword, ExportedByOwnMaster, FlatSubkeyMirrors,
                    BindingMatchesGetters
<1>4. ASSUME ownKeyGenerated, NEW subkeys, SetOwnSubkeys(subkeys),
             Entries(subkeys, passwordCheckHash), subkeys # <<>>,
             subkeys[1].key = ownSubkeys[1].key
      PROVE  SubkeyInv'
  BY <1>4, <1>a DEF SetOwnSubkeys, SubkeyInv, OnePassword, ExportedByOwnMaster, FlatSubkeyMirrors,
                    BindingMatchesGetters, EntryOK
<1>5. ASSUME ownKeyGenerated, NEW code \in Statuses, SetOwnUserIds(WithNewUserId, code)
      PROVE  SubkeyInv'
  BY <1>3, <1>5, <1>a, WithNewUserIdIssuer
<1>6. ASSUME ownKeyGenerated,
             SetOwnUserIds(WithPrimary(WithNewUserId, Len(ownUserIds) + 1), "NO_ERROR")
      PROVE  SubkeyInv'
  <2>1. Len(ownUserIds) + 1 \in DOMAIN WithNewUserId /\ WithNewUserId \in Seq(OwnUserId)
    BY WithNewUserIdType DEF TypeOK
  <2>2. Issued(WithNewUserId)
    BY <1>6, <1>a, WithNewUserIdIssuer
  <2>3. Issued(WithPrimary(WithNewUserId, Len(ownUserIds) + 1))
    BY <2>1, <2>2, WithPrimaryIssuer
  <2> QED
    BY <1>3, <1>6, <2>3
<1>7. ASSUME ownKeyGenerated, NEW i \in DOMAIN ownUserIds,
             SetOwnUserIds([ownUserIds EXCEPT ![i].isRevoked = TRUE], "NO_ERROR")
      PROVE  SubkeyInv'
  <2>1. ASSUME NEW j \in DOMAIN ownUserIds
        PROVE  [ownUserIds EXCEPT ![i].isRevoked = TRUE][j].cert = ownUserIds[j].cert
    <3>1. ownUserIds[j] \in OwnUserId
      BY <2>1 DEF TypeOK
    <3> QED
      BY <3>1 DEF OwnUserId
  <2>2. Issued([ownUserIds EXCEPT ![i].isRevoked = TRUE])
    BY <1>7, <1>a, <2>1
  <2> QED
    BY <1>3, <1>7, <2>2
<1>8. ASSUME ownKeyGenerated, NEW i \in DOMAIN ownUserIds,
             SetOwnUserIds(WithPrimary(ownUserIds, i), "NO_ERROR")
      PROVE  SubkeyInv'
  <2>1. Issued(WithPrimary(ownUserIds, i))
    BY <1>8, <1>a, WithPrimaryIssuer DEF TypeOK
  <2> QED
    BY <1>3, <1>8, <2>1
<1>9. ASSUME ownKeyGenerated, NEW exp \in Expirations, CommitPrimaryExpiration(exp)
      PROVE  SubkeyInv'
  <2> DEFINE c == UserIdCert(ownMaster, exp, ownUserIds[PrimaryIndex].isPrimary)
  <2>1. c.issuer = ownMaster
    BY DEF UserIdCert
  <2>2. ownUserIds' = [ownUserIds EXCEPT ![PrimaryIndex].cert = c]
    BY <1>9 DEF CommitPrimaryExpiration
  <2>3. PrimaryIndex \in DOMAIN ownUserIds
    BY <1>9, PrimaryIndexIsPrimary
  <2> HIDE DEF c
  <2>4. ASSUME NEW j \in DOMAIN ownUserIds
        PROVE  ownUserIds'[j].cert \in {c, ownUserIds[j].cert}
    <3>1. ownUserIds[j] \in OwnUserId
      BY <2>4 DEF TypeOK
    <3> QED
      BY <2>2, <2>3, <3>1 DEF OwnUserId
  <2>5. Issued(ownUserIds')
    BY <1>9, <1>a, <2>1, <2>2, <2>4
  <2> QED
    BY <1>9, <1>a, <2>5 DEF CommitPrimaryExpiration, SubkeyInv, OnePassword, ExportedByOwnMaster,
                            FlatSubkeyMirrors, BindingMatchesGetters
<1>10. ASSUME NEW password \in Passwords, NEW flags \in FlagChoices, NEW exp \in Expirations,
              Authorised(password),
              SetOwnSubkeys(Append(ownSubkeys,
                 NewSubkey(ownMaster, Len(ownSubkeys) + 1, password, flags, exp)))
       PROVE  SubkeyInv'
  <2> DEFINE n == Len(ownSubkeys) + 1
             new == NewSubkey(ownMaster, n, password, flags, exp)
  <2>1. ownKeyGenerated /\ password = passwordCheckHash
    BY <1>10 DEF Authorised
  <2>2. EntryOK(new, n, ownMaster, passwordCheckHash)
    BY <2>1, NewSubkeyEntry
  <2>3. new \in OwnSubkey
    BY NewSubkeyType, PgpConstantsAssumption DEF TypeOK, KeyFlags
  <2> HIDE DEF new
  <2>4. /\ \A i \in DOMAIN Append(ownSubkeys, new) :
               i = n \/ (i \in DOMAIN ownSubkeys /\ Append(ownSubkeys, new)[i] = ownSubkeys[i])
        /\ Append(ownSubkeys, new)[n] = new
        /\ Append(ownSubkeys, new) # <<>>
        /\ ownSubkeys # <<>> => Append(ownSubkeys, new)[1] = ownSubkeys[1]
    BY <2>3, AppendFacts DEF TypeOK
  <2>5. Entries(Append(ownSubkeys, new), passwordCheckHash)
    BY <1>a, <2>1, <2>2, <2>4
  <2> QED
    BY <1>4, <1>10, <1>a, <2>1, <2>4, <2>5 DEF new
<1>11. ASSUME ownKeyGenerated, NEW i \in DOMAIN ownSubkeys,
              SetOwnSubkeys([ownSubkeys EXCEPT ![i].isRevoked = TRUE])
       PROVE  SubkeyInv'
  <2> DEFINE after == [ownSubkeys EXCEPT ![i].isRevoked = TRUE]
  <2>1. ASSUME NEW j \in DOMAIN ownSubkeys
        PROVE  /\ EntryOK(after[j], j, ownMaster, passwordCheckHash)
               /\ after[j].key = ownSubkeys[j].key
    <3>1. ownSubkeys[j] \in OwnSubkey /\ EntryOK(ownSubkeys[j], j, ownMaster, passwordCheckHash)
      BY <1>11, <1>a, <1>b
    <3> QED
      BY <3>1 DEF OwnSubkey, EntryOK
  <2>2. Entries(after, passwordCheckHash)
    BY <2>1
  <2>3. after # <<>> /\ after[1].key = ownSubkeys[1].key
    BY <1>11, <1>a, <2>1 DEF TypeOK
  <2> QED
    BY <1>4, <1>11, <2>2, <2>3
<1>12. ASSUME ownKeyGenerated, NEW i \in DOMAIN ownSubkeys, NEW exp \in Expirations,
              SetOwnSubkeys([ownSubkeys EXCEPT
                 ![i].binding = SubkeyBinding(ownMaster, exp, ownSubkeys[i].keyFlags),
                 ![i].expirationSeconds = exp])
       PROVE  SubkeyInv'
  <2> DEFINE after == [ownSubkeys EXCEPT
                 ![i].binding = SubkeyBinding(ownMaster, exp, ownSubkeys[i].keyFlags),
                 ![i].expirationSeconds = exp]
  <2>1. ASSUME NEW j \in DOMAIN ownSubkeys
        PROVE  /\ EntryOK(after[j], j, ownMaster, passwordCheckHash)
               /\ after[j].key = ownSubkeys[j].key
    <3>1. ownSubkeys[j] \in OwnSubkey /\ EntryOK(ownSubkeys[j], j, ownMaster, passwordCheckHash)
      BY <1>12, <1>a, <1>b
    <3> QED
      BY <3>1 DEF OwnSubkey, EntryOK, SubkeyBinding
  <2>2. Entries(after, passwordCheckHash)
    BY <2>1
  <2>3. after # <<>> /\ after[1].key = ownSubkeys[1].key
    BY <1>12, <1>a, <2>1 DEF TypeOK
  <2> QED
    BY <1>4, <1>12, <2>2, <2>3
<1>13. ASSUME ownKeyGenerated, NEW new \in Passwords, CommitPassword(new)
       PROVE  SubkeyInv'
  <2>1. ASSUME NEW j \in DOMAIN ownSubkeys
        PROVE  EntryOK(ownSubkeys'[j], j, ownMaster, new) /\ ownSubkeys'[j].key = ownSubkeys[j].key
    <3>1. ownSubkeys[j] \in OwnSubkey /\ EntryOK(ownSubkeys[j], j, ownMaster, passwordCheckHash)
      BY <1>13, <1>a, <1>b
    <3>2. ownSubkeys'[j] = [ownSubkeys[j] EXCEPT !.secret = new]
      BY <1>13 DEF CommitPassword
    <3> QED
      BY <3>1, <3>2 DEF OwnSubkey, EntryOK
  <2>2. DOMAIN ownSubkeys' = DOMAIN ownSubkeys
    BY <1>13 DEF CommitPassword
  <2>3. ownSubkeys' # <<>> /\ ownSubkey' = ownSubkeys'[1].key
    BY <1>13, <1>a, <2>1, <2>2 DEF TypeOK, CommitPassword
  <2> QED
    BY <1>13, <1>a, <2>1, <2>2, <2>3 DEF CommitPassword, SubkeyInv, OnePassword,
          ExportedByOwnMaster, FlatSubkeyMirrors, BindingMatchesGetters, EntryOK
<1>14. ASSUME (\E code \in Statuses : Refuse(code)) \/ Tick
       PROVE  SubkeyInv'
  BY <1>1, <1>14 DEF Refuse, Tick
<1> QED
  BY <1>2, <1>5, <1>6, <1>7, <1>8, <1>9, <1>10, <1>11, <1>12, <1>13, <1>14 DEF Effect

-----------------------------------------------------------------------------
(***************************************************************************)
(* Its inductive invariant. TypeOK needs UniquePrimary (SetKeyExpiration's *)
(* search must end at a User ID), PrimaryCertGoverns needs CertsInThePast  *)
(* (a re-issued certificate must be the newest one) and UniquePrimary.     *)
(***************************************************************************)
IdentityInv ==
    /\ TypeOK
    /\ UniquePrimary
    /\ CertsInThePast
    /\ PrimaryCertGoverns
    /\ SubkeyInv

\* The inductive invariant holds of a new instance.
LEMMA IdentityInvInit == Init => IdentityInv
<1> SUFFICES ASSUME Init PROVE IdentityInv
  OBVIOUS
<1>1. TypeOK
  <2>1. MasterKey(0) \in Keys
    BY DEF MasterKey, Keys
  <2>2. <<>> \in Seq(OwnUserId) /\ <<>> \in Seq(OwnSubkey)
    OBVIOUS
  <2>3. "NO_ERROR" \in Statuses
    BY DEF Statuses
  <2> QED
    BY <2>1, <2>2, <2>3 DEF Init, TypeOK
<1> QED
  BY <1>1 DEF Init, IdentityInv, UniquePrimary, CertsInThePast, PrimaryCertGoverns, SubkeyInv,
              OnePassword, ExportedByOwnMaster, FlatSubkeyMirrors, BindingMatchesGetters

\* The inductive invariant is kept by every call and every tick.
LEMMA IdentityInvStep == IdentityInv /\ [Next]_vars => IdentityInv'
<1> SUFFICES ASSUME IdentityInv, [Next]_vars PROVE IdentityInv'
  OBVIOUS
<1>1. CASE Next
  BY <1>1, NextHasEffect, TypeStep, UniquePrimaryStep, PrimaryCertStep, SubkeyStep DEF IdentityInv
<1>2. CASE UNCHANGED vars
  BY <1>2 DEF vars, identityVars, IdentityInv, TypeOK, UniquePrimary, CertsInThePast,
              PrimaryCertGoverns, SubkeyInv, OnePassword, ExportedByOwnMaster, FlatSubkeyMirrors,
              BindingMatchesGetters
<1> QED
  BY <1>1, <1>2

\* Nothing PgpEngine's public calls do, in any order and number, breaks the
\* inductive invariant.
THEOREM IdentityInvariant == Spec => []IdentityInv
  BY IdentityInvInit, IdentityInvStep, PTL DEF Spec

\* The engine's fields keep their types: in particular SetKeyExpiration's search
\* always ends at a User ID.
THEOREM TypeCorrect == Spec => []TypeOK
<1>1. IdentityInv => TypeOK
  BY DEF IdentityInv
<1> QED
  BY <1>1, IdentityInvariant, PTL

\* Every secret packet opens under the current password, for every number of
\* subkeys and password changes (ChangePassword, AddSubkey).
THEOREM OnePasswordHolds == Spec => []OnePassword
<1>1. IdentityInv => OnePassword
  BY DEF IdentityInv, SubkeyInv
<1> QED
  BY <1>1, IdentityInvariant, PTL

\* Exactly one User ID is primary (AddUserId, SetPrimaryUserId).
THEOREM UniquePrimaryHolds == Spec => []UniquePrimary
<1>1. IdentityInv => UniquePrimary
  BY DEF IdentityInv
<1> QED
  BY <1>1, IdentityInvariant, PTL

\* The primary User ID's certificate is the newest that claims to be primary and
\* carries the key's expiration (SetPrimaryUserId, SetKeyExpiration).
THEOREM PrimaryCertHolds == Spec => []PrimaryCertGoverns
<1>1. IdentityInv => PrimaryCertGoverns
  BY DEF IdentityInv
<1> QED
  BY <1>1, IdentityInvariant, PTL

\* What renderOwnKeyBlocks exports was all issued by the master key it exports,
\* through any number of GenerateKeyPair calls.
THEOREM ExportHolds == Spec => []ExportedByOwnMaster
<1>1. IdentityInv => ExportedByOwnMaster
  BY DEF IdentityInv, SubkeyInv
<1> QED
  BY <1>1, IdentityInvariant, PTL

\* The flat subkey fields are ownSubkeys[0] (GenerateKeyPair's duplicate of it).
THEOREM FlatSubkeyHolds == Spec => []FlatSubkeyMirrors
<1>1. IdentityInv => FlatSubkeyMirrors
  BY DEF IdentityInv, SubkeyInv
<1> QED
  BY <1>1, IdentityInvariant, PTL

\* The exported binding signatures say what the getters say (AddSubkey,
\* SetKeyExpiration).
THEOREM BindingHolds == Spec => []BindingMatchesGetters
<1>1. IdentityInv => BindingMatchesGetters
  BY DEF IdentityInv, SubkeyInv
<1> QED
  BY <1>1, IdentityInvariant, PTL

-----------------------------------------------------------------------------
(* Action properties. *)

\* No single call takes back a revocation or moves an entry.
LEMMA RevocationStep ==
    ASSUME TypeOK, UniquePrimary, Effect, ownMaster' = ownMaster
    PROVE  /\ \A i \in DOMAIN ownUserIds :
                 /\ i \in DOMAIN ownUserIds'
                 /\ ownUserIds[i].isRevoked => ownUserIds'[i].isRevoked
           /\ \A i \in DOMAIN ownSubkeys :
                 /\ i \in DOMAIN ownSubkeys'
                 /\ ownSubkeys'[i].key = ownSubkeys[i].key
                 /\ ownSubkeys[i].isRevoked => ownSubkeys'[i].isRevoked
<1> DEFINE KeptUserIds(uids) == \A i \in DOMAIN ownUserIds :
                                  /\ i \in DOMAIN uids
                                  /\ ownUserIds[i].isRevoked => uids[i].isRevoked
           KeptSubkeys(subkeys) == \A i \in DOMAIN ownSubkeys :
                                     /\ i \in DOMAIN subkeys
                                     /\ subkeys[i].key = ownSubkeys[i].key
                                     /\ ownSubkeys[i].isRevoked => subkeys[i].isRevoked
           Goal == KeptUserIds(ownUserIds') /\ KeptSubkeys(ownSubkeys')
<1>a. /\ ownMaster \in Nat
      /\ \A i \in DOMAIN ownUserIds : ownUserIds[i] \in OwnUserId
      /\ \A i \in DOMAIN ownSubkeys : ownSubkeys[i] \in OwnSubkey
  BY DEF TypeOK
<1>b. KeptUserIds(ownUserIds) /\ KeptSubkeys(ownSubkeys)
  OBVIOUS
<1>1. ASSUME NEW password, NEW exp, CommitIdentity(password, exp)
      PROVE  Goal
  BY <1>1, <1>a DEF CommitIdentity, CommitKey
<1>2. ASSUME NEW uids, NEW code, SetOwnUserIds(uids, code), KeptUserIds(uids)
      PROVE  Goal
  BY <1>2, <1>b DEF SetOwnUserIds
<1>3. KeptUserIds(WithNewUserId)
  BY WithNewUserIdType DEF TypeOK
<1>4. ASSUME NEW uids \in Seq(OwnUserId), NEW i \in DOMAIN uids, KeptUserIds(uids)
      PROVE  KeptUserIds(WithPrimary(uids, i))
  <2>1. ASSUME NEW j \in DOMAIN uids
        PROVE  WithPrimary(uids, i)[j].isRevoked = uids[j].isRevoked
    <3>1. uids[j] \in OwnUserId
      BY <2>1
    <3> QED
      BY <3>1 DEF WithPrimary, OwnUserId
  <2>2. DOMAIN WithPrimary(uids, i) = DOMAIN uids
    BY WithPrimaryType
  <2> QED
    BY <1>4, <2>1, <2>2
<1>5. ASSUME NEW i \in DOMAIN ownUserIds
      PROVE  KeptUserIds([ownUserIds EXCEPT ![i].isRevoked = TRUE])
  BY <1>a DEF OwnUserId
<1>6. ASSUME ownKeyGenerated, NEW exp, CommitPrimaryExpiration(exp)
      PROVE  Goal
  <2>1. KeptUserIds(ownUserIds')
    BY <1>6, <1>a DEF CommitPrimaryExpiration, OwnUserId
  <2> QED
    BY <1>6, <1>b, <2>1 DEF CommitPrimaryExpiration
<1>7. ASSUME NEW subkeys, SetOwnSubkeys(subkeys), KeptSubkeys(subkeys)
      PROVE  Goal
  BY <1>7, <1>b DEF SetOwnSubkeys
<1>8. ASSUME NEW new \in OwnSubkey
      PROVE  KeptSubkeys(Append(ownSubkeys, new))
  BY <1>8, AppendFacts DEF TypeOK
<1>9. ASSUME NEW i \in DOMAIN ownSubkeys
      PROVE  KeptSubkeys([ownSubkeys EXCEPT ![i].isRevoked = TRUE])
  BY <1>a DEF OwnSubkey
<1>10. ASSUME NEW i \in DOMAIN ownSubkeys, NEW exp
       PROVE  KeptSubkeys([ownSubkeys EXCEPT
                 ![i].binding = SubkeyBinding(ownMaster, exp, ownSubkeys[i].keyFlags),
                 ![i].expirationSeconds = exp])
  BY <1>a DEF OwnSubkey
<1>11. ASSUME NEW new, CommitPassword(new)
       PROVE  Goal
  <2>1. KeptSubkeys(ownSubkeys')
    BY <1>11, <1>a DEF CommitPassword, OwnSubkey
  <2> QED
    BY <1>11, <1>b, <2>1 DEF CommitPassword
<1>12. ASSUME (\E code \in Statuses : Refuse(code)) \/ Tick
       PROVE  Goal
  BY <1>12, <1>b DEF Refuse, Tick, identityVars
<1>13. ASSUME SetOwnUserIds(WithPrimary(WithNewUserId, Len(ownUserIds) + 1), "NO_ERROR")
       PROVE  Goal
  <2>1. Len(ownUserIds) + 1 \in DOMAIN WithNewUserId /\ WithNewUserId \in Seq(OwnUserId)
    BY WithNewUserIdType DEF TypeOK
  <2> QED
    BY <1>2, <1>3, <1>4, <1>13, <2>1
<1>14. ASSUME NEW i \in DOMAIN ownUserIds, SetOwnUserIds(WithPrimary(ownUserIds, i), "NO_ERROR")
       PROVE  Goal
  BY <1>2, <1>4, <1>14, <1>b DEF TypeOK
<1>15. ASSUME NEW password \in Passwords, NEW flags \in FlagChoices, NEW exp \in Expirations,
              SetOwnSubkeys(Append(ownSubkeys,
                 NewSubkey(ownMaster, Len(ownSubkeys) + 1, password, flags, exp)))
       PROVE  Goal
  <2>1. NewSubkey(ownMaster, Len(ownSubkeys) + 1, password, flags, exp) \in OwnSubkey
    BY NewSubkeyType, PgpConstantsAssumption DEF TypeOK, KeyFlags
  <2> QED
    BY <1>7, <1>8, <1>15, <2>1
<1>16. ASSUME NEW code \in Statuses, SetOwnUserIds(WithNewUserId, code)
       PROVE  Goal
  BY <1>2, <1>3, <1>16
<1>17. ASSUME NEW i \in DOMAIN ownUserIds,
              SetOwnUserIds([ownUserIds EXCEPT ![i].isRevoked = TRUE], "NO_ERROR")
       PROVE  Goal
  <2> DEFINE uids == [ownUserIds EXCEPT ![i].isRevoked = TRUE]
  <2>1. KeptUserIds(uids)
    BY <1>5
  <2>2. SetOwnUserIds(uids, "NO_ERROR")
    BY <1>17
  <2> HIDE DEF uids, KeptUserIds, Goal
  <2> QED
    BY <1>2, <2>1, <2>2
<1>18. ASSUME NEW i \in DOMAIN ownSubkeys,
              SetOwnSubkeys([ownSubkeys EXCEPT ![i].isRevoked = TRUE])
       PROVE  Goal
  <2> DEFINE subkeys == [ownSubkeys EXCEPT ![i].isRevoked = TRUE]
  <2>1. KeptSubkeys(subkeys)
    BY <1>9
  <2>2. SetOwnSubkeys(subkeys)
    BY <1>18
  <2> HIDE DEF subkeys, KeptSubkeys, Goal
  <2> QED
    BY <1>7, <2>1, <2>2
<1>19. ASSUME NEW i \in DOMAIN ownSubkeys, NEW exp \in Expirations,
              SetOwnSubkeys([ownSubkeys EXCEPT
                 ![i].binding = SubkeyBinding(ownMaster, exp, ownSubkeys[i].keyFlags),
                 ![i].expirationSeconds = exp])
       PROVE  Goal
  <2> DEFINE subkeys == [ownSubkeys EXCEPT
                 ![i].binding = SubkeyBinding(ownMaster, exp, ownSubkeys[i].keyFlags),
                 ![i].expirationSeconds = exp]
  <2>1. KeptSubkeys(subkeys)
    BY <1>10
  <2>2. SetOwnSubkeys(subkeys)
    BY <1>19
  <2> HIDE DEF subkeys, KeptSubkeys, Goal
  <2> QED
    BY <1>7, <2>1, <2>2
<1>20. Goal
  <2> HIDE DEF Goal
  <2> QED
    BY <1>1, <1>6, <1>11, <1>12, <1>13, <1>14, <1>15, <1>16, <1>17, <1>18, <1>19 DEF Effect
<1> QED
  BY <1>20

\* A revocation outlives every later call on the same identity, and no entry
\* leaves its place in the exported block (RevokeUserId, RevokeSubkey).
THEOREM RevocationHolds == Spec => RevocationIsForever
<1> DEFINE Kept == ownMaster' = ownMaster =>
                     /\ \A i \in DOMAIN ownUserIds :
                           /\ i \in DOMAIN ownUserIds'
                           /\ ownUserIds[i].isRevoked => ownUserIds'[i].isRevoked
                     /\ \A i \in DOMAIN ownSubkeys :
                           /\ i \in DOMAIN ownSubkeys'
                           /\ ownSubkeys'[i].key = ownSubkeys[i].key
                           /\ ownSubkeys[i].isRevoked => ownSubkeys'[i].isRevoked
<1>1. IdentityInv /\ Next => Kept
  BY NextHasEffect, RevocationStep DEF IdentityInv
<1>2. IdentityInv /\ [Next]_vars => [Kept]_vars
  BY <1>1
<1> QED
  BY <1>2, IdentityInvariant, PTL DEF Spec, RevocationIsForever

\* A call that reports an error leaves the identity alone, but for the User ID of
\* an AddUserId whose nested SetPrimaryUserId failed.
THEOREM ErrorHolds == Spec => ErrorKeepsIdentity
<1> DEFINE Kept == status' # "NO_ERROR" /\ now' = now =>
                     /\ \A i \in DOMAIN ownUserIds :
                           i \in DOMAIN ownUserIds' /\ ownUserIds'[i] = ownUserIds[i]
                     /\ \A i \in DOMAIN ownUserIds' :
                           i \notin DOMAIN ownUserIds => ~ownUserIds'[i].isPrimary
                     /\ UNCHANGED <<ownMaster, ownMasterSecret, ownSubkey, ownSubkeys,
                                    keyExpirationSeconds, passwordCheckHash>>
<1>1. ASSUME TypeOK, Effect
      PROVE  Kept
  <2>1. ASSUME NEW code, Refuse(code)
        PROVE  Kept
    BY <2>1 DEF Refuse, identityVars
  <2>2. ASSUME NEW code, SetOwnUserIds(WithNewUserId, code)
        PROVE  Kept
    <3>1. \A i \in DOMAIN WithNewUserId : i \in DOMAIN ownUserIds \/ i = Len(ownUserIds) + 1
      BY <1>1, WithNewUserIdType DEF TypeOK
    <3>2. ~WithNewUserId[Len(ownUserIds) + 1].isPrimary
      BY <1>1, WithNewUserIdType
    <3>3. \A i \in DOMAIN WithNewUserId : i \notin DOMAIN ownUserIds => ~WithNewUserId[i].isPrimary
      BY <3>1, <3>2, Zenon
    <3>4. \A i \in DOMAIN ownUserIds :
              i \in DOMAIN WithNewUserId /\ WithNewUserId[i] = ownUserIds[i]
      BY <1>1, WithNewUserIdType DEF TypeOK
    <3> QED
      BY <2>2, <3>3, <3>4 DEF SetOwnUserIds
  <2>3. CASE Tick
    BY <1>1, <2>3 DEF Tick, TypeOK
  <2>4. CASE status' = "NO_ERROR"
    BY <2>4
  <2> HIDE DEF Kept
  <2> QED
    BY <1>1, <2>1, <2>2, <2>3, <2>4 DEF Effect, SetOwnUserIds, SetOwnSubkeys, CommitPassword,
                                        CommitPrimaryExpiration
<1>2. IdentityInv /\ Next => Kept
  BY <1>1, NextHasEffect DEF IdentityInv
<1>3. IdentityInv /\ [Next]_vars => [Kept]_vars
  BY <1>2
<1> QED
  BY <1>3, IdentityInvariant, PTL DEF Spec, ErrorKeepsIdentity

-----------------------------------------------------------------------------
(***************************************************************************)
(* The exchange: its inductive invariant.                                  *)
(***************************************************************************)

\* The clock has not passed its bound, no subkey was created in the future, and
\* its binding carries an expiration some caller asked for.
OwnSubkeysInThePast ==
    /\ now <= MaxTime
    /\ \A i \in DOMAIN ownSubkeys :
          ownSubkeys[i].creationTime <= now /\ ownSubkeys[i].binding.exp \in Expirations

\* A copy of the key block, however old: its subkeys sit at their numbers, and if
\* the identity was not replaced since, the identity's list is an extension of the
\* copy's with the same key flags (revocations and expirations may differ).
CopyOf(master, subkeys) ==
    /\ master <= ownMaster
    /\ \A i \in DOMAIN subkeys :
          /\ subkeys[i].key = SubkeyKey(master, i)
          /\ subkeys[i].creationTime <= now
          /\ subkeys[i].expirationSeconds \in Expirations
    /\ master = ownMaster =>
          /\ Len(subkeys) <= Len(ownSubkeys)
          /\ \A i \in DOMAIN subkeys : subkeys[i].keyFlags = ownSubkeys[i].keyFlags

CopiesInv ==
    /\ CopyOf(keyBlock.master, keyBlock.subkeys)
    /\ CopyOf(peer.master, peer.subkeys)

\* What the correspondent encrypts to is nothing, or a key of its copy.
ChosenInv ==
    \/ peer.encryptTo = NoKey
    \/ /\ peer.encryptTo.identity = peer.master
       /\ peer.encryptTo.number <= Len(peer.subkeys)

\* A key in flight is one the owner had: of this identity or of an earlier one.
KnownKey(key) ==
    /\ key.identity <= ownMaster
    /\ key.identity = ownMaster => key.number <= Len(ownSubkeys)

\* The subkey that made a signature is marked as a signing key wherever it is listed.
SignerListed(key, master, subkeys) ==
    key.identity = master /\ key.number \in DOMAIN subkeys =>
        "sign" \in subkeys[key.number].keyFlags

InFlightInv ==
    /\ KnownKey(inFlight.key)
    /\ inFlight.kind = "signature" =>
          /\ SignerListed(inFlight.key, ownMaster, ownSubkeys)
          /\ SignerListed(inFlight.key, keyBlock.master, keyBlock.subkeys)
          /\ SignerListed(inFlight.key, peer.master, peer.subkeys)

ReplyInv ==
    /\ BufferMessageOpens
    /\ SignatureVerifies
    /\ UnknownSignerIsInvalid
    /\ SignsWithNewestSubkey

ExchangeInv ==
    /\ IdentityInv
    /\ ExchangeTypeOK
    /\ OwnSubkeysInThePast
    /\ CopiesInv
    /\ ChosenInv
    /\ InFlightInv
    /\ ReplyInv

-----------------------------------------------------------------------------
(* What a call on the identity does to what the copies were taken from. *)

\* Every call replaces the whole identity by the next one, or keeps it, its
\* subkeys at their places and their key flags (PgpEngine's mutators); and it
\* keeps the creation times in the past.
LEMMA OwnerKeepsSubkeys ==
    ASSUME IdentityInv, OwnSubkeysInThePast, Effect
    PROVE  /\ OwnSubkeysInThePast'
           /\ now <= now'
           /\ \/ ownMaster' = ownMaster + 1
              \/ /\ ownMaster' = ownMaster
                 /\ Len(ownSubkeys) <= Len(ownSubkeys')
                 /\ \A i \in DOMAIN ownSubkeys : ownSubkeys'[i].keyFlags = ownSubkeys[i].keyFlags
<1> DEFINE InPast(subkeys) == \A i \in DOMAIN subkeys :
                 subkeys[i].creationTime <= now /\ subkeys[i].binding.exp \in Expirations
           Extension(subkeys) ==
                 /\ Len(ownSubkeys) <= Len(subkeys)
                 /\ \A i \in DOMAIN ownSubkeys : subkeys[i].keyFlags = ownSubkeys[i].keyFlags
           Goal == /\ OwnSubkeysInThePast'
                   /\ now <= now'
                   /\ \/ ownMaster' = ownMaster + 1
                      \/ ownMaster' = ownMaster /\ Extension(ownSubkeys')
<1>a. /\ ownMaster \in Nat /\ now \in Nat /\ MaxTime \in Nat
      /\ ownSubkeys \in Seq(OwnSubkey)
      /\ \A i \in DOMAIN ownSubkeys : ownSubkeys[i] \in OwnSubkey
  BY PgpConstantsAssumption DEF IdentityInv, TypeOK
<1>b. now <= MaxTime /\ InPast(ownSubkeys) /\ Extension(ownSubkeys)
  BY <1>a DEF OwnSubkeysInThePast
<1>1. ASSUME NEW subkeys, ownSubkeys' = subkeys, InPast(subkeys), UNCHANGED now,
             \/ ownMaster' = ownMaster + 1
             \/ ownMaster' = ownMaster /\ Extension(subkeys)
      PROVE  Goal
  BY <1>1, <1>a, <1>b DEF OwnSubkeysInThePast
<1>2. ASSUME UNCHANGED <<ownSubkeys, ownMaster, now>>
      PROVE  Goal
  BY <1>2, <1>a, <1>b DEF OwnSubkeysInThePast
<1>3. ASSUME NEW password, NEW exp \in Expirations, CommitIdentity(password, exp), UNCHANGED now
      PROVE  Goal
  <2>1. InPast(<<SeededSubkey(password, exp)>>)
    BY <1>a DEF SeededSubkey, NewSubkey, SubkeyBinding
  <2> HIDE DEF InPast, Extension, Goal
  <2> QED
    BY <1>1, <1>3, <2>1 DEF CommitIdentity, CommitKey
<1>4. ASSUME NEW subkeys, SetOwnSubkeys(subkeys), InPast(subkeys), Extension(subkeys)
      PROVE  Goal
  <2> HIDE DEF InPast, Extension, Goal
  <2> QED
    BY <1>1, <1>4 DEF SetOwnSubkeys
<1>5. ASSUME NEW password \in Passwords, NEW flags \in FlagChoices, NEW exp \in Expirations
      PROVE  LET subkeys == Append(ownSubkeys,
                     NewSubkey(ownMaster, Len(ownSubkeys) + 1, password, flags, exp))
             IN  InPast(subkeys) /\ Extension(subkeys)
  <2> DEFINE new == NewSubkey(ownMaster, Len(ownSubkeys) + 1, password, flags, exp)
  <2>1. new \in OwnSubkey
    BY NewSubkeyType, PgpConstantsAssumption DEF IdentityInv, TypeOK, KeyFlags
  <2>2. new.creationTime <= now /\ new.binding.exp \in Expirations
    BY <1>a DEF NewSubkey, SubkeyBinding
  <2> HIDE DEF new
  <2>3. /\ Len(Append(ownSubkeys, new)) = Len(ownSubkeys) + 1
        /\ DOMAIN Append(ownSubkeys, new) = 1 .. Len(ownSubkeys) + 1
        /\ \A i \in DOMAIN ownSubkeys : Append(ownSubkeys, new)[i] = ownSubkeys[i]
        /\ Append(ownSubkeys, new)[Len(ownSubkeys) + 1] = new
    BY <1>a, <2>1, AppendFacts
  <2>4. InPast(Append(ownSubkeys, new))
    BY <1>a, <1>b, <2>2, <2>3
  <2>5. Extension(Append(ownSubkeys, new))
    BY <1>a, <2>3
  <2> QED
    BY <2>4, <2>5 DEF new
<1>6. ASSUME NEW i \in DOMAIN ownSubkeys
      PROVE  LET subkeys == [ownSubkeys EXCEPT ![i].isRevoked = TRUE]
             IN  InPast(subkeys) /\ Extension(subkeys)
  BY <1>a, <1>b DEF OwnSubkey
<1>7. ASSUME NEW i \in DOMAIN ownSubkeys, NEW exp \in Expirations
      PROVE  LET subkeys == [ownSubkeys EXCEPT
                     ![i].binding = SubkeyBinding(ownMaster, exp, ownSubkeys[i].keyFlags),
                     ![i].expirationSeconds = exp]
             IN  InPast(subkeys) /\ Extension(subkeys)
  BY <1>a, <1>b DEF OwnSubkey, SubkeyBinding
<1>8. ASSUME NEW new, CommitPassword(new)
      PROVE  Goal
  <2>1. InPast(ownSubkeys') /\ Extension(ownSubkeys')
    <3>1. /\ DOMAIN ownSubkeys' = DOMAIN ownSubkeys
          /\ \A i \in DOMAIN ownSubkeys : ownSubkeys'[i] = [ownSubkeys[i] EXCEPT !.secret = new]
      BY <1>8 DEF CommitPassword
    <3>2. \A i \in DOMAIN ownSubkeys : /\ ownSubkeys'[i].creationTime = ownSubkeys[i].creationTime
                                       /\ ownSubkeys'[i].binding = ownSubkeys[i].binding
                                       /\ ownSubkeys'[i].keyFlags = ownSubkeys[i].keyFlags
      BY <1>a, <3>1 DEF OwnSubkey
    <3>3. Len(ownSubkeys') = Len(ownSubkeys)
      BY <1>8, <1>a, SeqMap DEF CommitPassword, OwnSubkey
    <3> QED
      BY <1>a, <1>b, <3>1, <3>2, <3>3
  <2> HIDE DEF InPast, Extension, Goal
  <2> QED
    BY <1>1, <1>8, <2>1 DEF CommitPassword
<1>9. ASSUME Tick
      PROVE  Goal
  <2>1. /\ now' = now + 1 /\ now < MaxTime
        /\ ownMaster' = ownMaster /\ ownSubkeys' = ownSubkeys
    BY <1>9 DEF Tick, identityVars
  <2>2. \A i \in DOMAIN ownSubkeys : ownSubkeys[i].creationTime \in Nat
    BY <1>a DEF OwnSubkey
  <2>3. OwnSubkeysInThePast'
    BY <1>a, <1>b, <2>1, <2>2 DEF OwnSubkeysInThePast
  <2> QED
    BY <1>a, <1>b, <2>1, <2>3
<1>10. Goal
  <2> HIDE DEF Goal, InPast, Extension
  <2>1. ASSUME NEW uids, NEW code, SetOwnUserIds(uids, code)
        PROVE  Goal
    BY <1>2, <2>1 DEF SetOwnUserIds
  <2>2. ASSUME NEW code, Refuse(code)
        PROVE  Goal
    BY <1>2, <2>2 DEF Refuse, identityVars
  <2>3. ASSUME NEW exp, CommitPrimaryExpiration(exp)
        PROVE  Goal
    BY <1>2, <2>3 DEF CommitPrimaryExpiration
  <2>4. ASSUME NEW password \in Passwords, NEW flags \in FlagChoices, NEW exp \in Expirations,
               SetOwnSubkeys(Append(ownSubkeys,
                  NewSubkey(ownMaster, Len(ownSubkeys) + 1, password, flags, exp)))
        PROVE  Goal
    BY <1>4, <1>5, <2>4, Zenon
  <2>5. ASSUME NEW i \in DOMAIN ownSubkeys,
               SetOwnSubkeys([ownSubkeys EXCEPT ![i].isRevoked = TRUE])
        PROVE  Goal
    BY <1>4, <1>6, <2>5, Zenon
  <2>6. ASSUME NEW i \in DOMAIN ownSubkeys, NEW exp \in Expirations,
               SetOwnSubkeys([ownSubkeys EXCEPT
                  ![i].binding = SubkeyBinding(ownMaster, exp, ownSubkeys[i].keyFlags),
                  ![i].expirationSeconds = exp])
        PROVE  Goal
    BY <1>4, <1>7, <2>6, Zenon
  <2> QED
    BY <1>3, <1>8, <1>9, <2>1, <2>2, <2>3, <2>4, <2>5, <2>6 DEF Effect
<1> QED
  BY <1>10

-----------------------------------------------------------------------------
(* The searches: the newest candidate, the last signing subkey. *)

\* The search for the newest subkey ends at a candidate no other is newer than.
LEMMA NewestIsNewest ==
    ASSUME NEW subkeys \in Seq(PeerSubkey), NEW t \in Nat,
           \A i \in DOMAIN subkeys : subkeys[i].creationTime <= t,
           NEW candidates \in SUBSET DOMAIN subkeys, candidates # {}
    PROVE  /\ Newest(subkeys, candidates) \in candidates
           /\ \A j \in candidates :
                 subkeys[j].creationTime <= subkeys[Newest(subkeys, candidates)].creationTime
<1>1. ASSUME NEW i \in DOMAIN subkeys
      PROVE  i \in Nat /\ subkeys[i].creationTime \in Nat
  <2>1. i \in Nat /\ subkeys[i] \in PeerSubkey
    OBVIOUS
  <2> QED
    BY <2>1 DEF PeerSubkey
<1> DEFINE times == {c \in Nat : \E i \in candidates : subkeys[i].creationTime = c}
<1>2. \A i \in candidates : subkeys[i].creationTime \in times
  BY <1>1
<1>3. PICK c \in times : \A d \in times : d <= c
  <2>1. times \in SUBSET Nat /\ times # {}
    BY <1>2
  <2>2. \A d \in times : d <= t
    OBVIOUS
  <2> HIDE DEF times
  <2> QED
    BY <2>1, <2>2, GreatestNatural
<1> DEFINE newest == {i \in candidates : subkeys[i].creationTime = c}
<1>4. PICK i \in newest : \A j \in newest : i <= j
  <2>1. newest \in SUBSET Nat /\ newest # {}
    BY <1>1, <1>3
  <2> HIDE DEF newest
  <2> QED
    BY <2>1, LeastNatural
<1>5. ASSUME NEW j \in candidates
      PROVE  \/ subkeys[j].creationTime < subkeys[i].creationTime
             \/ subkeys[j].creationTime = subkeys[i].creationTime /\ i <= j
  <2>1. subkeys[j].creationTime <= c /\ subkeys[j].creationTime \in Nat /\ c \in Nat
    BY <1>1, <1>2, <1>3
  <2>2. subkeys[j].creationTime = c => i <= j
    BY <1>4
  <2> QED
    BY <1>4, <2>1, <2>2
<1> DEFINE Best(k) == \A j \in candidates :
                 \/ subkeys[j].creationTime < subkeys[k].creationTime
                 \/ subkeys[j].creationTime = subkeys[k].creationTime /\ k <= j
<1>6. \E k \in candidates : Best(k)
  BY <1>5
<1>7. Newest(subkeys, candidates) \in candidates /\ Best(Newest(subkeys, candidates))
  <2>1. Newest(subkeys, candidates) = CHOOSE k \in candidates : Best(k)
    BY DEF Newest
  <2> HIDE DEF Best
  <2> QED
    BY <1>6, <2>1, Zenon
<1> QED
  BY <1>1, <1>7

\* chooseBestPeerEncryptionSubkey names a usable subkey of the block at its number
\* (the newest one with the encryption flag while there is one), the master key of
\* an RSA block, or nothing.
LEMMA ChosenKeyFacts ==
    ASSUME NEW block \in [master : Nat, subkeys : Seq(PeerSubkey)], now \in Nat,
           \A i \in DOMAIN block.subkeys :
               /\ block.subkeys[i].key = SubkeyKey(block.master, i)
               /\ block.subkeys[i].creationTime <= now
    PROVE  LET chosen == chooseBestPeerEncryptionSubkey(block)
               withFlags == {i \in Usable(block.subkeys) :
                                "encrypt" \in block.subkeys[i].keyFlags}
           IN  /\ chosen \in Keys
               /\ \/ chosen = NoKey
                  \/ chosen = MasterKey(block.master)
                  \/ \E i \in Usable(block.subkeys) : chosen = SubkeyKey(block.master, i)
               /\ withFlags # {} =>
                     \E i \in withFlags :
                         /\ chosen = SubkeyKey(block.master, i)
                         /\ \A j \in withFlags :
                               block.subkeys[j].creationTime <= block.subkeys[i].creationTime
<1> DEFINE usable == Usable(block.subkeys)
           withFlags == {i \in usable : "encrypt" \in block.subkeys[i].keyFlags}
           chosen == chooseBestPeerEncryptionSubkey(block)
<1>1. block.master \in Nat /\ block.subkeys \in Seq(PeerSubkey)
  OBVIOUS
<1>2. usable \in SUBSET DOMAIN block.subkeys /\ withFlags \in SUBSET usable
  BY DEF Usable
<1>3. \A i \in DOMAIN block.subkeys : i \in Nat
  BY <1>1
<1>4. CASE withFlags # {}
  <2> DEFINE i == Newest(block.subkeys, withFlags)
  <2>1. chosen = block.subkeys[i].key
    BY <1>4 DEF chooseBestPeerEncryptionSubkey
  <2>2. /\ i \in withFlags
        /\ \A j \in withFlags : block.subkeys[j].creationTime <= block.subkeys[i].creationTime
    <3> HIDE DEF withFlags, usable
    <3> QED
      BY <1>1, <1>2, <1>4, NewestIsNewest
  <2>3. chosen = SubkeyKey(block.master, i)
    BY <1>2, <2>1, <2>2
  <2>4. chosen \in Keys
    BY <1>1, <1>2, <1>3, <2>2, <2>3 DEF SubkeyKey, Keys
  <2> HIDE DEF i, chosen
  <2> QED
    BY <1>2, <2>2, <2>3, <2>4 DEF chosen
<1>5. CASE withFlags = {} /\ usable # {}
  <2> DEFINE i == Newest(block.subkeys, usable)
  <2>1. chosen = block.subkeys[i].key
    BY <1>5 DEF chooseBestPeerEncryptionSubkey
  <2>2. i \in usable
    <3> HIDE DEF usable
    <3> QED
      BY <1>1, <1>2, <1>5, NewestIsNewest
  <2>3. chosen = SubkeyKey(block.master, i)
    BY <1>2, <2>1, <2>2
  <2>4. chosen \in Keys
    BY <1>1, <1>2, <1>3, <2>2, <2>3 DEF SubkeyKey, Keys
  <2> HIDE DEF i, chosen
  <2> QED
    BY <1>5, <2>2, <2>3, <2>4 DEF chosen
<1>6. CASE withFlags = {} /\ usable = {}
  <2>1. chosen = MasterKey(block.master) \/ chosen = NoKey
    BY <1>6 DEF chooseBestPeerEncryptionSubkey
  <2>2. MasterKey(block.master) \in Keys /\ NoKey \in Keys
    BY <1>1 DEF MasterKey, NoKey, Keys
  <2> QED
    BY <1>6, <2>1, <2>2
<1> QED
  BY <1>4, <1>5, <1>6

\* selectActiveSigningKeyMaterial names the last unrevoked signing subkey, or the
\* master key when there is none.
LEMMA SignerFacts ==
    ASSUME IdentityInv
    PROVE  LET signer == selectActiveSigningKeyMaterial
           IN  /\ signer \in Keys
               /\ signer.identity = ownMaster
               /\ signer.number <= Len(ownSubkeys)
               /\ signer.number # 0 => signer.number \in SignCapable
               /\ \A i \in SignCapable : i <= signer.number
<1> DEFINE signer == selectActiveSigningKeyMaterial
<1>1. /\ ownMaster \in Nat /\ ownSubkeys \in Seq(OwnSubkey)
      /\ DOMAIN ownSubkeys = 1 .. Len(ownSubkeys) /\ Len(ownSubkeys) \in Nat
      /\ \A i \in DOMAIN ownSubkeys : ownSubkeys[i].key = SubkeyKey(ownMaster, i)
  BY DEF IdentityInv, TypeOK, SubkeyInv, ExportedByOwnMaster
<1>2. SignCapable \in SUBSET DOMAIN ownSubkeys
  BY DEF SignCapable
<1>3. CASE SignCapable = {}
  <2>1. signer = MasterKey(ownMaster)
    BY <1>3 DEF selectActiveSigningKeyMaterial
  <2> QED
    BY <1>1, <1>3, <2>1 DEF MasterKey, Keys
<1>4. CASE SignCapable # {}
  <2> DEFINE Last(i) == \A j \in SignCapable : j <= i
             last == CHOOSE i \in SignCapable : Last(i)
  <2>1. \E i \in SignCapable : Last(i)
    <3>1. SignCapable \in SUBSET Nat /\ \A i \in SignCapable : i <= Len(ownSubkeys)
      BY <1>1, <1>2
    <3> QED
      BY <1>1, <1>4, <3>1, GreatestNatural
  <2>2. last \in SignCapable /\ Last(last)
    <3> HIDE DEF Last
    <3> QED
      BY <2>1, Zenon
  <2>3. signer = ownSubkeys[last].key
    BY <1>4 DEF selectActiveSigningKeyMaterial
  <2>4. signer = SubkeyKey(ownMaster, last)
    BY <1>1, <1>2, <2>2, <2>3
  <2>5. last \in 1 .. Len(ownSubkeys)
    BY <1>1, <1>2, <2>2
  <2> HIDE DEF last, signer
  <2> QED
    BY <1>1, <2>2, <2>4, <2>5 DEF SubkeyKey, Keys, signer
<1> QED
  BY <1>3, <1>4

-----------------------------------------------------------------------------
(* The invariant is kept, one lemma per group of calls. *)

\* A reply of a call the properties do not speak of, or of one that was refused.
LEMMA QuietReply ==
    ASSUME \/ reply'.op \notin {"DecryptBuffer", "VerifyBuffer", "VerifyFile", "SignBuffer"}
           \/ reply'.code = "INVALID_ARGUMENT" /\ ~reply'.isValid
    PROVE  ReplyInv'
  BY DEF ReplyInv, BufferMessageOpens, SignatureVerifies, UnknownSignerIsInvalid,
         SignsWithNewestSubkey

\* A reply is made of the call's name, a code and a verdict.
LEMMA ReplyType ==
    ASSUME NEW op \in Ops, NEW code \in Statuses, NEW valid \in BOOLEAN, Replies(op, code, valid)
    PROVE  reply' \in [op : Ops, code : Statuses \cup {"INVALID_DATA"}, isValid : BOOLEAN]
  BY DEF Replies

\* A call on the identity: the copies grow older, and the key in flight with them.
LEMMA OwnerStepKeeps ==
    ASSUME ExchangeInv, OwnerStep
    PROVE  ExchangeInv'
<1>1. Effect /\ UNCHANGED <<keyBlock, peer, inFlight>> /\ reply' = NoReply
  BY NextHasEffect DEF OwnerStep, Next
<1>2. IdentityInv'
  BY IdentityInvStep DEF ExchangeInv, OwnerStep, Next
<1>3. ExchangeTypeOK'
  BY <1>1, <1>2 DEF ExchangeInv, ExchangeTypeOK, IdentityInv, NoReply, Ops, Statuses
<1>4. /\ OwnSubkeysInThePast'
      /\ now <= now'
      /\ \/ ownMaster' = ownMaster + 1
         \/ /\ ownMaster' = ownMaster
            /\ Len(ownSubkeys) <= Len(ownSubkeys')
            /\ \A i \in DOMAIN ownSubkeys : ownSubkeys'[i].keyFlags = ownSubkeys[i].keyFlags
  BY <1>1, OwnerKeepsSubkeys DEF ExchangeInv
<1>5. /\ ownMaster \in Nat /\ now \in Nat /\ now' \in Nat
      /\ ownSubkeys \in Seq(OwnSubkey) /\ ownSubkeys' \in Seq(OwnSubkey)
      /\ keyBlock.master \in Nat /\ keyBlock.subkeys \in Seq(PeerSubkey)
      /\ peer.master \in Nat /\ peer.subkeys \in Seq(PeerSubkey)
      /\ inFlight.key.identity \in Nat /\ inFlight.key.number \in Nat
  <2>1. TypeOK /\ TypeOK'
    BY <1>2 DEF ExchangeInv, IdentityInv
  <2> QED
    BY <2>1 DEF ExchangeInv, ExchangeTypeOK, TypeOK, Keys
<1>6. ASSUME NEW master \in Nat, NEW subkeys \in Seq(PeerSubkey), CopyOf(master, subkeys)
      PROVE  CopyOf(master, subkeys)'
  <2>1. ASSUME NEW i \in DOMAIN subkeys
        PROVE  subkeys[i].creationTime \in Nat
    <3>1. subkeys[i] \in PeerSubkey
      OBVIOUS
    <3> QED
      BY <3>1 DEF PeerSubkey
  <2>2. \A i \in DOMAIN subkeys : subkeys[i].creationTime <= now'
    BY <1>4, <1>5, <1>6, <2>1 DEF CopyOf
  <2>3. master <= ownMaster'
    BY <1>4, <1>5, <1>6 DEF CopyOf
  <2>4. ASSUME master = ownMaster'
        PROVE  /\ Len(subkeys) <= Len(ownSubkeys')
               /\ \A i \in DOMAIN subkeys : subkeys[i].keyFlags = ownSubkeys'[i].keyFlags
    <3>1. ownMaster' = ownMaster /\ master = ownMaster
      BY <1>4, <1>5, <1>6, <2>4 DEF CopyOf
    <3>2. Len(subkeys) <= Len(ownSubkeys) /\ \A i \in DOMAIN subkeys : subkeys[i].keyFlags = ownSubkeys[i].keyFlags
      BY <1>6, <3>1 DEF CopyOf
    <3>3. Len(ownSubkeys) <= Len(ownSubkeys') /\ \A i \in DOMAIN ownSubkeys : ownSubkeys'[i].keyFlags = ownSubkeys[i].keyFlags
      BY <1>4, <1>5, <3>1
    <3>4. \A i \in DOMAIN subkeys : i \in DOMAIN ownSubkeys
      BY <1>5, <3>2
    <3> QED
      BY <1>5, <3>2, <3>3, <3>4
  <2> QED
    BY <1>6, <2>2, <2>3, <2>4 DEF CopyOf
<1>7. CopiesInv' /\ ChosenInv'
  BY <1>1, <1>5, <1>6 DEF ExchangeInv, CopiesInv, ChosenInv, CopyOf
<1>8. InFlightInv'
  BY <1>1, <1>4, <1>5 DEF ExchangeInv, InFlightInv, KnownKey, SignerListed
<1>9. ReplyInv'
  BY <1>1, QuietReply DEF NoReply
<1> QED
  BY <1>2, <1>3, <1>4, <1>7, <1>8, <1>9 DEF ExchangeInv

\* An exchange call leaves the identity and the clock alone.
LEMMA IdentityFrame ==
    ASSUME ExchangeInv, UNCHANGED vars
    PROVE  /\ IdentityInv' /\ TypeOK' /\ OwnSubkeysInThePast'
           /\ ownMaster' = ownMaster /\ ownSubkeys' = ownSubkeys /\ now' = now
<1>1. IdentityInv'
  BY IdentityInvStep DEF ExchangeInv
<1>2. ownMaster' = ownMaster /\ ownSubkeys' = ownSubkeys /\ now' = now
  BY DEF vars, identityVars
<1>3. OwnSubkeysInThePast'
  BY <1>2 DEF ExchangeInv, OwnSubkeysInThePast
<1> QED
  BY <1>1, <1>2, <1>3 DEF IdentityInv

\* The types of what an exchange call reads.
LEMMA ExchangeTypes ==
    ASSUME ExchangeInv
    PROVE  /\ ownMaster \in Nat /\ now \in Nat /\ ownSubkeys \in Seq(OwnSubkey)
           /\ keyBlock.master \in Nat /\ keyBlock.subkeys \in Seq(PeerSubkey)
           /\ peer.master \in Nat /\ peer.subkeys \in Seq(PeerSubkey)
           /\ peer.encryptTo \in Keys
           /\ inFlight.key \in Keys
           /\ inFlight.key.identity \in Nat /\ inFlight.key.number \in Nat
  BY DEF ExchangeInv, ExchangeTypeOK, TypeOK, Keys

\* A call that only replies keeps the rest of the invariant.
LEMMA ReplyOnlyKeeps ==
    ASSUME ExchangeInv, UNCHANGED <<vars, keyBlock, peer, inFlight>>,
           NEW op \in Ops, NEW code \in Statuses \cup {"INVALID_DATA"}, NEW valid \in BOOLEAN,
           Replies(op, code, valid), ReplyInv'
    PROVE  ExchangeInv'
<1>1. UNCHANGED vars /\ UNCHANGED <<keyBlock, peer, inFlight>>
  OBVIOUS
<1>2. /\ IdentityInv' /\ TypeOK' /\ OwnSubkeysInThePast'
      /\ ownMaster' = ownMaster /\ ownSubkeys' = ownSubkeys /\ now' = now
  BY <1>1, IdentityFrame
<1>3. ExchangeTypeOK'
  BY <1>1, <1>2 DEF ExchangeInv, ExchangeTypeOK, Replies
<1>4. CopiesInv' /\ ChosenInv'
  BY <1>1, <1>2 DEF ExchangeInv, CopiesInv, CopyOf, ChosenInv
<1>5. InFlightInv'
  BY <1>1, <1>2 DEF ExchangeInv, InFlightInv, KnownKey, SignerListed
<1> QED
  BY <1>2, <1>3, <1>4, <1>5 DEF ExchangeInv

\* Exporting takes a copy that agrees with the identity in everything
\* (renderOwnKeyBlocks).
LEMMA RenderedBlock ==
    ASSUME ExchangeInv
    PROVE  /\ renderOwnKeyBlocks \in [master : Nat, subkeys : Seq(PeerSubkey)]
           /\ CopyOf(renderOwnKeyBlocks.master, renderOwnKeyBlocks.subkeys)
           /\ renderOwnKeyBlocks.master = ownMaster
           /\ DOMAIN renderOwnKeyBlocks.subkeys = DOMAIN ownSubkeys
           /\ \A i \in DOMAIN ownSubkeys :
                 renderOwnKeyBlocks.subkeys[i].keyFlags = ownSubkeys[i].keyFlags
<1> DEFINE subkeys == [i \in DOMAIN ownSubkeys |-> ExportedSubkey(ownSubkeys[i])]
<1>1. renderOwnKeyBlocks = [master |-> ownMaster, subkeys |-> subkeys]
  BY DEF renderOwnKeyBlocks
<1>2. ownMaster \in Nat /\ ownSubkeys \in Seq(OwnSubkey)
  BY ExchangeTypes
<1>3. ASSUME NEW i \in DOMAIN ownSubkeys
      PROVE  /\ subkeys[i] \in PeerSubkey
             /\ subkeys[i].key = SubkeyKey(ownMaster, i)
             /\ subkeys[i].creationTime <= now
             /\ subkeys[i].expirationSeconds \in Expirations
             /\ subkeys[i].keyFlags = ownSubkeys[i].keyFlags
  <2>1. ownSubkeys[i] \in OwnSubkey
    BY <1>2
  <2>2. ExportedSubkey(ownSubkeys[i]) \in PeerSubkey
    BY <2>1 DEF ExportedSubkey, OwnSubkey, PeerSubkey, Bindings
  <2>3. /\ ownSubkeys[i].key = SubkeyKey(ownMaster, i)
        /\ ownSubkeys[i].binding.flags = ownSubkeys[i].keyFlags
        /\ ownSubkeys[i].creationTime <= now
        /\ ownSubkeys[i].binding.exp \in Expirations
    BY DEF ExchangeInv, IdentityInv, SubkeyInv, ExportedByOwnMaster, BindingMatchesGetters,
           OwnSubkeysInThePast
  <2>4. subkeys[i] = ExportedSubkey(ownSubkeys[i])
    OBVIOUS
  <2> QED
    BY <2>2, <2>3, <2>4 DEF ExportedSubkey
<1>4. DOMAIN subkeys = DOMAIN ownSubkeys
  OBVIOUS
<1>5. subkeys \in Seq(PeerSubkey) /\ Len(subkeys) = Len(ownSubkeys)
  <2>1. subkeys \in [DOMAIN ownSubkeys -> PeerSubkey]
    BY <1>3
  <2> HIDE DEF subkeys
  <2> QED
    BY <1>2, <2>1, SeqMap
<1> HIDE DEF subkeys
<1>6. CopyOf(ownMaster, subkeys)
  BY <1>2, <1>3, <1>4, <1>5 DEF CopyOf
<1> QED
  BY <1>1, <1>2, <1>3, <1>4, <1>5, <1>6

\* Exporting keeps the invariant, whether a key exists yet or not.
LEMMA ExportKeeps ==
    ASSUME ExchangeInv, ExportPublicKeyArmored
    PROVE  ExchangeInv'
<1>1. UNCHANGED vars /\ UNCHANGED <<peer, inFlight>>
  BY DEF ExportPublicKeyArmored
<1>2. /\ IdentityInv' /\ TypeOK' /\ OwnSubkeysInThePast'
      /\ ownMaster' = ownMaster /\ ownSubkeys' = ownSubkeys /\ now' = now
  BY <1>1, IdentityFrame
<1>3. keyBlock' = keyBlock \/ keyBlock' = renderOwnKeyBlocks
  BY DEF ExportPublicKeyArmored
<1>4. /\ keyBlock' \in [master : Nat, subkeys : Seq(PeerSubkey)]
      /\ CopyOf(keyBlock'.master, keyBlock'.subkeys)
  BY <1>3, RenderedBlock DEF ExchangeInv, ExchangeTypeOK, CopiesInv
<1>5. CopiesInv' /\ ChosenInv'
  BY <1>1, <1>2, <1>4 DEF ExchangeInv, CopiesInv, CopyOf, ChosenInv
<1>6. ExchangeTypeOK'
  <2>1. reply' \in [op : Ops, code : Statuses \cup {"INVALID_DATA"}, isValid : BOOLEAN]
    <3>1. \E code \in Statuses : Replies("ExportPublicKeyArmored", code, FALSE)
      BY DEF ExportPublicKeyArmored, Statuses
    <3> QED
      BY <3>1, ReplyType DEF Ops
  <2> QED
    BY <1>1, <1>2, <1>4, <2>1 DEF ExchangeInv, ExchangeTypeOK
<1>7. InFlightInv'
  <2>1. inFlight.kind = "signature" => SignerListed(inFlight.key, keyBlock'.master, keyBlock'.subkeys)
    BY <1>3, RenderedBlock DEF ExchangeInv, InFlightInv, SignerListed
  <2> QED
    BY <1>1, <1>2, <2>1 DEF ExchangeInv, InFlightInv, KnownKey, SignerListed
<1>8. ReplyInv'
  BY QuietReply DEF ExportPublicKeyArmored, Replies
<1> QED
  BY <1>2, <1>5, <1>6, <1>7, <1>8 DEF ExchangeInv

\* Importing makes the correspondent's copy the exported one and fixes the key it
\* encrypts to.
LEMMA ImportKeeps ==
    ASSUME ExchangeInv, ImportPeerPublicKey
    PROVE  ExchangeInv'
<1> DEFINE chosen == chooseBestPeerEncryptionSubkey(keyBlock)
<1>1. UNCHANGED vars /\ UNCHANGED <<keyBlock, inFlight>>
  BY DEF ImportPeerPublicKey
<1>2. /\ IdentityInv' /\ TypeOK' /\ OwnSubkeysInThePast'
      /\ ownMaster' = ownMaster /\ ownSubkeys' = ownSubkeys /\ now' = now
  BY <1>1, IdentityFrame
<1>3. peer' = [imported |-> TRUE, master |-> keyBlock.master, subkeys |-> keyBlock.subkeys,
               encryptTo |-> chosen, importedAt |-> now]
  BY DEF ImportPeerPublicKey
<1>4. /\ chosen \in Keys
      /\ \/ chosen = NoKey
         \/ chosen = MasterKey(keyBlock.master)
         \/ \E i \in Usable(keyBlock.subkeys) : chosen = SubkeyKey(keyBlock.master, i)
  <2>1. keyBlock \in [master : Nat, subkeys : Seq(PeerSubkey)] /\ now \in Nat
    BY ExchangeTypes DEF ExchangeInv, ExchangeTypeOK
  <2>2. \A i \in DOMAIN keyBlock.subkeys :
            /\ keyBlock.subkeys[i].key = SubkeyKey(keyBlock.master, i)
            /\ keyBlock.subkeys[i].creationTime <= now
    BY DEF ExchangeInv, CopiesInv, CopyOf
  <2> QED
    BY <2>1, <2>2, ChosenKeyFacts
<1> HIDE DEF chosen
<1>5. ExchangeTypeOK'
  BY <1>1, <1>2, <1>3, <1>4, ExchangeTypes
  DEF ExchangeInv, ExchangeTypeOK, ImportPeerPublicKey, Replies, Ops, Statuses
<1>6. CopiesInv'
  BY <1>1, <1>2, <1>3 DEF ExchangeInv, CopiesInv, CopyOf
<1>7. ChosenInv'
  <2>1. \A i \in Usable(keyBlock.subkeys) : i <= Len(keyBlock.subkeys)
    BY ExchangeTypes DEF Usable
  <2>2. 0 <= Len(keyBlock.subkeys)
    BY ExchangeTypes
  <2> QED
    BY <1>3, <1>4, <2>1, <2>2 DEF ChosenInv, MasterKey, SubkeyKey
<1>8. InFlightInv'
  BY <1>1, <1>2, <1>3 DEF ExchangeInv, InFlightInv, KnownKey, SignerListed
<1>9. ReplyInv'
  BY QuietReply DEF ImportPeerPublicKey, Replies
<1> QED
  BY <1>2, <1>5, <1>6, <1>7, <1>8, <1>9 DEF ExchangeInv

\* A message names the key the correspondent chose at the import.
LEMMA EncryptKeeps ==
    ASSUME ExchangeInv, Encrypt
    PROVE  ExchangeInv'
<1>1. UNCHANGED vars /\ UNCHANGED <<keyBlock, peer>>
  BY DEF Encrypt
<1>2. /\ IdentityInv' /\ TypeOK' /\ OwnSubkeysInThePast'
      /\ ownMaster' = ownMaster /\ ownSubkeys' = ownSubkeys /\ now' = now
  BY <1>1, IdentityFrame
<1>3. inFlight' = inFlight \/ inFlight' = [kind |-> "message", key |-> peer.encryptTo]
  BY DEF Encrypt
<1>4. ExchangeTypeOK'
  <2>1. reply' \in [op : Ops, code : Statuses \cup {"INVALID_DATA"}, isValid : BOOLEAN]
    <3>1. \E code \in Statuses : Replies("Encrypt", code, FALSE)
      BY DEF Encrypt, Statuses
    <3> QED
      BY <3>1, ReplyType DEF Ops
  <2>2. inFlight' \in [kind : {"none", "message", "signature"}, key : Keys]
    BY <1>3, ExchangeTypes DEF ExchangeInv, ExchangeTypeOK
  <2> QED
    BY <1>1, <1>2, <2>1, <2>2 DEF ExchangeInv, ExchangeTypeOK
<1>5. CopiesInv' /\ ChosenInv'
  BY <1>1, <1>2 DEF ExchangeInv, CopiesInv, CopyOf, ChosenInv
<1>6. KnownKey(peer.encryptTo)
  <2>1. CopyOf(peer.master, peer.subkeys) /\ ChosenInv
    BY DEF ExchangeInv, CopiesInv
  <2>2. peer.encryptTo.number \in Nat /\ peer.encryptTo.identity \in Nat
    BY ExchangeTypes DEF Keys
  <2> QED
    BY <2>1, <2>2, ExchangeTypes DEF CopyOf, ChosenInv, KnownKey, NoKey
<1>7. InFlightInv'
  BY <1>1, <1>2, <1>3, <1>6 DEF ExchangeInv, InFlightInv, KnownKey, SignerListed
<1>8. ReplyInv'
  BY QuietReply DEF Encrypt, Replies
<1> QED
  BY <1>2, <1>4, <1>5, <1>7, <1>8 DEF ExchangeInv

\* Decrypting: DecryptBuffer opens what is addressed to a subkey of the identity.
LEMMA DecryptKeeps ==
    ASSUME ExchangeInv, NEW password \in Passwords,
           DecryptBuffer(password) \/ DecryptFile(password)
    PROVE  ExchangeInv'
<1>1. UNCHANGED <<vars, keyBlock, peer, inFlight>>
  BY DEF DecryptBuffer, DecryptFile, Decrypt
<1>2. /\ ownMaster' = ownMaster /\ inFlight' = inFlight
  BY <1>1 DEF vars, identityVars
<1>3. ASSUME Authorised(password)
      PROVE  parseAndDecryptMessageWithAnyOwnSubkey(inFlight.key)
                <=> inFlight.key.identity = ownMaster /\ inFlight.key.number # 0
  <2>1. /\ ownSubkeys # <<>> /\ ownSubkey = ownSubkeys[1].key
        /\ \A i \in DOMAIN ownSubkeys : ownSubkeys[i].key = SubkeyKey(ownMaster, i)
    BY <1>3 DEF Authorised, ExchangeInv, IdentityInv, SubkeyInv, FlatSubkeyMirrors,
                ExportedByOwnMaster
  <2>2. /\ DOMAIN ownSubkeys = 1 .. Len(ownSubkeys) /\ Len(ownSubkeys) \in Nat
        /\ 1 \in DOMAIN ownSubkeys
    BY <2>1, ExchangeTypes
  <2>3. parseAndDecryptMessageWithAnyOwnSubkey(inFlight.key)
           <=> \E i \in DOMAIN ownSubkeys : inFlight.key = SubkeyKey(ownMaster, i)
    BY <2>1, <2>2 DEF parseAndDecryptMessageWithAnyOwnSubkey
  <2>4. inFlight.key = SubkeyKey(inFlight.key.identity, inFlight.key.number)
    BY ExchangeTypes DEF SubkeyKey, Keys
  <2>5. inFlight.key.identity = ownMaster => inFlight.key.number <= Len(ownSubkeys)
    BY DEF ExchangeInv, InFlightInv, KnownKey
  <2>6. ASSUME inFlight.key.identity = ownMaster, inFlight.key.number # 0
        PROVE  \E i \in DOMAIN ownSubkeys : inFlight.key = SubkeyKey(ownMaster, i)
    <3>1. inFlight.key.number \in DOMAIN ownSubkeys
      BY <2>2, <2>5, <2>6, ExchangeTypes
    <3> QED
      BY <2>4, <2>6, <3>1
  <2>7. ASSUME NEW i \in DOMAIN ownSubkeys, inFlight.key = SubkeyKey(ownMaster, i)
        PROVE  inFlight.key.identity = ownMaster /\ inFlight.key.number # 0
    BY <2>2, <2>7 DEF SubkeyKey
  <2> QED
    BY <2>3, <2>6, <2>7
<1>4. CASE DecryptFile(password)
  <2>1. ReplyInv'
    BY <1>4, QuietReply DEF DecryptFile, Decrypt, Replies
  <2>2. \E code \in Statuses \cup {"INVALID_DATA"} : Replies("DecryptFile", code, FALSE)
    BY <1>4 DEF DecryptFile, Decrypt, Statuses
  <2> QED
    BY <1>1, <2>1, <2>2, ReplyOnlyKeeps DEF Ops
<1>5. CASE DecryptBuffer(password)
  <2>1. BufferMessageOpens'
    BY <1>2, <1>3, <1>5 DEF DecryptBuffer, Decrypt, Replies, BufferMessageOpens
  <2>2. ReplyInv'
    BY <1>5, <2>1 DEF DecryptBuffer, Decrypt, Replies, ReplyInv, SignatureVerifies,
                      UnknownSignerIsInvalid, SignsWithNewestSubkey
  <2>3. \E code \in Statuses \cup {"INVALID_DATA"} : Replies("DecryptBuffer", code, FALSE)
    BY <1>5 DEF DecryptBuffer, Decrypt, Statuses
  <2> QED
    BY <1>1, <2>2, <2>3, ReplyOnlyKeeps DEF Ops
<1> QED
  BY <1>4, <1>5

\* A signature of this identity, by a subkey marked for signing or by the master key.
LEMMA SignKeeps ==
    ASSUME ExchangeInv, NEW password \in Passwords, SignBuffer(password) \/ SignFile(password)
    PROVE  ExchangeInv'
<1>1. UNCHANGED vars /\ UNCHANGED <<keyBlock, peer>>
  BY DEF SignBuffer, SignFile, Sign
<1>2. /\ IdentityInv' /\ TypeOK' /\ OwnSubkeysInThePast'
      /\ ownMaster' = ownMaster /\ ownSubkeys' = ownSubkeys /\ now' = now
  BY <1>1, IdentityFrame
<1>3. PICK key \in {selectActiveSigningKeyMaterial, MasterKey(ownMaster)} :
          inFlight' = inFlight \/ inFlight' = [kind |-> "signature", key |-> key]
  BY DEF SignBuffer, SignFile, Sign
<1>4. /\ key \in Keys /\ key.identity = ownMaster
      /\ key.number <= Len(ownSubkeys)
      /\ key.number # 0 => key.number \in SignCapable
  <2>1. CASE key = selectActiveSigningKeyMaterial
    BY <2>1, SignerFacts DEF ExchangeInv
  <2>2. CASE key = MasterKey(ownMaster)
    BY <2>2, ExchangeTypes DEF MasterKey, Keys
  <2> QED
    BY <2>1, <2>2
<1>5. ExchangeTypeOK'
  <2>1. reply' \in [op : Ops, code : Statuses \cup {"INVALID_DATA"}, isValid : BOOLEAN]
    <3>1. \E code \in Statuses : Replies("SignBuffer", code, FALSE) \/ Replies("SignFile", code, FALSE)
      BY DEF SignBuffer, SignFile, Sign, Statuses
    <3> QED
      BY <3>1, ReplyType DEF Ops
  <2>2. inFlight' \in [kind : {"none", "message", "signature"}, key : Keys]
    BY <1>3, <1>4 DEF ExchangeInv, ExchangeTypeOK
  <2> QED
    BY <1>1, <1>2, <2>1, <2>2 DEF ExchangeInv, ExchangeTypeOK
<1>6. CopiesInv' /\ ChosenInv'
  BY <1>1, <1>2 DEF ExchangeInv, CopiesInv, CopyOf, ChosenInv
<1>7. ASSUME NEW master \in Nat, NEW subkeys \in Seq(PeerSubkey), CopyOf(master, subkeys)
      PROVE  SignerListed(key, master, subkeys)
  <2>1. SUFFICES ASSUME ownMaster = master, key.number \in DOMAIN subkeys
                 PROVE  "sign" \in subkeys[key.number].keyFlags
    BY <1>4 DEF SignerListed
  <2>2. key.number # 0
    BY <1>7, <2>1
  <2>3. "sign" \in ownSubkeys[key.number].keyFlags
    BY <1>4, <2>2 DEF SignCapable
  <2> QED
    BY <1>7, <2>1, <2>3 DEF CopyOf
<1>8. SignerListed(key, ownMaster, ownSubkeys) /\ KnownKey(key)
  <2>1. \A i \in DOMAIN ownSubkeys : i # 0
    BY ExchangeTypes
  <2> QED
    BY <1>4, <2>1, ExchangeTypes DEF SignerListed, KnownKey, SignCapable
<1>9. InFlightInv'
  <2>1. CASE inFlight' = inFlight
    BY <1>1, <1>2, <2>1 DEF ExchangeInv, InFlightInv, KnownKey, SignerListed
  <2>2. CASE inFlight' = [kind |-> "signature", key |-> key]
    <3>1. SignerListed(key, keyBlock.master, keyBlock.subkeys)
      BY <1>7, ExchangeTypes DEF ExchangeInv, CopiesInv
    <3>2. SignerListed(key, peer.master, peer.subkeys)
      BY <1>7, ExchangeTypes DEF ExchangeInv, CopiesInv
    <3> QED
      BY <1>1, <1>2, <1>8, <2>2, <3>1, <3>2 DEF InFlightInv, KnownKey, SignerListed
  <2> QED
    BY <1>3, <2>1, <2>2
<1>10. ReplyInv'
  <2>1. CASE reply'.op # "SignBuffer" \/ reply'.code = "INVALID_ARGUMENT"
    BY <2>1, QuietReply DEF SignBuffer, SignFile, Sign, Replies
  <2>2. CASE reply'.op = "SignBuffer" /\ reply'.code = "NO_ERROR"
    <3>1. inFlight' = [kind |-> "signature", key |-> selectActiveSigningKeyMaterial]
      BY <2>2 DEF SignBuffer, SignFile, Sign, Replies
    <3>2. SignsWithNewestSubkey'
      <4>1. /\ inFlight'.key.identity = ownMaster
            /\ inFlight'.key.number # 0 => inFlight'.key.number \in SignCapable
            /\ \A i \in SignCapable : i <= inFlight'.key.number
        BY <3>1, SignerFacts DEF ExchangeInv
      <4> QED
        BY <1>2, <4>1 DEF SignsWithNewestSubkey, SignCapable
    <3> QED
      BY <2>2, <3>2 DEF ReplyInv, BufferMessageOpens, SignatureVerifies, UnknownSignerIsInvalid
  <2> QED
    BY <2>1, <2>2 DEF SignBuffer, SignFile, Sign, Replies
<1> QED
  BY <1>2, <1>5, <1>6, <1>9, <1>10 DEF ExchangeInv

\* Verifying: a listed signer is found, any other is rejected.
LEMMA VerifyKeeps ==
    ASSUME ExchangeInv, VerifyBuffer \/ VerifyFile
    PROVE  ExchangeInv'
<1>1. UNCHANGED <<vars, keyBlock, peer, inFlight>> /\ inFlight.kind = "signature"
  BY DEF VerifyBuffer, VerifyFile, Verify
<1>2. peer' = peer /\ inFlight' = inFlight
  BY <1>1
<1>3. /\ DOMAIN peer.subkeys = 1 .. Len(peer.subkeys) /\ Len(peer.subkeys) \in Nat
      /\ inFlight.key = SubkeyKey(inFlight.key.identity, inFlight.key.number)
      /\ inFlight.key.number \in Nat
  BY ExchangeTypes DEF SubkeyKey, Keys
<1>4. \A i \in DOMAIN peer.subkeys : peer.subkeys[i].key = SubkeyKey(peer.master, i)
  BY DEF ExchangeInv, CopiesInv, CopyOf
<1>5. ASSUME inFlight.key.identity # peer.master \/ inFlight.key.number > Len(peer.subkeys)
      PROVE  /\ MasterKey(peer.master) # inFlight.key
             /\ selectPeerVerificationKeyMaterial(inFlight.key) # inFlight.key
  <2>1. MasterKey(peer.master) # inFlight.key
    BY <1>3, <1>5 DEF MasterKey
  <2>2. ASSUME NEW i \in DOMAIN peer.subkeys
        PROVE  peer.subkeys[i].key # inFlight.key
    <3>a. peer.subkeys[i].key = SubkeyKey(peer.master, i)
      BY <1>4, <2>2, Zenon
    <3>1. peer.subkeys[i].key.identity = peer.master /\ peer.subkeys[i].key.number = i
      BY <3>a DEF SubkeyKey
    <3> QED
      BY <1>3, <1>5, <3>1
  <2> QED
    BY <2>1, <2>2 DEF selectPeerVerificationKeyMaterial
<1>6. ASSUME inFlight.key.identity = peer.master, inFlight.key.number <= Len(peer.subkeys)
      PROVE  selectPeerVerificationKeyMaterial(inFlight.key) = inFlight.key
  <2>1. CASE inFlight.key.number = 0
    <3>1. inFlight.key = MasterKey(peer.master)
      BY <1>3, <1>6, <2>1 DEF SubkeyKey, MasterKey
    <3> QED
      BY <3>1 DEF selectPeerVerificationKeyMaterial
  <2>2. CASE inFlight.key.number # 0
    <3>1. inFlight.key.number \in DOMAIN peer.subkeys
      BY <1>3, <1>6, <2>2
    <3>2. "sign" \in peer.subkeys[inFlight.key.number].keyFlags
      BY <1>1, <1>6, <3>1 DEF ExchangeInv, InFlightInv, SignerListed
    <3>3. peer.subkeys[inFlight.key.number].key = inFlight.key
      BY <1>3, <1>4, <1>6, <3>1
    <3> QED
      BY <3>1, <3>2, <3>3 DEF selectPeerVerificationKeyMaterial
  <2> QED
    BY <2>1, <2>2
<1>7. ASSUME NEW op \in {"VerifyBuffer", "VerifyFile"}, NEW key, Verify(op, key),
             op = "VerifyBuffer" => key = selectPeerVerificationKeyMaterial(inFlight.key),
             op = "VerifyFile" => key = MasterKey(peer.master)
      PROVE  ExchangeInv'
  <2>1. CASE ~peer.imported
    <3>1. Replies(op, "INVALID_ARGUMENT", FALSE)
      BY <1>7, <2>1 DEF Verify
    <3>2. ReplyInv'
      BY <3>1, QuietReply DEF Replies
    <3> QED
      BY <1>1, <3>1, <3>2, ReplyOnlyKeeps DEF Ops, Statuses
  <2>2. CASE peer.imported
    <3> DEFINE valid == key = inFlight.key
    <3>1. Replies(op, "NO_ERROR", valid)
      BY <1>7, <2>2 DEF Verify
    <3>2. reply'.op = op /\ reply'.code = "NO_ERROR" /\ reply'.isValid = valid
      BY <3>1 DEF Replies
    <3>3. SignatureVerifies'
      BY <1>2, <1>6, <1>7, <3>2 DEF SignatureVerifies
    <3>4. UnknownSignerIsInvalid'
      BY <1>2, <1>5, <1>7, <3>2 DEF UnknownSignerIsInvalid
    <3>5. ReplyInv'
      BY <3>2, <3>3, <3>4 DEF ReplyInv, BufferMessageOpens, SignsWithNewestSubkey
    <3>6. valid \in BOOLEAN
      OBVIOUS
    <3>7. op \in Ops /\ "NO_ERROR" \in Statuses \cup {"INVALID_DATA"}
      BY DEF Ops, Statuses
    <3> HIDE DEF valid
    <3> QED
      BY <1>1, <3>1, <3>5, <3>6, <3>7, ReplyOnlyKeeps
  <2> QED
    BY <2>1, <2>2
<1> QED
  BY <1>7 DEF VerifyBuffer, VerifyFile

-----------------------------------------------------------------------------
\* The inductive invariant holds before anything was exported.
LEMMA ExchangeInvInit == ExchangeInit => ExchangeInv
<1> SUFFICES ASSUME ExchangeInit PROVE ExchangeInv
  OBVIOUS
<1>1. IdentityInv /\ ownMaster = 0 /\ ownSubkeys = <<>> /\ now = 0
  BY IdentityInvInit DEF ExchangeInit, Init
<1>2. ExchangeTypeOK
  <2>1. NoKey \in Keys /\ <<>> \in Seq(PeerSubkey)
    BY DEF NoKey, Keys
  <2>2. NoReply \in [op : Ops, code : Statuses \cup {"INVALID_DATA"}, isValid : BOOLEAN]
    BY DEF NoReply, Ops, Statuses
  <2> QED
    BY <1>1, <2>1, <2>2 DEF ExchangeInit, ExchangeTypeOK, IdentityInv
<1>3. OwnSubkeysInThePast /\ CopiesInv /\ ChosenInv
  BY <1>1, PgpConstantsAssumption
  DEF ExchangeInit, OwnSubkeysInThePast, CopiesInv, CopyOf, ChosenInv
<1>4. InFlightInv
  BY <1>1 DEF ExchangeInit, InFlightInv, KnownKey, NoKey
<1>5. ReplyInv
  BY DEF ExchangeInit, NoReply, ReplyInv, BufferMessageOpens, SignatureVerifies,
         UnknownSignerIsInvalid, SignsWithNewestSubkey
<1> QED
  BY <1>1, <1>2, <1>3, <1>4, <1>5 DEF ExchangeInv

\* No call on either side breaks it.
LEMMA ExchangeInvStep == ExchangeInv /\ [ExchangeNext]_allVars => ExchangeInv'
<1> SUFFICES ASSUME ExchangeInv, [ExchangeNext]_allVars PROVE ExchangeInv'
  OBVIOUS
<1>1. CASE ExchangeNext
  BY <1>1, OwnerStepKeeps, ExportKeeps, ImportKeeps, EncryptKeeps, DecryptKeeps, SignKeeps,
     VerifyKeeps DEF ExchangeNext
<1>2. CASE UNCHANGED allVars
  <2>1. UNCHANGED vars /\ UNCHANGED <<keyBlock, peer, inFlight, reply>>
    BY <1>2 DEF allVars, exchangeVars
  <2>2. /\ IdentityInv' /\ TypeOK' /\ OwnSubkeysInThePast'
        /\ ownMaster' = ownMaster /\ ownSubkeys' = ownSubkeys /\ now' = now
    BY <2>1, IdentityFrame
  <2> QED
    BY <2>1, <2>2
    DEF ExchangeInv, ExchangeTypeOK, CopiesInv, CopyOf, ChosenInv, InFlightInv, KnownKey,
        SignerListed, ReplyInv, BufferMessageOpens, SignatureVerifies, UnknownSignerIsInvalid,
        SignsWithNewestSubkey
<1> QED
  BY <1>1, <1>2

\* Nothing the owner and its correspondent call, in any order, breaks the
\* inductive invariant.
THEOREM ExchangeInvariant == ExchangeSpec => []ExchangeInv
  BY ExchangeInvInit, ExchangeInvStep, PTL DEF ExchangeSpec

\* The exchange keeps its types: in particular the searches of
\* chooseBestPeerEncryptionSubkey and selectActiveSigningKeyMaterial always end at
\* a key.
THEOREM ExchangeTypeCorrect == ExchangeSpec => []ExchangeTypeOK
<1>1. ExchangeInv => ExchangeTypeOK
  BY DEF ExchangeInv
<1> QED
  BY <1>1, ExchangeInvariant, PTL

\* DecryptBuffer opens exactly the messages addressed to a subkey of the current
\* identity, from a copy of the block of any age.
THEOREM BufferMessageHolds == ExchangeSpec => []BufferMessageOpens
<1>1. ExchangeInv => BufferMessageOpens
  BY DEF ExchangeInv, ReplyInv
<1> QED
  BY <1>1, ExchangeInvariant, PTL

\* A signature by a key the correspondent's copy lists verifies (VerifyBuffer).
THEOREM SignatureHolds == ExchangeSpec => []SignatureVerifies
<1>1. ExchangeInv => SignatureVerifies
  BY DEF ExchangeInv, ReplyInv
<1> QED
  BY <1>1, ExchangeInvariant, PTL

\* A signature by any other key never does (VerifyBuffer, VerifyFile).
THEOREM UnknownSignerHolds == ExchangeSpec => []UnknownSignerIsInvalid
<1>1. ExchangeInv => UnknownSignerIsInvalid
  BY DEF ExchangeInv, ReplyInv
<1> QED
  BY <1>1, ExchangeInvariant, PTL

\* SignBuffer uses the newest signing subkey that is not revoked.
THEOREM SignsWithNewestHolds == ExchangeSpec => []SignsWithNewestSubkey
<1>1. ExchangeInv => SignsWithNewestSubkey
  BY DEF ExchangeInv, ReplyInv
<1> QED
  BY <1>1, ExchangeInvariant, PTL

-----------------------------------------------------------------------------
(***************************************************************************)
(* The choice of the encryption key. It is right while no end of validity  *)
(* passes 2^32 seconds: the code adds in 32 bits and does not exclude it   *)
(* (run expiry_wrap), so this is a hypothesis of the theorem.              *)
(***************************************************************************)
EndsBeforeTheWrap == \A exp \in Expirations : MaxTime + exp < TimeModulus

\* Then "expired" in 32-bit arithmetic is "expired" in exact arithmetic, for the
\* subkeys of an exported block.
LEMMA ExactExpiry ==
    ASSUME ExchangeInv, EndsBeforeTheWrap, NEW i \in DOMAIN keyBlock.subkeys
    PROVE  Expired(keyBlock.subkeys[i]) <=> ExpiredAt(keyBlock.subkeys[i], now)
<1> DEFINE subkey == keyBlock.subkeys[i]
           end == subkey.creationTime + subkey.expirationSeconds
<1>1. subkey \in PeerSubkey
  BY ExchangeTypes
<1>2. /\ subkey.creationTime \in Nat /\ subkey.expirationSeconds \in Nat
      /\ now \in Nat /\ MaxTime \in Nat /\ TimeModulus \in Nat \ {0}
  BY <1>1, ExchangeTypes, PgpConstantsAssumption, TimeModulusAssumption DEF PeerSubkey
<1>3. /\ subkey.creationTime <= now /\ now <= MaxTime
      /\ subkey.expirationSeconds \in Expirations
  BY DEF ExchangeInv, CopiesInv, CopyOf, OwnSubkeysInThePast
<1>4. MaxTime + subkey.expirationSeconds < TimeModulus
  BY <1>3 DEF EndsBeforeTheWrap
<1> HIDE DEF subkey
<1>5. end \in 0 .. TimeModulus - 1
  BY <1>2, <1>3, <1>4
<1>6. end % TimeModulus = end
  BY <1>2, <1>5
<1> QED
  BY <1>6 DEF Expired, ExpiredAt, subkey

\* The key ImportPeerPublicKey chooses is the newest encryption subkey that can be used.
LEMMA ImportChoosesBest ==
    ASSUME ExchangeInv, EndsBeforeTheWrap, ImportPeerPublicKey
    PROVE  EncryptsToBestSubkey'
<1> DEFINE chosen == chooseBestPeerEncryptionSubkey(keyBlock)
           usable == Usable(keyBlock.subkeys)
           withFlags == {i \in usable : "encrypt" \in keyBlock.subkeys[i].keyFlags}
<1>1. peer' = [imported |-> TRUE, master |-> keyBlock.master, subkeys |-> keyBlock.subkeys,
               encryptTo |-> chosen, importedAt |-> now]
  BY DEF ImportPeerPublicKey
<1>2. /\ \/ chosen = NoKey
         \/ chosen = MasterKey(keyBlock.master)
         \/ \E i \in usable : chosen = SubkeyKey(keyBlock.master, i)
      /\ withFlags # {} =>
            \E i \in withFlags :
                /\ chosen = SubkeyKey(keyBlock.master, i)
                /\ \A j \in withFlags :
                      keyBlock.subkeys[j].creationTime <= keyBlock.subkeys[i].creationTime
  <2>1. keyBlock \in [master : Nat, subkeys : Seq(PeerSubkey)] /\ now \in Nat
    BY ExchangeTypes DEF ExchangeInv, ExchangeTypeOK
  <2>2. \A i \in DOMAIN keyBlock.subkeys :
            /\ keyBlock.subkeys[i].key = SubkeyKey(keyBlock.master, i)
            /\ keyBlock.subkeys[i].creationTime <= now
    BY DEF ExchangeInv, CopiesInv, CopyOf
  <2> QED
    BY <2>1, <2>2, ChosenKeyFacts
<1>3. usable = {i \in DOMAIN keyBlock.subkeys : /\ ~keyBlock.subkeys[i].isRevoked
                                                /\ ~ExpiredAt(keyBlock.subkeys[i], now)}
  BY ExactExpiry DEF Usable
<1>4. UsableAtImport' = withFlags
  <2>1. UsableAtImport' =
           {i \in DOMAIN keyBlock.subkeys : /\ "encrypt" \in keyBlock.subkeys[i].keyFlags
                                            /\ ~keyBlock.subkeys[i].isRevoked
                                            /\ ~ExpiredAt(keyBlock.subkeys[i], now)}
    BY <1>1 DEF UsableAtImport, ExpiredAt
  <2> HIDE DEF usable
  <2> QED
    BY <1>3, <2>1
<1> HIDE DEF chosen, withFlags
<1>5. ASSUME chosen.number # 0
      PROVE  /\ ~keyBlock.subkeys[chosen.number].isRevoked
             /\ ~ExpiredAt(keyBlock.subkeys[chosen.number], now)
  <2>1. PICK i \in usable : chosen = SubkeyKey(keyBlock.master, i)
    BY <1>2, <1>5 DEF NoKey, MasterKey
  <2>2. chosen.number = i
    BY <2>1 DEF SubkeyKey
  <2> HIDE DEF usable
  <2> QED
    BY <1>3, <2>2
<1>6. ASSUME withFlags # {}
      PROVE  /\ chosen.number \in withFlags
             /\ \A j \in withFlags : keyBlock.subkeys[j].creationTime
                                       <= keyBlock.subkeys[chosen.number].creationTime
  BY <1>2, <1>6 DEF SubkeyKey
<1>7. /\ peer'.imported /\ peer'.encryptTo = chosen
      /\ peer'.subkeys = keyBlock.subkeys /\ peer'.importedAt = now
  BY <1>1
<1> QED
  BY <1>4, <1>5, <1>6, <1>7 DEF EncryptsToBestSubkey, ExpiredAt

\* A correspondent encrypts to the newest encryption subkey of its copy that was
\* neither revoked nor expired at the import, as long as no end of validity passes
\* the 32-bit clock (chooseBestPeerEncryptionSubkey).
THEOREM EncryptsToBestHolds ==
    ASSUME EndsBeforeTheWrap
    PROVE  ExchangeSpec => []EncryptsToBestSubkey
<1>1. ExchangeInit => EncryptsToBestSubkey
  BY DEF ExchangeInit, EncryptsToBestSubkey
<1>2. ExchangeInv /\ EncryptsToBestSubkey /\ [ExchangeNext]_allVars => EncryptsToBestSubkey'
  <2> SUFFICES ASSUME ExchangeInv, EncryptsToBestSubkey, [ExchangeNext]_allVars
               PROVE  EncryptsToBestSubkey'
    OBVIOUS
  <2>1. CASE ImportPeerPublicKey
    BY <2>1, ImportChoosesBest
  <2>2. ASSUME peer' = peer
        PROVE  EncryptsToBestSubkey'
    BY <2>2 DEF EncryptsToBestSubkey, UsableAtImport, ExpiredAt
  <2>3. ImportPeerPublicKey \/ peer' = peer
    BY DEF ExchangeNext, OwnerStep, ExportPublicKeyArmored, Encrypt, DecryptBuffer, DecryptFile,
           Decrypt, SignBuffer, SignFile, Sign, VerifyBuffer, VerifyFile, Verify, allVars,
           exchangeVars
  <2> QED
    BY <2>1, <2>2, <2>3
<1> QED
  BY <1>1, <1>2, ExchangeInvariant, PTL DEF ExchangeSpec

-----------------------------------------------------------------------------
\* To the identity the correspondent is invisible: a behaviour of the exchange is
\* a behaviour of PgpIdentity, whose theorems all carry over.
THEOREM ExchangeImplementsIdentity == ExchangeSpec => Spec
<1>1. ExchangeInit => Init
  BY DEF ExchangeInit
<1>2. [ExchangeNext]_allVars => [Next]_vars
  <2> SUFFICES ASSUME [ExchangeNext]_allVars PROVE Next \/ UNCHANGED vars
    OBVIOUS
  <2>1. CASE OwnerStep
    BY <2>1 DEF OwnerStep, Next
  <2>2. OwnerStep \/ UNCHANGED vars
    BY DEF ExchangeNext, ExportPublicKeyArmored, ImportPeerPublicKey, Encrypt, DecryptBuffer,
           DecryptFile, Decrypt, SignBuffer, SignFile, Sign, VerifyBuffer, VerifyFile, Verify,
           allVars
  <2> QED
    BY <2>1, <2>2
<1> QED
  BY <1>1, <1>2, PTL DEF ExchangeSpec, Spec
=============================================================================
