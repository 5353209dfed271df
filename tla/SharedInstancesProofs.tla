----------------------- MODULE SharedInstancesProofs -----------------------
(***************************************************************************)
(* Proofs about SharedInstances, for every number of threads, requests and *)
(* calls. The lock gives that a failed lookup is still right when the new  *)
(* entry goes in (ConstructInv); from it the entries stay unique by        *)
(* configuration and by instance, which carries references and keys.       *)
(***************************************************************************)
EXTENDS SharedInstances, TLAPS

\* An instance is in the map once, and a configuration too.
EntryInv ==
    /\ \A e \in instances : e.id <= created
    /\ \A e, f \in instances : e.config = f.config \/ e.id = f.id => e = f

\* A thread about to insert still has nothing to find.
ConstructInv ==
    \A t \in Threads : pc[t] = "construct" => \A e \in instances : e.config # config[t]

\* A reference names an instance of the configuration asked for.
RefInv ==
    \A t \in Threads :
        /\ ref[t] <= created
        /\ \A e \in instances : e.id = ref[t] => e.config = config[t]

\* Instances have different key pairs.
KeyInv ==
    \A i \in Ids :
        /\ keyPair[i] <= generated
        /\ \A j \in Ids : keyPair[i] = keyPair[j] /\ keyPair[i] # 0 => i = j

\* No instance but the signer's has the key pair the signature was made with.
SignatureInv ==
    /\ signature.key <= generated
    /\ signature.id <= created
    /\ signature.id = 0 <=> signature.key = 0
    /\ \A e \in instances : e.id = signature.id => e.config = signature.config
    /\ \A i \in Ids : signature.key # 0 /\ keyPair[i] = signature.key => i = signature.id

SharedInv ==
    /\ SharedTypeOK
    /\ MutualExclusion
    /\ EntryInv
    /\ ConstructInv
    /\ RefInv
    /\ KeyInv
    /\ SignatureInv

-----------------------------------------------------------------------------
\* A resolved request is a configuration, and so is the default.
LEMMA ResolvedIsConfig ==
    /\ Default \in Configs
    /\ \A r \in Requests : Resolve(r) \in Configs
<1>1. Default \in Configs
    <2>1. Default = [f \in Fields |-> IF f \in DOMAIN Default THEN Default[f] ELSE Default[f]]
        BY SharedConstantsAssumption
    <2> QED
        BY <2>1 DEF Configs
<1>2. \A r \in Requests : Resolve(r) \in Configs
    BY DEF Resolve, Configs
<1> QED
    BY <1>1, <1>2

\* Equivalence under operator< is equality: no field of the configuration is left out.
LEMMA EquivalentIsEqual ==
    ASSUME NEW a \in Configs, NEW b \in Configs
    PROVE  Equivalent(a, b) <=> a = b
<1>1. a = [f \in Fields |-> a[f]] /\ b = [f \in Fields |-> b[f]]
    BY DEF Configs
<1>2. ASSUME Equivalent(a, b) PROVE a = b
    <2>1. \A f \in Fields : a[f] = b[f]
        BY <1>2 DEF Equivalent
    <2> HIDE DEF Fields
    <2> QED
        BY <1>1, <2>1
<1> QED
    BY <1>2 DEF Equivalent

\* The lookup finds exactly the entry of the configuration, if there is one.
LEMMA FoundIsEntry ==
    ASSUME SharedTypeOK, NEW c \in Configs
    PROVE  Found(c) = {e \in instances : e.config = c}
BY EquivalentIsEqual DEF Found, SharedTypeOK

\* Initially there are no instances, references or keys.
LEMMA InitShared == Init => SharedInv
<1> SUFFICES ASSUME Init PROVE SharedInv
    OBVIOUS
<1> USE DEF Init
<1>1. SharedTypeOK
    BY ResolvedIsConfig, SharedConstantsAssumption DEF SharedTypeOK, Steps, Ids
<1>2. MutualExclusion
    BY SharedConstantsAssumption DEF MutualExclusion
<1>3. EntryInv /\ ConstructInv
    BY DEF EntryInv, ConstructInv
<1>4. RefInv
    <2>1. \A t \in Threads : ref[t] \in Nat /\ ref[t] = 0
        OBVIOUS
    <2>2. instances = {} /\ created \in Nat /\ created = 0
        OBVIOUS
    <2> HIDE DEF Init
    <2>3. \A t \in Threads : ref[t] <= created
        <3> TAKE t \in Threads
        <3>1. ref[t] \in Nat /\ created \in Nat /\ ref[t] = created
            BY <2>1, <2>2
        <3> QED
            BY <3>1
    <2>4. \A t \in Threads, e \in instances : e.id = ref[t] => e.config = config[t]
        BY <2>2
    <2> QED
        BY <2>3, <2>4 DEF RefInv
<1>5. KeyInv
    BY DEF KeyInv
<1>6. SignatureInv
    BY SharedConstantsAssumption DEF SignatureInv, Ids
<1> QED
    BY <1>1, <1>2, <1>3, <1>4, <1>5, <1>6 DEF SharedInv
-----------------------------------------------------------------------------
(* The steps. *)

\* GetShared begins: the old reference is dropped with the old configuration.
LEMMA GetSharedKeeps ==
    ASSUME SharedInv, NEW t \in Threads, NEW request \in Requests, GetShared(t, request)
    PROVE  SharedInv'
<1> USE DEF SharedInv, GetShared, Goto, keyVars
<1>1. SharedTypeOK'
    <2>1. calls'[t] \in 0 .. MaxCalls
        BY SharedConstantsAssumption DEF SharedTypeOK
    <2>2. calls' \in [Threads -> 0 .. MaxCalls]
        BY <2>1 DEF SharedTypeOK
    <2>3. config' \in [Threads -> Configs]
        BY ResolvedIsConfig DEF SharedTypeOK
    <2>4. ref' \in [Threads -> 0 .. MaxInstances] /\ pc' \in [Threads -> Steps]
        BY SharedConstantsAssumption DEF SharedTypeOK, Steps
    <2> QED
        BY <2>2, <2>3, <2>4 DEF SharedTypeOK
<1>2. MutualExclusion'
    BY DEF MutualExclusion, SharedTypeOK
<1>3. EntryInv' /\ ConstructInv'
    BY DEF EntryInv, ConstructInv, SharedTypeOK
<1>4. RefInv'
    BY DEF RefInv, SharedTypeOK, Ids
<1>5. KeyInv' /\ SignatureInv'
    BY DEF KeyInv, SignatureInv
<1> QED
    BY <1>1, <1>2, <1>3, <1>4, <1>5

\* ResetShared begins.
LEMMA ResetSharedKeeps == ASSUME SharedInv, NEW t \in Threads, ResetShared(t) PROVE SharedInv'
<1> USE DEF SharedInv, ResetShared, Goto, keyVars
<1>1. SharedTypeOK'
    <2>1. calls'[t] \in 0 .. MaxCalls
        BY SharedConstantsAssumption DEF SharedTypeOK
    <2>2. calls' \in [Threads -> 0 .. MaxCalls]
        BY <2>1 DEF SharedTypeOK
    <2>3. ref' \in [Threads -> 0 .. MaxInstances] /\ pc' \in [Threads -> Steps]
        BY SharedConstantsAssumption DEF SharedTypeOK, Steps
    <2> QED
        BY <2>2, <2>3 DEF SharedTypeOK
<1>2. MutualExclusion'
    BY DEF MutualExclusion, SharedTypeOK
<1>3. EntryInv' /\ ConstructInv'
    BY DEF EntryInv, ConstructInv, SharedTypeOK
<1>4. RefInv'
    BY DEF RefInv, SharedTypeOK, Ids
<1>5. KeyInv' /\ SignatureInv'
    BY DEF KeyInv, SignatureInv
<1> QED
    BY <1>1, <1>2, <1>3, <1>4, <1>5

\* The lock is taken: only one thread is inside.
LEMMA AcquireKeeps ==
    ASSUME SharedInv, NEW t \in Threads, NEW from, NEW to,
           <<from, to>> \in {<<"acquire", "find">>, <<"acquireReset", "clear">>}, Acquire(t, from, to)
    PROVE  SharedInv'
<1> USE DEF SharedInv, Acquire, Goto, keyVars
<1>1. SharedTypeOK'
    BY DEF SharedTypeOK, Steps
<1>2. MutualExclusion'
    BY SharedConstantsAssumption DEF MutualExclusion, SharedTypeOK
<1>3. EntryInv' /\ ConstructInv'
    BY DEF EntryInv, ConstructInv, SharedTypeOK
<1>4. RefInv'
    BY DEF RefInv
<1>5. KeyInv' /\ SignatureInv'
    BY DEF KeyInv, SignatureInv
<1> QED
    BY <1>1, <1>2, <1>3, <1>4, <1>5

\* The lookup: either there is an entry and the reference is to it, or there is none.
LEMMA FindKeeps == ASSUME SharedInv, NEW t \in Threads, Find(t) PROVE SharedInv'
<1> USE DEF SharedInv, Find, Goto, keyVars
<1>1. config[t] \in Configs
    BY DEF SharedTypeOK
<1>2. Found(config[t]) = {e \in instances : e.config = config[t]}
    BY <1>1, FoundIsEntry
<1>3. SharedTypeOK'
    <2>1. \A e \in instances : e.id \in 0 .. MaxInstances
        BY SharedConstantsAssumption DEF SharedTypeOK, Ids
    <2>2. ref' \in [Threads -> 0 .. MaxInstances]
        BY <1>2, <2>1 DEF SharedTypeOK
    <2>3. pc' \in [Threads -> Steps]
        BY DEF SharedTypeOK, Steps
    <2> QED
        BY <2>2, <2>3 DEF SharedTypeOK
<1>4. MutualExclusion'
    BY DEF MutualExclusion, SharedTypeOK
<1>5. EntryInv' /\ ConstructInv'
    BY <1>2 DEF EntryInv, ConstructInv, SharedTypeOK
<1>6. RefInv'
    BY <1>2 DEF RefInv, EntryInv, SharedTypeOK
<1>7. KeyInv' /\ SignatureInv'
    BY DEF KeyInv, SignatureInv
<1> QED
    BY <1>3, <1>4, <1>5, <1>6, <1>7

\* Nobody else can be inserting, so the new entry is the only one of its
\* configuration, and no reference or signature is to the new instance yet.
LEMMA ConstructKeeps == ASSUME SharedInv, NEW t \in Threads, Construct(t) PROVE SharedInv'
<1> USE DEF SharedInv, Construct, Goto, keyVars
<1> DEFINE new == [config |-> config[t], id |-> created + 1]
<1>1. \A e \in instances : e.config # config[t]
    BY DEF ConstructInv
<1>2. \A u \in Threads : pc[u] = "construct" => u = t
    BY DEF MutualExclusion
<1>3. MutualExclusion'
    BY DEF MutualExclusion, SharedTypeOK
<1>4. pc' \in [Threads -> Steps] /\ KeyInv'
    BY DEF SharedTypeOK, Steps, KeyInv
<1>5. CASE UNCHANGED <<instances, ref, created>>
    <2>1. SharedTypeOK'
        BY <1>4, <1>5 DEF SharedTypeOK
    <2>2. EntryInv' /\ ConstructInv'
        BY <1>5 DEF EntryInv, ConstructInv, SharedTypeOK
    <2>3. RefInv' /\ SignatureInv'
        BY <1>5 DEF RefInv, SignatureInv
    <2> QED
        BY <1>3, <1>4, <2>1, <2>2, <2>3
<1>6. CASE /\ created < MaxInstances
           /\ created' = created + 1
           /\ instances' = instances \cup {new}
           /\ ref' = [ref EXCEPT ![t] = created + 1]
    <2>1. created \in Nat /\ created' \in 0 .. MaxInstances /\ created + 1 \in Ids
        BY <1>6, SharedConstantsAssumption DEF SharedTypeOK, Ids
    <2>2. new \in [config : Configs, id : Ids]
        BY <2>1 DEF SharedTypeOK
    <2>3. \A e \in instances : e.id \in Nat /\ e.id <= created
        BY DEF EntryInv, SharedTypeOK, Ids
    <2>4. new.config = config[t] /\ new.id = created + 1
        OBVIOUS
    <2> HIDE DEF new
    <2>5. \A e, f \in instances' : e.config = f.config \/ e.id = f.id => e = f
        BY <1>1, <1>6, <2>1, <2>3, <2>4 DEF EntryInv
    <2>6. \A e \in instances' : e.id <= created'
        BY <1>6, <2>1, <2>3, <2>4
    <2>7. instances' \subseteq [config : Configs, id : Ids]
        BY <1>6, <2>2 DEF SharedTypeOK
    <2>8. ref' \in [Threads -> 0 .. MaxInstances]
        BY <1>6, <2>1 DEF SharedTypeOK
    <2>9. SharedTypeOK'
        BY <1>4, <2>1, <2>5, <2>7, <2>8 DEF SharedTypeOK
    <2>10. EntryInv'
        BY <2>5, <2>6 DEF EntryInv
    <2>11. ConstructInv'
        BY <1>2, <1>6 DEF ConstructInv, SharedTypeOK
    <2>12. RefInv'
        <3>1. ref'[t] = created + 1 /\ \A u \in Threads \ {t} : ref'[u] = ref[u]
            BY <1>6 DEF SharedTypeOK
        <3>2. \A u \in Threads : ref[u] \in Nat /\ ref[u] <= created
            BY SharedConstantsAssumption DEF RefInv, SharedTypeOK
        <3>3. \A u \in Threads : ref'[u] <= created'
            BY <1>6, <2>1, <3>1, <3>2
        <3>4. \A e \in instances' : e.id = ref'[t] => e.config = config'[t]
            BY <1>6, <2>1, <2>3, <2>4, <3>1
        <3>5. \A u \in Threads \ {t} : \A e \in instances' : e.id = ref'[u] => e.config = config'[u]
            BY <1>6, <2>1, <2>4, <3>1, <3>2 DEF RefInv
        <3> QED
            BY <3>3, <3>4, <3>5 DEF RefInv
    <2>13. SignatureInv'
        BY <1>6, <2>1, <2>4 DEF SignatureInv, SharedTypeOK
    <2> QED
        BY <1>3, <1>4, <2>9, <2>10, <2>11, <2>12, <2>13
<1> QED
    BY <1>5, <1>6

\* The lock is released, whether or not the call succeeded.
LEMMA ReleaseKeeps == ASSUME SharedInv, NEW t \in Threads, Release(t) PROVE SharedInv'
<1> USE DEF SharedInv, Release, Goto, keyVars
<1>1. SharedTypeOK'
    BY DEF SharedTypeOK, Steps
<1>2. MutualExclusion'
    BY SharedConstantsAssumption DEF MutualExclusion, SharedTypeOK
<1>3. EntryInv' /\ ConstructInv'
    BY DEF EntryInv, ConstructInv, SharedTypeOK
<1>4. RefInv'
    BY DEF RefInv
<1>5. KeyInv' /\ SignatureInv'
    BY DEF KeyInv, SignatureInv
<1> QED
    BY <1>1, <1>2, <1>3, <1>4, <1>5

\* Every instance and key pair goes at once.
LEMMA ClearKeeps == ASSUME SharedInv, NEW t \in Threads, Clear(t) PROVE SharedInv'
<1> USE DEF SharedInv, Clear, Goto
<1>1. SharedTypeOK'
    BY SharedConstantsAssumption DEF SharedTypeOK, Steps
<1>2. MutualExclusion'
    BY DEF MutualExclusion, SharedTypeOK
<1>3. EntryInv' /\ ConstructInv'
    BY DEF EntryInv, ConstructInv
<1>4. RefInv'
    BY DEF RefInv
<1>5. KeyInv'
    BY DEF KeyInv, SharedTypeOK
<1>6. SignatureInv'
    BY DEF SignatureInv, SharedTypeOK
<1> QED
    BY <1>1, <1>2, <1>3, <1>4, <1>5, <1>6

\* A reference in use is to an instance in the map.
LEMMA UsedReference ==
    ASSUME SharedInv, NEW t \in Threads, MayUse(t)
    PROVE  ref[t] \in Ids /\ [config |-> config[t], id |-> ref[t]] \in instances
<1>1. PICK e \in instances : e.id = ref[t]
    BY DEF MayUse, Live
<1>2. e \in [config : Configs, id : Ids] /\ e.config = config[t]
    BY <1>1 DEF SharedInv, SharedTypeOK, RefInv
<1>3. e = [config |-> config[t], id |-> ref[t]]
    BY <1>1, <1>2
<1> QED
    BY <1>1, <1>2, <1>3

\* A new key pair is nobody else's, and no signature is by it.
LEMMA GenerateKeeps ==
    ASSUME SharedInv, NEW t \in Threads, GenerateSignatureKeyPair(t) PROVE SharedInv'
<1> USE DEF SharedInv, GenerateSignatureKeyPair, cacheVars
<1>1. ref[t] \in Ids
    BY UsedReference
<1>2. SharedTypeOK'
    BY <1>1, SharedConstantsAssumption DEF SharedTypeOK
<1>3. MutualExclusion' /\ EntryInv' /\ ConstructInv' /\ RefInv'
    BY DEF MutualExclusion, EntryInv, ConstructInv, RefInv
<1>4. KeyInv'
    BY <1>1, SharedConstantsAssumption DEF KeyInv, SharedTypeOK
<1>5. SignatureInv'
    BY <1>1, SharedConstantsAssumption DEF SignatureInv, SharedTypeOK
<1> QED
    BY <1>2, <1>3, <1>4, <1>5

\* A signature remembers the key pair of the instance that made it.
LEMMA SignKeeps == ASSUME SharedInv, NEW t \in Threads, SignBuffer(t) PROVE SharedInv'
<1> USE DEF SharedInv, SignBuffer, cacheVars
<1>1. ref[t] \in Ids
    BY UsedReference
<1>2. SharedTypeOK'
    BY <1>1, SharedConstantsAssumption DEF SharedTypeOK, Ids
<1>3. MutualExclusion' /\ EntryInv' /\ ConstructInv' /\ RefInv' /\ KeyInv'
    BY DEF MutualExclusion, EntryInv, ConstructInv, RefInv, KeyInv
<1>4. SignatureInv'
    BY <1>1 DEF SignatureInv, KeyInv, RefInv, SharedTypeOK, Ids
<1> QED
    BY <1>2, <1>3, <1>4

\* The inductive invariant is preserved by every step of every thread.
LEMMA NextKeepsShared == SharedInv /\ [Next]_vars => SharedInv'
<1> SUFFICES ASSUME SharedInv, [Next]_vars PROVE SharedInv'
    OBVIOUS
<1>1. CASE UNCHANGED vars
    BY <1>1 DEF SharedInv, vars, cacheVars, keyVars, SharedTypeOK, MutualExclusion, EntryInv,
        ConstructInv, RefInv, KeyInv, SignatureInv
<1>2. ASSUME NEW t \in Threads, GetSharedStep(t) PROVE SharedInv'
    BY <1>2, AcquireKeeps, FindKeeps, ConstructKeeps, ClearKeeps, ReleaseKeeps DEF GetSharedStep
<1> QED
    BY <1>1, <1>2, GetSharedKeeps, ResetSharedKeeps, GenerateKeeps, SignKeeps DEF Next

\* SharedInv holds in every reachable state of the cache.
THEOREM SharedInvariant == Spec => []SharedInv
<1>1. Init => SharedInv
    BY InitShared
<1> QED
    BY <1>1, NextKeepsShared, PTL DEF Spec

-----------------------------------------------------------------------------
(* The properties. *)

\* The cache and the threads are well typed, and no configuration has two entries.
THEOREM SharedTypeCorrect == Spec => []SharedTypeOK
BY SharedInvariant, PTL DEF SharedInv

\* getSharedImpl and ResetShared exclude each other, for any number of threads.
THEOREM MutualExclusionHolds == Spec => []MutualExclusion
BY SharedInvariant, PTL DEF SharedInv

\* Live references agree with the cache, so equal requests share one instance.
THEOREM LiveReferenceHolds == Spec => []LiveReferenceIsCached
<1>1. SharedInv => LiveReferenceIsCached
    BY UsedReference DEF LiveReferenceIsCached, MayUse
<1> QED
    BY <1>1, SharedInvariant, PTL

\* A signature verifies through exactly the live references of its configuration,
\* until a new key pair or a ResetShared.
THEOREM SignatureSharingHolds == Spec => []SignatureIsShared
<1>1. ASSUME SharedInv, NEW t \in Threads, MayUse(t)
      PROVE  VerifyBuffer(t) <=> /\ config[t] = signature.config
                                 /\ Live(signature.id)
                                 /\ keyPair[signature.id] = signature.key
    <2>1. ref[t] \in Ids /\ [config |-> config[t], id |-> ref[t]] \in instances
        BY <1>1, UsedReference
    <2>2. ASSUME VerifyBuffer(t)
          PROVE  /\ config[t] = signature.config
                 /\ Live(signature.id)
                 /\ keyPair[signature.id] = signature.key
        <3>1. ref[t] = signature.id
            BY <1>1, <2>1, <2>2 DEF VerifyBuffer, SharedInv, SignatureInv
        <3> QED
            BY <1>1, <2>1, <2>2, <3>1 DEF VerifyBuffer, SharedInv, SignatureInv, MayUse
    <2>3. ASSUME config[t] = signature.config, Live(signature.id),
                 keyPair[signature.id] = signature.key
          PROVE  VerifyBuffer(t)
        <3>1. PICK e \in instances : e.id = signature.id
            BY <2>3 DEF Live
        <3>2. e.config = config[t]
            BY <1>1, <2>3, <3>1 DEF SharedInv, SignatureInv
        <3>3. ref[t] = signature.id
            BY <1>1, <2>1, <3>1, <3>2 DEF SharedInv, EntryInv
        <3>4. signature.key # 0
            BY <1>1, <2>1, <3>3 DEF SharedInv, SignatureInv, Ids
        <3> QED
            BY <2>3, <3>3, <3>4 DEF VerifyBuffer
    <2> QED
        BY <2>2, <2>3
<1>2. SharedInv => SignatureIsShared
    BY <1>1 DEF SignatureIsShared
<1> QED
    BY <1>2, SharedInvariant, PTL
=============================================================================
