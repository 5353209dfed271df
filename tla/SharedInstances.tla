-------------------------- MODULE SharedInstances --------------------------
(***************************************************************************)
(* The per-configuration cache of CCryptoApi instances (GetShared,         *)
(* ResetShared; src/src/CryptoApi.cpp) under concurrent callers, with the  *)
(* signature key pair the callers of one configuration share.              *)
(*                                                                         *)
(* Threads interleave at every step of getSharedImpl. What the header asks *)
(* of callers is respected: calls on one instance are serialised (here:    *)
(* atomic), and a reference is not used after a ResetShared destroyed it.  *)
(* ResetShared itself may come at any time.                                *)
(***************************************************************************)
EXTENDS Integers

CONSTANTS Threads,
          Requests,      \* the arguments GetShared is called with: field -> value
          Default,       \* the values the overloads fill in: field -> value
          MaxCalls,      \* bound: GetShared and ResetShared calls of one thread
          MaxInstances,  \* bound: instances ever constructed
          MaxKeys        \* bound: signature key pairs ever generated

Fields == DOMAIN Default
NoThread == "none"

ASSUME SharedConstantsAssumption ==
    /\ Default = [f \in Fields |-> Default[f]]
    /\ \A r \in Requests : DOMAIN r \subseteq Fields
    /\ NoThread \notin Threads
    /\ MaxCalls \in Nat /\ MaxInstances \in Nat /\ MaxKeys \in Nat

VARIABLES
    mutex,      \* the thread that holds SharedInstancesMutex, or NoThread
    instances,  \* SharedInstancesMap: the entries, as [config, id] records
    pc,         \* thread -> where it is in getSharedImpl or ResetShared
    config,     \* thread -> the configuration it asks for
    ref,        \* thread -> the instance its reference names, 0 for none
    calls,      \* thread -> how many calls it made
    created,    \* how many instances were constructed; they are numbered 1 ..
    keyPair,    \* instance -> its signature key pair, 0 for none
    generated,  \* how many key pairs were generated
    signature   \* the last signature made: who by, and what it should verify under

cacheVars == <<mutex, instances, pc, config, ref, calls, created>>
keyVars == <<keyPair, generated, signature>>
vars == <<cacheVars, keyVars>>

Configs == {[f \in Fields |-> IF f \in DOMAIN r THEN r[f] ELSE Default[f]] : r \in Requests \cup {Default}}
Steps == {"idle", "acquire", "find", "construct", "acquireReset", "clear", "release"}
Ids == 1 .. MaxInstances

\* Every variable has its type, and the entries of the map have distinct keys.
SharedTypeOK ==
    /\ mutex \in Threads \cup {NoThread}
    /\ instances \subseteq [config : Configs, id : Ids]
    /\ \A e, f \in instances : e.config = f.config => e = f
    /\ pc \in [Threads -> Steps]
    /\ config \in [Threads -> Configs]
    /\ ref \in [Threads -> 0 .. MaxInstances]
    /\ calls \in [Threads -> 0 .. MaxCalls]
    /\ created \in 0 .. MaxInstances
    /\ keyPair \in [Ids -> 0 .. MaxKeys]
    /\ generated \in 0 .. MaxKeys
    /\ signature \in [config : Configs, id : 0 .. MaxInstances, key : 0 .. MaxKeys]

Init ==
    /\ mutex = NoThread
    /\ instances = {}
    /\ pc = [t \in Threads |-> "idle"]
    /\ config = [t \in Threads |-> Default]
    /\ ref = [t \in Threads |-> 0]
    /\ calls = [t \in Threads |-> 0]
    /\ created = 0
    /\ keyPair = [i \in Ids |-> 0]
    /\ generated = 0
    /\ signature = [config |-> Default, id |-> 0, key |-> 0]

-----------------------------------------------------------------------------
(* getSharedImpl *)

\* What every GetShared overload does with the arguments it is not given.
Resolve(request) ==
    [f \in Fields |-> IF f \in DOMAIN request THEN request[f] ELSE Default[f]]

\* Mutant: operator< leaves the last field out of its std::tie.
EquivalentButLast(a, b) == \A f \in Fields \ {"keyAgreementAlgorithm"} : a[f] = b[f]

\* Neither configuration is less than the other by operator<: std::map's equality.
Equivalent(a, b) == \A f \in Fields : a[f] = b[f]

\* Mutant: the lookup never finds anything.
FoundNone(c) == {}

\* instances.find(config)
Found(c) == {e \in instances : Equivalent(e.config, c)}

Goto(t, step) == pc' = [pc EXCEPT ![t] = step]

GetShared(t, request) ==
    /\ pc[t] = "idle"
    /\ calls[t] < MaxCalls
    /\ calls' = [calls EXCEPT ![t] = @ + 1]
    /\ config' = [config EXCEPT ![t] = Resolve(request)]
    /\ ref' = [ref EXCEPT ![t] = 0]
    /\ Goto(t, "acquire")
    /\ UNCHANGED <<mutex, instances, created, keyVars>>

\* Mutant: the lock is not waited for.
AcquireAnyway(t, from, to) ==
    /\ pc[t] = from
    /\ mutex' = t
    /\ Goto(t, to)
    /\ UNCHANGED <<instances, config, ref, calls, created, keyVars>>

\* std::lock_guard's constructor.
Acquire(t, from, to) ==
    /\ pc[t] = from
    /\ mutex = NoThread
    /\ mutex' = t
    /\ Goto(t, to)
    /\ UNCHANGED <<instances, config, ref, calls, created, keyVars>>

Find(t) ==
    /\ pc[t] = "find"
    /\ \/ /\ Found(config[t]) = {}
          /\ Goto(t, "construct")
          /\ UNCHANGED ref
       \/ \E e \in Found(config[t]) :
             /\ ref' = [ref EXCEPT ![t] = e.id]
             /\ Goto(t, "release")
    /\ UNCHANGED <<mutex, instances, config, calls, created, keyVars>>

\* A new instance has no key pair. Constructing it may throw: the caller gets the
\* exception and no reference.
Construct(t) ==
    /\ pc[t] = "construct"
    /\ Goto(t, "release")
    /\ \/ UNCHANGED <<instances, ref, created>>
       \/ /\ created < MaxInstances
          /\ created' = created + 1
          /\ instances' = instances \cup {[config |-> config[t], id |-> created + 1]}
          /\ ref' = [ref EXCEPT ![t] = created + 1]
    /\ UNCHANGED <<mutex, config, calls, keyVars>>

\* Mutant: an explicit unlock that the exceptional path misses.
ReleaseOnSuccess(t) ==
    /\ pc[t] = "release"
    /\ mutex' = IF ref[t] # 0 THEN NoThread ELSE mutex
    /\ Goto(t, "idle")
    /\ UNCHANGED <<instances, config, ref, calls, created, keyVars>>

\* std::lock_guard's destructor, on return and on an exception.
Release(t) ==
    /\ pc[t] = "release"
    /\ mutex' = NoThread
    /\ Goto(t, "idle")
    /\ UNCHANGED <<instances, config, ref, calls, created, keyVars>>

-----------------------------------------------------------------------------
(* ResetShared *)

ResetShared(t) ==
    /\ pc[t] = "idle"
    /\ calls[t] < MaxCalls
    /\ calls' = [calls EXCEPT ![t] = @ + 1]
    /\ ref' = [ref EXCEPT ![t] = 0]
    /\ Goto(t, "acquireReset")
    /\ UNCHANGED <<mutex, instances, config, created, keyVars>>

\* Every instance is destroyed, and its key pair with it.
Clear(t) ==
    /\ pc[t] = "clear"
    /\ instances' = {}
    /\ keyPair' = [i \in Ids |-> 0]
    /\ Goto(t, "release")
    /\ UNCHANGED <<mutex, config, ref, calls, created, generated, signature>>

-----------------------------------------------------------------------------
(* The shared instance. *)

Live(id) == \E e \in instances : e.id = id

\* A thread that may use its reference: the call returned and nothing destroyed it.
MayUse(t) == pc[t] = "idle" /\ Live(ref[t])

\* Creates the engine if there is none, then the provider's GenerateKeyPair, which
\* keeps the old key when it fails.
GenerateSignatureKeyPair(t) ==
    /\ MayUse(t)
    /\ generated < MaxKeys
    /\ generated' = generated + 1
    /\ keyPair' = [keyPair EXCEPT ![ref[t]] = generated + 1]
    /\ UNCHANGED <<cacheVars, signature>>

\* SignBuffer fails without an engine or a key; it returns a signature otherwise.
SignBuffer(t) ==
    /\ MayUse(t)
    /\ keyPair[ref[t]] # 0
    /\ signature' = [config |-> config[t], id |-> ref[t], key |-> keyPair[ref[t]]]
    /\ UNCHANGED <<cacheVars, keyPair, generated>>

\* What VerifyBuffer would report to thread t for the last signature.
VerifyBuffer(t) == signature.key # 0 /\ keyPair[ref[t]] = signature.key

GetSharedStep(t) ==
    \/ Acquire(t, "acquire", "find")
    \/ Find(t)
    \/ Construct(t)
    \/ Acquire(t, "acquireReset", "clear")
    \/ Clear(t)
    \/ Release(t)

Next ==
    \E t \in Threads :
        \/ \E request \in Requests : GetShared(t, request)
        \/ ResetShared(t)
        \/ GetSharedStep(t)
        \/ GenerateSignatureKeyPair(t)
        \/ SignBuffer(t)

\* Every thread inside a call is scheduled again and again. The mutex is not fair:
\* with finitely many calls it is free from some point on.
Spec == Init /\ [][Next]_vars /\ \A t \in Threads : WF_vars(GetSharedStep(t))

-----------------------------------------------------------------------------
\* A reference that no ResetShared destroyed names the instance the cache has for
\* the configuration the thread asked for: so two such references are to the same
\* instance exactly when the resolved arguments are equal, whichever overloads and
\* threads they came from.
LiveReferenceIsCached ==
    \A t \in Threads :
        pc[t] = "idle" /\ Live(ref[t]) => [config |-> config[t], id |-> ref[t]] \in instances

\* No two threads are in the map at once, and one that left, by a return or by an
\* exception, does not keep the lock.
MutualExclusion ==
    \A t \in Threads : pc[t] \in {"find", "construct", "clear", "release"} <=> mutex = t

\* Sharing one key pair is the point of the cache: a signature made through one
\* reference verifies through a live reference exactly when that is to the same
\* configuration and neither a new key pair nor a ResetShared came in between.
SignatureIsShared ==
    \A t \in Threads : MayUse(t) =>
        (VerifyBuffer(t) <=> /\ config[t] = signature.config
                             /\ Live(signature.id)
                             /\ keyPair[signature.id] = signature.key)

\* Every GetShared and ResetShared returns, exceptions included.
SharedCallReturns == \A t \in Threads : pc[t] # "idle" ~> pc[t] = "idle"
=============================================================================
