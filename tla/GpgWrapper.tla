----------------------------- MODULE GpgWrapper -----------------------------
(***************************************************************************)
(* CPgpEngineWrapper (src/src/Pgp/PgpEngineWrapper.cpp): what an instance  *)
(* remembers of its gpg keyring - its identity and its peers - and how its *)
(* buffer calls round-trip through temporary files in its home directory.  *)
(*                                                                         *)
(* An instance gets a directory of its own, or is given a persistent one   *)
(* by SetHomeDir, "meant to survive process exit so a LATER, separate      *)
(* process can reconnect": instances may follow each other in one          *)
(* directory, be killed there, or share it. Temporary files are numbered   *)
(* per instance, so the same names come again in a directory.              *)
(*                                                                         *)
(* gpg is external: it keeps a keyring per directory, lists secret keys in *)
(* the order they were made in (their numbers), and any of its runs may    *)
(* fail, a wrong password included.                                        *)
(* A run is one step here; GpgProcess has what happens inside.             *)
(***************************************************************************)
EXTENDS Integers, Sequences, SequencesExt

CONSTANTS Instances,    \* wrapper objects; a killed or destroyed one may be made again
          CallerDirs,   \* the directories given to SetHomeDir
          Emails,       \* the addresses of the user ids keys are generated for
          Foreign,      \* public keys generated elsewhere
          MaxKeys,      \* bound: keys generated
          MaxTemps      \* bound: temporary file names one instance uses

ASSUME WrapperConstantsAssumption ==
    /\ Instances \cap CallerDirs = {}
    /\ "none" \notin Instances \cup CallerDirs
    /\ MaxKeys \in Nat /\ MaxTemps \in Nat

\* The directory an instance makes for itself is named after it.
Dirs == Instances \cup CallerDirs
NoDir == "none"
GeneratedKeys == [number : 1 .. MaxKeys, email : Emails]
Keys == GeneratedKeys \cup [number : {0}, email : Foreign]
NoKey == [number |-> -1, email |-> "none"]

\* The temporary files of each kind of call, as { inputs }, { outputs }: the
\* calls not listed have the shape of one of these.
Inputs == [encrypt |-> <<".in">>, sign |-> <<".in">>, verify |-> <<".doc", ".sig">>,
           import |-> <<".key">>, revoke |-> <<>>]
Outputs == [encrypt |-> <<".gpg">>, sign |-> <<".sig">>, verify |-> <<>>,
            import |-> <<>>, revoke |-> <<".rev">>]
Ops == DOMAIN Inputs
TempSuffixes == {".in", ".doc", ".sig", ".key", ".gpg", ".rev"}
Paths == [dir : Dirs, number : 1 .. MaxTemps, suffix : TempSuffixes]

VARIABLES
    home,       \* instance -> its home directory; NoDir when it does not exist
    counter,    \* instance -> tempFileCounter
    own,        \* instance -> the key of its identity, or NoKey
    peers,      \* instance -> peerKeyIds
    dirs,       \* the directories that exist
    keyring,    \* directory -> the keys in it, as [key, secret]
    generated,  \* how many keys were generated
    files,      \* the temporary files on disk, as [path, data]
    call,       \* instance -> its current or last buffer call
    disturbed,  \* history: instance -> another one used its directory meanwhile
    repeated    \* history: instance -> the keys imported when they were peers
                \* already, or deleted with its identity

instanceVars == <<home, counter, own, peers>>
diskVars == <<dirs, keyring, generated, files>>
vars == <<instanceVars, diskVars, call, disturbed, repeated>>

-----------------------------------------------------------------------------
(* Data: what is in a file, and what a call works on *)

\* A payload is what one call passed in; number 0 is a file cut short by an error.
Payloads == [from : Instances, number : 0 .. MaxTemps, key : Keys \cup {NoKey}]
CutShort(i) == [from |-> i, number |-> 0, key |-> NoKey]
\* What gpg makes: of the contents of its input files, with or for a key.
Products == [op : Ops, of : Seq(Payloads), key : Keys]
NoProduct == [op |-> "none"]

NoCall == [step |-> "none"]
Calls == [op : Ops, step : {"run", "finish", "returned"}, in : Seq(Paths), out : Seq(Paths),
          payload : Payloads, target : Keys \cup {NoKey}, stale : BOOLEAN, started : BOOLEAN,
          gpgOk : BOOLEAN, product : Payloads \cup Products \cup {NoProduct},
          status : {"pending", "writeFailed", "thrown", "gpgFailed", "readFailed", "ok"}]

\* Every variable has its type, a path names one file, and what is written is in
\* a directory that exists.
GpgWrapperTypeOK ==
    /\ home \in [Instances -> Dirs \cup {NoDir}]
    /\ counter \in [Instances -> 0 .. MaxTemps]
    /\ own \in [Instances -> Keys \cup {NoKey}]
    /\ peers \in [Instances -> Seq(Keys)]
    /\ dirs \subseteq Dirs
    /\ keyring \in [Dirs -> SUBSET [key : Keys, secret : BOOLEAN]]
    /\ generated \in 0 .. MaxKeys
    /\ files \subseteq [path : Paths, data : Payloads \cup Products]
    /\ \A f \in files : f.path.dir \in dirs
    /\ \A f, g \in files : f.path = g.path => f = g
    /\ call \in [Instances -> Calls \cup {NoCall}]
    /\ \A i \in Instances : call[i] # NoCall => home[i] \in dirs
    /\ disturbed \in [Instances -> BOOLEAN]
    /\ repeated \in [Instances -> SUBSET Keys]

Init ==
    /\ home = [i \in Instances |-> NoDir]
    /\ counter = [i \in Instances |-> 0]
    /\ own = [i \in Instances |-> NoKey]
    /\ peers = [i \in Instances |-> <<>>]
    /\ dirs = {}
    /\ keyring = [d \in Dirs |-> {}]
    /\ generated = 0
    /\ files = {}
    /\ call = [i \in Instances |-> NoCall]
    /\ disturbed = [i \in Instances |-> FALSE]
    /\ repeated = [i \in Instances |-> {}]

Idle(i) == home[i] # NoDir /\ call[i].step \in {"none", "returned"}
Fresh(i) == home[i] # NoDir /\ call[i] = NoCall /\ counter[i] = 0 /\ own[i] = NoKey

\* What i does in directory d is a disturbance to every other instance there.
Disturbs(i, d) ==
    disturbed' = [j \in Instances |-> disturbed[j] \/ (j # i /\ home[j] = d)]

-----------------------------------------------------------------------------
(* The home directory *)

\* remove_all
RemoveAll(d) ==
    /\ dirs' = dirs \ {d}
    /\ files' = {f \in files : f.path.dir # d}
    /\ keyring' = [keyring EXCEPT ![d] = {}]

\* The object is gone, or new: nothing is remembered.
Forget(i) ==
    /\ counter' = [counter EXCEPT ![i] = 0]
    /\ own' = [own EXCEPT ![i] = NoKey]
    /\ peers' = [peers EXCEPT ![i] = <<>>]
    /\ call' = [call EXCEPT ![i] = NoCall]
    /\ repeated' = [repeated EXCEPT ![i] = {}]
    /\ disturbed' = [disturbed EXCEPT ![i] = FALSE]

\* Impl(): a directory of its own, under a new name.
Construct(i) ==
    /\ home[i] = NoDir
    /\ i \notin dirs
    /\ home' = [home EXCEPT ![i] = i]
    /\ dirs' = dirs \cup {i}
    /\ UNCHANGED <<counter, own, peers, keyring, generated, files, call, disturbed, repeated>>

\* SetHomeDir, before any other operation as its header asks. The instance's
\* own directory goes; one a caller gave earlier stays.
SetHomeDir(i, d) ==
    /\ Fresh(i)
    /\ home' = [home EXCEPT ![i] = d]
    /\ IF home[i] \in CallerDirs
       THEN dirs' = dirs \cup {d} /\ UNCHANGED <<keyring, files>>
       ELSE /\ dirs' = (dirs \ {home[i]}) \cup {d}
            /\ files' = {f \in files : f.path.dir # home[i]}
            /\ keyring' = [keyring EXCEPT ![home[i]] = {}]
    /\ Disturbs(i, d)
    /\ UNCHANGED <<counter, own, peers, generated, call, repeated>>

\* ~Impl(): only a directory of its own is removed.
Destroy(i) ==
    /\ Idle(i)
    /\ home' = [home EXCEPT ![i] = NoDir]
    /\ Forget(i)
    /\ IF home[i] \in CallerDirs THEN UNCHANGED <<dirs, keyring, files>> ELSE RemoveAll(home[i])
    /\ UNCHANGED generated

\* The process ends without the destructor, in a call or not.
Kill(i) ==
    /\ home[i] # NoDir
    /\ home' = [home EXCEPT ![i] = NoDir]
    /\ Forget(i)
    /\ UNCHANGED diskVars

-----------------------------------------------------------------------------
(* The keyring *)

InKeyring(d, k) == \E e \in keyring[d] : e.key = k
HasSecret(d, k) == [key |-> k, secret |-> TRUE] \in keyring[d]
SecretKeys(ring) == {e.key : e \in {x \in ring : x.secret}}
Without(ring, k) == {e \in ring : e.key # k}

\* findFirstFingerprintInColonOutput of --list-secret-keys email
FirstSecret(ring, email) ==
    LET listed == {k \in SecretKeys(ring) : k.email = email}
    IN  CHOOSE k \in listed : \A m \in listed : k.number <= m.number

\* --gen-key, --list-secret-keys, --export, --export-secret-keys. The fields
\* are assigned after the last: a run that fails leaves them, and the new key.
GenerateKeyPair(i, email) ==
    /\ Idle(i)
    /\ generated < MaxKeys
    /\ LET entry == [key |-> [number |-> generated + 1, email |-> email], secret |-> TRUE]
           ring == keyring[home[i]] \cup {entry}
       IN /\ keyring' = [keyring EXCEPT ![home[i]] = ring]
          /\ own' \in {own, [own EXCEPT ![i] = FirstSecret(ring, email)]}
    /\ generated' = generated + 1
    /\ Disturbs(i, home[i])
    /\ UNCHANGED <<home, counter, peers, dirs, files, call, repeated>>

\* Exactly one secret key in the directory, or INVALID_DATA.
LoadOwnIdentity(i) ==
    /\ Idle(i)
    /\ \E k \in SecretKeys(keyring[home[i]]) :
          /\ SecretKeys(keyring[home[i]]) = {k}
          /\ own' = [own EXCEPT ![i] = k]
    /\ UNCHANGED <<home, counter, peers, diskVars, call, disturbed, repeated>>

\* Mutant: the fields are not reset.
DeleteOwnIdentityKeepingFields(i) ==
    /\ Idle(i)
    /\ own[i] # NoKey
    /\ HasSecret(home[i], own[i])
    /\ keyring' = [keyring EXCEPT ![home[i]] = Without(@, own[i])]
    /\ repeated' = [repeated EXCEPT ![i] = @ \cup {own[i]}]
    /\ Disturbs(i, home[i])
    /\ UNCHANGED <<instanceVars, dirs, generated, files, call>>

\* --delete-secret-and-public-key, and the identity's fields with it.
DeleteOwnIdentity(i) ==
    /\ Idle(i)
    /\ own[i] # NoKey
    /\ HasSecret(home[i], own[i])
    /\ keyring' = [keyring EXCEPT ![home[i]] = Without(@, own[i])]
    /\ own' = [own EXCEPT ![i] = NoKey]
    /\ repeated' = [repeated EXCEPT ![i] = @ \cup {own[i]}]
    /\ Disturbs(i, home[i])
    /\ UNCHANGED <<home, counter, peers, dirs, generated, files, call>>

\* The loop with its break: only the first match goes.
EraseFirst(list, k) ==
    LET matches == {n \in DOMAIN list : list[n] = k}
    IN IF matches = {} THEN list
       ELSE RemoveAt(list, CHOOSE n \in matches : \A m \in matches : n <= m)

\* --delete-key refuses a key with a secret part, and one it does not have.
DeletePeerPublicKey(i, k) ==
    /\ Idle(i)
    /\ k # own[i]
    /\ InKeyring(home[i], k) /\ ~HasSecret(home[i], k)
    /\ keyring' = [keyring EXCEPT ![home[i]] = Without(@, k)]
    /\ peers' = [peers EXCEPT ![i] = EraseFirst(@, k)]
    /\ Disturbs(i, home[i])
    /\ UNCHANGED <<home, counter, own, dirs, generated, files, call, repeated>>

-----------------------------------------------------------------------------
(* Temporary files and buffer calls *)

\* Mutant: all instances use one directory.
MakeTempPathAnywhere(i, number, suffix) ==
    [dir |-> CHOOSE d \in CallerDirs : TRUE, number |-> number, suffix |-> suffix]

\* makeTempPath: the home directory, the counter and a suffix.
MakeTempPath(i, number, suffix) == [dir |-> home[i], number |-> number, suffix |-> suffix]

InPaths(i, op) == [n \in DOMAIN Inputs[op] |-> MakeTempPath(i, counter[i] + n, Inputs[op][n])]
OutPaths(i, op) ==
    [n \in DOMAIN Outputs[op] |-> MakeTempPath(i, counter[i] + Len(Inputs[op]) + n, Outputs[op][n])]

OnDisk(path) == \E f \in files : f.path = path
DataOf(path) == (CHOOSE f \in files : f.path = path).data
Removed(paths) == {f \in files : f.path \notin Range(paths)}
\* std::ofstream with trunc: the files are written anew.
Written(paths, data) == Removed(paths) \cup {[path |-> p, data |-> data] : p \in Range(paths)}

\* The key a call is for: the last peer, the own identity, or the one imported.
Target(i, op, k) ==
    CASE op \in {"encrypt", "verify"} -> Last(peers[i])
      [] op \in {"sign", "revoke"} -> own[i]
      [] op = "import" -> k

\* The checks before the first temporary file.
MayCall(i, op) ==
    /\ op \in {"encrypt", "verify"} => peers[i] # <<>>
    /\ op \in {"sign", "revoke"} => own[i] # NoKey

\* A new call: its record, with what it is about.
NewCall(i, op, k, step) ==
    [op |-> op, step |-> step, in |-> InPaths(i, op), out |-> OutPaths(i, op),
     payload |-> [from |-> i, number |-> counter[i] + 1, key |-> k],
     target |-> Target(i, op, k),
     stale |-> \E p \in Range(OutPaths(i, op)) : OnDisk(p),
     started |-> TRUE, gpgOk |-> FALSE, product |-> NoProduct, status |-> "pending"]

Enter(i, op) ==
    /\ Idle(i)
    /\ MayCall(i, op)
    /\ counter[i] + Len(Inputs[op]) + Len(Outputs[op]) <= MaxTemps
    /\ counter' = [counter EXCEPT ![i] = @ + Len(Inputs[op]) + Len(Outputs[op])]
    /\ Disturbs(i, home[i])
    /\ UNCHANGED <<home, own, peers, dirs, keyring, generated, repeated>>

\* writeAllBytesToFile succeeds for every input.
StartCall(i, op, k) ==
    /\ Enter(i, op)
    /\ \E new \in {NewCall(i, op, k, "run")} :
           /\ call' = [call EXCEPT ![i] = new]
           /\ files' = Written(new.in, new.payload)

\* writeAllBytesToFile fails on a file it created: only the verify calls remove it.
WriteFails(i, op, k) ==
    /\ Inputs[op] # <<>>
    /\ Enter(i, op)
    /\ \E new \in {NewCall(i, op, k, "returned")} :
           /\ call' = [call EXCEPT ![i] = [new EXCEPT !.status = "writeFailed"]]
           /\ files' = IF op = "verify" THEN Removed(new.in)
                       ELSE Written(<<new.in[1]>>, CutShort(i))

\* An allocation throws before gpg is run: catch (...) returns, the input stays.
Throw(i) ==
    /\ call[i].step = "run"
    /\ call' = [call EXCEPT ![i].step = "returned", ![i].status = "thrown"]
    /\ UNCHANGED <<instanceVars, diskVars, disturbed, repeated>>

\* What the keyring must have for the run to succeed.
KeyUsable(d, op, k) ==
    CASE op \in {"encrypt", "verify"} -> InKeyring(d, k)
      [] op \in {"sign", "revoke"} -> HasSecret(d, k)
      [] op = "import" -> TRUE

\* gpg reads the input files as they are now, and writes the output file.
RunGpg(i) ==
    /\ call[i].step = "run"
    /\ \A p \in Range(call[i].in) : OnDisk(p) /\ DataOf(p) \in Payloads /\ DataOf(p).number > 0
    /\ KeyUsable(home[i], call[i].op, call[i].target)
    /\ LET c == call[i]
           contents == [n \in DOMAIN c.in |-> DataOf(c.in[n])]
           key == IF c.op = "import" THEN contents[1].key ELSE c.target
           product == [op |-> c.op, of |-> contents, key |-> key]
       IN /\ key # NoKey
          /\ call' = [call EXCEPT ![i].step = "finish", ![i].gpgOk = TRUE, ![i].product = product]
          /\ files' = Written(c.out, product)
          /\ keyring' = IF c.op = "import" /\ ~InKeyring(home[i], key)
                        THEN [keyring EXCEPT ![home[i]] = @ \cup {[key |-> key, secret |-> FALSE]}]
                        ELSE keyring
    /\ Disturbs(i, home[i])
    /\ UNCHANGED <<instanceVars, dirs, generated, repeated>>

\* gpg refuses, or ends in an error; what it wrote it removed.
GpgFails(i) ==
    /\ call[i].step = "run"
    /\ call' = [call EXCEPT ![i].step = "finish"]
    /\ UNCHANGED <<instanceVars, diskVars, disturbed, repeated>>

\* runGpgProcess returns with started false.
GpgDoesNotStart(i) ==
    /\ call[i].step = "run"
    /\ call' = [call EXCEPT ![i].step = "finish", ![i].started = FALSE]
    /\ UNCHANGED <<instanceVars, diskVars, disturbed, repeated>>

\* Mutant: the output file is looked at whatever gpg's exit code.
VerdictIsAnyFile(op) == Outputs[op] # <<>>

\* RevokeKeyArmored takes the file, not the exit code, for gpg's verdict.
VerdictIsFile(op) == op = "revoke"

\* Mutant: the input is not removed after the run.
CleanedOutputs(c) == Range(c.out)

\* std::remove of the input after the run and of the output after it was read,
\* or after the run failed; RevokeKeyArmored returns before it if gpg did not start.
Cleaned(c) == Range(c.in) \cup (IF c.started \/ ~VerdictIsFile(c.op) THEN Range(c.out) ELSE {})

\* The rest of the call, after gpg ended. A verify call that finds the signature
\* invalid also counts as "gpgFailed" here.
Finish(i) ==
    /\ call[i].step = "finish"
    /\ LET c == call[i]
           read == c.out = <<>> \/ OnDisk(c.out[1])
           status == IF ~c.started \/ (~c.gpgOk /\ ~VerdictIsFile(c.op)) THEN "gpgFailed"
                     ELSE IF read THEN "ok" ELSE "readFailed"
           result == IF status = "ok" /\ c.out # <<>> THEN DataOf(c.out[1]) ELSE c.product
           imported == c.op = "import" /\ status = "ok"
       IN /\ call' = [call EXCEPT ![i].step = "returned", ![i].status = status, ![i].product = result]
          /\ files' = {f \in files : f.path \notin Cleaned(c)}
          /\ peers' = IF imported THEN [peers EXCEPT ![i] = Append(@, c.product.key)] ELSE peers
          /\ repeated' = IF imported /\ c.product.key \in Range(peers[i])
                         THEN [repeated EXCEPT ![i] = @ \cup {c.product.key}] ELSE repeated
    /\ Disturbs(i, home[i])
    /\ UNCHANGED <<home, counter, own, dirs, keyring, generated>>

\* The key blocks a caller may have: of keys made elsewhere, and of those made here.
KeyBlocks == {k \in Keys : k.number = 0 \/ \E d \in Dirs : InKeyring(d, k)}

\* Whatever one instance, its process or its gpg does next.
Step(i) ==
    \/ Construct(i)
    \/ \E d \in CallerDirs : SetHomeDir(i, d)
    \/ Destroy(i)
    \/ Kill(i)
    \/ \E email \in Emails : GenerateKeyPair(i, email)
    \/ LoadOwnIdentity(i)
    \/ DeleteOwnIdentity(i)
    \/ \E k \in KeyBlocks : DeletePeerPublicKey(i, k)
    \/ \E op \in Ops, k \in KeyBlocks \cup {NoKey} :
           /\ (op = "import") <=> (k # NoKey)
           /\ StartCall(i, op, k) \/ WriteFails(i, op, k)
    \/ Throw(i)
    \/ RunGpg(i)
    \/ GpgFails(i)
    \/ GpgDoesNotStart(i)
    \/ Finish(i)

Next == \E i \in Instances : Step(i)

Spec == Init /\ [][Next]_vars

-----------------------------------------------------------------------------
(* Properties *)

\* What an instance remembers is in its keyring, as long as no other instance
\* used the directory meanwhile. Its identity is a secret key there, the first
\* one made for its address: generating again for an address whose key is still
\* there does not replace it. A peer is there unless it was imported twice or
\* was the instance's own key: the deletion erases one entry of the list.
TrackedKeysInKeyring ==
    \A i \in Instances :
        home[i] # NoDir /\ ~disturbed[i] =>
            /\ own[i] # NoKey =>
                   /\ HasSecret(home[i], own[i])
                   /\ own[i] = FirstSecret(keyring[home[i]], own[i].email)
            /\ \A k \in Range(peers[i]) : InKeyring(home[i], k) \/ k \in repeated[i]

\* A call that returned NO_ERROR carries what gpg made of this call's input with
\* the key it was for, whatever an instance killed or failed in the same directory
\* left under the same names - except that RevokeKeyArmored, when gpg failed,
\* takes such a left-over file for its own. (Two instances that share a
\* directory at the same time do read each other's files.)
ResultIsOwn ==
    \A i \in Instances :
        LET c == call[i]
        IN  home[i] # NoDir /\ ~disturbed[i] /\ c.step = "returned" /\ c.status = "ok" =>
                \/ c.gpgOk /\ c.product = [op |-> c.op, of |-> [n \in DOMAIN c.in |-> c.payload], key |-> c.target]
                \/ c.op = "revoke" /\ c.stale

\* A call that returned leaves none of its temporary files, plaintext among
\* them, unless writing one failed or an exception was thrown before gpg ran; a
\* RevokeKeyArmored whose gpg did not start also leaves what was there before it.
TemporariesRemoved ==
    \A i \in Instances :
        LET c == call[i]
        IN  home[i] # NoDir /\ ~disturbed[i] /\ c.step = "returned" /\ c.status \in {"ok", "gpgFailed", "readFailed"} =>
                \A p \in Range(c.in) \cup Range(c.out) :
                    OnDisk(p) => c.op = "revoke" /\ c.stale /\ ~c.started
=============================================================================
