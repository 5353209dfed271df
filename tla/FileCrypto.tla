---------------------------- MODULE FileCrypto ----------------------------
(***************************************************************************)
(* CCryptoApi::EncryptFile and DecryptFile (src/src/CryptoApi.cpp) on a    *)
(* disk that outlives the process.                                         *)
(*                                                                         *)
(* The container EncryptFile writes is a salt followed by one record per   *)
(* chunk: a length prefix and the sealed chunk. Both calls truncate their  *)
(* output when they open it, write it chunk by chunk, and delete it again  *)
(* on most failures. Any read, write, open or delete may fail, the         *)
(* progress callback may cancel or throw, allocation may throw, and the    *)
(* process may crash between any two writes.                               *)
(*                                                                         *)
(* A chunk of plaintext is a value; a sealed chunk is that value in a file *)
(* of form "container", and opens under the password of the file only.     *)
(***************************************************************************)
EXTENDS Integers, Sequences

CONSTANTS Paths,      \* file names
          Passwords,  \* non-empty passwords
          Chunks,     \* what a chunk of plaintext may hold
          UserFiles,  \* contents the user's own file may have
          UserPath,   \* where it is
          MayCrash,   \* whether the process may die in the middle of a call
          MaxCalls    \* bound: calls made with well-formed arguments

Garbage == "garbage"  \* what opening a chunk under a wrong key would yield
EmptyPassword == ""

ASSUME FileConstantsAssumption ==
    /\ Garbage \notin Chunks
    /\ EmptyPassword \notin Passwords
    /\ UserFiles \subseteq Seq(Chunks)
    /\ UserPath \in Paths
    /\ MayCrash \in BOOLEAN
    /\ MaxCalls \in Nat
    /\ Passwords # {}

VARIABLES
    files,   \* path -> the file on disk
    call,    \* the call in progress
    key,     \* the derived key's memory: "none", "derived", "wiped" or "freed"
    status,  \* what the last call returned, or "CRASHED"
    calls    \* how many calls were made

vars == <<files, call, key, status, calls>>

-----------------------------------------------------------------------------
\* "tail" is what the file stops in the middle of. "origin" is the plaintext the
\* file stands for; "done" that the call that wrote it returned NO_ERROR; "sound"
\* that so did, in turn, every call its contents came through.
Files == [form : {"absent", "plain", "container"},
          password : Passwords \cup {EmptyPassword},
          data : Seq(Chunks \cup {Garbage}), tail : {"none", "salt", "chunk"},
          origin : Seq(Chunks \cup {Garbage}), done : BOOLEAN, sound : BOOLEAN]

File(form, password, data, tail, origin, done) ==
    [form |-> form, password |-> password, data |-> data, tail |-> tail,
     origin |-> origin, done |-> done, sound |-> done]

NoFile == File("absent", EmptyPassword, <<>>, "none", <<>>, FALSE)
\* The user's file: not written by this library, and whole.
UserFile(data) == File("plain", EmptyPassword, data, "none", data, TRUE)

Calls == [pc : {"idle", "open", "setup", "loop"}, op : {"EncryptFile", "DecryptFile"},
          in : Paths, out : Paths, password : Passwords, pos : Nat]

\* Between calls; only pc matters.
NoCall == [pc |-> "idle", op |-> "EncryptFile", in |-> UserPath, out |-> UserPath,
           password |-> CHOOSE w \in Passwords : TRUE, pos |-> 0]

Statuses == {"NO_ERROR", "INVALID_ARGUMENT", "FILE_IO_ERROR", "INVALID_DATA",
             "OPERATION_CANCELLED", "UNEXPECTED_ERROR", "CRASHED"}

\* The disk, the call and the read position in it are well formed.
FileTypeOK ==
    /\ files \in [Paths -> Files]
    /\ call \in Calls
    /\ key \in {"none", "derived", "wiped", "freed"}
    /\ status \in Statuses
    /\ calls \in 0 .. MaxCalls
    /\ call.pc = "loop" => call.pos <= Len(files[call.in].data)

Init ==
    /\ \E data \in UserFiles :
          files = [p \in Paths |-> IF p = UserPath THEN UserFile(data) ELSE NoFile]
    /\ call = NoCall
    /\ key = "none"
    /\ status = "NO_ERROR"
    /\ calls = 0

-----------------------------------------------------------------------------
Encrypting == call.op = "EncryptFile"
InFile == files[call.in]
OutFile == files[call.out]

\* What the call leaves at its output path, and how it ends.
Return(code, newFile, newKey) ==
    /\ files' = [files EXCEPT ![call.out] = newFile]
    /\ key' = newKey
    /\ call' = NoCall
    /\ status' = code
    /\ UNCHANGED calls

\* Mutant: an error path without SecureZeroMemory.
AbortWithoutWipe(code, f) ==
    \E left \in {NoFile, f} : Return(code, left, key)

\* The error paths after the output was opened: wipe the key if there is one,
\* close the output, deleteFileBestEffort (which may fail), return.
Abort(code, f) ==
    \E left \in {NoFile, f} :
        Return(code, left, IF key = "derived" THEN "wiped" ELSE key)

\* catch (...): the handles are closed and the key's vector is freed, but nothing
\* is wiped or deleted.
Unwind(f, k) == Return("UNEXPECTED_ERROR", f, IF k = "derived" THEN "freed" ELSE k)

-----------------------------------------------------------------------------
\* EncryptFile is given plain files that end with a whole chunk and DecryptFile
\* containers: a file of the other form only exercises the cipher's own tag check.
\* An input that does not exist is possible for both.
Inputs(op) ==
    {p \in Paths : \/ files[p].form = "absent"
                   \/ op = "EncryptFile" /\ files[p].form = "plain" /\ files[p].tail = "none"
                   \/ op = "DecryptFile" /\ files[p].form = "container"}

\* A call begins; a null or empty argument is refused at once.
Start(op, in, out, password) ==
    /\ call.pc = "idle"
    /\ in \in Inputs(op)
    /\ \/ /\ password = EmptyPassword
          /\ status' = "INVALID_ARGUMENT"
          /\ UNCHANGED <<files, call, key, calls>>
       \/ /\ password # EmptyPassword
          /\ calls < MaxCalls
          /\ calls' = calls + 1
          /\ call' = [pc |-> "open", op |-> op, in |-> in, out |-> out,
                      password |-> password, pos |-> 0]
          /\ key' = "none"
          /\ status' = "NO_ERROR"
          /\ UNCHANGED files

\* Mutant: the input is opened without denying writers.
CanOpenShared == InFile.form # "absent"

\* The input is opened with FILE_SHARE_READ only, so opening the same path for
\* writing is a sharing violation.
CanOpen == InFile.form # "absent" /\ call.in # call.out

\* CREATE_ALWAYS: whatever was at the output path is gone.
Created ==
    [form |-> IF Encrypting THEN "container" ELSE "plain",
     password |-> IF Encrypting THEN call.password ELSE EmptyPassword,
     data |-> <<>>, tail |-> IF Encrypting THEN "salt" ELSE "none",
     origin |-> IF Encrypting THEN InFile.data ELSE InFile.origin,
     done |-> FALSE, sound |-> FALSE]

Open ==
    /\ call.pc = "open"
    /\ \/ Return("FILE_IO_ERROR", OutFile, key)
       \/ /\ CanOpen
          /\ files' = [files EXCEPT ![call.out] = Created]
          /\ call' = [call EXCEPT !.pc = "setup"]
          /\ UNCHANGED <<key, status, calls>>

Salted == [OutFile EXCEPT !.tail = "none"]

\* With the key derived, the chunk buffers are allocated, which may throw.
KeyDerived(f) ==
    \/ Unwind(f, "derived")
    \/ /\ files' = [files EXCEPT ![call.out] = f]
       /\ key' = "derived"
       /\ call' = [call EXCEPT !.pc = "loop"]
       /\ UNCHANGED <<status, calls>>

\* Provider factory, cipher and random source, the salt written to the output, and
\* key derivation: any may fail, or throw.
EncryptSetup ==
    /\ call.pc = "setup"
    /\ Encrypting
    /\ \/ \E f \in {OutFile, Salted} : Abort("UNEXPECTED_ERROR", f) \/ Unwind(f, key)
       \/ KeyDerived(Salted)

\* The same with the salt read from the input. A salt that cannot be read is
\* INVALID_DATA whatever the reason.
DecryptSetup ==
    /\ call.pc = "setup"
    /\ ~Encrypting
    /\ \/ Abort("UNEXPECTED_ERROR", OutFile)
       \/ Abort("INVALID_DATA", OutFile)
       \/ Unwind(OutFile, key)
       \/ InFile.tail # "salt" /\ KeyDerived(OutFile)

-----------------------------------------------------------------------------
\* Mutant: the last chunk is taken for the end.
AtEndEarly == call.pos + 1 >= Len(InFile.data)

\* ReadFile returned no bytes.
AtEnd == call.pos = Len(InFile.data) /\ InFile.tail = "none"

\* Mutant: two chunks are skipped at a time.
AdvanceTwice(pos) == pos + 2
\* Where ReadFile leaves the file pointer.
Advance(pos) == pos + 1

\* Mutant: the tag is not checked.
OpensUnchecked(f, password) == TRUE
\* The tag of a chunk is the one the key derived from the password and the salt gives.
Opens(f, password) == f.password = password

\* The chunk at the read position, as this call will write it.
Processed ==
    IF Encrypting \/ InFile.password = call.password
    THEN InFile.data[call.pos + 1] ELSE Garbage

Written == [OutFile EXCEPT !.data = Append(@, Processed)]
TornWrite == [OutFile EXCEPT !.tail = "chunk"]

\* The chunk is written and reported: the write may fail half way, onProgress may
\* return false or throw.
WriteChunk ==
    \/ Abort("FILE_IO_ERROR", TornWrite)
    \/ Abort("OPERATION_CANCELLED", Written)
    \/ Unwind(Written, key)
    \/ /\ files' = [files EXCEPT ![call.out] = Written]
       /\ call' = [call EXCEPT !.pos = Advance(@)]
       /\ UNCHANGED <<key, status, calls>>

\* One iteration of EncryptFile's loop: ReadFile may fail, encryptBuffer may fail.
EncryptChunk ==
    /\ call.pc = "loop"
    /\ Encrypting
    /\ ~AtEnd
    /\ \/ Abort("FILE_IO_ERROR", OutFile)
       \/ Abort("UNEXPECTED_ERROR", OutFile)
       \/ call.pos < Len(InFile.data) /\ WriteChunk

\* Mutant: the rest of a record that is cut short is waited for, not refused.
DecryptChunkWaiting ==
    /\ call.pc = "loop"
    /\ ~Encrypting
    /\ call.pos < Len(InFile.data)
    /\ \/ Abort("INVALID_DATA", OutFile)
       \/ Opens(InFile, call.password) /\ WriteChunk

\* One iteration of DecryptFile's loop: the length prefix may be unreadable, it or
\* the record may be cut short, decryptBuffer may fail or reject the tag.
DecryptChunk ==
    /\ call.pc = "loop"
    /\ ~Encrypting
    /\ ~AtEnd
    /\ \/ Abort("FILE_IO_ERROR", OutFile)
       \/ Abort("INVALID_DATA", OutFile)
       \/ Abort("UNEXPECTED_ERROR", OutFile)
       \/ /\ call.pos < Len(InFile.data)
          /\ Opens(InFile, call.password)
          /\ WriteChunk

Finish ==
    /\ call.pc = "loop"
    /\ AtEnd
    /\ Return("NO_ERROR",
              [OutFile EXCEPT !.done = TRUE, !.sound = Encrypting \/ InFile.sound], "wiped")

\* The process dies, perhaps in the middle of a write.
Crash ==
    /\ MayCrash
    /\ call.pc # "idle"
    /\ \E f \in {OutFile} \cup (IF call.pc = "loop" THEN {TornWrite} ELSE {}) :
          Return("CRASHED", f, "none")

CallStep == Open \/ EncryptSetup \/ DecryptSetup \/ EncryptChunk \/ DecryptChunk \/ Finish

Next ==
    \/ \E op \in {"EncryptFile", "DecryptFile"}, in, out \in Paths,
          password \in Passwords \cup {EmptyPassword} : Start(op, in, out, password)
    \/ CallStep
    \/ Crash

\* Every system call a call makes returns, so a call that has begun goes on.
Spec == Init /\ [][Next]_vars /\ WF_vars(CallStep)

-----------------------------------------------------------------------------
\* A file never holds anything but the first chunks of the plaintext it stands for,
\* in order: also after failed, cancelled, crashed and repeated calls, and whatever
\* password a container was opened with.
OutputIsPrefix ==
    \A p \in Paths :
        /\ Len(files[p].data) <= Len(files[p].origin)
        /\ \A i \in DOMAIN files[p].data : files[p].data[i] = files[p].origin[i]

\* A file that came through successful calls only is the whole of its plaintext.
RoundTrip ==
    \A p \in Paths : files[p].sound =>
        files[p].data = files[p].origin /\ files[p].tail = "none"

\* A call changes no file but its output, and never its own input, even when it is
\* given one path for both.
InputPreserved ==
    [][\A p \in Paths : files'[p] # files[p] =>
          call.pc # "idle" /\ p = call.out /\ p # call.in]_vars

\* No return leaves the derived key in memory, except through the exception handler.
KeyWiped ==
    call.pc = "idle" => /\ key # "derived"
                        /\ key = "freed" => status \in {"UNEXPECTED_ERROR", "INVALID_ARGUMENT"}

\* Every call returns (or the process dies): the loop ends for every input.
FileCallReturns == call.pc # "idle" ~> call.pc = "idle"

\* What Plan.md (section 7.5) asks of the output of a failed call, that it does not
\* look as if it had completed successfully: DecryptFile reports NO_ERROR only for
\* the whole plaintext, so never for a container a failed EncryptFile left behind.
SuccessMeansComplete ==
    \A p \in Paths : files[p].done => files[p].data = files[p].origin
=============================================================================
