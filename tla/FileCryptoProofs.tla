-------------------------- MODULE FileCryptoProofs --------------------------
(***************************************************************************)
(* Proofs about FileCrypto, for every set of paths and passwords, every    *)
(* user file and every number of calls. What makes the properties          *)
(* inductive is how far a call in progress has come (CallInv): its output  *)
(* is exactly the part of its input before the read position, and stands   *)
(* for the same plaintext as its input.                                    *)
(***************************************************************************)
EXTENDS FileCrypto, SequenceTheorems, TLAPS

\* What every file on the disk satisfies, whoever wrote it.
GoodFile(f) ==
    /\ f \in Files
    /\ Len(f.data) <= Len(f.origin)
    /\ \A i \in 1 .. Len(f.data) : f.data[i] = f.origin[i]
    /\ f.sound => f.data = f.origin /\ f.tail = "none"

\* How the output of a call in progress relates to its input.
CallInv ==
    /\ call.pc \in {"setup", "loop"} =>
          /\ call.in # call.out
          /\ OutFile.origin = IF Encrypting THEN InFile.data ELSE InFile.origin
          /\ ~OutFile.sound
    /\ call.pc \in {"open", "setup"} => call.pos = 0
    /\ call.pc = "setup" =>
          /\ OutFile.data = <<>>
          /\ OutFile.tail = IF Encrypting THEN "salt" ELSE "none"
    /\ call.pc = "loop" =>
          /\ OutFile.tail = "none"
          /\ call.pos = Len(OutFile.data)
          /\ call.pos <= Len(InFile.data)
          /\ \A i \in 1 .. call.pos : OutFile.data[i] = InFile.data[i]

\* Where the key is while a call runs, and after it.
KeyInv ==
    /\ call.pc \in {"open", "setup"} => key = "none"
    /\ call.pc = "loop" => key = "derived"
    /\ KeyWiped

FileInv ==
    /\ files \in [Paths -> Files]
    /\ call \in Calls
    /\ key \in {"none", "derived", "wiped", "freed"}
    /\ status \in Statuses
    /\ calls \in 0 .. MaxCalls
    /\ \A p \in Paths : GoodFile(files[p])
    /\ CallInv
    /\ KeyInv

-----------------------------------------------------------------------------
\* The record between calls is a call.
LEMMA NoCallTyped == NoCall \in Calls
BY FileConstantsAssumption DEF NoCall, Calls

\* Whatever ends a call keeps the invariant, if the file it leaves at the output
\* path is good and the key does not stay in memory.
LEMMA ReturnKeeps ==
    ASSUME FileInv, NEW code \in Statuses, NEW f, GoodFile(f),
           NEW k \in {"none", "wiped", "freed"},
           k = "freed" => code = "UNEXPECTED_ERROR",
           Return(code, f, k)
    PROVE  FileInv'
<1> USE DEF Return
<1>1. call.out \in Paths
    BY DEF FileInv, Calls
<1>2. f \in Files
    BY DEF GoodFile
<1>3. files' \in [Paths -> Files]
    BY <1>1, <1>2 DEF FileInv
<1>4. \A p \in Paths : GoodFile(files'[p])
    BY <1>1 DEF FileInv
<1>5. call' \in Calls /\ call'.pc = "idle"
    BY NoCallTyped DEF NoCall
<1>6. CallInv'
    BY <1>5 DEF CallInv
<1>7. KeyInv'
    BY <1>5 DEF KeyInv, KeyWiped
<1> QED
    BY <1>3, <1>4, <1>5, <1>6, <1>7 DEF FileInv

\* While a call runs the key is derived or there is none.
LEMMA KeyOfCall == ASSUME FileInv, call.pc # "idle" PROVE key \in {"none", "derived"}
BY DEF FileInv, KeyInv, Calls

\* The error paths that wipe the key and delete the output keep the invariant.
LEMMA AbortKeeps ==
    ASSUME FileInv, call.pc # "idle", NEW code \in Statuses, NEW f, GoodFile(f), Abort(code, f)
    PROVE  FileInv'
<1>1. GoodFile(NoFile)
    BY FileConstantsAssumption DEF GoodFile, NoFile, File, Files
<1>2. PICK left \in {NoFile, f} : Return(code, left, IF key = "derived" THEN "wiped" ELSE key)
    BY DEF Abort
<1>3. GoodFile(left)
    BY <1>1, <1>2
<1>4. (IF key = "derived" THEN "wiped" ELSE key) \in {"none", "wiped"}
    BY KeyOfCall
<1> QED
    BY <1>2, <1>3, <1>4, ReturnKeeps

\* So does the exception handler.
LEMMA UnwindKeeps ==
    ASSUME FileInv, NEW f, GoodFile(f), NEW k \in {"none", "derived"}, Unwind(f, k)
    PROVE  FileInv'
<1>1. "UNEXPECTED_ERROR" \in Statuses
    BY DEF Statuses
<1>2. (IF k = "derived" THEN "freed" ELSE k) \in {"none", "wiped", "freed"}
    OBVIOUS
<1> QED
    BY <1>1, <1>2, ReturnKeeps DEF Unwind

-----------------------------------------------------------------------------
\* The paths of a call and its files are well typed.
LEMMA CallTyped ==
    ASSUME FileInv
    PROVE  /\ call.in \in Paths /\ call.out \in Paths /\ call.pos \in Nat
           /\ call.password \in Passwords
           /\ InFile \in Files /\ OutFile \in Files
           /\ GoodFile(InFile) /\ GoodFile(OutFile)
BY DEF FileInv, Calls, InFile, OutFile

\* The freshly truncated output is a good file: it holds nothing yet.
LEMMA CreatedIsGood == ASSUME FileInv PROVE GoodFile(Created)
<1>1. InFile.data \in Seq(Chunks \cup {Garbage}) /\ InFile.origin \in Seq(Chunks \cup {Garbage})
    BY CallTyped DEF Files
<1>2. Created \in Files
    BY <1>1, CallTyped DEF Created, Files
<1> QED
    BY <1>1, <1>2 DEF Created, GoodFile

\* So is the output with its salt written.
LEMMA SaltedIsGood ==
    ASSUME FileInv, call.pc = "setup"
    PROVE  /\ GoodFile(Salted)
           /\ Salted.data = <<>> /\ Salted.tail = "none" /\ ~Salted.sound
           /\ Salted.origin = OutFile.origin
<1>1. OutFile \in Files /\ ~OutFile.sound /\ OutFile.data = <<>>
    BY CallTyped DEF FileInv, CallInv
<1>2. Salted \in Files
    BY <1>1 DEF Salted, Files
<1>3. /\ Salted.data = <<>> /\ Salted.tail = "none" /\ ~Salted.sound
      /\ Salted.origin = OutFile.origin
    BY <1>1 DEF Salted, Files
<1>4. OutFile.origin \in Seq(Chunks \cup {Garbage})
    BY <1>1 DEF Files
<1> QED
    BY <1>2, <1>3, <1>4 DEF GoodFile

\* So is the output after a write that failed half way: its whole chunks are as before.
LEMMA TornWriteIsGood ==
    ASSUME FileInv, call.pc = "loop"
    PROVE  GoodFile(TornWrite)
<1>1. OutFile \in Files /\ ~OutFile.sound /\ GoodFile(OutFile)
    BY CallTyped DEF FileInv, CallInv
<1>2. TornWrite \in Files
    BY <1>1 DEF TornWrite, Files
<1>3. TornWrite.data = OutFile.data /\ TornWrite.origin = OutFile.origin /\ ~TornWrite.sound
    BY <1>1 DEF TornWrite, Files
<1> QED
    BY <1>1, <1>2, <1>3 DEF GoodFile

\* A chunk that was sealed or opened under the right key extends the output by the
\* next chunk of the input, which is the next one of the plaintext too.
LEMMA WrittenIsGood ==
    ASSUME FileInv, call.pc = "loop", call.pos < Len(InFile.data),
           Encrypting \/ Opens(InFile, call.password)
    PROVE  /\ GoodFile(Written)
           /\ Written.data = Append(OutFile.data, InFile.data[call.pos + 1])
           /\ Written.origin = OutFile.origin /\ Written.tail = "none" /\ ~Written.sound
<1>1. /\ OutFile \in Files /\ ~OutFile.sound /\ GoodFile(OutFile)
      /\ InFile \in Files /\ GoodFile(InFile)
      /\ OutFile.tail = "none"
      /\ call.pos = Len(OutFile.data) /\ call.pos \in Nat
      /\ OutFile.origin = IF Encrypting THEN InFile.data ELSE InFile.origin
    BY CallTyped DEF FileInv, CallInv
<1>2. Processed = InFile.data[call.pos + 1]
    BY DEF Processed, Opens
<1>3. /\ InFile.data \in Seq(Chunks \cup {Garbage})
      /\ OutFile.data \in Seq(Chunks \cup {Garbage})
      /\ OutFile.origin \in Seq(Chunks \cup {Garbage})
    BY <1>1 DEF Files
<1>4. Processed \in Chunks \cup {Garbage}
    BY <1>1, <1>2, <1>3
<1>5. Append(OutFile.data, Processed) \in Seq(Chunks \cup {Garbage})
    BY <1>3, <1>4
<1>6. Written \in Files
    BY <1>1, <1>5 DEF Written, Files
<1>7. /\ Written.data = Append(OutFile.data, Processed)
      /\ Written.origin = OutFile.origin /\ Written.tail = "none" /\ ~Written.sound
    BY <1>1 DEF Written, Files
<1>8. /\ call.pos + 1 <= Len(OutFile.origin)
      /\ OutFile.origin[call.pos + 1] = Processed
    <2>1. CASE Encrypting
        BY <1>1, <1>2, <1>3, <2>1
    <2>2. CASE ~Encrypting
        <3>1. call.pos + 1 \in 1 .. Len(InFile.data)
            BY <1>1, <1>3
        <3>2. /\ Len(InFile.data) <= Len(InFile.origin)
              /\ InFile.data[call.pos + 1] = InFile.origin[call.pos + 1]
            BY <1>1, <3>1 DEF GoodFile
        <3>3. Len(InFile.data) \in Nat /\ Len(OutFile.origin) \in Nat
            BY <1>3
        <3> QED
            BY <1>1, <1>2, <2>2, <3>2, <3>3
    <2> QED
        BY <2>1, <2>2
<1>9. Len(Written.data) = call.pos + 1
    BY <1>1, <1>3, <1>4, <1>7
<1>10. \A i \in 1 .. Len(Written.data) : Written.data[i] = Written.origin[i]
    BY <1>1, <1>3, <1>4, <1>7, <1>8, <1>9 DEF GoodFile
<1> QED
    BY <1>2, <1>6, <1>7, <1>8, <1>9, <1>10 DEF GoodFile

-----------------------------------------------------------------------------
(* The steps. *)

\* Every status a call aborts with is a status.
LEMMA CodesAreStatuses ==
    {"NO_ERROR", "INVALID_ARGUMENT", "FILE_IO_ERROR", "INVALID_DATA", "OPERATION_CANCELLED",
     "UNEXPECTED_ERROR", "CRASHED"} \subseteq Statuses
BY DEF Statuses

\* Initially only the user's own file is there.
LEMMA InitFile == Init => FileInv
<1> SUFFICES ASSUME Init PROVE FileInv
    OBVIOUS
<1>1. PICK data \in UserFiles :
          files = [p \in Paths |-> IF p = UserPath THEN UserFile(data) ELSE NoFile]
    BY DEF Init
<1>2. data \in Seq(Chunks \cup {Garbage})
    <2>1. data \in Seq(Chunks)
        BY FileConstantsAssumption
    <2> QED
        BY <2>1
<1>3. GoodFile(UserFile(data))
    BY <1>2 DEF GoodFile, UserFile, File, Files
<1>4. GoodFile(NoFile)
    BY DEF GoodFile, NoFile, File, Files
<1>5. \A p \in Paths : GoodFile(files[p]) /\ files[p] \in Files
    BY <1>1, <1>3, <1>4 DEF GoodFile
<1>6. files \in [Paths -> Files]
    BY <1>1, <1>5
<1>7. call.pc = "idle" /\ call \in Calls
    BY NoCallTyped DEF Init, NoCall
<1>8. CallInv /\ KeyInv
    BY <1>7 DEF Init, CallInv, KeyInv, KeyWiped
<1>9. key \in {"none", "derived", "wiped", "freed"} /\ status \in Statuses /\ calls \in 0 .. MaxCalls
    BY FileConstantsAssumption DEF Init, Statuses
<1> QED
    BY <1>5, <1>6, <1>7, <1>8, <1>9 DEF FileInv

\* A call that begins has touched nothing.
LEMMA StartKeeps ==
    ASSUME FileInv, NEW op \in {"EncryptFile", "DecryptFile"}, NEW in \in Paths, NEW out \in Paths,
           NEW password \in Passwords \cup {EmptyPassword}, Start(op, in, out, password)
    PROVE  FileInv'
<1>1. CASE password = EmptyPassword
    <2>1. status' = "INVALID_ARGUMENT" /\ UNCHANGED <<files, call, key, calls>>
        BY <1>1 DEF Start
    <2>2. CallInv'
        BY <2>1 DEF FileInv, CallInv, OutFile, InFile, Encrypting
    <2>3. KeyInv'
        BY <2>1 DEF FileInv, KeyInv, KeyWiped
    <2> QED
        BY <2>1, <2>2, <2>3, CodesAreStatuses DEF FileInv
<1>2. CASE password # EmptyPassword
    <2>1. /\ calls < MaxCalls /\ calls' = calls + 1
          /\ call' = [pc |-> "open", op |-> op, in |-> in, out |-> out,
                      password |-> password, pos |-> 0]
          /\ key' = "none" /\ status' = "NO_ERROR" /\ UNCHANGED files
        BY <1>2 DEF Start
    <2>2. call' \in Calls /\ call'.pc = "open"
        BY <1>2, <2>1 DEF Calls
    <2>3. calls' \in 0 .. MaxCalls
        BY <2>1, FileConstantsAssumption DEF FileInv
    <2>4. CallInv' /\ KeyInv'
        BY <2>1, <2>2 DEF CallInv, KeyInv, KeyWiped
    <2>5. \A p \in Paths : GoodFile(files'[p])
        BY <2>1 DEF FileInv
    <2> QED
        BY <2>1, <2>2, <2>3, <2>4, <2>5, CodesAreStatuses DEF FileInv
<1> QED
    BY <1>1, <1>2

\* Opening truncates the output, which is another file than the input.
LEMMA OpenKeeps == ASSUME FileInv, Open PROVE FileInv'
<1>1. CASE Return("FILE_IO_ERROR", OutFile, key)
    <2>1. key = "none"
        BY DEF Open, FileInv, KeyInv
    <2> QED
        BY <1>1, <2>1, ReturnKeeps, CallTyped, CodesAreStatuses
<1>2. CASE /\ CanOpen
           /\ files' = [files EXCEPT ![call.out] = Created]
           /\ call' = [call EXCEPT !.pc = "setup"]
           /\ UNCHANGED <<key, status, calls>>
    <2>1. call.in \in Paths /\ call.out \in Paths /\ call.in # call.out
        BY <1>2, CallTyped DEF CanOpen
    <2>2. /\ call' \in Calls /\ call'.pc = "setup" /\ call'.in = call.in /\ call'.out = call.out
          /\ call'.op = call.op
        BY <1>2 DEF FileInv, Calls
    <2>3. Created \in Files
        BY CreatedIsGood DEF GoodFile
    <2>4. files' \in [Paths -> Files] /\ OutFile' = Created /\ InFile' = InFile
        BY <1>2, <2>1, <2>2, <2>3 DEF FileInv, OutFile, InFile
    <2>5. \A p \in Paths : GoodFile(files'[p])
        BY <1>2, <2>1, CreatedIsGood DEF FileInv
    <2>6. Encrypting' = Encrypting
        BY <2>2 DEF Encrypting
    <2>7. call'.pos = 0
        BY <1>2 DEF Open, FileInv, CallInv, Calls
    <2>9. CallInv'
        BY <2>1, <2>2, <2>4, <2>6, <2>7 DEF CallInv, Created
    <2>8. KeyInv'
        BY <1>2, <2>2 DEF Open, FileInv, KeyInv, KeyWiped
    <2> QED
        BY <1>2, <2>2, <2>4, <2>5, <2>9, <2>8 DEF FileInv
<1> QED
    BY <1>1, <1>2 DEF Open

\* The loop begins with an empty output and the key in memory.
LEMMA KeyDerivedKeeps ==
    ASSUME FileInv, call.pc = "setup", NEW f, GoodFile(f), KeyDerived(f),
           f.data = <<>>, f.tail = "none", ~f.sound, f.origin = OutFile.origin
    PROVE  FileInv'
<1>1. CASE Unwind(f, "derived")
    BY <1>1, UnwindKeeps
<1>2. CASE /\ files' = [files EXCEPT ![call.out] = f]
           /\ key' = "derived"
           /\ call' = [call EXCEPT !.pc = "loop"]
           /\ UNCHANGED <<status, calls>>
    <2>1. call.in \in Paths /\ call.out \in Paths /\ call.in # call.out
        BY CallTyped DEF FileInv, CallInv
    <2>2. call.pos = 0
        BY DEF FileInv, CallInv
    <2>3. f \in Files
        BY DEF GoodFile
    <2>4. /\ call' \in Calls /\ call'.pc = "loop" /\ call'.in = call.in /\ call'.out = call.out
          /\ call'.op = call.op /\ call'.pos = call.pos
        BY <1>2 DEF FileInv, Calls
    <2>5. files' \in [Paths -> Files] /\ OutFile' = f /\ InFile' = InFile
        BY <1>2, <2>1, <2>3, <2>4 DEF FileInv, OutFile, InFile
    <2>6. \A p \in Paths : GoodFile(files'[p])
        BY <1>2, <2>1 DEF FileInv
    <2>7. Encrypting' = Encrypting
        BY <2>4 DEF Encrypting
    <2>8. InFile.data \in Seq(Chunks \cup {Garbage})
        BY CallTyped DEF Files
    <2>9. CallInv'
        BY <2>1, <2>2, <2>4, <2>5, <2>7, <2>8 DEF FileInv, CallInv
    <2>10. KeyInv'
        BY <1>2, <2>4 DEF KeyInv, KeyWiped
    <2> QED
        BY <1>2, <2>4, <2>5, <2>6, <2>9, <2>10 DEF FileInv
<1> QED
    BY <1>1, <1>2 DEF KeyDerived

\* EncryptFile's setup.
LEMMA EncryptSetupKeeps == ASSUME FileInv, EncryptSetup PROVE FileInv'
<1>1. call.pc = "setup" /\ key = "none"
    BY DEF EncryptSetup, FileInv, KeyInv
<1>2. \A f \in {OutFile, Salted} : GoodFile(f)
    BY <1>1, CallTyped, SaltedIsGood
<1>3. CASE \E f \in {OutFile, Salted} : Abort("UNEXPECTED_ERROR", f)
    BY <1>1, <1>2, <1>3, AbortKeeps, CodesAreStatuses
<1>4. CASE \E f \in {OutFile, Salted} : Unwind(f, key)
    BY <1>1, <1>2, <1>4, UnwindKeeps
<1>5. CASE KeyDerived(Salted)
    BY <1>1, <1>5, SaltedIsGood, KeyDerivedKeeps
<1> QED
    BY <1>3, <1>4, <1>5 DEF EncryptSetup

\* DecryptFile's setup.
LEMMA DecryptSetupKeeps == ASSUME FileInv, DecryptSetup PROVE FileInv'
<1>1. call.pc = "setup" /\ key = "none" /\ ~Encrypting
    BY DEF DecryptSetup, FileInv, KeyInv
<1>2. GoodFile(OutFile) /\ OutFile.data = <<>> /\ OutFile.tail = "none" /\ ~OutFile.sound
    BY <1>1, CallTyped DEF FileInv, CallInv
<1>3. CASE Abort("UNEXPECTED_ERROR", OutFile) \/ Abort("INVALID_DATA", OutFile)
    BY <1>1, <1>2, <1>3, AbortKeeps, CodesAreStatuses
<1>4. CASE Unwind(OutFile, key)
    BY <1>1, <1>2, <1>4, UnwindKeeps
<1>5. CASE KeyDerived(OutFile)
    BY <1>1, <1>2, <1>5, KeyDerivedKeeps
<1> QED
    BY <1>3, <1>4, <1>5 DEF DecryptSetup

\* Writing one chunk moves the read position and the output together.
LEMMA WriteChunkKeeps ==
    ASSUME FileInv, call.pc = "loop", call.pos < Len(InFile.data),
           Encrypting \/ Opens(InFile, call.password), WriteChunk
    PROVE  FileInv'
<1>1. CASE Abort("FILE_IO_ERROR", TornWrite)
    BY <1>1, TornWriteIsGood, AbortKeeps, CodesAreStatuses
<1>2. CASE Abort("OPERATION_CANCELLED", Written)
    BY <1>2, WrittenIsGood, AbortKeeps, CodesAreStatuses
<1>3. CASE Unwind(Written, key)
    BY <1>3, WrittenIsGood, UnwindKeeps, KeyOfCall
<1>4. CASE /\ files' = [files EXCEPT ![call.out] = Written]
           /\ call' = [call EXCEPT !.pos = Advance(@)]
           /\ UNCHANGED <<key, status, calls>>
    <2>1. /\ call.in \in Paths /\ call.out \in Paths /\ call.in # call.out
          /\ call.pos \in Nat /\ call.pos = Len(OutFile.data)
          /\ \A i \in 1 .. call.pos : OutFile.data[i] = InFile.data[i]
        BY CallTyped DEF FileInv, CallInv
    <2>2. /\ call' \in Calls /\ call'.pc = "loop" /\ call'.in = call.in /\ call'.out = call.out
          /\ call'.op = call.op /\ call'.pos = call.pos + 1
        BY <1>4, <2>1 DEF FileInv, Calls, Advance
    <2>3. Written \in Files
        BY WrittenIsGood DEF GoodFile
    <2>4. files' \in [Paths -> Files] /\ OutFile' = Written /\ InFile' = InFile
        BY <1>4, <2>1, <2>2, <2>3 DEF FileInv, OutFile, InFile
    <2>5. \A p \in Paths : GoodFile(files'[p])
        BY <1>4, <2>1, WrittenIsGood DEF FileInv
    <2>6. Encrypting' = Encrypting
        BY <2>2 DEF Encrypting
    <2>7. InFile.data \in Seq(Chunks \cup {Garbage}) /\ OutFile.data \in Seq(Chunks \cup {Garbage})
        BY CallTyped DEF Files
    <2>8. Written.data = Append(OutFile.data, InFile.data[call.pos + 1])
        BY WrittenIsGood
    <2>9. /\ Len(Written.data) = call.pos + 1
          /\ \A i \in 1 .. call.pos + 1 : Written.data[i] = InFile.data[i]
        BY <2>1, <2>7, <2>8
    <2>10. CallInv'
        BY <2>1, <2>2, <2>4, <2>6, <2>7, <2>9, WrittenIsGood DEF FileInv, CallInv
    <2>11. KeyInv'
        BY <1>4, <2>2 DEF FileInv, KeyInv, KeyWiped
    <2> QED
        BY <1>4, <2>2, <2>4, <2>5, <2>10, <2>11 DEF FileInv
<1> QED
    BY <1>1, <1>2, <1>3, <1>4 DEF WriteChunk

\* One iteration of either loop.
LEMMA ChunkKeeps == ASSUME FileInv, EncryptChunk \/ DecryptChunk PROVE FileInv'
<1>1. call.pc = "loop" /\ GoodFile(OutFile)
    BY CallTyped DEF EncryptChunk, DecryptChunk
<1>2. CASE \E code \in {"FILE_IO_ERROR", "INVALID_DATA", "UNEXPECTED_ERROR"} : Abort(code, OutFile)
    BY <1>1, <1>2, AbortKeeps, CodesAreStatuses
<1>3. CASE /\ call.pos < Len(InFile.data)
           /\ Encrypting \/ Opens(InFile, call.password)
           /\ WriteChunk
    BY <1>1, <1>3, WriteChunkKeeps
<1> QED
    BY <1>2, <1>3 DEF EncryptChunk, DecryptChunk

\* At the end of its input a call has copied all of it: an encrypted file is whole,
\* and a decrypted one is as whole as the container was.
LEMMA FinishKeeps == ASSUME FileInv, Finish PROVE FileInv'
<1> DEFINE f == [OutFile EXCEPT !.done = TRUE, !.sound = Encrypting \/ InFile.sound]
<1>1. /\ call.pc = "loop" /\ call.pos = Len(InFile.data) /\ Return("NO_ERROR", f, "wiped")
    BY DEF Finish, AtEnd
<1>2. /\ OutFile \in Files /\ InFile \in Files /\ GoodFile(OutFile) /\ GoodFile(InFile)
      /\ OutFile.tail = "none" /\ call.pos = Len(OutFile.data)
      /\ \A i \in 1 .. call.pos : OutFile.data[i] = InFile.data[i]
      /\ OutFile.origin = IF Encrypting THEN InFile.data ELSE InFile.origin
    BY <1>1, CallTyped DEF FileInv, CallInv
<1>3. InFile.data \in Seq(Chunks \cup {Garbage}) /\ OutFile.data \in Seq(Chunks \cup {Garbage})
    BY <1>2 DEF Files
<1>4. OutFile.data = InFile.data
    BY <1>1, <1>2, <1>3, SeqEqual
<1>5. InFile.sound \in BOOLEAN
    BY <1>2 DEF Files
<1>6. Encrypting \in BOOLEAN
    BY DEF Encrypting
<1>7. f \in Files
    BY <1>2, <1>5, <1>6 DEF Files
<1>8. /\ f.data = OutFile.data /\ f.origin = OutFile.origin /\ f.tail = "none"
      /\ f.sound = (Encrypting \/ InFile.sound)
    BY <1>2 DEF Files
<1>9. f.sound => f.data = f.origin
    BY <1>2, <1>4, <1>8 DEF GoodFile
<1>10. GoodFile(f)
    <2> HIDE DEF f
    <2> QED
        BY <1>2, <1>7, <1>8, <1>9 DEF GoodFile
<1> QED
    BY <1>1, <1>10, ReturnKeeps, CodesAreStatuses

\* A crash leaves the output as it was, or with a torn chunk at its end.
LEMMA CrashKeeps == ASSUME FileInv, Crash PROVE FileInv'
<1>1. CASE Return("CRASHED", OutFile, "none")
    BY <1>1, CallTyped, ReturnKeeps, CodesAreStatuses
<1>2. CASE call.pc = "loop" /\ Return("CRASHED", TornWrite, "none")
    BY <1>2, TornWriteIsGood, ReturnKeeps, CodesAreStatuses
<1> QED
    BY <1>1, <1>2 DEF Crash

\* Nothing changes, so nothing is broken.
LEMMA StutterKeeps == ASSUME FileInv, UNCHANGED vars PROVE FileInv'
BY DEF FileInv, vars, CallInv, KeyInv, KeyWiped, InFile, OutFile, Encrypting

\* The inductive invariant is preserved by every step.
LEMMA NextKeeps == FileInv /\ [Next]_vars => FileInv'
<1> SUFFICES ASSUME FileInv, [Next]_vars PROVE FileInv'
    OBVIOUS
<1>1. CASE \E op \in {"EncryptFile", "DecryptFile"}, in, out \in Paths,
              password \in Passwords \cup {EmptyPassword} : Start(op, in, out, password)
    BY <1>1, StartKeeps
<1>2. CASE CallStep
    BY <1>2, OpenKeeps, EncryptSetupKeeps, DecryptSetupKeeps, ChunkKeeps, FinishKeeps DEF CallStep
<1>3. CASE Crash
    BY <1>3, CrashKeeps
<1>4. CASE UNCHANGED vars
    BY <1>4, StutterKeeps
<1> QED
    BY <1>1, <1>2, <1>3, <1>4 DEF Next

\* FileInv holds in every reachable state of EncryptFile and DecryptFile.
THEOREM FileInvariant == Spec => []FileInv
<1>1. Init => FileInv
    BY InitFile
<1> QED
    BY <1>1, NextKeeps, PTL DEF Spec

-----------------------------------------------------------------------------
(* The properties. *)

\* The disk and the call are well formed, and a call never reads past its input.
THEOREM FileTypeCorrect == Spec => []FileTypeOK
<1>1. FileInv => FileTypeOK
    BY DEF FileInv, CallInv, FileTypeOK, InFile
<1> QED
    BY <1>1, FileInvariant, PTL

\* Every file holds only the first chunks of its plaintext, in order, whatever
\* calls failed, were cancelled or crashed.
THEOREM OutputIsPrefixHolds == Spec => []OutputIsPrefix
<1>1. FileInv => OutputIsPrefix
    <2> SUFFICES ASSUME FileInv, NEW p \in Paths
                 PROVE  /\ Len(files[p].data) <= Len(files[p].origin)
                        /\ \A i \in DOMAIN files[p].data : files[p].data[i] = files[p].origin[i]
        BY DEF OutputIsPrefix
    <2>1. GoodFile(files[p])
        BY DEF FileInv
    <2>2. DOMAIN files[p].data = 1 .. Len(files[p].data)
        BY <2>1 DEF GoodFile, Files
    <2> QED
        BY <2>1, <2>2 DEF GoodFile
<1> QED
    BY <1>1, FileInvariant, PTL

\* What came through successful EncryptFile and DecryptFile calls only is complete.
THEOREM RoundTripHolds == Spec => []RoundTrip
<1>1. FileInv => RoundTrip
    BY DEF FileInv, GoodFile, RoundTrip
<1> QED
    BY <1>1, FileInvariant, PTL

\* The derived key is wiped on every way out, or freed by the exception handler.
THEOREM KeyWipedHolds == Spec => []KeyWiped
<1>1. FileInv => KeyWiped
    BY DEF FileInv, KeyInv
<1> QED
    BY <1>1, FileInvariant, PTL

\* A return writes its output path only.
LEMMA ReturnWritesOutput ==
    ASSUME FileInv, NEW code, NEW f, NEW k, Return(code, f, k), NEW p \in Paths, files'[p] # files[p]
    PROVE  p = call.out
BY DEF Return, FileInv

\* No call changes a file other than its output, and none changes its own input.
THEOREM InputPreservedHolds == Spec => InputPreserved
<1> DEFINE Change(p) == call.pc # "idle" /\ p = call.out /\ p # call.in
<1>1. FileInv /\ [Next]_vars => [\A p \in Paths : files'[p] # files[p] => Change(p)]_vars
    <2> SUFFICES ASSUME FileInv, Next, NEW p \in Paths, files'[p] # files[p]
                 PROVE  Change(p)
        OBVIOUS
    <2>1. ASSUME call.pc \in {"setup", "loop"}, p = call.out PROVE Change(p)
        BY <2>1 DEF FileInv, CallInv
    <2>2. CASE \E op \in {"EncryptFile", "DecryptFile"}, in, out \in Paths,
                  password \in Passwords \cup {EmptyPassword} : Start(op, in, out, password)
        BY <2>2 DEF Start
    <2>3. CASE Open
        BY <2>3 DEF Open, Return, CanOpen, OutFile, FileInv
    <2>4. CASE EncryptSetup \/ DecryptSetup
        <3>1. call.pc = "setup"
            BY <2>4 DEF EncryptSetup, DecryptSetup
        <3>2. p = call.out
            BY <2>4, ReturnWritesOutput
               DEF EncryptSetup, DecryptSetup, Abort, Unwind, KeyDerived, FileInv
        <3> QED
            BY <2>1, <3>1, <3>2
    <2>5. CASE EncryptChunk \/ DecryptChunk
        <3>1. call.pc = "loop"
            BY <2>5 DEF EncryptChunk, DecryptChunk
        <3>2. p = call.out
            BY <2>5, ReturnWritesOutput
               DEF EncryptChunk, DecryptChunk, WriteChunk, Abort, Unwind, FileInv
        <3> QED
            BY <2>1, <3>1, <3>2
    <2>6. CASE Finish
        <3>1. call.pc = "loop"
            BY <2>6 DEF Finish
        <3>2. p = call.out
            BY <2>6, ReturnWritesOutput DEF Finish
        <3> QED
            BY <2>1, <3>1, <3>2
    <2>7. CASE Crash
        <3>1. CASE call.pc = "open"
            BY <2>7, <3>1 DEF Crash, Return, OutFile, FileInv
        <3>2. CASE call.pc \in {"setup", "loop"}
            <4>1. p = call.out
                BY <2>7, ReturnWritesOutput DEF Crash
            <4> QED
                BY <2>1, <3>2, <4>1
        <3> QED
            BY <2>7, <3>1, <3>2 DEF Crash, FileInv, Calls
    <2> QED
        BY <2>2, <2>3, <2>4, <2>5, <2>6, <2>7 DEF Next, CallStep
<1> QED
    BY <1>1, FileInvariant, PTL DEF Spec, InputPreserved
=============================================================================
