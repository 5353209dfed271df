------------------------------ MODULE PgpFile ------------------------------
(***************************************************************************)
(* The file calls of CPgpEngine (src/src/Pgp/PgpEngine.cpp) on a disk that *)
(* outlives the process: EncryptFile and SignFile write their output in    *)
(* place, EncryptFileCompressed compresses into a temporary file first,    *)
(* DecryptFile decrypts into one and moves it over the output once the MDC *)
(* has been checked.                                                       *)
(*                                                                         *)
(* Every open, read, write, delete and move may fail; the progress         *)
(* callback may cancel or throw; the process may die between any two       *)
(* steps. One call runs at a time. Windows refuses to truncate, delete or  *)
(* replace the input while the call has it open for reading.               *)
(***************************************************************************)
EXTENDS SeipReader

CONSTANTS
    Paths,        \* the files the caller names
    Absent,       \* no file
    Recipients,   \* what additionalRecipients and the peer may amount to: Key IDs
    InitialDisks, \* what the caller's paths may hold at first
    Foreign,      \* messages other programs wrote, as records (see MessageOf)
    MaxDocument,  \* bound: octets of a document
    MaxCalls      \* bound: calls made

NotCompressed == -1

\* A message: who it is for, how long the document is, how the literal, the
\* compressed (if any) and the encrypted packet are framed, and whether the MDC matches.
Framings == [form : {"definite", "partial", "indeterminate"}, ends : Seq(Nat)]
MessageRecords ==
    [recipients : Seq(Nat), size : Nat, literal : Framings, algorithm : Nat \cup {NotCompressed},
     compressed : Framings, outer : Framings, mdcMatches : BOOLEAN]

ASSUME PgpFileAssumption ==
    /\ Absent \notin Seq(Octet) \cup Paths
    /\ Paths \cap (Paths \X {"pgpztmp", "pgptmp"}) = {}
    /\ InitialDisks \subseteq [Paths -> Seq(Octet) \cup {Absent}]
    /\ Recipients \subseteq Seq(Nat)
    /\ Foreign \subseteq MessageRecords
    /\ {MaxDocument, MaxCalls} \subseteq Nat

VARIABLES
    disk,    \* path -> contents; temporary files included
    pc,      \* where the running call is
    call,    \* its arguments, what it found, and what went wrong around it
    status,  \* the code it will return, or returned
    todo,    \* the pieces it still has to write, in order
    reader,  \* DecryptFile's streaming reader
    calls    \* calls made so far

fileVars == <<disk, pc, call, status, todo, reader, calls>>

FileCalls == {"EncryptFile", "EncryptFileCompressed", "DecryptFile", "SignFile"}
Codes == {"NO_ERROR", "INVALID_ARGUMENT", "INVALID_DATA", "NOT_IMPLEMENTED", "FILE_IO_ERROR",
          "OPERATION_CANCELLED", "UNEXPECTED_ERROR", "CRASHED"}

\* ".pgpztmp" and ".pgptmp" after the output's name.
TempPaths == Paths \X {"pgpztmp", "pgptmp"}
TempPath(op, output) == <<output, IF op = "DecryptFile" THEN "pgptmp" ELSE "pgpztmp">>
Temp == TempPath(call.op, call.output)
AllPaths == Paths \cup TempPaths

-----------------------------------------------------------------------------
(* The messages the calls write, in the pieces they write them in. *)

Pkesks(recipients) == [i \in DOMAIN recipients |-> An("pkesk", recipients[i])]

\* Mutant: a last read of less than a whole chunk is taken for the end of the input.
ChunkPiecesWhole(octets) ==
    [i \in 1..(Len(octets) \div ReadSize) |->
        [octets |-> SubSeq(octets, (i - 1) * ReadSize + 1, i * ReadSize), reports |-> TRUE]]

\* A piece is written in one go; after a chunk of the input comes the callback.
Piece(octets) == [octets |-> octets, reports |-> FALSE]
ChunkPieces(octets) ==
    [i \in 1..((Len(octets) + ReadSize - 1) \div ReadSize) |->
        [octets |-> SubSeq(octets, (i - 1) * ReadSize + 1, Min({i * ReadSize, Len(octets)})),
         reports |-> TRUE]]

\* Headers up front, then the chunks, then the MDC. Every length is computed from
\* the size of the input.
MessagePieces(recipients, tag, first, octets) ==
    LET packet == Packet(tag, <<first>> \o octets, Definite)
        message == Pkesks(recipients) \o Packet(Seip, SeipBody(packet, TRUE), Definite)
        header == Len(message) - Len(octets) - 1
    IN  <<Piece(SubSeq(message, 1, header))>> \o ChunkPieces(octets) \o <<Piece(<<An("mdc", 1)>>)>>

encryptFileStreaming(document) ==
    MessagePieces(call.recipients, Literal, An("name", 0), document)

encryptFileStreamingCompressed(compressed) ==
    MessagePieces(call.recipients, Compressed, An("algorithm", 1), compressed)

compressLiteralToTempFile(document) ==
    LET packet == Packet(Literal, LiteralBody(document), Definite)
        header == Len(packet) - Len(document)
    IN  <<Piece(Deflated(SubSeq(packet, 1, header)))>> \o ChunkPieces(Deflated(document))

\* A signature is its packet and (in place of the digest) what it was made over.
signFileStreaming(document) == <<Piece(<<An("signature", 0)>> \o document)>>

-----------------------------------------------------------------------------
(* What the calls are for: the right result for an input, or Absent. *)

LiteralPacket(m, document) == Packet(Literal, LiteralBody(document), m.literal)

\* The packet right inside the encrypted one.
InnerTag(m) == IF m.algorithm = NotCompressed THEN Literal ELSE Compressed
InnerFraming(m) == IF m.algorithm = NotCompressed THEN m.literal ELSE m.compressed
InnerBody(m, document) ==
    IF m.algorithm = NotCompressed THEN LiteralBody(document)
    ELSE CompressedBody(m.algorithm, LiteralPacket(m, document))

OuterBody(m, document) ==
    SeipBody(Packet(InnerTag(m), InnerBody(m, document), InnerFraming(m)), m.mdcMatches)

MessageFor(m, document) == Pkesks(m.recipients) \o Packet(Seip, OuterBody(m, document), m.outer)

MessageOf(m) == MessageFor(m, Document(m.size))

\* A message this engine writes for a document.
Own(recipients, size, algorithm) ==
    [recipients |-> recipients, size |-> size, literal |-> Definite, algorithm |-> algorithm,
     compressed |-> Definite, outer |-> Definite, mdcMatches |-> TRUE]

Messages ==
    Foreign \cup {Own(r, n, a) : r \in Recipients, n \in 0..MaxDocument, a \in {NotCompressed, 1}}

\* No chunk but the last is empty, and its header can hold the length of each.
WellFramed(framing, body) ==
    LET end(i) == ChunkEnd(body, framing.ends, i)
    IN  /\ framing.form # "partial" => framing.ends = <<>>
        /\ \A i \in DOMAIN framing.ends : end(i - 1) < end(i) /\ end(i) <= Len(body)
        /\ framing.form # "indeterminate" => Len(body) - end(Len(framing.ends)) < LengthModulus

\* A message the own subkey can open, whose headers parseEncryptedFileHeader has read.
Intact(m, document) ==
    /\ OwnSubkey \in Range(m.recipients)
    /\ m.mdcMatches
    /\ m.algorithm <= 3
    /\ WellFramed(m.literal, LiteralBody(document))
    /\ WellFramed(InnerFraming(m), InnerBody(m, document))
    /\ WellFramed(m.outer, OuterBody(m, document))
    /\ m.outer.form # "indeterminate"
    /\ Len(OuterBody(m, document)) <= SizeModulus
    /\ Len(m.recipients) + 2 + Len(ChunkHeader(OuterBody(m, document), m.outer.ends, 1)) <= HeadRead

IntactMessages ==
    {[octets |-> MessageOf(m), message |-> m] : m \in {n \in Messages : Intact(n, Document(n.size))}}

\* Requests name the call and, for the encrypting ones, who the message is for.
Requests ==
    ({"EncryptFile", "EncryptFileCompressed"} \X Recipients) \cup ({"DecryptFile", "SignFile"} \X {<<>>})

Result(request, octets) ==
    LET op == request[1]
        algorithm == IF op = "EncryptFile" THEN NotCompressed ELSE 1
    IN  IF octets = Absent THEN Absent
        ELSE CASE op = "DecryptFile" ->
                    IF \E e \in IntactMessages : e.octets = octets
                    THEN Document((CHOOSE e \in IntactMessages : e.octets = octets).message.size)
                    ELSE Absent
               [] op = "SignFile" -> <<An("signature", 0)>> \o octets
               [] OTHER -> MessageFor(Own(request[2], Len(octets), algorithm), octets)

-----------------------------------------------------------------------------
NoReader == Refused
NoCall == [op |-> "none", recipients |-> <<>>, input |-> Absent, output |-> Absent,
           source |-> Absent, result |-> Absent, old |-> Absent, oldTemp |-> Absent,
           created |-> FALSE, faulted |-> FALSE, littered |-> FALSE]

Init ==
    /\ \E files \in InitialDisks :
          disk = [p \in AllPaths |-> IF p \in Paths THEN files[p] ELSE Absent]
    /\ pc = "idle"
    /\ call = NoCall
    /\ status = "NO_ERROR"
    /\ todo = <<>>
    /\ reader = NoReader
    /\ calls = 0

\* The caller encrypts documents; the other calls are given any file.
Begin(request, input, output) ==
    /\ pc = "idle"
    /\ calls < MaxCalls
    /\ request[2] # <<>> /\ disk[input] # Absent =>
          \A i \in DOMAIN disk[input] : disk[input][i].kind = "data"
    /\ pc' = "open"
    /\ call' = [op |-> request[1], recipients |-> request[2], input |-> input, output |-> output,
                source |-> disk[input], result |-> Result(request, disk[input]),
                old |-> disk[output], oldTemp |-> disk[TempPath(request[1], output)],
                created |-> FALSE, faulted |-> FALSE, littered |-> FALSE]
    /\ status' = "NO_ERROR"
    /\ calls' = calls + 1
    /\ UNCHANGED <<disk, todo, reader>>

\* The call is at a step that nothing but the environment makes fail.
Faulted == call' = [call EXCEPT !.faulted = TRUE]

Goto(next, code) == pc' = next /\ status' = code /\ UNCHANGED calls
Return(code) == Goto("idle", code) /\ todo' = <<>> /\ reader' = NoReader

\* Arguments are checked (INVALID_ARGUMENT) and the input opened; DecryptFile then
\* parses the header, where a read or a seek that fails is INVALID_DATA as well, and
\* SignFile reads and signs all of the input.
Open ==
    /\ pc = "open"
    /\ UNCHANGED disk
    /\ \/ /\ Faulted
          /\ \E code \in {"INVALID_ARGUMENT", "FILE_IO_ERROR"} : Return(code)
       \/ /\ disk[call.input] = Absent
          /\ Return("FILE_IO_ERROR")
          /\ UNCHANGED call
       \/ /\ disk[call.input] # Absent
          /\ call.op = "SignFile"
          /\ Faulted
          /\ \E code \in {"OPERATION_CANCELLED", "UNEXPECTED_ERROR"} : Return(code)
       \/ /\ disk[call.input] # Absent
          /\ call.op = "DecryptFile"
          /\ Faulted
          /\ Return("INVALID_DATA")
       \/ /\ disk[call.input] # Absent
          /\ call.op = "DecryptFile"
          /\ ~parseEncryptedFileHeader(disk[call.input]).ok
          /\ Return("INVALID_DATA")
          /\ UNCHANGED call
       \/ /\ disk[call.input] # Absent
          /\ call.op = "DecryptFile"
          /\ parseEncryptedFileHeader(disk[call.input]).ok
          /\ reader' = parseEncryptedFileHeader(disk[call.input])
          /\ Goto("createTemp", "NO_ERROR")
          /\ UNCHANGED <<call, todo>>
       \/ /\ disk[call.input] # Absent
          /\ call.op # "DecryptFile"
          /\ Goto(IF call.op = "EncryptFileCompressed" THEN "createTemp" ELSE "createOutput", "NO_ERROR")
          /\ UNCHANGED <<call, todo, reader>>

CreateTemp ==
    /\ pc = "createTemp"
    /\ \/ /\ Faulted
          /\ UNCHANGED <<disk, todo, reader>>
          /\ Goto(IF call.op = "DecryptFile" THEN "idle" ELSE "removeTemp", "FILE_IO_ERROR")
       \/ /\ disk' = [disk EXCEPT ![Temp] = <<>>]
          /\ todo' = IF call.op = "DecryptFile" THEN <<>>
                     ELSE compressLiteralToTempFile(disk[call.input])
          /\ Goto(IF call.op = "DecryptFile" THEN "decrypt" ELSE "compress", "NO_ERROR")
          /\ UNCHANGED <<call, reader>>

\* CREATE_ALWAYS empties the output; it fails on the input, which is open.
CreateOutput ==
    /\ pc = "createOutput"
    /\ \/ /\ IF call.output = call.input THEN UNCHANGED call ELSE Faulted
          /\ UNCHANGED <<disk, todo, reader>>
          /\ Goto(IF call.op = "EncryptFileCompressed" THEN "removeTemp" ELSE "idle", "FILE_IO_ERROR")
       \/ /\ call.output # call.input
          /\ disk' = [disk EXCEPT ![call.output] = <<>>]
          /\ todo' = CASE call.op = "EncryptFile" -> encryptFileStreaming(disk[call.input])
                       [] call.op = "EncryptFileCompressed" -> encryptFileStreamingCompressed(disk[Temp])
                       [] call.op = "SignFile" -> signFileStreaming(disk[call.input])
          /\ call' = [call EXCEPT !.created = TRUE]
          /\ Goto("write", "NO_ERROR")
          /\ UNCHANGED reader

\* Mutant: a failed compression is cleaned up after like an encryption.
CleanUpOutput == IF call.op = "DecryptFile" THEN "removeTemp" ELSE "removeOutput"

\* Where a failed piece of work leads: what it was writing is deleted again.
CleanUp == IF call.op \in {"EncryptFile", "SignFile"} THEN "removeOutput" ELSE "removeTemp"

\* writeFileExact: all of the octets, or some of them and an error.
Extend(path, octets) == disk' = [disk EXCEPT ![path] = @ \o octets]
TornWrite(path, octets) == \E k \in 0..(Len(octets) - 1) : Extend(path, SubSeq(octets, 1, k))

\* What the progress callback makes of the call by returning false or throwing.
Interruptions == {"OPERATION_CANCELLED", "UNEXPECTED_ERROR"}

\* The next piece of a message, a compressed literal or a signature. A write or a read
\* may fail, a PKESK packet may not be built, an exception may be thrown.
WritePiece(path) ==
    /\ todo # <<>>
    /\ UNCHANGED reader
    /\ \/ /\ Extend(path, Head(todo).octets)
          /\ todo' = Tail(todo)
          /\ Goto(pc, "NO_ERROR")
          /\ UNCHANGED call
       \/ /\ TornWrite(path, Head(todo).octets)
          /\ todo' = <<>>
          /\ Faulted
          /\ \E code \in {"FILE_IO_ERROR", "UNEXPECTED_ERROR"} : Goto(CleanUp, code)
       \/ /\ Head(todo).reports
          /\ Extend(path, Head(todo).octets)
          /\ todo' = <<>>
          /\ Faulted
          /\ \E code \in Interruptions : Goto(CleanUp, code)

Compress ==
    /\ pc = "compress"
    /\ \/ WritePiece(Temp)
       \/ /\ todo = <<>>
          /\ Goto("createOutput", "NO_ERROR")
          /\ UNCHANGED <<disk, call, todo, reader>>
       \/ /\ todo = <<>>                              \* its size cannot be read back
          /\ Faulted
          /\ Goto("removeTemp", "FILE_IO_ERROR")
          /\ UNCHANGED <<disk, todo, reader>>

Write ==
    /\ pc = "write"
    /\ \/ WritePiece(call.output)
       \/ /\ todo = <<>>
          /\ Goto(IF call.op = "EncryptFileCompressed" THEN "removeTemp" ELSE "idle", "NO_ERROR")
          /\ UNCHANGED <<disk, call, todo, reader>>

\* Where DecryptFile goes on: the output is only touched once the MDC is checked.
AfterStep(next) ==
    CASE next.phase # "done" -> "decrypt"
      [] next.phase = "done" /\ next.code = "NO_ERROR" -> "deleteOld"
      [] next.phase = "done" /\ next.code # "NO_ERROR" -> "removeTemp"

\* One step of decryptSeipBodyStreaming; what it puts out goes to the temporary file.
DecryptStep ==
    /\ pc = "decrypt"
    /\ UNCHANGED todo
    /\ \E next \in {ReaderStep(reader)} :
          \/ /\ Extend(Temp, next.output)
             /\ reader' = IF next.phase = "done" THEN NoReader ELSE next
             /\ Goto(AfterStep(next), next.code)
             /\ UNCHANGED call
          \/ /\ next.rest # reader.rest              \* ReadFile fails
             /\ Faulted
             /\ reader' = NoReader
             /\ Goto("removeTemp", "INVALID_DATA")
             /\ UNCHANGED disk
          \/ /\ next.output # <<>>
             /\ Faulted
             /\ reader' = NoReader
             /\ \/ TornWrite(Temp, next.output) /\ Goto("removeTemp", "FILE_IO_ERROR")
                \/ /\ Extend(Temp, next.output)
                   /\ \E code \in Interruptions : Goto("removeTemp", code)

\* DeleteFileW(output), whose result nobody looks at ...
DeleteOld ==
    /\ pc = "deleteOld"
    /\ \/ /\ call.output # call.input
          /\ disk' = [disk EXCEPT ![call.output] = Absent]
       \/ UNCHANGED disk
    /\ Goto("move", "NO_ERROR")
    /\ UNCHANGED <<call, todo, reader>>

\* ... then MoveFileExW over it.
Move ==
    /\ pc = "move"
    /\ UNCHANGED <<todo, reader>>
    /\ \/ /\ call.output # call.input
          /\ disk' = [disk EXCEPT ![call.output] = disk[Temp], ![Temp] = Absent]
          /\ Goto("idle", "NO_ERROR")
          /\ UNCHANGED call
       \/ /\ Goto("removeTemp", "FILE_IO_ERROR")
          /\ IF call.output = call.input THEN UNCHANGED call ELSE Faulted
          /\ UNCHANGED disk

\* DeleteFileW on a file the call wrote; a failure leaves it behind, unreported.
Delete(path) ==
    \/ disk' = [disk EXCEPT ![path] = Absent] /\ UNCHANGED call
    \/ UNCHANGED disk /\ call' = [call EXCEPT !.littered = TRUE]

RemoveTemp ==
    /\ pc = "removeTemp"
    /\ Delete(Temp)
    /\ Goto(IF call.created /\ status # "NO_ERROR" THEN "removeOutput" ELSE "idle", status)
    /\ UNCHANGED <<todo, reader>>

RemoveOutput ==
    /\ pc = "removeOutput"
    /\ Delete(call.output)
    /\ Goto("idle", status)
    /\ UNCHANGED <<todo, reader>>

\* The process dies; the disk keeps what was written.
Crash ==
    /\ pc # "idle"
    /\ Return("CRASHED")
    /\ UNCHANGED <<disk, call>>

CallStep ==
    \/ Open
    \/ CreateTemp
    \/ CreateOutput
    \/ Compress
    \/ Write
    \/ DecryptStep
    \/ DeleteOld
    \/ Move
    \/ RemoveTemp
    \/ RemoveOutput

Next ==
    \/ \E request \in Requests, input, output \in Paths : Begin(request, input, output)
    \/ CallStep
    \/ Crash

Spec == Init /\ [][Next]_fileVars /\ WF_fileVars(CallStep)
-----------------------------------------------------------------------------
(* Properties. *)

Places == {"idle", "open", "createTemp", "createOutput", "compress", "write", "decrypt",
           "deleteOld", "move", "removeTemp", "removeOutput"}

\* Files hold octets, the call is at a known place, and no count of the streaming
\* reader (cipherRemaining, innerChunkRemaining, contentRemaining) wraps below zero.
PgpFileTypeOK ==
    /\ disk \in [AllPaths -> Seq(Octet) \cup {Absent}]
    /\ pc \in Places
    /\ status \in Codes
    /\ todo \in Seq([octets : Seq(Octet), reports : BOOLEAN])
    /\ calls \in 0..MaxCalls
    /\ reader.ok =>
          /\ {reader.rest, reader.pending} \subseteq Seq(Octet)
          /\ {reader.cipherRemaining, reader.cipherChunkRemaining, reader.remaining,
              reader.literal.chunkRemaining, reader.literal.contentRemaining} \subseteq Nat
          /\ reader.streamPos + Len(reader.pending) + reader.cipherRemaining = reader.encLength

\* The calls as the caller sees them, through the files it named.
Output ==
    INSTANCE OutputFile WITH
        Calls <- Requests, Replacing <- {<<"DecryptFile", <<>>>>},
        files <- [p \in Paths |-> disk[p]],
        job <- [state |-> IF pc # "idle" THEN "busy" ELSE IF calls = 0 THEN "none"
                          ELSE IF status = "NO_ERROR" THEN "succeeded" ELSE "failed",
                output |-> call.output, result |-> call.result,
                replaces |-> call.op = "DecryptFile"]

\* The calls implement OutputFile: whatever fails, is cancelled or crashes,
\* EncryptFile, EncryptFileCompressed and SignFile show only prefixes of the right
\* file, DecryptFile shows the old file, nothing, or the whole plaintext of a message
\* whose MDC matches, the old file goes only once the MDC has been checked, and
\* NO_ERROR means the output is there and complete.
ImplementsOutputFile == Output!OutputSpec

\* The document a message in the file was made from, whatever its framing.
DocumentOf(octets) ==
    UNION {{Document(e.message.size)} : e \in {f \in IntactMessages : f.octets = octets}}

\* The chunks of the packet right inside the encrypted one use up all of its body, so
\* its last chunk is empty.
EndsWithEmptyChunk(m, document) ==
    LET body == InnerBody(m, document)
        ends == InnerFraming(m).ends
    IN  ChunkEnd(body, ends, Len(ends)) = Len(body)

\* When nothing around it fails, DecryptFile opens a file if and only if it is a whole
\* message for the own subkey whose MDC matches and whose lengths fit their headers,
\* however its packets are framed and wherever ReadFile cuts them, with one exception:
\* a partial-length packet inside the encrypted one that ends with an empty chunk.
DecryptFileVerdict ==
    (pc = "idle" /\ call.op = "DecryptFile" /\ ~call.faulted /\ call.output # call.input
        /\ status \in {"NO_ERROR", "INVALID_DATA", "NOT_IMPLEMENTED"})
    => (status = "NO_ERROR" <=>
            \E e \in IntactMessages : e.octets = call.source /\ ~EndsWithEmptyChunk(e.message, Document(e.message.size)))

\* What DecryptFile is about to put in the old file's place is the right result: the
\* whole document of a message whose MDC matches.
ReplacesWithDocument ==
    pc \in {"deleteOld", "move"} => call.result # Absent /\ disk[Temp] = call.result

\* While DecryptFile runs, its temporary file holds a prefix of the document: no
\* octet of a chunk header or of the trailer is ever written as content. When it is
\* about to take the old file's place it is the whole document of a message whose MDC
\* matches.
TemporaryIsPrefix ==
    /\ pc = "decrypt" /\ DocumentOf(call.source) # {} =>
          \E document \in DocumentOf(call.source) : IsPrefix(disk[Temp], document)
    /\ ReplacesWithDocument

\* A call that returned (did not crash) and whose deletions succeeded leaves no new
\* temporary file, and after an error nothing at the output but the old file:
\* PgpEngine.h says of ".pgpztmp" that it is "removed on every exit path".
NothingLeftBehind ==
    (pc = "idle" /\ calls > 0 /\ status # "CRASHED" /\ ~call.littered) =>
        /\ disk[Temp] \in {Absent, call.oldTemp}
        /\ status # "NO_ERROR" => disk[call.output] \in {Absent, call.old}

\* Every call returns: the reader's loops over chunk headers, empty chunks and short
\* reads all end.
FileCallEnds == pc # "idle" ~> pc = "idle"
=============================================================================
