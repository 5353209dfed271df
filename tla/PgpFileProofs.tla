--------------------------- MODULE PgpFileProofs ---------------------------
(***************************************************************************)
(* Proofs about PgpFile and the messages its reader is given, for any      *)
(* paths, files, recipients, chunk sizes and integer widths.               *)
(***************************************************************************)
EXTENDS PgpFile, SeipReaderProofs

-----------------------------------------------------------------------------
(***************************************************************************)
(* The invariant of the file calls. Before anything is written to them the *)
(* caller's files are as they were; a file that is being written is a      *)
(* prefix of its target, and the pieces still to be written cut the rest   *)
(* of the target into runs that meet; a temporary file is complete when    *)
(* its contents are used.                                                  *)
(***************************************************************************)

Stored == Bytes \cup {Absent}

CallRecords ==
    [op : FileCalls, recipients : Seq(Nat), input : Paths, output : Paths, source : Stored,
     result : Stored, old : Stored, oldTemp : Stored, created : BOOLEAN, faulted : BOOLEAN,
     littered : BOOLEAN]

Growing(path, target) ==
    /\ disk[path] \in Bytes
    /\ Len(disk[path]) <= Len(target)
    /\ disk[path] = SubSeq(target, 1, Len(disk[path]))
    /\ Cuts(todo, target, Len(disk[path]))

TypeInv ==
    /\ disk \in [AllPaths -> Stored]
    /\ pc \in Places
    /\ status \in Codes
    /\ todo \in Seq(Pieces)
    /\ calls \in 0 .. MaxCalls
    /\ reader = NoReader \/ Running(reader)

CallInv ==
    \/ call = NoCall /\ calls = 0 /\ pc = "idle"
    \/ /\ call \in CallRecords
       /\ calls > 0
       /\ call.result = Result(<<call.op, call.recipients>>, call.source)

Untouched == disk[call.output] = call.old /\ ~call.created
InputKept == disk[call.input] = call.source /\ call.source # Absent
OldOrGone == disk[call.output] \in {Absent, call.old}
NoTemp == disk[Temp] = call.oldTemp

PlaceInv ==
    /\ pc = "idle" => NothingLeftBehind
    /\ pc = "open" => Untouched /\ NoTemp /\ disk[call.input] = call.source
    /\ pc = "createTemp" => /\ Untouched /\ NoTemp /\ InputKept
                            /\ call.op = "EncryptFileCompressed" \/ (call.op = "DecryptFile" /\ Running(reader))
    /\ pc = "compress" => /\ call.op = "EncryptFileCompressed"
                          /\ Untouched /\ InputKept
                          /\ Growing(Temp, CompressedLiteral(call.source))
    /\ pc = "createOutput" => /\ call.op # "DecryptFile"
                              /\ Untouched /\ InputKept
                              /\ IF call.op = "EncryptFileCompressed"
                                 THEN disk[Temp] = CompressedLiteral(call.source) ELSE NoTemp
    /\ pc = "write" => /\ call.op # "DecryptFile"
                       /\ call.created
                       /\ call.result # Absent
                       /\ Growing(call.output, call.result)
                       /\ call.op # "EncryptFileCompressed" => NoTemp
    /\ pc = "decrypt" => call.op = "DecryptFile" /\ Untouched /\ disk[Temp] # Absent /\ Running(reader)
    /\ pc = "deleteOld" => call.op = "DecryptFile" /\ Untouched /\ disk[Temp] # Absent
    /\ pc = "move" => call.op = "DecryptFile" /\ ~call.created /\ OldOrGone /\ disk[Temp] # Absent
    /\ pc = "removeTemp" => /\ IF call.created THEN call.op = "EncryptFileCompressed"
                               ELSE call.op \in {"EncryptFileCompressed", "DecryptFile"} /\ OldOrGone
                            /\ status = "NO_ERROR" => /\ call.created
                                                      /\ call.result # Absent
                                                      /\ disk[call.output] = call.result
    /\ pc = "removeOutput" => /\ call.op # "DecryptFile"
                              /\ status # "NO_ERROR"
                              /\ call.littered \/ disk[Temp] \in {Absent, call.oldTemp}

FileInv == TypeInv /\ CallInv /\ PlaceInv
-----------------------------------------------------------------------------
(* What the calls write is octets, and the pieces make up the target. *)

LEMMA PkesksBytes ==
    ASSUME NEW recipients \in Seq(Nat)
    PROVE  Pkesks(recipients) \in Bytes
<1>1. "pkesk" \in Kinds
  BY DEF Kinds
<1>2. \A i \in DOMAIN recipients : An("pkesk", recipients[i]) \in Octet
  BY <1>1, AnOctet
<1>3. Pkesks(recipients) \in [1 .. Len(recipients) -> Octet] /\ Len(recipients) \in Nat
  BY <1>2 DEF Pkesks
<1> QED
  BY <1>3 DEF Bytes

\* The message around some octets: what is in front of them, they, the MDC.
MessageAround(recipients, tag, first, octets) ==
    Pkesks(recipients) \o Packet(Seip, SeipBody(Packet(tag, <<first>> \o octets, Definite), TRUE), Definite)

LEMMA MessageParts ==
    ASSUME NEW recipients \in Seq(Nat), NEW tag \in Nat, NEW first \in Octet, NEW octets \in Bytes
    PROVE  \E front \in Bytes :
              MessageAround(recipients, tag, first, octets) = front \o (octets \o <<An("mdc", 1)>>)
<1> DEFINE pk == Pkesks(recipients)
           body == <<first>> \o octets
           inner == <<An("tag", tag)>> \o appendNewFormatLength(Len(body))
           packet == Packet(tag, body, Definite)
           prefix == <<An("version", 1), An("random", 0)>>
           mdc == <<An("mdc", 1)>>
           seip == SeipBody(packet, TRUE)
           outer == <<An("tag", Seip)>> \o appendNewFormatLength(Len(seip))
           end == octets \o mdc
<1>1. pk \in Bytes
  BY PkesksBytes
<1>2. <<first>> \in Bytes
  <2>1. \A a \in Octet : <<a>> \in Bytes
    BY DEF Bytes
  <2> QED
    BY <2>1
<1>3. body \in Bytes
  BY <1>2, ConcatBytes
<1>4. prefix \in Bytes /\ mdc \in Bytes
  <2>1. {"version", "random", "mdc"} \subseteq Kinds
    BY DEF Kinds
  <2>2. An("version", 1) \in Octet /\ An("random", 0) \in Octet /\ An("mdc", 1) \in Octet
    BY <2>1, AnOctet
  <2>3. \A a, b \in Octet : <<a>> \in Bytes /\ <<a, b>> \in Bytes
    BY DEF Bytes
  <2> QED
    BY <2>2, <2>3
<1>5. seip = (prefix \o packet) \o mdc
  BY DEF SeipBody
<1> HIDE DEF body, prefix, mdc, pk
<1>6. inner \in Bytes /\ packet = inner \o body /\ packet \in Bytes
  BY <1>3, PacketBytes
<1> HIDE DEF packet, inner, seip
<1>7. seip \in Bytes
  BY <1>4, <1>5, <1>6, ConcatBytes
<1>8. Seip \in Nat
  BY DEF Seip
<1>9. outer \in Bytes /\ Packet(Seip, seip, Definite) = outer \o seip
  BY <1>7, <1>8, PacketBytes
<1> HIDE DEF outer
<1>10. end \in Bytes
  BY <1>4, ConcatBytes
<1>11. body \o mdc = <<first>> \o end
  BY <1>2, <1>4, ConcatAssoc DEF body
<1> HIDE DEF end
<1> DEFINE one == <<first>>
           packed == inner \o one
           inside == prefix \o packed
           around == outer \o inside
           front == pk \o around
<1> HIDE DEF one
<1>12. packet \o mdc = packed \o end
  <2>1. (inner \o body) \o mdc = inner \o (body \o mdc)
    <3>1. inner \in Bytes /\ body \in Bytes /\ mdc \in Bytes
      BY <1>3, <1>4, <1>6
    <3> QED
      BY <3>1, ConcatAssoc
  <2>2. (inner \o one) \o end = inner \o (one \o end)
    <3>1. inner \in Bytes /\ one \in Bytes /\ end \in Bytes
      BY <1>2, <1>6, <1>10 DEF one
    <3> QED
      BY <3>1, ConcatAssoc
  <2> QED
    BY <1>6, <1>11, <2>1, <2>2 DEF one
<1>13. packed \in Bytes
  BY <1>2, <1>6, ConcatBytes DEF one
<1> HIDE DEF packed
<1>14. seip = inside \o end
  <2>1. (prefix \o packet) \o mdc = prefix \o (packet \o mdc)
    <3>1. prefix \in Bytes /\ packet \in Bytes /\ mdc \in Bytes
      BY <1>4, <1>6
    <3> QED
      BY <3>1, ConcatAssoc
  <2>2. (prefix \o packed) \o end = prefix \o (packed \o end)
    <3>1. prefix \in Bytes /\ packed \in Bytes /\ end \in Bytes
      BY <1>4, <1>10, <1>13
    <3> QED
      BY <3>1, ConcatAssoc
  <2> QED
    BY <1>5, <1>12, <2>1, <2>2
<1>15. inside \in Bytes
  BY <1>4, <1>13, ConcatBytes
<1> HIDE DEF inside
<1>16. around \in Bytes /\ outer \o seip = around \o end
  <2>1. outer \in Bytes /\ inside \in Bytes /\ end \in Bytes
    BY <1>9, <1>10, <1>15
  <2>2. around \in Bytes
    BY <2>1, ConcatBytes
  <2>3. (outer \o inside) \o end = outer \o (inside \o end)
    BY <2>1, ConcatAssoc
  <2> QED
    BY <1>14, <2>2, <2>3
<1> HIDE DEF around
<1>17. pk \o (outer \o seip) = front \o end
  <2>1. pk \in Bytes /\ around \in Bytes /\ end \in Bytes
    BY <1>1, <1>10, <1>16
  <2>2. (pk \o around) \o end = pk \o (around \o end)
    BY <2>1, ConcatAssoc
  <2> QED
    BY <1>16, <2>2
<1>18. front \in Bytes
  BY <1>1, <1>16, ConcatBytes
<1>19. MessageAround(recipients, tag, first, octets) = pk \o (outer \o seip)
  BY <1>9 DEF MessageAround, pk, seip, packet, body
<1> QED
  BY <1>17, <1>18, <1>19 DEF end, mdc

\* The chunks of an input, the last one shorter when its length is no multiple.
LEMMA ChunkCuts ==
    ASSUME NEW octets \in Bytes
    PROVE  ChunkPieces(octets) \in Seq(Pieces) /\ Cuts(ChunkPieces(octets), octets, 0)
<1> DEFINE L == Len(octets)
           R == ReadSize
           k == (L + R - 1) \div R
           b == [i \in 0 .. k |-> Min({i * R, L})]
           pieces == ChunkPieces(octets)
<1>1. L \in Nat /\ R \in Nat /\ R > 0
  BY ReaderAssumption DEF Bytes
<1>2. k \in Nat /\ k * R >= L /\ (k - 1) * R < L
  <2> HIDE DEF L, R
  <2> QED
    BY <1>1
<1> HIDE DEF k
<1>3. \A i \in 0 .. k : i * R \in Nat
  BY <1>1, <1>2
<1>4. \A i \in 1 .. k : (i - 1) * R \in Nat /\ (i - 1) * R < L /\ (i - 1) * R <= i * R
  <2>1. ASSUME NEW i \in 1 .. k
        PROVE  (i - 1) * R \in Nat /\ (i - 1) * R < L /\ (i - 1) * R <= i * R
    <3>1. i - 1 \in Nat /\ i - 1 <= k - 1 /\ i = (i - 1) + 1 /\ k - 1 \in Nat
      BY <1>2
    <3>2. \A m, n, r \in Nat : m * r \in Nat /\ (m <= n => m * r <= n * r) /\ (m + 1) * r = m * r + r
      OBVIOUS
    <3>3. (i - 1) * R \in Nat /\ (i - 1) * R <= (k - 1) * R /\ ((i - 1) + 1) * R = (i - 1) * R + R
      BY <1>1, <3>1, <3>2
    <3>4. (k - 1) * R \in Nat
      BY <1>1, <3>1, <3>2
    <3> DEFINE m == (i - 1) * R
               n == (k - 1) * R
    <3>5. m \in Nat /\ n \in Nat /\ m <= n /\ n < L /\ i * R = m + R
      BY <1>2, <3>1, <3>3, <3>4
    <3> HIDE DEF m, n
    <3>6. m < L /\ m <= i * R
      BY <1>1, <3>5
    <3> QED
      BY <3>5, <3>6 DEF m
  <2> QED
    BY <2>1
<1>5. \A m, n \in Nat : Min({m, n}) = IF m <= n THEN m ELSE n
  <2> SUFFICES ASSUME NEW m \in Nat, NEW n \in Nat
               PROVE  Min({m, n}) = IF m <= n THEN m ELSE n
    OBVIOUS
  <2> DEFINE S == {m, n}
  <2>1. S \in SUBSET Nat /\ S # {} /\ m \in S /\ n \in S /\ \A x \in S : x = m \/ x = n
    OBVIOUS
  <2> HIDE DEF S
  <2>2. Min(S) \in S /\ Min(S) <= m /\ Min(S) <= n
    BY <2>1, MinOfCounts
  <2>3. Min(S) = m \/ Min(S) = n
    BY <2>1, <2>2
  <2> DEFINE least == Min(S)
  <2> HIDE DEF least
  <2>4. least = IF m <= n THEN m ELSE n
    BY <2>2, <2>3 DEF least
  <2> QED
    BY <2>4 DEF S, least
<1>6. \A i \in 0 .. k : b[i] \in Nat /\ b[i] <= L /\ b[i] = IF i * R <= L THEN i * R ELSE L
  BY <1>1, <1>3, <1>5
<1>7. b \in [0 .. k -> Nat] /\ b[0] = 0 /\ b[k] = L
  <2>1. b[0] = IF 0 * R <= L THEN 0 * R ELSE L
    BY <1>2, <1>6
  <2>2. b[k] = IF k * R <= L THEN k * R ELSE L
    BY <1>2, <1>6
  <2>3. 0 * R = 0 /\ k * R \in Nat
    BY <1>1, <1>2, <1>3
  <2>4. b[0] = 0
    BY <1>1, <2>1, <2>3
  <2>5. b[k] = L
    BY <1>1, <1>2, <2>2, <2>3
  <2>6. b \in [0 .. k -> Nat]
    BY <1>6
  <2> QED
    BY <2>4, <2>5, <2>6
<1>8. pieces = [i \in 1 .. k |-> [octets |-> SubSeq(octets, (i - 1) * R + 1, b[i]), reports |-> TRUE]]
  <2>1. pieces = [i \in 1 .. k |-> [octets |-> SubSeq(octets, (i - 1) * R + 1, Min({i * R, L})), reports |-> TRUE]]
    BY DEF ChunkPieces, k
  <2>2. \A i \in 1 .. k : Min({i * R, L}) = b[i]
    BY <1>2
  <2> HIDE DEF b, pieces
  <2> QED
    BY <2>1, <2>2
<1> HIDE DEF b, pieces
<1>9. ASSUME NEW i \in 1 .. k
      PROVE  b[i - 1] = (i - 1) * R /\ b[i - 1] <= b[i] /\ b[i] <= L /\ b[i] \in Nat /\ b[i - 1] \in Nat
  <2>1. i \in 0 .. k /\ i - 1 \in 0 .. k
    BY <1>2
  <2>2. (i - 1) * R \in Nat /\ (i - 1) * R < L /\ (i - 1) * R <= i * R /\ i * R \in Nat
    BY <1>3, <1>4, <2>1
  <2>3. /\ b[i - 1] = (IF (i - 1) * R <= L THEN (i - 1) * R ELSE L)
        /\ b[i] = (IF i * R <= L THEN i * R ELSE L)
        /\ b[i] \in Nat /\ b[i - 1] \in Nat /\ b[i] <= L
    BY <1>6, <2>1
  <2> DEFINE m == (i - 1) * R
             n == i * R
  <2> HIDE DEF m, n
  <2>4. m \in Nat /\ n \in Nat /\ m < L /\ m <= n /\ b[i - 1] = (IF m <= L THEN m ELSE L)
        /\ b[i] = (IF n <= L THEN n ELSE L)
    BY <2>2, <2>3 DEF m, n
  <2>5. b[i - 1] = m /\ b[i - 1] <= b[i]
    BY <1>1, <2>4
  <2> QED
    BY <2>3, <2>5 DEF m
<1>10. ASSUME NEW i \in 1 .. k
       PROVE  /\ pieces[i].octets = SubSeq(octets, b[i - 1] + 1, b[i])
              /\ pieces[i] \in Pieces
  <2> DEFINE run == SubSeq(octets, b[i - 1] + 1, b[i])
  <2>1. pieces[i] = [octets |-> run, reports |-> TRUE]
    BY <1>8, <1>9
  <2>2. run \in Bytes
    BY <1>9, SubRun
  <2> HIDE DEF run
  <2>3. pieces[i].octets = run /\ pieces[i] \in Pieces
    BY <2>1, <2>2 DEF Pieces
  <2> QED
    BY <2>3 DEF run
<1>11. Len(pieces) = k /\ pieces \in Seq(Pieces)
  <2>1. pieces \in [1 .. k -> Pieces]
    BY <1>8, <1>10
  <2> QED
    BY <1>2, <2>1
<1>12. CutsAt(pieces, octets, 0, b)
  BY <1>7, <1>9, <1>10, <1>11 DEF CutsAt
<1>13. Cuts(pieces, octets, 0)
  BY <1>7, <1>11, <1>12 DEF Cuts
<1> QED
  BY <1>11, <1>13 DEF pieces

LEMMA OnePiece ==
    ASSUME NEW octets \in Bytes
    PROVE  <<Piece(octets)>> \in Seq(Pieces) /\ Cuts(<<Piece(octets)>>, octets, 0)
<1>1. Piece(octets) \in Pieces /\ Piece(octets) = [octets |-> octets, reports |-> FALSE]
  BY DEF Piece, Pieces
<1>2. \A p \in Pieces : <<p>> \in Seq(Pieces)
  OBVIOUS
<1>3. Cuts(<<[octets |-> octets, reports |-> FALSE]>>, octets, 0)
  BY CutsOne
<1> QED
  BY <1>1, <1>2, <1>3

\* Header, chunks and MDC make up the message.
LEMMA MessageCuts ==
    ASSUME NEW recipients \in Seq(Nat), NEW tag \in Nat, NEW first \in Octet, NEW octets \in Bytes
    PROVE  /\ MessagePieces(recipients, tag, first, octets) \in Seq(Pieces)
           /\ MessageAround(recipients, tag, first, octets) \in Bytes
           /\ Cuts(MessagePieces(recipients, tag, first, octets),
                   MessageAround(recipients, tag, first, octets), 0)
<1> DEFINE message == MessageAround(recipients, tag, first, octets)
           mdc == <<An("mdc", 1)>>
           header == Len(message) - Len(octets) - 1
           chunks == ChunkPieces(octets)
<1>1. PICK front \in Bytes : message = front \o (octets \o mdc)
  BY MessageParts
<1>2. MessagePieces(recipients, tag, first, octets) =
        (<<Piece(SubSeq(message, 1, header))>> \o chunks) \o <<Piece(mdc)>>
  BY DEF MessagePieces, MessageAround
<1>3. mdc \in Bytes /\ Len(mdc) = 1
  <2>1. "mdc" \in Kinds
    BY DEF Kinds
  <2> QED
    BY <2>1, OneOctet
<1> HIDE DEF message, mdc
<1>4. octets \o mdc \in Bytes /\ Len(octets \o mdc) = Len(octets) + 1
  <2>1. Len(octets \o mdc) = Len(octets) + Len(mdc) /\ octets \o mdc \in Bytes
    BY <1>3, ConcatBytes
  <2> QED
    BY <1>3, <2>1
<1>5. message \in Bytes /\ Len(message) = Len(front) + (Len(octets) + 1)
  BY <1>1, <1>4, ConcatBytes
<1>6. Len(front) \in Nat /\ Len(octets) \in Nat /\ header = Len(front)
  <2>1. Len(front) \in Nat /\ Len(octets) \in Nat
    BY <1>1 DEF Bytes
  <2> QED
    BY <1>5, <2>1
<1>7. SubSeq(message, 1, header) = front
  <2>1. SubSeq(front \o (octets \o mdc), 0 + 1, Len(front)) = SubSeq(front, 0 + 1, Len(front))
    BY <1>1, <1>4, <1>6, SubRunLeft
  <2> QED
    BY <1>1, <1>6, <2>1, WholeRun
<1>8. <<Piece(front)>> \in Seq(Pieces) /\ Cuts(<<Piece(front)>>, front, 0)
  BY <1>1, OnePiece
<1>9. <<Piece(mdc)>> \in Seq(Pieces) /\ Cuts(<<Piece(mdc)>>, mdc, 0)
  BY <1>3, OnePiece
<1>10. chunks \in Seq(Pieces) /\ Cuts(chunks, octets, 0)
  BY ChunkCuts
<1> DEFINE a == <<Piece(front)>>
           c == <<Piece(mdc)>>
<1> HIDE DEF a, c, chunks, header
<1>11. a \o chunks \in Seq(Pieces) /\ Cuts(a \o chunks, front \o octets, 0) /\ front \o octets \in Bytes
  <2>1. a \in Seq(Pieces) /\ Cuts(a, front, 0)
    BY <1>8 DEF a
  <2>2. \A p, q \in Seq(Pieces) : p \o q \in Seq(Pieces)
    OBVIOUS
  <2>3. Cuts(a \o chunks, front \o octets, 0)
    BY <1>1, <1>10, <2>1, CutsJoin
  <2>4. front \o octets \in Bytes
    BY <1>1, ConcatBytes
  <2> QED
    BY <1>10, <2>1, <2>2, <2>3, <2>4
<1> DEFINE ac == a \o chunks
           fo == front \o octets
<1> HIDE DEF ac, fo
<1>12. ac \o c \in Seq(Pieces) /\ Cuts(ac \o c, fo \o mdc, 0)
  <2>1. ac \in Seq(Pieces) /\ Cuts(ac, fo, 0) /\ fo \in Bytes
    BY <1>11 DEF ac, fo
  <2>2. c \in Seq(Pieces) /\ Cuts(c, mdc, 0)
    BY <1>9 DEF c
  <2>3. \A p, q \in Seq(Pieces) : p \o q \in Seq(Pieces)
    OBVIOUS
  <2>4. Cuts(ac \o c, fo \o mdc, 0)
    BY <1>3, <2>1, <2>2, CutsJoin
  <2> QED
    BY <2>1, <2>2, <2>3, <2>4
<1>13. (front \o octets) \o mdc = message
  BY <1>1, <1>3, ConcatAssoc
<1> QED
  BY <1>2, <1>5, <1>7, <1>12, <1>13 DEF a, c, ac, fo, message

\* The pieces compressLiteralToTempFile puts through the compressor.
LEMMA CompressCuts ==
    ASSUME NEW document \in Bytes
    PROVE  /\ compressLiteralToTempFile(document) \in Seq(Pieces)
           /\ CompressedLiteral(document) \in Bytes
           /\ Cuts(compressLiteralToTempFile(document), CompressedLiteral(document), 0)
<1> DEFINE packet == Packet(Literal, LiteralBody(document), Definite)
           header == Len(packet) - Len(document)
           chunks == ChunkPieces(Deflated(document))
<1>1. PICK front \in Bytes : packet = front \o document
  BY LiteralParts
<1>2. compressLiteralToTempFile(document) = <<Piece(Deflated(SubSeq(packet, 1, header)))>> \o chunks
  BY DEF compressLiteralToTempFile
<1>3. CompressedLiteral(document) = Deflated(packet)
  BY DEF CompressedLiteral
<1> HIDE DEF packet
<1>4. /\ packet \in Bytes /\ Len(packet) = Len(front) + Len(document)
      /\ Len(front) \in Nat /\ Len(document) \in Nat
  <2>1. Len(front) \in Nat /\ Len(document) \in Nat
    BY <1>1 DEF Bytes
  <2> QED
    BY <1>1, <2>1, ConcatBytes
<1>5. header = Len(front)
  BY <1>4
<1>6. SubSeq(packet, 1, header) = front
  <2>1. SubSeq(front \o document, 0 + 1, Len(front)) = SubSeq(front, 0 + 1, Len(front))
    BY <1>1, <1>4, SubRunLeft
  <2> QED
    BY <1>1, <1>5, <2>1, WholeRun
<1> DEFINE a == Deflated(front)
           d == Deflated(document)
           p == <<Piece(a)>>
<1>7. a \in Bytes /\ d \in Bytes /\ Deflated(packet) = a \o d /\ Deflated(packet) \in Bytes
  BY <1>1, <1>4, DeflatedBytes, DeflatedConcat
<1>8. chunks \in Seq(Pieces) /\ Cuts(chunks, d, 0)
  BY <1>7, ChunkCuts
<1> HIDE DEF a, d, chunks
<1>9. p \in Seq(Pieces) /\ Cuts(p, a, 0)
  BY <1>7, OnePiece
<1> HIDE DEF p
<1>10. p \o chunks \in Seq(Pieces)
  BY <1>8, <1>9
<1>11. Cuts(p \o chunks, a \o d, 0)
  BY <1>7, <1>8, <1>9, CutsJoin
<1> QED
  BY <1>2, <1>3, <1>6, <1>7, <1>10, <1>11 DEF p, a

LEMMA RequestTypes ==
    ASSUME NEW request \in Requests
    PROVE  /\ request = <<request[1], request[2]>> /\ request[1] \in FileCalls /\ request[2] \in Seq(Nat)
           /\ request[1] = "DecryptFile" <=> request = <<"DecryptFile", <<>>>>
<1>1. PICK op, recipients :
        /\ request = <<op, recipients>>
        /\ \/ op \in {"EncryptFile", "EncryptFileCompressed"} /\ recipients \in Recipients
           \/ op \in {"DecryptFile", "SignFile"} /\ recipients = <<>>
  <2> DEFINE E == {"EncryptFile", "EncryptFileCompressed"}
             D == {"DecryptFile", "SignFile"}
  <2> HIDE DEF E, D
  <2>1. request \in (E \X Recipients) \cup (D \X {<<>>})
    BY DEF Requests, E, D
  <2>2. CASE request \in E \X Recipients
    BY <2>2 DEF E
  <2>3. CASE request \in D \X {<<>>}
    BY <2>3 DEF D
  <2> QED
    BY <2>1, <2>2, <2>3
<1>2. request[1] = op /\ request[2] = recipients
  BY <1>1
<1>3. op \in FileCalls /\ recipients \in Seq(Nat)
  <2>1. op \in FileCalls
    BY <1>1 DEF FileCalls
  <2>2. Recipients \subseteq Seq(Nat) /\ <<>> \in Seq(Nat)
    BY PgpFileAssumption
  <2> QED
    BY <1>1, <2>1, <2>2
<1>4. op = "DecryptFile" => recipients = <<>>
  BY <1>1
<1> QED
  BY <1>1, <1>2, <1>3, <1>4

\* The right result of an encrypting call is the message around its input.
LEMMA EncryptResult ==
    ASSUME NEW recipients \in Seq(Nat), NEW octets \in Bytes
    PROVE  /\ Result(<<"EncryptFile", recipients>>, octets) =
                MessageAround(recipients, Literal, An("name", 0), octets)
           /\ Result(<<"EncryptFileCompressed", recipients>>, octets) =
                MessageAround(recipients, Compressed, An("algorithm", 1), CompressedLiteral(octets))
           /\ Result(<<"SignFile", recipients>>, octets) = <<An("signature", 0)>> \o octets
<1>1. octets # Absent
  BY PgpFileAssumption DEF Bytes
<1>2. NotCompressed = -1 /\ 1 # NotCompressed /\ 1 # 0
  BY DEF NotCompressed
<1> DEFINE m == Own(recipients, Len(octets), NotCompressed)
           n == Own(recipients, Len(octets), 1)
<1>3. MessageFor(m, octets) = MessageAround(recipients, Literal, An("name", 0), octets)
  <2>1. /\ m.recipients = recipients /\ m.literal = Definite /\ m.algorithm = NotCompressed
        /\ m.outer = Definite /\ m.mdcMatches = TRUE
    BY DEF Own
  <2> HIDE DEF m
  <2>2. OuterBody(m, octets) = SeipBody(Packet(Literal, <<An("name", 0)>> \o octets, Definite), TRUE)
    BY <2>1 DEF OuterBody, InnerTag, InnerBody, InnerFraming, LiteralBody
  <2> QED
    BY <2>1, <2>2 DEF MessageFor, MessageAround
<1>4. MessageFor(n, octets) =
        MessageAround(recipients, Compressed, An("algorithm", 1), CompressedLiteral(octets))
  <2>1. /\ n.recipients = recipients /\ n.literal = Definite /\ n.algorithm = 1
        /\ n.compressed = Definite /\ n.outer = Definite /\ n.mdcMatches = TRUE
    BY DEF Own
  <2> HIDE DEF n
  <2>2. InnerBody(n, octets) = <<An("algorithm", 1)>> \o CompressedLiteral(octets)
    BY <1>2, <2>1 DEF InnerBody, LiteralPacket, CompressedBody, CompressedLiteral
  <2>3. OuterBody(n, octets) =
          SeipBody(Packet(Compressed, <<An("algorithm", 1)>> \o CompressedLiteral(octets), Definite), TRUE)
    BY <1>2, <2>1, <2>2 DEF OuterBody, InnerTag, InnerFraming
  <2> QED
    BY <2>1, <2>3 DEF MessageFor, MessageAround
<1> HIDE DEF m, n
<1>5. Result(<<"EncryptFile", recipients>>, octets) = MessageFor(m, octets)
  BY <1>1 DEF Result, m
<1>6. Result(<<"EncryptFileCompressed", recipients>>, octets) = MessageFor(n, octets)
  BY <1>1 DEF Result, n
<1>7. Result(<<"SignFile", recipients>>, octets) = <<An("signature", 0)>> \o octets
  BY <1>1 DEF Result
<1> QED
  BY <1>3, <1>4, <1>5, <1>6, <1>7

LEMMA ResultType ==
    ASSUME NEW op \in FileCalls, NEW recipients \in Seq(Nat), NEW octets \in Stored
    PROVE  /\ Result(<<op, recipients>>, octets) \in Stored
           /\ op # "DecryptFile" /\ octets # Absent => Result(<<op, recipients>>, octets) \in Bytes
<1>1. CASE octets = Absent
  BY <1>1 DEF Result, Stored
<1>2. CASE octets \in Bytes /\ op = "DecryptFile"
  <2>1. octets # Absent
    BY <1>2, PgpFileAssumption DEF Bytes
  <2>2. Result(<<op, recipients>>, octets) =
          IF \E e \in IntactMessages : e.octets = octets
          THEN Document((CHOOSE e \in IntactMessages : e.octets = octets).message.size) ELSE Absent
    BY <1>2, <2>1 DEF Result
  <2>3. \A e \in IntactMessages : e.message.size \in Nat
    <3>1. \A m \in Messages : m.size \in Nat
      BY PgpFileAssumption DEF Messages, Own, MessageRecords
    <3> QED
      BY <3>1 DEF IntactMessages
  <2>4. \A e \in IntactMessages : Document(e.message.size) \in Bytes
    BY <2>3, DocumentBytes
  <2>5. CASE \E e \in IntactMessages : e.octets = octets
    <3>1. (CHOOSE e \in IntactMessages : e.octets = octets) \in IntactMessages
      BY <2>5
    <3> QED
      BY <1>2, <2>2, <2>4, <2>5, <3>1 DEF Stored
  <2> QED
    BY <1>2, <2>2, <2>5 DEF Stored
<1>3. CASE octets \in Bytes /\ op # "DecryptFile"
  <2>1. CompressedLiteral(octets) \in Bytes
    BY <1>3, CompressCuts
  <2>2. /\ MessageAround(recipients, Literal, An("name", 0), octets) \in Bytes
        /\ MessageAround(recipients, Compressed, An("algorithm", 1), CompressedLiteral(octets)) \in Bytes
        /\ <<An("signature", 0)>> \o octets \in Bytes
    BY <1>3, <2>1, MessageCuts, FirstOctets, ConcatBytes
  <2>3. op \in {"EncryptFile", "EncryptFileCompressed", "SignFile"}
    BY <1>3 DEF FileCalls
  <2> QED
    BY <1>3, <2>2, <2>3, EncryptResult DEF Stored
<1> QED
  BY <1>1, <1>2, <1>3 DEF Stored

-----------------------------------------------------------------------------
(* What all steps of a call have in common. *)

\* A step notes what went wrong, never what the call is.
SameCall ==
    /\ call' \in CallRecords
    /\ call'.op = call.op /\ call'.recipients = call.recipients
    /\ call'.input = call.input /\ call'.output = call.output
    /\ call'.source = call.source /\ call'.result = call.result
    /\ call'.old = call.old /\ call'.oldTemp = call.oldTemp

SameMarks == call'.created = call.created /\ call'.littered = call.littered

LEMMA FaultedCall ==
    ASSUME call \in CallRecords, Faulted \/ UNCHANGED call
    PROVE  SameCall /\ SameMarks
<1>1. CASE Faulted
  BY <1>1 DEF Faulted, SameCall, SameMarks, CallRecords
<1>2. CASE UNCHANGED call
  BY <1>2 DEF SameCall, SameMarks
<1> QED
  BY <1>1, <1>2

LEMMA CreatedCall ==
    ASSUME call \in CallRecords, call' = [call EXCEPT !.created = TRUE]
    PROVE  SameCall /\ call'.created
  BY DEF SameCall, CallRecords

LEMMA LitteredCall ==
    ASSUME call \in CallRecords, call' = [call EXCEPT !.littered = TRUE]
    PROVE  SameCall /\ call'.created = call.created /\ call'.littered
  BY DEF SameCall, CallRecords

LEMMA BusyCall ==
    ASSUME FileInv, pc # "idle"
    PROVE  /\ call \in CallRecords /\ calls > 0
           /\ call.result = Result(<<call.op, call.recipients>>, call.source)
           /\ call.op \in FileCalls /\ call.recipients \in Seq(Nat)
           /\ call.input \in Paths /\ call.output \in Paths
           /\ call.source \in Stored /\ call.result \in Stored
           /\ call.old \in Stored /\ call.oldTemp \in Stored
           /\ {call.created, call.littered} \subseteq BOOLEAN
<1>1. /\ call \in CallRecords /\ calls > 0
      /\ call.result = Result(<<call.op, call.recipients>>, call.source)
  BY DEF FileInv, CallInv
<1> QED
  BY <1>1 DEF CallRecords

\* The temporary file is none of the caller's.
LEMMA TempIsOther ==
    ASSUME NEW op, NEW output \in Paths
    PROVE  TempPath(op, output) \in AllPaths /\ TempPath(op, output) \notin Paths
<1>1. TempPath(op, output) \in Paths \X {"pgpztmp", "pgptmp"}
  BY DEF TempPath
<1> QED
  BY <1>1, PgpFileAssumption DEF AllPaths, TempPaths

LEMMA PathFacts ==
    ASSUME FileInv, pc # "idle"
    PROVE  /\ Temp \in AllPaths /\ call.input \in AllPaths /\ call.output \in AllPaths
           /\ Temp # call.input /\ Temp # call.output /\ Temp \notin Paths
<1>1. call.input \in Paths /\ call.output \in Paths
  BY BusyCall
<1>2. Temp \in AllPaths /\ Temp \notin Paths
  BY <1>1, TempIsOther DEF Temp
<1> QED
  BY <1>1, <1>2 DEF AllPaths

LEMMA SameTemp ==
    ASSUME SameCall
    PROVE  Temp' = Temp
  BY DEF SameCall, Temp

LEMMA NoFileIsNoBytes ==
    /\ <<>> \in Bytes /\ Absent \notin Bytes
    /\ \A b \in Bytes : b \in Stored /\ b # Absent
<1>1. Absent \notin Bytes
  BY PgpFileAssumption DEF Bytes
<1>2. <<>> \in Bytes
  BY DEF Bytes
<1> QED
  BY <1>1, <1>2 DEF Stored

LEMMA DiskPut ==
    ASSUME disk \in [AllPaths -> Stored], NEW path \in AllPaths, NEW value \in Stored,
           disk' = [disk EXCEPT ![path] = value]
    PROVE  /\ disk' \in [AllPaths -> Stored]
           /\ disk'[path] = value
           /\ \A p \in AllPaths : p # path => disk'[p] = disk[p]
  OBVIOUS

\* A step of a running call keeps the invariant if it keeps the types and arrives at
\* its next place in the way that place asks for.
LEMMA Arrives ==
    ASSUME FileInv, pc # "idle", SameCall, UNCHANGED calls,
           disk' \in [AllPaths -> Stored], pc' \in Places, status' \in Codes,
           todo' \in Seq(Pieces), reader' = NoReader \/ Running(reader'), PlaceInv'
    PROVE  FileInv'
<1>1. calls' \in 0 .. MaxCalls /\ calls' > 0
  BY BusyCall DEF FileInv, TypeInv
<1>2. TypeInv'
  BY <1>1 DEF TypeInv
<1>3. call'.result = Result(<<call'.op, call'.recipients>>, call'.source)
  BY BusyCall DEF SameCall
<1>4. CallInv'
  BY <1>1, <1>3 DEF CallInv, SameCall
<1> QED
  BY <1>2, <1>4 DEF FileInv

LEMMA InitFileInv ==
    ASSUME Init
    PROVE  FileInv
<1>1. disk \in [AllPaths -> Stored]
  <2>1. PICK files \in InitialDisks : disk = [p \in AllPaths |-> IF p \in Paths THEN files[p] ELSE Absent]
    BY DEF Init
  <2>2. files \in [Paths -> Stored]
    BY PgpFileAssumption DEF Stored, Bytes
  <2>3. \A p \in AllPaths : (IF p \in Paths THEN files[p] ELSE Absent) \in Stored
    BY <2>2 DEF Stored
  <2> QED
    BY <2>1, <2>3
<1>2. 0 \in 0 .. MaxCalls
  BY PgpFileAssumption
<1>3. TypeInv
  BY <1>1, <1>2 DEF Init, TypeInv, Places, Codes
<1>4. CallInv
  BY DEF Init, CallInv
<1>5. PlaceInv
  BY DEF Init, PlaceInv, NothingLeftBehind
<1> QED
  BY <1>3, <1>4, <1>5 DEF FileInv

LEMMA BeginKeeps ==
    ASSUME FileInv, NEW request \in Requests, NEW input \in Paths, NEW output \in Paths,
           Begin(request, input, output)
    PROVE  FileInv'
<1> DEFINE op == request[1]
           recipients == request[2]
           temp == TempPath(op, output)
           source == disk[input]
           result == Result(request, source)
           old == disk[output]
           oldTemp == disk[temp]
<1>1. request = <<op, recipients>> /\ op \in FileCalls /\ recipients \in Seq(Nat)
  BY RequestTypes
<1>2. input \in AllPaths /\ output \in AllPaths /\ temp \in AllPaths
  BY TempIsOther DEF AllPaths
<1>3. source \in Stored /\ old \in Stored /\ oldTemp \in Stored
  BY <1>2 DEF FileInv, TypeInv
<1>4. result \in Stored /\ result = Result(<<op, recipients>>, source)
  BY <1>1, <1>3, ResultType
<1>5. call' = [op |-> op, recipients |-> recipients, input |-> input, output |-> output,
               source |-> source, result |-> result, old |-> old, oldTemp |-> oldTemp,
               created |-> FALSE, faulted |-> FALSE, littered |-> FALSE]
  BY DEF Begin
<1>6. pc' = "open" /\ status' = "NO_ERROR" /\ calls' = calls + 1 /\ UNCHANGED <<disk, todo, reader>>
      /\ calls < MaxCalls
  BY DEF Begin
<1> HIDE DEF op, recipients, source, result, old, oldTemp
<1>7. /\ call' \in CallRecords /\ call'.op = op /\ call'.recipients = recipients /\ call'.input = input
      /\ call'.output = output /\ call'.source = source /\ call'.result = result /\ call'.old = old
      /\ call'.oldTemp = oldTemp /\ call'.created = FALSE
  BY <1>1, <1>3, <1>4, <1>5 DEF CallRecords
<1>8. calls' \in 0 .. MaxCalls /\ calls' > 0
  BY <1>6, PgpFileAssumption DEF FileInv, TypeInv
<1>9. TypeInv'
  BY <1>6, <1>8 DEF FileInv, TypeInv, Places, Codes
<1>10. CallInv'
  BY <1>4, <1>7, <1>8 DEF CallInv
<1>11. Temp' = temp
  BY <1>7 DEF Temp
<1>12. PlaceInv'
  BY <1>6, <1>7, <1>11 DEF PlaceInv, Untouched, NoTemp, source, old, oldTemp
<1> QED
  BY <1>9, <1>10, <1>12 DEF FileInv

\* The process dies at any place.
LEMMA CrashKeeps ==
    ASSUME FileInv, Crash
    PROVE  FileInv'
<1>1. pc # "idle" /\ pc' = "idle" /\ status' = "CRASHED" /\ UNCHANGED <<disk, call, calls>>
      /\ todo' = <<>> /\ reader' = NoReader
  BY DEF Crash, Return, Goto
<1>2. call \in CallRecords
  BY <1>1, BusyCall
<1>3. SameCall
  BY <1>1, <1>2 DEF SameCall
<1>4. disk' \in [AllPaths -> Stored] /\ todo' \in Seq(Pieces)
  BY <1>1 DEF FileInv, TypeInv
<1>5. pc' \in Places /\ status' \in Codes
  BY <1>1 DEF Places, Codes
<1>6. PlaceInv'
  BY <1>1 DEF PlaceInv, NothingLeftBehind
<1> QED
  BY <1>1, <1>3, <1>4, <1>5, <1>6, Arrives

\* A call that returns from where nothing has been touched leaves nothing behind.
LEMMA ReturnsUntouched ==
    ASSUME FileInv, pc # "idle", SameCall, UNCHANGED <<disk, calls>>, pc' = "idle", status' \in Codes,
           Untouched, NoTemp, todo' \in Seq(Pieces), reader' = NoReader \/ Running(reader')
    PROVE  FileInv'
<1>1. disk' \in [AllPaths -> Stored] /\ pc' \in Places
  BY DEF FileInv, TypeInv, Places
<1>2. Temp' = Temp
  BY SameTemp
<1>3. NothingLeftBehind'
  BY <1>2 DEF NothingLeftBehind, Untouched, NoTemp, SameCall
<1>4. PlaceInv'
  BY <1>3 DEF PlaceInv
<1> QED
  BY <1>1, <1>4, Arrives

LEMMA OpenKeeps ==
    ASSUME FileInv, Open
    PROVE  FileInv'
<1>1. pc = "open" /\ pc # "idle" /\ UNCHANGED disk /\ (Faulted \/ UNCHANGED call)
  BY DEF Open
<1>2. Untouched /\ NoTemp /\ disk[call.input] = call.source
  BY <1>1 DEF FileInv, PlaceInv
<1>3. SameCall /\ SameMarks
  BY <1>1, BusyCall, FaultedCall
<1>4. Temp' = Temp
  BY <1>3, SameTemp
<1>5. disk' \in [AllPaths -> Stored] /\ call.input \in AllPaths
  BY <1>1, PathFacts DEF FileInv, TypeInv
<1>6. ASSUME NEW code \in Codes, Return(code)
      PROVE  FileInv'
  <2>1. pc' = "idle" /\ status' = code /\ UNCHANGED calls /\ todo' = <<>> /\ reader' = NoReader
    BY <1>6 DEF Return, Goto
  <2>2. todo' \in Seq(Pieces)
    BY <2>1
  <2> QED
    BY <1>1, <1>2, <1>3, <2>1, <2>2, ReturnsUntouched
<1>7. {"INVALID_ARGUMENT", "FILE_IO_ERROR", "OPERATION_CANCELLED", "UNEXPECTED_ERROR", "INVALID_DATA",
       "NO_ERROR"} \subseteq Codes
  BY DEF Codes
<1>8. CASE /\ disk[call.input] # Absent /\ call.op = "DecryptFile"
           /\ parseEncryptedFileHeader(disk[call.input]).ok
           /\ reader' = parseEncryptedFileHeader(disk[call.input])
           /\ Goto("createTemp", "NO_ERROR")
           /\ UNCHANGED <<call, todo>>
  <2>1. disk[call.input] \in Bytes
    BY <1>1, <1>5, <1>8 DEF Stored
  <2>2. Running(reader')
    BY <1>8, <2>1, HeaderStarts
  <2>3. pc' = "createTemp" /\ status' = "NO_ERROR" /\ UNCHANGED <<calls, call, todo, disk>>
    BY <1>1, <1>8 DEF Goto
  <2>4. PlaceInv'
    BY <1>2, <1>4, <1>8, <2>2, <2>3 DEF PlaceInv, Untouched, NoTemp, InputKept
  <2>5. todo' \in Seq(Pieces) /\ pc' \in Places /\ status' \in Codes
    BY <1>7, <2>3 DEF FileInv, TypeInv, Places
  <2> QED
    BY <1>1, <1>3, <1>5, <2>2, <2>3, <2>4, <2>5, Arrives
<1>9. CASE /\ disk[call.input] # Absent /\ call.op # "DecryptFile"
           /\ Goto(IF call.op = "EncryptFileCompressed" THEN "createTemp" ELSE "createOutput", "NO_ERROR")
           /\ UNCHANGED <<call, todo, reader>>
  <2>1. /\ pc' = IF call.op = "EncryptFileCompressed" THEN "createTemp" ELSE "createOutput"
        /\ status' = "NO_ERROR" /\ UNCHANGED <<calls, call, todo, disk, reader>>
    BY <1>1, <1>9 DEF Goto
  <2>2. PlaceInv'
    BY <1>2, <1>4, <1>9, <2>1 DEF PlaceInv, Untouched, NoTemp, InputKept
  <2>3. todo' \in Seq(Pieces) /\ pc' \in Places /\ status' \in Codes /\ (reader' = NoReader \/ Running(reader'))
    BY <1>7, <2>1 DEF FileInv, TypeInv, Places
  <2> QED
    BY <1>1, <1>3, <1>5, <2>1, <2>2, <2>3, Arrives
<1> QED
  BY <1>1, <1>6, <1>7, <1>8, <1>9 DEF Open

\* A new file that nothing was written to yet.
LEMMA StartsGrowing ==
    ASSUME NEW path, NEW target \in Bytes, disk'[path] = <<>>, Cuts(todo', target, 0)
    PROVE  /\ disk'[path] \in Bytes
           /\ Len(disk'[path]) <= Len(target)
           /\ disk'[path] = SubSeq(target, 1, Len(disk'[path]))
           /\ Cuts(todo', target, Len(disk'[path]))
<1>1. <<>> \in Bytes /\ Len(<<>>) = 0 /\ Len(target) \in Nat /\ SubSeq(target, 1, 0) = <<>>
  BY DEF Bytes
<1> QED
  BY <1>1

LEMMA CreateTempKeeps ==
    ASSUME FileInv, CreateTemp
    PROVE  FileInv'
<1>1. pc = "createTemp" /\ pc # "idle"
  BY DEF CreateTemp
<1>2. /\ Untouched /\ NoTemp /\ InputKept
      /\ call.op = "EncryptFileCompressed" \/ (call.op = "DecryptFile" /\ Running(reader))
  BY <1>1 DEF FileInv, PlaceInv
<1>3. /\ disk \in [AllPaths -> Stored] /\ todo \in Seq(Pieces) /\ call \in CallRecords
      /\ (reader = NoReader \/ Running(reader))
  BY <1>1, BusyCall DEF FileInv, TypeInv
<1>4. CASE /\ Faulted /\ UNCHANGED <<disk, todo, reader>>
           /\ Goto(IF call.op = "DecryptFile" THEN "idle" ELSE "removeTemp", "FILE_IO_ERROR")
  <2>1. SameCall /\ SameMarks
    BY <1>3, <1>4, FaultedCall
  <2>2. /\ pc' = IF call.op = "DecryptFile" THEN "idle" ELSE "removeTemp"
        /\ status' = "FILE_IO_ERROR" /\ UNCHANGED <<calls, disk, todo, reader>> /\ status' \in Codes
    BY <1>4 DEF Goto, Codes
  <2>3. CASE call.op = "DecryptFile"
    BY <1>1, <1>2, <1>3, <2>1, <2>2, <2>3, ReturnsUntouched
  <2>4. CASE call.op = "EncryptFileCompressed"
    <3>1. pc' = "removeTemp" /\ pc' \in Places
      BY <2>2, <2>4 DEF Places
    <3>2. PlaceInv'
      BY <1>2, <2>1, <2>2, <2>4, <3>1 DEF PlaceInv, Untouched, OldOrGone, SameCall, SameMarks
    <3> QED
      BY <1>1, <1>3, <2>1, <2>2, <3>1, <3>2, Arrives
  <2> QED
    BY <1>2, <2>3, <2>4
<1>5. CASE /\ disk' = [disk EXCEPT ![Temp] = <<>>]
           /\ todo' = IF call.op = "DecryptFile" THEN <<>>
                      ELSE compressLiteralToTempFile(disk[call.input])
           /\ Goto(IF call.op = "DecryptFile" THEN "decrypt" ELSE "compress", "NO_ERROR")
           /\ UNCHANGED <<call, reader>>
  <2>1. SameCall /\ SameMarks /\ Temp' = Temp
    BY <1>3, <1>5, FaultedCall, SameTemp
  <2>2. /\ pc' = IF call.op = "DecryptFile" THEN "decrypt" ELSE "compress"
        /\ status' = "NO_ERROR" /\ UNCHANGED <<calls, call, reader>> /\ status' \in Codes
    BY <1>5 DEF Goto, Codes
  <2>3. <<>> \in Stored /\ <<>> # Absent
    BY NoFileIsNoBytes
  <2>4. /\ Temp \in AllPaths /\ call.output \in AllPaths /\ call.input \in AllPaths
        /\ call.output # Temp /\ call.input # Temp
    BY <1>1, PathFacts
  <2>5. /\ disk' \in [AllPaths -> Stored] /\ disk'[Temp] = <<>>
        /\ disk'[call.output] = disk[call.output] /\ disk'[call.input] = disk[call.input]
    BY <1>3, <1>5, <2>3, <2>4, DiskPut
  <2>6. CASE call.op = "DecryptFile"
    <3>1. pc' = "decrypt" /\ pc' \in Places /\ todo' = <<>> /\ todo' \in Seq(Pieces)
      BY <1>5, <2>2, <2>6 DEF Places
    <3>2. Running(reader')
      BY <1>2, <2>2, <2>6
    <3>3. Untouched' /\ disk'[Temp'] # Absent /\ call'.op = "DecryptFile"
      BY <1>2, <2>1, <2>2, <2>3, <2>5, <2>6 DEF Untouched
    <3>4. PlaceInv'
      BY <3>1, <3>2, <3>3 DEF PlaceInv
    <3> QED
      BY <1>1, <2>1, <2>2, <2>5, <3>1, <3>2, <3>4, Arrives
  <2>7. CASE call.op = "EncryptFileCompressed"
    <3>1. pc' = "compress" /\ pc' \in Places
      BY <2>2, <2>7 DEF Places
    <3>2. call.source \in Bytes /\ todo' = compressLiteralToTempFile(call.source)
      BY <1>1, <1>2, <1>5, <2>7, BusyCall DEF InputKept, Stored
    <3>3. /\ todo' \in Seq(Pieces) /\ CompressedLiteral(call.source) \in Bytes
          /\ Cuts(todo', CompressedLiteral(call.source), 0)
      BY <3>2, CompressCuts
    <3>4. Growing(Temp, CompressedLiteral(call.source))'
      BY <2>1, <2>2, <2>5, <3>3, StartsGrowing DEF Growing
    <3>5. Untouched' /\ InputKept' /\ call'.op = "EncryptFileCompressed"
      BY <1>2, <2>2, <2>5, <2>7 DEF Untouched, InputKept
    <3>6. PlaceInv'
      BY <3>1, <3>4, <3>5 DEF PlaceInv
    <3> QED
      BY <1>1, <1>3, <2>1, <2>2, <2>5, <3>1, <3>3, <3>6, Arrives
  <2> QED
    BY <1>2, <2>6, <2>7
<1> QED
  BY <1>1, <1>4, <1>5 DEF CreateTemp

LEMMA CreateOutputKeeps ==
    ASSUME FileInv, CreateOutput
    PROVE  FileInv'
<1>1. pc = "createOutput" /\ pc # "idle"
  BY DEF CreateOutput
<1>2. /\ call.op # "DecryptFile" /\ Untouched /\ InputKept
      /\ call.op = "EncryptFileCompressed" => disk[Temp] = CompressedLiteral(call.source)
      /\ call.op # "EncryptFileCompressed" => NoTemp
  BY <1>1 DEF FileInv, PlaceInv
<1>3. /\ disk \in [AllPaths -> Stored] /\ todo \in Seq(Pieces) /\ call \in CallRecords
      /\ (reader = NoReader \/ Running(reader))
  BY <1>1, BusyCall DEF FileInv, TypeInv
<1>4. call.op \in {"EncryptFile", "EncryptFileCompressed", "SignFile"}
  BY <1>1, <1>2, BusyCall DEF FileCalls
<1>5. CASE /\ IF call.output = call.input THEN UNCHANGED call ELSE Faulted
           /\ UNCHANGED <<disk, todo, reader>>
           /\ Goto(IF call.op = "EncryptFileCompressed" THEN "removeTemp" ELSE "idle", "FILE_IO_ERROR")
  <2>1. SameCall /\ SameMarks
    BY <1>3, <1>5, FaultedCall
  <2>2. /\ pc' = IF call.op = "EncryptFileCompressed" THEN "removeTemp" ELSE "idle"
        /\ status' = "FILE_IO_ERROR" /\ UNCHANGED <<calls, disk, todo, reader>> /\ status' \in Codes
    BY <1>5 DEF Goto, Codes
  <2>3. CASE call.op # "EncryptFileCompressed"
    BY <1>1, <1>2, <1>3, <2>1, <2>2, <2>3, ReturnsUntouched
  <2>4. CASE call.op = "EncryptFileCompressed"
    <3>1. pc' = "removeTemp" /\ pc' \in Places
      BY <2>2, <2>4 DEF Places
    <3>2. PlaceInv'
      BY <1>2, <2>1, <2>2, <2>4, <3>1 DEF PlaceInv, Untouched, OldOrGone, SameCall, SameMarks
    <3> QED
      BY <1>1, <1>3, <2>1, <2>2, <3>1, <3>2, Arrives
  <2> QED
    BY <2>3, <2>4
<1>6. CASE /\ disk' = [disk EXCEPT ![call.output] = <<>>]
           /\ todo' = CASE call.op = "EncryptFile" -> encryptFileStreaming(disk[call.input])
                        [] call.op = "EncryptFileCompressed" -> encryptFileStreamingCompressed(disk[Temp])
                        [] call.op = "SignFile" -> signFileStreaming(disk[call.input])
           /\ call' = [call EXCEPT !.created = TRUE]
           /\ Goto("write", "NO_ERROR")
           /\ UNCHANGED reader
  <2> DEFINE recipients == call.recipients
             source == call.source
             result == call.result
  <2>1. SameCall /\ call'.created /\ Temp' = Temp
    BY <1>3, <1>6, CreatedCall, SameTemp
  <2>2. pc' = "write" /\ status' = "NO_ERROR" /\ UNCHANGED <<calls, reader>> /\ status' \in Codes /\ pc' \in Places
    BY <1>6 DEF Goto, Codes, Places
  <2>3. /\ recipients \in Seq(Nat) /\ source \in Bytes /\ disk[call.input] = source
        /\ result = Result(<<call.op, recipients>>, source)
    BY <1>1, <1>2, BusyCall DEF InputKept, Stored
  <2>4. Temp \in AllPaths /\ call.output \in AllPaths /\ call.output # Temp
    BY <1>1, PathFacts
  <2>5. disk' \in [AllPaths -> Stored] /\ disk'[call.output] = <<>> /\ disk'[Temp] = disk[Temp]
    BY <1>3, <1>6, <2>4, NoFileIsNoBytes, DiskPut
  <2>6. todo' \in Seq(Pieces) /\ result \in Bytes /\ Cuts(todo', result, 0)
    <3>1. CASE call.op = "EncryptFile"
      <4>1. todo' = MessagePieces(recipients, Literal, An("name", 0), source)
        BY <1>6, <2>3, <3>1 DEF encryptFileStreaming
      <4>2. result = MessageAround(recipients, Literal, An("name", 0), source)
        BY <2>3, <3>1, EncryptResult
      <4> QED
        BY <2>3, <4>1, <4>2, FirstOctets, MessageCuts
    <3>2. CASE call.op = "EncryptFileCompressed"
      <4>1. todo' = MessagePieces(recipients, Compressed, An("algorithm", 1), CompressedLiteral(source))
        BY <1>2, <1>6, <2>3, <3>2 DEF encryptFileStreamingCompressed
      <4>2. result = MessageAround(recipients, Compressed, An("algorithm", 1), CompressedLiteral(source))
        BY <2>3, <3>2, EncryptResult
      <4>3. CompressedLiteral(source) \in Bytes
        BY <2>3, CompressCuts
      <4> QED
        BY <2>3, <4>1, <4>2, <4>3, FirstOctets, MessageCuts
    <3>3. CASE call.op = "SignFile"
      <4>1. todo' = <<Piece(<<An("signature", 0)>> \o source)>>
        BY <1>6, <2>3, <3>3 DEF signFileStreaming
      <4>2. result = <<An("signature", 0)>> \o source
        BY <2>3, <3>3, EncryptResult
      <4>3. result \in Bytes
        BY <2>3, <4>2, FirstOctets, ConcatBytes
      <4> QED
        BY <4>1, <4>2, <4>3, OnePiece
    <3> QED
      BY <1>4, <3>1, <3>2, <3>3
  <2>7. Growing(call.output, call.result)'
    <3>1. call'.output = call.output /\ call'.result = call.result
      BY <2>1 DEF SameCall
    <3> QED
      BY <2>5, <2>6, <3>1, StartsGrowing DEF Growing
  <2>8. call'.result # Absent /\ call'.op # "DecryptFile"
    BY <1>2, <2>1, <2>6, NoFileIsNoBytes DEF SameCall
  <2>9. call'.op # "EncryptFileCompressed" => NoTemp'
    BY <1>2, <2>1, <2>5 DEF NoTemp, SameCall
  <2>10. PlaceInv'
    BY <2>1, <2>2, <2>7, <2>8, <2>9 DEF PlaceInv
  <2> QED
    BY <1>1, <1>3, <2>1, <2>2, <2>5, <2>6, <2>10, Arrives
<1> QED
  BY <1>1, <1>5, <1>6 DEF CreateOutput

-----------------------------------------------------------------------------
(* Writing a piece. *)

\* Where a growing file stands after a piece, or a part of one.
LEMMA GrowsBy ==
    ASSUME NEW path \in AllPaths, NEW target \in Bytes, disk \in [AllPaths -> Stored],
           Growing(path, target), todo \in Seq(Pieces), todo # <<>>
    PROVE  /\ Head(todo).octets \in Bytes
           /\ disk[path] \o Head(todo).octets \in Bytes
           /\ Len(disk[path] \o Head(todo).octets) <= Len(target)
           /\ disk[path] \o Head(todo).octets = SubSeq(target, 1, Len(disk[path] \o Head(todo).octets))
           /\ Cuts(Tail(todo), target, Len(disk[path] \o Head(todo).octets))
           /\ \A k \in 0 .. Len(Head(todo).octets) - 1 :
                 /\ disk[path] \o SubSeq(Head(todo).octets, 1, k) \in Bytes
                 /\ \E n \in 0 .. Len(target) :
                       disk[path] \o SubSeq(Head(todo).octets, 1, k) = SubSeq(target, 1, n)
<1> DEFINE from == Len(disk[path])
           octets == Head(todo).octets
           shown == disk[path]
<1>1. /\ shown \in Bytes /\ from \in Nat /\ from <= Len(target) /\ shown = SubSeq(target, 1, from)
      /\ Cuts(todo, target, from) /\ Len(target) \in Nat
  <2>1. \A b \in Bytes : Len(b) \in Nat
    BY DEF Bytes
  <2> QED
    BY <2>1 DEF Growing
<1>2. PICK to \in Nat : /\ from <= to /\ to <= Len(target)
                        /\ octets = SubSeq(target, from + 1, to)
                        /\ Cuts(Tail(todo), target, to)
  BY <1>1, CutsNext
<1> HIDE DEF from, octets, shown
<1>3. octets \in Bytes /\ Len(octets) = to - from
  BY <1>1, <1>2, SubRun
<1>4. shown \o octets = SubSeq(target, 1, to)
  BY <1>1, <1>2, MeetingRuns
<1>5. shown \o octets \in Bytes /\ Len(shown \o octets) = to
  <2>1. to \in 0 .. Len(target)
    BY <1>1, <1>2
  <2> QED
    BY <1>4, <2>1, TakeFacts
<1>6. ASSUME NEW k \in 0 .. Len(octets) - 1
      PROVE  /\ shown \o SubSeq(octets, 1, k) \in Bytes
             /\ \E n \in 0 .. Len(target) : shown \o SubSeq(octets, 1, k) = SubSeq(target, 1, n)
  <2> DEFINE n == from + k
  <2>1. n \in Nat /\ n \in 0 .. Len(target) /\ k \in Nat /\ from <= n /\ n <= to /\ k <= Len(octets) /\ n - from = k
    BY <1>1, <1>2, <1>3
  <2>2. SubSeq(octets, 1, k) = SubSeq(target, from + 1, n)
    <3> DEFINE a == SubSeq(octets, 1, k)
               b == SubSeq(target, from + 1, n)
    <3> HIDE DEF n
    <3>1. a \in Bytes /\ Len(a) = k /\ \A i \in 1 .. k : a[i] = octets[i]
      BY <1>3, <2>1 DEF Bytes
    <3>2. b \in Bytes /\ Len(b) = k /\ \A i \in 1 .. k : b[i] = target[from + i]
      <4>1. n <= Len(target)
        BY <2>1
      <4>2. b \in Bytes /\ Len(b) = n - from /\ \A i \in 1 .. n - from : b[i] = target[from + i]
        BY <1>1, <2>1, <4>1, SubRun
      <4> QED
        BY <2>1, <4>2
    <3>3. \A i \in 1 .. k : octets[i] = target[from + i]
      <4>1. \A i \in 1 .. to - from : octets[i] = target[from + i]
        BY <1>1, <1>2, SubRun
      <4>2. \A i \in 1 .. k : i \in 1 .. to - from
        BY <1>1, <1>2, <1>3, <2>1
      <4> QED
        BY <4>1, <4>2
    <3> HIDE DEF a, b
    <3>4. a = b
      BY <3>1, <3>2, <3>3, EqualRuns
    <3> QED
      BY <3>4 DEF a, b
  <2> HIDE DEF n
  <2>3. shown \o SubSeq(octets, 1, k) = SubSeq(target, 1, n)
    <3>1. n <= Len(target)
      BY <1>1, <2>1
    <3> QED
      BY <1>1, <2>1, <2>2, <3>1, MeetingRuns
  <2>4. SubSeq(target, 1, n) \in Bytes
    BY <2>1, TakeFacts
  <2> QED
    BY <2>1, <2>3, <2>4
<1> QED
  BY <1>2, <1>3, <1>4, <1>5, <1>6 DEF from, octets, shown

\* WritePiece leaves a prefix of the target, and the rest of it or a failure ahead.
LEMMA PieceWritten ==
    ASSUME NEW path \in AllPaths, NEW target \in Bytes, disk \in [AllPaths -> Stored],
           Growing(path, target), todo \in Seq(Pieces), WritePiece(path)
    PROVE  /\ UNCHANGED <<reader, calls>>
           /\ \E value \in Bytes :
                 /\ disk' = [disk EXCEPT ![path] = value]
                 /\ \E n \in 0 .. Len(target) : value = SubSeq(target, 1, n)
                 /\ \/ /\ UNCHANGED call /\ pc' = pc /\ status' = "NO_ERROR"
                       /\ todo' \in Seq(Pieces)
                       /\ Len(value) <= Len(target) /\ value = SubSeq(target, 1, Len(value))
                       /\ Cuts(todo', target, Len(value))
                    \/ /\ Faulted /\ pc' = CleanUp /\ status' \in WriteErrors /\ todo' = <<>>
<1> DEFINE octets == Head(todo).octets
           whole == disk[path] \o octets
<1>1. todo # <<>> /\ UNCHANGED <<reader, calls>>
  BY DEF WritePiece, Goto
<1>2. /\ octets \in Bytes /\ whole \in Bytes /\ Len(whole) <= Len(target)
      /\ whole = SubSeq(target, 1, Len(whole)) /\ Cuts(Tail(todo), target, Len(whole))
      /\ \A k \in 0 .. Len(octets) - 1 :
            /\ disk[path] \o SubSeq(octets, 1, k) \in Bytes
            /\ \E n \in 0 .. Len(target) : disk[path] \o SubSeq(octets, 1, k) = SubSeq(target, 1, n)
  BY <1>1, GrowsBy
<1>3. \E n \in 0 .. Len(target) : whole = SubSeq(target, 1, n)
  <2>1. Len(whole) \in 0 .. Len(target)
    <3>1. Len(whole) \in Nat /\ Len(target) \in Nat
      <4> HIDE DEF whole
      <4> QED
        BY <1>2 DEF Bytes
    <3> QED
      BY <1>2, <3>1
  <2> QED
    BY <1>2, <2>1
<1>4. Extend(path, octets) => disk' = [disk EXCEPT ![path] = whole]
  BY DEF Extend
<1>5. CASE Extend(path, octets) /\ todo' = Tail(todo) /\ Goto(pc, "NO_ERROR") /\ UNCHANGED call
  <2>1. todo' \in Seq(Pieces) /\ pc' = pc /\ status' = "NO_ERROR"
    BY <1>1, <1>5 DEF Goto
  <2> HIDE DEF whole
  <2> QED
    BY <1>1, <1>2, <1>3, <1>4, <1>5, <2>1
<1>6. CASE /\ TornWrite(path, octets) /\ todo' = <<>> /\ Faulted
           /\ \E code \in {"FILE_IO_ERROR", "UNEXPECTED_ERROR"} : Goto(CleanUp, code)
  <2>1. PICK k \in 0 .. Len(octets) - 1 : Extend(path, SubSeq(octets, 1, k))
    BY <1>6 DEF TornWrite
  <2> DEFINE part == disk[path] \o SubSeq(octets, 1, k)
  <2>2. disk' = [disk EXCEPT ![path] = part]
    BY <2>1 DEF Extend
  <2>3. pc' = CleanUp /\ status' \in WriteErrors
    BY <1>6 DEF Goto, WriteErrors
  <2>4. part \in Bytes /\ \E n \in 0 .. Len(target) : part = SubSeq(target, 1, n)
    BY <1>2, <2>1
  <2> HIDE DEF part
  <2> QED
    BY <1>1, <1>6, <2>2, <2>3, <2>4
<1>7. CASE /\ Extend(path, octets) /\ todo' = <<>> /\ Faulted
           /\ \E code \in Interruptions : Goto(CleanUp, code)
  <2>1. pc' = CleanUp /\ status' \in WriteErrors
    BY <1>7 DEF Goto, WriteErrors, Interruptions
  <2> HIDE DEF whole
  <2> QED
    BY <1>1, <1>2, <1>3, <1>4, <1>7, <2>1
<1> QED
  BY <1>1, <1>5, <1>6, <1>7 DEF WritePiece

LEMMA CompressKeeps ==
    ASSUME FileInv, Compress
    PROVE  FileInv'
<1> DEFINE target == CompressedLiteral(call.source)
<1>1. pc = "compress" /\ pc # "idle"
  BY DEF Compress
<1>2. call.op = "EncryptFileCompressed" /\ Untouched /\ InputKept /\ Growing(Temp, target)
  BY <1>1 DEF FileInv, PlaceInv
<1>3. /\ disk \in [AllPaths -> Stored] /\ todo \in Seq(Pieces) /\ call \in CallRecords
      /\ (reader = NoReader \/ Running(reader))
  BY <1>1, BusyCall DEF FileInv, TypeInv
<1>4. target \in Bytes
  <2>1. call.source \in Bytes
    BY <1>1, <1>2, BusyCall DEF InputKept, Stored
  <2> QED
    BY <2>1, CompressCuts
<1>5. /\ Temp \in AllPaths /\ call.output \in AllPaths /\ call.input \in AllPaths
      /\ call.output # Temp /\ call.input # Temp
  BY <1>1, PathFacts
<1> HIDE DEF target
<1>6. CASE WritePiece(Temp)
  <2>1. UNCHANGED <<reader, calls>>
    BY <1>2, <1>3, <1>4, <1>5, <1>6, PieceWritten
  <2>2. PICK value \in Bytes :
          /\ disk' = [disk EXCEPT ![Temp] = value]
          /\ \/ /\ UNCHANGED call /\ pc' = pc /\ status' = "NO_ERROR"
                /\ todo' \in Seq(Pieces)
                /\ Len(value) <= Len(target) /\ value = SubSeq(target, 1, Len(value))
                /\ Cuts(todo', target, Len(value))
             \/ /\ Faulted /\ pc' = CleanUp /\ status' \in WriteErrors /\ todo' = <<>>
    BY <1>2, <1>3, <1>4, <1>5, <1>6, PieceWritten
  <2>3. SameCall /\ SameMarks /\ Temp' = Temp
    BY <1>3, <2>2, FaultedCall, SameTemp
  <2>4. /\ disk' \in [AllPaths -> Stored] /\ disk'[Temp] = value
        /\ disk'[call.output] = disk[call.output] /\ disk'[call.input] = disk[call.input]
    BY <1>3, <1>5, <2>2, NoFileIsNoBytes, DiskPut
  <2>5. Untouched' /\ InputKept'
    BY <1>2, <2>3, <2>4 DEF Untouched, InputKept, SameCall, SameMarks
  <2>6. todo' \in Seq(Pieces) /\ status' \in Codes
    <3>1. WriteErrors \subseteq Codes /\ "NO_ERROR" \in Codes
      BY DEF Codes, WriteErrors
    <3>2. <<>> \in Seq(Pieces)
      OBVIOUS
    <3> QED
      BY <2>2, <3>1, <3>2
  <2>7. CASE pc' = pc /\ UNCHANGED call /\ Len(value) <= Len(target) /\ value = SubSeq(target, 1, Len(value))
             /\ Cuts(todo', target, Len(value))
    <3>1. Growing(Temp, CompressedLiteral(call.source))'
      BY <2>3, <2>4, <2>7 DEF Growing, target
    <3>2. PlaceInv'
      BY <1>1, <1>2, <2>5, <2>7, <3>1 DEF PlaceInv
    <3> QED
      BY <1>1, <1>3, <2>1, <2>3, <2>4, <2>6, <2>7, <3>2, Arrives DEF Places
  <2>8. CASE pc' = CleanUp /\ status' \in WriteErrors
    <3>1. pc' = "removeTemp" /\ status' # "NO_ERROR"
      BY <1>2, <2>8 DEF CleanUp, WriteErrors
    <3>2. PlaceInv'
      BY <1>2, <2>3, <2>5, <3>1 DEF PlaceInv, Untouched, OldOrGone, SameCall
    <3> QED
      BY <1>1, <1>3, <2>1, <2>3, <2>4, <2>6, <3>1, <3>2, Arrives DEF Places
  <2> QED
    BY <2>2, <2>7, <2>8
<1>7. CASE todo = <<>> /\ Goto("createOutput", "NO_ERROR") /\ UNCHANGED <<disk, call, todo, reader>>
  <2>1. /\ pc' = "createOutput" /\ status' = "NO_ERROR" /\ UNCHANGED <<disk, call, todo, reader, calls>>
        /\ SameCall /\ Temp' = Temp
    BY <1>3, <1>7, FaultedCall, SameTemp DEF Goto
  <2>2. disk[Temp] = target
    <3>1. Len(disk[Temp]) = Len(target) /\ disk[Temp] = SubSeq(target, 1, Len(disk[Temp]))
      BY <1>2, <1>7, CutsEnd DEF Growing
    <3> QED
      BY <1>4, <3>1, WholeRun
  <2>3. PlaceInv'
    BY <1>2, <2>1, <2>2 DEF PlaceInv, Untouched, InputKept, target
  <2>4. disk' \in [AllPaths -> Stored] /\ todo' \in Seq(Pieces) /\ pc' \in Places /\ status' \in Codes
        /\ (reader' = NoReader \/ Running(reader'))
    BY <1>3, <2>1 DEF Places, Codes
  <2> QED
    BY <1>1, <2>1, <2>3, <2>4, Arrives
<1>8. CASE Faulted /\ Goto("removeTemp", "FILE_IO_ERROR") /\ UNCHANGED <<disk, todo, reader>>
  <2>1. /\ pc' = "removeTemp" /\ status' = "FILE_IO_ERROR" /\ UNCHANGED <<disk, todo, reader, calls>>
        /\ SameCall /\ SameMarks
    BY <1>3, <1>8, FaultedCall DEF Goto
  <2>2. PlaceInv'
    BY <1>2, <2>1 DEF PlaceInv, Untouched, OldOrGone, SameCall, SameMarks
  <2>3. disk' \in [AllPaths -> Stored] /\ todo' \in Seq(Pieces) /\ pc' \in Places /\ status' \in Codes
        /\ (reader' = NoReader \/ Running(reader'))
    BY <1>3, <2>1 DEF Places, Codes
  <2> QED
    BY <1>1, <2>1, <2>2, <2>3, Arrives
<1> QED
  BY <1>1, <1>6, <1>7, <1>8 DEF Compress

LEMMA WriteKeeps ==
    ASSUME FileInv, Write
    PROVE  FileInv'
<1> DEFINE target == call.result
<1>1. pc = "write" /\ pc # "idle"
  BY DEF Write
<1>2. /\ call.op # "DecryptFile" /\ call.created /\ target # Absent /\ Growing(call.output, target)
      /\ call.op # "EncryptFileCompressed" => NoTemp
  BY <1>1 DEF FileInv, PlaceInv
<1>3. /\ disk \in [AllPaths -> Stored] /\ todo \in Seq(Pieces) /\ call \in CallRecords
      /\ (reader = NoReader \/ Running(reader)) /\ call.op \in FileCalls
  BY <1>1, BusyCall DEF FileInv, TypeInv
<1>4. target \in Bytes
  BY <1>1, <1>2, BusyCall DEF Stored
<1>5. Temp \in AllPaths /\ call.output \in AllPaths /\ call.output # Temp
  BY <1>1, PathFacts
<1> HIDE DEF target
<1>6. CASE WritePiece(call.output)
  <2>1. UNCHANGED <<reader, calls>>
    BY <1>2, <1>3, <1>4, <1>5, <1>6, PieceWritten
  <2>2. PICK value \in Bytes :
          /\ disk' = [disk EXCEPT ![call.output] = value]
          /\ \/ /\ UNCHANGED call /\ pc' = pc /\ status' = "NO_ERROR"
                /\ todo' \in Seq(Pieces)
                /\ Len(value) <= Len(target) /\ value = SubSeq(target, 1, Len(value))
                /\ Cuts(todo', target, Len(value))
             \/ /\ Faulted /\ pc' = CleanUp /\ status' \in WriteErrors /\ todo' = <<>>
    BY <1>2, <1>3, <1>4, <1>5, <1>6, PieceWritten
  <2>3. SameCall /\ SameMarks /\ Temp' = Temp
    BY <1>3, <2>2, FaultedCall, SameTemp
  <2>4. disk' \in [AllPaths -> Stored] /\ disk'[call.output] = value /\ disk'[Temp] = disk[Temp]
    BY <1>3, <1>5, <2>2, NoFileIsNoBytes, DiskPut
  <2>5. NoTemp => NoTemp'
    BY <2>3, <2>4 DEF NoTemp, SameCall
  <2>6. todo' \in Seq(Pieces) /\ status' \in Codes
    <3>1. WriteErrors \subseteq Codes /\ "NO_ERROR" \in Codes
      BY DEF Codes, WriteErrors
    <3>2. <<>> \in Seq(Pieces)
      OBVIOUS
    <3> QED
      BY <2>2, <3>1, <3>2
  <2>7. CASE pc' = pc /\ UNCHANGED call /\ Len(value) <= Len(target) /\ value = SubSeq(target, 1, Len(value))
             /\ Cuts(todo', target, Len(value))
    <3>1. Growing(call.output, call.result)'
      BY <2>3, <2>4, <2>7 DEF Growing, target
    <3>2. PlaceInv'
      BY <1>1, <1>2, <2>5, <2>7, <3>1 DEF PlaceInv, target
    <3> QED
      BY <1>1, <1>3, <2>1, <2>3, <2>4, <2>6, <2>7, <3>2, Arrives DEF Places
  <2>8. CASE pc' = CleanUp /\ status' \in WriteErrors
    <3>1. status' # "NO_ERROR"
      BY <2>8 DEF WriteErrors
    <3>2. CASE call.op = "EncryptFileCompressed"
      <4>1. pc' = "removeTemp"
        BY <2>8, <3>2 DEF CleanUp
      <4>2. PlaceInv'
        BY <1>2, <2>3, <3>1, <3>2, <4>1 DEF PlaceInv, SameCall, SameMarks
      <4> QED
        BY <1>1, <1>3, <2>1, <2>3, <2>4, <2>6, <4>1, <4>2, Arrives DEF Places
    <3>3. CASE call.op # "EncryptFileCompressed"
      <4>1. pc' = "removeOutput"
        BY <1>2, <1>3, <2>8, <3>3 DEF CleanUp, FileCalls
      <4>2. PlaceInv'
        BY <1>2, <2>3, <2>5, <3>1, <3>3, <4>1 DEF PlaceInv, SameCall, NoTemp
      <4> QED
        BY <1>1, <1>3, <2>1, <2>3, <2>4, <2>6, <4>1, <4>2, Arrives DEF Places
    <3> QED
      BY <3>2, <3>3
  <2> QED
    BY <2>2, <2>7, <2>8
<1>7. CASE /\ todo = <<>>
           /\ Goto(IF call.op = "EncryptFileCompressed" THEN "removeTemp" ELSE "idle", "NO_ERROR")
           /\ UNCHANGED <<disk, call, todo, reader>>
  <2>1. /\ pc' = IF call.op = "EncryptFileCompressed" THEN "removeTemp" ELSE "idle"
        /\ status' = "NO_ERROR" /\ UNCHANGED <<disk, call, todo, reader, calls>> /\ SameCall /\ Temp' = Temp
    BY <1>3, <1>7, FaultedCall, SameTemp DEF Goto
  <2>2. disk[call.output] = target
    <3>1. Len(disk[call.output]) = Len(target) /\ disk[call.output] = SubSeq(target, 1, Len(disk[call.output]))
      BY <1>2, <1>7, CutsEnd DEF Growing
    <3> QED
      BY <1>4, <3>1, WholeRun
  <2>3. PlaceInv'
    <3>1. CASE call.op = "EncryptFileCompressed"
      BY <1>2, <2>1, <2>2, <3>1 DEF PlaceInv, target
    <3>2. CASE call.op # "EncryptFileCompressed"
      <4>1. NothingLeftBehind'
        BY <1>2, <2>1, <3>2 DEF NothingLeftBehind, NoTemp
      <4> QED
        BY <2>1, <3>2, <4>1 DEF PlaceInv
    <3> QED
      BY <3>1, <3>2
  <2>4. disk' \in [AllPaths -> Stored] /\ todo' \in Seq(Pieces) /\ pc' \in Places /\ status' \in Codes
        /\ (reader' = NoReader \/ Running(reader'))
    BY <1>3, <2>1 DEF Places, Codes
  <2> QED
    BY <1>1, <2>1, <2>3, <2>4, Arrives
<1> QED
  BY <1>1, <1>6, <1>7 DEF Write

-----------------------------------------------------------------------------
(* DecryptFile's last steps, and the deletions. *)

LEMMA DecryptStepKeeps ==
    ASSUME FileInv, DecryptStep
    PROVE  FileInv'
<1> DEFINE next == ReaderStep(reader)
<1>1. pc = "decrypt" /\ pc # "idle" /\ UNCHANGED todo
  BY DEF DecryptStep
<1>2. call.op = "DecryptFile" /\ Untouched /\ disk[Temp] # Absent /\ Running(reader)
  BY <1>1 DEF FileInv, PlaceInv
<1>3. disk \in [AllPaths -> Stored] /\ todo \in Seq(Pieces) /\ call \in CallRecords
  BY <1>1, BusyCall DEF FileInv, TypeInv
<1>4. Temp \in AllPaths /\ call.output \in AllPaths /\ call.output # Temp
  BY <1>1, PathFacts
<1>5. Sound(next) /\ Known(next)
  BY <1>2, ReaderStepSound, ReaderStepKnown DEF Running, Known, Tagged
<1>6. next.output \in Bytes /\ next.code \in ReaderCodes
  <2> HIDE DEF next
  <2> QED
    BY <1>5, ReaderFields
<1>7. disk[Temp] \in Bytes
  BY <1>2, <1>3, <1>4 DEF Stored
<1>8. \/ /\ Extend(Temp, next.output)
         /\ reader' = IF next.phase = "done" THEN NoReader ELSE next
         /\ Goto(AfterStep(next), next.code)
         /\ UNCHANGED call
      \/ /\ Faulted
         /\ reader' = NoReader
         /\ Goto("removeTemp", "INVALID_DATA")
         /\ UNCHANGED disk
      \/ /\ Faulted
         /\ reader' = NoReader
         /\ \/ TornWrite(Temp, next.output) /\ Goto("removeTemp", "FILE_IO_ERROR")
            \/ Extend(Temp, next.output) /\ \E code \in Interruptions : Goto("removeTemp", code)
  BY <1>1 DEF DecryptStep
<1> HIDE DEF next
<1>9. SameCall /\ SameMarks /\ Temp' = Temp
  BY <1>3, <1>8, FaultedCall, SameTemp
<1>10. ASSUME NEW octets \in Bytes, Extend(Temp, octets)
       PROVE  /\ disk' \in [AllPaths -> Stored] /\ disk'[Temp] \in Bytes
              /\ disk'[call.output] = disk[call.output]
  <2> DEFINE value == disk[Temp] \o octets
  <2>1. disk' = [disk EXCEPT ![Temp] = value]
    BY <1>10 DEF Extend
  <2>2. value \in Bytes /\ value \in Stored
    BY <1>7, ConcatBytes DEF Stored
  <2> HIDE DEF value
  <2> QED
    BY <1>3, <1>4, <2>1, <2>2, DiskPut
<1>11. UNCHANGED calls
  BY <1>8 DEF Goto
<1>12. ASSUME disk' \in [AllPaths -> Stored], disk'[call.output] = disk[call.output],
              pc' = "removeTemp", status' \in Codes \ {"NO_ERROR"}, reader' = NoReader
       PROVE  FileInv'
  <2>1. PlaceInv'
    BY <1>2, <1>9, <1>12 DEF PlaceInv, Untouched, OldOrGone, SameCall, SameMarks
  <2>2. pc' \in Places /\ todo' \in Seq(Pieces)
    BY <1>1, <1>3, <1>12 DEF Places
  <2> QED
    BY <1>1, <1>9, <1>11, <1>12, <2>1, <2>2, Arrives
<1>13. CASE /\ Extend(Temp, next.output)
            /\ reader' = IF next.phase = "done" THEN NoReader ELSE next
            /\ Goto(AfterStep(next), next.code)
            /\ UNCHANGED call
  <2>1. pc' = AfterStep(next) /\ status' = next.code /\ status' \in Codes
    BY <1>6, <1>13 DEF Goto, ReaderCodes, Codes
  <2>2. disk' \in [AllPaths -> Stored] /\ disk'[Temp] \in Bytes /\ disk'[call.output] = disk[call.output]
    BY <1>6, <1>10, <1>13
  <2>3. Untouched' /\ disk'[Temp'] # Absent /\ call'.op = "DecryptFile"
    BY <1>2, <1>9, <1>13, <2>2, NoFileIsNoBytes DEF Untouched
  <2>4. CASE next.phase # "done"
    <3>1. pc' = "decrypt" /\ pc' \in Places /\ reader' = next
      BY <1>13, <2>1, <2>4 DEF AfterStep, Places
    <3>2. Running(reader')
      BY <1>5, <2>4, <3>1 DEF Running
    <3>3. PlaceInv'
      BY <2>3, <3>1, <3>2 DEF PlaceInv
    <3> QED
      BY <1>1, <1>3, <1>9, <1>11, <2>1, <2>2, <3>1, <3>2, <3>3, Arrives
  <2>5. CASE next.phase = "done" /\ next.code = "NO_ERROR"
    <3>1. pc' = "deleteOld" /\ pc' \in Places /\ reader' = NoReader
      BY <1>13, <2>1, <2>5 DEF AfterStep, Places
    <3>2. PlaceInv'
      BY <2>3, <3>1 DEF PlaceInv
    <3> QED
      BY <1>1, <1>3, <1>9, <1>11, <2>1, <2>2, <3>1, <3>2, Arrives
  <2>6. CASE next.phase = "done" /\ next.code # "NO_ERROR"
    <3>1. pc' = "removeTemp" /\ reader' = NoReader /\ status' # "NO_ERROR"
      BY <1>13, <2>1, <2>6 DEF AfterStep
    <3> QED
      BY <1>12, <2>1, <2>2, <3>1
  <2> QED
    BY <2>4, <2>5, <2>6
<1>14. CASE Faulted /\ reader' = NoReader /\ Goto("removeTemp", "INVALID_DATA") /\ UNCHANGED disk
  BY <1>3, <1>12, <1>14 DEF Goto, Codes
<1>15. CASE /\ reader' = NoReader
            /\ TornWrite(Temp, next.output) /\ Goto("removeTemp", "FILE_IO_ERROR")
  <2>1. PICK k \in 0 .. Len(next.output) - 1 : Extend(Temp, SubSeq(next.output, 1, k))
    BY <1>15 DEF TornWrite
  <2>2. SubSeq(next.output, 1, k) \in Bytes
    <3>1. k \in 0 .. Len(next.output)
      BY <1>6 DEF Bytes
    <3> QED
      BY <1>6, <3>1, TakeFacts
  <2>3. disk' \in [AllPaths -> Stored] /\ disk'[call.output] = disk[call.output]
    BY <1>10, <2>1, <2>2
  <2>4. pc' = "removeTemp" /\ status' \in Codes \ {"NO_ERROR"}
    BY <1>15 DEF Goto, Codes
  <2> QED
    BY <1>12, <1>15, <2>3, <2>4
<1>16. CASE /\ reader' = NoReader
            /\ Extend(Temp, next.output) /\ \E code \in Interruptions : Goto("removeTemp", code)
  <2>1. disk' \in [AllPaths -> Stored] /\ disk'[call.output] = disk[call.output]
    BY <1>6, <1>10, <1>16
  <2>2. pc' = "removeTemp" /\ status' \in Codes \ {"NO_ERROR"}
    BY <1>16 DEF Goto, Codes, Interruptions
  <2> QED
    BY <1>12, <1>16, <2>1, <2>2
<1> QED
  BY <1>8, <1>13, <1>14, <1>15, <1>16

LEMMA DeleteOldKeeps ==
    ASSUME FileInv, DeleteOld
    PROVE  FileInv'
<1>1. /\ pc = "deleteOld" /\ pc # "idle" /\ pc' = "move" /\ status' = "NO_ERROR"
      /\ UNCHANGED <<call, todo, reader, calls>>
      /\ disk' = [disk EXCEPT ![call.output] = Absent] \/ UNCHANGED disk
  BY DEF DeleteOld, Goto
<1>2. call.op = "DecryptFile" /\ Untouched /\ disk[Temp] # Absent
  BY <1>1 DEF FileInv, PlaceInv
<1>3. /\ disk \in [AllPaths -> Stored] /\ todo \in Seq(Pieces) /\ call \in CallRecords
      /\ (reader = NoReader \/ Running(reader))
  BY <1>1, BusyCall DEF FileInv, TypeInv
<1>4. Temp \in AllPaths /\ call.output \in AllPaths /\ call.output # Temp /\ Absent \in Stored
  BY <1>1, PathFacts DEF Stored
<1>5. SameCall /\ Temp' = Temp
  BY <1>1, <1>3, FaultedCall, SameTemp
<1>6. /\ disk' \in [AllPaths -> Stored] /\ disk'[Temp] = disk[Temp]
      /\ disk'[call.output] \in {Absent, disk[call.output]}
  BY <1>1, <1>3, <1>4, DiskPut
<1>7. PlaceInv'
  BY <1>1, <1>2, <1>5, <1>6 DEF PlaceInv, Untouched, OldOrGone
<1>8. pc' \in Places /\ status' \in Codes
  BY <1>1 DEF Places, Codes
<1> QED
  BY <1>1, <1>3, <1>5, <1>6, <1>7, <1>8, Arrives

LEMMA MoveKeeps ==
    ASSUME FileInv, Move
    PROVE  FileInv'
<1>1. pc = "move" /\ pc # "idle" /\ UNCHANGED <<todo, reader>>
  BY DEF Move
<1>2. call.op = "DecryptFile" /\ ~call.created /\ OldOrGone /\ disk[Temp] # Absent
  BY <1>1 DEF FileInv, PlaceInv
<1>3. /\ disk \in [AllPaths -> Stored] /\ todo \in Seq(Pieces) /\ call \in CallRecords
      /\ (reader = NoReader \/ Running(reader))
  BY <1>1, BusyCall DEF FileInv, TypeInv
<1>4. Temp \in AllPaths /\ call.output \in AllPaths /\ call.output # Temp /\ Absent \in Stored
  BY <1>1, PathFacts DEF Stored
<1>5. CASE /\ disk' = [disk EXCEPT ![call.output] = disk[Temp], ![Temp] = Absent]
           /\ Goto("idle", "NO_ERROR")
           /\ UNCHANGED call
  <2>1. pc' = "idle" /\ status' = "NO_ERROR" /\ UNCHANGED calls /\ pc' \in Places /\ status' \in Codes
    BY <1>5 DEF Goto, Places, Codes
  <2>2. SameCall /\ Temp' = Temp
    BY <1>3, <1>5, FaultedCall, SameTemp
  <2>3. disk' \in [AllPaths -> Stored] /\ disk'[Temp] = Absent
    BY <1>3, <1>4, <1>5
  <2>4. NothingLeftBehind'
    BY <2>1, <2>2, <2>3 DEF NothingLeftBehind
  <2>5. PlaceInv'
    BY <2>1, <2>4 DEF PlaceInv
  <2> QED
    BY <1>1, <1>3, <2>1, <2>2, <2>3, <2>5, Arrives
<1>6. CASE /\ Goto("removeTemp", "FILE_IO_ERROR")
           /\ IF call.output = call.input THEN UNCHANGED call ELSE Faulted
           /\ UNCHANGED disk
  <2>1. pc' = "removeTemp" /\ status' = "FILE_IO_ERROR" /\ UNCHANGED <<calls, disk>> /\ pc' \in Places /\ status' \in Codes
    BY <1>6 DEF Goto, Places, Codes
  <2>2. SameCall /\ SameMarks
    BY <1>3, <1>6, FaultedCall
  <2>3. PlaceInv'
    BY <1>2, <2>1, <2>2 DEF PlaceInv, OldOrGone, SameCall, SameMarks
  <2> QED
    BY <1>1, <1>3, <2>1, <2>2, <2>3, Arrives
<1> QED
  BY <1>1, <1>5, <1>6 DEF Move

\* DeleteFileW takes the file away or leaves a mark on the call.
LEMMA Deleted ==
    ASSUME disk \in [AllPaths -> Stored], call \in CallRecords, NEW path \in AllPaths, Delete(path)
    PROVE  /\ SameCall /\ call'.created = call.created
           /\ disk' \in [AllPaths -> Stored]
           /\ \A p \in AllPaths : p # path => disk'[p] = disk[p]
           /\ \/ disk'[path] = Absent /\ call'.littered = call.littered
              \/ UNCHANGED disk /\ call'.littered
<1>1. Absent \in Stored
  BY DEF Stored
<1>2. CASE disk' = [disk EXCEPT ![path] = Absent] /\ UNCHANGED call
  <2>1. SameCall /\ SameMarks
    BY <1>2, FaultedCall
  <2> QED
    BY <1>1, <1>2, <2>1, DiskPut DEF SameMarks
<1>3. CASE UNCHANGED disk /\ call' = [call EXCEPT !.littered = TRUE]
  BY <1>3, LitteredCall
<1> QED
  BY <1>2, <1>3 DEF Delete

LEMMA RemoveTempKeeps ==
    ASSUME FileInv, RemoveTemp
    PROVE  FileInv'
<1>1. /\ pc = "removeTemp" /\ pc # "idle" /\ UNCHANGED <<todo, reader, calls, status>> /\ Delete(Temp)
      /\ pc' = IF call.created /\ status # "NO_ERROR" THEN "removeOutput" ELSE "idle"
  BY DEF RemoveTemp, Goto
<1>2. /\ IF call.created THEN call.op = "EncryptFileCompressed"
         ELSE call.op \in {"EncryptFileCompressed", "DecryptFile"} /\ OldOrGone
      /\ status = "NO_ERROR" => call.created
  BY <1>1 DEF FileInv, PlaceInv
<1>3. /\ disk \in [AllPaths -> Stored] /\ todo \in Seq(Pieces) /\ call \in CallRecords
      /\ (reader = NoReader \/ Running(reader)) /\ status \in Codes
  BY <1>1, BusyCall DEF FileInv, TypeInv
<1>4. Temp \in AllPaths /\ call.output \in AllPaths /\ call.output # Temp
  BY <1>1, PathFacts
<1>5. /\ SameCall /\ call'.created = call.created
      /\ disk' \in [AllPaths -> Stored]
      /\ disk'[call.output] = disk[call.output]
      /\ disk'[Temp] = Absent \/ call'.littered
  BY <1>1, <1>3, <1>4, Deleted
<1>6. Temp' = Temp
  BY <1>5, SameTemp
<1>7. CASE call.created /\ status # "NO_ERROR"
  <2>1. pc' = "removeOutput" /\ pc' \in Places
    BY <1>1, <1>7 DEF Places
  <2>2. PlaceInv'
    BY <1>1, <1>2, <1>5, <1>6, <1>7, <2>1 DEF PlaceInv, SameCall
  <2> QED
    BY <1>1, <1>3, <1>5, <2>1, <2>2, Arrives
<1>8. CASE ~(call.created /\ status # "NO_ERROR")
  <2>1. pc' = "idle" /\ pc' \in Places
    BY <1>1, <1>8 DEF Places
  <2>2. NothingLeftBehind'
    BY <1>1, <1>2, <1>5, <1>6, <1>8 DEF NothingLeftBehind, OldOrGone, SameCall
  <2>3. PlaceInv'
    BY <2>1, <2>2 DEF PlaceInv
  <2> QED
    BY <1>1, <1>3, <1>5, <2>1, <2>3, Arrives
<1> QED
  BY <1>7, <1>8

LEMMA RemoveOutputKeeps ==
    ASSUME FileInv, RemoveOutput
    PROVE  FileInv'
<1>1. /\ pc = "removeOutput" /\ pc # "idle" /\ UNCHANGED <<todo, reader, calls, status>>
      /\ Delete(call.output) /\ pc' = "idle"
  BY DEF RemoveOutput, Goto
<1>2. call.littered \/ disk[Temp] \in {Absent, call.oldTemp}
  BY <1>1 DEF FileInv, PlaceInv
<1>3. /\ disk \in [AllPaths -> Stored] /\ todo \in Seq(Pieces) /\ call \in CallRecords
      /\ (reader = NoReader \/ Running(reader)) /\ status \in Codes
  BY <1>1, BusyCall DEF FileInv, TypeInv
<1>4. Temp \in AllPaths /\ call.output \in AllPaths /\ call.output # Temp
  BY <1>1, PathFacts
<1>5. /\ SameCall /\ disk' \in [AllPaths -> Stored] /\ disk'[Temp] = disk[Temp]
      /\ \/ disk'[call.output] = Absent /\ call'.littered = call.littered
         \/ call'.littered
  BY <1>1, <1>3, <1>4, Deleted
<1>6. Temp' = Temp
  BY <1>5, SameTemp
<1>7. NothingLeftBehind'
  BY <1>2, <1>5, <1>6 DEF NothingLeftBehind, SameCall
<1>8. PlaceInv' /\ pc' \in Places
  BY <1>1, <1>7 DEF PlaceInv, Places
<1> QED
  BY <1>1, <1>3, <1>5, <1>8, Arrives

-----------------------------------------------------------------------------
(* What follows from the invariant. *)

\* FileInv is an invariant of the file calls, whatever fails and wherever they die.
THEOREM FileInvariant == Spec => []FileInv
<1>1. Init => FileInv
  BY InitFileInv
<1>2. FileInv /\ [Next]_fileVars => FileInv'
  <2> SUFFICES ASSUME FileInv, [Next]_fileVars
               PROVE  FileInv'
    OBVIOUS
  <2>1. CASE Next
    <3>1. CallStep => FileInv'
      BY OpenKeeps, CreateTempKeeps, CreateOutputKeeps, CompressKeeps, WriteKeeps, DecryptStepKeeps,
         DeleteOldKeeps, MoveKeeps, RemoveTempKeeps, RemoveOutputKeeps DEF CallStep
    <3> QED
      BY <2>1, <3>1, BeginKeeps, CrashKeeps DEF Next
  <2>2. CASE UNCHANGED fileVars
    BY <2>2 DEF fileVars, FileInv, TypeInv, CallInv, PlaceInv, NothingLeftBehind, Untouched, NoTemp,
                InputKept, OldOrGone, Growing, Temp
  <2> QED
    BY <2>1, <2>2
<1> QED
  BY <1>1, <1>2, PTL DEF Spec

\* Files hold octets, and the counts of the streaming reader never wrap: for every
\* message, damaged or not, and however ReadFile cuts it.
THEOREM PgpFileTypeCorrect == Spec => []PgpFileTypeOK
<1>1. FileInv => PgpFileTypeOK
  <2> SUFFICES ASSUME FileInv
               PROVE  PgpFileTypeOK
    OBVIOUS
  <2>1. /\ disk \in [AllPaths -> Seq(Octet) \cup {Absent}] /\ pc \in Places /\ status \in Codes
        /\ todo \in Seq([octets : Seq(Octet), reports : BOOLEAN]) /\ calls \in 0 .. MaxCalls
        /\ (reader = NoReader \/ Running(reader))
    BY DEF FileInv, TypeInv, Stored, Pieces, Bytes
  <2>2. NoReader.ok = FALSE
    BY DEF NoReader, Refused
  <2>3. Running(reader) =>
          /\ {reader.rest, reader.pending} \subseteq Seq(Octet)
          /\ {reader.cipherRemaining, reader.cipherChunkRemaining, reader.remaining,
              reader.literal.chunkRemaining, reader.literal.contentRemaining} \subseteq Nat
          /\ reader.streamPos + Len(reader.pending) + reader.cipherRemaining = reader.encLength
    <3> SUFFICES ASSUME Sound(reader)
                 PROVE  /\ {reader.rest, reader.pending} \subseteq Seq(Octet)
                        /\ {reader.cipherRemaining, reader.cipherChunkRemaining, reader.remaining,
                            reader.literal.chunkRemaining, reader.literal.contentRemaining} \subseteq Nat
                        /\ reader.streamPos + Len(reader.pending) + reader.cipherRemaining = reader.encLength
      BY DEF Running
    <3>1. /\ reader.rest \in Bytes /\ reader.pending \in Bytes /\ reader.cipherRemaining \in Nat
          /\ reader.cipherChunkRemaining \in Nat /\ reader.remaining \in Nat /\ reader.literal \in LiteralStates
      BY ReaderFields
    <3>2. reader.literal.chunkRemaining \in Nat /\ reader.literal.contentRemaining \in Nat
      BY <3>1 DEF LiteralStates
    <3> QED
      BY <3>1, <3>2 DEF Sound, Balanced, Bytes
  <2> QED
    BY <2>1, <2>2, <2>3 DEF PgpFileTypeOK
<1> QED
  BY <1>1, FileInvariant, PTL

\* No exit path leaves a new temporary file or a partial output behind.
THEOREM NothingLeftBehindHolds == Spec => []NothingLeftBehind
<1>1. FileInv => NothingLeftBehind
  BY DEF FileInv, PlaceInv, NothingLeftBehind
<1> QED
  BY <1>1, FileInvariant, PTL

-----------------------------------------------------------------------------
(***************************************************************************)
(* The calls implement OutputFile. What the refinement needs beyond the    *)
(* invariant is that what DecryptFile is about to put in the old file's    *)
(* place is the right document (ReplacesWithDocument, a part of            *)
(* TemporaryIsPrefix). The last part of this module proves that of every   *)
(* message, from what the streaming reader computes of its octets, and     *)
(* concludes with the refinement itself (FileCallsImplementOutput).        *)
(***************************************************************************)

\* What the refinement mapping shows of a state.
Files == [p \in Paths |-> disk[p]]
JobState ==
    IF pc # "idle" THEN "busy" ELSE IF calls = 0 THEN "none"
    ELSE IF status = "NO_ERROR" THEN "succeeded" ELSE "failed"
Job ==
    [state |-> JobState, output |-> call.output, result |-> call.result,
     replaces |-> call.op = "DecryptFile"]

OutputStep == Output!OutputNext \/ (UNCHANGED Files /\ UNCHANGED Job)

\* A step of the call that its caller sees nothing of.
LEMMA StepHidden ==
    ASSUME SameCall, pc # "idle", pc' # "idle", UNCHANGED Files
    PROVE  OutputStep
  BY DEF OutputStep, Job, JobState, SameCall

LEMMA StepShows ==
    ASSUME SameCall, pc # "idle", pc' # "idle", call.result # Absent, call.op # "DecryptFile",
           NEW n \in 0 .. Len(call.result),
           Files' = [Files EXCEPT ![call.output] = SubSeq(call.result, 1, n)]
    PROVE  OutputStep
<1>1. Job' = Job /\ JobState = "busy"
  BY DEF Job, JobState, SameCall
<1>2. Output!Show
  BY <1>1 DEF Output!Show, Output!Prefixes, Job, JobState, Files
<1> QED
  BY <1>2 DEF OutputStep, Output!OutputNext

LEMMA StepWithdraws ==
    ASSUME SameCall, pc # "idle", pc' # "idle", call.op = "DecryptFile" => call.result # Absent,
           Files' = [Files EXCEPT ![call.output] = Absent]
    PROVE  OutputStep
<1>1. Job' = Job /\ JobState = "busy"
  BY DEF Job, JobState, SameCall
<1>2. Output!Withdraw
  BY <1>1 DEF Output!Withdraw, Job, JobState, Files
<1> QED
  BY <1>2 DEF OutputStep, Output!OutputNext

LEMMA StepSucceeds ==
    ASSUME SameCall, pc # "idle", pc' = "idle", calls' > 0, status' = "NO_ERROR", call.result # Absent,
           call.op = "DecryptFile" \/ Files[call.output] = call.result,
           Files' = [Files EXCEPT ![call.output] = call.result]
    PROVE  OutputStep
<1>1. JobState = "busy" /\ JobState' = "succeeded"
  BY DEF JobState
<1>2. Job' = [Job EXCEPT !.state = "succeeded"]
  BY <1>1 DEF Job, SameCall
<1>3. Output!Succeed
  BY <1>1, <1>2 DEF Output!Succeed, Job, JobState, Files
<1> QED
  BY <1>3 DEF OutputStep, Output!OutputNext

LEMMA StepFails ==
    ASSUME SameCall, pc # "idle", pc' = "idle", calls' > 0, status' # "NO_ERROR",
           \/ UNCHANGED Files
           \/ call.op # "DecryptFile" /\ Files' = [Files EXCEPT ![call.output] = Absent]
    PROVE  OutputStep
<1>1. JobState = "busy" /\ JobState' = "failed"
  BY DEF JobState
<1>2. Job' = [Job EXCEPT !.state = "failed"]
  BY <1>1 DEF Job, SameCall
<1>3. Output!Fail
  BY <1>1, <1>2 DEF Output!Fail, Job, JobState, Files
<1> QED
  BY <1>3 DEF OutputStep, Output!OutputNext

LEMMA FilesPut ==
    ASSUME disk \in [AllPaths -> Stored], NEW path \in AllPaths, NEW value,
           disk' = [disk EXCEPT ![path] = value]
    PROVE  /\ path \in Paths => Files' = [Files EXCEPT ![path] = value]
           /\ path \notin Paths => UNCHANGED Files
  BY DEF Files, AllPaths

LEMMA BeginRefines ==
    ASSUME FileInv, NEW request \in Requests, NEW input \in Paths, NEW output \in Paths,
           Begin(request, input, output)
    PROVE  OutputStep
<1>1. /\ pc = "idle" /\ pc' = "open" /\ UNCHANGED disk
      /\ call'.op = request[1] /\ call'.output = output /\ call'.result = Result(request, disk[input])
  BY DEF Begin
<1>2. JobState # "busy" /\ JobState' = "busy"
  BY <1>1 DEF JobState
<1>3. (request[1] = "DecryptFile") = (request \in {<<"DecryptFile", <<>>>>})
  BY RequestTypes
<1>4. Job' = [state |-> "busy", output |-> output, result |-> Result(request, Files[input]),
              replaces |-> request \in {<<"DecryptFile", <<>>>>}]
  BY <1>1, <1>2, <1>3 DEF Job, Files
<1>5. UNCHANGED Files
  BY <1>1 DEF Files
<1>6. Output!Start(request, input, output)
  BY <1>2, <1>4, <1>5 DEF Output!Start, Job, JobState, Files
<1> QED
  BY <1>6 DEF OutputStep, Output!OutputNext

\* What a step of a running call may rely on.
LEMMA RunningCall ==
    ASSUME FileInv, pc # "idle"
    PROVE  /\ disk \in [AllPaths -> Stored] /\ todo \in Seq(Pieces) /\ call \in CallRecords /\ calls > 0
           /\ Temp \in AllPaths /\ Temp \notin Paths
           /\ call.output \in AllPaths /\ call.output \in Paths /\ call.result \in Stored
           /\ Files[call.output] = disk[call.output]
<1>1. call.output \in Paths
  BY BusyCall
<1> QED
  BY <1>1, BusyCall, PathFacts DEF FileInv, TypeInv, Files

\* The caller does not see the temporary file.
LEMMA TempUnseen ==
    ASSUME FileInv, pc # "idle", UNCHANGED disk \/ \E value : disk' = [disk EXCEPT ![Temp] = value]
    PROVE  UNCHANGED Files
<1>1. disk \in [AllPaths -> Stored] /\ Temp \in AllPaths /\ Temp \notin Paths
  BY RunningCall
<1>2. CASE UNCHANGED disk
  BY <1>2 DEF Files
<1>3. ASSUME NEW value, disk' = [disk EXCEPT ![Temp] = value]
      PROVE  UNCHANGED Files
  BY <1>1, <1>3, FilesPut
<1> QED
  BY <1>2, <1>3

LEMMA CrashRefines ==
    ASSUME FileInv, Crash
    PROVE  OutputStep
<1>1. pc # "idle" /\ pc' = "idle" /\ status' # "NO_ERROR" /\ UNCHANGED <<disk, call, calls>>
  BY DEF Crash, Return, Goto
<1>2. SameCall /\ UNCHANGED Files /\ calls' > 0
  BY <1>1, RunningCall, FaultedCall, TempUnseen
<1> QED
  BY <1>1, <1>2, StepFails

LEMMA OpenRefines ==
    ASSUME FileInv, Open
    PROVE  OutputStep
<1>1. /\ pc # "idle" /\ UNCHANGED <<disk, calls>> /\ (Faulted \/ UNCHANGED call)
      /\ \/ pc' = "idle" /\ status' # "NO_ERROR"
         \/ pc' # "idle"
  BY DEF Open, Return, Goto
<1>2. SameCall /\ UNCHANGED Files /\ calls' > 0
  BY <1>1, RunningCall, FaultedCall, TempUnseen
<1> QED
  BY <1>1, <1>2, StepFails, StepHidden

LEMMA CreateTempRefines ==
    ASSUME FileInv, CreateTemp
    PROVE  OutputStep
<1>1. /\ pc # "idle" /\ UNCHANGED calls /\ (Faulted \/ UNCHANGED call)
      /\ UNCHANGED disk \/ \E value : disk' = [disk EXCEPT ![Temp] = value]
      /\ \/ pc' = "idle" /\ status' # "NO_ERROR"
         \/ pc' # "idle"
  BY DEF CreateTemp, Goto
<1>2. SameCall /\ UNCHANGED Files /\ calls' > 0
  BY <1>1, RunningCall, FaultedCall, TempUnseen
<1> QED
  BY <1>1, <1>2, StepFails, StepHidden

LEMMA CompressRefines ==
    ASSUME FileInv, Compress
    PROVE  OutputStep
<1>1. pc = "compress" /\ pc # "idle" /\ (Faulted \/ UNCHANGED call)
  BY DEF Compress, WritePiece
<1>2. UNCHANGED disk \/ \E value : disk' = [disk EXCEPT ![Temp] = value]
  BY DEF Compress, WritePiece, Extend, TornWrite
<1>3. pc' # "idle"
  BY <1>1 DEF Compress, WritePiece, Goto, CleanUp
<1>4. SameCall /\ UNCHANGED Files
  BY <1>1, <1>2, RunningCall, FaultedCall, TempUnseen
<1> QED
  BY <1>1, <1>3, <1>4, StepHidden

LEMMA DecryptStepRefines ==
    ASSUME FileInv, DecryptStep
    PROVE  OutputStep
<1>1. pc # "idle" /\ (Faulted \/ UNCHANGED call)
  BY DEF DecryptStep
<1>2. UNCHANGED disk \/ \E value : disk' = [disk EXCEPT ![Temp] = value]
  BY DEF DecryptStep, Extend, TornWrite
<1>3. pc' # "idle"
  BY DEF DecryptStep, Goto, AfterStep
<1>4. SameCall /\ UNCHANGED Files
  BY <1>1, <1>2, RunningCall, FaultedCall, TempUnseen
<1> QED
  BY <1>1, <1>3, <1>4, StepHidden

\* An empty output is the shortest prefix.
LEMMA CreateOutputRefines ==
    ASSUME FileInv, CreateOutput
    PROVE  OutputStep
<1>1. pc = "createOutput" /\ pc # "idle" /\ UNCHANGED calls
  BY DEF CreateOutput, Goto
<1>2. call.op # "DecryptFile" /\ InputKept
  BY <1>1 DEF FileInv, PlaceInv
<1>3. CASE /\ (Faulted \/ UNCHANGED call) /\ UNCHANGED disk
           /\ status' # "NO_ERROR"
  <2>1. SameCall /\ UNCHANGED Files /\ calls' > 0
    BY <1>1, <1>3, RunningCall, FaultedCall, TempUnseen
  <2> QED
    BY <1>1, <1>3, <2>1, StepFails, StepHidden
<1>4. CASE /\ disk' = [disk EXCEPT ![call.output] = <<>>]
           /\ call' = [call EXCEPT !.created = TRUE]
           /\ pc' = "write"
  <2>1. SameCall
    BY <1>1, <1>4, RunningCall, CreatedCall
  <2>2. call.result \in Bytes /\ call.result # Absent
    BY <1>1, <1>2, BusyCall, ResultType, NoFileIsNoBytes DEF InputKept
  <2>3. 0 \in 0 .. Len(call.result) /\ SubSeq(call.result, 1, 0) = <<>>
    BY <2>2 DEF Bytes
  <2>4. Files' = [Files EXCEPT ![call.output] = SubSeq(call.result, 1, 0)]
    BY <1>1, <1>4, <2>3, RunningCall, FilesPut
  <2> QED
    BY <1>1, <1>2, <1>4, <2>1, <2>2, <2>3, <2>4, StepShows
<1> QED
  BY <1>3, <1>4 DEF CreateOutput, Goto

\* Every piece shows a longer prefix, and the last one the whole result.
LEMMA WriteRefines ==
    ASSUME FileInv, Write
    PROVE  OutputStep
<1>1. pc = "write" /\ pc # "idle"
  BY DEF Write
<1>2. call.op # "DecryptFile" /\ call.result # Absent /\ Growing(call.output, call.result)
  BY <1>1 DEF FileInv, PlaceInv
<1>3. call.result \in Bytes
  BY <1>1, <1>2, RunningCall DEF Stored
<1>4. CASE WritePiece(call.output)
  <2>1. (Faulted \/ UNCHANGED call) /\ pc' # "idle"
    BY <1>1, <1>4 DEF WritePiece, Goto, CleanUp
  <2>2. SameCall
    BY <1>1, <2>1, RunningCall, FaultedCall
  <2>3. PICK value \in Bytes : /\ disk' = [disk EXCEPT ![call.output] = value]
                               /\ \E n \in 0 .. Len(call.result) : value = SubSeq(call.result, 1, n)
    BY <1>1, <1>2, <1>3, <1>4, RunningCall, PieceWritten
  <2>4. PICK n \in 0 .. Len(call.result) : value = SubSeq(call.result, 1, n)
    BY <2>3
  <2>5. Files' = [Files EXCEPT ![call.output] = SubSeq(call.result, 1, n)]
    BY <1>1, <2>3, <2>4, RunningCall, FilesPut
  <2> QED
    BY <1>1, <1>2, <2>1, <2>2, <2>5, StepShows
<1>5. CASE /\ todo = <<>>
           /\ Goto(IF call.op = "EncryptFileCompressed" THEN "removeTemp" ELSE "idle", "NO_ERROR")
           /\ UNCHANGED <<disk, call, todo, reader>>
  <2>1. SameCall /\ UNCHANGED Files /\ calls' > 0 /\ status' = "NO_ERROR"
    BY <1>1, <1>5, RunningCall, FaultedCall, TempUnseen DEF Goto
  <2>2. Files[call.output] = call.result
    <3>1. /\ Len(disk[call.output]) = Len(call.result)
          /\ disk[call.output] = SubSeq(call.result, 1, Len(disk[call.output]))
      BY <1>2, <1>5, CutsEnd DEF Growing
    <3>2. disk[call.output] = call.result
      BY <1>3, <3>1, WholeRun
    <3> QED
      BY <1>1, <3>2, RunningCall
  <2>3. Files' = [Files EXCEPT ![call.output] = call.result]
    BY <2>1, <2>2 DEF Files
  <2> QED
    BY <1>1, <1>2, <2>1, <2>2, <2>3, StepHidden, StepSucceeds
<1> QED
  BY <1>1, <1>4, <1>5 DEF Write

\* The old file goes when the new one is there and right.
LEMMA DeleteOldRefines ==
    ASSUME FileInv, ReplacesWithDocument, DeleteOld
    PROVE  OutputStep
<1>1. pc = "deleteOld" /\ pc # "idle" /\ pc' # "idle" /\ UNCHANGED <<call, calls>>
  BY DEF DeleteOld, Goto
<1>2. call.result # Absent
  BY <1>1 DEF ReplacesWithDocument
<1>3. SameCall
  BY <1>1, RunningCall, FaultedCall
<1>4. CASE UNCHANGED disk
  BY <1>1, <1>3, <1>4, TempUnseen, StepHidden
<1>5. CASE disk' = [disk EXCEPT ![call.output] = Absent]
  <2>1. Files' = [Files EXCEPT ![call.output] = Absent]
    BY <1>1, <1>5, RunningCall, FilesPut
  <2> QED
    BY <1>1, <1>2, <1>3, <2>1, StepWithdraws
<1> QED
  BY <1>4, <1>5 DEF DeleteOld

LEMMA MoveRefines ==
    ASSUME FileInv, ReplacesWithDocument, Move
    PROVE  OutputStep
<1>1. pc = "move" /\ pc # "idle" /\ UNCHANGED calls
  BY DEF Move, Goto
<1>2. call.result # Absent /\ disk[Temp] = call.result /\ call.op = "DecryptFile"
  BY <1>1 DEF ReplacesWithDocument, FileInv, PlaceInv
<1>3. CASE /\ disk' = [disk EXCEPT ![call.output] = disk[Temp], ![Temp] = Absent]
           /\ Goto("idle", "NO_ERROR")
           /\ UNCHANGED call
  <2>1. SameCall /\ calls' > 0 /\ pc' = "idle" /\ status' = "NO_ERROR"
    BY <1>1, <1>3, RunningCall, FaultedCall DEF Goto
  <2>2. \A p \in Paths : disk'[p] = IF p = call.output THEN call.result ELSE disk[p]
    <3>1. Paths \subseteq AllPaths /\ disk \in [AllPaths -> Stored] /\ Temp \notin Paths
      BY <1>1, RunningCall DEF AllPaths
    <3> QED
      BY <1>2, <1>3, <3>1
  <2>3. Files' = [Files EXCEPT ![call.output] = call.result]
    BY <2>2 DEF Files
  <2> QED
    BY <1>1, <1>2, <2>1, <2>3, StepSucceeds
<1>4. CASE /\ Goto("removeTemp", "FILE_IO_ERROR")
           /\ (Faulted \/ UNCHANGED call)
           /\ UNCHANGED disk
  <2>1. SameCall /\ UNCHANGED Files /\ pc' # "idle"
    BY <1>1, <1>4, RunningCall, FaultedCall, TempUnseen DEF Goto
  <2> QED
    BY <1>1, <2>1, StepHidden
<1> QED
  BY <1>3, <1>4 DEF Move

LEMMA RemoveTempRefines ==
    ASSUME FileInv, RemoveTemp
    PROVE  OutputStep
<1>1. /\ pc = "removeTemp" /\ pc # "idle" /\ UNCHANGED <<calls, status>> /\ Delete(Temp)
      /\ pc' = IF call.created /\ status # "NO_ERROR" THEN "removeOutput" ELSE "idle"
  BY DEF RemoveTemp, Goto
<1>2. status = "NO_ERROR" => call.result # Absent /\ disk[call.output] = call.result
  BY <1>1 DEF FileInv, PlaceInv
<1>3. UNCHANGED disk \/ \E value : disk' = [disk EXCEPT ![Temp] = value]
  BY <1>1 DEF Delete
<1>4. SameCall /\ UNCHANGED Files /\ calls' > 0
  BY <1>1, <1>3, RunningCall, Deleted, TempUnseen
<1>5. CASE pc' # "idle"
  BY <1>1, <1>4, <1>5, StepHidden
<1>6. CASE pc' = "idle" /\ status' # "NO_ERROR"
  BY <1>1, <1>4, <1>6, StepFails
<1>7. CASE pc' = "idle" /\ status' = "NO_ERROR"
  <2>1. Files[call.output] = call.result /\ call.result # Absent
    BY <1>1, <1>2, <1>7, RunningCall
  <2>2. Files' = [Files EXCEPT ![call.output] = call.result]
    BY <1>4, <2>1 DEF Files
  <2> QED
    BY <1>1, <1>4, <1>7, <2>1, <2>2, StepSucceeds
<1> QED
  BY <1>5, <1>6, <1>7

LEMMA RemoveOutputRefines ==
    ASSUME FileInv, RemoveOutput
    PROVE  OutputStep
<1>1. /\ pc = "removeOutput" /\ pc # "idle" /\ UNCHANGED <<calls, status>>
      /\ Delete(call.output) /\ pc' = "idle"
  BY DEF RemoveOutput, Goto
<1>2. call.op # "DecryptFile" /\ status # "NO_ERROR"
  BY <1>1 DEF FileInv, PlaceInv
<1>3. SameCall /\ calls' > 0
  BY <1>1, RunningCall, Deleted
<1>4. UNCHANGED Files \/ Files' = [Files EXCEPT ![call.output] = Absent]
  BY <1>1, RunningCall, FilesPut, TempUnseen DEF Delete
<1> QED
  BY <1>1, <1>2, <1>3, <1>4, StepFails

\* The calls implement OutputFile where what DecryptFile moves into place is the
\* document of the message.
LEMMA RefinesIfDocumentReplaces == Spec /\ []ReplacesWithDocument => ImplementsOutputFile
<1>1. Init => Job = Output!NoJob
  <2> SUFFICES ASSUME Init
               PROVE  Job = Output!NoJob
    OBVIOUS
  <2>1. JobState = "none" /\ call = NoCall
    BY DEF Init, JobState
  <2> QED
    BY <2>1 DEF Job, Output!NoJob, NoCall
<1>2. FileInv /\ ReplacesWithDocument /\ [Next]_fileVars => [Output!OutputNext]_<<Files, Job>>
  <2> SUFFICES ASSUME FileInv, ReplacesWithDocument, [Next]_fileVars
               PROVE  OutputStep
    BY DEF OutputStep
  <2>1. CASE Next
    <3>1. CallStep => OutputStep
      BY OpenRefines, CreateTempRefines, CreateOutputRefines, CompressRefines, WriteRefines,
         DecryptStepRefines, DeleteOldRefines, MoveRefines, RemoveTempRefines, RemoveOutputRefines
         DEF CallStep
    <3> QED
      BY <2>1, <3>1, BeginRefines, CrashRefines DEF Next
  <2>2. CASE UNCHANGED fileVars
    BY <2>2 DEF fileVars, OutputStep, Files, Job, JobState
  <2> QED
    BY <2>1, <2>2
<1> QED
  BY <1>1, <1>2, FileInvariant, PTL DEF Spec, ImplementsOutputFile, Output!OutputSpec, Files, Job, JobState

\* For a caller of EncryptFile, EncryptFileCompressed and SignFile nothing is left to
\* check: they implement OutputFile.
THEOREM InPlaceCallsImplementOutput ==
    Spec /\ [](call.op # "DecryptFile") => ImplementsOutputFile
<1>1. FileInv /\ call.op # "DecryptFile" => ReplacesWithDocument
  BY DEF FileInv, PlaceInv, ReplacesWithDocument
<1> QED
  BY <1>1, FileInvariant, RefinesIfDocumentReplaces, PTL
-----------------------------------------------------------------------------
(***************************************************************************)
(* What the streaming reader makes of an intact message. A message is laid *)
(* out in up to three packets, one inside the other, each of a framing of  *)
(* its own; the reader may be anywhere in all three at once. Follows says  *)
(* where: OuterAt places it in the encrypted packet, InnerAt in the packet *)
(* inside, Decoded what the decompressor put out in the literal packet,    *)
(* and each says which octets of its body are disposed of and which are    *)
(* still ahead (Ahead: the rest of a chunk, then the chunks after it with  *)
(* their headers). Every step keeps Follows, accepts the message at its    *)
(* end, or refuses it at an empty last chunk (StepFollows).                *)
(***************************************************************************)

\* A packet: its tag, and but for an indeterminate length the header of its first
\* chunk, then its body.
LEMMA PacketAhead ==
    ASSUME NEW body \in Bytes, NEW framing \in Framings, WellFramed(framing, body), NEW tag \in Nat
    PROVE  /\ Chunking(body, framing.ends)
           /\ At(body, framing.ends, 0, 1)
           /\ framing.form # "indeterminate" =>
                 /\ framing.ends # <<>> \/ Len(body) < LengthModulus
                 /\ Packet(tag, body, framing) =
                       <<An("tag", tag)>> \o (ChunkHeader(body, framing.ends, 1) \o Ahead(body, framing.ends, 0, 1))
           /\ framing.form = "indeterminate" =>
                 /\ framing.ends = <<>>
                 /\ Packet(tag, body, framing) = <<An("oldTag", tag)>> \o Ahead(body, framing.ends, 0, 1)
           /\ Packet(tag, body, framing) \in Bytes
<1> DEFINE ends == framing.ends
<1>1. framing.form \in {"definite", "partial", "indeterminate"} /\ ends \in Seq(Nat) /\ Len(ends) \in Nat /\ Len(body) \in Nat
  BY DEF Framings, Bytes
<1>2. /\ framing.form # "partial" => ends = <<>>
      /\ \A i \in DOMAIN ends : ChunkEnd(body, ends, i - 1) < ChunkEnd(body, ends, i) /\ ChunkEnd(body, ends, i) <= Len(body)
      /\ framing.form # "indeterminate" => Len(body) - ChunkEnd(body, ends, Len(ends)) < LengthModulus
  BY DEF WellFramed
<1>3. Chunking(body, ends)
  <2>1. DOMAIN ends = 1 .. Len(ends)
    BY <1>1
  <2>2. ends # <<>> => framing.form # "indeterminate"
    BY <1>2
  <2> QED
    BY <1>1, <1>2, <2>1, <2>2 DEF Chunking
<1>4. At(body, ends, 0, 1)
  <2>1. 1 \in 1 .. Len(ends) + 1 /\ 1 \in 0 .. Len(ends) + 1 /\ 1 - 1 = 0
    BY <1>1
  <2>2. ChunkEnd(body, ends, 0) = 0 /\ ChunkEnd(body, ends, 1) \in Nat
    BY <1>3, <2>1, EndFacts
  <2> QED
    BY <2>1, <2>2 DEF At
<1>5. Ahead(body, ends, 0, 1) \in Bytes
  BY <1>3, <1>4, AheadFacts
<1>6. 1 \in 1 .. Len(ends) + 1 /\ ChunkHeader(body, ends, 1) \in Bytes
  BY <1>1, <1>3, ChunkHeaderFacts
<1>7. ChunksFrom(body, ends, 1) = ChunkHeader(body, ends, 1) \o Ahead(body, ends, 0, 1)
  <2>1. ChunkEnd(body, ends, 1 - 1) = 0
    BY DEF ChunkEnd
  <2> QED
    BY <1>3, <1>6, <2>1, ChunksUnfold
<1>8. ends = <<>> => Ahead(body, ends, 0, 1) = body
  <2>1. ends = <<>> => 1 = Len(ends) + 1
    BY <1>1
  <2> QED
    BY <1>3, <1>4, <2>1, LastAhead, NoOctets
<1>9. An("tag", tag) \in Octet /\ An("oldTag", tag) \in Octet
  BY AnOctet DEF Kinds
<1>10. CASE framing.form = "indeterminate"
  <2>1. Packet(tag, body, framing) = <<An("oldTag", tag)>> \o body /\ ends = <<>>
    BY <1>2, <1>10 DEF Packet
  <2>2. Packet(tag, body, framing) = <<An("oldTag", tag)>> \o Ahead(body, ends, 0, 1)
    BY <1>8, <2>1
  <2> HIDE DEF ends
  <2>3. <<An("oldTag", tag)>> \o Ahead(body, ends, 0, 1) \in Bytes
    BY <1>5, <1>9, OctetFirst
  <2> QED
    BY <1>3, <1>4, <1>10, <2>1, <2>2, <2>3 DEF ends
<1>11. CASE framing.form = "partial"
  <2>1. Packet(tag, body, framing) = <<An("tag", tag)>> \o ChunksFrom(body, ends, 1)
    BY <1>11 DEF Packet
  <2>2. ends # <<>> \/ Len(body) < LengthModulus
    BY <1>1, <1>2, <1>11 DEF ChunkEnd
  <2> HIDE DEF ends
  <2>3. <<An("tag", tag)>> \o (ChunkHeader(body, ends, 1) \o Ahead(body, ends, 0, 1)) \in Bytes
    BY <1>5, <1>6, <1>9, ConcatBytes, OctetFirst
  <2> QED
    BY <1>3, <1>4, <1>7, <1>11, <2>1, <2>2, <2>3 DEF ends
<1>12. CASE framing.form = "definite"
  <2>1. ends = <<>> /\ Len(ends) = 0
    BY <1>2, <1>12
  <2>2. ChunkEnd(body, ends, 0) = 0 /\ ChunkEnd(body, ends, 1) = Len(body)
    BY <2>1 DEF ChunkEnd
  <2>3. ChunkHeader(body, ends, 1) = appendNewFormatLength(Len(body))
    BY <1>1, <2>1, <2>2 DEF ChunkHeader
  <2>4. Packet(tag, body, framing) = <<An("tag", tag)>> \o appendNewFormatLength(Len(body)) \o body
    BY <1>12 DEF Packet
  <2>5. Len(body) < LengthModulus
    BY <1>1, <1>2, <1>12, <2>1, <2>2
  <2> HIDE DEF ends
  <2>6. Packet(tag, body, framing) = <<An("tag", tag)>> \o (appendNewFormatLength(Len(body)) \o body)
    <3> DEFINE first == <<An("tag", tag)>>
               header == appendNewFormatLength(Len(body))
    <3>1. first \in Bytes /\ header \in Bytes
      BY <1>6, <1>9, <2>3, OctetFirst
    <3> HIDE DEF first, header
    <3>2. (first \o header) \o body = first \o (header \o body)
      BY <3>1, ConcatAssoc
    <3> QED
      BY <2>4, <3>2 DEF first, header
  <2>7. <<An("tag", tag)>> \o (ChunkHeader(body, ends, 1) \o Ahead(body, ends, 0, 1)) \in Bytes
    BY <1>5, <1>6, <1>9, ConcatBytes, OctetFirst
  <2> QED
    BY <1>3, <1>4, <1>8, <1>12, <2>1, <2>3, <2>5, <2>6, <2>7 DEF ends
<1> QED
  BY <1>1, <1>10, <1>11, <1>12
-----------------------------------------------------------------------------
(* The innermost packet: drainDecoded and the writing of the document. *)

\* A literal packet inside a compressed one: what its bytes are.
LiteralFramed(body, framing) ==
    body \in Bytes /\ Len(body) >= 1 /\ framing \in Framings /\ WellFramed(framing, body)

LEMMA LiteralFramedFacts ==
    ASSUME NEW body, NEW framing, LiteralFramed(body, framing)
    PROVE  /\ body \in Bytes /\ Len(body) \in Nat /\ Len(body) >= 1 /\ Chunking(body, framing.ends)
           /\ At(body, framing.ends, 0, 1)
           /\ Packet(Literal, body, framing) \in Bytes /\ Len(framing.ends) \in Nat
<1>1. Literal \in Nat
  BY DEF Literal
<1>2. body \in Bytes /\ Len(body) >= 1 /\ framing \in Framings /\ WellFramed(framing, body)
  BY DEF LiteralFramed
<1>3. Chunking(body, framing.ends) /\ At(body, framing.ends, 0, 1) /\ Packet(Literal, body, framing) \in Bytes
  BY <1>1, <1>2, PacketAhead
<1> QED
  BY <1>2, <1>3, EndFacts

LEMMA NothingDecoded ==
    ASSUME NEW body, NEW framing, LiteralFramed(body, framing)
    PROVE  Decoded(NoLiteral, body, framing, Packet(Literal, body, framing), <<>>)
<1>1. NoLiteral.plain = <<>> /\ NoLiteral = [NoLiteral EXCEPT !.plain = NoLiteral.plain]
  BY DEF NoLiteral
<1> QED
  BY <1>1, LiteralFramedFacts, NoOctets DEF Decoded, HeaderAhead

LEMMA InflateDecodes ==
    ASSUME NEW l \in LiteralStates, NEW body, NEW framing, LiteralFramed(body, framing), NEW t \in Bytes, NEW out,
           Decoded(l, body, framing, t, out), NEW n \in 0 .. Len(t)
    PROVE  Decoded(Inflates(l, SubSeq(t, 1, n)), body, framing, Drop(t, n), out)
<1> DEFINE run == SubSeq(t, 1, n)
           u == Drop(t, n)
           packet == Packet(Literal, body, framing)
<1>1. run \in Bytes /\ Len(run) = n /\ u \in Bytes /\ run \o u = t /\ Len(t) \in Nat /\ n \in Nat
  <2>1. Len(t) \in Nat /\ n \in Nat
    BY NoOctets
  <2> QED
    BY <2>1, TakeFacts, DropFacts, TakeDrop
<1>2. l.raw \in Bytes /\ l.plain \in Bytes
  BY LiteralFields
<1>3. (l.raw \o run) \o u = l.raw \o t /\ (l.plain \o run) \o u = l.plain \o t
  <2> HIDE DEF run, u
  <2>1. run \in Bytes /\ u \in Bytes
    BY <1>1
  <2>2. \A a \in Bytes : (a \o run) \o u = a \o (run \o u)
    BY <2>1, ConcatAssoc
  <2> QED
    BY <1>1, <1>2, <2>2
<1> DEFINE raw == l.raw \o run
           plain == l.plain \o run
           s == Inflates(l, run)
<1>4. s = IF l.partial THEN [l EXCEPT !.raw = raw] ELSE [l EXCEPT !.plain = plain]
  BY DEF Inflates
<1> HIDE DEF run, u, raw, plain, s
<1>5. CASE HeaderAhead(l, packet, t, out)
  <2>1. ~l.partial /\ l.plain \o t = packet /\ out = <<>>
    BY <1>5, HeaderAheadFields
  <2>2. s = [l EXCEPT !.plain = plain]
    BY <1>4, <2>1
  <2>3. s.plain = plain /\ s = [NoLiteral EXCEPT !.plain = s.plain]
    <3>1. l = [NoLiteral EXCEPT !.plain = l.plain]
      BY <1>5 DEF HeaderAhead
    <3>2. s.plain = plain
      BY <2>2 DEF LiteralStates
    <3>3. [l EXCEPT !.plain = plain] = [NoLiteral EXCEPT !.plain = plain]
      BY <3>1 DEF NoLiteral
    <3> QED
      BY <2>2, <3>2, <3>3
  <2>4. plain \o u = packet
    BY <1>3, <2>1 DEF plain
  <2>5. HeaderAhead(s, packet, u, out)
    BY <2>1, <2>3, <2>4 DEF HeaderAhead
  <2> QED
    BY <2>5 DEF Decoded, s, run, u
<1>6. ASSUME NEW q \in 0 .. Len(body), NEW i \in 1 .. Len(framing.ends) + 1, NEW p \in 0 .. q,
             LiteralAt(l, body, framing, t, out, q, i, p)
      PROVE  Decoded(s, body, framing, u, out)
  <2> DEFINE ends == framing.ends
  <2>1. Chunking(body, ends) /\ At(body, ends, q, i) /\ body \in Bytes /\ Len(body) \in Nat
    BY <1>6, LiteralFramedFacts DEF LiteralAt
  <2>2. CASE l.partial
    <3>1. s = [l EXCEPT !.raw = raw]
      BY <1>4, <2>2
    <3>2. s.raw = raw /\ s.headerParsed = l.headerParsed /\ s.prefixParsed = l.prefixParsed
          /\ s.partial = l.partial /\ s.indeterminate = l.indeterminate /\ s.plain = l.plain
          /\ s.chunkRemaining = l.chunkRemaining /\ s.finalChunk = l.finalChunk
          /\ s.contentRemaining = l.contentRemaining
      BY <3>1 DEF LiteralStates
    <3>3. raw \o u = Ahead(body, ends, q, i)
      BY <1>3, <1>6 DEF LiteralAt, raw
    <3>4. ends # <<>>
      BY <1>6, <2>2 DEF LiteralAt
    <3>5. LiteralAt(s, body, framing, u, out, q, i, p)
      BY <1>6, <3>2, <3>3, <3>4 DEF LiteralAt
    <3> QED
      BY <3>5 DEF Decoded
  <2>3. CASE ~l.partial
    <3>1. s = [l EXCEPT !.plain = plain]
      BY <1>4, <2>3
    <3>2. s.raw = l.raw /\ s.headerParsed = l.headerParsed /\ s.prefixParsed = l.prefixParsed
          /\ s.partial = l.partial /\ s.indeterminate = l.indeterminate /\ s.plain = plain
          /\ s.contentRemaining = l.contentRemaining
      BY <3>1 DEF LiteralStates
    <3>3. ends = <<>> /\ l.raw = <<>> /\ Len(ends) = 0
      BY <1>6, <2>3 DEF LiteralAt
    <3>4. i = Len(ends) + 1 /\ i \in Nat /\ q \in Nat
      BY <2>1, <3>3
    <3>5. t = Ahead(body, ends, q, i)
      BY <1>6, <3>3, NoOctets DEF LiteralAt
    <3>6. ChunkEnd(body, ends, i) = Len(body) /\ t = Drop(body, q)
      BY <2>1, <3>4, <3>5, LastAhead
    <3> DEFINE k == q + n
    <3>7. n \in 0 .. Len(body) - q /\ k \in 0 .. Len(body) /\ k \in Nat /\ q <= k /\ k <= Len(body) /\ p \in 0 .. k
      <4>0. q <= Len(body)
        BY <2>1
      <4>1. Len(t) = Len(body) - q
        BY <2>1, <3>4, <3>6, <4>0, DropFacts
      <4> QED
        BY <1>1, <2>1, <3>4, <4>1
    <3>8. At(body, ends, k, i) /\ run = SubSeq(body, q + 1, k) /\ u = Ahead(body, ends, k, i)
      <4>1. Takes(body, ends, q, i)
        BY <2>1, TakeAhead
      <4>2. n \in 0 .. ChunkEnd(body, ends, i) - q
        BY <3>6, <3>7
      <4> QED
        BY <3>5, <4>1, <4>2 DEF Takes, run, u
    <3>9. plain = SubSeq(body, p + 1, k)
      <4>1. l.plain = SubSeq(body, p + 1, q) /\ p \in Nat /\ p <= q
        BY <1>6, <3>4 DEF LiteralAt
      <4> HIDE DEF k
      <4>2. SubSeq(body, p + 1, q) \o SubSeq(body, q + 1, k) = SubSeq(body, p + 1, k)
        BY <2>1, <3>4, <3>7, <4>1, RunsMeet
      <4> QED
        BY <3>8, <4>1, <4>2 DEF plain
    <3> HIDE DEF k
    <3>10. s.raw \o u = Ahead(body, ends, k, i)
      BY <1>1, <3>2, <3>3, <3>8, NoOctets
    <3>11. LiteralAt(s, body, framing, u, out, k, i, p)
      BY <1>6, <3>2, <3>3, <3>7, <3>8, <3>9, <3>10 DEF LiteralAt
    <3> QED
      BY <3>7, <3>11 DEF Decoded
  <2> QED
    BY <2>2, <2>3
<1> QED
  BY <1>5, <1>6 DEF Decoded, s, run, u

\* dechunkPartialBody moves along the literal packet's chunks.
LEMMA DechunkDecodes ==
    ASSUME NEW l \in LiteralStates, NEW body, NEW framing, LiteralFramed(body, framing), NEW t \in Bytes, NEW out,
           Decoded(l, body, framing, t, out), Dechunks(l)
    PROVE  Decoded(Dechunk(l), body, framing, t, out)
<1> DEFINE ends == framing.ends
<1>1. /\ l.partial /\ l.raw # <<>> /\ l.raw \in Bytes /\ l.plain \in Bytes /\ l.chunkRemaining \in Nat
      /\ Len(l.raw) \in Nat
      /\ l.chunkRemaining > 0 \/ (~l.finalChunk /\ Decodes(l.raw))
  BY LiteralFields DEF Dechunks
<1>2. PICK q \in 0 .. Len(body), i \in 1 .. Len(ends) + 1 :
         \E p \in 0 .. q : LiteralAt(l, body, framing, t, out, q, i, p)
  BY <1>1, HeaderAheadFields DEF Decoded
<1>3. PICK p \in 0 .. q : LiteralAt(l, body, framing, t, out, q, i, p)
  BY <1>2
<1> DEFINE e == ChunkEnd(body, ends, i)
           a == Ahead(body, ends, q, i)
<1>4. Chunking(body, ends) /\ At(body, ends, q, i) /\ body \in Bytes /\ Len(body) \in Nat
  BY <1>3, LiteralFramedFacts DEF LiteralAt
<1>5. /\ ends # <<>> /\ l.raw \o t = a /\ l.plain = SubSeq(body, p + 1, q)
      /\ l.chunkRemaining = e - q /\ (l.finalChunk <=> i = Len(ends) + 1)
  BY <1>1, <1>3 DEF LiteralAt
<1>6. /\ e \in Nat /\ q <= e /\ e <= Len(body) /\ q \in Nat /\ p \in Nat /\ p <= q /\ i \in Nat /\ Len(ends) \in Nat
      /\ i \in 1 .. Len(ends) + 1
  <2>1. e \in Nat /\ q <= e /\ e <= Len(body) /\ q \in Nat /\ i \in Nat /\ Len(ends) \in Nat /\ i \in 1 .. Len(ends) + 1
    BY <1>4, AheadFacts
  <2> QED
    BY <2>1
<1> HIDE DEF e, a
<1>7. CASE l.chunkRemaining > 0
  <2> DEFINE take == Min({l.chunkRemaining, Len(l.raw)})
             k == q + take
             plain == l.plain \o SubSeq(l.raw, 1, take)
             raw == Drop(l.raw, take)
             left == l.chunkRemaining - take
  <2>1. Dechunk(l) = [l EXCEPT !.plain = plain, !.raw = raw, !.chunkRemaining = left]
    BY <1>7 DEF Dechunk
  <2>2. take \in Nat /\ take <= l.chunkRemaining /\ take <= Len(l.raw)
    <3> DEFINE counts == {l.chunkRemaining, Len(l.raw)}
    <3>1. counts \in SUBSET Nat /\ counts # {}
      BY <1>1
    <3>2. Min(counts) \in counts /\ \A n \in counts : Min(counts) <= n
      <4> HIDE DEF counts
      <4> QED
        BY <3>1, MinOfCounts
    <3> QED
      BY <1>1, <3>2
  <2> HIDE DEF take
  <2>3. take \in 0 .. e - q /\ take \in 0 .. Len(l.raw) /\ k \in Nat /\ q <= k /\ k <= e /\ k <= Len(body) /\ k \in 0 .. Len(body)
    BY <1>1, <1>4, <1>5, <1>6, <2>2
  <2>4. SubSeq(l.raw, 1, take) = SubSeq(a, 1, take) /\ raw \o t = Drop(a, take)
    <3>1. Splits(l.raw, t, a)
      BY <1>1, <1>5, SplitRun
    <3> QED
      BY <2>3, <3>1 DEF Splits
  <2>5. At(body, ends, k, i) /\ SubSeq(a, 1, take) = SubSeq(body, q + 1, k) /\ Drop(a, take) = Ahead(body, ends, k, i)
    <3>1. Takes(body, ends, q, i)
      BY <1>4, TakeAhead
    <3> QED
      BY <2>3, <3>1 DEF Takes, e, a
  <2>6. plain = SubSeq(body, p + 1, k)
    <3> HIDE DEF k
    <3>1. SubSeq(body, p + 1, q) \o SubSeq(body, q + 1, k) = SubSeq(body, p + 1, k)
      <4>1. body \in Bytes /\ p \in Nat /\ q \in Nat /\ k \in Nat /\ p <= q /\ q <= k /\ k <= Len(body)
        BY <1>4, <1>6, <2>3
      <4> QED
        BY <4>1, RunsMeet
    <3> QED
      BY <1>5, <2>4, <2>5, <3>1
  <2>7. left = e - k /\ p \in 0 .. k
    BY <1>5, <1>6, <2>2
  <2> DEFINE s == [l EXCEPT !.plain = plain, !.raw = raw, !.chunkRemaining = left]
  <2> HIDE DEF plain, raw, left, k
  <2>8. s.raw = raw /\ s.headerParsed = l.headerParsed /\ s.prefixParsed = l.prefixParsed
        /\ s.partial = l.partial /\ s.indeterminate = l.indeterminate /\ s.plain = plain
        /\ s.chunkRemaining = left /\ s.finalChunk = l.finalChunk
        /\ s.contentRemaining = l.contentRemaining
    BY DEF LiteralStates
  <2> HIDE DEF s
  <2>9. LiteralAt(s, body, framing, t, out, k, i, p)
    BY <1>3, <1>5, <2>4, <2>5, <2>6, <2>7, <2>8 DEF LiteralAt, e
  <2>10. Decoded(s, body, framing, t, out)
    BY <2>3, <2>7, <2>9 DEF Decoded
  <2> QED
    BY <2>1, <2>10 DEF s
<1>8. CASE ~(l.chunkRemaining > 0)
  <2>1. q = e /\ i # Len(ends) + 1 /\ Decodes(l.raw)
    BY <1>1, <1>5, <1>6, <1>8
  <2> DEFINE j == i + 1
             h == HeaderSize(a[1])
             raw == Drop(l.raw, h)
             left == a[1].n
             final == a[1].kind # "partial"
  <2>2. /\ At(body, ends, q, j) /\ a[1].n = ChunkEnd(body, ends, j) - q
        /\ (a[1].kind # "partial") = (j = Len(ends) + 1) /\ Drop(a, h) = Ahead(body, ends, q, j)
    BY <1>4, <2>1, NextAhead DEF e, a
  <2>3. l.raw[1] = a[1] /\ Len(l.raw) >= 1
    <3>1. Len(l.raw) >= 1
      BY <1>1, NoOctets
    <3>2. 0 \in 0 .. Len(l.raw)
      BY <1>1
    <3> QED
      BY <1>1, <1>5, <3>1, <3>2, CutRun
  <2>4. Dechunk(l) = [l EXCEPT !.chunkRemaining = left, !.finalChunk = final, !.raw = raw]
    BY <1>8, <2>3 DEF Dechunk
  <2>5. h \in 0 .. Len(l.raw)
    <3>1. h \in {1, 2} /\ Len(l.raw) >= h
      BY <2>1, <2>3 DEF Decodes, HeaderSize
    <3> QED
      BY <1>1, <3>1
  <2>6. raw \o t = Ahead(body, ends, q, j)
    <3> HIDE DEF h
    <3>1. raw \o t = Drop(a, h)
      <4>1. Splits(l.raw, t, a)
        BY <1>1, <1>5, SplitRun
      <4> QED
        BY <2>5, <4>1 DEF Splits
    <3> QED
      BY <2>2, <3>1
  <2>7. j \in 1 .. Len(ends) + 1
    BY <1>6, <2>1
  <2> DEFINE s == [l EXCEPT !.chunkRemaining = left, !.finalChunk = final, !.raw = raw]
  <2>8. left = ChunkEnd(body, ends, j) - q /\ (final <=> j = Len(ends) + 1)
    BY <2>2
  <2> HIDE DEF raw, left, final, j
  <2>9. s.raw = raw /\ s.headerParsed = l.headerParsed /\ s.prefixParsed = l.prefixParsed
        /\ s.partial = l.partial /\ s.indeterminate = l.indeterminate /\ s.plain = l.plain
        /\ s.chunkRemaining = left /\ s.finalChunk = final
        /\ s.contentRemaining = l.contentRemaining
    BY DEF LiteralStates
  <2> HIDE DEF s
  <2>10. LiteralAt(s, body, framing, t, out, q, j, p)
    BY <1>3, <1>5, <2>2, <2>6, <2>8, <2>9 DEF LiteralAt
  <2>11. Decoded(s, body, framing, t, out)
    BY <2>7, <2>10 DEF Decoded
  <2> QED
    BY <2>4, <2>11 DEF s
<1> QED
  BY <1>7, <1>8

\* A packet as its header and what the header frames.
LEMMA PacketCut ==
    ASSUME NEW body \in Bytes, NEW framing \in Framings, WellFramed(framing, body), NEW tag \in Nat
    PROVE  LET packet == Packet(tag, body, framing)
               old == framing.form = "indeterminate"
           IN  /\ packet[1].kind = (IF old THEN "oldTag" ELSE "tag") /\ packet[1].n = tag
               /\ old => framing.ends = <<>> /\ Drop(packet, 1) = Ahead(body, framing.ends, 0, 1) /\ Len(packet) >= 1
               /\ ~old => /\ Drop(packet, 1 + HeaderSize(packet[2])) = Ahead(body, framing.ends, 0, 1)
                          /\ 1 + HeaderSize(packet[2]) <= Len(packet) /\ HeaderSize(packet[2]) \in {1, 2}
                          /\ IsHeader(packet[2])
                          /\ packet[2].n = ChunkEnd(body, framing.ends, 1)
                          /\ (packet[2].kind = "partial" <=> framing.ends # <<>>)
<1> DEFINE packet == Packet(tag, body, framing)
           ends == framing.ends
           a == Ahead(body, ends, 0, 1)
           h == ChunkHeader(body, ends, 1)
<1>3. Chunking(body, ends) /\ At(body, ends, 0, 1) /\ packet \in Bytes /\ Len(ends) \in Nat
  BY PacketAhead, EndFacts
<1>4. a \in Bytes /\ Len(a) \in Nat
  BY <1>3, AheadFacts, NoOctets
<1>5. An("tag", tag) \in Octet /\ An("oldTag", tag) \in Octet
  BY AnOctet DEF Kinds
<1>6. An("tag", tag).kind = "tag" /\ An("oldTag", tag).kind = "oldTag"
      /\ An("tag", tag).n = tag /\ An("oldTag", tag).n = tag
  BY DEF An
<1>7. CASE framing.form = "indeterminate"
  <2>1. ends = <<>> /\ packet = <<An("oldTag", tag)>> \o a
    BY <1>7, PacketAhead
  <2> HIDE DEF packet, a
  <2>2. packet[1] = An("oldTag", tag) /\ Drop(packet, 1) = a /\ Len(packet) = 1 + Len(a)
    BY <1>4, <1>5, <2>1, OctetFirst
  <2>3. Len(packet) >= 1
    BY <1>4, <2>2
  <2> QED
    BY <1>6, <1>7, <2>1, <2>2, <2>3 DEF packet, a
<1>8. CASE framing.form # "indeterminate"
  <2>1. (ends # <<>> \/ Len(body) < LengthModulus) /\ packet = <<An("tag", tag)>> \o (h \o a)
    BY <1>8, PacketAhead
  <2>2. /\ h \in Bytes /\ Len(h) = HeaderSize(h[1]) /\ Len(h) \in {1, 2} /\ IsHeader(h[1])
        /\ (h[1].kind # "partial") = (1 = Len(ends) + 1)
        /\ h[1].n = ChunkEnd(body, ends, 1)
    <3>1. 1 \in 1 .. Len(ends) + 1
      BY <1>3
    <3>2. /\ h \in Bytes /\ Len(h) = HeaderSize(h[1]) /\ Len(h) \in {1, 2} /\ IsHeader(h[1])
          /\ (h[1].kind # "partial") = (1 = Len(ends) + 1)
          /\ h[1].n = ChunkEnd(body, ends, 1) - ChunkEnd(body, ends, 1 - 1)
      BY <1>3, <2>1, <3>1, ChunkHeaderFacts
    <3>3. ChunkEnd(body, ends, 1 - 1) = 0 /\ ChunkEnd(body, ends, 1) \in Nat
      <4>1. ChunkEnd(body, ends, 1 - 1) = 0
        BY DEF ChunkEnd
      <4> QED
        BY <1>3, <4>1, AheadFacts
    <3> QED
      BY <3>2, <3>3
  <2>3. 1 = Len(ends) + 1 <=> ends = <<>>
    <3>1. ends \in Seq(Nat)
      BY <1>3 DEF Chunking
    <3>2. Len(ends) = 0 <=> ends = <<>>
      BY <3>1, EmptySeq
    <3> QED
      BY <1>3, <3>2
  <2> DEFINE c == h \o a
  <2> HIDE DEF packet, a, h
  <2>4. c \in Bytes /\ Len(c) = Len(h) + Len(a) /\ Drop(c, Len(h)) = a
    BY <1>4, <2>2, ConcatBytes, JoinedRest
  <2>5. c[1] = h[1]
    <3>1. \A n \in 1 .. Len(h) : (h \o a)[n] = h[n]
      BY <1>4, <2>2, ConcatAt
    <3> QED
      BY <2>2, <3>1
  <2> HIDE DEF c
  <2>6. packet = <<An("tag", tag)>> \o c
    BY <2>1 DEF c
  <2>7. /\ packet[1] = An("tag", tag) /\ Drop(packet, 1) = c /\ Len(packet) = 1 + Len(c)
        /\ \A n \in 1 .. Len(c) : packet[n + 1] = c[n]
    BY <1>5, <2>4, <2>6, OctetFirst
  <2>8. packet[2] = h[1]
    <3>1. 1 \in 1 .. Len(c)
      BY <1>4, <2>2, <2>4
    <3>2. packet[1 + 1] = c[1]
      BY <2>7, <3>1
    <3> QED
      BY <2>5, <3>2
  <2>9. Drop(packet, 1 + Len(h)) = a /\ 1 + Len(h) <= Len(packet)
    <3>1. 1 + Len(h) <= Len(packet) /\ Len(h) \in Nat
      BY <1>4, <2>2, <2>4, <2>7
    <3>2. packet \in Bytes
      BY <1>3 DEF packet
    <3>3. Drop(Drop(packet, 1), Len(h)) = Drop(packet, 1 + Len(h))
      BY <3>1, <3>2, DropDrop
    <3> QED
      BY <2>4, <2>7, <3>1, <3>3
  <2> QED
    BY <1>6, <1>8, <2>2, <2>3, <2>7, <2>8, <2>9 DEF packet, a
<1> QED
  BY <1>7, <1>8

\* A literal packet as its header and what the header frames.
LEMMA LiteralHeaderCut ==
    ASSUME NEW body, NEW framing, LiteralFramed(body, framing)
    PROVE  LET packet == Packet(Literal, body, framing)
               old == framing.form = "indeterminate"
           IN  /\ packet[1].kind = (IF old THEN "oldTag" ELSE "tag") /\ packet[1].n = Literal
               /\ old => framing.ends = <<>> /\ Drop(packet, 1) = Ahead(body, framing.ends, 0, 1) /\ Len(packet) >= 1
               /\ ~old => /\ Drop(packet, 1 + HeaderSize(packet[2])) = Ahead(body, framing.ends, 0, 1)
                          /\ 1 + HeaderSize(packet[2]) <= Len(packet) /\ HeaderSize(packet[2]) \in {1, 2}
                          /\ IsHeader(packet[2])
                          /\ packet[2].n = ChunkEnd(body, framing.ends, 1)
                          /\ (packet[2].kind = "partial" <=> framing.ends # <<>>)
<1>1. Literal \in Nat
  BY DEF Literal
<1>2. body \in Bytes /\ framing \in Framings /\ WellFramed(framing, body)
  BY DEF LiteralFramed
<1> QED
  BY <1>1, <1>2, PacketCut

\* The literal packet's header, whenever it is complete.
LEMMA HeaderDecodes ==
    ASSUME NEW l \in LiteralStates, NEW body, NEW framing, LiteralFramed(body, framing), NEW t \in Bytes, NEW out,
           Decoded(l, body, framing, t, out), ~l.headerParsed, HeaderComplete(l.plain)
    PROVE  l.plain[1].n = Literal /\ Decoded(ParseLiteralHeader(l), body, framing, t, out)
<1> DEFINE packet == Packet(Literal, body, framing)
           ends == framing.ends
           plain == l.plain
           a0 == Ahead(body, ends, 0, 1)
<1>1. HeaderAhead(l, packet, t, out)
  BY DEF Decoded, LiteralAt
<1>2. /\ ~l.prefixParsed /\ ~l.finalChunk
      /\ plain \o t = packet /\ out = <<>> /\ plain \in Bytes /\ Len(plain) \in Nat
  BY <1>1, HeaderAheadFields, LiteralFields, NoOctets
<1>3. /\ body \in Bytes /\ Len(body) \in Nat /\ Chunking(body, ends)
      /\ At(body, ends, 0, 1) /\ Len(ends) \in Nat
  BY LiteralFramedFacts
<1>4. plain # <<>> /\ (plain[1].kind = "oldTag" \/ (plain[1].kind = "tag" /\ Decodes(Tail(plain))))
  BY DEF HeaderComplete
<1>5. Len(plain) >= 1
  BY <1>2, <1>4, NoOctets
<1>6. Splits(plain, t, packet) /\ plain[1] = packet[1] /\ (Len(plain) >= 2 => plain[2] = packet[2])
  <2>1. 0 \in 0 .. Len(plain)
    BY <1>2
  <2>2. plain[1] = packet[1] /\ (Len(plain) >= 2 => plain[2] = packet[2])
    BY <1>2, <1>5, <2>1, CutRun
  <2> QED
    BY <1>2, <2>2, SplitRun
<1> DEFINE old == framing.form = "indeterminate"
<1>7. /\ packet[1].kind = (IF old THEN "oldTag" ELSE "tag") /\ packet[1].n = Literal
      /\ old => framing.ends = <<>> /\ Drop(packet, 1) = a0 /\ Len(packet) >= 1
      /\ ~old => /\ Drop(packet, 1 + HeaderSize(packet[2])) = a0
                 /\ 1 + HeaderSize(packet[2]) <= Len(packet) /\ HeaderSize(packet[2]) \in {1, 2}
                 /\ IsHeader(packet[2])
                 /\ packet[2].n = ChunkEnd(body, ends, 1)
                 /\ (packet[2].kind = "partial" <=> ends # <<>>)
  BY LiteralHeaderCut
<1> HIDE DEF packet, a0, plain
<1>8. plain[1].n = Literal
  BY <1>6, <1>7
<1> DEFINE s == ParseLiteralHeader(l)
<1>9. ASSUME NEW a \in Bytes, a \o t = a0, ends = <<>>, NEW indeterminate \in BOOLEAN, NEW length \in Nat,
             indeterminate <=> old, ~indeterminate => length = Len(body),
             s = [l EXCEPT !.headerParsed = TRUE, !.partial = FALSE, !.indeterminate = indeterminate,
                           !.raw = <<>>, !.plain = a, !.chunkRemaining = 0, !.contentRemaining = length]
      PROVE  Decoded(s, body, framing, t, out)
  <2> DEFINE q == Len(a)
  <2>1. q \in 0 .. Len(body) /\ At(body, ends, q, 1) /\ a = SubSeq(body, 1, q) /\ t = Ahead(body, ends, q, 1)
    <3>1. a \o t = Ahead(body, ends, 0, 1)
      BY <1>9 DEF a0
    <3>2. ends = <<>> /\ Chunking(body, ends)
      BY <1>3, <1>9
    <3> HIDE DEF ends
    <3>3. Starts(body, ends, a, t)
      BY <3>1, <3>2, BodyStart
    <3> QED
      BY <3>3 DEF Starts
  <2>2. /\ s.headerParsed /\ s.prefixParsed = l.prefixParsed /\ ~s.partial
        /\ s.indeterminate = indeterminate /\ s.raw = <<>> /\ s.plain = a /\ s.contentRemaining = length
    BY <1>9 DEF LiteralStates
  <2>3. SubSeq(body, 2, 0) = <<>> /\ 0 + 1 = 1
    BY <1>3 DEF Bytes
  <2>4. s.raw \o t = Ahead(body, ends, q, 1)
    BY <2>1, <2>2, NoOctets
  <2>5. 1 \in 1 .. Len(ends) + 1 /\ 0 \in 0 .. q /\ Len(body) - 0 = Len(body)
    BY <1>3, <2>1
  <2> HIDE DEF q, s
  <2>6. LiteralAt(s, body, framing, t, out, q, 1, 0)
    BY <1>2, <1>9, <2>1, <2>2, <2>3, <2>4, <2>5 DEF LiteralAt
  <2> QED
    BY <2>1, <2>5, <2>6 DEF Decoded
<1>10. CASE old
  <2> DEFINE a == Drop(plain, 1)
  <2>1. plain[1].kind = "oldTag" /\ ends = <<>>
    BY <1>6, <1>7, <1>10
  <2>2. a \o t = a0
    <3>1. 1 \in 0 .. Len(plain)
      BY <1>2, <1>5
    <3>2. a \o t = Drop(packet, 1)
      BY <1>6, <3>1 DEF Splits
    <3> QED
      BY <1>7, <1>10, <3>2
  <2>3. a \in Bytes
    BY <1>2, <1>5, DropFacts
  <2>4. s = [l EXCEPT !.headerParsed = TRUE, !.partial = FALSE, !.indeterminate = TRUE,
                      !.raw = <<>>, !.plain = a, !.chunkRemaining = 0, !.contentRemaining = 0]
    BY <2>1 DEF ParseLiteralHeader, plain
  <2> HIDE DEF a, s
  <2>5. 0 \in Nat /\ TRUE \in BOOLEAN
    OBVIOUS
  <2>6. Decoded(s, body, framing, t, out)
    BY <1>9, <1>10, <2>1, <2>2, <2>3, <2>4, <2>5
  <2> QED
    BY <1>8, <2>6 DEF s, plain
<1>11. CASE ~old
  <2>1. plain[1].kind = "tag" /\ Decodes(Tail(plain))
    BY <1>4, <1>6, <1>7, <1>11
  <2> DEFINE x == packet[2]
             n == 1 + HeaderSize(x)
             a == Drop(plain, n)
  <2>2. Len(plain) >= 2 /\ plain[2] = x /\ n \in 0 .. Len(plain)
    <3> DEFINE b == Tail(plain)
    <3>1. b \in Bytes /\ Len(b) = Len(plain) - 1 /\ b # <<>> /\ Len(b) >= HeaderSize(b[1])
      BY <1>2, <1>4, <2>1, TailDrops DEF Decodes
    <3>2. Len(b) >= 1
      BY <3>1, NoOctets
    <3>3. Len(plain) >= 2
      BY <1>2, <3>1, <3>2
    <3>4. plain[2] = x
      BY <1>6, <3>3
    <3>5. b[1] = plain[2]
      <4>1. 1 \in 1 .. Len(b)
        BY <1>2, <3>1, <3>2
      <4>2. /\ b = SubSeq(plain, 1 + 1, Len(plain)) /\ 1 <= Len(plain) /\ Len(plain) <= Len(plain) /\ 1 \in Nat
            /\ 1 \in 1 .. Len(plain) - 1
        BY <1>2, <1>4, <3>1, <4>1, TailDrops DEF Drop
      <4> HIDE DEF b
      <4>3. b[1] = plain[1 + 1]
        BY <1>2, <4>2, SubRun
      <4> QED
        BY <4>3
    <3>6. HeaderSize(x) \in {1, 2}
      BY <1>7, <1>11
    <3> HIDE DEF b, x
    <3>7. HeaderSize(x) <= Len(plain) - 1
      BY <3>1, <3>4, <3>5
    <3> QED
      BY <1>2, <3>3, <3>4, <3>6, <3>7
  <2>3. a \o t = a0
    <3> HIDE DEF n
    <3>1. a \o t = Drop(packet, n)
      BY <1>6, <2>2 DEF Splits
    <3> QED
      BY <1>7, <1>11, <3>1 DEF n
  <2>4. a \in Bytes
    <3>1. n \in Nat /\ n <= Len(plain)
      BY <1>2, <2>2
    <3> HIDE DEF n
    <3> QED
      BY <1>2, <3>1, DropFacts
  <2>5. x.n = ChunkEnd(body, ends, 1) /\ (x.kind = "partial" <=> ends # <<>>)
    BY <1>7, <1>11
  <2>6. plain[2].kind = x.kind /\ plain[2].n = x.n /\ Drop(plain, 1 + HeaderSize(plain[2])) = a
    BY <2>2
  <2>7. CASE ends = <<>>
    <3>1. x.kind # "partial" /\ x.n = Len(body)
      <4>1. Len(ends) = 0
        BY <2>7
      <4>2. ChunkEnd(body, ends, 1) = Len(body)
        BY <4>1 DEF ChunkEnd
      <4> QED
        BY <2>5, <2>7, <4>2
    <3>2. s = [l EXCEPT !.headerParsed = TRUE, !.partial = FALSE, !.indeterminate = FALSE,
                        !.raw = <<>>, !.plain = a, !.chunkRemaining = 0, !.contentRemaining = x.n]
      <4> HIDE DEF a, x
      <4>1. plain[1].kind # "oldTag"
        BY <2>1
      <4> QED
        BY <2>6, <3>1, <4>1 DEF ParseLiteralHeader, plain
    <3> DEFINE length == x.n
    <3>3. length \in Nat /\ length = Len(body)
      BY <1>3, <3>1
    <3> HIDE DEF a, s, length
    <3>4. Decoded(s, body, framing, t, out)
      BY <1>9, <1>11, <2>3, <2>4, <2>7, <3>2, <3>3 DEF length
    <3> QED
      BY <1>8, <3>4 DEF s, plain
  <2>8. CASE ends # <<>>
    <3>1. x.kind = "partial"
      BY <2>5, <2>8
    <3>2. s = [l EXCEPT !.headerParsed = TRUE, !.partial = TRUE, !.indeterminate = TRUE,
                        !.raw = a, !.plain = <<>>, !.chunkRemaining = x.n, !.contentRemaining = 0]
      <4> HIDE DEF a, x
      <4>1. plain[1].kind # "oldTag"
        BY <2>1
      <4> QED
        BY <2>6, <3>1, <4>1 DEF ParseLiteralHeader, plain
    <3> HIDE DEF a, x
    <3>3. /\ s.headerParsed /\ s.prefixParsed = l.prefixParsed /\ s.partial
          /\ s.indeterminate /\ s.raw = a /\ s.plain = <<>> /\ s.chunkRemaining = x.n
          /\ s.finalChunk = l.finalChunk
      BY <3>2 DEF LiteralStates
    <3>4. Len(ends) # 0
      <4>1. ends \in Seq(Nat)
        BY <1>3 DEF Chunking
      <4> QED
        BY <2>8, <4>1, EmptySeq
    <3>5. /\ 1 \in 1 .. Len(ends) + 1 /\ 0 \in 0 .. 0 /\ 0 \in 0 .. Len(body) /\ 1 # Len(ends) + 1
      BY <1>3, <3>4
    <3>6. ChunkEnd(body, ends, 1) - 0 = ChunkEnd(body, ends, 1)
      <4>1. ChunkEnd(body, ends, 1) \in Nat
        BY <1>3, AheadFacts
      <4> QED
        BY <4>1
    <3>7. SubSeq(body, 2, 0) = <<>> /\ SubSeq(body, 0 + 1, 0) = <<>>
      BY <1>3 DEF Bytes
    <3>8. ~(0 >= 1)
      OBVIOUS
    <3> HIDE DEF s
    <3>9. s.raw \o t = Ahead(body, ends, 0, 1)
      BY <2>3, <3>3 DEF a0
    <3>10. LiteralAt(s, body, framing, t, out, 0, 1, 0)
      BY <1>2, <1>3, <2>5, <2>8, <3>3, <3>5, <3>6, <3>7, <3>8, <3>9 DEF LiteralAt
    <3>11. Decoded(s, body, framing, t, out)
      BY <3>5, <3>10 DEF Decoded
    <3> QED
      BY <1>8, <3>11 DEF s, plain
  <2> QED
    BY <2>7, <2>8
<1> QED
  BY <1>10, <1>11

\* The literal packet's prefix, which is the first octet of its body.
LEMMA PrefixDecodes ==
    ASSUME NEW l \in LiteralStates, NEW body, NEW framing, LiteralFramed(body, framing), NEW t \in Bytes, NEW out,
           Decoded(l, body, framing, t, out), l.headerParsed, ~l.prefixParsed, l.plain # <<>>
    PROVE  /\ l.indeterminate \/ l.contentRemaining >= 1
           /\ Decoded(ParseLiteralPrefix(l), body, framing, t, out)
<1> DEFINE ends == framing.ends
<1>1. PICK q \in 0 .. Len(body), i \in 1 .. Len(ends) + 1 :
         \E p \in 0 .. q : LiteralAt(l, body, framing, t, out, q, i, p)
  BY HeaderAheadFields DEF Decoded
<1>2. PICK p \in 0 .. q : LiteralAt(l, body, framing, t, out, q, i, p)
  BY <1>1
<1>3. body \in Bytes /\ Len(body) \in Nat /\ Len(body) >= 1 /\ q \in Nat /\ q <= Len(body) /\ p \in Nat
  <2>1. body \in Bytes /\ Len(body) \in Nat /\ Len(body) >= 1
    BY LiteralFramedFacts
  <2> QED
    BY <2>1
<1>4. p = 0
  <2>1. ~(p >= 1)
    BY <1>2 DEF LiteralAt
  <2> QED
    BY <1>3, <2>1
<1>5. l.plain = SubSeq(body, 0 + 1, q) /\ l.plain \in Bytes /\ out = SubSeq(body, 2, 0)
  BY <1>2, <1>4, LiteralFields DEF LiteralAt
<1>6. q >= 1 /\ 0 <= q /\ 1 \in 0 .. q - 0 /\ 0 + 1 + 1 = 2
  <2>1. Len(l.plain) = q - 0
    <3>1. 0 <= q /\ 0 \in Nat
      BY <1>3
    <3> QED
      BY <1>3, <1>5, <3>1, SubRun
  <2>2. Len(l.plain) # 0
    BY <1>5, NoOctets
  <2> QED
    BY <1>3, <2>1, <2>2
<1> DEFINE rest == Tail(l.plain)
<1>7. rest = SubSeq(body, 1 + 1, q)
  <2>1. rest = Drop(l.plain, 1)
    BY <1>5, TailDrops
  <2>2. Drop(SubSeq(body, 0 + 1, q), 1) = SubSeq(body, 0 + 1 + 1, q)
    BY <1>3, <1>6, InnerRun
  <2> QED
    BY <1>5, <2>1, <2>2
<1>8. SubSeq(body, 2, 0) = SubSeq(body, 2, 1)
  BY <1>3 DEF Bytes
<1> DEFINE content == IF l.indeterminate THEN 0 ELSE l.contentRemaining - 1
           s == [l EXCEPT !.prefixParsed = TRUE, !.plain = rest, !.contentRemaining = content]
<1>9. ParseLiteralPrefix(l) = s
  BY DEF ParseLiteralPrefix
<1>10. ~l.indeterminate => l.contentRemaining >= 1 /\ content = Len(body) - 1
  <2>1. ~l.indeterminate => l.contentRemaining = Len(body) - 0
    BY <1>2, <1>4 DEF LiteralAt
  <2> QED
    BY <1>3, <2>1
<1> HIDE DEF rest, content
<1>11. s.raw = l.raw /\ s.headerParsed = l.headerParsed /\ s.prefixParsed
       /\ s.partial = l.partial /\ s.indeterminate = l.indeterminate /\ s.plain = rest
       /\ s.chunkRemaining = l.chunkRemaining /\ s.finalChunk = l.finalChunk
       /\ s.contentRemaining = content
  BY DEF LiteralStates
<1> HIDE DEF s
<1>12. 1 \in 0 .. q /\ 1 >= 1
  BY <1>3, <1>6
<1>13. LiteralAt(s, body, framing, t, out, q, i, 1)
  BY <1>2, <1>5, <1>7, <1>8, <1>10, <1>11, <1>12 DEF LiteralAt
<1>14. Decoded(s, body, framing, t, out)
  BY <1>12, <1>13 DEF Decoded
<1> QED
  BY <1>9, <1>10, <1>14

\* What drainDecoded writes is the next octets of the document.
LEMMA WriteDecodes ==
    ASSUME NEW l \in LiteralStates, NEW body, NEW framing, LiteralFramed(body, framing), NEW t \in Bytes, NEW out,
           Decoded(l, body, framing, t, out), l.prefixParsed,
           NEW s, Written(s, l)
    PROVE  /\ ~l.indeterminate => Len(l.plain) <= l.contentRemaining
           /\ Decoded(s, body, framing, t, out \o l.plain)
<1> DEFINE ends == framing.ends
           more == out \o l.plain
<1>1. PICK q \in 0 .. Len(body), i \in 1 .. Len(ends) + 1 :
         \E p \in 0 .. q : LiteralAt(l, body, framing, t, out, q, i, p)
  BY HeaderAheadFields DEF Decoded
<1>2. PICK p \in 0 .. q : LiteralAt(l, body, framing, t, out, q, i, p)
  BY <1>1
<1>3. body \in Bytes /\ Len(body) \in Nat /\ q \in Nat /\ q <= Len(body) /\ p \in Nat /\ p <= q
  <2>1. body \in Bytes /\ Len(body) \in Nat
    BY LiteralFramedFacts
  <2> QED
    BY <2>1
<1>4. p >= 1
  BY <1>2 DEF LiteralAt
<1>5. l.plain = SubSeq(body, p + 1, q) /\ out = SubSeq(body, 2, p) /\ Len(l.plain) = q - p
  <2>1. l.plain = SubSeq(body, p + 1, q) /\ out = SubSeq(body, 2, p)
    BY <1>2 DEF LiteralAt
  <2> QED
    BY <1>3, <2>1, SubRun
<1>6. more = SubSeq(body, 2, q)
  <2>2. SubSeq(body, 2, p) \o SubSeq(body, p + 1, q) = SubSeq(body, 2, q)
    BY <1>3, <1>4, ContentMeets
  <2>3. l.plain = SubSeq(body, p + 1, q) /\ out = SubSeq(body, 2, p)
    BY <1>5
  <2> QED
    BY <2>2, <2>3
<1>7. ~l.indeterminate => l.contentRemaining = Len(body) - p
  BY <1>2 DEF LiteralAt
<1>8. ~l.indeterminate => Len(l.plain) <= l.contentRemaining /\ l.contentRemaining - Len(l.plain) = Len(body) - q
  <2>1. Len(l.plain) = q - p
    BY <1>5
  <2> QED
    BY <1>3, <1>7, <2>1
<1> DEFINE left == l.contentRemaining - Len(l.plain)
           a == [l EXCEPT !.plain = <<>>]
           b == [l EXCEPT !.plain = <<>>, !.contentRemaining = left]
<1>9. s \in {a, b} /\ (~l.indeterminate => s = b)
  BY DEF Written
<1>10. s.raw = l.raw /\ s.headerParsed = l.headerParsed /\ s.prefixParsed = l.prefixParsed
       /\ s.partial = l.partial /\ s.indeterminate = l.indeterminate /\ s.plain = <<>>
       /\ s.chunkRemaining = l.chunkRemaining /\ s.finalChunk = l.finalChunk
       /\ (~l.indeterminate => s.contentRemaining = left)
  <2> HIDE DEF left
  <2>1. a.raw = l.raw /\ a.headerParsed = l.headerParsed /\ a.prefixParsed = l.prefixParsed
        /\ a.partial = l.partial /\ a.indeterminate = l.indeterminate /\ a.plain = <<>>
        /\ a.chunkRemaining = l.chunkRemaining /\ a.finalChunk = l.finalChunk
    BY DEF LiteralStates
  <2>2. b.raw = l.raw /\ b.headerParsed = l.headerParsed /\ b.prefixParsed = l.prefixParsed
        /\ b.partial = l.partial /\ b.indeterminate = l.indeterminate /\ b.plain = <<>>
        /\ b.chunkRemaining = l.chunkRemaining /\ b.finalChunk = l.finalChunk
        /\ b.contentRemaining = left
    BY DEF LiteralStates
  <2> HIDE DEF a, b
  <2> QED
    BY <1>9, <2>1, <2>2
<1>11. SubSeq(body, q + 1, q) = <<>>
  <2>1. q <= q
    BY <1>3
  <2>2. SubSeq(body, q + 1, q) \in Bytes /\ Len(SubSeq(body, q + 1, q)) = q - q
    BY <1>3, <2>1, SubRun
  <2>3. q - q = 0
    BY <1>3
  <2> QED
    BY <2>2, <2>3, NoOctets
<1>12. q \in 0 .. q /\ q >= 1
  BY <1>3, <1>4
<1> HIDE DEF a, b, more, left
<1>13. (~s.indeterminate => s.contentRemaining = Len(body) - q)
  BY <1>8, <1>10 DEF left
<1>14. LiteralAt(s, body, framing, t, more, q, i, q)
  BY <1>2, <1>4, <1>6, <1>10, <1>11, <1>12, <1>13 DEF LiteralAt
<1>15. Decoded(s, body, framing, t, more)
  BY <1>12, <1>14 DEF Decoded
<1> QED
  BY <1>8, <1>15 DEF more

\* Once everything is inflated and drainDecoded has nothing left to parse, the literal
\* packet has ended and what is waiting is the rest of the document.
LEMMA EndDecodes ==
    ASSUME NEW l \in LiteralStates, NEW body, NEW framing, LiteralFramed(body, framing), NEW out,
           Decoded(l, body, framing, <<>>, out), ~Dechunks(l),
           l.headerParsed \/ ~HeaderComplete(l.plain), ~l.headerParsed \/ l.prefixParsed \/ l.plain = <<>>
    PROVE  /\ l.prefixParsed
           /\ ~l.indeterminate => l.contentRemaining = Len(l.plain)
           /\ l.partial => l.finalChunk /\ l.chunkRemaining = 0 /\ l.raw = <<>>
           /\ out \o l.plain = Drop(body, 1)
<1> DEFINE ends == framing.ends
           packet == Packet(Literal, body, framing)
<1>1. /\ body \in Bytes /\ Len(body) \in Nat /\ Len(body) >= 1 /\ Chunking(body, ends) /\ packet \in Bytes
      /\ Len(packet) \in Nat
  BY LiteralFramedFacts, NoOctets
<1>2. l.raw \in Bytes /\ l.plain \in Bytes
  BY LiteralFields
<1>3. ~HeaderAhead(l, packet, <<>>, out)
  <2> SUFFICES ASSUME HeaderAhead(l, packet, <<>>, out) PROVE FALSE
    OBVIOUS
  <2>1. l.plain = packet /\ ~l.headerParsed
    <3>1. l.plain \o <<>> = packet /\ ~l.headerParsed
      BY HeaderAheadFields
    <3> QED
      BY <1>2, <3>1, NoOctets
  <2> DEFINE old == framing.form = "indeterminate"
  <2>2. /\ packet[1].kind = (IF old THEN "oldTag" ELSE "tag")
        /\ old => Len(packet) >= 1
        /\ ~old => /\ 1 + HeaderSize(packet[2]) <= Len(packet) /\ HeaderSize(packet[2]) \in {1, 2}
                   /\ IsHeader(packet[2])
    BY LiteralHeaderCut
  <2> HIDE DEF packet
  <2>3. packet # <<>>
    BY <1>1, <2>2, NoOctets
  <2>4. CASE old
    BY <2>1, <2>2, <2>3, <2>4 DEF HeaderComplete
  <2>5. CASE ~old
    <3> DEFINE b == Tail(packet)
    <3>1. b = SubSeq(packet, 1 + 1, Len(packet)) /\ b \in Bytes /\ Len(b) = Len(packet) - 1
      BY <1>1, <2>3, TailDrops DEF Drop
    <3>2. Len(packet) >= 2 /\ Len(packet) <= Len(packet) /\ 1 <= Len(packet) /\ 1 \in 1 .. Len(packet) - 1
      BY <1>1, <2>2, <2>5
    <3> HIDE DEF b
    <3>3. b[1] = packet[2]
      <4>1. b[1] = packet[1 + 1]
        BY <1>1, <3>1, <3>2, SubRun
      <4> QED
        BY <4>1
    <3>4. b # <<>> /\ Len(b) >= HeaderSize(packet[2])
      <4>1. Len(b) >= HeaderSize(packet[2]) /\ Len(b) # 0
        BY <1>1, <2>2, <2>5, <3>1
      <4> QED
        BY <3>1, <4>1, NoOctets
    <3>5. Decodes(b)
      BY <2>2, <2>5, <3>3, <3>4 DEF Decodes
    <3> QED
      BY <2>1, <2>2, <2>3, <2>5, <3>5 DEF HeaderComplete, b
  <2> QED
    BY <2>4, <2>5
<1>4. PICK q \in 0 .. Len(body), i \in 1 .. Len(ends) + 1 :
         \E p \in 0 .. q : LiteralAt(l, body, framing, <<>>, out, q, i, p)
  BY <1>3 DEF Decoded
<1>5. PICK p \in 0 .. q : LiteralAt(l, body, framing, <<>>, out, q, i, p)
  BY <1>4
<1> DEFINE a == Ahead(body, ends, q, i)
           e == ChunkEnd(body, ends, i)
<1>6. /\ At(body, ends, q, i) /\ l.headerParsed /\ (l.prefixParsed <=> p >= 1) /\ (l.partial <=> ends # <<>>)
      /\ l.plain = SubSeq(body, p + 1, q) /\ out = SubSeq(body, 2, p)
      /\ (ends = <<>> => l.raw = <<>>)
      /\ (ends # <<>> => l.chunkRemaining = e - q)
      /\ (ends # <<>> => (l.finalChunk <=> i = Len(ends) + 1))
      /\ (~l.indeterminate => l.contentRemaining = Len(body) - p)
  BY <1>5 DEF LiteralAt
<1>7. l.raw = a
  <2>1. l.raw \o <<>> = a
    BY <1>5 DEF LiteralAt
  <2> QED
    BY <1>2, <2>1, NoOctets
<1>8. e \in Nat /\ q <= e /\ e <= Len(body) /\ q \in Nat
  BY <1>1, <1>6, AheadFacts
<1>9. q < e \/ i # Len(ends) + 1 <=> a # <<>>
  BY <1>1, <1>6, LastAhead
<1>10. i = Len(ends) + 1 => e = Len(body)
  BY <1>1, <1>6, LastAhead
<1>11. q = e /\ i # Len(ends) + 1 => Decodes(a)
  BY <1>1, <1>6, NextAhead
<1> HIDE DEF a, e
<1>12. a = <<>>
  <2> SUFFICES ASSUME a # <<>> PROVE FALSE
    OBVIOUS
  <2>1. ends # <<>> /\ l.partial /\ l.raw # <<>>
    BY <1>6, <1>7
  <2>2. CASE q < e
    <3>1. l.chunkRemaining > 0
      BY <1>6, <1>8, <2>1, <2>2
    <3> QED
      BY <2>1, <3>1 DEF Dechunks
  <2>3. CASE ~(q < e)
    <3>1. q = e /\ i # Len(ends) + 1
      BY <1>8, <1>9, <2>3
    <3>2. Decodes(l.raw) /\ ~l.finalChunk
      BY <1>6, <1>7, <1>11, <2>1, <3>1
    <3> QED
      BY <2>1, <3>2 DEF Dechunks
  <2> QED
    BY <2>2, <2>3
<1>13. q = e /\ i = Len(ends) + 1 /\ q = Len(body)
  BY <1>8, <1>9, <1>10, <1>12
<1>14. p \in Nat /\ p <= q /\ q \in Nat /\ q <= Len(body) /\ q >= 1
  BY <1>1, <1>8, <1>13
<1>15. Len(l.plain) = q - p
  BY <1>1, <1>6, <1>14, SubRun
<1>16. l.prefixParsed /\ p >= 1
  <2> SUFFICES ASSUME ~(p >= 1) PROVE FALSE
    BY <1>6
  <2>1. Len(l.plain) # 0
    BY <1>14, <1>15
  <2>2. l.plain = <<>>
    BY <1>6
  <2> QED
    BY <1>2, <2>1, <2>2, NoOctets
<1>17. ~l.indeterminate => l.contentRemaining = Len(l.plain)
  BY <1>6, <1>13, <1>15
<1>18. l.partial => l.finalChunk /\ l.chunkRemaining = 0 /\ l.raw = <<>>
  BY <1>6, <1>7, <1>8, <1>12, <1>13
<1>19. out \o l.plain = Drop(body, 1)
  <2>2. SubSeq(body, 2, p) \o SubSeq(body, p + 1, q) = SubSeq(body, 2, q)
    BY <1>1, <1>14, <1>16, ContentMeets
  <2>3. l.plain = SubSeq(body, p + 1, q) /\ out = SubSeq(body, 2, p)
    BY <1>6
  <2>4. Drop(body, 1) = SubSeq(body, 2, q)
    BY <1>13 DEF Drop
  <2> QED
    BY <2>2, <2>3, <2>4
<1> QED
  BY <1>16, <1>17, <1>18, <1>19
-----------------------------------------------------------------------------
(* Packets that were never deflated. *)

LEMMA PlainPacket ==
    ASSUME NEW body \in Plain, NEW framing \in Framings, WellFramed(framing, body), NEW tag \in Nat
    PROVE  Packet(tag, body, framing) \in Plain
<1>1. body \in Bytes /\ Len(body) \in Nat
  BY PlainRuns, NoOctets
<1>2. <<An("tag", tag)>> \in Plain /\ <<An("oldTag", tag)>> \in Plain
  BY PlainRuns DEF Kinds
<1>3. appendNewFormatLength(Len(body)) \in Plain
  BY <1>1, PlainLength
<1>4. ChunksFrom(body, framing.ends, 1) \in Plain
  <2>1. Chunking(body, framing.ends)
    BY <1>1, PacketAhead
  <2>2. Len(framing.ends) \in Nat
    BY <2>1, EndFacts
  <2>3. 1 \in 1 .. Len(framing.ends) + 2
    BY <2>2
  <2> QED
    BY <2>1, <2>3, PlainChunks
<1>5. framing.form \in {"definite", "partial", "indeterminate"}
  BY DEF Framings
<1> QED
  BY <1>2, <1>3, <1>4, <1>5, PlainRuns DEF Packet

-----------------------------------------------------------------------------
(* The parts of a message that is intact. *)

Readable(m, document) == m \in MessageRecords /\ document \in Plain /\ Intact(m, document)

InnerPacket(m, document) == Packet(InnerTag(m), InnerBody(m, document), InnerFraming(m))

LEMMA LiteralBodyFacts ==
    ASSUME NEW m, NEW document, Readable(m, document)
    PROVE  /\ document \in Bytes
           /\ LiteralBody(document) \in Plain /\ LiteralBody(document) \in Bytes
           /\ Len(LiteralBody(document)) = 1 + Len(document) /\ Len(document) \in Nat
           /\ Drop(LiteralBody(document), 1) = document
           /\ LiteralFramed(LiteralBody(document), m.literal)
           /\ LiteralPacket(m, document) \in Plain /\ LiteralPacket(m, document) \in Bytes
           /\ Len(LiteralPacket(m, document)) \in Nat /\ Len(LiteralPacket(m, document)) >= 1
<1> DEFINE body == LiteralBody(document)
<1>1. document \in Plain /\ document \in Bytes /\ Len(document) \in Nat
  BY PlainRuns, NoOctets DEF Readable
<1>2. An("name", 0) \in Octet /\ <<An("name", 0)>> \in Plain /\ Literal \in Nat
  BY AnOctet, PlainRuns DEF Kinds, Literal
<1>3. body \in Plain /\ body \in Bytes
  BY <1>1, <1>2, PlainRuns DEF LiteralBody
<1>4. Len(body) = 1 + Len(document) /\ Drop(body, 1) = document
  BY <1>1, <1>2, OctetFirst DEF LiteralBody
<1>5. m.literal \in Framings /\ WellFramed(m.literal, body)
  BY DEF Readable, MessageRecords, Intact
<1>6. LiteralFramed(body, m.literal)
  BY <1>1, <1>3, <1>4, <1>5 DEF LiteralFramed
<1> HIDE DEF body
<1>7. Packet(Literal, body, m.literal) \in Plain
  BY <1>2, <1>3, <1>5, PlainPacket
<1>8. Packet(Literal, body, m.literal) \in Bytes /\ Len(Packet(Literal, body, m.literal)) \in Nat
  BY <1>7, PlainRuns, NoOctets
<1>9. Len(Packet(Literal, body, m.literal)) >= 1
  <2> DEFINE packet == Packet(Literal, body, m.literal)
             old == m.literal.form = "indeterminate"
  <2>1. /\ old => Len(packet) >= 1
        /\ ~old => 1 + HeaderSize(packet[2]) <= Len(packet) /\ HeaderSize(packet[2]) \in {1, 2}
    BY <1>6, LiteralHeaderCut
  <2> HIDE DEF packet
  <2>2. Len(packet) \in Nat
    BY <1>8 DEF packet
  <2>3. Len(packet) >= 1
    BY <2>1, <2>2
  <2> QED
    BY <2>3 DEF packet
<1> QED
  BY <1>1, <1>3, <1>4, <1>6, <1>7, <1>8, <1>9 DEF body, LiteralPacket

\* The packet inside the encrypted one; what a compressed one holds.
LEMMA InnerFacts ==
    ASSUME NEW m, NEW document, Readable(m, document)
    PROVE  LET body == InnerBody(m, document)
               framing == InnerFraming(m)
           IN  /\ InnerTag(m) \in Nat
               /\ framing \in Framings /\ WellFramed(framing, body)
               /\ body \in Bytes /\ Len(body) \in Nat /\ Len(body) >= 1
               /\ Chunking(body, framing.ends) /\ At(body, framing.ends, 0, 1) /\ Len(framing.ends) \in Nat
               /\ InnerPacket(m, document) \in Bytes /\ Len(InnerPacket(m, document)) \in Nat
               /\ m.algorithm = NotCompressed => InnerTag(m) = Literal /\ body = LiteralBody(document)
               /\ m.algorithm # NotCompressed =>
                     /\ InnerTag(m) = Compressed
                     /\ m.algorithm \in Nat /\ m.algorithm <= 3
                     /\ body[1] = An("algorithm", m.algorithm)
                     /\ Len(body) = 1 + Len(LiteralPacket(m, document))
                     /\ Drop(body, 1) = IF m.algorithm = 0 THEN LiteralPacket(m, document)
                                        ELSE Deflated(LiteralPacket(m, document))
<1> DEFINE body == InnerBody(m, document)
           framing == InnerFraming(m)
           packet == LiteralPacket(m, document)
           wire == IF m.algorithm = 0 THEN packet ELSE Deflated(packet)
<1>1. InnerTag(m) \in Nat
  BY DEF InnerTag, Literal, Compressed
<1>2. framing \in Framings /\ WellFramed(framing, body) /\ m.algorithm <= 3 /\ m.algorithm \in Nat \cup {NotCompressed}
  BY DEF Readable, MessageRecords, Intact, InnerFraming
<1>3. CASE m.algorithm = NotCompressed
  <2>1. InnerTag(m) = Literal /\ body = LiteralBody(document)
    BY <1>3 DEF InnerTag, InnerBody
  <2>2. body \in Bytes /\ Len(body) \in Nat /\ Len(body) >= 1
    <3>1. body \in Bytes /\ Len(body) = 1 + Len(document) /\ Len(document) \in Nat
      BY <2>1, LiteralBodyFacts
    <3> QED
      BY <3>1
  <2> HIDE DEF body, framing
  <2>3. Chunking(body, framing.ends) /\ At(body, framing.ends, 0, 1) /\ Packet(InnerTag(m), body, framing) \in Bytes
    BY <1>1, <1>2, <2>2, PacketAhead
  <2>4. Len(framing.ends) \in Nat /\ Len(Packet(InnerTag(m), body, framing)) \in Nat
    BY <2>3, EndFacts, NoOctets
  <2> QED
    BY <1>1, <1>2, <1>3, <2>1, <2>2, <2>3, <2>4 DEF body, framing, InnerPacket
<1>4. CASE m.algorithm # NotCompressed
  <2>1. InnerTag(m) = Compressed /\ m.algorithm \in Nat /\ m.algorithm <= 3
    BY <1>2, <1>4 DEF InnerTag
  <2>2. packet \in Bytes /\ Len(packet) \in Nat
    BY LiteralBodyFacts
  <2>3. wire \in Bytes /\ Len(wire) = Len(packet)
    BY <2>2, DeflatedBytes
  <2>4. body = <<An("algorithm", m.algorithm)>> \o wire
    BY <1>4 DEF InnerBody, CompressedBody
  <2>5. An("algorithm", m.algorithm) \in Octet
    BY <2>1, AnOctet DEF Kinds
  <2>6. body \in Bytes /\ Len(body) = 1 + Len(wire) /\ body[1] = An("algorithm", m.algorithm) /\ Drop(body, 1) = wire
    <3> HIDE DEF body, wire, packet
    <3> QED
      BY <2>3, <2>4, <2>5, OctetFirst
  <2> HIDE DEF body, wire, packet
  <2>7. Len(body) \in Nat /\ Len(body) >= 1 /\ Len(body) = 1 + Len(packet)
    BY <2>2, <2>3, <2>6
  <2> HIDE DEF framing
  <2>8. Chunking(body, framing.ends) /\ At(body, framing.ends, 0, 1) /\ Packet(InnerTag(m), body, framing) \in Bytes
    BY <1>1, <1>2, <2>6, PacketAhead
  <2>9. Len(framing.ends) \in Nat /\ Len(Packet(InnerTag(m), body, framing)) \in Nat
    BY <2>8, EndFacts, NoOctets
  <2> QED
    BY <1>1, <1>2, <1>4, <2>1, <2>6, <2>7, <2>8, <2>9 DEF body, framing, wire, packet, InnerPacket
<1> QED
  BY <1>3, <1>4

\* The encrypted packet's body: the version, the random octets, the packet, the MDC.
LEMMA OuterFacts ==
    ASSUME NEW m, NEW document, Readable(m, document)
    PROVE  LET body == OuterBody(m, document)
           IN  /\ body \in Bytes /\ Len(body) = 3 + Len(InnerPacket(m, document))
               /\ Chunking(body, m.outer.ends) /\ At(body, m.outer.ends, 0, 1)
               /\ body[1] = An("version", 1)
               /\ Drop(body, 1) = <<An("random", 0)>> \o (InnerPacket(m, document) \o Mdc)
               /\ InnerPacket(m, document) \o Mdc \in Bytes
               /\ Len(InnerPacket(m, document) \o Mdc) = Len(InnerPacket(m, document)) + 1
               /\ Len(body) <= SizeModulus
<1> DEFINE body == OuterBody(m, document)
           packet == InnerPacket(m, document)
           v == An("version", 1)
           x == An("random", 0)
<1>1. packet \in Bytes /\ Len(packet) \in Nat
  BY InnerFacts
<1>2. v \in Octet /\ x \in Octet /\ An("mdc", 1) \in Octet
  BY AnOctet DEF Kinds
<1>3. Mdc \in Bytes /\ Len(Mdc) = 1 /\ <<v>> \in Bytes /\ <<x>> \in Bytes
  <2> HIDE DEF v, x
  <2>1. \A y \in Octet : <<y>> \in Bytes /\ Len(<<y>>) = 1
    BY DEF Bytes
  <2> QED
    BY <1>2, <2>1 DEF Mdc
<1>4. body = (<<v, x>> \o packet) \o Mdc
  BY DEF OuterBody, SeipBody, InnerPacket, Readable, Intact, Mdc
<1> HIDE DEF body, packet, v, x
<1>5. <<v, x>> = <<v>> \o <<x>>
  <2> DEFINE a == <<v, x>>
             b == <<v>> \o <<x>>
  <2>1. a \in Bytes /\ Len(a) = 2 /\ a[1] = v /\ a[2] = x
    BY <1>2 DEF Bytes
  <2>2. b \in Bytes /\ Len(b) = 2 /\ b[1] = v /\ b[2] = x
    <3>1. <<x>> \in Bytes /\ Len(<<x>>) = 1 /\ <<x>>[1] = x
      BY <1>2 DEF Bytes
    <3> DEFINE c == <<x>>
    <3> HIDE DEF c
    <3>2. c \in Bytes /\ Len(c) = 1 /\ c[1] = x /\ 1 \in 1 .. Len(c)
      BY <3>1 DEF c
    <3>3. /\ <<v>> \o c \in Bytes /\ Len(<<v>> \o c) = 1 + Len(c) /\ (<<v>> \o c)[1] = v
          /\ \A n \in 1 .. Len(c) : (<<v>> \o c)[n + 1] = c[n]
      BY <1>2, <3>2, OctetFirst
    <3> DEFINE w == <<v>> \o c
    <3> HIDE DEF w
    <3>4. w \in Bytes /\ Len(w) = 1 + Len(c) /\ w[1] = v /\ \A n \in 1 .. Len(c) : w[n + 1] = c[n]
      BY <3>3 DEF w
    <3>5. w[1 + 1] = c[1]
      BY <3>2, <3>4
    <3>6. w \in Bytes /\ Len(w) = 2 /\ w[1] = v /\ w[2] = x
      BY <3>2, <3>4, <3>5
    <3> QED
      BY <3>6 DEF c, w
  <2> HIDE DEF a, b
  <2>3. \A n \in 1 .. Len(a) : a[n] = b[n]
    BY <2>1, <2>2
  <2>4. a = b
    BY <2>1, <2>2, <2>3, EqualRuns
  <2> QED
    BY <2>4 DEF a, b
<1>6. packet \o Mdc \in Bytes /\ Len(packet \o Mdc) = Len(packet) + 1
  BY <1>1, <1>3, ConcatBytes
<1>7. <<x>> \o (packet \o Mdc) \in Bytes /\ Len(<<x>> \o (packet \o Mdc)) = 1 + (Len(packet) + 1)
  BY <1>2, <1>6, OctetFirst
<1>8. body = <<v>> \o (<<x>> \o (packet \o Mdc))
  <2>1. <<v>> \o <<x>> \in Bytes
    BY <1>3, ConcatBytes
  <2> HIDE DEF Mdc
  <2> DEFINE vx == <<v>> \o <<x>>
  <2>2. (vx \o packet) \o Mdc = vx \o (packet \o Mdc)
    <3> HIDE DEF vx
    <3> QED
      BY <1>1, <1>3, <2>1, ConcatAssoc DEF vx
  <2> DEFINE y == packet \o Mdc
             a == <<v>>
             b == <<x>>
  <2>3. (a \o b) \o y = a \o (b \o y)
    <3> HIDE DEF y, a, b
    <3> QED
      BY <1>3, <1>6, ConcatAssoc DEF y, a, b
  <2> QED
    BY <1>4, <1>5, <2>2, <2>3
<1> DEFINE z == <<x>> \o (packet \o Mdc)
<1>9. body \in Bytes /\ Len(body) = 1 + Len(z) /\ body[1] = v /\ Drop(body, 1) = z
  <2> HIDE DEF z
  <2>1. body = <<v>> \o z /\ z \in Bytes
    BY <1>7, <1>8 DEF z
  <2> QED
    BY <1>2, <2>1, OctetFirst
<1>10. Len(body) = 3 + Len(packet)
  BY <1>1, <1>7, <1>9
<1>11. m.outer \in Framings /\ WellFramed(m.outer, body) /\ Len(body) <= SizeModulus
  BY DEF Readable, MessageRecords, Intact, body
<1>12. Chunking(body, m.outer.ends) /\ At(body, m.outer.ends, 0, 1)
  <2>1. Seip \in Nat
    BY DEF Seip
  <2> QED
    BY <1>9, <1>11, <2>1, PacketAhead
<1> QED
  BY <1>6, <1>9, <1>10, <1>11, <1>12 DEF body, packet, v, x

-----------------------------------------------------------------------------
(* The framing of the packet inside the encrypted one. *)

\* What q octets of the body of the inner packet have become.
Content(r, m, document, q, out) ==
    IF m.algorithm = NotCompressed THEN out = SubSeq(LiteralBody(document), 2, q)
    ELSE IF q = 0 THEN r.literal = NoLiteral /\ out = <<>>
    ELSE /\ r.algorithm = m.algorithm
         /\ Decoded(r.literal, LiteralBody(document), m.literal, Drop(LiteralPacket(m, document), q - 1), out)

\* The reader is q octets into the body of the inner packet, in its chunk i; u is what
\* the encrypted packet still holds, from the octets waiting in pending on.
InnerPlace(r, u, m, document, out, q, i) ==
    LET body == InnerBody(m, document)
        ends == InnerFraming(m).ends
    IN  /\ At(body, ends, q, i)
        /\ u = Ahead(body, ends, q, i) \o Mdc
        /\ r.innerTag = InnerTag(m)
        /\ r.remaining = ChunkEnd(body, ends, i) - q
        /\ (r.innerPartial <=> ends # <<>>)
        /\ ends # <<>> => (r.innerFinalChunk <=> i = Len(ends) + 1)
        /\ Content(r, m, document, q, out)

InnerPhase(r, m, document, out, q, i) ==
    LET body == InnerBody(m, document)
        ends == InnerFraming(m).ends
    IN  /\ r.phase \in {"literal", "algorithm", "take", "chunk", "drain", "trailer"}
        /\ r.phase = "literal" => q = 0 /\ i = 1 /\ m.algorithm = NotCompressed
        /\ r.phase = "algorithm" => q = 0 /\ i = 1 /\ m.algorithm # NotCompressed
        /\ r.phase = "take" => q > 0 /\ r.remaining > 0
        /\ r.phase = "chunk" => q > 0 /\ r.remaining = 0 /\ ends # <<>>
        /\ r.phase = "drain" => q > 0 /\ m.algorithm # NotCompressed
        /\ r.phase = "trailer" => q = Len(body) /\ i = Len(ends) + 1 /\ out = document
        /\ i = Len(ends) + 1 => (r.phase = "chunk" <=> EndsWithEmptyChunk(m, document))

InnerAt(r, u, m, document, out, q, i) ==
    InnerPlace(r, u, m, document, out, q, i) /\ InnerPhase(r, m, document, out, q, i)

InnerFollows(r, u, m, document, out) ==
    \/ /\ r.phase \in {"random", "header"}
       /\ u = (IF r.phase = "random" THEN <<An("random", 0)>> ELSE <<>>) \o (InnerPacket(m, document) \o Mdc)
       /\ r.literal = NoLiteral
       /\ ~r.innerFinalChunk
       /\ out = <<>>
    \/ \E q \in 0 .. Len(InnerBody(m, document)), i \in 1 .. (Len(InnerFraming(m).ends) + 1) :
          InnerAt(r, u, m, document, out, q, i)

\* What a step may do in an intact message: go on in it, accept it at its end, or
\* refuse it at an empty last chunk.
GoesOn(next, r, w, m, document, out) ==
    /\ next.phase # "done"
    /\ SameOuter(next, r)
    /\ InnerFollows(next, next.pending \o w, m, document, out \o next.output)

Accepts(next, m, document, out) ==
    /\ next.phase = "done" /\ next.code = "NO_ERROR" /\ next.output = <<>>
    /\ out = document /\ ~EndsWithEmptyChunk(m, document)

Refuses(next, m, document) ==
    /\ next.phase = "done" /\ next.code = "INVALID_DATA" /\ next.output = <<>>
    /\ EndsWithEmptyChunk(m, document)

Moves(next, r, w, m, document, out) ==
    \/ GoesOn(next, r, w, m, document, out)
    \/ Accepts(next, m, document, out)
    \/ Refuses(next, m, document)

\* The reader's place in a body as numbers.
LEMMA PlaceFacts ==
    ASSUME NEW m, NEW document, Readable(m, document), NEW r, NEW u, NEW out, NEW q, NEW i,
           InnerPlace(r, u, m, document, out, q, i)
    PROVE  LET body == InnerBody(m, document)
               ends == InnerFraming(m).ends
               e == ChunkEnd(body, ends, i)
           IN  /\ Chunking(body, ends) /\ At(body, ends, q, i)
               /\ body \in Bytes /\ Len(body) \in Nat /\ Len(body) >= 1 /\ Len(ends) \in Nat
               /\ q \in Nat /\ q \in 0 .. Len(body) /\ i \in 1 .. Len(ends) + 1 /\ i \in Nat
               /\ e \in Nat /\ q <= e /\ e <= Len(body)
               /\ i = Len(ends) + 1 => e = Len(body)
               /\ i = Len(ends) + 1 /\ q < e => ~EndsWithEmptyChunk(m, document)
<1> DEFINE body == InnerBody(m, document)
           ends == InnerFraming(m).ends
           e == ChunkEnd(body, ends, i)
<1>1. Chunking(body, ends) /\ body \in Bytes /\ Len(body) \in Nat /\ Len(body) >= 1 /\ Len(ends) \in Nat
  BY InnerFacts
<1>2. At(body, ends, q, i)
  BY DEF InnerPlace
<1>3. /\ q \in Nat /\ q \in 0 .. Len(body) /\ i \in 1 .. Len(ends) + 1 /\ i \in Nat
      /\ e \in Nat /\ q <= e /\ e <= Len(body)
  BY <1>1, <1>2, AheadFacts
<1>4. i = Len(ends) + 1 => e = Len(body)
  BY <1>1, <1>2, LastAhead
<1>5. ASSUME i = Len(ends) + 1, q < e
      PROVE  ~EndsWithEmptyChunk(m, document)
  <2>1. i - 1 = Len(ends)
    BY <1>1, <1>5
  <2>2. q \in ChunkEnd(body, ends, Len(ends)) .. e
    BY <1>2, <2>1 DEF At
  <2>3. ChunkEnd(body, ends, Len(ends)) \in Nat
    <3>1. Len(ends) \in 0 .. Len(ends) + 1
      BY <1>1
    <3> QED
      BY <1>1, <3>1, EndFacts
  <2>4. ChunkEnd(body, ends, Len(ends)) # Len(body)
    BY <1>1, <1>3, <1>4, <1>5, <2>2, <2>3
  <2> QED
    BY <2>4 DEF EndsWithEmptyChunk
<1> QED
  BY <1>1, <1>2, <1>3, <1>4, <1>5

LEMMA SamePlace ==
    ASSUME NEW r, NEW s, NEW u, NEW m, NEW document, NEW out, NEW q, NEW i,
           InnerPlace(r, u, m, document, out, q, i),
           s.innerTag = r.innerTag, s.remaining = r.remaining, s.innerPartial = r.innerPartial,
           s.innerFinalChunk = r.innerFinalChunk, s.literal = r.literal, s.algorithm = r.algorithm
    PROVE  InnerPlace(s, u, m, document, out, q, i)
<1>1. Content(s, m, document, q, out)
  BY DEF InnerPlace, Content
<1> QED
  BY <1>1 DEF InnerPlace

\* The loop over the body, once something of the body has been read.
LEMMA LoopTopFollows ==
    ASSUME NEW m, NEW document, Readable(m, document), NEW s \in Readers, NEW u, NEW out, NEW q, NEW i,
           InnerPlace(s, u, m, document, out, q, i), q > 0,
           i = Len(InnerFraming(m).ends) + 1 => ~EndsWithEmptyChunk(m, document),
           q = Len(InnerBody(m, document)) /\ m.algorithm # NotCompressed => LiteralEnded(s.literal) /\ out = document
    PROVE  /\ LoopTop(s).phase # "done" /\ LoopTop(s).pending = s.pending /\ LoopTop(s).output = s.output
           /\ SameOuter(LoopTop(s), s)
           /\ InnerAt(LoopTop(s), u, m, document, out, q, i)
<1> DEFINE body == InnerBody(m, document)
           ends == InnerFraming(m).ends
           e == ChunkEnd(body, ends, i)
<1>1. /\ body \in Bytes /\ Len(body) \in Nat /\ Len(ends) \in Nat
      /\ q \in Nat /\ i \in 1 .. Len(ends) + 1
      /\ e \in Nat /\ q <= e /\ e <= Len(body)
      /\ i = Len(ends) + 1 => e = Len(body)
  BY PlaceFacts
<1>2. /\ s.innerTag = InnerTag(m) /\ s.remaining = e - q /\ (s.innerPartial <=> ends # <<>>)
      /\ (ends # <<>> => (s.innerFinalChunk <=> i = Len(ends) + 1))
      /\ Content(s, m, document, q, out)
  BY DEF InnerPlace
<1>3. ASSUME NEW phase, LoopTop(s) = [s EXCEPT !.phase = phase], phase \in {"take", "chunk", "trailer"},
             phase = "take" => s.remaining > 0,
             phase = "chunk" => s.remaining = 0 /\ ends # <<>> /\ i # Len(ends) + 1,
             phase = "trailer" => q = Len(body) /\ i = Len(ends) + 1 /\ out = document
      PROVE  /\ LoopTop(s).phase # "done" /\ LoopTop(s).pending = s.pending /\ LoopTop(s).output = s.output
             /\ SameOuter(LoopTop(s), s)
             /\ InnerAt(LoopTop(s), u, m, document, out, q, i)
  <2> DEFINE n == LoopTop(s)
  <2> HIDE DEF body, ends, e
  <2>1. /\ n.phase = phase /\ n.pending = s.pending /\ n.output = s.output /\ SameOuter(n, s)
        /\ n.innerTag = s.innerTag /\ n.remaining = s.remaining /\ n.innerPartial = s.innerPartial
        /\ n.innerFinalChunk = s.innerFinalChunk /\ n.literal = s.literal /\ n.algorithm = s.algorithm
    <3> HIDE DEF n
    <3>1. n = [s EXCEPT !.phase = phase]
      BY <1>3 DEF n
    <3> QED
      BY <3>1, PhaseFields
  <2> HIDE DEF n
  <2>2. InnerPlace(n, u, m, document, out, q, i)
    BY <2>1, SamePlace
  <2>3. InnerPhase(n, m, document, out, q, i)
    BY <1>3, <2>1 DEF InnerPhase, body, ends
  <2>4. n.phase # "done"
    BY <1>3, <2>1
  <2> QED
    BY <2>1, <2>2, <2>3, <2>4 DEF n, InnerAt
<1>4. s.remaining \in Nat
  BY DEF Readers
<1>5. CASE s.remaining > 0
  <2>1. LoopTop(s) = [s EXCEPT !.phase = "take"]
    BY <1>5 DEF LoopTop
  <2> QED
    BY <1>3, <1>5, <2>1
<1>6. CASE s.remaining = 0 /\ s.innerPartial /\ ~s.innerFinalChunk
  <2>1. LoopTop(s) = [s EXCEPT !.phase = "chunk"]
    BY <1>6 DEF LoopTop
  <2>2. ends # <<>> /\ i # Len(ends) + 1
    BY <1>2, <1>6
  <2> QED
    BY <1>3, <1>6, <2>1, <2>2
<1>7. CASE s.remaining = 0 /\ ~(s.innerPartial /\ ~s.innerFinalChunk)
  <2>1. LoopTop(s) = EndBody(s)
    BY <1>7 DEF LoopTop
  <2>2. i = Len(ends) + 1
    <3>1. CASE ends = <<>>
      <4>1. Len(ends) = 0
        BY <3>1
      <4> QED
        BY <1>1, <4>1
    <3>2. CASE ends # <<>>
      BY <1>2, <1>7, <3>2
    <3> QED
      BY <3>1, <3>2
  <2>3. q = Len(body)
    BY <1>1, <1>2, <1>7, <2>2
  <2>4. out = document /\ EndBody(s) = [s EXCEPT !.phase = "trailer"]
    <3>1. CASE m.algorithm = NotCompressed
      <4>1. s.innerTag # Compressed /\ body = LiteralBody(document)
        <5>1. s.innerTag = Literal /\ body = LiteralBody(document)
          BY <1>2, <3>1, InnerFacts
        <5> QED
          BY <5>1 DEF Literal, Compressed
      <4>2. out = SubSeq(LiteralBody(document), 2, q)
        BY <1>2, <3>1 DEF Content
      <4>3. out = Drop(LiteralBody(document), 1)
        BY <2>3, <4>1, <4>2 DEF Drop
      <4>4. out = document
        BY <4>3, LiteralBodyFacts
      <4> QED
        BY <4>1, <4>4 DEF EndBody
    <3>2. CASE m.algorithm # NotCompressed
      <4>1. LiteralEnded(s.literal) /\ out = document
        BY <2>3, <3>2
      <4> QED
        BY <4>1 DEF EndBody
    <3> QED
      BY <3>1, <3>2
  <2> QED
    BY <1>3, <2>1, <2>2, <2>3, <2>4
<1> QED
  BY <1>4, <1>5, <1>6, <1>7

\* The random octets.
LEMMA RandomFollows ==
    ASSUME NEW m, NEW document, Readable(m, document), NEW r, Sound(r), NEW w \in Bytes, NEW out,
           InnerFollows(r, r.pending \o w, m, document, out), r.output = <<>>, r.phase = "random", Len(r.pending) >= 1
    PROVE  GoesOn([Consume(r, 1) EXCEPT !.phase = "header"], r, w, m, document, out)
<1> DEFINE u == r.pending \o w
           packet == InnerPacket(m, document) \o Mdc
           c == Consume(r, 1)
           n == [c EXCEPT !.phase = "header"]
<1>1. u = <<An("random", 0)>> \o packet /\ r.literal = NoLiteral /\ ~r.innerFinalChunk /\ out = <<>>
  BY DEF InnerFollows, InnerAt, InnerPhase
<1>2. r \in Readers /\ r.pending \in Bytes /\ 1 \in 0 .. Len(r.pending)
  <2>1. r \in Readers /\ r.pending \in Bytes /\ Len(r.pending) \in Nat
    BY ReaderFields
  <2> QED
    BY <2>1
<1>3. c \in Readers /\ c.pending = Drop(r.pending, 1) /\ SameOuter(c, r) /\ c.output = r.output
      /\ c.literal = r.literal /\ c.innerFinalChunk = r.innerFinalChunk
  BY <1>2, ConsumeFields
<1>4. Drop(r.pending, 1) \o w = packet
  <2>1. Drop(r.pending, 1) \o w = Drop(u, 1)
    <3>1. Splits(r.pending, w, u)
      BY Unread
    <3> QED
      BY <1>2, <3>1 DEF Splits
  <2>2. An("random", 0) \in Octet
    BY AnOctet DEF Kinds
  <2>3. packet \in Bytes
    BY OuterFacts
  <2> HIDE DEF packet
  <2>4. Drop(<<An("random", 0)>> \o packet, 1) = packet
    BY <2>2, <2>3, OctetFirst
  <2> QED
    BY <1>1, <2>1, <2>4
<1> HIDE DEF c
<1>5. /\ n.phase = "header" /\ n.pending = c.pending /\ n.output = c.output /\ SameOuter(n, c)
      /\ n.innerFinalChunk = c.innerFinalChunk /\ n.literal = c.literal
  BY <1>3, PhaseFields
<1> HIDE DEF n
<1>6. n.pending \o w = <<>> \o packet
  <2>1. packet \in Bytes
    BY OuterFacts
  <2> QED
    BY <1>3, <1>4, <1>5, <2>1, NoOctets
<1>7. out \o n.output = <<>>
  BY <1>1, <1>3, <1>5, NoOctets
<1>8. SameOuter(n, r)
  BY <1>3, <1>5 DEF SameOuter
<1>9. InnerFollows(n, n.pending \o w, m, document, out \o n.output)
  BY <1>1, <1>3, <1>5, <1>6, <1>7 DEF InnerFollows
<1>10. GoesOn(n, r, w, m, document, out)
  BY <1>5, <1>8, <1>9 DEF GoesOn
<1> QED
  BY <1>10 DEF n, c

\* How much of the packet there is, in front of the MDC.
LEMMA InnerHeaderCut ==
    ASSUME NEW m, NEW document, Readable(m, document)
    PROVE  LET body == InnerBody(m, document)
               ends == InnerFraming(m).ends
               old == InnerFraming(m).form = "indeterminate"
               u == InnerPacket(m, document) \o Mdc
               size == IF old THEN 1 ELSE 1 + HeaderSize(u[2])
           IN  /\ u \in Bytes /\ Len(u) \in Nat /\ Len(u) >= 2 /\ size + 1 <= Len(u) /\ size \in {1, 2, 3}
               /\ u[1].kind = (IF old THEN "oldTag" ELSE "tag") /\ u[1].n = InnerTag(m)
               /\ Drop(u, size) = Ahead(body, ends, 0, 1) \o Mdc
               /\ old => ends = <<>>
               /\ ~old => u[2].n = ChunkEnd(body, ends, 1) /\ (u[2].kind = "partial" <=> ends # <<>>)
               /\ ends = <<>> => Len(u) = size + Len(body) + 1 /\ ChunkEnd(body, ends, 1) = Len(body)
               /\ ChunkEnd(body, ends, 1) \in Nat /\ ChunkEnd(body, ends, 1) >= 1
               /\ Len(u) + 2 <= SizeModulus
<1> DEFINE body == InnerBody(m, document)
           framing == InnerFraming(m)
           ends == framing.ends
           old == framing.form = "indeterminate"
           packet == InnerPacket(m, document)
           u == packet \o Mdc
           a == Ahead(body, ends, 0, 1)
           size == IF old THEN 1 ELSE 1 + HeaderSize(packet[2])
<1>1. /\ InnerTag(m) \in Nat /\ framing \in Framings /\ WellFramed(framing, body) /\ body \in Bytes
      /\ packet \in Bytes /\ Len(packet) \in Nat /\ Chunking(body, ends) /\ At(body, ends, 0, 1)
      /\ Len(body) \in Nat /\ Len(body) >= 1 /\ Len(ends) \in Nat
  BY InnerFacts
<1>2. /\ packet[1].kind = (IF old THEN "oldTag" ELSE "tag") /\ packet[1].n = InnerTag(m)
      /\ old => ends = <<>> /\ Drop(packet, 1) = a /\ Len(packet) >= 1
      /\ ~old => /\ Drop(packet, 1 + HeaderSize(packet[2])) = a
                 /\ 1 + HeaderSize(packet[2]) <= Len(packet) /\ HeaderSize(packet[2]) \in {1, 2}
                 /\ packet[2].n = ChunkEnd(body, ends, 1)
                 /\ (packet[2].kind = "partial" <=> ends # <<>>)
  BY <1>1, PacketCut DEF InnerPacket
<1>3. /\ u \in Bytes /\ Len(u) = Len(packet) + 1 /\ Len(u) + 2 <= SizeModulus
      /\ Mdc \in Bytes /\ Len(Mdc) = 1
  <2>2. Mdc \in Bytes /\ Len(Mdc) = 1
    BY MdcFacts
  <2>3. u \in Bytes /\ Len(u) = Len(packet) + 1 /\ Len(OuterBody(m, document)) = 3 + Len(packet)
        /\ Len(OuterBody(m, document)) <= SizeModulus
    BY OuterFacts
  <2> HIDE DEF u, packet
  <2> QED
    BY <1>1, <2>2, <2>3
<1> HIDE DEF packet, a, body, ends, old, framing
<1>4. size \in {1, 2, 3} /\ size <= Len(packet) /\ Drop(packet, size) = a /\ (~old => Len(packet) >= 2)
  <2>1. CASE old
    BY <1>1, <1>2, <2>1
  <2>2. CASE ~old
    BY <1>1, <1>2, <2>2
  <2> QED
    BY <2>1, <2>2
<1>5. Len(packet) >= 1 /\ u[1] = packet[1] /\ (~old => u[2] = packet[2])
  <2>1. Len(packet) >= 1
    BY <1>1, <1>4
  <2>2. \A n \in 1 .. Len(packet) : (packet \o Mdc)[n] = packet[n]
    BY <1>1, <1>3, ConcatAt
  <2>3. 1 \in 1 .. Len(packet) /\ (~old => 2 \in 1 .. Len(packet))
    BY <1>1, <1>4, <2>1
  <2> QED
    BY <2>1, <2>2, <2>3
<1>6. Drop(u, size) = a \o Mdc
  <2>1. size \in 0 .. Len(packet)
    BY <1>1, <1>4
  <2> HIDE DEF size
  <2>2. Drop(packet \o Mdc, size) = Drop(packet, size) \o Mdc
    BY <1>1, <1>3, <2>1, JoinedRuns
  <2> QED
    BY <1>4, <2>2
<1>7. ChunkEnd(body, ends, 1) \in Nat /\ ChunkEnd(body, ends, 1) >= 1 /\ (ends = <<>> => ChunkEnd(body, ends, 1) = Len(body))
  <2>1. ChunkEnd(body, ends, 1) \in Nat
    BY <1>1, AheadFacts
  <2>2. CASE ends = <<>>
    <3>1. Len(ends) = 0
      BY <2>2
    <3>2. ChunkEnd(body, ends, 1) = Len(body)
      BY <3>1 DEF ChunkEnd
    <3> QED
      BY <1>1, <3>2
  <2>3. CASE ends # <<>>
    <3>1. ends \in Seq(Nat)
      BY <1>1 DEF Chunking
    <3>2. Len(ends) # 0
      BY <2>3, <3>1, EmptySeq
    <3>3. 1 \in 1 .. Len(ends)
      BY <1>1, <3>2
    <3>4. ChunkEnd(body, ends, 1 - 1) < ChunkEnd(body, ends, 1) /\ ChunkEnd(body, ends, 0) = 0
      BY <1>1, <3>3, EndFacts
    <3> QED
      BY <2>1, <2>3, <3>4
  <2> QED
    BY <2>2, <2>3
<1>8. ends = <<>> => Len(u) = size + Len(body) + 1
  <2> SUFFICES ASSUME ends = <<>> PROVE Len(u) = size + Len(body) + 1
    OBVIOUS
  <2>1. Len(ends) = 0 /\ 1 = Len(ends) + 1
    OBVIOUS
  <2>2. a = Drop(body, 0)
    BY <1>1, <2>1, LastAhead DEF a
  <2>3. Len(a) = Len(body)
    BY <1>1, <2>2, NoOctets
  <2>4. Len(Drop(packet, size)) = Len(packet) - size
    <3>1. size \in Nat
      BY <1>4
    <3> HIDE DEF size
    <3> QED
      BY <1>1, <1>4, <3>1, DropFacts
  <2>5. Len(packet) - size = Len(body)
    BY <1>4, <2>3, <2>4
  <2> QED
    BY <1>1, <1>3, <1>4, <2>5
<1>9. Len(u) \in Nat /\ Len(u) >= 2 /\ size + 1 <= Len(u)
  BY <1>1, <1>3, <1>4, <1>5
<1>10. size = (IF old THEN 1 ELSE 1 + HeaderSize(u[2]))
  BY <1>5
<1> HIDE DEF size
<1>11. /\ u \in Bytes /\ Len(u) \in Nat /\ Len(u) >= 2 /\ size + 1 <= Len(u) /\ size \in {1, 2, 3}
       /\ u[1].kind = (IF old THEN "oldTag" ELSE "tag") /\ u[1].n = InnerTag(m)
       /\ Drop(u, size) = a \o Mdc
       /\ old => ends = <<>>
       /\ ~old => u[2].n = ChunkEnd(body, ends, 1) /\ (u[2].kind = "partial" <=> ends # <<>>)
       /\ ends = <<>> => Len(u) = size + Len(body) + 1 /\ ChunkEnd(body, ends, 1) = Len(body)
       /\ ChunkEnd(body, ends, 1) \in Nat /\ ChunkEnd(body, ends, 1) >= 1
       /\ Len(u) + 2 <= SizeModulus
  BY <1>2, <1>3, <1>4, <1>5, <1>6, <1>7, <1>8, <1>9 DEF old, ends
<1> QED
  BY <1>10, <1>11 DEF packet, body, ends, framing, a, old, u

\* The header of the packet inside the encrypted one.
LEMMA InnerHeaderFollows ==
    ASSUME NEW m, NEW document, Readable(m, document), NEW r, Sound(r), NEW w \in Bytes, NEW out,
           r.cipherRemaining = Len(w),
           InnerFollows(r, r.pending \o w, m, document, out), r.output = <<>>, r.phase = "header",
           Len(r.pending) >= Needed(r)
    PROVE  GoesOn(ParseInnerHeader(r), r, w, m, document, out)
<1> DEFINE body == InnerBody(m, document)
           ends == InnerFraming(m).ends
           old == InnerFraming(m).form = "indeterminate"
           p == r.pending
           u == InnerPacket(m, document) \o Mdc
           size == IF old THEN 1 ELSE 1 + HeaderSize(u[2])
           e == ChunkEnd(body, ends, 1)
<1>1. p \o w = u /\ r.literal = NoLiteral /\ ~r.innerFinalChunk /\ out = <<>>
  <2>1. p \o w = <<>> \o u /\ r.literal = NoLiteral /\ ~r.innerFinalChunk /\ out = <<>>
    BY DEF InnerFollows, InnerAt, InnerPhase
  <2>2. u \in Bytes
    BY OuterFacts
  <2> HIDE DEF u
  <2> QED
    BY <2>1, <2>2, NoOctets
<1>2. /\ u \in Bytes /\ Len(u) \in Nat /\ Len(u) >= 2 /\ size + 1 <= Len(u) /\ size \in {1, 2, 3}
      /\ u[1].kind = (IF old THEN "oldTag" ELSE "tag") /\ u[1].n = InnerTag(m)
      /\ Drop(u, size) = Ahead(body, ends, 0, 1) \o Mdc
      /\ old => ends = <<>>
      /\ ~old => u[2].n = e /\ (u[2].kind = "partial" <=> ends # <<>>)
      /\ ends = <<>> => Len(u) = size + Len(body) + 1 /\ e = Len(body)
      /\ e \in Nat /\ e >= 1
      /\ Len(u) + 2 <= SizeModulus
  BY InnerHeaderCut
<1>3. /\ Len(p) \in Nat /\ Splits(p, w, u)
      /\ Len(p) >= 1 => p[1] = u[1]
      /\ Len(p) >= 2 => p[2] = u[2]
      /\ Len(u) = r.encLength - r.streamPos
  <2> HIDE DEF u
  <2> QED
    BY <1>1, Unread
<1>4. /\ r \in Readers /\ r.encLength \in Nat /\ r.streamPos \in Nat /\ p \in Bytes
      /\ Len(body) \in Nat /\ At(body, ends, 0, 1)
      /\ Len(ends) \in Nat /\ InnerTag(m) \in Nat /\ Len(body) >= 1
  BY ReaderFields, InnerFacts
<1> HIDE DEF u, body, ends, old, e
<1>5. Len(p) >= 2 /\ p[1] = u[1] /\ p[2] = u[2]
  <2>1. Needed(r) = IF Len(p) >= 2 /\ p[1].kind = "tag" THEN 1 + HeaderSize(p[2]) ELSE 2
    BY DEF Needed
  <2>2. HeaderSize(p[2]) \in {1, 2}
    BY DEF HeaderSize
  <2>3. Len(p) >= 2
    BY <1>3, <2>1, <2>2
  <2> QED
    BY <1>3, <2>3
<1>6. size \in 0 .. Len(p) /\ size \in Nat
  <2>1. CASE old
    BY <1>3, <1>5, <2>1
  <2>2. CASE ~old
    <3>1. p[1].kind = "tag"
      BY <1>2, <1>5, <2>2
    <3>2. Needed(r) = 1 + HeaderSize(u[2])
      BY <1>5, <3>1 DEF Needed
    <3> QED
      BY <1>2, <1>3, <2>2, <3>2
  <2> QED
    BY <2>1, <2>2
<1> DEFINE c == Consume(r, size)
           room == r.encLength - 1 - (r.streamPos + size)
           length == IF old THEN room ELSE u[2].n
           partial == ~old /\ u[2].kind = "partial"
           tag == InnerTag(m)
           read == [c EXCEPT !.innerTag = tag, !.innerPartial = partial, !.remaining = length]
<1>7. room = Len(u) - 1 - size /\ room \in Nat /\ room < SizeModulus /\ SizeModulus \in Nat
  <2>1. SizeModulus \in Nat
    BY ReaderAssumption
  <2> DEFINE x == r.encLength
             y == r.streamPos
             z == Len(u)
  <2>2. x \in Nat /\ y \in Nat /\ z \in Nat /\ z = x - y /\ z + 2 <= SizeModulus /\ size \in Nat /\ size + 1 <= z
    BY <1>2, <1>3, <1>4, <1>6
  <2> HIDE DEF size, x, y, z
  <2>3. x - 1 - (y + size) = z - 1 - size /\ x - 1 - (y + size) \in Nat /\ x - 1 - (y + size) < SizeModulus
    BY <2>1, <2>2
  <2> QED
    BY <2>1, <2>3 DEF x, y, z
<1>8. (partial <=> ends # <<>>) /\ length = e /\ length \in Nat /\ length >= 1
  <2> HIDE DEF size, room
  <2>1. CASE old
    BY <1>2, <1>4, <1>7, <2>1
  <2>2. CASE ~old
    BY <1>2, <2>2
  <2> QED
    BY <2>1, <2>2
<1>9. ~partial => ~(length > room % SizeModulus)
  <2> SUFFICES ASSUME ~partial PROVE ~(length > room % SizeModulus)
    OBVIOUS
  <2>1. length = room
    <3> HIDE DEF size, partial, length, room
    <3> QED
      BY <1>2, <1>4, <1>7, <1>8
  <2>2. room % SizeModulus = room
    <3>1. \A x, y \in Nat : x < y => x % y = x
      OBVIOUS
    <3> HIDE DEF room
    <3> QED
      BY <1>7, <3>1
  <2> HIDE DEF room, length
  <2> QED
    BY <1>7, <2>1, <2>2
<1>10. tag \in {Literal, Compressed} /\ Literal # Compressed /\ (tag = Literal <=> m.algorithm = NotCompressed)
  BY DEF InnerTag, Literal, Compressed
<1> DEFINE phase == IF tag = Literal THEN "literal" ELSE "algorithm"
           n == [read EXCEPT !.phase = phase]
<1>11. c \in Readers /\ c.pending = Drop(p, size) /\ SameOuter(c, r) /\ c.output = r.output
       /\ c.innerFinalChunk = r.innerFinalChunk /\ c.literal = r.literal
  <2> HIDE DEF size
  <2> QED
    BY <1>4, <1>6, ConsumeFields
<1>12. ParseInnerHeader(r) = n
  <2> DEFINE pread == [Consume(r, size) EXCEPT !.innerTag = p[1].n, !.innerPartial = partial, !.remaining = length]
  <2>1. (p[1].kind = "oldTag" <=> old) /\ p[1].kind \in {"tag", "oldTag"} /\ p[1].n = tag
    <3>1. p[1].kind = (IF old THEN "oldTag" ELSE "tag") /\ p[1].n = tag
      BY <1>2, <1>5
    <3> QED
      BY <3>1
  <2>2. size = IF p[1].kind = "oldTag" THEN 1 ELSE 1 + HeaderSize(p[2])
    BY <1>5, <2>1
  <2>3. partial = (~(p[1].kind = "oldTag") /\ p[2].kind = "partial")
    BY <1>5, <2>1
  <2>4. length = IF p[1].kind = "oldTag" THEN room ELSE p[2].n
    BY <1>5, <2>1
  <2> HIDE DEF size, partial, length, room, tag, c
  <2>5. pread = read
    BY <2>1 DEF c
  <2>6. read.innerTag = tag
    BY <1>11 DEF Readers
  <2> HIDE DEF read, pread
  <2>7. ParseInnerHeader(r) =
          IF p[1].kind \notin {"tag", "oldTag"} \/ (p[1].kind = "oldTag" /\ room < 0)
          THEN Stop(r, "INVALID_DATA")
          ELSE IF pread.innerTag \notin {Literal, Compressed} THEN Stop(r, "NOT_IMPLEMENTED")
          ELSE IF pread.innerTag = Literal THEN [pread EXCEPT !.phase = "literal"]
          ELSE IF length < 1 \/ (~partial /\ length > room % SizeModulus) THEN Stop(r, "INVALID_DATA")
          ELSE [pread EXCEPT !.phase = "algorithm"]
    BY <2>2, <2>3, <2>4 DEF ParseInnerHeader, pread, room
  <2>8. ~(room < 0) /\ ~(length < 1)
    BY <1>7, <1>8
  <2>9. ParseInnerHeader(r) =
          IF tag = Literal THEN [read EXCEPT !.phase = "literal"] ELSE [read EXCEPT !.phase = "algorithm"]
    BY <1>9, <1>10, <2>1, <2>5, <2>6, <2>7, <2>8
  <2> QED
    BY <2>9
<1>13. phase \in {"literal", "algorithm"} /\ (phase = "literal" <=> m.algorithm = NotCompressed)
  BY <1>10
<1> HIDE DEF c, size, room, length, partial, tag, phase
<1>14. /\ n.phase = phase /\ n.pending = c.pending /\ n.output = c.output /\ SameOuter(n, c)
       /\ n.innerTag = tag /\ n.remaining = length /\ n.innerPartial = partial
       /\ n.innerFinalChunk = c.innerFinalChunk /\ n.literal = c.literal
  BY <1>11 DEF Readers, SameOuter
<1> HIDE DEF n
<1>15. n.pending \o w = Drop(u, size)
  <2>1. Drop(p, size) \o w = Drop(u, size)
    BY <1>3, <1>6 DEF Splits
  <2> QED
    BY <1>11, <1>14, <2>1
<1>16. out \o n.output = <<>>
  BY <1>1, <1>11, <1>14, NoOctets
<1>17. ends # <<>> => 1 # Len(ends) + 1
  <2>1. ends \in Seq(Nat)
    BY InnerFacts DEF ends, Chunking
  <2>2. ends # <<>> => Len(ends) # 0
    BY <2>1, EmptySeq
  <2> QED
    BY <1>4, <2>2
<1>18. Content(n, m, document, 0, <<>>)
  <2>1. SubSeq(LiteralBody(document), 2, 0) = <<>>
    <3>1. LiteralBody(document) \in Bytes
      BY LiteralBodyFacts
    <3> DEFINE b == LiteralBody(document)
    <3> HIDE DEF b
    <3>2. SubSeq(b, 2, 0) = <<>>
      BY <3>1 DEF b, Bytes
    <3> QED
      BY <3>2 DEF b
  <2> QED
    BY <1>1, <1>11, <1>14, <2>1 DEF Content
<1>19. e - 0 = e
  BY <1>2
<1>20. InnerPlace(n, Drop(u, size), m, document, <<>>, 0, 1)
  BY <1>1, <1>2, <1>4, <1>8, <1>11, <1>14, <1>17, <1>18, <1>19 DEF InnerPlace, body, ends, e, tag
<1>21. 1 = Len(ends) + 1 => ~EndsWithEmptyChunk(m, document)
  <2>1. 1 = Len(ends) + 1 /\ 0 < ChunkEnd(body, ends, 1) => ~EndsWithEmptyChunk(m, document)
    BY <1>20, PlaceFacts DEF body, ends
  <2>2. 0 < ChunkEnd(body, ends, 1)
    BY <1>2 DEF e
  <2> QED
    BY <2>1, <2>2
<1>22. InnerPhase(n, m, document, <<>>, 0, 1)
  <2>1. n.phase \in {"literal", "algorithm"} /\ (n.phase = "literal" <=> m.algorithm = NotCompressed)
    BY <1>13, <1>14
  <2> QED
    BY <1>21, <2>1 DEF InnerPhase, ends
<1>23. InnerFollows(n, n.pending \o w, m, document, out \o n.output)
  <2>1. 0 \in 0 .. Len(body) /\ 1 \in 1 .. Len(ends) + 1
    BY <1>4
  <2>2. InnerAt(n, Drop(u, size), m, document, <<>>, 0, 1)
    BY <1>20, <1>22 DEF InnerAt
  <2> QED
    BY <1>15, <1>16, <2>1, <2>2 DEF InnerFollows, body, ends
<1>24. SameOuter(n, r) /\ n.phase # "done"
  BY <1>11, <1>13, <1>14 DEF SameOuter
<1>25. GoesOn(n, r, w, m, document, out)
  BY <1>23, <1>24 DEF GoesOn
<1> QED
  BY <1>12, <1>25

LEMMA PlaceGoesOn ==
    ASSUME NEW m, NEW document, Readable(m, document), NEW next, NEW r, NEW w, NEW out, NEW more, NEW q, NEW i, NEW u,
           InnerAt(next, u, m, document, more, q, i), next.pending \o w = u, out \o next.output = more,
           SameOuter(next, r)
    PROVE  GoesOn(next, r, w, m, document, out)
<1>1. InnerPlace(next, u, m, document, more, q, i) /\ next.phase # "done"
  BY DEF InnerAt, InnerPhase
<1>2. q \in 0 .. Len(InnerBody(m, document)) /\ i \in 1 .. Len(InnerFraming(m).ends) + 1
  BY <1>1, PlaceFacts
<1>3. InnerFollows(next, u, m, document, more)
  BY <1>2 DEF InnerFollows
<1> QED
  BY <1>1, <1>3 DEF GoesOn

\* The first octet of the inner packet's body.
LEMMA PrefixFollows ==
    ASSUME NEW m, NEW document, Readable(m, document), NEW r, Sound(r), NEW w \in Bytes, NEW out \in Bytes,
           InnerFollows(r, r.pending \o w, m, document, out), r.output = <<>>,
           r.phase \in {"literal", "algorithm"}, Len(r.pending) >= 1
    PROVE  GoesOn(ParsePrefix(r), r, w, m, document, out)
<1> DEFINE body == InnerBody(m, document)
           ends == InnerFraming(m).ends
           p == r.pending
           u == p \o w
           e == ChunkEnd(body, ends, 1)
<1>1. InnerAt(r, u, m, document, out, 0, 1) /\ (r.phase = "literal" <=> m.algorithm = NotCompressed)
  <2>1. PICK q \in 0 .. Len(body), i \in 1 .. Len(ends) + 1 : InnerAt(r, u, m, document, out, q, i)
    BY DEF InnerFollows
  <2>2. InnerPhase(r, m, document, out, q, i)
    BY <2>1 DEF InnerAt
  <2>3. q = 0 /\ i = 1 /\ (r.phase = "literal" <=> m.algorithm = NotCompressed)
    BY <2>2 DEF InnerPhase
  <2> QED
    BY <2>1, <2>3
<1>2. InnerPlace(r, u, m, document, out, 0, 1) /\ InnerPhase(r, m, document, out, 0, 1)
  BY <1>1 DEF InnerAt
<1>3. /\ u = Ahead(body, ends, 0, 1) \o Mdc /\ r.innerTag = InnerTag(m) /\ r.remaining = e - 0
      /\ (r.innerPartial <=> ends # <<>>) /\ (ends # <<>> => (r.innerFinalChunk <=> 1 = Len(ends) + 1))
      /\ Content(r, m, document, 0, out)
  BY <1>2 DEF InnerPlace
<1>4. Chunking(body, ends) /\ At(body, ends, 0, 1) /\ Len(body) \in Nat
  BY <1>2, PlaceFacts
<1>5. e \in Nat /\ e >= 1
  BY InnerHeaderCut
<1>6. r \in Readers /\ p \in Bytes /\ Len(p) \in Nat /\ 1 \in 0 .. Len(p)
  <2>1. r \in Readers /\ p \in Bytes /\ Len(p) \in Nat
    BY ReaderFields
  <2> QED
    BY <2>1
<1>7. Splits(p, w, u) /\ p[1] = u[1]
  <2> HIDE DEF u
  <2>1. p \o w = u
    BY DEF u
  <2> QED
    BY <2>1, Unread
<1>8. u[1] = body[1]
  <2>1. 0 < e
    BY <1>5
  <2>2. u[1] = body[0 + 1]
    <3>1. u = Ahead(body, ends, 0, 1) \o Mdc /\ Chunking(body, ends) /\ At(body, ends, 0, 1) /\ 0 < ChunkEnd(body, ends, 1)
      BY <1>3, <1>4, <2>1
    <3> HIDE DEF u, body, ends, e
    <3>2. (Ahead(body, ends, 0, 1) \o Mdc)[1] = body[0 + 1]
      BY <3>1, FirstOfChunk
    <3> QED
      BY <3>1, <3>2
  <2> QED
    BY <2>2
<1>9. At(body, ends, 1, 1) /\ Drop(u, 1) = Ahead(body, ends, 1, 1) \o Mdc
  <2>1. InnerTakes(u, body, ends, 0, 1)
    <3> HIDE DEF u
    <3> QED
      BY <1>3, <1>4, TakeInner
  <2>2. 1 \in 0 .. e - 0 /\ 0 + 1 = 1
    BY <1>5
  <2> HIDE DEF u
  <2> QED
    BY <2>1, <2>2 DEF InnerTakes
<1>10. Drop(p, 1) \o w = Drop(u, 1)
  <2> HIDE DEF u
  <2> QED
    BY <1>6, <1>7 DEF Splits
<1> DEFINE c == Consume(r, 1)
           algorithm == p[1].n
           left == c.remaining - 1
           s == [c EXCEPT !.algorithm = algorithm, !.remaining = left]
<1> HIDE DEF u
<1>11. c \in Readers /\ c.pending = Drop(p, 1) /\ SameOuter(c, r) /\ c.output = r.output
       /\ c.innerTag = r.innerTag /\ c.remaining = r.remaining /\ c.innerPartial = r.innerPartial
       /\ c.innerFinalChunk = r.innerFinalChunk /\ c.literal = r.literal
  BY <1>6, ConsumeFields
<1>12. left = e - 1 /\ left \in Nat /\ algorithm \in Nat
  <2>1. algorithm \in Nat
    <3>1. 1 \in 1 .. Len(p)
      BY <1>6
    <3> QED
      BY <1>6, <3>1, OctetAt
  <2> HIDE DEF c, e
  <2> QED
    BY <1>3, <1>5, <1>11, <2>1
<1>13. r.phase = "algorithm" => algorithm = m.algorithm /\ algorithm <= 3
  <2> SUFFICES ASSUME r.phase = "algorithm" PROVE algorithm = m.algorithm /\ algorithm <= 3
    OBVIOUS
  <2>1. m.algorithm # NotCompressed
    BY <1>1
  <2>2. body[1] = An("algorithm", m.algorithm) /\ m.algorithm <= 3
    BY <2>1, InnerFacts
  <2> QED
    BY <1>7, <1>8, <2>2 DEF An
<1>14. ParsePrefix(r) = LoopTop(s)
  <2>1. ~(r.remaining < 1)
    BY <1>3, <1>5
  <2>2. ~(r.phase = "algorithm" /\ p[1].n > 3)
    BY <1>12, <1>13
  <2> QED
    BY <2>1, <2>2 DEF ParsePrefix
<1> HIDE DEF c, left, algorithm, e
<1>15. s \in Readers /\ s.pending = c.pending /\ SameOuter(s, c) /\ s.output = c.output
       /\ s.innerTag = c.innerTag /\ s.remaining = left /\ s.innerPartial = c.innerPartial
       /\ s.innerFinalChunk = c.innerFinalChunk /\ s.literal = c.literal /\ s.algorithm = algorithm
  BY <1>11, <1>12 DEF Readers, SameOuter
<1> HIDE DEF s
<1>16. Content(s, m, document, 1, out)
  <2> DEFINE lit == LiteralBody(document)
             packet == LiteralPacket(m, document)
  <2>1. CASE m.algorithm = NotCompressed
    <3>1. out = SubSeq(lit, 2, 0)
      BY <1>3, <2>1 DEF Content
    <3>2. lit \in Bytes
      BY LiteralBodyFacts
    <3> HIDE DEF lit
    <3>3. SubSeq(lit, 2, 0) = SubSeq(lit, 2, 1)
      BY <3>2 DEF Bytes
    <3> QED
      BY <2>1, <3>1, <3>3 DEF Content, lit
  <2>2. CASE m.algorithm # NotCompressed
    <3>1. r.literal = NoLiteral /\ out = <<>>
      BY <1>3, <2>2 DEF Content
    <3>2. s.algorithm = m.algorithm
      BY <1>1, <1>13, <1>15, <2>2
    <3>3. LiteralFramed(lit, m.literal) /\ packet \in Bytes
      BY LiteralBodyFacts
    <3>4. Drop(packet, 1 - 1) = Packet(Literal, lit, m.literal)
      BY <3>3, NoOctets DEF LiteralPacket
    <3>5. Decoded(NoLiteral, lit, m.literal, Packet(Literal, lit, m.literal), <<>>)
      BY <3>3, NothingDecoded
    <3>6. Decoded(s.literal, lit, m.literal, Drop(packet, 1 - 1), out)
      BY <1>11, <1>15, <3>1, <3>4, <3>5
    <3> QED
      BY <2>2, <3>2, <3>6 DEF Content
  <2> QED
    BY <2>1, <2>2
<1>17. InnerPlace(s, Drop(u, 1), m, document, out, 1, 1)
  BY <1>3, <1>9, <1>11, <1>12, <1>15, <1>16 DEF InnerPlace, e
<1>18. 1 = Len(ends) + 1 => ~EndsWithEmptyChunk(m, document)
  BY <1>2 DEF InnerPhase
<1>19. ~(1 = Len(body) /\ m.algorithm # NotCompressed)
  <2>1. m.algorithm # NotCompressed => Len(body) = 1 + Len(LiteralPacket(m, document))
    BY InnerFacts
  <2>2. Len(LiteralPacket(m, document)) \in Nat /\ Len(LiteralPacket(m, document)) >= 1
    BY LiteralBodyFacts
  <2> DEFINE x == Len(LiteralPacket(m, document))
  <2> HIDE DEF x, body
  <2>3. x \in Nat /\ x >= 1 /\ (m.algorithm # NotCompressed => Len(body) = 1 + x)
    BY <2>1, <2>2 DEF x, body
  <2>4. 1 + x # 1
    BY <2>3
  <2> QED
    BY <2>3, <2>4
<1>20. /\ LoopTop(s).pending = s.pending /\ LoopTop(s).output = s.output
       /\ SameOuter(LoopTop(s), s)
       /\ InnerAt(LoopTop(s), Drop(u, 1), m, document, out, 1, 1)
  <2>1. 1 > 0
    OBVIOUS
  <2> QED
    BY <1>15, <1>17, <1>18, <1>19, <2>1, LoopTopFollows
<1>21. LoopTop(s).pending \o w = Drop(u, 1) /\ out \o LoopTop(s).output = out /\ SameOuter(LoopTop(s), r)
  <2>1. SameOuter(LoopTop(s), r)
    BY <1>11, <1>15, <1>20 DEF SameOuter
  <2>2. out \o LoopTop(s).output = out
    BY <1>11, <1>15, <1>20, NoOctets
  <2> QED
    BY <1>10, <1>11, <1>15, <1>20, <2>1, <2>2
<1> QED
  BY <1>14, <1>20, <1>21, PlaceGoesOn

\* A place in the body, from the phase.
LEMMA PlaceOf ==
    ASSUME NEW m, NEW document, NEW r, NEW u, NEW out, InnerFollows(r, u, m, document, out),
           r.phase \notin {"random", "header"}
    PROVE  \E q, i : InnerAt(r, u, m, document, out, q, i)
  BY DEF InnerFollows

\* ensureInnerChunk steps from the end of a chunk over the next one's header.
LEMMA ChunkFollows ==
    ASSUME NEW m, NEW document, Readable(m, document), NEW r, Sound(r), NEW w \in Bytes, NEW out \in Bytes,
           InnerFollows(r, r.pending \o w, m, document, out), r.output = <<>>,
           r.phase = "chunk", ~r.innerFinalChunk, Len(r.pending) >= Needed(r)
    PROVE  GoesOn(ParseChunkHeader(r), r, w, m, document, out)
<1> DEFINE body == InnerBody(m, document)
           ends == InnerFraming(m).ends
           p == r.pending
           u == p \o w
<1>1. PICK q, i : InnerAt(r, u, m, document, out, q, i)
  BY PlaceOf
<1> DEFINE a == Ahead(body, ends, q, i)
           e == ChunkEnd(body, ends, i)
           j == i + 1
           f == ChunkEnd(body, ends, j)
<1>2. InnerPlace(r, u, m, document, out, q, i) /\ InnerPhase(r, m, document, out, q, i)
  BY <1>1 DEF InnerAt
<1>3. /\ u = a \o Mdc /\ r.innerTag = InnerTag(m) /\ r.remaining = e - q
      /\ (r.innerPartial <=> ends # <<>>) /\ (ends # <<>> => (r.innerFinalChunk <=> i = Len(ends) + 1))
      /\ Content(r, m, document, q, out)
  BY <1>2 DEF InnerPlace
<1>4. q > 0 /\ r.remaining = 0 /\ ends # <<>>
  BY <1>2 DEF InnerPhase
<1>5. /\ Chunking(body, ends) /\ At(body, ends, q, i) /\ Len(body) \in Nat /\ e \in Nat /\ q \in Nat
      /\ Len(ends) \in Nat /\ i \in 1 .. Len(ends) + 1 /\ q <= e
  BY <1>2, PlaceFacts
<1>6. q = e /\ i # Len(ends) + 1
  BY <1>3, <1>4, <1>5
<1>7. /\ At(body, ends, q, j) /\ Decodes(a) /\ HeaderSize(a[1]) \in {1, 2} /\ HeaderSize(a[1]) <= Len(a)
      /\ a[1].n = f - q
      /\ (a[1].kind # "partial") = (j = Len(ends) + 1)
      /\ Drop(a, HeaderSize(a[1])) = Ahead(body, ends, q, j)
  BY <1>5, <1>6, NextAhead
<1>8. u[1] = a[1] /\ a \in Bytes /\ Len(a) \in Nat
  <2>1. (a \o Mdc)[1] = a[1]
    <3>1. Chunking(body, ends) /\ At(body, ends, q, i) /\ q = ChunkEnd(body, ends, i) /\ i # Len(ends) + 1
      BY <1>5, <1>6
    <3> HIDE DEF body, ends
    <3> QED
      BY <3>1, FirstOfNext
  <2>2. a \in Bytes /\ Len(a) \in Nat
    BY <1>5, AheadFacts, NoOctets
  <2> QED
    BY <1>3, <2>1, <2>2
<1>9. r \in Readers /\ p \in Bytes /\ Len(p) \in Nat /\ Splits(p, w, u) /\ (Len(p) >= 1 => p[1] = u[1])
      /\ (p # <<>> <=> Len(p) >= 1)
  <2>1. r \in Readers /\ p \in Bytes
    BY ReaderFields
  <2> HIDE DEF u
  <2>2. p \o w = u
    BY DEF u
  <2> QED
    BY <2>1, <2>2, Unread
<1> HIDE DEF u
<1> DEFINE h == HeaderSize(a[1])
<1>10. p[1] = a[1] /\ h \in 0 .. Len(p)
  <2>1. Needed(r) = IF p = <<>> THEN 1 ELSE HeaderSize(p[1])
    BY DEF Needed
  <2>2. Len(<<>>) = 0
    OBVIOUS
  <2>3. p # <<>>
    BY <1>9, <2>1, <2>2
  <2>4. p[1] = a[1]
    BY <1>8, <1>9, <2>3
  <2>5. Len(p) >= h
    BY <2>1, <2>3, <2>4
  <2> QED
    BY <1>7, <1>9, <2>4, <2>5
<1> DEFINE c == Consume(r, h)
           left == a[1].n
           final == a[1].kind # "partial"
           phase == IF a[1].n = 0 THEN "chunk" ELSE "take"
           n == [c EXCEPT !.remaining = left, !.innerFinalChunk = final, !.phase = phase]
<1>11. ParseChunkHeader(r) = n
  BY <1>10 DEF ParseChunkHeader
<1>12. Drop(p, h) \o w = Ahead(body, ends, q, j) \o Mdc
  <2>1. Drop(p, h) \o w = Drop(u, h)
    <3> HIDE DEF h
    <3> QED
      BY <1>9, <1>10 DEF Splits
  <2>2. h \in 0 .. Len(a) /\ Mdc \in Bytes
    BY <1>7, <1>8, MdcFacts
  <2>3. Drop(a \o Mdc, h) = Drop(a, h) \o Mdc
    <3> HIDE DEF h, a
    <3> QED
      BY <1>8, <2>2, JoinedRuns
  <2> QED
    BY <1>3, <1>7, <2>1, <2>3
<1>13. c \in Readers /\ c.pending = Drop(p, h) /\ SameOuter(c, r) /\ c.output = r.output
       /\ c.innerTag = r.innerTag /\ c.innerPartial = r.innerPartial /\ c.literal = r.literal
       /\ c.algorithm = r.algorithm
  <2> HIDE DEF h
  <2> QED
    BY <1>9, <1>10, ConsumeFields
<1>14. left = f - q /\ (final <=> j = Len(ends) + 1) /\ phase \in {"chunk", "take"} /\ (phase = "chunk" <=> left = 0)
  BY <1>7
<1> HIDE DEF c, left, final, phase, h
<1>15. n.pending = c.pending /\ SameOuter(n, c) /\ n.output = c.output /\ n.phase = phase
       /\ n.innerTag = c.innerTag /\ n.remaining = left /\ n.innerPartial = c.innerPartial
       /\ (n.innerFinalChunk <=> final) /\ n.literal = c.literal /\ n.algorithm = c.algorithm
  BY <1>13 DEF Readers, SameOuter
<1> HIDE DEF n
<1>16. Content(n, m, document, q, out)
  BY <1>3, <1>13, <1>15 DEF Content
<1> DEFINE v == Ahead(body, ends, q, j) \o Mdc
<1>17. InnerPlace(n, v, m, document, out, q, j)
  BY <1>3, <1>7, <1>13, <1>14, <1>15, <1>16 DEF InnerPlace
<1>18. f \in Nat /\ q <= f /\ j \in 1 .. Len(ends) + 1 /\ (j = Len(ends) + 1 => f = Len(body))
       /\ (j = Len(ends) + 1 /\ q < f => ~EndsWithEmptyChunk(m, document))
  BY <1>17, PlaceFacts
<1>19. left = 0 => j = Len(ends) + 1
  <2> SUFFICES ASSUME left = 0, j # Len(ends) + 1 PROVE FALSE
    OBVIOUS
  <2>1. j \in 1 .. Len(ends) /\ j - 1 = i
    BY <1>5, <1>18
  <2>2. ChunkEnd(body, ends, j - 1) < ChunkEnd(body, ends, j)
    <3> HIDE DEF j
    <3> QED
      BY <1>5, <2>1, EndFacts
  <2>3. e < f
    BY <2>1, <2>2
  <2> HIDE DEF e, f
  <2> QED
    BY <1>5, <1>6, <1>14, <1>18, <2>3
<1>20. j = Len(ends) + 1 => (left = 0 <=> EndsWithEmptyChunk(m, document))
  <2> SUFFICES ASSUME j = Len(ends) + 1 PROVE left = 0 <=> EndsWithEmptyChunk(m, document)
    OBVIOUS
  <2>1. left # 0 => ~EndsWithEmptyChunk(m, document)
    <3>1. left # 0 => q < f
      <4> HIDE DEF f
      <4> QED
        BY <1>5, <1>14, <1>18
    <3> QED
      BY <1>18, <3>1
  <2>2. left = 0 => EndsWithEmptyChunk(m, document)
    <3>1. i = Len(ends)
      BY <1>5
    <3>2. left = 0 => e = Len(body)
      <4> HIDE DEF e, f
      <4> QED
        BY <1>5, <1>6, <1>14, <1>18
    <3> QED
      BY <3>1, <3>2 DEF EndsWithEmptyChunk
  <2> QED
    BY <2>1, <2>2
<1>21. InnerPhase(n, m, document, out, q, j)
  <2>1. n.phase \in {"chunk", "take"} /\ (n.phase = "chunk" <=> left = 0) /\ n.remaining = left
    BY <1>14, <1>15
  <2>2. left # 0 => left > 0
    <3> HIDE DEF f
    <3> QED
      BY <1>5, <1>14, <1>18
  <2> HIDE DEF j
  <2> QED
    BY <1>4, <1>20, <2>1, <2>2 DEF InnerPhase
<1>22. n.pending \o w = v /\ out \o n.output = out /\ SameOuter(n, r)
  <2>1. SameOuter(n, r)
    BY <1>13, <1>15 DEF SameOuter
  <2>2. out \o n.output = out
    BY <1>13, <1>15, NoOctets
  <2> QED
    BY <1>12, <1>13, <1>15, <2>1, <2>2
<1> HIDE DEF v, j
<1>23. InnerAt(n, v, m, document, out, q, j)
  BY <1>17, <1>21 DEF InnerAt
<1>24. GoesOn(n, r, w, m, document, out)
  BY <1>22, <1>23, PlaceGoesOn
<1> QED
  BY <1>11, <1>24

\* The trailer: the digest is where the encrypted data ends.
LEMMA TrailerFollows ==
    ASSUME NEW m, NEW document, Readable(m, document), NEW r, Sound(r), NEW w \in Bytes, NEW out,
           r.cipherRemaining = Len(w),
           InnerFollows(r, r.pending \o w, m, document, out), r.phase = "trailer", Len(r.pending) >= 1
    PROVE  Accepts(CheckTrailer(r), m, document, out)
<1> DEFINE body == InnerBody(m, document)
           ends == InnerFraming(m).ends
           p == r.pending
           u == p \o w
<1>1. PICK q, i : InnerAt(r, u, m, document, out, q, i)
  BY PlaceOf
<1>2. InnerPlace(r, u, m, document, out, q, i) /\ InnerPhase(r, m, document, out, q, i)
  BY <1>1 DEF InnerAt
<1>3. q = Len(body) /\ i = Len(ends) + 1 /\ out = document /\ ~EndsWithEmptyChunk(m, document)
  BY <1>2 DEF InnerPhase
<1>4. Chunking(body, ends) /\ At(body, ends, q, i)
  BY <1>2, PlaceFacts
<1>5. u = Mdc
  <2>1. u = Ahead(body, ends, q, i) \o Mdc
    BY <1>2 DEF InnerPlace
  <2>2. Ahead(body, ends, q, i) \o Mdc = Mdc
    <3> HIDE DEF body, ends
    <3> QED
      BY <1>3, <1>4, LastIsMdc
  <2> QED
    BY <2>1, <2>2
<1>6. p[1] = u[1] /\ Len(u) = r.encLength - r.streamPos
  <2> HIDE DEF u
  <2>1. p \o w = u
    BY DEF u
  <2> QED
    BY <2>1, Unread
<1>7. p[1] = An("mdc", 1) /\ r.streamPos + 1 = r.encLength
  <2>1. p[1] = An("mdc", 1) /\ r.encLength - r.streamPos = 1
    BY <1>5, <1>6, MdcFacts
  <2>2. r.encLength \in Nat /\ r.streamPos \in Nat
    BY ReaderFields
  <2> QED
    BY <2>1, <2>2
<1>8. CheckTrailer(r) = Stop(r, "NO_ERROR")
  BY <1>7 DEF CheckTrailer
<1>9. Stop(r, "NO_ERROR").phase = "done" /\ Stop(r, "NO_ERROR").code = "NO_ERROR" /\ Stop(r, "NO_ERROR").output = <<>>
  BY ReaderFields DEF Stop, Readers
<1> QED
  BY <1>3, <1>8, <1>9 DEF Accepts

\* The decompressor puts out the literal packet's octets in step with the body's.
InflatesTo(m, run, t, take, rest) ==
    /\ t \in Bytes /\ take \in 0 .. Len(t)
    /\ (IF m.algorithm = 0 THEN run ELSE Inflated(run)) = SubSeq(t, 1, take)
    /\ Drop(t, take) = rest

LEMMA InflatedRun ==
    ASSUME NEW m, NEW document, Readable(m, document), m.algorithm # NotCompressed,
           NEW q \in Nat, q >= 1, NEW take \in Nat, q + take <= Len(InnerBody(m, document))
    PROVE  InflatesTo(m, SubSeq(InnerBody(m, document), q + 1, q + take),
                      Drop(LiteralPacket(m, document), q - 1), take,
                      Drop(LiteralPacket(m, document), q + take - 1))
<1> DEFINE body == InnerBody(m, document)
           packet == LiteralPacket(m, document)
           x == q - 1
           y == x + take
           run == SubSeq(body, q + 1, q + take)
           t == Drop(packet, x)
           wire == Drop(body, 1)
<1>1. packet \in Plain /\ packet \in Bytes /\ Len(packet) \in Nat
  BY LiteralBodyFacts
<1>2. body \in Bytes /\ Len(body) \in Nat /\ Len(body) = 1 + Len(packet)
      /\ wire = IF m.algorithm = 0 THEN packet ELSE Deflated(packet)
  BY InnerFacts
<1> HIDE DEF packet, body
<1>3. /\ x \in Nat /\ y \in Nat /\ x <= y /\ y <= Len(packet) /\ y + 1 <= Len(body) /\ x <= Len(packet)
      /\ x + 1 = q /\ q + take = y + 1 /\ q + take - 1 = y /\ take \in 0 .. Len(packet) - x
  <2>1. q + take <= Len(body)
    BY DEF body
  <2> QED
    BY <1>1, <1>2, <2>1
<1>4. run = SubSeq(wire, x + 1, y)
  <2>1. run = SubSeq(body, x + 1 + 1, y + 1)
    BY <1>3
  <2> HIDE DEF x, y, run
  <2> QED
    BY <1>2, <1>3, <2>1, RunPastFirst
<1>5. (IF m.algorithm = 0 THEN run ELSE Inflated(run)) = SubSeq(packet, x + 1, y)
  <2> HIDE DEF x, y, run, wire
  <2>1. Inflated(SubSeq(Deflated(packet), x + 1, y)) = SubSeq(packet, x + 1, y)
    BY <1>1, <1>3, InflatesRun
  <2> QED
    BY <1>2, <1>4, <2>1
<1>6. t \in Bytes /\ Len(t) = Len(packet) - x
  <2> HIDE DEF x
  <2> QED
    BY <1>1, <1>3, DropFacts
<1>7. SubSeq(t, 1, take) = SubSeq(packet, x + 1, y) /\ Drop(t, take) = Drop(packet, y)
  <2> HIDE DEF x
  <2>1. Len(packet) <= Len(packet)
    BY <1>1
  <2>2. /\ SubSeq(SubSeq(packet, x + 1, Len(packet)), 1, take) = SubSeq(packet, x + 1, x + take)
        /\ Drop(SubSeq(packet, x + 1, Len(packet)), take) = SubSeq(packet, x + take + 1, Len(packet))
    BY <1>1, <1>3, <2>1, InnerRun
  <2>3. t = SubSeq(packet, x + 1, Len(packet)) /\ Drop(packet, y) = SubSeq(packet, y + 1, Len(packet))
    BY DEF Drop
  <2> QED
    BY <2>2, <2>3
<1>8. take \in 0 .. Len(t)
  BY <1>3, <1>6
<1> HIDE DEF x, y
<1>9. Drop(packet, q + take - 1) = Drop(packet, y)
  BY <1>3
<1> QED
  BY <1>5, <1>6, <1>7, <1>8, <1>9 DEF packet, body, x, InflatesTo

\* The octets of a run go to the output or through the decompressor.
LEMMA TakeFollows ==
    ASSUME NEW m, NEW document, Readable(m, document), NEW r, Sound(r), NEW w \in Bytes, NEW out \in Bytes,
           InnerFollows(r, r.pending \o w, m, document, out), r.output = <<>>, r.phase = "take"
    PROVE  GoesOn(TakeBody(r), r, w, m, document, out)
<1> DEFINE body == InnerBody(m, document)
           ends == InnerFraming(m).ends
           p == r.pending
           u == p \o w
<1>1. PICK q, i : InnerAt(r, u, m, document, out, q, i)
  BY PlaceOf
<1> DEFINE a == Ahead(body, ends, q, i)
           e == ChunkEnd(body, ends, i)
           take == Min({Len(p), r.remaining, ReadSize})
           k == q + take
           run == SubSeq(p, 1, take)
           v == Ahead(body, ends, k, i) \o Mdc
<1>2. InnerPlace(r, u, m, document, out, q, i) /\ InnerPhase(r, m, document, out, q, i)
  BY <1>1 DEF InnerAt
<1>3. /\ u = a \o Mdc /\ r.innerTag = InnerTag(m) /\ r.remaining = e - q
      /\ (r.innerPartial <=> ends # <<>>) /\ (ends # <<>> => (r.innerFinalChunk <=> i = Len(ends) + 1))
      /\ Content(r, m, document, q, out)
  BY <1>2 DEF InnerPlace
<1>4. q > 0 /\ (i = Len(ends) + 1 => ~EndsWithEmptyChunk(m, document))
  BY <1>2 DEF InnerPhase
<1>5. /\ Chunking(body, ends) /\ At(body, ends, q, i) /\ Len(body) \in Nat /\ e \in Nat /\ q \in Nat
      /\ Len(ends) \in Nat /\ i \in 1 .. Len(ends) + 1 /\ q <= e /\ e <= Len(body) /\ body \in Bytes
  BY <1>2, PlaceFacts
<1>6. r \in Readers /\ p \in Bytes /\ Len(p) \in Nat /\ r.literal \in LiteralStates /\ r.remaining \in Nat
  BY ReaderFields
<1>7. take \in Nat /\ take <= Len(p) /\ take <= r.remaining
  <2> DEFINE counts == {Len(p), r.remaining, ReadSize}
  <2>1. counts \in SUBSET Nat /\ counts # {}
    BY <1>6, ReaderAssumption
  <2>2. Min(counts) \in counts /\ \A n \in counts : Min(counts) <= n
    <3> HIDE DEF counts
    <3> QED
      BY <2>1, MinOfCounts
  <2> QED
    BY <2>1, <2>2
<1> HIDE DEF take
<1>8. take \in 0 .. Len(p) /\ take \in 0 .. e - q /\ k \in Nat /\ k <= e /\ k <= Len(body) /\ k > 0 /\ q <= k
      /\ e - q - take = e - k /\ 1 <= q
  <2> HIDE DEF e, p
  <2> QED
    BY <1>3, <1>4, <1>5, <1>6, <1>7
<1>9. Splits(p, w, u)
  <2> HIDE DEF u
  <2>1. p \o w = u
    BY DEF u
  <2> QED
    BY <2>1, Unread
<1>10. InnerTakes(u, body, ends, q, i)
  <2> HIDE DEF u, body, ends
  <2> QED
    BY <1>3, <1>5, TakeInner
<1> HIDE DEF u
<1>11. run = SubSeq(body, q + 1, k) /\ Drop(p, take) \o w = v /\ At(body, ends, k, i)
  <2>1. run = SubSeq(u, 1, take) /\ Drop(p, take) \o w = Drop(u, take)
    BY <1>8, <1>9 DEF Splits
  <2>2. SubSeq(u, 1, take) = SubSeq(body, q + 1, q + take) /\ Drop(u, take) = v /\ At(body, ends, k, i)
    BY <1>8, <1>10 DEF InnerTakes
  <2> QED
    BY <2>1, <2>2
<1> DEFINE c == Consume(r, take)
           left == c.remaining - take
           next == [c EXCEPT !.remaining = left]
<1>12. c \in Readers /\ c.pending = Drop(p, take) /\ SameOuter(c, r) /\ c.output = r.output
       /\ c.innerTag = r.innerTag /\ c.remaining = r.remaining /\ c.innerPartial = r.innerPartial
       /\ c.innerFinalChunk = r.innerFinalChunk /\ c.literal = r.literal /\ c.algorithm = r.algorithm
  BY <1>6, <1>8, ConsumeFields
<1>13. left = e - k /\ left \in Nat
  <2> HIDE DEF c, e
  <2> QED
    BY <1>3, <1>5, <1>8, <1>12
<1> HIDE DEF c, left
<1>14. next \in Readers /\ next.pending = c.pending /\ SameOuter(next, c) /\ next.output = c.output
       /\ next.innerTag = c.innerTag /\ next.remaining = left /\ next.innerPartial = c.innerPartial
       /\ next.innerFinalChunk = c.innerFinalChunk /\ next.literal = c.literal /\ next.algorithm = c.algorithm
  BY <1>12, <1>13 DEF Readers, SameOuter
<1>15. [Consume(r, take) EXCEPT !.remaining = @ - take] = next
  BY DEF c, left
<1> DEFINE inflated == IF r.algorithm = 0 THEN run ELSE Inflated(run)
<1>16. TakeBody(r) =
          CASE r.innerTag = Literal -> LoopTop([next EXCEPT !.output = run])
            [] r.innerTag = Compressed /\ r.literal.partial ->
                  [next EXCEPT !.phase = "drain", !.literal.raw = @ \o inflated]
            [] r.innerTag = Compressed /\ ~r.literal.partial ->
                  [next EXCEPT !.phase = "drain", !.literal.plain = @ \o inflated]
  <2> HIDE DEF next
  <2> QED
    BY <1>15 DEF TakeBody, take
<1> HIDE DEF next, v, k
<1>17. run \in Bytes
  BY <1>6, <1>7, TakeFacts
<1>18. SameOuter(next, r)
  BY <1>12, <1>14 DEF SameOuter
<1>19. CASE m.algorithm = NotCompressed
  <2> DEFINE s == [next EXCEPT !.output = run]
             more == out \o run
  <2>1. r.innerTag = Literal /\ Literal # Compressed /\ body = LiteralBody(document)
    <3>1. r.innerTag = Literal /\ body = LiteralBody(document)
      BY <1>3, <1>19, InnerFacts
    <3> QED
      BY <3>1 DEF Literal, Compressed
  <2>2. TakeBody(r) = LoopTop(s)
    <3> HIDE DEF run, inflated
    <3> QED
      BY <1>16, <2>1
  <2> HIDE DEF run
  <2>3. s \in Readers /\ s.pending = next.pending /\ SameOuter(s, next) /\ s.output = run
        /\ s.innerTag = next.innerTag /\ s.remaining = next.remaining /\ s.innerPartial = next.innerPartial
        /\ s.innerFinalChunk = next.innerFinalChunk
    BY <1>14, <1>17 DEF Readers, SameOuter
  <2> HIDE DEF s
  <2>4. Content(s, m, document, k, more)
    <3>1. out = SubSeq(body, 2, q)
      BY <1>3, <1>19, <2>1 DEF Content
    <3>2. SubSeq(body, 2, q) \o SubSeq(body, q + 1, k) = SubSeq(body, 2, k)
      BY <1>5, <1>8, ContentMeets
    <3>3. more = SubSeq(body, 2, k)
      BY <1>11, <3>1, <3>2
    <3> QED
      BY <1>19, <2>1, <3>3 DEF Content
  <2>5. InnerPlace(s, v, m, document, more, k, i)
    BY <1>3, <1>11, <1>12, <1>13, <1>14, <2>3, <2>4 DEF InnerPlace, v
  <2> HIDE DEF more
  <2>6. /\ LoopTop(s).pending = s.pending /\ LoopTop(s).output = s.output
        /\ SameOuter(LoopTop(s), s)
        /\ InnerAt(LoopTop(s), v, m, document, more, k, i)
    BY <1>4, <1>8, <1>19, <2>3, <2>5, LoopTopFollows
  <2>7. LoopTop(s).pending \o w = v /\ out \o LoopTop(s).output = more /\ SameOuter(LoopTop(s), r)
    <3>1. SameOuter(LoopTop(s), r)
      BY <1>18, <2>3, <2>6 DEF SameOuter
    <3>2. out \o LoopTop(s).output = more
      BY <2>3, <2>6 DEF more
    <3> QED
      BY <1>11, <1>12, <1>14, <2>3, <2>6, <3>1, <3>2
  <2>8. GoesOn(LoopTop(s), r, w, m, document, out)
    BY <2>6, <2>7, PlaceGoesOn
  <2> QED
    BY <2>2, <2>8
<1>20. CASE m.algorithm # NotCompressed
  <2> DEFINE packet == LiteralPacket(m, document)
             lit == LiteralBody(document)
             t == Drop(packet, q - 1)
             l == Inflates(r.literal, inflated)
             s == [next EXCEPT !.phase = "drain", !.literal = l]
  <2>1. r.innerTag = Compressed /\ Compressed # Literal
    <3>1. r.innerTag = Compressed
      BY <1>3, <1>20, InnerFacts
    <3> QED
      BY <3>1 DEF Compressed, Literal
  <2>2. r.algorithm = m.algorithm /\ Decoded(r.literal, lit, m.literal, t, out)
    <3>1. q # 0
      BY <1>4, <1>5
    <3> QED
      BY <1>3, <1>20, <3>1 DEF Content
  <2>3. t \in Bytes /\ take \in 0 .. Len(t) /\ inflated = SubSeq(t, 1, take) /\ Drop(t, take) = Drop(packet, k - 1)
    <3>1. q >= 1 /\ q + take <= Len(body) /\ q + take = k
      BY <1>5, <1>8 DEF k
    <3>2. LET x == SubSeq(body, q + 1, q + take)
          IN  /\ t \in Bytes /\ take \in 0 .. Len(t)
              /\ (IF m.algorithm = 0 THEN x ELSE Inflated(x)) = SubSeq(t, 1, take)
              /\ Drop(t, take) = Drop(packet, q + take - 1)
      <4>1. q \in Nat /\ q >= 1 /\ take \in Nat /\ q + take <= Len(InnerBody(m, document))
        BY <1>5, <1>7, <3>1
      <4>2. InflatesTo(m, SubSeq(body, q + 1, q + take), t, take, Drop(packet, q + take - 1))
        BY <1>20, <4>1, InflatedRun
      <4> QED
        BY <4>2 DEF InflatesTo
    <3>3. SubSeq(body, q + 1, q + take) = run
      BY <1>11, <3>1
    <3>4. inflated = SubSeq(t, 1, take)
      <4> HIDE DEF run, t
      <4> QED
        BY <2>2, <3>2, <3>3
    <3>5. Drop(t, take) = Drop(packet, k - 1)
      <4>1. Drop(t, take) = Drop(packet, q + take - 1)
        BY <3>2
      <4>2. q + take - 1 = k - 1
        BY <1>5, <1>7 DEF k
      <4> HIDE DEF t, packet
      <4> QED
        BY <4>1, <4>2
    <3> HIDE DEF t, packet, inflated
    <3> QED
      BY <3>2, <3>4, <3>5
  <2>4. Decoded(l, lit, m.literal, Drop(packet, k - 1), out)
    <3>1. LiteralFramed(lit, m.literal)
      BY LiteralBodyFacts
    <3> HIDE DEF inflated, t, packet, lit
    <3>2. Decoded(Inflates(r.literal, SubSeq(t, 1, take)), lit, m.literal, Drop(t, take), out)
      BY <1>6, <2>2, <2>3, <3>1, InflateDecodes
    <3> QED
      BY <2>3, <3>2
  <2>5. TakeBody(r) = s
    <3> HIDE DEF inflated
    <3>1. next.literal = r.literal /\ r.literal.partial \in BOOLEAN
      BY <1>6, <1>12, <1>14, LiteralFields
    <3>2. CASE r.literal.partial
      <4>1. TakeBody(r) = [next EXCEPT !.phase = "drain", !.literal.raw = @ \o inflated]
        BY <1>16, <2>1, <3>2
      <4>2. l = [r.literal EXCEPT !.raw = r.literal.raw \o inflated]
        BY <3>2 DEF Inflates
      <4> QED
        BY <1>14, <3>1, <4>1, <4>2 DEF Readers
    <3>3. CASE ~r.literal.partial
      <4>1. TakeBody(r) = [next EXCEPT !.phase = "drain", !.literal.plain = @ \o inflated]
        BY <1>16, <2>1, <3>3
      <4>2. l = [r.literal EXCEPT !.plain = r.literal.plain \o inflated]
        BY <3>3 DEF Inflates
      <4> QED
        BY <1>14, <3>1, <4>1, <4>2 DEF Readers
    <3> QED
      BY <3>1, <3>2, <3>3
  <2> HIDE DEF l
  <2>6. s.pending = next.pending /\ SameOuter(s, next) /\ s.output = next.output /\ s.phase = "drain"
        /\ s.innerTag = next.innerTag /\ s.remaining = next.remaining /\ s.innerPartial = next.innerPartial
        /\ s.innerFinalChunk = next.innerFinalChunk /\ s.literal = l /\ s.algorithm = next.algorithm
    BY <1>14 DEF Readers, SameOuter
  <2> HIDE DEF s
  <2>7. Content(s, m, document, k, out)
    <3>1. k # 0
      BY <1>8
    <3> QED
      BY <1>12, <1>14, <1>20, <2>2, <2>4, <2>6, <3>1 DEF Content
  <2>8. InnerPlace(s, v, m, document, out, k, i)
    BY <1>3, <1>11, <1>12, <1>13, <1>14, <2>6, <2>7 DEF InnerPlace, v
  <2>9. InnerPhase(s, m, document, out, k, i)
    BY <1>4, <1>8, <1>20, <2>6 DEF InnerPhase
  <2>10. s.pending \o w = v /\ out \o s.output = out /\ SameOuter(s, r)
    <3>1. SameOuter(s, r)
      BY <1>18, <2>6 DEF SameOuter
    <3>2. out \o s.output = out
      BY <1>12, <1>14, <2>6, NoOctets
    <3> QED
      BY <1>11, <1>12, <1>14, <2>6, <3>1, <3>2
  <2>11. GoesOn(s, r, w, m, document, out)
    <3>1. InnerAt(s, v, m, document, out, k, i)
      BY <2>8, <2>9 DEF InnerAt
    <3> QED
      BY <2>10, <3>1, PlaceGoesOn
  <2> QED
    BY <2>5, <2>11
<1> QED
  BY <1>19, <1>20

\* drainDecoded puts out octets and leaves l of the literal packet to decode.
Replaces(s, r, more, l, u, m, document, out, q, i) ==
    /\ s \in Readers /\ s.phase = r.phase /\ s.pending = r.pending /\ s.output = more /\ SameOuter(s, r)
    /\ s.literal = l /\ s.remaining = r.remaining
    /\ InnerPlace(s, u, m, document, out \o more, q, i)

LEMMA LiteralReplaced ==
    ASSUME NEW m, NEW document, NEW r \in Readers, NEW u, NEW out, NEW more \in Bytes, NEW q, NEW i, NEW l \in LiteralStates,
           InnerPlace(r, u, m, document, out, q, i), q > 0, m.algorithm # NotCompressed,
           Decoded(l, LiteralBody(document), m.literal, Drop(LiteralPacket(m, document), q - 1), out \o more)
    PROVE  Replaces([r EXCEPT !.output = more, !.literal = l], r, more, l, u, m, document, out, q, i)
<1> DEFINE s == [r EXCEPT !.output = more, !.literal = l]
           now == out \o more
<1>1. s \in Readers
  BY DEF Readers
<1>2. s.phase = r.phase /\ s.pending = r.pending /\ s.output = more /\ SameOuter(s, r) /\ s.literal = l
      /\ s.innerTag = r.innerTag /\ s.remaining = r.remaining /\ s.innerPartial = r.innerPartial
      /\ s.innerFinalChunk = r.innerFinalChunk /\ s.algorithm = r.algorithm
  BY DEF Readers, SameOuter
<1> HIDE DEF s, now
<1>3. Content(s, m, document, q, now)
  <2>1. Decoded(l, LiteralBody(document), m.literal, Drop(LiteralPacket(m, document), q - 1), now)
    BY DEF now
  <2>2. q # 0
    OBVIOUS
  <2>3. r.algorithm = m.algorithm
    BY <2>2 DEF InnerPlace, Content
  <2> QED
    BY <1>2, <2>1, <2>2, <2>3 DEF Content
<1>4. InnerPlace(s, u, m, document, now, q, i)
  BY <1>2, <1>3 DEF InnerPlace
<1> QED
  BY <1>1, <1>2, <1>4 DEF s, now, Replaces

\* drainDecoded works off what the decompressor put out.
LEMMA DrainFollows ==
    ASSUME NEW m, NEW document, Readable(m, document), NEW r, Sound(r), NEW w \in Bytes, NEW out \in Bytes,
           InnerFollows(r, r.pending \o w, m, document, out), r.output = <<>>, r.phase = "drain"
    PROVE  GoesOn(drainDecoded(r), r, w, m, document, out)
<1> DEFINE body == InnerBody(m, document)
           ends == InnerFraming(m).ends
           packet == LiteralPacket(m, document)
           lit == LiteralBody(document)
           l == r.literal
           u == r.pending \o w
<1>1. PICK q, i : InnerAt(r, u, m, document, out, q, i)
  BY PlaceOf
<1> DEFINE t == Drop(packet, q - 1)
<1>2. InnerPlace(r, u, m, document, out, q, i) /\ InnerPhase(r, m, document, out, q, i)
  BY <1>1 DEF InnerAt
<1>3. q > 0 /\ m.algorithm # NotCompressed /\ (i = Len(ends) + 1 => ~EndsWithEmptyChunk(m, document))
  BY <1>2 DEF InnerPhase
<1>4. q \in Nat /\ q <= Len(body) /\ Len(body) \in Nat
  BY <1>2, PlaceFacts
<1>5. q # 0
  BY <1>3, <1>4
<1>6. Decoded(l, lit, m.literal, t, out)
  BY <1>2, <1>3, <1>5 DEF InnerPlace, Content
<1>7. r \in Readers /\ l \in LiteralStates /\ l.plain \in Bytes
  BY ReaderFields, LiteralFields
<1>8. /\ LiteralFramed(lit, m.literal) /\ packet \in Bytes /\ Len(packet) \in Nat
      /\ Drop(lit, 1) = document /\ Len(body) = 1 + Len(packet)
  BY <1>3, LiteralBodyFacts, InnerFacts
<1>9. t \in Bytes /\ Len(t) = Len(body) - q
  <2> DEFINE x == q - 1
  <2>1. x \in Nat /\ x <= Len(packet) /\ Len(packet) - x = Len(body) - q
    BY <1>3, <1>4, <1>8
  <2> HIDE DEF x
  <2>2. Drop(packet, x) \in Bytes /\ Len(Drop(packet, x)) = Len(packet) - x
    BY <1>8, <2>1, DropFacts
  <2> QED
    BY <2>1, <2>2 DEF x
<1>10. q = Len(body) => t = <<>>
  BY <1>4, <1>9, NoOctets
<1> HIDE DEF u, lit, packet, t, body, ends
<1>11. ASSUME NEW n \in LiteralStates, drainDecoded(r) = [r EXCEPT !.literal = n], Decoded(n, lit, m.literal, t, out)
       PROVE  GoesOn(drainDecoded(r), r, w, m, document, out)
  <2> DEFINE none == <<>>
             s == [r EXCEPT !.output = none, !.literal = n]
  <2>1. none \in Bytes /\ out \o none = out
    BY NoOctets
  <2>2. drainDecoded(r) = s
    BY <1>7, <1>11 DEF Readers
  <2> HIDE DEF none
  <2>3. /\ s \in Readers /\ s.phase = r.phase /\ s.pending = r.pending /\ s.output = none /\ SameOuter(s, r)
        /\ s.literal = n /\ s.remaining = r.remaining
        /\ InnerPlace(s, u, m, document, out \o none, q, i)
    <3>1. Decoded(n, LiteralBody(document), m.literal, Drop(LiteralPacket(m, document), q - 1), out \o none)
      BY <1>11, <2>1 DEF lit, packet, t
    <3>2. Replaces(s, r, none, n, u, m, document, out, q, i)
      BY <1>2, <1>3, <1>7, <1>11, <2>1, <3>1, LiteralReplaced
    <3> HIDE DEF s
    <3> QED
      BY <3>2 DEF Replaces
  <2> HIDE DEF s
  <2>4. InnerPhase(s, m, document, out, q, i)
    BY <1>2, <2>3 DEF InnerPhase
  <2>5. InnerAt(s, u, m, document, out \o s.output, q, i)
    BY <2>1, <2>3, <2>4 DEF InnerAt
  <2>6. s.pending \o w = u
    BY <2>3 DEF u
  <2>7. s.phase # "done"
    BY <2>3
  <2>8. GoesOn(s, r, w, m, document, out)
    BY <2>3, <2>5, <2>6, <2>7, PlaceGoesOn
  <2> QED
    BY <2>2, <2>8
<1>12. CASE Dechunks(l)
  <2>1. Decoded(Dechunk(l), lit, m.literal, t, out)
    BY <1>6, <1>7, <1>8, <1>9, <1>12, DechunkDecodes
  <2>2. drainDecoded(r) = [r EXCEPT !.literal = Dechunk(l)]
    BY <1>12 DEF drainDecoded
  <2>3. Dechunk(l) \in LiteralStates
    BY <1>7, <1>12, DechunkType
  <2> QED
    BY <1>11, <2>1, <2>2, <2>3
<1>13. CASE ~Dechunks(l) /\ ~l.headerParsed /\ HeaderComplete(l.plain)
  <2>1. l.plain[1].n = Literal /\ Decoded(ParseLiteralHeader(l), lit, m.literal, t, out)
    BY <1>6, <1>7, <1>8, <1>9, <1>13, HeaderDecodes
  <2>2. drainDecoded(r) = [r EXCEPT !.literal = ParseLiteralHeader(l)]
    BY <1>13, <2>1 DEF drainDecoded
  <2>3. ParseLiteralHeader(l) \in LiteralStates
    BY <1>7, <1>13, LiteralHeaderType
  <2> QED
    BY <1>11, <2>1, <2>2, <2>3
<1>14. CASE ~Dechunks(l) /\ l.headerParsed /\ ~l.prefixParsed /\ l.plain # <<>>
  <2>1. (l.indeterminate \/ l.contentRemaining >= 1) /\ Decoded(ParseLiteralPrefix(l), lit, m.literal, t, out)
    BY <1>6, <1>7, <1>8, <1>9, <1>14, PrefixDecodes
  <2>2. ~(~l.indeterminate /\ l.contentRemaining < 1)
    BY <1>7, <2>1 DEF LiteralStates
  <2>3. drainDecoded(r) = [r EXCEPT !.literal = ParseLiteralPrefix(l)]
    BY <1>14, <2>2 DEF drainDecoded
  <2>4. ParseLiteralPrefix(l) \in LiteralStates
    BY <1>7, <1>14, <2>1, LiteralPrefixType
  <2> QED
    BY <1>11, <2>1, <2>3, <2>4
<1>15. CASE /\ ~Dechunks(l) /\ ~(~l.headerParsed /\ HeaderComplete(l.plain))
            /\ ~(l.headerParsed /\ ~l.prefixParsed /\ l.plain # <<>>)
  <2>1. ASSUME q = Len(body)
        PROVE  /\ l.prefixParsed /\ (~l.indeterminate => l.contentRemaining = Len(l.plain))
               /\ (l.partial => l.finalChunk /\ l.chunkRemaining = 0 /\ l.raw = <<>>) /\ out \o l.plain = document
    <3>1. Decoded(l, lit, m.literal, <<>>, out)
      BY <1>6, <1>10, <2>1
    <3>2. /\ l.prefixParsed /\ (~l.indeterminate => l.contentRemaining = Len(l.plain))
          /\ (l.partial => l.finalChunk /\ l.chunkRemaining = 0 /\ l.raw = <<>>) /\ out \o l.plain = Drop(lit, 1)
      BY <1>7, <1>8, <1>15, <3>1, EndDecodes
    <3> QED
      BY <1>8, <3>2
  <2>2. drainDecoded(r) = WriteDecoded(r)
    BY <1>15 DEF drainDecoded
  <2>3. ASSUME NEW s \in Readers, NEW more, InnerPlace(s, u, m, document, more, q, i), out \o s.output = more,
               s.pending = r.pending, SameOuter(s, r), drainDecoded(r) = LoopTop(s),
               q = Len(body) => LiteralEnded(s.literal) /\ more = document
        PROVE  GoesOn(drainDecoded(r), r, w, m, document, out)
    <3>1. /\ LoopTop(s).pending = s.pending /\ LoopTop(s).output = s.output /\ SameOuter(LoopTop(s), s)
          /\ InnerAt(LoopTop(s), u, m, document, more, q, i)
      BY <1>3, <2>3, LoopTopFollows DEF body, ends
    <3>2. SameOuter(LoopTop(s), r) /\ LoopTop(s).pending \o w = u
      BY <2>3, <3>1 DEF SameOuter, u
    <3>3. GoesOn(LoopTop(s), r, w, m, document, out)
      BY <2>3, <3>1, <3>2, PlaceGoesOn
    <3> QED
      BY <2>3, <3>3
  <2>4. CASE ~l.prefixParsed
    <3>1. q # Len(body)
      BY <2>1, <2>4
    <3>2. drainDecoded(r) = LoopTop(r)
      BY <2>2, <2>4 DEF WriteDecoded
    <3>3. SameOuter(r, r) /\ out \o r.output = out
      BY NoOctets DEF SameOuter
    <3> QED
      BY <1>2, <1>7, <2>3, <3>1, <3>2, <3>3
  <2>5. CASE l.prefixParsed
    <3> DEFINE short == l.contentRemaining - Len(l.plain)
               n == IF l.indeterminate THEN [l EXCEPT !.plain = <<>>]
                    ELSE [l EXCEPT !.plain = <<>>, !.contentRemaining = short]
               s == [r EXCEPT !.output = l.plain, !.literal = n]
    <3>1. l.indeterminate \in BOOLEAN /\ l.contentRemaining \in Nat /\ Len(l.plain) \in Nat
      BY <1>7, LiteralFields, NoOctets
    <3>2. (~l.indeterminate => Len(l.plain) <= l.contentRemaining) /\ Decoded(n, lit, m.literal, t, out \o l.plain)
      <4>1. Written(n, l)
        BY <3>1 DEF Written
      <4>2. l \in LiteralStates /\ LiteralFramed(lit, m.literal) /\ t \in Bytes /\ Decoded(l, lit, m.literal, t, out)
            /\ l.prefixParsed
        BY <1>6, <1>7, <1>8, <1>9, <2>5
      <4> HIDE DEF n, l
      <4> QED
        BY <4>1, <4>2, WriteDecodes
    <3>3. ~l.indeterminate => short \in Nat
      BY <3>1, <3>2
    <3> HIDE DEF short
    <3>4. n \in LiteralStates /\ n.prefixParsed = l.prefixParsed /\ n.indeterminate = l.indeterminate
          /\ n.partial = l.partial /\ n.finalChunk = l.finalChunk /\ n.chunkRemaining = l.chunkRemaining /\ n.raw = l.raw
          /\ (~l.indeterminate => n.contentRemaining = short)
      <4>1. <<>> \in Bytes
        BY NoOctets
      <4>2. CASE l.indeterminate
        BY <1>7, <4>1, <4>2 DEF LiteralStates
      <4>3. CASE ~l.indeterminate
        BY <1>7, <3>3, <4>1, <4>3 DEF LiteralStates
      <4> QED
        BY <4>2, <4>3
    <3>5. WriteDecoded(r) = LoopTop(s)
      <4>1. CASE l.indeterminate
        <5>1. WriteDecoded(r) = LoopTop([r EXCEPT !.output = l.plain, !.literal.plain = <<>>])
          BY <2>5, <4>1 DEF WriteDecoded
        <5>2. [r EXCEPT !.output = l.plain, !.literal.plain = <<>>] = s
          BY <1>7, <4>1 DEF Readers
        <5> QED
          BY <5>1, <5>2
      <4>2. CASE ~l.indeterminate
        <5>1. ~(Len(l.plain) > l.contentRemaining)
          BY <3>1, <3>2, <4>2
        <5>2. WriteDecoded(r) = LoopTop([r EXCEPT !.output = l.plain, !.literal.plain = <<>>,
                                                  !.literal.contentRemaining = @ - Len(l.plain)])
          BY <2>5, <4>2, <5>1 DEF WriteDecoded
        <5>3. [r EXCEPT !.output = l.plain, !.literal.plain = <<>>,
                        !.literal.contentRemaining = @ - Len(l.plain)] = s
          BY <1>7, <4>2 DEF Readers, LiteralStates, short
        <5> QED
          BY <5>2, <5>3
      <4> QED
        BY <4>1, <4>2
    <3> HIDE DEF n
    <3>6. /\ s \in Readers /\ s.pending = r.pending /\ s.output = l.plain /\ SameOuter(s, r) /\ s.literal = n
          /\ InnerPlace(s, u, m, document, out \o l.plain, q, i)
      <4>1. Decoded(n, LiteralBody(document), m.literal, Drop(LiteralPacket(m, document), q - 1), out \o l.plain)
        BY <3>2 DEF lit, packet, t
      <4>2. l.plain \in Bytes /\ n \in LiteralStates /\ r \in Readers
        BY <1>7, <3>4
      <4>3. Replaces(s, r, l.plain, n, u, m, document, out, q, i)
        <5> HIDE DEF l
        <5> QED
          BY <1>2, <1>3, <4>1, <4>2, LiteralReplaced
      <4> HIDE DEF s
      <4> QED
        BY <4>3 DEF Replaces
    <3> HIDE DEF s
    <3>7. q = Len(body) => LiteralEnded(s.literal) /\ out \o l.plain = document
      <4>1. ASSUME q = Len(body)
            PROVE  LiteralEnded(n)
        <5>1. ~n.indeterminate => n.contentRemaining = 0
          BY <2>1, <3>1, <3>4, <4>1 DEF short
        <5> QED
          BY <2>1, <3>4, <4>1, <5>1 DEF LiteralEnded
      <4> QED
        BY <2>1, <3>6, <4>1
    <3>8. drainDecoded(r) = LoopTop(s)
      BY <2>2, <3>5
    <3> QED
      BY <2>3, <3>6, <3>7, <3>8
  <2> QED
    BY <2>4, <2>5
<1> QED
  BY <1>12, <1>13, <1>14, <1>15

-----------------------------------------------------------------------------
(* One step of the reader in an intact message. *)

\* The reader is somewhere in the message's encrypted packet, and inside that somewhere
\* in the packet it holds; out is what it has put out.
Follows(r, m, document, out) ==
    LET body == OuterBody(m, document)
    IN  \E q \in 0 .. Len(body), i \in 1 .. (Len(m.outer.ends) + 1) :
           /\ OuterAt(r, body, m.outer.ends, q, i)
           /\ InnerFollows(r, r.pending \o Drop(body, q), m, document, out)

LEMMA InnerStays ==
    ASSUME NEW r, NEW s, NEW u, NEW m, NEW document, NEW out, InnerFollows(r, u, m, document, out),
           s.phase = r.phase, s.innerTag = r.innerTag, s.remaining = r.remaining, s.innerPartial = r.innerPartial,
           s.innerFinalChunk = r.innerFinalChunk, s.literal = r.literal, s.algorithm = r.algorithm
    PROVE  InnerFollows(s, u, m, document, out)
<1>1. CASE \E q \in 0 .. Len(InnerBody(m, document)), i \in 1 .. (Len(InnerFraming(m).ends) + 1) :
              InnerAt(r, u, m, document, out, q, i)
  <2>1. PICK q \in 0 .. Len(InnerBody(m, document)), i \in 1 .. (Len(InnerFraming(m).ends) + 1) :
              InnerAt(r, u, m, document, out, q, i)
    BY <1>1
  <2>2. InnerPlace(r, u, m, document, out, q, i) /\ InnerPhase(r, m, document, out, q, i)
    BY <2>1 DEF InnerAt
  <2>3. InnerPlace(s, u, m, document, out, q, i)
    BY <2>2, SamePlace
  <2>4. InnerPhase(s, m, document, out, q, i)
    BY <2>2 DEF InnerPhase
  <2>5. InnerAt(s, u, m, document, out, q, i)
    BY <2>3, <2>4 DEF InnerAt
  <2> QED
    BY <2>5 DEF InnerFollows
<1>2. CASE /\ r.phase \in {"random", "header"}
           /\ u = (IF r.phase = "random" THEN <<An("random", 0)>> ELSE <<>>) \o (InnerPacket(m, document) \o Mdc)
           /\ r.literal = NoLiteral /\ ~r.innerFinalChunk /\ out = <<>>
  BY <1>2 DEF InnerFollows
<1> QED
  BY <1>1, <1>2 DEF InnerFollows

\* An intact message never ends in the middle of what ensurePending is asked for.
LEMMA EnoughLeft ==
    ASSUME NEW m, NEW document, Readable(m, document), NEW r, Sound(r), NEW out,
           InnerFollows(r, r.pending, m, document, out), ~NothingToRead(r)
    PROVE  Len(r.pending) >= Needed(r)
<1> DEFINE u == r.pending
           whole == InnerPacket(m, document) \o Mdc
           body == InnerBody(m, document)
           ends == InnerFraming(m).ends
<1>1. u \in Bytes /\ Len(u) \in Nat
  BY ReaderFields
<1>2. whole \in Bytes /\ Len(whole) \in Nat /\ Len(whole) >= 2
  BY InnerHeaderCut
<1>3. CASE r.phase = "random"
  <2>1. u = <<An("random", 0)>> \o whole
    BY <1>3 DEF InnerFollows, InnerAt, InnerPhase
  <2>2. Len(u) = 1 + Len(whole)
    <3>1. An("random", 0) \in Octet
      BY AnOctet DEF Kinds
    <3> HIDE DEF whole
    <3> QED
      BY <1>2, <2>1, <3>1, OctetFirst
  <2>3. Needed(r) = 1
    BY <1>3 DEF Needed
  <2> QED
    BY <1>2, <2>2, <2>3
<1>4. CASE r.phase = "header"
  <2>1. u = <<>> \o whole
    BY <1>4 DEF InnerFollows, InnerAt, InnerPhase
  <2>2. u = whole
    BY <1>2, <2>1, NoOctets
  <2>3. /\ Len(u) >= 2
        /\ \/ u[1].kind = "oldTag"
           \/ 1 + HeaderSize(u[2]) + 1 <= Len(u) /\ HeaderSize(u[2]) \in {1, 2}
    <3>1. LET old == InnerFraming(m).form = "indeterminate"
              size == IF old THEN 1 ELSE 1 + HeaderSize(whole[2])
          IN  size + 1 <= Len(whole) /\ whole[1].kind = (IF old THEN "oldTag" ELSE "tag")
      BY InnerHeaderCut
    <3>2. HeaderSize(u[2]) \in {1, 2}
      BY DEF HeaderSize
    <3> HIDE DEF u, whole
    <3> QED
      BY <1>2, <2>2, <3>1, <3>2
  <2>4. Needed(r) = IF Len(u) >= 2 /\ u[1].kind = "tag" THEN 1 + HeaderSize(u[2]) ELSE 2
    BY <1>4 DEF Needed
  <2> HIDE DEF u
  <2> QED
    BY <1>1, <2>3, <2>4 DEF u
<1>5. ASSUME r.phase \notin {"random", "header"}
      PROVE  Len(u) >= 1 /\ (r.phase = "chunk" => u # <<>> /\ HeaderSize(u[1]) <= Len(u))
  <2>1. PICK q, i : InnerAt(r, u, m, document, out, q, i)
    BY <1>5, PlaceOf
  <2> DEFINE a == Ahead(body, ends, q, i)
             e == ChunkEnd(body, ends, i)
  <2>2. InnerPlace(r, u, m, document, out, q, i) /\ InnerPhase(r, m, document, out, q, i)
    BY <2>1 DEF InnerAt
  <2>3. Chunking(body, ends) /\ At(body, ends, q, i) /\ q \in Nat /\ e \in Nat
    BY <2>2, PlaceFacts
  <2>4. u = a \o Mdc /\ r.remaining = e - q /\ (ends # <<>> => (r.innerFinalChunk <=> i = Len(ends) + 1))
    BY <2>2 DEF InnerPlace
  <2>5. a \in Bytes /\ Len(a) \in Nat
    BY <2>3, AheadFacts, NoOctets
  <2>6. Len(u) = Len(a) + 1
    <3>1. Mdc \in Bytes /\ Len(Mdc) = 1
      BY MdcFacts
    <3> HIDE DEF a, u
    <3>2. Len(a \o Mdc) = Len(a) + Len(Mdc)
      BY <2>5, <3>1, ConcatBytes
    <3> QED
      BY <2>4, <3>1, <3>2
  <2>7. ASSUME r.phase = "chunk"
        PROVE  u # <<>> /\ HeaderSize(u[1]) <= Len(u)
    <3>1. ends # <<>> /\ r.remaining = 0
      BY <2>2, <2>7 DEF InnerPhase
    <3>2. i # Len(ends) + 1 /\ q = e
      BY <2>3, <2>4, <2>7, <3>1 DEF NothingToRead
    <3>3. HeaderSize(a[1]) <= Len(a) /\ HeaderSize(a[1]) \in {1, 2}
      BY <2>3, <3>2, NextAhead
    <3>4. u[1] = a[1]
      <4>1. (a \o Mdc)[1] = a[1]
        BY <2>3, <3>2, FirstOfNext
      <4> HIDE DEF a, u
      <4> QED
        BY <2>4, <4>1
    <3>5. u # <<>>
      BY <1>1, <2>5, <2>6, NoOctets
    <3> HIDE DEF a, u
    <3> QED
      BY <2>5, <2>6, <3>3, <3>4, <3>5
  <2> QED
    BY <2>5, <2>6, <2>7
<1>6. CASE r.phase = "chunk"
  <2>1. Needed(r) = HeaderSize(u[1])
    BY <1>5, <1>6 DEF Needed
  <2> QED
    BY <1>5, <1>6, <2>1
<1>7. CASE r.phase = "drain"
  <2>1. Needed(r) = 0
    BY <1>7 DEF Needed
  <2> QED
    BY <1>1, <2>1
<1>8. CASE r.phase \notin {"random", "header", "chunk", "drain"}
  <2>1. Needed(r) = 1
    BY <1>8 DEF Needed
  <2> QED
    BY <1>5, <1>8, <2>1
<1> QED
  BY <1>3, <1>4, <1>6, <1>7, <1>8

\* Before it reads any more, the reader refuses an intact message only where it ends
\* with an empty chunk.
LEMMA NothingLeft ==
    ASSUME NEW m, NEW document, Readable(m, document), NEW r, Sound(r), NEW w \in Bytes, NEW out,
           r.cipherRemaining = Len(w),
           InnerFollows(r, r.pending \o w, m, document, out), NothingToRead(r)
    PROVE  Refuses(Stop(r, "INVALID_DATA"), m, document)
<1> DEFINE u == r.pending \o w
           whole == InnerPacket(m, document) \o Mdc
           ends == InnerFraming(m).ends
<1>1. r.encLength \in Nat /\ r.streamPos \in Nat /\ r \in Readers
  BY ReaderFields
<1>2. Len(u) \in Nat /\ Len(u) = r.encLength - r.streamPos
  BY Unread
<1>3. ~(r.phase = "random" /\ r.encLength < 3)
  <2> SUFFICES ASSUME r.phase = "random"
               PROVE  ~(r.encLength < 3)
    OBVIOUS
  <2>1. u = <<An("random", 0)>> \o whole
    BY DEF InnerFollows, InnerAt, InnerPhase
  <2>2. whole \in Bytes /\ Len(whole) \in Nat /\ Len(whole) >= 2
    BY InnerHeaderCut
  <2>3. Len(u) = 1 + Len(whole)
    <3>1. An("random", 0) \in Octet
      BY AnOctet DEF Kinds
    <3> HIDE DEF whole, u
    <3> QED
      BY <2>1, <2>2, <3>1, OctetFirst
  <2> HIDE DEF u, whole
  <2> QED
    BY <1>1, <1>2, <2>2, <2>3
<1>4. r.phase = "chunk" /\ r.innerFinalChunk
  BY <1>3 DEF NothingToRead
<1>5. PICK q, i : InnerAt(r, u, m, document, out, q, i)
  BY <1>4, PlaceOf
<1>6. InnerPlace(r, u, m, document, out, q, i) /\ InnerPhase(r, m, document, out, q, i)
  BY <1>5 DEF InnerAt
<1>7. i = Len(ends) + 1
  BY <1>4, <1>6 DEF InnerPlace, InnerPhase
<1>8. EndsWithEmptyChunk(m, document)
  BY <1>4, <1>6, <1>7 DEF InnerPhase
<1>9. LET s == Stop(r, "INVALID_DATA") IN s.phase = "done" /\ s.code = "INVALID_DATA" /\ s.output = <<>>
  BY <1>1 DEF Stop, Readers
<1> QED
  BY <1>8, <1>9 DEF Refuses

\* The step of the phase, once everything it needs is waiting.
LEMMA PhaseMoves ==
    ASSUME NEW m, NEW document, Readable(m, document), NEW r, Sound(r), NEW w \in Bytes, NEW out \in Bytes,
           r.cipherRemaining = Len(w), r.output = <<>>, r.phase # "done",
           InnerFollows(r, r.pending \o w, m, document, out), ~NothingToRead(r), Len(r.pending) >= Needed(r)
    PROVE  Moves(CASE r.phase = "random" -> [Consume(r, 1) EXCEPT !.phase = "header"]
                   [] r.phase = "header" -> ParseInnerHeader(r)
                   [] r.phase \in {"literal", "algorithm"} -> ParsePrefix(r)
                   [] r.phase = "chunk" -> ParseChunkHeader(r)
                   [] r.phase = "take" -> TakeBody(r)
                   [] r.phase = "drain" -> drainDecoded(r)
                   [] r.phase = "trailer" -> CheckTrailer(r), r, w, m, document, out)
<1>1. r.phase \in Phases
  BY ReaderFields
<1>2. r.phase \in {"random", "literal", "algorithm", "trailer"} => Len(r.pending) >= 1
  BY DEF Needed
<1>3. CASE r.phase = "random"
  <2>1. GoesOn([Consume(r, 1) EXCEPT !.phase = "header"], r, w, m, document, out)
    BY <1>2, <1>3, RandomFollows
  <2> QED
    BY <1>3, <2>1 DEF Moves
<1>4. CASE r.phase = "header"
  <2>1. GoesOn(ParseInnerHeader(r), r, w, m, document, out)
    BY <1>4, InnerHeaderFollows
  <2> QED
    BY <1>4, <2>1 DEF Moves
<1>5. CASE r.phase \in {"literal", "algorithm"}
  <2>1. GoesOn(ParsePrefix(r), r, w, m, document, out)
    BY <1>2, <1>5, PrefixFollows
  <2> QED
    BY <1>5, <2>1 DEF Moves
<1>6. CASE r.phase = "chunk"
  <2>1. ~r.innerFinalChunk
    BY <1>6 DEF NothingToRead
  <2>2. GoesOn(ParseChunkHeader(r), r, w, m, document, out)
    BY <1>6, <2>1, ChunkFollows
  <2> QED
    BY <1>6, <2>2 DEF Moves
<1>7. CASE r.phase = "take"
  <2>1. GoesOn(TakeBody(r), r, w, m, document, out)
    BY <1>7, TakeFollows
  <2> QED
    BY <1>7, <2>1 DEF Moves
<1>8. CASE r.phase = "drain"
  <2>1. GoesOn(drainDecoded(r), r, w, m, document, out)
    BY <1>8, DrainFollows
  <2> QED
    BY <1>8, <2>1 DEF Moves
<1>9. CASE r.phase = "trailer"
  <2>1. Accepts(CheckTrailer(r), m, document, out)
    BY <1>2, <1>9, TrailerFollows
  <2> QED
    BY <1>9, <2>1 DEF Moves
<1> QED
  BY <1>1, <1>3, <1>4, <1>5, <1>6, <1>7, <1>8, <1>9 DEF Phases

LEMMA StepFollows ==
    ASSUME NEW m, NEW document, Readable(m, document), NEW s, Sound(s), s.phase # "done",
           NEW out \in Bytes, Follows(s, m, document, out)
    PROVE  LET next == ReaderStep(s)
           IN  \/ next.phase # "done" /\ Follows(next, m, document, out \o next.output)
               \/ Accepts(next, m, document, out)
               \/ Refuses(next, m, document)
<1> DEFINE none == <<>>
           r == [s EXCEPT !.output = none]
           body == OuterBody(m, document)
           ends == m.outer.ends
           next == ReaderStep(s)
<1>1. none \in Bytes
  BY NoOctets
<1> HIDE DEF none
<1>2. r \in Readers /\ r.output = none /\ r.phase = s.phase /\ r.pending = s.pending /\ SameOuter(r, s)
      /\ r.innerTag = s.innerTag /\ r.remaining = s.remaining /\ r.innerPartial = s.innerPartial
      /\ r.innerFinalChunk = s.innerFinalChunk /\ r.literal = s.literal /\ r.algorithm = s.algorithm
      /\ r.streamPos = s.streamPos /\ r.encLength = s.encLength /\ r.cipherRemaining = s.cipherRemaining
  <2>1. s \in Readers
    BY DEF Sound
  <2>2. r \in Readers
    BY <1>1, <2>1 DEF Readers
  <2> QED
    BY <2>1, <2>2 DEF Readers, SameOuter
<1>3. next = CASE NothingToRead(r) -> Stop(r, "INVALID_DATA")
               [] ~NothingToRead(r) /\ Len(r.pending) < Needed(r) -> Fill(r)
               [] OTHER ->
                    CASE r.phase = "random" -> [Consume(r, 1) EXCEPT !.phase = "header"]
                      [] r.phase = "header" -> ParseInnerHeader(r)
                      [] r.phase \in {"literal", "algorithm"} -> ParsePrefix(r)
                      [] r.phase = "chunk" -> ParseChunkHeader(r)
                      [] r.phase = "take" -> TakeBody(r)
                      [] r.phase = "drain" -> drainDecoded(r)
                      [] r.phase = "trailer" -> CheckTrailer(r)
  BY DEF ReaderStep, none
<1> HIDE DEF r, next, body
<1>4. Sound(r)
  BY <1>2 DEF Sound, Balanced
<1>5. PICK q \in 0 .. Len(body), i \in 1 .. (Len(ends) + 1) :
         /\ OuterAt(s, body, ends, q, i)
         /\ InnerFollows(s, s.pending \o Drop(body, q), m, document, out)
  BY DEF Follows, body
<1> DEFINE w == Drop(body, q)
<1>6. OuterAt(r, body, ends, q, i)
  BY <1>2, <1>5, OuterStays
<1>7. InnerFollows(r, r.pending \o w, m, document, out)
  <2> HIDE DEF w
  <2>1. InnerFollows(s, r.pending \o w, m, document, out)
    BY <1>2, <1>5 DEF w
  <2> QED
    BY <1>2, <2>1, InnerStays
<1>8. body \in Bytes /\ Len(body) \in Nat /\ Chunking(body, ends)
  BY OuterFacts, NoOctets DEF body
<1>9. w \in Bytes /\ r.cipherRemaining = Len(w)
  <2>1. w \in Bytes /\ Len(w) = Len(body) - q
    BY <1>8, DropFacts
  <2> QED
    BY <1>6, <2>1 DEF OuterAt
<1> HIDE DEF w
<1>10. r.phase # "done" /\ r.output = <<>> /\ out \in Bytes
  BY <1>2 DEF none
<1>11. CASE NothingToRead(r)
  <2>1. next = Stop(r, "INVALID_DATA")
    BY <1>3, <1>11
  <2>2. Refuses(Stop(r, "INVALID_DATA"), m, document)
    BY <1>4, <1>7, <1>9, <1>11, NothingLeft
  <2> QED
    BY <2>1, <2>2 DEF next
<1>12. CASE ~NothingToRead(r) /\ Len(r.pending) < Needed(r)
  <2>1. next = Fill(r)
    BY <1>3, <1>12
  <2>2. q # Len(body)
    <3>1. SUFFICES ASSUME q = Len(body) PROVE FALSE
      OBVIOUS
    <3>2. w = <<>>
      <4>1. Len(w) = 0
        BY <1>6, <1>8, <1>9, <3>1 DEF OuterAt
      <4> QED
        BY <1>9, <4>1, NoOctets
    <3>3. r.pending \o w = r.pending
      BY <1>4, <3>2, ReaderFields, NoOctets
    <3>4. Len(r.pending) >= Needed(r)
      <4>1. InnerFollows(r, r.pending, m, document, out)
        BY <1>7, <3>3
      <4> QED
        BY <1>4, <1>12, <4>1, EnoughLeft
    <3>5. Len(r.pending) \in Nat /\ Needed(r) \in Nat
      <4>1. Len(r.pending) \in Nat
        BY <1>4, ReaderFields
      <4>2. \A x : HeaderSize(x) \in {1, 2}
        BY DEF HeaderSize
      <4> QED
        BY <4>1, <4>2 DEF Needed
    <3> QED
      BY <1>12, <3>4, <3>5
  <2>3. q < Len(body)
    BY <1>5, <1>8, <2>2
  <2>4. PICK k \in 0 .. Len(body), j \in 1 .. Len(ends) + 1 :
              /\ OuterAt(Fill(r), body, ends, k, j)
              /\ Fill(r).pending \o Drop(body, k) = r.pending \o Drop(body, q)
              /\ SameInner(Fill(r), r)
    BY <1>4, <1>6, <1>8, <2>3, FillOuter
  <2>5. next.phase # "done" /\ out \o next.output = out
    BY <1>10, <2>1, <2>4, NoOctets DEF SameInner
  <2>6. InnerFollows(next, next.pending \o Drop(body, k), m, document, out)
    <3>1. InnerFollows(r, next.pending \o Drop(body, k), m, document, out)
      BY <1>7, <2>1, <2>4 DEF w
    <3>2. next.phase = r.phase /\ next.innerTag = r.innerTag /\ next.remaining = r.remaining
          /\ next.innerPartial = r.innerPartial /\ next.innerFinalChunk = r.innerFinalChunk
          /\ next.literal = r.literal /\ next.algorithm = r.algorithm
      BY <2>1, <2>4 DEF SameInner
    <3> QED
      BY <3>1, <3>2, InnerStays
  <2>7. Follows(next, m, document, out)
    BY <2>1, <2>4, <2>6 DEF Follows, body
  <2> QED
    BY <2>5, <2>7 DEF next
<1>13. CASE ~NothingToRead(r) /\ ~(Len(r.pending) < Needed(r))
  <2>1. Len(r.pending) >= Needed(r)
    <3>1. Len(r.pending) \in Nat
      BY <1>4, ReaderFields
    <3>2. \A x : HeaderSize(x) \in {1, 2}
      BY DEF HeaderSize
    <3>3. Needed(r) \in Nat
      BY <3>2 DEF Needed
    <3> QED
      BY <1>13, <3>1, <3>3
  <2>2. Moves(next, r, w, m, document, out)
    <3> DEFINE step == CASE r.phase = "random" -> [Consume(r, 1) EXCEPT !.phase = "header"]
                   [] r.phase = "header" -> ParseInnerHeader(r)
                   [] r.phase \in {"literal", "algorithm"} -> ParsePrefix(r)
                   [] r.phase = "chunk" -> ParseChunkHeader(r)
                   [] r.phase = "take" -> TakeBody(r)
                   [] r.phase = "drain" -> drainDecoded(r)
                   [] r.phase = "trailer" -> CheckTrailer(r)
    <3>1. Moves(step, r, w, m, document, out)
      BY <1>4, <1>7, <1>9, <1>10, <1>13, <2>1, PhaseMoves
    <3>2. next = CASE NothingToRead(r) -> Stop(r, "INVALID_DATA")
               [] ~NothingToRead(r) /\ Len(r.pending) < Needed(r) -> Fill(r)
               [] OTHER -> step
      BY <1>3
    <3> HIDE DEF step
    <3>3. next = step
      BY <1>13, <3>2
    <3> QED
      BY <3>1, <3>3
  <2>3. ASSUME GoesOn(next, r, w, m, document, out)
        PROVE  next.phase # "done" /\ Follows(next, m, document, out \o next.output)
    <3>1. next.phase # "done" /\ SameOuter(next, r)
          /\ InnerFollows(next, next.pending \o w, m, document, out \o next.output)
      BY <2>3 DEF GoesOn
    <3>2. OuterAt(next, body, ends, q, i)
      BY <1>6, <3>1, OuterStays
    <3> QED
      BY <1>5, <3>1, <3>2 DEF Follows, body, w
  <2> QED
    BY <2>2, <2>3 DEF Moves, next
<1> QED
  BY <1>11, <1>12, <1>13
-----------------------------------------------------------------------------
(* parseEncryptedFileHeader accepts every intact message. *)

\* An intact message begins in this way, and its version octet starts the encrypted
\* packet's body.
LEMMA MessageBegins ==
    ASSUME NEW m, NEW document, Readable(m, document)
    PROVE  LET file == MessageFor(m, document)
               body == OuterBody(m, document)
               ends == m.outer.ends
               k == Len(m.recipients)
               v == k + HeaderSize(file[k + 2]) + 2
           IN  /\ Begins(file, k, v)
               /\ (file[k + 2].kind = "partial" <=> ends # <<>>)
               /\ file[k + 2].n = ChunkEnd(body, ends, 1)
               /\ Drop(file, v - 1) = Ahead(body, ends, 0, 1)
<1> DEFINE file == MessageFor(m, document)
           body == OuterBody(m, document)
           ends == m.outer.ends
           keys == Pkesks(m.recipients)
           k == Len(m.recipients)
           h == ChunkHeader(body, ends, 1)
           a == Ahead(body, ends, 0, 1)
           tag == <<An("tag", Seip)>>
           packet == tag \o (h \o a)
<1>1. m.recipients \in Seq(Nat) /\ k \in Nat /\ keys \in Bytes /\ Len(keys) = k
  <2>1. m.recipients \in Seq(Nat)
    BY DEF Readable, MessageRecords
  <2> QED
    BY <2>1, PkesksBytes DEF Pkesks
<1>2. m.outer \in Framings /\ WellFramed(m.outer, body) /\ m.outer.form # "indeterminate"
      /\ OwnSubkey \in Range(m.recipients) /\ k + 2 + Len(h) <= HeadRead
  BY DEF Readable, MessageRecords, Intact
<1>3. body \in Bytes /\ Len(body) \in Nat /\ Len(body) >= 3 /\ Chunking(body, ends) /\ At(body, ends, 0, 1)
      /\ body[1] = An("version", 1)
  <2>1. Len(InnerPacket(m, document)) \in Nat
    BY InnerFacts
  <2> QED
    BY <2>1, OuterFacts, NoOctets
<1>4. Seip \in Nat /\ An("tag", Seip) \in Octet
  <2>1. Seip \in Nat
    BY DEF Seip
  <2> QED
    BY <2>1, AnOctet DEF Kinds
<1>5. file = keys \o packet /\ (ends # <<>> \/ Len(body) < LengthModulus)
  <2>1. Packet(Seip, body, m.outer) = packet /\ (ends # <<>> \/ Len(body) < LengthModulus)
    <3> HIDE DEF body
    <3> QED
      BY <1>2, <1>3, <1>4, PacketAhead
  <2> QED
    BY <2>1 DEF MessageFor
<1> HIDE DEF body, keys, file
<1>6. Len(ends) \in Nat /\ 1 \in 1 .. Len(ends) + 1 /\ 1 - 1 = 0 /\ (ends # <<>> <=> 1 # Len(ends) + 1)
  <2>1. ends \in Seq(Nat)
    BY <1>3 DEF Chunking
  <2> HIDE DEF ends
  <2>2. Len(ends) \in Nat /\ (ends = <<>> <=> Len(ends) = 0)
    BY <2>1
  <2> QED
    BY <2>2
<1>7. /\ h \in Bytes /\ Len(h) = HeaderSize(h[1]) /\ Len(h) \in {1, 2}
      /\ (h[1].kind = "partial" <=> ends # <<>>)
      /\ h[1].n = ChunkEnd(body, ends, 1)
  <2>1. /\ h \in Bytes /\ Len(h) = HeaderSize(h[1]) /\ Len(h) \in {1, 2}
        /\ (h[1].kind # "partial") = (1 = Len(ends) + 1)
        /\ h[1].n = ChunkEnd(body, ends, 1) - ChunkEnd(body, ends, 1 - 1)
    BY <1>3, <1>5, <1>6, ChunkHeaderFacts
  <2>2. ChunkEnd(body, ends, 0) = 0 /\ ChunkEnd(body, ends, 1) \in Nat
    <3>1. 1 \in 0 .. Len(ends) + 1
      BY <1>6
    <3> QED
      BY <1>3, <3>1, EndFacts
  <2>3. h[1].n = ChunkEnd(body, ends, 1)
    BY <1>6, <2>1, <2>2
  <2> HIDE DEF h
  <2> QED
    BY <1>6, <2>1, <2>3
<1>8. ChunkEnd(body, ends, 1) \in Nat /\ 0 < ChunkEnd(body, ends, 1)
  <2>1. ChunkEnd(body, ends, 1) \in Nat
    BY <1>3, AheadFacts
  <2>2. ends = <<>> => ChunkEnd(body, ends, 1) = Len(body)
    BY <1>3, <1>6, LastAhead
  <2>3. ends # <<>> => 0 < ChunkEnd(body, ends, 1)
    <3>1. SUFFICES ASSUME ends # <<>> PROVE 0 < ChunkEnd(body, ends, 1)
      OBVIOUS
    <3>2. 1 \in 1 .. Len(ends)
      BY <1>6, <3>1
    <3>3. ChunkEnd(body, ends, 1 - 1) < ChunkEnd(body, ends, 1) /\ ChunkEnd(body, ends, 0) = 0
      BY <1>3, <3>2, EndFacts
    <3> QED
      BY <1>6, <3>3
  <2> DEFINE e == ChunkEnd(body, ends, 1)
  <2>4. e \in Nat /\ (ends = <<>> \/ 0 < e) /\ (ends = <<>> => e = Len(body))
    BY <2>1, <2>2, <2>3
  <2> HIDE DEF e, ends
  <2>5. e \in Nat /\ 0 < e
    BY <1>3, <2>4
  <2> QED
    BY <2>5 DEF e
<1>9. a \in Bytes /\ Len(a) \in Nat /\ a # <<>> /\ Len(a) >= 1 /\ a[1] = An("version", 1)
  <2>1. a \in Bytes /\ Len(a) \in Nat
    BY <1>3, AheadFacts, NoOctets
  <2>2. a # <<>>
    BY <1>3, <1>8, LastAhead
  <2>3. (a \o Mdc)[1] = body[0 + 1]
    BY <1>3, <1>8, FirstOfChunk
  <2>4. (a \o Mdc)[1] = a[1]
    <3> HIDE DEF a
    <3> QED
      BY <2>1, <2>2, MdcFacts, FirstOfRun
  <2>5. Len(a) >= 1
    <3> HIDE DEF a
    <3> QED
      BY <2>1, <2>2, NoOctets
  <2> QED
    BY <1>3, <2>1, <2>2, <2>3, <2>4, <2>5
<1> HIDE DEF h, a
<1> DEFINE rest == h \o a
<1>10. rest \in Bytes /\ Len(rest) = Len(h) + Len(a) /\ rest[1] = h[1] /\ rest[Len(h) + 1] = a[1] /\ Drop(rest, Len(h)) = a
  <2>1. 1 \in 1 .. Len(h) /\ 1 \in 1 .. Len(a)
    BY <1>7, <1>9
  <2> QED
    BY <1>7, <1>9, <2>1, ConcatBytes, ConcatAt, JoinedRest
<1> HIDE DEF rest
<1>11. packet \in Bytes /\ Len(packet) = 1 + Len(rest) /\ packet[1] = An("tag", Seip) /\ packet[2] = h[1]
       /\ packet[Len(h) + 2] = a[1] /\ Drop(packet, Len(h) + 1) = a
  <2>1. packet = tag \o rest
    BY DEF rest
  <2>2. /\ packet \in Bytes /\ Len(packet) = 1 + Len(rest) /\ packet[1] = An("tag", Seip)
        /\ Drop(packet, 1) = rest /\ \A n \in 1 .. Len(rest) : packet[n + 1] = rest[n]
    <3> HIDE DEF packet
    <3> QED
      BY <1>4, <1>10, <2>1, OctetFirst
  <2> HIDE DEF packet
  <2>3. 1 \in 1 .. Len(rest) /\ Len(h) + 1 \in 1 .. Len(rest) /\ 1 + 1 = 2 /\ (Len(h) + 1) + 1 = Len(h) + 2
        /\ 1 + Len(h) = Len(h) + 1 /\ 1 + Len(h) <= Len(packet) /\ Len(h) \in Nat
    BY <1>7, <1>9, <1>10, <2>2
  <2>4. packet[1 + 1] = rest[1] /\ packet[(Len(h) + 1) + 1] = rest[Len(h) + 1]
    BY <2>2, <2>3
  <2>5. Drop(Drop(packet, 1), Len(h)) = Drop(packet, 1 + Len(h))
    BY <2>2, <2>3, DropDrop
  <2> QED
    BY <1>10, <2>2, <2>3, <2>4, <2>5
<1> HIDE DEF packet
<1> DEFINE v == k + Len(h) + 2
<1>12. /\ file \in Bytes /\ Len(file) = k + Len(packet)
       /\ \A i \in 1 .. k : file[i] = keys[i]
       /\ \A i \in 1 .. Len(packet) : file[k + i] = packet[i]
       /\ Drop(file, k) = packet
  <2> HIDE DEF k
  <2>1. keys \in Bytes /\ packet \in Bytes /\ Len(keys) = k /\ file = keys \o packet
    BY <1>1, <1>5, <1>11
  <2>2. keys \o packet \in Bytes /\ Len(keys \o packet) = Len(keys) + Len(packet)
    BY <2>1, ConcatBytes
  <2>3. /\ \A i \in 1 .. Len(keys) : (keys \o packet)[i] = keys[i]
        /\ \A i \in 1 .. Len(packet) : (keys \o packet)[Len(keys) + i] = packet[i]
    BY <2>1, ConcatAt
  <2>4. Drop(keys \o packet, Len(keys)) = packet
    BY <2>1, JoinedRest
  <2> QED
    BY <2>1, <2>2, <2>3, <2>4
<1>13. /\ file[k + 1] = An("tag", Seip) /\ file[k + 2] = h[1] /\ file[v] = a[1] /\ v <= Len(file) /\ v \in Nat
       /\ v <= HeadRead /\ Drop(file, v - 1) = a
  <2>1. /\ 1 \in 1 .. Len(packet) /\ 2 \in 1 .. Len(packet) /\ Len(h) + 2 \in 1 .. Len(packet)
        /\ k + (Len(h) + 2) = v /\ v <= Len(file) /\ v \in Nat /\ Len(h) + 1 \in Nat /\ k + (Len(h) + 1) = v - 1
        /\ k + (Len(h) + 1) <= Len(file) /\ v = k + 2 + Len(h)
    <3> DEFINE x == Len(h)
               y == Len(packet)
               z == Len(file)
    <3> HIDE DEF k
    <3>1. x \in {1, 2} /\ y = 1 + (x + Len(a)) /\ Len(a) \in Nat /\ Len(a) >= 1 /\ z = k + y /\ k \in Nat
      BY <1>1, <1>7, <1>9, <1>10, <1>11, <1>12
    <3> HIDE DEF x, y, z
    <3>2. /\ 1 \in 1 .. y /\ 2 \in 1 .. y /\ x + 2 \in 1 .. y
          /\ k + (x + 2) = k + x + 2 /\ k + x + 2 <= z /\ k + x + 2 \in Nat /\ x + 1 \in Nat
          /\ k + (x + 1) = (k + x + 2) - 1
          /\ k + (x + 1) <= z /\ k + x + 2 = k + 2 + x
      BY <3>1
    <3> QED
      BY <3>2 DEF x, y, z
  <2>2. file[k + 1] = packet[1] /\ file[k + 2] = packet[2] /\ file[k + (Len(h) + 2)] = packet[Len(h) + 2]
    BY <1>12, <2>1
  <2>3. Drop(Drop(file, k), Len(h) + 1) = Drop(file, k + (Len(h) + 1))
    <3> DEFINE x == Len(h) + 1
    <3> HIDE DEF x
    <3>1. x \in Nat /\ k + x <= Len(file)
      BY <2>1 DEF x
    <3>2. Drop(Drop(file, k), x) = Drop(file, k + x)
      BY <1>1, <1>12, <3>1, DropDrop
    <3> QED
      BY <3>2 DEF x
  <2> HIDE DEF v
  <2> QED
    BY <1>2, <1>11, <1>12, <2>1, <2>2, <2>3 DEF h
<1>14. \A i \in 1 .. k : file[i].kind = "pkesk" /\ file[i].n = m.recipients[i]
  <2> SUFFICES ASSUME NEW i \in 1 .. k PROVE file[i].kind = "pkesk" /\ file[i].n = m.recipients[i]
    OBVIOUS
  <2>1. i \in DOMAIN m.recipients
    BY <1>1
  <2>2. keys[i] = An("pkesk", m.recipients[i])
    BY <2>1 DEF keys, Pkesks
  <2>3. file[i] = keys[i]
    BY <1>12
  <2> QED
    BY <2>2, <2>3 DEF An
<1>15. \E i \in 1 .. k : file[i].n = OwnSubkey
  <2>1. PICK i \in DOMAIN m.recipients : m.recipients[i] = OwnSubkey
    BY <1>2 DEF Range
  <2>2. i \in 1 .. k
    BY <1>1, <2>1
  <2> QED
    BY <1>14, <2>1, <2>2
<1>16. file[v].kind = "version"
  BY <1>9, <1>13 DEF An
<1>17. v = k + HeaderSize(file[k + 2]) + 2
  BY <1>7, <1>13
<1> HIDE DEF v
<1>18. Begins(file, k, v)
  BY <1>1, <1>12, <1>13, <1>14, <1>15, <1>16, <1>17 DEF Begins
<1>19. (file[k + 2].kind = "partial" <=> ends # <<>>) /\ file[k + 2].n = ChunkEnd(body, ends, 1)
       /\ Drop(file, v - 1) = Ahead(body, ends, 0, 1)
  BY <1>7, <1>13 DEF a
<1> HIDE DEF ends, k
<1> QED
  BY <1>17, <1>18, <1>19 DEF file, body, ends, k

\* The reader parseEncryptedFileHeader starts, q octets into the encrypted packet's body.
LEMMA AcceptedFollows ==
    ASSUME NEW m, NEW document, Readable(m, document), NEW rest, NEW pending, NEW encLength, NEW partial, NEW chunk, NEW q,
           At(OuterBody(m, document), m.outer.ends, q, 1),
           rest = Ahead(OuterBody(m, document), m.outer.ends, q, 1),
           encLength - Len(pending) = Len(OuterBody(m, document)) - q,
           partial <=> m.outer.ends # <<>>,
           m.outer.ends # <<>> => chunk = ChunkEnd(OuterBody(m, document), m.outer.ends, 1) - q,
           pending \o Drop(OuterBody(m, document), q) = Drop(OuterBody(m, document), 1)
    PROVE  /\ Accepted(rest, pending, encLength, partial, chunk).ok
           /\ Follows(Accepted(rest, pending, encLength, partial, chunk), m, document, <<>>)
<1> DEFINE body == OuterBody(m, document)
           ends == m.outer.ends
           r == Accepted(rest, pending, encLength, partial, chunk)
<1>1. /\ r.ok /\ r.rest = rest /\ r.pending = pending /\ r.cipherRemaining = encLength - Len(pending)
      /\ r.seipPartial = partial /\ r.cipherChunkRemaining = chunk /\ ~r.cipherFinalChunk /\ r.phase = "random"
      /\ r.literal = NoLiteral /\ ~r.innerFinalChunk
  BY DEF Accepted
<1> HIDE DEF r
<1>2. Chunking(body, ends) /\ Drop(body, 1) = <<An("random", 0)>> \o (InnerPacket(m, document) \o Mdc)
  BY OuterFacts
<1>3. q \in 0 .. Len(body) /\ 1 \in 1 .. (Len(ends) + 1) /\ (ends # <<>> => 1 # Len(ends) + 1)
  <2>1. q \in 0 .. Len(body) /\ 1 \in 1 .. Len(ends) + 1
    BY <1>2, AheadFacts
  <2>2. ends \in Seq(Nat)
    BY <1>2 DEF Chunking
  <2> HIDE DEF ends
  <2>3. Len(ends) \in Nat /\ (ends # <<>> => Len(ends) # 0)
    BY <2>2
  <2> QED
    BY <2>1, <2>3
<1>4. OuterAt(r, body, ends, q, 1)
  <2> HIDE DEF ends
  <2> QED
    BY <1>1, <1>3 DEF OuterAt, ends
<1>5. InnerFollows(r, r.pending \o Drop(body, q), m, document, <<>>)
  <2>1. r.pending \o Drop(body, q) = <<An("random", 0)>> \o (InnerPacket(m, document) \o Mdc)
    BY <1>1, <1>2
  <2> QED
    BY <1>1, <2>1 DEF InnerFollows
<1>6. Follows(r, m, document, <<>>)
  BY <1>3, <1>4, <1>5 DEF Follows
<1> QED
  BY <1>1, <1>6 DEF r

\* parseEncryptedFileHeader accepts an intact message and starts at its beginning.
LEMMA HeaderFollows ==
    ASSUME NEW m, NEW document, Readable(m, document)
    PROVE  /\ parseEncryptedFileHeader(MessageFor(m, document)).ok
           /\ Follows(parseEncryptedFileHeader(MessageFor(m, document)), m, document, <<>>)
<1> DEFINE file == MessageFor(m, document)
           body == OuterBody(m, document)
           ends == m.outer.ends
           k == Len(m.recipients)
           v == k + HeaderSize(file[k + 2]) + 2
           first == file[k + 2].n
           e == ChunkEnd(body, ends, 1)
           head == Min({HeadRead, Len(file)})
           x == v - 1
           parsed == parseEncryptedFileHeader(file)
<1>1. Begins(file, k, v) /\ (file[k + 2].kind = "partial" <=> ends # <<>>) /\ first = e
      /\ Drop(file, x) = Ahead(body, ends, 0, 1)
  BY MessageBegins
<1>2. parsed = IF file[k + 2].kind = "partial" THEN StartChunked(file, v, first) ELSE StartWhole(file, v, first, head)
  <2>1. LET f == file[k + 2].n
        IN  parseEncryptedFileHeader(file) =
               IF file[k + 2].kind = "partial" THEN StartChunked(file, v, f)
               ELSE StartWhole(file, v, f, Min({HeadRead, Len(file)}))
    <3> HIDE DEF file, v, k
    <3> QED
      BY <1>1, HeaderRead
  <2> QED
    BY <2>1
<1>3. file \in Bytes /\ Len(file) \in Nat /\ v \in Nat /\ k \in Nat /\ v <= Len(file) /\ v <= HeadRead
      /\ v >= 2 /\ x \in Nat /\ x + 1 = v
  <2>1. file \in Bytes /\ v \in Nat /\ k \in Nat /\ v <= Len(file) /\ v <= HeadRead
    BY <1>1 DEF Begins
  <2>2. HeaderSize(file[k + 2]) \in {1, 2}
    BY DEF HeaderSize
  <2> HIDE DEF file, k
  <2> QED
    BY <2>1, <2>2, NoOctets
<1> HIDE DEF v
<1>4. body \in Bytes /\ Len(body) \in Nat /\ Len(body) >= 3 /\ Chunking(body, ends) /\ At(body, ends, 0, 1)
      /\ Len(body) <= SizeModulus
  <2>1. Len(InnerPacket(m, document)) \in Nat
    BY InnerFacts
  <2> QED
    BY <2>1, OuterFacts, NoOctets
<1>5. Len(ends) \in Nat /\ e \in Nat /\ e <= Len(body)
  BY <1>4, AheadFacts
<1> DEFINE a == Ahead(body, ends, 0, 1)
<1>6. a \in Bytes /\ Len(a) = Len(file) - x
  <2>1. Drop(file, x) \in Bytes /\ Len(Drop(file, x)) = Len(file) - x
    <3>1. x <= Len(file)
      BY <1>3
    <3> HIDE DEF x
    <3> QED
      BY <1>3, <3>1, DropFacts
  <2> QED
    BY <1>1, <2>1
<1>7. ASSUME NEW n \in 0 .. e
      PROVE  /\ At(body, ends, n, 1) /\ n <= Len(a)
             /\ Drop(file, x + n) = Ahead(body, ends, n, 1)
  <2>1. Takes(body, ends, 0, 1)
    BY <1>4, TakeAhead
  <2>2. n \in 0 .. e - 0 /\ 0 + n = n
    BY <1>5
  <2>3. At(body, ends, 0 + n, 1) /\ n <= Len(a) /\ Drop(a, n) = Ahead(body, ends, 0 + n, 1)
    BY <2>1, <2>2 DEF Takes
  <2>4. Drop(Drop(file, x), n) = Drop(file, x + n)
    <3>1. n \in Nat /\ x + n <= Len(file)
      BY <1>3, <1>5, <1>6, <2>3
    <3> HIDE DEF x
    <3> QED
      BY <1>3, <3>1, DropDrop
  <2> QED
    BY <1>1, <2>2, <2>3, <2>4
<1>8. 1 <= e
  <2>1. 0 \in 0 .. e
    BY <1>5
  <2>2. ends = <<>> => e = Len(body)
    <3>1. SUFFICES ASSUME ends = <<>> PROVE e = Len(body)
      OBVIOUS
    <3>2. 1 = Len(ends) + 1
      BY <3>1
    <3> QED
      BY <1>4, <3>2, LastAhead
  <2>3. ends # <<>> => 1 <= e
    <3>1. SUFFICES ASSUME ends # <<>> PROVE 1 <= e
      OBVIOUS
    <3>2. ends \in Seq(Nat)
      BY <1>4 DEF Chunking
    <3>3. Len(ends) # 0
      <4> HIDE DEF ends
      <4> QED
        BY <3>1, <3>2
    <3>4. 1 \in 1 .. Len(ends)
      BY <1>5, <3>3
    <3>5. ChunkEnd(body, ends, 1 - 1) < ChunkEnd(body, ends, 1) /\ ChunkEnd(body, ends, 0) = 0
      BY <1>4, <3>4, EndFacts
    <3> QED
      BY <1>5, <3>5
  <2> HIDE DEF e, ends
  <2> QED
    BY <1>4, <1>5, <2>2, <2>3
<1>9. /\ At(body, ends, 1, 1) /\ Drop(file, v) = Ahead(body, ends, 1, 1)
  <2>1. 1 \in 0 .. e
    BY <1>5, <1>8
  <2>2. At(body, ends, 1, 1) /\ Drop(file, x + 1) = Ahead(body, ends, 1, 1)
    BY <1>7, <2>1
  <2> HIDE DEF x
  <2> QED
    BY <1>3, <2>2
<1>10. Drop(body, 1) \in Bytes /\ Len(Drop(body, 1)) = Len(body) - 1
  BY <1>4, DropFacts
<1>11. CASE ends # <<>>
  <2> DEFINE total == ChunksAfter(file, x + e)
  <2>1. total = Len(body) - e
    <3>1. e \in 0 .. e
      BY <1>5
    <3>2. Drop(file, x + e) = Ahead(body, ends, e, 1) /\ e <= Len(a)
      <4> HIDE DEF e
      <4> QED
        BY <1>7, <3>1
    <3>3. x + e \in 0 .. Len(file)
      BY <1>3, <1>5, <1>6, <3>2
    <3>4. 1 \in 1 .. Len(ends)
      <4>1. ends \in Seq(Nat)
        BY <1>4 DEF Chunking
      <4> HIDE DEF ends
      <4> QED
        BY <1>11, <4>1
    <3> HIDE DEF x
    <3> QED
      BY <1>3, <1>4, <3>2, <3>3, <3>4, ChunksTotal
  <2> DEFINE rest == Drop(file, v)
             encLength == e + total - 1
             chunk == e - 1
             none == <<>>
  <2>2. parsed = Accepted(rest, none, encLength, TRUE, chunk)
    <3>1. parsed = StartChunked(file, v, e)
      BY <1>1, <1>2, <1>11
    <3>2. ~(e < 1 \/ total = -1)
      BY <1>4, <1>5, <1>8, <2>1
    <3> HIDE DEF parsed, file, e
    <3> QED
      BY <3>1, <3>2 DEF StartChunked
  <2>3. encLength - Len(none) = Len(body) - 1 /\ none \o Drop(body, 1) = Drop(body, 1)
    <3> HIDE DEF total, e
    <3>1. Len(none) = 0 /\ none \o Drop(body, 1) = Drop(body, 1)
      BY <1>10, NoOctets
    <3> HIDE DEF none
    <3> QED
      BY <1>4, <1>5, <2>1, <3>1
  <2> HIDE DEF encLength, none, total, parsed
  <2>4. Accepted(rest, none, encLength, TRUE, chunk).ok /\ Follows(Accepted(rest, none, encLength, TRUE, chunk), m, document, <<>>)
    <3> HIDE DEF rest, chunk
    <3>1. rest = Ahead(body, ends, 1, 1) /\ chunk = e - 1
      BY <1>9 DEF rest, chunk
    <3> QED
      BY <1>9, <1>11, <2>3, <3>1, AcceptedFollows
  <2> QED
    BY <2>2, <2>4 DEF parsed
<1>12. CASE ends = <<>>
  <2> DEFINE b == Drop(body, 1)
             n == head - v
             q == 1 + n
  <2>1. e = Len(body) /\ b = Drop(file, v) /\ Len(a) = Len(body)
    <3>1. 1 = Len(ends) + 1
      BY <1>12
    <3>2. e = Len(body) /\ Ahead(body, ends, 1, 1) = b /\ a = Drop(body, 0)
      BY <1>4, <1>9, <3>1, LastAhead
    <3>3. Drop(body, 0) = body
      BY <1>4, NoOctets
    <3> QED
      BY <1>9, <3>2, <3>3
  <2>2. head \in Nat /\ head <= Len(file) /\ v <= head
    <3> DEFINE counts == {HeadRead, Len(file)}
    <3>1. counts \in SUBSET Nat /\ counts # {}
      BY <1>3, ReaderAssumption
    <3>2. Min(counts) \in counts /\ \A z \in counts : Min(counts) <= z
      <4> HIDE DEF counts
      <4> QED
        BY <3>1, MinOfCounts
    <3> QED
      BY <1>3, <3>1, <3>2
  <2> HIDE DEF head
  <2>3. n \in Nat /\ n <= Len(body) - 1 /\ n \in 0 .. Len(file) - v /\ q \in 1 .. Len(body) /\ q \in Nat
        /\ v + n = head /\ v <= Len(file) /\ Len(body) - q = Len(body) - 1 - n
    <3>1. Len(body) = Len(file) - x
      BY <1>6, <2>1
    <3> HIDE DEF file, body
    <3> QED
      BY <1>3, <1>4, <2>2, <3>1
  <2> HIDE DEF n
  <2> DEFINE left == SubSeq(file, v + 1, head)
             encLength == (e - 1) % SizeModulus
             shown == Min({Len(left), encLength})
             pending == SubSeq(left, 1, shown)
             rest == Drop(file, head)
  <2>4. left = SubSeq(b, 1, n) /\ rest = Drop(b, n)
    <3>1. /\ SubSeq(SubSeq(file, v + 1, Len(file)), 1, n) = SubSeq(file, v + 1, v + n)
          /\ Drop(SubSeq(file, v + 1, Len(file)), n) = SubSeq(file, v + n + 1, Len(file))
      <4> DEFINE size == Len(file)
      <4>1. size \in Nat /\ v <= size /\ size <= Len(file) /\ n \in 0 .. size - v
        BY <1>3, <2>3
      <4> HIDE DEF size
      <4>2. /\ SubSeq(SubSeq(file, v + 1, size), 1, n) = SubSeq(file, v + 1, v + n)
            /\ Drop(SubSeq(file, v + 1, size), n) = SubSeq(file, v + n + 1, size)
        BY <1>3, <4>1, InnerRun
      <4> QED
        BY <4>2 DEF size
    <3>2. SubSeq(file, v + 1, Len(file)) = b
      BY <2>1 DEF Drop
    <3>3. rest = SubSeq(file, v + n + 1, Len(file))
      BY <2>3 DEF Drop
    <3> HIDE DEF b, rest, file
    <3> QED
      BY <2>3, <3>1, <3>2, <3>3
  <2>5. b \in Bytes /\ Len(b) = Len(body) - 1 /\ n \in 0 .. Len(b)
    BY <1>4, <1>10, <2>3
  <2> HIDE DEF b
  <2>6. left \in Bytes /\ Len(left) = n
    BY <2>4, <2>5, TakeFacts
  <2>7. encLength = Len(body) - 1
    <3>1. SizeModulus \in Nat \ {0}
      BY ReaderAssumption
    <3> DEFINE y == Len(body) - 1
    <3>2. y \in Nat /\ y < SizeModulus
      BY <1>4, <3>1
    <3> HIDE DEF y
    <3>3. y % SizeModulus = y
      BY <3>1, <3>2
    <3> QED
      BY <2>1, <3>3 DEF y
  <2> HIDE DEF left, encLength, rest
  <2>8. shown = n
    <3> DEFINE counts == {Len(left), encLength}
    <3>1. counts \in SUBSET Nat /\ counts # {} /\ Len(left) \in counts
      BY <1>4, <2>3, <2>6, <2>7
    <3>2. Min(counts) \in counts /\ Min(counts) <= Len(left)
      <4> HIDE DEF counts
      <4> QED
        BY <3>1, MinOfCounts
    <3> QED
      BY <2>3, <2>6, <2>7, <3>2
  <2> HIDE DEF shown
  <2>9. pending = left
    BY <2>6, <2>8, WholeRun
  <2>10. Drop(b, n) = Drop(body, q) /\ At(body, ends, q, 1) /\ rest = Ahead(body, ends, q, 1)
    <3>1. 1 + n <= Len(body)
      BY <2>3
    <3>2. Drop(Drop(body, 1), n) = Drop(body, 1 + n)
      BY <1>4, <2>3, <3>1, DropDrop
    <3>3. Drop(b, n) = Drop(body, q)
      BY <3>2 DEF b
    <3>4. q \in 0 .. e
      BY <2>1, <2>3
    <3> HIDE DEF q
    <3>5. At(body, ends, q, 1)
      BY <1>7, <3>4
    <3>6. 1 = Len(ends) + 1
      BY <1>12
    <3>7. Ahead(body, ends, q, 1) = Drop(body, q)
      BY <1>4, <3>5, <3>6, LastAhead
    <3> QED
      BY <2>4, <3>3, <3>5, <3>7
  <2>11. parsed = Accepted(rest, pending, encLength, FALSE, 0)
    <3>1. parsed = StartWhole(file, v, e, head)
      BY <1>1, <1>2, <1>12
    <3> QED
      BY <3>1 DEF StartWhole, rest, pending, encLength, left, shown
  <2>12. encLength - Len(pending) = Len(body) - q /\ pending \o Drop(body, q) = Drop(body, 1)
    <3>1. SubSeq(b, 1, n) \o Drop(b, n) = b
      BY <2>5, TakeDrop
    <3>2. pending \o Drop(body, q) = b
      BY <2>4, <2>9, <2>10, <3>1
    <3>3. Len(pending) = n
      BY <2>6, <2>9
    <3> HIDE DEF pending, q
    <3>4. encLength - n = Len(body) - q
      BY <1>4, <2>3, <2>7 DEF q
    <3> QED
      BY <3>2, <3>3, <3>4 DEF b
  <2> HIDE DEF pending, q, parsed
  <2>13. Accepted(rest, pending, encLength, FALSE, 0).ok /\ Follows(Accepted(rest, pending, encLength, FALSE, 0), m, document, <<>>)
    BY <1>12, <2>10, <2>12, AcceptedFollows
  <2> QED
    BY <2>11, <2>13 DEF parsed
<1> QED
  BY <1>11, <1>12

-----------------------------------------------------------------------------
(* What the reader has put out is the beginning of the document. *)

LEMMA PrefixRun ==
    ASSUME NEW document \in Bytes, NEW n \in 0 .. Len(document)
    PROVE  SubSeq(document, 1, n) \in Bytes /\ IsPrefix(SubSeq(document, 1, n), document)
<1> DEFINE run == SubSeq(document, 1, n)
<1>1. run \in Bytes /\ Len(run) = n
  BY TakeFacts
<1>2. SubSeq(run, 1, Len(run)) = run
  <2> HIDE DEF run
  <2> QED
    BY <1>1, WholeRun
<1>3. n <= Len(document)
  BY DEF Bytes
<1> QED
  BY <1>1, <1>2, <1>3 DEF IsPrefix

LEMMA BodyPrefix ==
    ASSUME NEW m, NEW document, Readable(m, document), NEW p \in 0 .. Len(LiteralBody(document))
    PROVE  LET out == SubSeq(LiteralBody(document), 2, p) IN out \in Bytes /\ IsPrefix(out, document)
<1> DEFINE body == LiteralBody(document)
           size == Len(body)
<1>1. /\ document \in Bytes /\ body \in Bytes /\ size = 1 + Len(document) /\ Len(document) \in Nat
      /\ Drop(body, 1) = document
  BY LiteralBodyFacts
<1> HIDE DEF body
<1>2. SUFFICES LET out == SubSeq(body, 2, p) IN out \in Bytes /\ IsPrefix(out, document)
  BY DEF body
<1>3. p \in 0 .. size /\ size \in Nat
  BY <1>1 DEF body
<1> HIDE DEF size
<1>4. CASE p = 0
  <2>1. SubSeq(body, 2, 0) = <<>> /\ SubSeq(document, 1, 0) = <<>>
    BY <1>1 DEF Bytes
  <2>2. 0 \in 0 .. Len(document)
    BY <1>1
  <2>3. SubSeq(document, 1, 0) \in Bytes /\ IsPrefix(SubSeq(document, 1, 0), document)
    BY <1>1, <2>2, PrefixRun
  <2> QED
    BY <1>4, <2>1, <2>3
<1>5. CASE p # 0
  <2> DEFINE n == p - 1
  <2>1. n \in 0 .. size - 1 /\ n \in 0 .. Len(document) /\ 1 <= size /\ size <= Len(body) /\ 1 + n = p
    BY <1>1, <1>3, <1>5 DEF size
  <2> HIDE DEF n
  <2>2. SubSeq(SubSeq(body, 2, size), 1, n) = SubSeq(body, 2, p)
    <3> DEFINE b == SubSeq(body, 1 + 1, size)
               c == SubSeq(body, 1 + 1, 1 + n)
    <3>1. SubSeq(b, 1, n) = c
      BY <1>1, <1>3, <2>1, InnerRun
    <3>2. b = SubSeq(body, 2, size) /\ c = SubSeq(body, 2, p)
      BY <2>1
    <3> HIDE DEF b, c
    <3> QED
      BY <3>1, <3>2
  <2>3. SubSeq(body, 2, size) = document
    BY <1>1 DEF Drop, size
  <2>4. SubSeq(body, 2, p) = SubSeq(document, 1, n)
    <3> DEFINE a == SubSeq(body, 2, size)
    <3> HIDE DEF a
    <3>1. SubSeq(a, 1, n) = SubSeq(body, 2, p) /\ a = document
      BY <2>2, <2>3 DEF a
    <3> QED
      BY <3>1
  <2> QED
    BY <1>1, <2>1, <2>4, PrefixRun
<1> QED
  BY <1>4, <1>5

LEMMA FollowsPrefix ==
    ASSUME NEW m, NEW document, Readable(m, document), NEW r, NEW out, Follows(r, m, document, out)
    PROVE  out \in Bytes /\ IsPrefix(out, document)
<1> DEFINE body == LiteralBody(document)
<1>1. PICK u : InnerFollows(r, u, m, document, out)
  BY DEF Follows
<1>2. ASSUME NEW p \in 0 .. Len(body), out = SubSeq(body, 2, p)
      PROVE  out \in Bytes /\ IsPrefix(out, document)
  BY <1>2, BodyPrefix
<1>3. CASE out = <<>>
  <2>1. document \in Bytes /\ Len(document) \in Nat
    BY LiteralBodyFacts
  <2>2. 0 \in 0 .. Len(document) /\ SubSeq(document, 1, 0) = <<>>
    BY <2>1 DEF Bytes
  <2> QED
    BY <1>3, <2>1, <2>2, PrefixRun
<1>4. CASE out # <<>>
  <2>1. PICK q \in 0 .. Len(InnerBody(m, document)), i \in 1 .. (Len(InnerFraming(m).ends) + 1) :
               InnerAt(r, u, m, document, out, q, i)
    BY <1>1, <1>4 DEF InnerFollows
  <2>2. Content(r, m, document, q, out)
    BY <2>1 DEF InnerAt, InnerPlace
  <2>3. CASE m.algorithm = NotCompressed
    <3>1. InnerBody(m, document) = body /\ out = SubSeq(body, 2, q)
      BY <2>2, <2>3 DEF Content, InnerBody
    <3> HIDE DEF body
    <3> QED
      BY <1>2, <3>1
  <2>4. CASE m.algorithm # NotCompressed
    <3> DEFINE t == Drop(LiteralPacket(m, document), q - 1)
    <3>1. Decoded(r.literal, body, m.literal, t, out)
      BY <1>4, <2>2, <2>4 DEF Content
    <3> HIDE DEF t
    <3>2. ~HeaderAhead(r.literal, Packet(Literal, body, m.literal), t, out)
      BY <1>4 DEF HeaderAhead
    <3>3. PICK k \in 0 .. Len(body), j \in 1 .. Len(m.literal.ends) + 1 :
               \E p \in 0 .. k : LiteralAt(r.literal, body, m.literal, t, out, k, j, p)
      BY <3>1, <3>2 DEF Decoded
    <3> PICK p \in 0 .. k : LiteralAt(r.literal, body, m.literal, t, out, k, j, p)
      BY <3>3
    <3>4. out = SubSeq(body, 2, p)
      BY DEF LiteralAt
    <3>5. p \in 0 .. Len(body)
      <4>1. Len(body) \in Nat
        BY LiteralBodyFacts
      <4> HIDE DEF body
      <4> QED
        BY <3>3, <4>1
    <3> QED
      BY <1>2, <3>4, <3>5
  <2> QED
    BY <2>3, <2>4
<1> QED
  BY <1>3, <1>4

-----------------------------------------------------------------------------
(* DecryptFile on an intact message. *)

\* What a DecryptFile call has come to whose input is the message m for the document.
DecryptOf(m, document) ==
    /\ pc = "createTemp" => Follows(reader, m, document, <<>>)
    /\ pc = "decrypt" => Follows(reader, m, document, disk[Temp])
    /\ pc \in {"deleteOld", "move"} => disk[Temp] = document /\ ~EndsWithEmptyChunk(m, document)
    /\ pc \in {"removeTemp", "idle"} /\ ~call.faulted /\ status \in {"INVALID_DATA", "NOT_IMPLEMENTED"} =>
          EndsWithEmptyChunk(m, document)
    /\ pc = "idle" /\ status = "NO_ERROR" => disk[call.output] = document /\ ~EndsWithEmptyChunk(m, document)

\* The call under way, or the last one, is a DecryptFile of that message.
Decrypting(m, document) == call.op = "DecryptFile" /\ MessageFor(m, document) = call.source

\* FileInv with what the streaming reader makes of every intact message.
DecryptInv ==
    \A m, document : Readable(m, document) /\ Decrypting(m, document) => DecryptOf(m, document)

\* A place that asks nothing more of the call.
LEMMA ElsewhereDecrypts ==
    ASSUME NEW m, NEW document, pc' \notin {"createTemp", "decrypt", "deleteOld", "move"},
           pc' = "idle" => status' # "NO_ERROR", call'.faulted \/ status' \notin {"INVALID_DATA", "NOT_IMPLEMENTED"}
    PROVE  DecryptOf(m, document)'
  BY DEF DecryptOf

LEMMA FaultMarked ==
    ASSUME call \in CallRecords, Faulted
    PROVE  call'.faulted
  BY DEF Faulted, CallRecords

LEMMA OpenDecrypts ==
    ASSUME FileInv, NEW m, NEW document, Readable(m, document), Decrypting(m, document), Open
    PROVE  DecryptOf(m, document)'
<1> DEFINE source == MessageFor(m, document)
           parsed == parseEncryptedFileHeader(source)
<1>1. pc = "open" /\ call.op = "DecryptFile" /\ call.source = source
  BY DEF Open, Decrypting
<1>2. disk[call.input] = source
  BY <1>1 DEF FileInv, PlaceInv
<1>3. parsed.ok /\ Follows(parsed, m, document, <<>>)
  BY HeaderFollows
<1>4. CASE \E code \in {"INVALID_ARGUMENT", "FILE_IO_ERROR"} : Return(code)
  BY <1>4, ElsewhereDecrypts DEF Return, Goto
<1>5. CASE reader' = parseEncryptedFileHeader(disk[call.input]) /\ Goto("createTemp", "NO_ERROR")
  <2> HIDE DEF source
  <2>1. reader' = parsed
    BY <1>2, <1>5
  <2>2. pc' = "createTemp"
    BY <1>5 DEF Goto
  <2> HIDE DEF parsed
  <2>3. Follows(reader', m, document, <<>>)
    BY <1>3, <2>1
  <2> QED
    BY <2>2, <2>3 DEF DecryptOf
<1> HIDE DEF source, parsed
<1>6. parseEncryptedFileHeader(disk[call.input]).ok
  BY <1>2, <1>3 DEF parsed
<1>7. CASE Faulted /\ Return("INVALID_DATA")
  <2>1. call'.faulted
    BY <1>1, <1>7, BusyCall, FaultMarked
  <2> QED
    BY <1>7, <2>1, ElsewhereDecrypts DEF Return, Goto
<1> QED
  BY <1>1, <1>4, <1>5, <1>6, <1>7 DEF Open

LEMMA CreateTempDecrypts ==
    ASSUME FileInv, NEW m, NEW document, Decrypting(m, document), DecryptOf(m, document), CreateTemp
    PROVE  DecryptOf(m, document)'
<1>1. pc = "createTemp" /\ pc # "idle" /\ call.op = "DecryptFile"
  BY DEF CreateTemp, Decrypting
<1>2. Follows(reader, m, document, <<>>)
  BY <1>1 DEF DecryptOf
<1>3. CASE Goto(IF call.op = "DecryptFile" THEN "idle" ELSE "removeTemp", "FILE_IO_ERROR")
  BY <1>3, ElsewhereDecrypts DEF Goto
<1>4. CASE /\ disk' = [disk EXCEPT ![Temp] = <<>>]
           /\ Goto(IF call.op = "DecryptFile" THEN "decrypt" ELSE "compress", "NO_ERROR")
           /\ UNCHANGED <<call, reader>>
  <2>1. pc' = "decrypt" /\ UNCHANGED <<call, reader>>
    BY <1>1, <1>4 DEF Goto
  <2>2. disk \in [AllPaths -> Stored] /\ Temp \in AllPaths /\ <<>> \in Stored
    BY <1>1, PathFacts, NoFileIsNoBytes DEF FileInv, TypeInv
  <2>3. Temp' = Temp
    BY <2>1 DEF Temp
  <2>4. disk'[Temp'] = <<>>
    BY <1>4, <2>2, <2>3, DiskPut
  <2>5. Follows(reader', m, document, disk'[Temp'])
    BY <1>2, <2>1, <2>4
  <2> QED
    BY <2>1, <2>5 DEF DecryptOf
<1> QED
  BY <1>3, <1>4 DEF CreateTemp

\* A step of the reader: it goes on, accepts or refuses as StepFollows says.
LEMMA DecryptStepDecrypts ==
    ASSUME FileInv, NEW m, NEW document, Readable(m, document), Decrypting(m, document),
           DecryptOf(m, document), DecryptStep
    PROVE  DecryptOf(m, document)'
<1> DEFINE next == ReaderStep(reader)
           out == disk[Temp]
<1>1. pc = "decrypt" /\ pc # "idle"
  BY DEF DecryptStep
<1>2. Running(reader) /\ out # Absent
  BY <1>1 DEF FileInv, PlaceInv
<1>3. disk \in [AllPaths -> Stored] /\ Temp \in AllPaths /\ call \in CallRecords
  BY <1>1, BusyCall, PathFacts DEF FileInv, TypeInv
<1>4. out \in Bytes
  BY <1>2, <1>3 DEF Stored
<1>5. Follows(reader, m, document, out)
  BY <1>1 DEF DecryptOf
<1>6. Sound(next)
  BY <1>2, ReaderStepSound, ReaderStepKnown DEF Running, Known, Tagged
<1>7. \/ next.phase # "done" /\ Follows(next, m, document, out \o next.output)
      \/ Accepts(next, m, document, out)
      \/ Refuses(next, m, document)
  <2> HIDE DEF out
  <2>1. Sound(reader) /\ reader.phase # "done"
    BY <1>2 DEF Running
  <2> QED
    BY <1>4, <1>5, <2>1, StepFollows
<1>8. \/ /\ Extend(Temp, next.output)
         /\ reader' = IF next.phase = "done" THEN NoReader ELSE next
         /\ Goto(AfterStep(next), next.code)
         /\ UNCHANGED call
      \/ Faulted /\ \E code \in Codes \ {"NO_ERROR"} : Goto("removeTemp", code)
  <2>1. {"INVALID_DATA", "FILE_IO_ERROR"} \cup Interruptions \subseteq Codes \ {"NO_ERROR"}
    BY DEF Codes, Interruptions
  <2> HIDE DEF next
  <2>2. \/ /\ Extend(Temp, next.output)
           /\ reader' = IF next.phase = "done" THEN NoReader ELSE next
           /\ Goto(AfterStep(next), next.code)
           /\ UNCHANGED call
        \/ Faulted /\ \E code \in {"INVALID_DATA", "FILE_IO_ERROR"} \cup Interruptions : Goto("removeTemp", code)
    BY DEF DecryptStep, next
  <2> QED
    BY <2>1, <2>2
<1> HIDE DEF next
<1>9. next.output \in Bytes
  BY <1>6, ReaderFields
<1>10. CASE Faulted /\ \E code \in Codes \ {"NO_ERROR"} : Goto("removeTemp", code)
  <2>1. call'.faulted /\ pc' = "removeTemp"
    BY <1>3, <1>10, FaultMarked DEF Goto
  <2> QED
    BY <2>1, ElsewhereDecrypts
<1>11. CASE /\ Extend(Temp, next.output)
            /\ reader' = IF next.phase = "done" THEN NoReader ELSE next
            /\ Goto(AfterStep(next), next.code)
            /\ UNCHANGED call
  <2> DEFINE more == out \o next.output
  <2>1. pc' = AfterStep(next) /\ status' = next.code /\ Temp' = Temp
    BY <1>11 DEF Goto, Temp
  <2>2. more \in Bytes /\ more \in Stored
    BY <1>4, <1>9, ConcatBytes DEF Stored
  <2>3. disk' = [disk EXCEPT ![Temp] = more]
    BY <1>11 DEF Extend
  <2>4. disk'[Temp'] = more
    <3> HIDE DEF more
    <3> QED
      BY <1>3, <2>1, <2>2, <2>3, DiskPut
  <2>5. CASE next.phase # "done"
    <3>1. Follows(next, m, document, more)
      BY <1>7, <2>5 DEF Accepts, Refuses
    <3>2. pc' = "decrypt" /\ reader' = next
      BY <1>11, <2>1, <2>5 DEF AfterStep
    <3> HIDE DEF more
    <3>3. Follows(reader', m, document, disk'[Temp'])
      BY <2>4, <3>1, <3>2
    <3> QED
      BY <3>2, <3>3 DEF DecryptOf
  <2>6. CASE Accepts(next, m, document, out)
    <3>1. /\ next.phase = "done" /\ next.code = "NO_ERROR" /\ next.output = <<>>
          /\ out = document /\ ~EndsWithEmptyChunk(m, document)
      BY <2>6 DEF Accepts
    <3>2. pc' = "deleteOld"
      BY <2>1, <3>1 DEF AfterStep
    <3>3. more = out
      <4> HIDE DEF out
      <4> QED
        BY <1>4, <3>1, NoOctets
    <3> HIDE DEF more, out
    <3>4. disk'[Temp'] = document
      BY <2>4, <3>1, <3>3
    <3> QED
      BY <3>1, <3>2, <3>4 DEF DecryptOf
  <2>7. CASE Refuses(next, m, document)
    <3>1. next.phase = "done" /\ next.code = "INVALID_DATA" /\ EndsWithEmptyChunk(m, document)
      BY <2>7 DEF Refuses
    <3>2. pc' = "removeTemp"
      BY <2>1, <3>1 DEF AfterStep
    <3> QED
      BY <3>1, <3>2 DEF DecryptOf
  <2> QED
    BY <1>7, <2>5, <2>6, <2>7
<1> QED
  BY <1>8, <1>10, <1>11

LEMMA DeleteOldDecrypts ==
    ASSUME FileInv, NEW m, NEW document, DecryptOf(m, document), DeleteOld
    PROVE  DecryptOf(m, document)'
<1>1. /\ pc = "deleteOld" /\ pc # "idle" /\ pc' = "move" /\ UNCHANGED call
      /\ disk' = [disk EXCEPT ![call.output] = Absent] \/ UNCHANGED disk
  BY DEF DeleteOld, Goto
<1>2. disk[Temp] = document /\ ~EndsWithEmptyChunk(m, document)
  BY <1>1 DEF DecryptOf
<1>3. /\ disk \in [AllPaths -> Stored] /\ Temp \in AllPaths /\ call.output \in AllPaths
      /\ Temp # call.output /\ Absent \in Stored
  BY <1>1, PathFacts DEF FileInv, TypeInv, Stored
<1>4. Temp' = Temp
  BY <1>1 DEF Temp
<1>5. disk'[Temp'] = document
  BY <1>1, <1>2, <1>3, <1>4, DiskPut
<1> QED
  BY <1>1, <1>2, <1>5 DEF DecryptOf

LEMMA MoveDecrypts ==
    ASSUME FileInv, NEW m, NEW document, DecryptOf(m, document), Move
    PROVE  DecryptOf(m, document)'
<1>1. pc = "move" /\ pc # "idle"
  BY DEF Move
<1>2. disk[Temp] = document /\ ~EndsWithEmptyChunk(m, document)
  BY <1>1 DEF DecryptOf
<1>3. /\ disk \in [AllPaths -> Stored] /\ Temp \in AllPaths /\ call.output \in AllPaths /\ Temp # call.output
  BY <1>1, PathFacts DEF FileInv, TypeInv
<1>4. CASE /\ disk' = [disk EXCEPT ![call.output] = disk[Temp], ![Temp] = Absent]
           /\ Goto("idle", "NO_ERROR")
           /\ UNCHANGED call
  <2>1. pc' = "idle" /\ status' = "NO_ERROR" /\ call' = call
    BY <1>4 DEF Goto
  <2>2. disk'[call.output] = disk[Temp]
    BY <1>3, <1>4
  <2>3. disk'[call'.output] = document
    BY <1>2, <2>1, <2>2
  <2> QED
    BY <1>2, <2>1, <2>3 DEF DecryptOf
<1>5. CASE Goto("removeTemp", "FILE_IO_ERROR")
  BY <1>5, ElsewhereDecrypts DEF Goto
<1> QED
  BY <1>4, <1>5 DEF Move

LEMMA RemoveTempDecrypts ==
    ASSUME FileInv, NEW m, NEW document, Decrypting(m, document), DecryptOf(m, document), RemoveTemp
    PROVE  DecryptOf(m, document)'
<1>1. /\ pc = "removeTemp" /\ pc # "idle" /\ UNCHANGED status
      /\ pc' = IF call.created /\ status # "NO_ERROR" THEN "removeOutput" ELSE "idle"
      /\ UNCHANGED call \/ call' = [call EXCEPT !.littered = TRUE]
  BY DEF RemoveTemp, Goto, Delete
<1>2. call \in CallRecords /\ call.op = "DecryptFile"
  BY <1>1, BusyCall DEF Decrypting
<1>3. status # "NO_ERROR" /\ ~call.created
  BY <1>1, <1>2 DEF FileInv, PlaceInv
<1>4. call'.faulted = call.faulted
  BY <1>1, <1>2 DEF CallRecords
<1>5. pc' = "idle" /\ status' = status
  BY <1>1, <1>3
<1> QED
  BY <1>1, <1>3, <1>4, <1>5 DEF DecryptOf

\* No step of a running call changes which message it is about, and none but a step of
\* DecryptFile is taken.
LEMMA CallStepDecrypts ==
    ASSUME FileInv, NEW m, NEW document, Readable(m, document),
           Decrypting(m, document) => DecryptOf(m, document), CallStep, Decrypting(m, document)'
    PROVE  DecryptOf(m, document)'
<1>1. pc # "idle" /\ (pc = "open" \/ pc # "open")
  BY DEF CallStep, Open, CreateTemp, CreateOutput, Compress, Write, DecryptStep, DeleteOld, Move, RemoveTemp, RemoveOutput
<1>2. call \in CallRecords
  BY <1>1, BusyCall
<1>3. call'.op = call.op /\ call'.source = call.source
  <2>1. \/ Faulted \/ UNCHANGED call \/ call' = [call EXCEPT !.created = TRUE]
        \/ call' = [call EXCEPT !.littered = TRUE]
    BY DEF CallStep, Open, CreateTemp, CreateOutput, Compress, Write, WritePiece, DecryptStep, DeleteOld, Move,
           RemoveTemp, RemoveOutput, Delete
  <2> QED
    BY <1>2, <2>1, FaultedCall, CreatedCall, LitteredCall DEF SameCall
<1>4. Decrypting(m, document)
  BY <1>3 DEF Decrypting
<1>5. DecryptOf(m, document) /\ call.op = "DecryptFile"
  BY <1>4 DEF Decrypting
<1>6. ~CreateOutput /\ ~Compress /\ ~Write /\ ~RemoveOutput
  BY <1>5 DEF FileInv, PlaceInv, CreateOutput, Compress, Write, RemoveOutput
<1> QED
  BY <1>4, <1>5, <1>6, OpenDecrypts, CreateTempDecrypts, DecryptStepDecrypts, DeleteOldDecrypts, MoveDecrypts,
     RemoveTempDecrypts DEF CallStep

LEMMA NextDecrypts ==
    ASSUME FileInv, NEW m, NEW document, Readable(m, document),
           Decrypting(m, document) => DecryptOf(m, document), [Next]_fileVars, Decrypting(m, document)'
    PROVE  DecryptOf(m, document)'
<1>1. CASE CallStep
  BY <1>1, CallStepDecrypts
<1>2. CASE \E request \in Requests, input, output \in Paths : Begin(request, input, output)
  <2>1. pc' = "open"
    BY <1>2 DEF Begin
  <2> QED
    BY <2>1 DEF DecryptOf
<1>3. CASE Crash
  BY <1>3, ElsewhereDecrypts DEF Crash, Return, Goto
<1>4. CASE UNCHANGED fileVars
  BY <1>4 DEF fileVars, Decrypting, DecryptOf, Temp
<1> QED
  BY <1>1, <1>2, <1>3, <1>4 DEF Next

\* For every intact message, whatever its framing, whichever of the document's pieces
\* ReadFile delivers and whatever fails around the call.
THEOREM DecryptsIntactMessages == Spec => []DecryptInv
<1>1. Init => DecryptInv
  BY DEF Init, NoCall, DecryptInv, Decrypting
<1>2. FileInv /\ DecryptInv /\ [Next]_fileVars => DecryptInv'
  <2> SUFFICES ASSUME FileInv, DecryptInv, [Next]_fileVars,
                      NEW m, NEW document, Readable(m, document), Decrypting(m, document)'
               PROVE  DecryptOf(m, document)'
    BY DEF DecryptInv
  <2>1. Decrypting(m, document) => DecryptOf(m, document)
    BY DEF DecryptInv
  <2> QED
    BY <2>1, NextDecrypts
<1> QED
  BY <1>1, <1>2, FileInvariant, PTL DEF Spec

-----------------------------------------------------------------------------
(* What that says of the messages a run knows. *)

LEMMA IntactReadable ==
    ASSUME NEW e \in IntactMessages
    PROVE  /\ Readable(e.message, Document(e.message.size))
           /\ e.octets = MessageFor(e.message, Document(e.message.size))
           /\ Document(e.message.size) \in Bytes
<1>1. PICK m \in Messages : e = [octets |-> MessageOf(m), message |-> m] /\ Intact(m, Document(m.size))
  BY DEF IntactMessages
<1>2. e.message = m /\ e.octets = MessageFor(m, Document(m.size))
  BY <1>1 DEF MessageOf
<1>3. m \in MessageRecords
  <2>1. CASE m \in Foreign
    BY <2>1, PgpFileAssumption
  <2>2. ASSUME NEW r \in Recipients, NEW n \in 0 .. MaxDocument, NEW a \in {NotCompressed, 1}, m = Own(r, n, a)
        PROVE  m \in MessageRecords
    <3>1. r \in Seq(Nat) /\ n \in Nat /\ a \in Nat \cup {NotCompressed}
      BY PgpFileAssumption
    <3>2. Definite \in Framings
      BY DEF Definite, Framings
    <3> QED
      BY <2>2, <3>1, <3>2 DEF Own, MessageRecords
  <2> QED
    BY <2>1, <2>2 DEF Messages
<1>4. m.size \in Nat
  BY <1>3 DEF MessageRecords
<1>5. Document(m.size) \in Plain
  <2>1. "data" \in Kinds
    BY DEF Kinds
  <2>2. \A i \in 1 .. m.size : An("data", i) \in {octet \in Octet : ~octet.deflated}
    BY <2>1, AnOctet DEF An
  <2>3. Document(m.size) \in [1 .. m.size -> {octet \in Octet : ~octet.deflated}]
    BY <2>2 DEF Document
  <2> QED
    BY <1>4, <2>3 DEF Plain
<1>6. Document(m.size) \in Bytes
  BY <1>4, DocumentBytes
<1> QED
  BY <1>1, <1>2, <1>3, <1>5, <1>6 DEF Readable

LEMMA MessageBytes ==
    ASSUME NEW m, NEW document, Readable(m, document)
    PROVE  MessageFor(m, document) \in Bytes
  BY MessageBegins DEF Begins

LEMMA KnownDocument ==
    ASSUME NEW octets, DocumentOf(octets) # {}
    PROVE  \E e \in IntactMessages : e.octets = octets /\ Document(e.message.size) \in DocumentOf(octets)
  BY DEF DocumentOf

\* The MDC's promise: what passes its check is a message.
OnlyMessagesPass == pc \in {"deleteOld", "move"} => DocumentOf(call.source) # {}

\* The first part of TemporaryIsPrefix.
WritesPrefix ==
    pc = "decrypt" /\ DocumentOf(call.source) # {} =>
        \E document \in DocumentOf(call.source) : IsPrefix(disk[Temp], document)

LEMMA KnownMessage ==
    ASSUME DecryptInv, NEW e \in IntactMessages, e.octets = call.source, call.op = "DecryptFile"
    PROVE  DecryptOf(e.message, Document(e.message.size))
<1> DEFINE m == e.message
           document == Document(e.message.size)
<1>1. Readable(m, document) /\ e.octets = MessageFor(m, document)
  BY IntactReadable
<1> HIDE DEF m, document
<1>2. Decrypting(m, document)
  BY <1>1 DEF Decrypting
<1>3. DecryptOf(m, document)
  BY <1>1, <1>2 DEF DecryptInv
<1> QED
  BY <1>3 DEF m, document

LEMMA PrefixWritten ==
    ASSUME FileInv, DecryptInv
    PROVE  WritesPrefix
<1>1. SUFFICES ASSUME pc = "decrypt", DocumentOf(call.source) # {}
               PROVE  \E document \in DocumentOf(call.source) : IsPrefix(disk[Temp], document)
  BY DEF WritesPrefix
<1>2. PICK e \in IntactMessages : e.octets = call.source /\ Document(e.message.size) \in DocumentOf(call.source)
  BY <1>1, KnownDocument
<1> DEFINE m == e.message
           document == Document(e.message.size)
<1>3. Readable(m, document)
  BY IntactReadable
<1>4. call.op = "DecryptFile"
  BY <1>1 DEF FileInv, PlaceInv
<1>5. DecryptOf(m, document)
  BY <1>2, <1>4, KnownMessage
<1> HIDE DEF m, document
<1>6. Follows(reader, m, document, disk[Temp])
  BY <1>1, <1>5 DEF DecryptOf
<1>7. IsPrefix(disk[Temp], document)
  BY <1>3, <1>6, FollowsPrefix
<1> QED
  BY <1>2, <1>7 DEF document

LEMMA DocumentReplaces ==
    ASSUME FileInv, DecryptInv, OnlyMessagesPass
    PROVE  ReplacesWithDocument
<1>1. SUFFICES ASSUME pc \in {"deleteOld", "move"}
               PROVE  call.result # Absent /\ disk[Temp] = call.result
  BY DEF ReplacesWithDocument
<1>2. call.op = "DecryptFile" /\ call.result = Result(<<call.op, call.recipients>>, call.source)
  BY <1>1, BusyCall DEF FileInv, PlaceInv
<1>3. \E e \in IntactMessages : e.octets = call.source
  BY <1>1, KnownDocument DEF OnlyMessagesPass
<1> DEFINE c == CHOOSE e \in IntactMessages : e.octets = call.source
<1>4. c \in IntactMessages /\ c.octets = call.source
  BY <1>3
<1> HIDE DEF c
<1>5. Readable(c.message, Document(c.message.size)) /\ Document(c.message.size) \in Bytes
      /\ call.source = MessageFor(c.message, Document(c.message.size))
  BY <1>4, IntactReadable
<1>6. call.source # Absent
  BY <1>5, MessageBytes, NoFileIsNoBytes
<1>7. call.result = Document(c.message.size)
  BY <1>2, <1>3, <1>6 DEF Result, c
<1>8. DecryptOf(c.message, Document(c.message.size))
  BY <1>2, <1>4, KnownMessage
<1>9. disk[Temp] = Document(c.message.size)
  BY <1>1, <1>8 DEF DecryptOf
<1> QED
  BY <1>5, <1>7, <1>9, NoFileIsNoBytes

\* While DecryptFile runs on a message, its temporary file holds a prefix of the
\* document, for every constant: no octet of a header or of the trailer is written.
THEOREM WritesOnlyPrefixes == Spec => []WritesPrefix
<1>1. FileInv /\ DecryptInv => WritesPrefix
  BY PrefixWritten
<1> QED
  BY <1>1, FileInvariant, DecryptsIntactMessages, PTL

\* And if only messages pass the MDC, what takes the old file's place is the document.
THEOREM TemporaryHoldsPrefix == Spec /\ []OnlyMessagesPass => []TemporaryIsPrefix
<1>1. FileInv /\ DecryptInv /\ OnlyMessagesPass => TemporaryIsPrefix
  BY PrefixWritten, DocumentReplaces DEF TemporaryIsPrefix, WritesPrefix
<1> QED
  BY <1>1, FileInvariant, DecryptsIntactMessages, PTL

\* The file calls implement OutputFile if only messages pass the MDC.
THEOREM FileCallsImplementOutput == Spec /\ []OnlyMessagesPass => ImplementsOutputFile
<1>1. FileInv /\ DecryptInv /\ OnlyMessagesPass => ReplacesWithDocument
  BY DocumentReplaces
<1> QED
  BY <1>1, FileInvariant, DecryptsIntactMessages, RefinesIfDocumentReplaces, PTL

-----------------------------------------------------------------------------
(* The verdict. *)

\* A DecryptFile that succeeded has passed the MDC of a message.
Passed == pc = "idle" /\ call.op = "DecryptFile" /\ status = "NO_ERROR" => DocumentOf(call.source) # {}

LEMMA PassedKept ==
    ASSUME FileInv, OnlyMessagesPass, Passed, [Next]_fileVars
    PROVE  Passed'
<1>1. SUFFICES ASSUME pc' = "idle", call'.op = "DecryptFile", status' = "NO_ERROR"
               PROVE  DocumentOf(call'.source) # {}
  BY DEF Passed
<1>2. CASE Move
  <2>1. pc = "move" /\ UNCHANGED call
    BY <1>1, <1>2 DEF Move, Goto
  <2> QED
    BY <2>1 DEF OnlyMessagesPass
<1>3. ~Open /\ ~CreateTemp /\ ~Compress /\ ~DecryptStep /\ ~DeleteOld /\ ~CreateOutput /\ ~Crash
  <2>1. ~CreateOutput
    BY <1>1 DEF CreateOutput, Goto
  <2>2. ~DecryptStep
    <3>1. \A next : AfterStep(next) # "idle"
      <4> TAKE next
      <4>1. CASE next.phase # "done"
        BY <4>1 DEF AfterStep
      <4>2. CASE next.phase = "done" /\ next.code = "NO_ERROR"
        BY <4>2 DEF AfterStep
      <4>3. CASE next.phase = "done" /\ next.code # "NO_ERROR"
        BY <4>3 DEF AfterStep
      <4> QED
        BY <4>1, <4>2, <4>3
    <3> QED
      BY <1>1, <3>1 DEF DecryptStep, Goto
  <2>3. ~Compress
    <3>1. CleanUp # "idle"
      BY DEF CleanUp
    <3> QED
      BY <1>1, <3>1 DEF Compress, WritePiece, Goto
  <2> QED
    BY <1>1, <2>1, <2>2, <2>3 DEF Open, CreateTemp, DeleteOld, Crash, Return, Goto
<1>4. ASSUME Write \/ RemoveTemp \/ RemoveOutput
      PROVE  FALSE
  <2>1. pc # "idle" /\ (Faulted \/ UNCHANGED call \/ call' = [call EXCEPT !.littered = TRUE])
    BY <1>4 DEF Write, WritePiece, RemoveTemp, RemoveOutput, Delete
  <2>2. call \in CallRecords
    BY <2>1, BusyCall
  <2>3. call.op = "DecryptFile"
    BY <1>1, <2>1, <2>2, FaultedCall, LitteredCall DEF SameCall
  <2>4. RemoveTemp /\ pc = "removeTemp"
    BY <1>4, <2>3 DEF FileInv, PlaceInv, Write, RemoveTemp, RemoveOutput
  <2>5. status = "NO_ERROR"
    BY <1>1, <2>4 DEF RemoveTemp, Goto
  <2> QED
    BY <2>3, <2>4, <2>5 DEF FileInv, PlaceInv
<1>5. CASE \E request \in Requests, input, output \in Paths : Begin(request, input, output)
  BY <1>1, <1>5 DEF Begin
<1>6. CASE UNCHANGED fileVars
  BY <1>1, <1>6 DEF fileVars, Passed
<1> QED
  BY <1>2, <1>3, <1>4, <1>5, <1>6 DEF Next, CallStep

\* DecryptFile opens every intact message, one with an empty last chunk excepted, and,
\* if only messages pass the MDC, nothing else.
THEOREM DecryptFileVerdictHolds == Spec /\ []OnlyMessagesPass => []DecryptFileVerdict
<1>1. Init => Passed
  BY DEF Init, NoCall, Passed
<1>2. FileInv /\ OnlyMessagesPass /\ Passed /\ [Next]_fileVars => Passed'
  BY PassedKept
<1>3. DecryptInv /\ Passed => DecryptFileVerdict
  <2> SUFFICES ASSUME DecryptInv, Passed, pc = "idle", call.op = "DecryptFile", ~call.faulted,
                      status \in {"NO_ERROR", "INVALID_DATA", "NOT_IMPLEMENTED"}
               PROVE  status = "NO_ERROR" <=>
                         \E e \in IntactMessages :
                            e.octets = call.source /\ ~EndsWithEmptyChunk(e.message, Document(e.message.size))
    BY DEF DecryptFileVerdict
  <2>1. ASSUME NEW e \in IntactMessages, e.octets = call.source
        PROVE  status = "NO_ERROR" <=> ~EndsWithEmptyChunk(e.message, Document(e.message.size))
    BY <2>1, KnownMessage DEF DecryptOf
  <2>2. status = "NO_ERROR" => \E e \in IntactMessages : e.octets = call.source
    BY KnownDocument DEF Passed
  <2> QED
    BY <2>1, <2>2
<1> QED
  BY <1>1, <1>2, <1>3, FileInvariant, DecryptsIntactMessages, PTL DEF Spec

-----------------------------------------------------------------------------
(* What the encrypting calls write, DecryptFile opens. *)

Encryptions == {"EncryptFile", "EncryptFileCompressed"}

OwnMessage(op, recipients, document) ==
    Own(recipients, Len(document), IF op = "EncryptFile" THEN NotCompressed ELSE 1)

\* The own key is among the recipients, the lengths fit their headers, and the headers
\* of the message are in the octets parseEncryptedFileHeader reads.
Decryptable(op, recipients, document) ==
    LET size == Len(OuterBody(OwnMessage(op, recipients, document), document))
    IN  /\ OwnSubkey \in Range(recipients)
        /\ size < LengthModulus /\ size <= SizeModulus
        /\ Len(recipients) + 4 <= HeadRead

LEMMA OwnFramed ==
    ASSUME NEW body \in Bytes, Len(body) < LengthModulus
    PROVE  WellFramed(Definite, body)
<1>1. Definite.form = "definite" /\ Definite.ends = <<>> /\ Len(Definite.ends) = 0
  BY DEF Definite
<1>2. ChunkEnd(body, <<>>, 0) = 0 /\ Len(body) \in Nat
  BY NoOctets DEF ChunkEnd
<1> QED
  BY <1>1, <1>2 DEF WellFramed

LEMMA OwnReadable ==
    ASSUME NEW op \in Encryptions, NEW recipients \in Seq(Nat), NEW document \in Plain,
           Decryptable(op, recipients, document)
    PROVE  LET m == OwnMessage(op, recipients, document)
           IN  Readable(m, document) /\ ~EndsWithEmptyChunk(m, document)
<1> DEFINE m == OwnMessage(op, recipients, document)
           literal == LiteralBody(document)
           packet == LiteralPacket(m, document)
           inner == InnerBody(m, document)
           whole == Packet(InnerTag(m), inner, InnerFraming(m))
           outer == OuterBody(m, document)
<1>1. /\ m.recipients = recipients /\ m.literal = Definite /\ m.compressed = Definite /\ m.outer = Definite
      /\ m.mdcMatches = TRUE /\ m.algorithm \in {NotCompressed, 1} /\ InnerFraming(m) = Definite
  BY DEF OwnMessage, Own, InnerFraming
<1>2. NotCompressed = -1
  BY DEF NotCompressed
<1>3. m \in MessageRecords
  <2>1. Definite \in Framings
    BY DEF Definite, Framings
  <2>2. document \in Bytes /\ Len(document) \in Nat
    BY PlainRuns, NoOctets
  <2> QED
    BY <2>1, <2>2 DEF OwnMessage, Own, MessageRecords
<1> HIDE DEF m
<1>4. literal \in Bytes /\ Len(literal) \in Nat /\ Len(literal) >= 1
  <2>1. An("name", 0) \in Octet /\ document \in Bytes
    BY AnOctet, PlainRuns DEF Kinds
  <2>2. literal = <<An("name", 0)>> \o document
    BY DEF LiteralBody
  <2> HIDE DEF literal
  <2>3. literal \in Bytes /\ Len(literal) = 1 + Len(document) /\ Len(document) \in Nat
    BY <2>1, <2>2, OctetFirst, NoOctets
  <2> QED
    BY <2>3
<1>5. packet \in Bytes /\ Len(packet) \in Nat /\ Len(literal) <= Len(packet)
  <2>1. Literal \in Nat /\ packet = Packet(Literal, literal, Definite)
    BY <1>1 DEF LiteralPacket, Literal
  <2> HIDE DEF packet, literal
  <2> QED
    BY <1>4, <2>1, DefinitePacket
<1> HIDE DEF literal, packet
<1>6. inner \in Bytes /\ Len(inner) \in Nat /\ Len(inner) >= 1 /\ Len(literal) <= Len(inner)
  <2>1. CASE m.algorithm = NotCompressed
    <3>1. inner = literal
      BY <2>1 DEF InnerBody, literal
    <3> QED
      BY <1>4, <3>1
  <2>2. CASE m.algorithm = 1
    <3> DEFINE first == <<An("algorithm", 1)>>
               deflated == Deflated(packet)
    <3>1. inner = first \o deflated
      BY <1>2, <2>2 DEF InnerBody, CompressedBody, packet
    <3>2. deflated \in Bytes /\ Len(deflated) = Len(packet)
      BY <1>5, DeflatedBytes
    <3>3. first \in Bytes /\ Len(first) = 1
      BY AnOctet, OneOctet DEF Kinds
    <3> HIDE DEF inner, first, deflated
    <3>4. inner \in Bytes /\ Len(inner) = 1 + Len(packet)
      BY <3>1, <3>2, <3>3, ConcatBytes
    <3> QED
      BY <1>4, <1>5, <3>4
  <2> QED
    BY <1>1, <2>1, <2>2
<1>7. whole \in Bytes /\ Len(whole) \in Nat /\ Len(inner) <= Len(whole)
  <2>1. InnerTag(m) \in Nat /\ whole = Packet(InnerTag(m), inner, Definite)
    BY <1>1 DEF InnerTag, Literal, Compressed
  <2> HIDE DEF inner, whole
  <2> QED
    BY <1>6, <2>1, DefinitePacket
<1>8. outer \in Bytes /\ Len(outer) = 3 + Len(whole)
  <2> DEFINE start == <<An("version", 1), An("random", 0)>>
             end == <<An("mdc", 1)>>
  <2>1. outer = start \o whole \o end
    BY <1>1 DEF OuterBody, SeipBody
  <2>2. start \in Bytes /\ Len(start) = 2 /\ end \in Bytes /\ Len(end) = 1
    <3>1. An("version", 1) \in Octet /\ An("random", 0) \in Octet /\ An("mdc", 1) \in Octet
      BY AnOctet DEF Kinds
    <3> QED
      BY <3>1 DEF Bytes
  <2> HIDE DEF outer, whole, start, end
  <2>3. start \o whole \in Bytes /\ Len(start \o whole) = 2 + Len(whole)
    BY <1>7, <2>2, ConcatBytes
  <2>4. outer \in Bytes /\ Len(outer) = Len(start \o whole) + 1
    BY <2>1, <2>2, <2>3, ConcatBytes
  <2> QED
    BY <1>7, <2>3, <2>4
<1>9. Len(outer) < LengthModulus /\ Len(outer) <= SizeModulus /\ OwnSubkey \in Range(recipients)
      /\ Len(recipients) + 4 <= HeadRead
  BY DEF Decryptable, m
<1> HIDE DEF inner, whole, outer
<1>10. Len(literal) < LengthModulus /\ Len(inner) < LengthModulus
  <2>1. LengthModulus \in Nat
    BY ReaderAssumption
  <2> QED
    BY <1>4, <1>6, <1>7, <1>8, <1>9, <2>1
<1>11. WellFramed(m.literal, literal) /\ WellFramed(InnerFraming(m), inner) /\ WellFramed(m.outer, outer)
  BY <1>1, <1>4, <1>6, <1>8, <1>9, <1>10, OwnFramed
<1>12. Len(m.recipients) + 2 + Len(ChunkHeader(outer, m.outer.ends, 1)) <= HeadRead
  <2> DEFINE h == ChunkHeader(outer, m.outer.ends, 1)
             n == ChunkEnd(outer, <<>>, 1) - ChunkEnd(outer, <<>>, 0)
  <2>1. m.outer.ends = <<>> /\ Len(m.outer.ends) = 0
    BY <1>1 DEF Definite
  <2>2. n = Len(outer) /\ n \in Nat
    BY <1>7, <1>8 DEF ChunkEnd
  <2>3. h = appendNewFormatLength(n)
    BY <2>1 DEF ChunkHeader
  <2> HIDE DEF n, h
  <2>4. Len(h) \in {1, 2}
    BY <2>2, <2>3, LengthHeader
  <2> DEFINE k == Len(recipients)
             size == Len(h)
  <2>5. k \in Nat /\ HeadRead \in Nat /\ k + 4 <= HeadRead /\ size \in {1, 2}
    BY <1>9, <2>4, ReaderAssumption
  <2> HIDE DEF k, size
  <2>6. k + 2 + size <= HeadRead
    BY <2>5
  <2> QED
    BY <1>1, <2>6 DEF h, k, size
<1>13. m.algorithm <= 3 /\ m.outer.form # "indeterminate"
  BY <1>1, <1>2 DEF Definite
<1>14. Intact(m, document)
  BY <1>1, <1>9, <1>11, <1>12, <1>13 DEF Intact, literal, inner, outer
<1>15. ~EndsWithEmptyChunk(m, document)
  <2>1. InnerFraming(m).ends = <<>> /\ Len(<<>>) = 0
    BY <1>1 DEF Definite
  <2>2. ChunkEnd(inner, <<>>, 0) # Len(inner)
    BY <1>6 DEF ChunkEnd
  <2> QED
    BY <2>1, <2>2 DEF EndsWithEmptyChunk, inner
<1> QED
  BY <1>3, <1>14, <1>15 DEF Readable, m

\* DecryptFile never refuses what EncryptFile or EncryptFileCompressed makes of a
\* document for the own key, and what it succeeds with is that document.
RoundTrip ==
    \A op \in Encryptions, recipients \in Seq(Nat), document \in Plain :
       /\ Decryptable(op, recipients, document)
       /\ pc = "idle" /\ call.op = "DecryptFile" /\ call.source = Result(<<op, recipients>>, document)
       =>
       /\ ~call.faulted => status \notin {"INVALID_DATA", "NOT_IMPLEMENTED"}
       /\ status = "NO_ERROR" => disk[call.output] = document

\* For every document, every set of recipients with the own key and every size of the
\* buffers: the encrypting calls and DecryptFile fit together.
THEOREM DecryptsWhatWasEncrypted == Spec => []RoundTrip
<1>1. DecryptInv => RoundTrip
  <2> SUFFICES ASSUME DecryptInv, NEW op \in Encryptions, NEW recipients \in Seq(Nat), NEW document \in Plain,
                      Decryptable(op, recipients, document),
                      pc = "idle", call.op = "DecryptFile", call.source = Result(<<op, recipients>>, document)
               PROVE  /\ ~call.faulted => status \notin {"INVALID_DATA", "NOT_IMPLEMENTED"}
                      /\ status = "NO_ERROR" => disk[call.output] = document
    BY DEF RoundTrip
  <2> DEFINE m == OwnMessage(op, recipients, document)
  <2>1. Readable(m, document) /\ ~EndsWithEmptyChunk(m, document)
    BY OwnReadable
  <2>2. Result(<<op, recipients>>, document) = MessageFor(m, document)
    <3>1. document # Absent
      BY PlainRuns, NoFileIsNoBytes
    <3>2. op \in {"EncryptFile", "EncryptFileCompressed"}
      BY DEF Encryptions
    <3> QED
      BY <3>1, <3>2 DEF Result, OwnMessage
  <2> HIDE DEF m
  <2>3. DecryptOf(m, document)
    BY <2>1, <2>2 DEF DecryptInv, Decrypting
  <2> QED
    BY <2>1, <2>3 DEF DecryptOf
<1> QED
  BY <1>1, DecryptsIntactMessages, PTL
=============================================================================
