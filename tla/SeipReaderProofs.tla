-------------------------- MODULE SeipReaderProofs --------------------------
(***************************************************************************)
(* Proofs about the streaming reader, for any chunk sizes and integer      *)
(* widths: what each of its steps keeps, how octets are cut into chunks    *)
(* and pieces, and what becomes of them wherever the file's reads end.     *)
(***************************************************************************)
EXTENDS SeipReader, SequenceTheorems, NaturalOrder

-----------------------------------------------------------------------------
(* Octets and runs of them. *)

Bytes == Seq(Octet)

LEMMA AnOctet ==
    ASSUME NEW kind \in Kinds, NEW n \in Nat
    PROVE  An(kind, n) \in Octet
  BY DEF An, Octet

\* The smallest of some counts is one of them.
LEMMA MinOfCounts ==
    ASSUME NEW S \in SUBSET Nat, S # {}
    PROVE  Min(S) \in S /\ \A n \in S : Min(S) <= n
<1>1. \E n \in S : \A m \in S : n <= m
  BY LeastNatural
<1> QED
  BY <1>1, Zenon DEF Min

LEMMA TakeFacts ==
    ASSUME NEW octets \in Bytes, NEW count \in 0 .. Len(octets)
    PROVE  SubSeq(octets, 1, count) \in Bytes /\ Len(SubSeq(octets, 1, count)) = count
  BY DEF Bytes

LEMMA DropFacts ==
    ASSUME NEW octets \in Bytes, NEW count \in Nat
    PROVE  /\ Drop(octets, count) \in Bytes
           /\ count <= Len(octets) => Len(Drop(octets, count)) = Len(octets) - count
<1>1. CASE count <= Len(octets)
  BY <1>1 DEF Drop, Bytes
<1>2. CASE ~(count <= Len(octets))
  <2>1. SubSeq(octets, count + 1, Len(octets)) = <<>>
    BY <1>2 DEF Bytes
  <2> QED
    BY <1>2, <2>1 DEF Drop, Bytes
<1> QED
  BY <1>1, <1>2

LEMMA ConcatBytes ==
    ASSUME NEW a \in Bytes, NEW b \in Bytes
    PROVE  a \o b \in Bytes /\ Len(a \o b) = Len(a) + Len(b)
  BY DEF Bytes

LEMMA InflatedBytes ==
    ASSUME NEW octets \in Bytes
    PROVE  Inflated(octets) \in Bytes /\ Len(Inflated(octets)) = Len(octets)
<1>1. ASSUME NEW n \in DOMAIN octets
      PROVE  [octets[n] EXCEPT !.deflated = FALSE] \in Octet
  <2>1. octets[n] \in Octet
    BY DEF Bytes
  <2> QED
    BY <2>1 DEF Octet
<1>2. Inflated(octets) \in [1 .. Len(octets) -> Octet] /\ Len(octets) \in Nat
  BY <1>1 DEF Inflated, Bytes
<1> QED
  BY <1>2 DEF Bytes

\* An octet of a run, and what its header size can be.
LEMMA OctetAt ==
    ASSUME NEW octets \in Bytes, NEW n \in 1 .. Len(octets)
    PROVE  octets[n] \in Octet /\ octets[n].n \in Nat /\ HeaderSize(octets[n]) \in {1, 2}
<1>1. octets[n] \in Octet
  BY DEF Bytes
<1> QED
  BY <1>1 DEF Octet, HeaderSize

-----------------------------------------------------------------------------
(***************************************************************************)
(* The streaming reader: every step keeps its counts at or above zero and  *)
(* accounts for every octet of the encrypted data.                         *)
(***************************************************************************)

Phases == {"random", "header", "literal", "algorithm", "chunk", "take", "drain", "trailer", "done"}
ReaderCodes == {"NO_ERROR", "INVALID_DATA", "NOT_IMPLEMENTED"}

LiteralStates ==
    [headerParsed : BOOLEAN, prefixParsed : BOOLEAN, indeterminate : BOOLEAN, partial : BOOLEAN,
     finalChunk : BOOLEAN, chunkRemaining : Nat, contentRemaining : Nat, raw : Bytes, plain : Bytes]

Readers ==
    [ok : {TRUE}, code : ReaderCodes, phase : Phases, rest : Bytes, pending : Bytes,
     encLength : Nat, cipherRemaining : Nat, seipPartial : BOOLEAN, cipherChunkRemaining : Nat,
     cipherFinalChunk : BOOLEAN, streamPos : Nat, innerTag : Nat, innerPartial : BOOLEAN,
     innerFinalChunk : BOOLEAN, remaining : Nat, algorithm : Nat, literal : LiteralStates,
     output : Bytes]

\* What was consumed, what is waiting and what is still to be read make up the whole.
Balanced(r) == r.streamPos + Len(r.pending) + r.cipherRemaining = r.encLength

Sound(r) == r \in Readers /\ Balanced(r)

LEMMA ReaderFields ==
    ASSUME NEW r, Sound(r)
    PROVE  /\ r \in Readers /\ r.rest \in Bytes /\ r.pending \in Bytes /\ r.output \in Bytes
           /\ r.cipherRemaining \in Nat /\ r.cipherChunkRemaining \in Nat /\ r.streamPos \in Nat
           /\ r.encLength \in Nat /\ r.remaining \in Nat /\ r.literal \in LiteralStates
           /\ r.code \in ReaderCodes /\ r.phase \in Phases
           /\ Len(r.rest) \in Nat /\ Len(r.pending) \in Nat
<1>1. \A b \in Bytes : Len(b) \in Nat
  BY DEF Bytes
<1>2. /\ r \in Readers /\ r.rest \in Bytes /\ r.pending \in Bytes /\ r.output \in Bytes
      /\ r.cipherRemaining \in Nat /\ r.cipherChunkRemaining \in Nat /\ r.streamPos \in Nat
      /\ r.encLength \in Nat /\ r.remaining \in Nat /\ r.literal \in LiteralStates
      /\ r.code \in ReaderCodes /\ r.phase \in Phases
  BY DEF Sound, Readers
<1> QED
  BY <1>1, <1>2

LEMMA StopSound ==
    ASSUME NEW r, Sound(r), NEW code \in ReaderCodes
    PROVE  Sound(Stop(r, code))
<1>1. <<>> \in Bytes /\ "done" \in Phases
  BY DEF Bytes, Phases
<1>2. r \in Readers
  BY DEF Sound
<1>3. Stop(r, code) \in Readers
  <2>1. ASSUME NEW phase \in Phases, NEW output \in Bytes
        PROVE  [r EXCEPT !.code = code, !.phase = phase, !.output = output] \in Readers
    BY <1>2 DEF Readers
  <2> QED
    BY <1>1, <2>1 DEF Stop
<1>4. /\ Stop(r, code).streamPos = r.streamPos /\ Stop(r, code).pending = r.pending
      /\ Stop(r, code).cipherRemaining = r.cipherRemaining /\ Stop(r, code).encLength = r.encLength
  BY <1>2 DEF Stop, Readers
<1> QED
  BY <1>3, <1>4 DEF Sound, Balanced

LEMMA PhaseSound ==
    ASSUME NEW r, Sound(r), NEW phase \in Phases
    PROVE  Sound([r EXCEPT !.phase = phase])
  BY DEF Sound, Balanced, Readers

LEMMA ConsumeSound ==
    ASSUME NEW r, Sound(r), NEW count \in 0 .. Len(r.pending)
    PROVE  /\ Sound(Consume(r, count))
           /\ Consume(r, count) = [r EXCEPT !.pending = Consume(r, count).pending,
                                            !.streamPos = Consume(r, count).streamPos]
<1>1. r \in Readers /\ r.pending \in Bytes /\ r.streamPos \in Nat
  BY DEF Sound, Readers
<1>2. count \in Nat /\ count <= Len(r.pending) /\ Len(r.pending) \in Nat
  BY <1>1 DEF Bytes
<1>3. Drop(r.pending, count) \in Bytes /\ Len(Drop(r.pending, count)) = Len(r.pending) - count
  BY <1>1, <1>2, DropFacts
<1>4. Consume(r, count) = [r EXCEPT !.pending = Drop(r.pending, count), !.streamPos = r.streamPos + count]
  BY <1>1 DEF Consume
<1>5. Consume(r, count) \in Readers
  <2>1. ASSUME NEW pending \in Bytes, NEW pos \in Nat
        PROVE  [r EXCEPT !.pending = pending, !.streamPos = pos] \in Readers
    BY <1>1 DEF Readers
  <2>2. r.streamPos + count \in Nat
    BY <1>1, <1>2
  <2> QED
    BY <1>3, <1>4, <2>1, <2>2
<1>6. Balanced(Consume(r, count))
  <2>1. /\ Consume(r, count).pending = Drop(r.pending, count)
        /\ Consume(r, count).streamPos = r.streamPos + count
        /\ Consume(r, count).cipherRemaining = r.cipherRemaining
        /\ Consume(r, count).encLength = r.encLength
    BY <1>1, <1>4 DEF Readers
  <2>2. r.cipherRemaining \in Nat /\ r.encLength \in Nat
    BY <1>1 DEF Readers
  <2> QED
    BY <1>1, <1>2, <1>3, <2>1, <2>2 DEF Sound, Balanced
<1> QED
  BY <1>4, <1>5, <1>6 DEF Sound

LEMMA FillSound ==
    ASSUME NEW r, Sound(r)
    PROVE  Sound(Fill(r))
<1> DEFINE take == Min(ReadCeiling(r) \cup {Len(r.rest)})
           size == HeaderSize(r.rest[1])
           header == [r EXCEPT !.cipherChunkRemaining = r.rest[1].n,
                               !.cipherFinalChunk = r.rest[1].kind # "partial",
                               !.rest = Drop(r.rest, size)]
           run == [r EXCEPT !.pending = r.pending \o SubSeq(r.rest, 1, take), !.rest = Drop(r.rest, take),
                            !.cipherRemaining = r.cipherRemaining - take,
                            !.cipherChunkRemaining = IF r.seipPartial THEN r.cipherChunkRemaining - take
                                                     ELSE r.cipherChunkRemaining]
<1>1. /\ r \in Readers /\ r.rest \in Bytes /\ r.pending \in Bytes /\ r.cipherRemaining \in Nat
      /\ r.cipherChunkRemaining \in Nat /\ r.streamPos \in Nat /\ r.encLength \in Nat
      /\ Len(r.rest) \in Nat /\ Len(r.pending) \in Nat
  BY ReaderFields
<1>2. /\ take \in Nat /\ take <= Len(r.rest) /\ take <= r.cipherRemaining
      /\ r.seipPartial => take <= r.cipherChunkRemaining
  <2> DEFINE counts == ReadCeiling(r) \cup {Len(r.rest)}
  <2>1. counts \in SUBSET Nat /\ counts # {}
    BY <1>1, ReaderAssumption DEF ReadCeiling
  <2>2. /\ Len(r.rest) \in counts /\ r.cipherRemaining \in counts
        /\ r.seipPartial => r.cipherChunkRemaining \in counts
    BY DEF ReadCeiling
  <2> HIDE DEF counts
  <2>3. Min(counts) \in counts /\ \A n \in counts : Min(counts) <= n
    BY <2>1, MinOfCounts
  <2> QED
    BY <2>1, <2>2, <2>3 DEF counts
<1>3. "INVALID_DATA" \in ReaderCodes
  BY DEF ReaderCodes
<1>4. Decodes(r.rest) => Sound(header)
  <2> SUFFICES ASSUME Decodes(r.rest)
               PROVE  Sound(header)
    OBVIOUS
  <2>1. r.rest[1].n \in Nat /\ size \in Nat
    <3>1. 1 \in 1 .. Len(r.rest)
      BY <1>1 DEF Decodes, Bytes
    <3> QED
      BY <1>1, <3>1, OctetAt
  <2>2. Drop(r.rest, size) \in Bytes
    BY <1>1, <2>1, DropFacts
  <2> DEFINE final == r.rest[1].kind # "partial"
             rest == Drop(r.rest, size)
             left == r.rest[1].n
  <2>3. header = [r EXCEPT !.cipherChunkRemaining = left, !.cipherFinalChunk = final, !.rest = rest]
    OBVIOUS
  <2>4. final \in BOOLEAN /\ rest \in Bytes /\ left \in Nat
    BY <2>1, <2>2
  <2> HIDE DEF final, rest, left, header
  <2>5. header \in Readers
    BY <1>1, <2>3, <2>4 DEF Readers
  <2>6. /\ header.streamPos = r.streamPos /\ header.pending = r.pending
        /\ header.cipherRemaining = r.cipherRemaining /\ header.encLength = r.encLength
    BY <1>1, <2>3 DEF Readers
  <2> QED
    BY <2>5, <2>6 DEF Sound, Balanced
<1>5. Sound(run)
  <2> DEFINE some == SubSeq(r.rest, 1, take)
             more == r.pending \o some
             rest == Drop(r.rest, take)
             left == r.cipherRemaining - take
             chunk == IF r.seipPartial THEN r.cipherChunkRemaining - take ELSE r.cipherChunkRemaining
  <2>1. some \in Bytes /\ Len(some) = take
    BY <1>1, <1>2, TakeFacts
  <2>2. more \in Bytes /\ Len(more) = Len(r.pending) + take
    <3> HIDE DEF some, take
    <3> QED
      BY <1>1, <2>1, ConcatBytes
  <2>3. rest \in Bytes
    BY <1>1, <1>2, DropFacts
  <2>4. left \in Nat /\ chunk \in Nat
    BY <1>1, <1>2
  <2>5. run = [r EXCEPT !.pending = more, !.rest = rest, !.cipherRemaining = left,
                        !.cipherChunkRemaining = chunk]
    OBVIOUS
  <2>6. left + take = r.cipherRemaining
    BY <1>1, <1>2
  <2> HIDE DEF some, more, rest, left, chunk, take, run
  <2>7. run \in Readers
    BY <1>1, <2>2, <2>3, <2>4, <2>5 DEF Readers
  <2>8. /\ run.streamPos = r.streamPos /\ run.pending = more
        /\ run.cipherRemaining = left /\ run.encLength = r.encLength
    BY <1>1, <2>5 DEF Readers
  <2>9. r.streamPos + Len(r.pending) + r.cipherRemaining = r.encLength
    BY DEF Sound, Balanced
  <2>10. r.streamPos + Len(more) + left = r.encLength
    BY <1>1, <1>2, <2>2, <2>4, <2>6, <2>9
  <2> QED
    BY <2>7, <2>8, <2>10 DEF Sound, Balanced
<1>6. Fill(r) \in {Stop(r, "INVALID_DATA"), run} \/ (Decodes(r.rest) /\ Fill(r) = header)
  <2>1. CASE r.cipherRemaining = 0
    BY <2>1 DEF Fill
  <2>2. CASE r.cipherRemaining > 0 /\ r.seipPartial /\ r.cipherChunkRemaining = 0
    BY <1>1, <2>2 DEF Fill
  <2>3. CASE r.cipherRemaining # 0 /\ ~(r.cipherRemaining > 0 /\ r.seipPartial /\ r.cipherChunkRemaining = 0)
    BY <1>1, <2>3 DEF Fill
  <2> QED
    BY <1>1, <2>1, <2>2, <2>3
<1> QED
  BY <1>3, <1>4, <1>5, <1>6, StopSound

\* The test at the top of the loop over the body.
LEMMA LoopTopSound ==
    ASSUME NEW r, Sound(r)
    PROVE  Sound(LoopTop(r))
<1>1. {"take", "chunk", "trailer"} \subseteq Phases /\ "INVALID_DATA" \in ReaderCodes
  BY DEF Phases, ReaderCodes
<1>2. Sound(EndBody(r))
  BY <1>1, StopSound, PhaseSound DEF EndBody
<1>3. r.remaining \in Nat
  BY DEF Sound, Readers
<1> QED
  BY <1>1, <1>2, <1>3, PhaseSound DEF LoopTop

\* Whatever else a step assigns, a reader that stays balanced stays sound.
LEMMA OtherFieldsSound ==
    ASSUME NEW r, Sound(r), NEW s \in Readers,
           s.streamPos = r.streamPos, s.pending = r.pending,
           s.cipherRemaining = r.cipherRemaining, s.encLength = r.encLength
    PROVE  Sound(s)
  BY DEF Sound, Balanced

LEMMA InnerHeaderSound ==
    ASSUME NEW r, Sound(r), r.phase = "header", Len(r.pending) >= Needed(r)
    PROVE  Sound(ParseInnerHeader(r))
<1> DEFINE indeterminate == r.pending[1].kind = "oldTag"
           size == IF indeterminate THEN 1 ELSE 1 + HeaderSize(r.pending[2])
           room == r.encLength - 1 - (r.streamPos + size)
           length == IF indeterminate THEN room ELSE r.pending[2].n
           partial == ~indeterminate /\ r.pending[2].kind = "partial"
           tag == r.pending[1].n
           taken == Consume(r, size)
           read == [taken EXCEPT !.innerTag = tag, !.innerPartial = partial, !.remaining = length]
<1>1. /\ r \in Readers /\ r.pending \in Bytes /\ r.streamPos \in Nat /\ r.encLength \in Nat
      /\ Len(r.pending) \in Nat
  BY ReaderFields
<1>2. /\ Len(r.pending) >= 2
      /\ r.pending[1].kind = "tag" => Len(r.pending) >= 1 + HeaderSize(r.pending[2])
  <2>1. Needed(r) = IF Len(r.pending) >= 2 /\ r.pending[1].kind = "tag"
                    THEN 1 + HeaderSize(r.pending[2]) ELSE 2
    BY DEF Needed
  <2>2. HeaderSize(r.pending[2]) \in {1, 2}
    BY DEF HeaderSize
  <2> QED
    BY <1>1, <2>1, <2>2
<1>3. r.pending[1].n \in Nat /\ r.pending[2].n \in Nat /\ HeaderSize(r.pending[2]) \in {1, 2}
  <2>1. 1 \in 1 .. Len(r.pending) /\ 2 \in 1 .. Len(r.pending)
    BY <1>1, <1>2
  <2> QED
    BY <1>1, <2>1, OctetAt
<1>4. {"literal", "algorithm"} \subseteq Phases /\ {"INVALID_DATA", "NOT_IMPLEMENTED"} \subseteq ReaderCodes
  BY DEF Phases, ReaderCodes
<1>5. CASE r.pending[1].kind \notin {"tag", "oldTag"} \/ (indeterminate /\ room < 0)
  <2>1. ParseInnerHeader(r) = Stop(r, "INVALID_DATA")
    BY <1>5 DEF ParseInnerHeader
  <2> QED
    BY <1>4, <2>1, StopSound
<1>6. CASE ~(r.pending[1].kind \notin {"tag", "oldTag"} \/ (indeterminate /\ room < 0))
  <2>1. size \in 0 .. Len(r.pending)
    <3>1. size = 1 \/ (size = 1 + HeaderSize(r.pending[2]) /\ Len(r.pending) >= 1 + HeaderSize(r.pending[2]))
      BY <1>2, <1>6
    <3> HIDE DEF size
    <3>2. size \in {1, 2, 3} /\ size <= Len(r.pending)
      BY <1>1, <1>2, <1>3, <3>1
    <3> QED
      BY <1>1, <3>2
  <2>2. length \in Nat /\ tag \in Nat /\ partial \in BOOLEAN
    BY <1>1, <1>3, <1>6, <2>1
  <2>3. Sound(taken) /\ taken \in Readers
    <3> HIDE DEF size
    <3> QED
      BY <2>1, ConsumeSound DEF Sound
  <2> HIDE DEF taken, length, tag, partial
  <2>4. read \in Readers
    BY <2>2, <2>3 DEF Readers
  <2>5. /\ read.streamPos = taken.streamPos /\ read.pending = taken.pending
        /\ read.cipherRemaining = taken.cipherRemaining /\ read.encLength = taken.encLength
    BY <2>3 DEF Readers
  <2> HIDE DEF read
  <2>6. Sound(read)
    BY <2>3, <2>4, <2>5, OtherFieldsSound
  <2>7. ParseInnerHeader(r) \in {Stop(r, "NOT_IMPLEMENTED"), Stop(r, "INVALID_DATA"),
                                 [read EXCEPT !.phase = "literal"], [read EXCEPT !.phase = "algorithm"]}
    BY <1>6 DEF ParseInnerHeader, read, taken, length, tag, partial
  <2> QED
    BY <1>4, <2>6, <2>7, StopSound, PhaseSound
<1> QED
  BY <1>5, <1>6

LEMMA PrefixSound ==
    ASSUME NEW r, Sound(r), Len(r.pending) >= 1
    PROVE  Sound(ParsePrefix(r))
<1> DEFINE taken == Consume(r, 1)
           tag == r.pending[1].n
           next == [taken EXCEPT !.algorithm = tag, !.remaining = taken.remaining - 1]
<1>1. r \in Readers /\ r.pending \in Bytes /\ r.remaining \in Nat /\ Len(r.pending) \in Nat
  BY ReaderFields
<1>2. tag \in Nat /\ 1 \in 0 .. Len(r.pending)
  <2>1. 1 \in 1 .. Len(r.pending)
    BY <1>1
  <2> QED
    BY <1>1, <2>1, OctetAt
<1>3. Sound(taken) /\ taken \in Readers /\ taken.remaining = r.remaining
  <2>1. taken.remaining = r.remaining
    BY <1>1 DEF Consume, Readers
  <2> QED
    BY <1>2, <2>1, ConsumeSound DEF Sound
<1>4. {"INVALID_DATA", "NOT_IMPLEMENTED"} \subseteq ReaderCodes
  BY DEF ReaderCodes
<1>5. ASSUME r.remaining >= 1
      PROVE  Sound(LoopTop(next))
  <2> DEFINE left == taken.remaining - 1
  <2>1. left \in Nat
    BY <1>1, <1>3, <1>5
  <2> HIDE DEF taken, tag, left
  <2>2. next = [taken EXCEPT !.algorithm = tag, !.remaining = left]
    BY DEF left
  <2>3. next \in Readers
    BY <1>2, <1>3, <2>1, <2>2 DEF Readers
  <2>4. /\ next.streamPos = taken.streamPos /\ next.pending = taken.pending
        /\ next.cipherRemaining = taken.cipherRemaining /\ next.encLength = taken.encLength
    BY <1>3, <2>2 DEF Readers
  <2> HIDE DEF next
  <2>5. Sound(next)
    BY <1>3, <2>3, <2>4, OtherFieldsSound
  <2> QED
    BY <2>5, LoopTopSound
<1>6. next = [Consume(r, 1) EXCEPT !.algorithm = r.pending[1].n, !.remaining = @ - 1]
  BY <1>3 DEF Readers
<1>7. \/ ParsePrefix(r) \in {Stop(r, "INVALID_DATA"), Stop(r, "NOT_IMPLEMENTED")}
      \/ r.remaining >= 1 /\ ParsePrefix(r) = LoopTop(next)
  <2> HIDE DEF next
  <2> QED
    BY <1>1, <1>6 DEF ParsePrefix
<1> QED
  BY <1>4, <1>5, <1>7, StopSound

LEMMA ChunkHeaderSound ==
    ASSUME NEW r, Sound(r), Len(r.pending) >= 1, Len(r.pending) >= HeaderSize(r.pending[1])
    PROVE  Sound(ParseChunkHeader(r))
<1> DEFINE size == HeaderSize(r.pending[1])
           taken == Consume(r, size)
           left == r.pending[1].n
           final == r.pending[1].kind # "partial"
           phase == IF r.pending[1].n = 0 THEN "chunk" ELSE "take"
<1>1. r \in Readers /\ r.pending \in Bytes /\ Len(r.pending) \in Nat
  BY ReaderFields
<1>2. left \in Nat /\ size \in 0 .. Len(r.pending) /\ final \in BOOLEAN /\ phase \in Phases
  <2>1. 1 \in 1 .. Len(r.pending)
    BY <1>1
  <2>2. left \in Nat /\ size \in {1, 2}
    BY <1>1, <2>1, OctetAt
  <2> QED
    BY <1>1, <2>2 DEF Phases
<1> HIDE DEF size
<1>3. Sound(taken) /\ taken \in Readers
  BY <1>2, ConsumeSound DEF Sound
<1>4. ParseChunkHeader(r) = [taken EXCEPT !.remaining = left, !.innerFinalChunk = final, !.phase = phase]
  BY DEF ParseChunkHeader, size
<1> HIDE DEF taken, left, final, phase
<1>5. ParseChunkHeader(r) \in Readers
  BY <1>2, <1>3, <1>4 DEF Readers
<1>6. /\ ParseChunkHeader(r).streamPos = taken.streamPos /\ ParseChunkHeader(r).pending = taken.pending
      /\ ParseChunkHeader(r).cipherRemaining = taken.cipherRemaining
      /\ ParseChunkHeader(r).encLength = taken.encLength
  BY <1>3, <1>4 DEF Readers
<1> QED
  BY <1>3, <1>5, <1>6, OtherFieldsSound

LEMMA LiteralFields ==
    ASSUME NEW l \in LiteralStates
    PROVE  /\ l.raw \in Bytes /\ l.plain \in Bytes /\ l.chunkRemaining \in Nat /\ l.contentRemaining \in Nat
           /\ l.indeterminate \in BOOLEAN /\ l.partial \in BOOLEAN
           /\ Len(l.raw) \in Nat /\ Len(l.plain) \in Nat
<1>1. \A b \in Bytes : Len(b) \in Nat
  BY DEF Bytes
<1>2. /\ l.raw \in Bytes /\ l.plain \in Bytes /\ l.chunkRemaining \in Nat /\ l.contentRemaining \in Nat
      /\ l.indeterminate \in BOOLEAN /\ l.partial \in BOOLEAN
  BY DEF LiteralStates
<1> QED
  BY <1>1, <1>2

LEMMA DechunkType ==
    ASSUME NEW l \in LiteralStates, Dechunks(l)
    PROVE  Dechunk(l) \in LiteralStates
<1> DEFINE take == Min({l.chunkRemaining, Len(l.raw)})
<1>1. l.raw \in Bytes /\ l.plain \in Bytes /\ l.chunkRemaining \in Nat /\ Len(l.raw) \in Nat
  BY LiteralFields
<1>2. CASE l.chunkRemaining > 0
  <2> DEFINE some == SubSeq(l.raw, 1, take)
             plain == l.plain \o some
             raw == Drop(l.raw, take)
             left == l.chunkRemaining - take
  <2>1. take \in Nat /\ take <= l.chunkRemaining /\ take <= Len(l.raw)
    <3> DEFINE counts == {l.chunkRemaining, Len(l.raw)}
    <3>1. counts \in SUBSET Nat /\ counts # {}
      BY <1>1
    <3>2. Min(counts) \in counts /\ \A n \in counts : Min(counts) <= n
      <4> HIDE DEF counts
      <4> QED
        BY <3>1, MinOfCounts
    <3> QED
      BY <1>1, <3>2
  <2>2. some \in Bytes
    BY <1>1, <2>1, TakeFacts
  <2>3. plain \in Bytes
    <3> HIDE DEF some
    <3> QED
      BY <1>1, <2>2, ConcatBytes
  <2>4. raw \in Bytes /\ left \in Nat
    <3> HIDE DEF take
    <3>1. raw \in Bytes
      BY <1>1, <2>1, DropFacts
    <3> QED
      BY <1>1, <2>1, <3>1
  <2>5. Dechunk(l) = [l EXCEPT !.plain = plain, !.raw = raw, !.chunkRemaining = left]
    BY <1>2 DEF Dechunk
  <2> HIDE DEF plain, raw, left
  <2> QED
    BY <2>3, <2>4, <2>5 DEF LiteralStates
<1>3. CASE ~(l.chunkRemaining > 0)
  <2> DEFINE left == l.raw[1].n
             final == l.raw[1].kind # "partial"
             raw == Drop(l.raw, HeaderSize(l.raw[1]))
  <2>1. 1 \in 1 .. Len(l.raw)
    <3>1. l.raw # <<>>
      BY DEF Dechunks
    <3> QED
      BY <1>1, <3>1 DEF Bytes
  <2>2. left \in Nat /\ final \in BOOLEAN /\ HeaderSize(l.raw[1]) \in Nat
    BY <1>1, <2>1, OctetAt
  <2>3. raw \in Bytes
    BY <1>1, <2>2, DropFacts
  <2>4. Dechunk(l) = [l EXCEPT !.chunkRemaining = left, !.finalChunk = final, !.raw = raw]
    BY <1>3 DEF Dechunk
  <2> HIDE DEF raw, left, final
  <2> QED
    BY <2>2, <2>3, <2>4 DEF LiteralStates
<1> QED
  BY <1>2, <1>3

LEMMA LiteralHeaderType ==
    ASSUME NEW l \in LiteralStates, HeaderComplete(l.plain)
    PROVE  ParseLiteralHeader(l) \in LiteralStates
<1> DEFINE octets == l.plain
           indeterminate == octets[1].kind = "oldTag"
           size == IF indeterminate THEN 1 ELSE 1 + HeaderSize(octets[2])
           body == Drop(octets, size)
           length == IF indeterminate THEN 0 ELSE octets[2].n
           partial == ~indeterminate /\ octets[2].kind = "partial"
           unbounded == indeterminate \/ partial
           raw == IF partial THEN body ELSE <<>>
           plain == IF partial THEN <<>> ELSE body
           chunk == IF partial THEN length ELSE 0
           content == IF partial THEN 0 ELSE length
<1>1. octets \in Bytes /\ Len(octets) \in Nat /\ octets # <<>>
  BY LiteralFields DEF HeaderComplete
<1>2. ~indeterminate => 2 \in 1 .. Len(octets)
  <2>1. ~indeterminate => Tail(octets) # <<>>
    BY DEF HeaderComplete, Decodes
  <2>2. Len(octets) # 1 \/ Tail(octets) = <<>>
    <3> HIDE DEF octets
    <3>1. Tail(octets) \in Seq(Octet) /\ Len(Tail(octets)) = Len(octets) - 1
      BY <1>1 DEF Bytes
    <3> QED
      BY <3>1, EmptySeq
  <2>3. Len(octets) # 0
    BY <1>1 DEF Bytes
  <2> QED
    BY <1>1, <2>1, <2>2, <2>3
<1>3. length \in Nat /\ size \in Nat
  <2>1. CASE indeterminate
    BY <2>1
  <2>2. CASE ~indeterminate
    BY <1>1, <1>2, <2>2, OctetAt
  <2> QED
    BY <2>1, <2>2
<1>4. body \in Bytes /\ <<>> \in Bytes
  <2>1. body \in Bytes
    <3> HIDE DEF octets, size
    <3> QED
      BY <1>1, <1>3, DropFacts
  <2> QED
    BY <2>1 DEF Bytes
<1>5. raw \in Bytes /\ plain \in Bytes /\ chunk \in Nat /\ content \in Nat
  <2> HIDE DEF body, length, partial
  <2> QED
    BY <1>3, <1>4
<1>6. partial \in BOOLEAN /\ unbounded \in BOOLEAN
  OBVIOUS
<1>7. ParseLiteralHeader(l) =
        [l EXCEPT !.headerParsed = TRUE, !.partial = partial, !.indeterminate = unbounded,
                  !.raw = raw, !.plain = plain, !.chunkRemaining = chunk, !.contentRemaining = content]
  BY DEF ParseLiteralHeader
<1> HIDE DEF raw, plain, chunk, content, partial, unbounded
<1> QED
  BY <1>5, <1>6, <1>7 DEF LiteralStates

LEMMA LiteralPrefixType ==
    ASSUME NEW l \in LiteralStates, l.plain # <<>>, l.indeterminate \/ l.contentRemaining >= 1
    PROVE  ParseLiteralPrefix(l) \in LiteralStates
<1> DEFINE plain == Tail(l.plain)
           content == IF l.indeterminate THEN 0 ELSE l.contentRemaining - 1
<1>1. plain \in Bytes /\ content \in Nat
  BY LiteralFields DEF Bytes
<1>2. ParseLiteralPrefix(l) = [l EXCEPT !.prefixParsed = TRUE, !.plain = plain, !.contentRemaining = content]
  BY DEF ParseLiteralPrefix
<1> HIDE DEF plain, content
<1> QED
  BY <1>1, <1>2 DEF LiteralStates

LEMMA LiteralSound ==
    ASSUME NEW r, Sound(r), NEW l \in LiteralStates
    PROVE  Sound([r EXCEPT !.literal = l])
<1>1. r \in Readers
  BY DEF Sound
<1>2. [r EXCEPT !.literal = l] \in Readers
  BY <1>1 DEF Readers
<1>3. /\ [r EXCEPT !.literal = l].streamPos = r.streamPos /\ [r EXCEPT !.literal = l].pending = r.pending
      /\ [r EXCEPT !.literal = l].cipherRemaining = r.cipherRemaining
      /\ [r EXCEPT !.literal = l].encLength = r.encLength
  BY <1>1 DEF Readers
<1> QED
  BY <1>2, <1>3, OtherFieldsSound

LEMMA TakeBodySound ==
    ASSUME NEW r, Sound(r), r.innerTag \in {Literal, Compressed}
    PROVE  Sound(TakeBody(r))
<1> DEFINE take == Min({Len(r.pending), r.remaining, ReadSize})
           run == SubSeq(r.pending, 1, take)
           inflated == IF r.algorithm = 0 THEN run ELSE Inflated(run)
           taken == Consume(r, take)
           left == taken.remaining - take
           next == [taken EXCEPT !.remaining = left]
<1>1. /\ r \in Readers /\ r.pending \in Bytes /\ r.remaining \in Nat /\ Len(r.pending) \in Nat
      /\ r.literal \in LiteralStates
  BY ReaderFields
<1>2. take \in Nat /\ take <= Len(r.pending) /\ take <= r.remaining
  <2> DEFINE counts == {Len(r.pending), r.remaining, ReadSize}
  <2>1. counts \in SUBSET Nat /\ counts # {}
    BY <1>1, ReaderAssumption
  <2>2. Min(counts) \in counts /\ \A n \in counts : Min(counts) <= n
    <3> HIDE DEF counts
    <3> QED
      BY <2>1, MinOfCounts
  <2> QED
    BY <2>1, <2>2
<1>3. run \in Bytes
  BY <1>1, <1>2, TakeFacts
<1>4. inflated \in Bytes
  <2> HIDE DEF run
  <2> QED
    BY <1>3, InflatedBytes
<1> HIDE DEF take
<1>5. Sound(taken) /\ taken \in Readers /\ taken.remaining = r.remaining /\ taken.literal = r.literal
  <2>1. taken.remaining = r.remaining /\ taken.literal = r.literal
    BY <1>1 DEF Consume, Readers
  <2>2. take \in 0 .. Len(r.pending)
    BY <1>1, <1>2
  <2> QED
    BY <2>1, <2>2, ConsumeSound DEF Sound
<1>6. left \in Nat
  BY <1>1, <1>2, <1>5
<1>7. next = [Consume(r, take) EXCEPT !.remaining = @ - take]
  BY <1>5 DEF Readers
<1> HIDE DEF taken, left
<1>8. next \in Readers /\ next.literal = r.literal
  BY <1>5, <1>6 DEF Readers
<1>9. Sound(next)
  <2>1. /\ next.streamPos = taken.streamPos /\ next.pending = taken.pending
        /\ next.cipherRemaining = taken.cipherRemaining /\ next.encLength = taken.encLength
    BY <1>5 DEF Readers
  <2> QED
    BY <1>5, <1>8, <2>1, OtherFieldsSound
<1> HIDE DEF next, run, inflated
<1>10. Sound(LoopTop([next EXCEPT !.output = run]))
  <2>1. [next EXCEPT !.output = run] \in Readers
    BY <1>3, <1>8 DEF Readers
  <2>2. /\ [next EXCEPT !.output = run].streamPos = next.streamPos
        /\ [next EXCEPT !.output = run].pending = next.pending
        /\ [next EXCEPT !.output = run].cipherRemaining = next.cipherRemaining
        /\ [next EXCEPT !.output = run].encLength = next.encLength
    BY <1>8 DEF Readers
  <2>3. Sound([next EXCEPT !.output = run])
    BY <1>9, <2>1, <2>2, OtherFieldsSound
  <2> QED
    BY <2>3, LoopTopSound
<1> DEFINE raw == next.literal.raw \o inflated
           plain == next.literal.plain \o inflated
<1>11. raw \in Bytes /\ plain \in Bytes
  BY <1>1, <1>4, <1>8, LiteralFields, ConcatBytes
<1> HIDE DEF raw, plain
<1>12. Sound([next EXCEPT !.phase = "drain", !.literal.raw = raw])
  <2> DEFINE l == [next.literal EXCEPT !.raw = raw]
  <2>1. l \in LiteralStates
    BY <1>1, <1>8, <1>11 DEF LiteralStates
  <2>2. [next EXCEPT !.phase = "drain", !.literal.raw = raw] = [[next EXCEPT !.literal = l] EXCEPT !.phase = "drain"]
    BY <1>8 DEF Readers
  <2>3. "drain" \in Phases
    BY DEF Phases
  <2> HIDE DEF l
  <2> QED
    BY <1>9, <2>1, <2>2, <2>3, LiteralSound, PhaseSound
<1>13. Sound([next EXCEPT !.phase = "drain", !.literal.plain = plain])
  <2> DEFINE l == [next.literal EXCEPT !.plain = plain]
  <2>1. l \in LiteralStates
    BY <1>1, <1>8, <1>11 DEF LiteralStates
  <2>2. [next EXCEPT !.phase = "drain", !.literal.plain = plain] = [[next EXCEPT !.literal = l] EXCEPT !.phase = "drain"]
    BY <1>8 DEF Readers
  <2>3. "drain" \in Phases
    BY DEF Phases
  <2> HIDE DEF l
  <2> QED
    BY <1>9, <2>1, <2>2, <2>3, LiteralSound, PhaseSound
<1>14. TakeBody(r) \in {LoopTop([next EXCEPT !.output = run]),
                        [next EXCEPT !.phase = "drain", !.literal.raw = raw],
                        [next EXCEPT !.phase = "drain", !.literal.plain = plain]}
  <2>1. CASE r.innerTag = Literal
    BY <1>7, <2>1 DEF TakeBody, run, take, Literal, Compressed
  <2>2. CASE r.innerTag = Compressed /\ r.literal.partial
    BY <1>7, <1>8, <2>2 DEF TakeBody, run, take, raw, inflated, Literal, Compressed, Readers
  <2>3. CASE r.innerTag = Compressed /\ ~r.literal.partial
    BY <1>7, <1>8, <2>3 DEF TakeBody, run, take, plain, inflated, Literal, Compressed, Readers
  <2> QED
    BY <2>1, <2>2, <2>3
<1> QED
  BY <1>10, <1>12, <1>13, <1>14

LEMMA WriteDecodedSound ==
    ASSUME NEW r, Sound(r)
    PROVE  Sound(WriteDecoded(r))
<1>1. r \in Readers /\ r.literal \in LiteralStates /\ r.literal.plain \in Bytes /\ <<>> \in Bytes
  BY ReaderFields, LiteralFields DEF Bytes
<1>2. "INVALID_DATA" \in ReaderCodes
  BY DEF ReaderCodes
<1>3. ASSUME NEW l \in LiteralStates
      PROVE  Sound(LoopTop([r EXCEPT !.output = r.literal.plain, !.literal = l]))
  <2> DEFINE output == r.literal.plain
             next == [r EXCEPT !.output = output, !.literal = l]
  <2>1. output \in Bytes
    BY <1>1
  <2> HIDE DEF output
  <2>2. next \in Readers
    BY <1>1, <1>3, <2>1 DEF Readers
  <2>3. /\ next.streamPos = r.streamPos /\ next.pending = r.pending
        /\ next.cipherRemaining = r.cipherRemaining /\ next.encLength = r.encLength
    BY <1>1 DEF Readers
  <2>4. Sound(next)
    <3> HIDE DEF next
    <3> QED
      BY <2>2, <2>3, OtherFieldsSound
  <2> QED
    BY <2>4, LoopTopSound DEF output
<1>4. CASE ~r.literal.prefixParsed
  BY <1>4, LoopTopSound DEF WriteDecoded
<1>5. CASE r.literal.prefixParsed /\ r.literal.indeterminate
  <2> DEFINE l == [r.literal EXCEPT !.plain = <<>>]
  <2>1. l \in LiteralStates
    BY <1>1 DEF LiteralStates
  <2>2. WriteDecoded(r) = LoopTop([r EXCEPT !.output = r.literal.plain, !.literal = l])
    <3>1. [r EXCEPT !.output = r.literal.plain, !.literal.plain = <<>>] =
            [r EXCEPT !.output = r.literal.plain, !.literal = l]
      BY <1>1 DEF Readers
    <3> QED
      BY <1>5, <3>1 DEF WriteDecoded
  <2> HIDE DEF l
  <2> QED
    BY <1>3, <2>1, <2>2
<1>6. CASE r.literal.prefixParsed /\ ~r.literal.indeterminate
  <2> DEFINE left == r.literal.contentRemaining - Len(r.literal.plain)
             l == [r.literal EXCEPT !.plain = <<>>, !.contentRemaining = left]
  <2>1. ASSUME ~(Len(r.literal.plain) > r.literal.contentRemaining)
        PROVE  l \in LiteralStates
    <3>1. left \in Nat
      BY <1>1, <2>1, LiteralFields
    <3> HIDE DEF left
    <3> QED
      BY <1>1, <3>1 DEF LiteralStates
  <2>2. \/ WriteDecoded(r) = Stop(r, "INVALID_DATA")
        \/ /\ ~(Len(r.literal.plain) > r.literal.contentRemaining)
           /\ WriteDecoded(r) = LoopTop([r EXCEPT !.output = r.literal.plain, !.literal = l])
    <3>1. [r EXCEPT !.output = r.literal.plain, !.literal.plain = <<>>,
                    !.literal.contentRemaining = @ - Len(r.literal.plain)] =
            [r EXCEPT !.output = r.literal.plain, !.literal = l]
      BY <1>1 DEF Readers, LiteralStates
    <3> QED
      BY <1>6, <3>1 DEF WriteDecoded
  <2> HIDE DEF l
  <2> QED
    BY <1>2, <1>3, <2>1, <2>2, StopSound
<1> QED
  BY <1>4, <1>5, <1>6

LEMMA DrainSound ==
    ASSUME NEW r, Sound(r)
    PROVE  Sound(drainDecoded(r))
<1>1. r.literal \in LiteralStates
  BY ReaderFields
<1>2. "INVALID_DATA" \in ReaderCodes
  BY DEF ReaderCodes
<1>3. CASE Dechunks(r.literal)
  BY <1>1, <1>3, DechunkType, LiteralSound DEF drainDecoded
<1>4. CASE ~Dechunks(r.literal) /\ ~r.literal.headerParsed /\ HeaderComplete(r.literal.plain)
  <2>1. drainDecoded(r) \in {Stop(r, "INVALID_DATA"), [r EXCEPT !.literal = ParseLiteralHeader(r.literal)]}
    BY <1>4 DEF drainDecoded
  <2> QED
    BY <1>1, <1>2, <1>4, <2>1, LiteralHeaderType, LiteralSound, StopSound
<1>5. CASE ~Dechunks(r.literal) /\ r.literal.headerParsed /\ ~r.literal.prefixParsed /\ r.literal.plain # <<>>
  <2>1. \/ drainDecoded(r) = Stop(r, "INVALID_DATA")
        \/ /\ r.literal.indeterminate \/ ~(r.literal.contentRemaining < 1)
           /\ drainDecoded(r) = [r EXCEPT !.literal = ParseLiteralPrefix(r.literal)]
    BY <1>5 DEF drainDecoded
  <2>2. ~(r.literal.contentRemaining < 1) => r.literal.contentRemaining >= 1
    BY <1>1, LiteralFields
  <2> QED
    BY <1>1, <1>2, <1>5, <2>1, <2>2, LiteralPrefixType, LiteralSound, StopSound
<1>6. CASE /\ ~Dechunks(r.literal)
           /\ ~(~r.literal.headerParsed /\ HeaderComplete(r.literal.plain))
           /\ ~(r.literal.headerParsed /\ ~r.literal.prefixParsed /\ r.literal.plain # <<>>)
  <2>1. drainDecoded(r) = WriteDecoded(r)
    BY <1>6 DEF drainDecoded
  <2> QED
    BY <2>1, WriteDecodedSound
<1> QED
  BY <1>3, <1>4, <1>5, <1>6

\* One step of decryptSeipBodyStreaming keeps the counts and the balance.
LEMMA ReaderStepSound ==
    ASSUME NEW s, Sound(s), s.phase # "done",
           s.phase \in {"take"} => s.innerTag \in {Literal, Compressed}
    PROVE  Sound(ReaderStep(s))
<1> DEFINE r == [s EXCEPT !.output = <<>>]
<1>1. Sound(r) /\ r.phase = s.phase /\ r.innerTag = s.innerTag
  <2>1. s \in Readers /\ <<>> \in Bytes
    BY DEF Sound, Bytes
  <2>2. r \in Readers
    BY <2>1 DEF Readers
  <2>3. /\ r.streamPos = s.streamPos /\ r.pending = s.pending
        /\ r.cipherRemaining = s.cipherRemaining /\ r.encLength = s.encLength
        /\ r.phase = s.phase /\ r.innerTag = s.innerTag
    BY <2>1 DEF Readers
  <2> HIDE DEF r
  <2> QED
    BY <2>2, <2>3, OtherFieldsSound
<1>2. "INVALID_DATA" \in ReaderCodes /\ "NO_ERROR" \in ReaderCodes /\ "header" \in Phases
  BY DEF ReaderCodes, Phases
<1>3. r.phase \in Phases /\ r.pending \in Bytes /\ Len(r.pending) \in Nat
  BY <1>1, ReaderFields
<1>4. CASE NothingToRead(r)
  <2>1. ReaderStep(s) = Stop(r, "INVALID_DATA")
    BY <1>4 DEF ReaderStep
  <2> HIDE DEF r
  <2> QED
    BY <1>1, <1>2, <2>1, StopSound
<1>5. CASE ~NothingToRead(r) /\ Len(r.pending) < Needed(r)
  <2>1. ReaderStep(s) = Fill(r)
    BY <1>5 DEF ReaderStep
  <2> HIDE DEF r
  <2> QED
    BY <1>1, <2>1, FillSound
<1>6. CASE ~NothingToRead(r) /\ ~(Len(r.pending) < Needed(r))
  <2>1. ReaderStep(s) = CASE r.phase = "random" -> [Consume(r, 1) EXCEPT !.phase = "header"]
                          [] r.phase = "header" -> ParseInnerHeader(r)
                          [] r.phase \in {"literal", "algorithm"} -> ParsePrefix(r)
                          [] r.phase = "chunk" -> ParseChunkHeader(r)
                          [] r.phase = "take" -> TakeBody(r)
                          [] r.phase = "drain" -> drainDecoded(r)
                          [] r.phase = "trailer" -> CheckTrailer(r)
    BY <1>6 DEF ReaderStep
  <2> HIDE DEF r
  <2>2. r.phase \in {"random", "literal", "algorithm", "trailer"} => Len(r.pending) >= 1
    <3>1. r.phase \in {"random", "literal", "algorithm", "trailer"} => Needed(r) = 1
      BY DEF Needed
    <3> QED
      BY <1>3, <1>6, <3>1
  <2>3. CASE r.phase = "random"
    <3>1. ReaderStep(s) = [Consume(r, 1) EXCEPT !.phase = "header"] /\ 1 \in 0 .. Len(r.pending)
      BY <1>3, <2>1, <2>2, <2>3
    <3>2. Sound(Consume(r, 1))
      BY <1>1, <3>1, ConsumeSound
    <3> QED
      BY <1>2, <3>1, <3>2, PhaseSound
  <2>4. CASE r.phase = "header"
    <3>1. Len(r.pending) >= Needed(r)
      <4>1. Needed(r) \in Nat
        BY <2>4 DEF Needed, HeaderSize
      <4> QED
        BY <1>3, <1>6, <4>1
    <3> QED
      BY <1>1, <2>1, <2>4, <3>1, InnerHeaderSound
  <2>5. CASE r.phase \in {"literal", "algorithm"}
    <3>1. ReaderStep(s) = ParsePrefix(r)
      BY <2>1, <2>5
    <3> QED
      BY <1>1, <2>2, <2>5, <3>1, PrefixSound
  <2>6. CASE r.phase = "chunk"
    <3>1. Needed(r) = IF r.pending = <<>> THEN 1 ELSE HeaderSize(r.pending[1])
      BY <2>6 DEF Needed
    <3>2. HeaderSize(r.pending[1]) \in {1, 2} /\ Len(<<>>) = 0
      BY DEF HeaderSize
    <3>3. Len(r.pending) >= 1 /\ Len(r.pending) >= HeaderSize(r.pending[1])
      BY <1>3, <1>6, <3>1, <3>2
    <3> QED
      BY <1>1, <2>1, <2>6, <3>3, ChunkHeaderSound
  <2>7. CASE r.phase = "take"
    BY <1>1, <2>1, <2>7, TakeBodySound
  <2>8. CASE r.phase = "drain"
    BY <1>1, <2>1, <2>8, DrainSound
  <2>9. CASE r.phase = "trailer"
    <3>1. ReaderStep(s) = CheckTrailer(r)
      BY <2>1, <2>9
    <3> QED
      BY <1>1, <1>2, <3>1, StopSound DEF CheckTrailer
  <2> QED
    BY <1>1, <1>3, <2>3, <2>4, <2>5, <2>6, <2>7, <2>8, <2>9 DEF Phases
<1> QED
  BY <1>4, <1>5, <1>6

\* Once its header is read, the inner packet is a literal or a compressed one.
Tagged(r) == {"phase", "innerTag"} \subseteq DOMAIN r /\ r.innerTag \in {Literal, Compressed}
Known(r) == r.phase \in {"random", "header", "done"} \/ Tagged(r)

LEMMA StopDone ==
    ASSUME NEW r, "phase" \in DOMAIN r, NEW code
    PROVE  Stop(r, code).phase = "done"
  BY DEF Stop

LEMMA LoopTopTagged ==
    ASSUME NEW r, Tagged(r)
    PROVE  Known(LoopTop(r))
<1>1. Known(EndBody(r))
  <2>1. CASE EndBody(r) = Stop(r, "INVALID_DATA")
    BY <2>1, StopDone DEF Known, Tagged
  <2>2. CASE EndBody(r) = [r EXCEPT !.phase = "trailer"]
    BY <2>2 DEF Known, Tagged
  <2> QED
    BY <2>1, <2>2 DEF EndBody
<1>2. LoopTop(r) \in {EndBody(r), [r EXCEPT !.phase = "take"], [r EXCEPT !.phase = "chunk"]}
  BY DEF LoopTop
<1>3. Tagged([r EXCEPT !.phase = "take"]) /\ Tagged([r EXCEPT !.phase = "chunk"])
  BY DEF Tagged
<1> QED
  BY <1>1, <1>2, <1>3 DEF Known

LEMMA SoundHasTag ==
    ASSUME NEW r, Sound(r)
    PROVE  {"phase", "innerTag"} \subseteq DOMAIN r
  BY DEF Sound, Readers

LEMMA FillKnown ==
    ASSUME NEW r, Sound(r), Known(r)
    PROVE  Known(Fill(r))
<1>1. {"phase", "innerTag"} \subseteq DOMAIN r
  BY SoundHasTag
<1>2. Known(Stop(r, "INVALID_DATA"))
  BY <1>1, StopDone DEF Known
<1>3. r \in Readers
  BY DEF Sound
<1>4. CASE r.cipherRemaining = 0
  BY <1>2, <1>4 DEF Fill
<1>5. CASE r.cipherRemaining > 0 /\ r.seipPartial /\ r.cipherChunkRemaining = 0
  <2>1. CASE r.cipherFinalChunk \/ ~Decodes(r.rest)
    BY <1>2, <1>5, <2>1, ReaderFields DEF Fill
  <2>2. CASE ~(r.cipherFinalChunk \/ ~Decodes(r.rest))
    <3>1. Fill(r) = [r EXCEPT !.cipherChunkRemaining = r.rest[1].n,
                              !.cipherFinalChunk = r.rest[1].kind # "partial",
                              !.rest = Drop(r.rest, HeaderSize(r.rest[1]))]
      BY <1>3, <1>5, <2>2, ReaderFields DEF Fill
    <3> QED
      BY <1>1, <3>1 DEF Known, Tagged
  <2> QED
    BY <2>1, <2>2
<1>6. CASE r.cipherRemaining # 0 /\ ~(r.cipherRemaining > 0 /\ r.seipPartial /\ r.cipherChunkRemaining = 0)
  <2> DEFINE take == Min(ReadCeiling(r) \cup {Len(r.rest)})
  <2>1. CASE take = 0
    BY <1>2, <1>6, <2>1 DEF Fill
  <2>2. CASE take # 0
    <3>1. Fill(r) = [r EXCEPT !.pending = r.pending \o SubSeq(r.rest, 1, take), !.rest = Drop(r.rest, take),
                              !.cipherRemaining = r.cipherRemaining - take,
                              !.cipherChunkRemaining = IF r.seipPartial THEN r.cipherChunkRemaining - take
                                                       ELSE r.cipherChunkRemaining]
      BY <1>3, <1>6, <2>2 DEF Fill
    <3> HIDE DEF take
    <3> QED
      BY <1>1, <3>1 DEF Known, Tagged
  <2> QED
    BY <2>1, <2>2
<1> QED
  BY <1>4, <1>5, <1>6, ReaderFields

LEMMA InnerHeaderKnown ==
    ASSUME NEW r, Sound(r)
    PROVE  Known(ParseInnerHeader(r))
<1>1. {"phase", "innerTag"} \subseteq DOMAIN r
  BY SoundHasTag
<1>2. Known(Stop(r, "INVALID_DATA")) /\ Known(Stop(r, "NOT_IMPLEMENTED"))
  BY <1>1, StopDone DEF Known
<1> DEFINE indeterminate == r.pending[1].kind = "oldTag"
           size == IF indeterminate THEN 1 ELSE 1 + HeaderSize(r.pending[2])
           room == r.encLength - 1 - (r.streamPos + size)
           length == IF indeterminate THEN room ELSE r.pending[2].n
           partial == ~indeterminate /\ r.pending[2].kind = "partial"
           tag == r.pending[1].n
           read == [Consume(r, size) EXCEPT !.innerTag = tag, !.innerPartial = partial, !.remaining = length]
<1>3. {"phase", "innerTag"} \subseteq DOMAIN read /\ read.innerTag = tag
  BY <1>1 DEF Consume
<1>4. tag \in {Literal, Compressed} =>
          Known([read EXCEPT !.phase = "literal"]) /\ Known([read EXCEPT !.phase = "algorithm"])
  <2> HIDE DEF read, tag
  <2> QED
    BY <1>3 DEF Known, Tagged
<1>5. \/ ParseInnerHeader(r) \in {Stop(r, "NOT_IMPLEMENTED"), Stop(r, "INVALID_DATA")}
      \/ /\ tag \in {Literal, Compressed}
         /\ ParseInnerHeader(r) \in {[read EXCEPT !.phase = "literal"], [read EXCEPT !.phase = "algorithm"]}
  <2>1. CASE r.pending[1].kind \notin {"tag", "oldTag"} \/ (indeterminate /\ room < 0)
    BY <2>1 DEF ParseInnerHeader
  <2>2. CASE ~(r.pending[1].kind \notin {"tag", "oldTag"} \/ (indeterminate /\ room < 0))
    BY <1>3, <2>2 DEF ParseInnerHeader
  <2> QED
    BY <2>1, <2>2
<1> HIDE DEF read, tag
<1> QED
  BY <1>2, <1>4, <1>5

LEMMA PrefixKnown ==
    ASSUME NEW r, Sound(r), Tagged(r)
    PROVE  Known(ParsePrefix(r))
<1> DEFINE read == [Consume(r, 1) EXCEPT !.algorithm = r.pending[1].n, !.remaining = @ - 1]
<1>1. Known(Stop(r, "INVALID_DATA")) /\ Known(Stop(r, "NOT_IMPLEMENTED"))
  BY SoundHasTag, StopDone DEF Known
<1>2. Tagged(read)
  BY DEF Tagged, Consume
<1>3. ParsePrefix(r) \in {Stop(r, "INVALID_DATA"), Stop(r, "NOT_IMPLEMENTED"), LoopTop(read)}
  BY DEF ParsePrefix
<1> HIDE DEF read
<1> QED
  BY <1>1, <1>2, <1>3, LoopTopTagged

LEMMA TakeBodyKnown ==
    ASSUME NEW r, Sound(r), Tagged(r)
    PROVE  Known(TakeBody(r))
<1> DEFINE take == Min({Len(r.pending), r.remaining, ReadSize})
           run == SubSeq(r.pending, 1, take)
           inflated == IF r.algorithm = 0 THEN run ELSE Inflated(run)
           next == [Consume(r, take) EXCEPT !.remaining = @ - take]
<1> HIDE DEF take
<1>1. Tagged(next)
  BY DEF Tagged, Consume
<1> HIDE DEF next, run, inflated
<1>2. CASE r.innerTag = Literal
  <2>1. TakeBody(r) = LoopTop([next EXCEPT !.output = run])
    BY <1>2 DEF TakeBody, next, run, take, Literal, Compressed
  <2>2. Tagged([next EXCEPT !.output = run])
    BY <1>1 DEF Tagged
  <2> QED
    BY <2>1, <2>2, LoopTopTagged
<1>3. CASE r.innerTag = Compressed /\ r.literal.partial
  <2>1. TakeBody(r) = [next EXCEPT !.phase = "drain", !.literal.raw = @ \o inflated]
    BY <1>3 DEF TakeBody, next, run, take, inflated, Literal, Compressed
  <2>2. Tagged([next EXCEPT !.phase = "drain", !.literal.raw = @ \o inflated])
    BY <1>1 DEF Tagged
  <2> QED
    BY <2>1, <2>2 DEF Known
<1>4. CASE r.innerTag = Compressed /\ ~r.literal.partial
  <2>1. TakeBody(r) = [next EXCEPT !.phase = "drain", !.literal.plain = @ \o inflated]
    BY <1>4 DEF TakeBody, next, run, take, inflated, Literal, Compressed
  <2>2. Tagged([next EXCEPT !.phase = "drain", !.literal.plain = @ \o inflated])
    BY <1>1 DEF Tagged
  <2> QED
    BY <2>1, <2>2 DEF Known
<1> QED
  BY <1>2, <1>3, <1>4 DEF Tagged

LEMMA DrainKnown ==
    ASSUME NEW r, Sound(r), Tagged(r)
    PROVE  Known(drainDecoded(r))
<1>1. Known(Stop(r, "INVALID_DATA"))
  BY SoundHasTag, StopDone DEF Known
<1>2. ASSUME NEW l
      PROVE  Known([r EXCEPT !.literal = l])
  BY DEF Known, Tagged
<1>3. Known(WriteDecoded(r))
  <2>1. Tagged([r EXCEPT !.output = r.literal.plain, !.literal.plain = <<>>])
    BY DEF Tagged
  <2>2. Tagged([r EXCEPT !.output = r.literal.plain, !.literal.plain = <<>>,
                         !.literal.contentRemaining = @ - Len(r.literal.plain)])
    BY DEF Tagged
  <2>3. CASE ~r.literal.prefixParsed
    BY <2>3, LoopTopTagged DEF WriteDecoded
  <2>4. CASE r.literal.prefixParsed /\ r.literal.indeterminate
    BY <2>1, <2>4, LoopTopTagged DEF WriteDecoded
  <2>5. CASE r.literal.prefixParsed /\ ~r.literal.indeterminate
    BY <1>1, <2>2, <2>5, LoopTopTagged DEF WriteDecoded
  <2> QED
    BY <2>3, <2>4, <2>5
<1>4. drainDecoded(r) \in {Stop(r, "INVALID_DATA"), WriteDecoded(r),
                           [r EXCEPT !.literal = Dechunk(r.literal)],
                           [r EXCEPT !.literal = ParseLiteralHeader(r.literal)],
                           [r EXCEPT !.literal = ParseLiteralPrefix(r.literal)]}
  BY DEF drainDecoded
<1> QED
  BY <1>1, <1>2, <1>3, <1>4

\* A step that goes past the inner packet's header has read the tag of a packet it knows.
LEMMA ReaderStepKnown ==
    ASSUME NEW s, Sound(s), s.phase # "done", Known(s)
    PROVE  Known(ReaderStep(s))
<1> DEFINE r == [s EXCEPT !.output = <<>>]
<1>1. Sound(r) /\ r.phase = s.phase /\ r.innerTag = s.innerTag
  <2>1. s \in Readers /\ <<>> \in Bytes
    BY DEF Sound, Bytes
  <2>2. r \in Readers
    BY <2>1 DEF Readers
  <2>3. /\ r.streamPos = s.streamPos /\ r.pending = s.pending
        /\ r.cipherRemaining = s.cipherRemaining /\ r.encLength = s.encLength
        /\ r.phase = s.phase /\ r.innerTag = s.innerTag
    BY <2>1 DEF Readers
  <2> HIDE DEF r
  <2> QED
    BY <2>2, <2>3, OtherFieldsSound
<1>2. Known(r) /\ {"phase", "innerTag"} \subseteq DOMAIN r
  <2> HIDE DEF r
  <2> QED
    BY <1>1, SoundHasTag DEF Known, Tagged
<1>3. r.phase \in Phases
  BY <1>1, ReaderFields
<1>4. ReaderStep(s) \in {Stop(r, "INVALID_DATA"), Fill(r)}
        \/ ReaderStep(s) = CASE r.phase = "random" -> [Consume(r, 1) EXCEPT !.phase = "header"]
                          [] r.phase = "header" -> ParseInnerHeader(r)
                          [] r.phase \in {"literal", "algorithm"} -> ParsePrefix(r)
                          [] r.phase = "chunk" -> ParseChunkHeader(r)
                          [] r.phase = "take" -> TakeBody(r)
                          [] r.phase = "drain" -> drainDecoded(r)
                          [] r.phase = "trailer" -> CheckTrailer(r)
  BY DEF ReaderStep
<1> HIDE DEF r
<1>5. CASE ReaderStep(s) \in {Stop(r, "INVALID_DATA"), Fill(r)}
  BY <1>1, <1>2, <1>5, FillKnown, StopDone DEF Known
<1>6. CASE r.phase = "random" /\ ReaderStep(s) = [Consume(r, 1) EXCEPT !.phase = "header"]
  BY <1>2, <1>6 DEF Known, Consume
<1>7. CASE r.phase = "header" /\ ReaderStep(s) = ParseInnerHeader(r)
  BY <1>1, <1>7, InnerHeaderKnown
<1>8. CASE r.phase \in {"literal", "algorithm"} /\ ReaderStep(s) = ParsePrefix(r)
  BY <1>1, <1>2, <1>8, PrefixKnown DEF Known
<1>9. CASE r.phase = "chunk" /\ ReaderStep(s) = ParseChunkHeader(r)
  <2>1. Tagged(r)
    BY <1>2, <1>9 DEF Known
  <2>2. Tagged(ParseChunkHeader(r))
    BY <2>1 DEF Tagged, ParseChunkHeader, Consume
  <2> QED
    BY <1>9, <2>2 DEF Known
<1>10. CASE r.phase = "take" /\ ReaderStep(s) = TakeBody(r)
  BY <1>1, <1>2, <1>10, TakeBodyKnown DEF Known
<1>11. CASE r.phase = "drain" /\ ReaderStep(s) = drainDecoded(r)
  BY <1>1, <1>2, <1>11, DrainKnown DEF Known
<1>12. CASE r.phase = "trailer" /\ ReaderStep(s) = CheckTrailer(r)
  BY <1>2, <1>12, StopDone DEF Known, CheckTrailer
<1> QED
  BY <1>1, <1>3, <1>4, <1>5, <1>6, <1>7, <1>8, <1>9, <1>10, <1>11, <1>12 DEF Phases

-----------------------------------------------------------------------------
(***************************************************************************)
(* parseEncryptedFileHeader. The sum over the chunks of a partial body is  *)
(* a recursive function: it exists because every chunk header lies behind  *)
(* the one before, and by the same token it is a count or -1.              *)
(***************************************************************************)

Counts == Nat \cup {-1}

\* The sum from one chunk header on, given the sums from later ones on.
ChunkTotal(file, total, at) ==
    LET header == Drop(file, at)
        next == at + HeaderSize(header[1]) + header[1].n
    IN  IF ~Decodes(header) \/ next > Len(file) THEN -1
        ELSE IF header[1].kind # "partial" THEN header[1].n
        ELSE IF total[next] = -1 THEN -1 ELSE header[1].n + total[next]

LEMMA ChunkTotalStep ==
    ASSUME NEW file \in Bytes, NEW at \in 0 .. Len(file), NEW f, NEW g,
           \A n \in at + 1 .. Len(file) : f[n] \in Counts /\ f[n] = g[n]
    PROVE  ChunkTotal(file, f, at) \in Counts /\ ChunkTotal(file, f, at) = ChunkTotal(file, g, at)
<1> DEFINE header == Drop(file, at)
           next == at + HeaderSize(header[1]) + header[1].n
<1>1. header \in Bytes /\ Len(file) \in Nat /\ Len(header) \in Nat
  <2>1. header \in Bytes
    BY DropFacts
  <2> HIDE DEF header
  <2> QED
    BY <2>1 DEF Bytes
<1>2. CASE ~Decodes(header)
  BY <1>2 DEF ChunkTotal, Counts
<1>3. CASE Decodes(header) /\ next > Len(file)
  BY <1>3 DEF ChunkTotal, Counts
<1>4. CASE Decodes(header) /\ ~(next > Len(file))
  <2>1. 1 \in 1 .. Len(header)
    BY <1>1, <1>4 DEF Decodes, Bytes
  <2>2. header[1].n \in Nat /\ HeaderSize(header[1]) \in {1, 2}
    BY <1>1, <2>1, OctetAt
  <2>3. next \in at + 1 .. Len(file)
    BY <1>1, <1>4, <2>2
  <2> HIDE DEF next
  <2>4. f[next] \in Counts /\ f[next] = g[next]
    BY <2>3
  <2>5. \A total : ChunkTotal(file, total, at) =
                IF header[1].kind # "partial" THEN header[1].n
                ELSE IF total[next] = -1 THEN -1 ELSE header[1].n + total[next]
    BY <1>4 DEF ChunkTotal, next
  <2> HIDE DEF header
  <2> QED
    BY <2>2, <2>4, <2>5 DEF Counts
<1> QED
  BY <1>2, <1>3, <1>4

LEMMA ChunkTotals ==
    ASSUME NEW file \in Bytes
    PROVE  \E f : f = [at \in 0 .. Len(file) |-> ChunkTotal(file, f, at)]
<1> DEFINE L == Len(file)
           Sums(k, f) == /\ f = [at \in k .. L |-> f[at]]
                         /\ \A at \in k .. L : f[at] \in Counts /\ f[at] = ChunkTotal(file, f, at)
           Bad == {k \in 0 .. L : ~\E f : Sums(k, f)}
<1>1. L \in Nat
  BY DEF Bytes
<1>2. Bad = {}
  <2> SUFFICES ASSUME Bad # {} PROVE FALSE
    OBVIOUS
  <2>1. PICK k \in Bad : \A m \in Bad : m <= k
    <3>1. Bad \in SUBSET Nat /\ \A m \in Bad : m <= L
      BY <1>1
    <3> HIDE DEF Bad
    <3> QED
      BY <1>1, <3>1, GreatestNatural
  <2>2. k \in 0 .. L
    BY <2>1
  <2>3. PICK f : \A at \in k + 1 .. L : f[at] \in Counts /\ f[at] = ChunkTotal(file, f, at)
    <3>1. CASE k = L
      BY <1>1, <3>1
    <3>2. CASE k # L
      <4>1. k + 1 \in 0 .. L /\ k + 1 \notin Bad
        BY <1>1, <2>1, <2>2, <3>2
      <4> QED
        BY <4>1
    <3> QED
      BY <3>1, <3>2
  <2> DEFINE g == [at \in k .. L |-> IF at = k THEN ChunkTotal(file, f, k) ELSE f[at]]
  <2>4. \A at \in k + 1 .. L : g[at] = f[at] /\ at # k
    BY <1>1, <2>2
  <2>5. g[k] = ChunkTotal(file, f, k)
    BY <1>1, <2>2
  <2>6. g = [at \in k .. L |-> g[at]]
    OBVIOUS
  <2> HIDE DEF g
  <2>7. ASSUME NEW at \in k .. L
        PROVE  g[at] \in Counts /\ g[at] = ChunkTotal(file, g, at)
    <3>1. at \in 0 .. Len(file) /\ \A n \in at + 1 .. Len(file) : n \in k + 1 .. L
      BY <1>1, <2>2
    <3>2. \A n \in at + 1 .. Len(file) : f[n] \in Counts /\ f[n] = g[n]
      BY <2>3, <2>4, <3>1
    <3>3. ChunkTotal(file, f, at) \in Counts /\ ChunkTotal(file, f, at) = ChunkTotal(file, g, at)
      BY <3>1, <3>2, ChunkTotalStep
    <3>4. g[at] = ChunkTotal(file, f, at)
      <4>1. at = k \/ at \in k + 1 .. L
        BY <1>1, <2>2
      <4> QED
        BY <2>3, <2>4, <2>5, <4>1
    <3> QED
      BY <3>3, <3>4
  <2>8. Sums(k, g)
    BY <2>6, <2>7
  <2> QED
    BY <2>1, <2>8
<1>3. PICK f : Sums(0, f)
  BY <1>1, <1>2
<1> QED
  BY <1>3

\* scanPartialBodyTotalLength finds a count, or says that there is none.
LEMMA ChunksAfterType ==
    ASSUME NEW file \in Bytes, NEW offset \in Nat
    PROVE  ChunksAfter(file, offset) \in Counts
<1> DEFINE L == Len(file)
           total == CHOOSE f : f = [at \in 0 .. L |-> ChunkTotal(file, f, at)]
<1>1. L \in Nat
  BY DEF Bytes
<1>2. ChunksAfter(file, offset) = IF offset > L THEN -1 ELSE total[offset]
  BY DEF ChunksAfter, ChunkTotal
<1>3. total = [at \in 0 .. L |-> ChunkTotal(file, total, at)]
  BY ChunkTotals
<1> HIDE DEF total
<1> DEFINE Bad == {at \in 0 .. L : total[at] \notin Counts}
<1>4. Bad = {}
  <2> SUFFICES ASSUME Bad # {} PROVE FALSE
    OBVIOUS
  <2>1. PICK k \in Bad : \A m \in Bad : m <= k
    <3>1. Bad \in SUBSET Nat /\ \A m \in Bad : m <= L
      BY <1>1
    <3> HIDE DEF Bad
    <3> QED
      BY <1>1, <3>1, GreatestNatural
  <2>2. \A n \in k + 1 .. L : total[n] \in Counts
    BY <1>1, <2>1
  <2>3. ChunkTotal(file, total, k) \in Counts
    BY <2>1, <2>2, ChunkTotalStep
  <2>4. total[k] = ChunkTotal(file, total, k)
    BY <1>3, <2>1
  <2> QED
    BY <2>1, <2>3, <2>4
<1> QED
  BY <1>1, <1>2, <1>4 DEF Counts

\* A reader in the middle of its work.
Running(r) == Sound(r) /\ r.phase # "done" /\ Known(r)

LEMMA AcceptedRuns ==
    ASSUME NEW rest \in Bytes, NEW pending \in Bytes, NEW encLength \in Nat,
           NEW partial \in BOOLEAN, NEW chunk \in Nat, Len(pending) <= encLength
    PROVE  Running(Accepted(rest, pending, encLength, partial, chunk))
<1> DEFINE r == Accepted(rest, pending, encLength, partial, chunk)
           left == encLength - Len(pending)
<1>1. Len(pending) \in Nat /\ left \in Nat /\ left + Len(pending) = encLength /\ <<>> \in Bytes
  BY DEF Bytes
<1>2. NoLiteral \in LiteralStates
  BY <1>1 DEF NoLiteral, LiteralStates
<1>3. "random" \in Phases /\ "NO_ERROR" \in ReaderCodes
  BY DEF Phases, ReaderCodes
<1>4. /\ r.cipherRemaining = left /\ r.streamPos = 0 /\ r.pending = pending
      /\ r.encLength = encLength /\ r.phase = "random"
  BY DEF Accepted
<1>5. r \in Readers
  <2> HIDE DEF left
  <2> QED
    BY <1>1, <1>2, <1>3 DEF Accepted, Readers, left
<1> HIDE DEF r, left
<1>6. Sound(r)
  BY <1>1, <1>4, <1>5 DEF Sound, Balanced
<1> QED
  BY <1>4, <1>6 DEF Running, Known, r

\* parseEncryptedFileHeader refuses the file or starts a sound reader.
LEMMA HeaderStarts ==
    ASSUME NEW file \in Bytes, parseEncryptedFileHeader(file).ok
    PROVE  Running(parseEncryptedFileHeader(file))
<1> DEFINE head == Min({HeadRead, Len(file)})
           buf == SubSeq(file, 1, head)
           others == {i \in DOMAIN buf : buf[i].kind # "pkesk"}
           pkesks == IF others = {} THEN Len(buf) ELSE Min(others) - 1
           seip == Drop(buf, pkesks)
           size == 1 + HeaderSize(seip[2])
           first == seip[2].n
           version == pkesks + size + 1
           total == ChunksAfter(file, version - 1 + first)
           encLength == (first - 1) % SizeModulus
           left == Drop(buf, version)
           shown == Min({Len(left), encLength})
           pending == SubSeq(left, 1, shown)
           refused == \/ \A i \in 1..pkesks : buf[i].n # OwnSubkey
                      \/ Len(seip) < 2
                      \/ Len(seip) <= size
                      \/ seip[1] # An("tag", Seip)
                      \/ seip[size + 1].kind # "version"
           chunked == Accepted(Drop(file, version), <<>>, first + total - 1, TRUE, first - 1)
           whole == Accepted(Drop(file, Len(buf)), pending, encLength, FALSE, 0)
<1>1. parseEncryptedFileHeader(file) =
        IF refused THEN Refused
        ELSE IF seip[2].kind = "partial"
        THEN IF first < 1 \/ total = -1 THEN Refused ELSE chunked
        ELSE whole
  BY DEF parseEncryptedFileHeader
<1>2. Refused.ok = FALSE
  BY DEF Refused
<1>3. head \in 0 .. Len(file) /\ Len(file) \in Nat
  <2>1. {HeadRead, Len(file)} \in SUBSET Nat /\ Len(file) \in Nat
    BY ReaderAssumption DEF Bytes
  <2> QED
    BY <2>1, MinOfCounts
<1> HIDE DEF head
<1>4. buf \in Bytes /\ Len(buf) = head /\ Len(buf) \in Nat /\ DOMAIN buf = 1 .. Len(buf)
  BY <1>3, TakeFacts DEF Bytes
<1> HIDE DEF buf
<1>5. pkesks \in 0 .. Len(buf)
  <2>1. others \in SUBSET Nat /\ \A n \in others : n \in 1 .. Len(buf)
    BY <1>4
  <2> HIDE DEF others
  <2>2. others # {} => Min(others) \in others
    BY <2>1, MinOfCounts
  <2>3. CASE others = {}
    <3>1. pkesks = Len(buf)
      BY <2>3
    <3> QED
      BY <1>4, <3>1
  <2>4. CASE others # {}
    <3>1. pkesks = Min(others) - 1
      BY <2>4
    <3>2. Min(others) \in 1 .. Len(buf)
      BY <2>1, <2>2, <2>4
    <3> QED
      BY <1>4, <3>1, <3>2
  <2> QED
    BY <2>3, <2>4
<1> HIDE DEF pkesks
<1>6. seip \in Bytes /\ Len(seip) = Len(buf) - pkesks /\ Len(seip) \in Nat
  <2>1. pkesks \in Nat /\ pkesks <= Len(buf)
    BY <1>4, <1>5
  <2>2. seip \in Bytes /\ Len(seip) = Len(buf) - pkesks
    BY <1>4, <2>1, DropFacts
  <2> QED
    BY <1>4, <2>1, <2>2
<1> HIDE DEF seip
<1>7. ~refused
  BY <1>1, <1>2
<1>8. first \in Nat /\ size \in {2, 3}
  <2>1. 2 \in 1 .. Len(seip)
    BY <1>6, <1>7
  <2> QED
    BY <1>6, <2>1, OctetAt
<1> HIDE DEF size
<1>9. version \in Nat /\ version <= Len(buf)
  BY <1>4, <1>5, <1>6, <1>7, <1>8
<1> HIDE DEF first, version
<1>10. CASE seip[2].kind = "partial"
  <2>1. ~(first < 1 \/ total = -1) /\ parseEncryptedFileHeader(file) = chunked
    BY <1>1, <1>2, <1>7, <1>10
  <2>2. total \in Counts
    <3>1. version - 1 + first \in Nat
      BY <1>5, <1>8, <1>9 DEF version
    <3> QED
      BY <3>1, ChunksAfterType
  <2> HIDE DEF total
  <2>3. first + total - 1 \in Nat /\ first - 1 \in Nat
    BY <1>8, <2>1, <2>2 DEF Counts
  <2>4. Drop(file, version) \in Bytes /\ <<>> \in Bytes /\ Len(<<>>) = 0
    BY <1>9, DropFacts DEF Bytes
  <2>5. 0 <= first + total - 1
    BY <2>3
  <2> QED
    BY <2>1, <2>3, <2>4, <2>5, AcceptedRuns
<1>11. CASE seip[2].kind # "partial"
  <2>1. parseEncryptedFileHeader(file) = whole
    BY <1>1, <1>7, <1>11
  <2>2. encLength \in Nat
    BY <1>8, ReaderAssumption
  <2>3. left \in Bytes /\ Len(left) \in Nat
    BY <1>4, <1>9, DropFacts DEF Bytes
  <2> HIDE DEF left, encLength
  <2>4. shown \in 0 .. Len(left) /\ shown <= encLength
    <3> DEFINE counts == {Len(left), encLength}
    <3>1. counts \in SUBSET Nat /\ counts # {} /\ Len(left) \in counts /\ encLength \in counts
      BY <2>2, <2>3
    <3> HIDE DEF counts
    <3>2. Min(counts) \in counts /\ Min(counts) <= Len(left) /\ Min(counts) <= encLength
      BY <3>1, MinOfCounts
    <3> QED
      BY <2>2, <2>3, <3>1, <3>2 DEF counts
  <2> HIDE DEF shown
  <2>5. pending \in Bytes /\ Len(pending) = shown
    BY <2>3, <2>4, TakeFacts
  <2>6. Drop(file, Len(buf)) \in Bytes
    BY <1>4, DropFacts
  <2> HIDE DEF pending
  <2> QED
    BY <2>1, <2>2, <2>4, <2>5, <2>6, AcceptedRuns
<1> QED
  BY <1>10, <1>11
Pieces == [octets : Bytes, reports : BOOLEAN]

\* From an offset on, the pieces are the rest of the target.
CutsAt(pieces, target, from, b) ==
    /\ b[0] = from
    /\ b[Len(pieces)] = Len(target)
    /\ \A i \in 1 .. Len(pieces) :
          b[i - 1] <= b[i] /\ b[i] <= Len(target) /\ pieces[i].octets = SubSeq(target, b[i - 1] + 1, b[i])

Cuts(pieces, target, from) ==
    \E b \in [0 .. Len(pieces) -> Nat] : CutsAt(pieces, target, from, b)

CompressedLiteral(document) == Deflated(Packet(Literal, LiteralBody(document), Definite))

-----------------------------------------------------------------------------
(* What is written is octets. *)

LEMMA OneOctet ==
    ASSUME NEW kind \in Kinds, NEW n \in Nat
    PROVE  <<An(kind, n)>> \in Bytes
<1>1. An(kind, n) \in Octet
  BY AnOctet
<1> HIDE DEF Octet
<1> QED
  BY <1>1 DEF Bytes

LEMMA LengthBytes ==
    ASSUME NEW length \in Nat
    PROVE  appendNewFormatLength(length) \in Bytes
<1>1. length % LengthModulus \in Nat
  BY ReaderAssumption
<1>2. {"short", "long", "more"} \subseteq Kinds
  BY DEF Kinds
<1>3. An("short", length) \in Octet /\ An("long", length % LengthModulus) \in Octet /\ An("more", 0) \in Octet
  BY <1>1, <1>2, AnOctet
<1>4. <<An("short", length)>> \in Bytes /\ <<An("long", length % LengthModulus), An("more", 0)>> \in Bytes
  <2>1. \A a, b \in Octet : <<a>> \in Bytes /\ <<a, b>> \in Bytes
    BY DEF Bytes
  <2> QED
    BY <1>3, <2>1
<1> QED
  BY <1>4 DEF appendNewFormatLength

LEMMA PacketBytes ==
    ASSUME NEW tag \in Nat, NEW body \in Bytes
    PROVE  /\ <<An("tag", tag)>> \o appendNewFormatLength(Len(body)) \in Bytes
           /\ Packet(tag, body, Definite) = (<<An("tag", tag)>> \o appendNewFormatLength(Len(body))) \o body
           /\ Packet(tag, body, Definite) \in Bytes
<1>1. "tag" \in Kinds /\ Len(body) \in Nat
  BY DEF Kinds, Bytes
<1>2. <<An("tag", tag)>> \in Bytes /\ appendNewFormatLength(Len(body)) \in Bytes
  BY <1>1, OneOctet, LengthBytes
<1>3. <<An("tag", tag)>> \o appendNewFormatLength(Len(body)) \in Bytes
  BY <1>2, ConcatBytes
<1>4. Packet(tag, body, Definite) = (<<An("tag", tag)>> \o appendNewFormatLength(Len(body))) \o body
  BY DEF Packet, Definite
<1> QED
  BY <1>3, <1>4, ConcatBytes

LEMMA DeflatedBytes ==
    ASSUME NEW octets \in Bytes
    PROVE  Deflated(octets) \in Bytes /\ Len(Deflated(octets)) = Len(octets)
<1>1. ASSUME NEW n \in DOMAIN octets
      PROVE  [octets[n] EXCEPT !.deflated = TRUE] \in Octet
  <2>1. octets[n] \in Octet
    BY DEF Bytes
  <2> QED
    BY <2>1 DEF Octet
<1>2. Deflated(octets) \in [1 .. Len(octets) -> Octet] /\ Len(octets) \in Nat
  BY <1>1 DEF Deflated, Bytes
<1> QED
  BY <1>2 DEF Bytes

LEMMA DocumentBytes ==
    ASSUME NEW n \in Nat
    PROVE  Document(n) \in Bytes
<1>1. "data" \in Kinds
  BY DEF Kinds
<1>2. \A i \in 1 .. n : An("data", i) \in Octet
  BY <1>1, AnOctet
<1>3. Document(n) \in [1 .. n -> Octet]
  BY <1>2 DEF Document
<1> QED
  BY <1>3 DEF Bytes

LEMMA ConcatAssoc ==
    ASSUME NEW a \in Bytes, NEW b \in Bytes, NEW c \in Bytes
    PROVE  (a \o b) \o c = a \o (b \o c)
  BY ConcatAssociative DEF Bytes

-----------------------------------------------------------------------------
(* Pieces that are cut from a run of octets, and meet. *)

LEMMA SubRun ==
    ASSUME NEW octets \in Bytes, NEW from \in Nat, NEW to \in Nat, from <= to, to <= Len(octets)
    PROVE  /\ SubSeq(octets, from + 1, to) \in Bytes
           /\ Len(SubSeq(octets, from + 1, to)) = to - from
           /\ \A i \in 1 .. to - from : SubSeq(octets, from + 1, to)[i] = octets[from + i]
  BY DEF Bytes

\* Runs that are equally long and agree everywhere are equal.
LEMMA EqualRuns ==
    ASSUME NEW a \in Bytes, NEW b \in Bytes, Len(a) = Len(b), \A i \in 1 .. Len(a) : a[i] = b[i]
    PROVE  a = b
  BY SeqEqual DEF Bytes

LEMMA ConcatAt ==
    ASSUME NEW a \in Bytes, NEW b \in Bytes
    PROVE  /\ \A i \in 1 .. Len(a) : (a \o b)[i] = a[i]
           /\ \A i \in 1 .. Len(b) : (a \o b)[Len(a) + i] = b[i]
  BY DEF Bytes

LEMMA SubRunLeft ==
    ASSUME NEW a \in Bytes, NEW b \in Bytes, NEW from \in Nat, NEW to \in Nat, from <= to, to <= Len(a)
    PROVE  SubSeq(a \o b, from + 1, to) = SubSeq(a, from + 1, to)
<1>1. a \o b \in Bytes /\ Len(a \o b) = Len(a) + Len(b) /\ Len(a) \in Nat /\ Len(b) \in Nat
  BY ConcatBytes DEF Bytes
<1> DEFINE whole == a \o b
           s == SubSeq(whole, from + 1, to)
           t == SubSeq(a, from + 1, to)
<1>2. (\A i \in 1 .. Len(a) : whole[i] = a[i]) /\ whole \in Bytes /\ to <= Len(whole)
  BY <1>1, ConcatAt
<1> HIDE DEF whole
<1>3. s \in Bytes /\ Len(s) = to - from /\ \A i \in 1 .. to - from : s[i] = whole[from + i]
  BY <1>2, SubRun
<1>4. t \in Bytes /\ Len(t) = to - from /\ \A i \in 1 .. to - from : t[i] = a[from + i]
  BY SubRun
<1> HIDE DEF s, t
<1>5. \A i \in 1 .. to - from : from + i \in 1 .. Len(a)
  BY <1>1
<1>6. \A i \in 1 .. Len(s) : s[i] = t[i]
  BY <1>2, <1>3, <1>4, <1>5
<1>7. s = t
  BY <1>3, <1>4, <1>6, EqualRuns
<1> QED
  BY <1>7 DEF s, t, whole

LEMMA SubRunRight ==
    ASSUME NEW a \in Bytes, NEW b \in Bytes, NEW from \in Nat, NEW to \in Nat, from <= to, to <= Len(b)
    PROVE  SubSeq(a \o b, Len(a) + from + 1, Len(a) + to) = SubSeq(b, from + 1, to)
<1>1. a \o b \in Bytes /\ Len(a \o b) = Len(a) + Len(b) /\ Len(a) \in Nat /\ Len(b) \in Nat
  BY ConcatBytes DEF Bytes
<1> DEFINE whole == a \o b
           low == Len(a) + from
           high == Len(a) + to
           s == SubSeq(whole, low + 1, high)
           t == SubSeq(b, from + 1, to)
<1>2. \A i \in 1 .. Len(b) : whole[Len(a) + i] = b[i]
  BY ConcatAt
<1>3. low \in Nat /\ high \in Nat /\ low <= high /\ high <= Len(whole) /\ high - low = to - from
  BY <1>1
<1>4. whole \in Bytes
  BY <1>1
<1> HIDE DEF whole
<1>5. s \in Bytes /\ Len(s) = to - from /\ \A i \in 1 .. to - from : s[i] = whole[low + i]
  <2> HIDE DEF low, high
  <2> QED
    BY <1>3, <1>4, SubRun
<1>6. t \in Bytes /\ Len(t) = to - from /\ \A i \in 1 .. to - from : t[i] = b[from + i]
  BY SubRun
<1> HIDE DEF s, t
<1>7. \A i \in 1 .. to - from : from + i \in 1 .. Len(b) /\ low + i = Len(a) + (from + i)
  BY <1>1
<1>8. \A i \in 1 .. Len(s) : s[i] = t[i]
  BY <1>2, <1>5, <1>6, <1>7
<1>9. s = t
  BY <1>5, <1>6, <1>8, EqualRuns
<1> QED
  BY <1>9 DEF s, t, whole

LEMMA WholeRun ==
    ASSUME NEW a \in Bytes
    PROVE  SubSeq(a, 1, Len(a)) = a
<1>1. SubSeq(a, 1, Len(a)) \in Bytes /\ Len(SubSeq(a, 1, Len(a))) = Len(a) /\ Len(a) \in Nat
  BY DEF Bytes
<1>2. \A i \in 1 .. Len(a) : SubSeq(a, 1, Len(a))[i] = a[i]
  BY DEF Bytes
<1> QED
  BY <1>1, <1>2, EqualRuns

\* Two runs that meet are one.
LEMMA MeetingRuns ==
    ASSUME NEW a \in Bytes, NEW from \in Nat, NEW to \in Nat, from <= to, to <= Len(a)
    PROVE  SubSeq(a, 1, from) \o SubSeq(a, from + 1, to) = SubSeq(a, 1, to)
<1> DEFINE s == SubSeq(a, 1, from)
           t == SubSeq(a, from + 1, to)
           u == SubSeq(a, 1, to)
<1>1. Len(a) \in Nat /\ 0 \in Nat /\ 0 <= from /\ 0 <= to /\ from <= Len(a)
  BY DEF Bytes
<1>2. s \in Bytes /\ Len(s) = from /\ \A i \in 1 .. from : s[i] = a[i]
  BY <1>1 DEF Bytes
<1>3. t \in Bytes /\ Len(t) = to - from /\ \A i \in 1 .. to - from : t[i] = a[from + i]
  BY SubRun
<1>4. u \in Bytes /\ Len(u) = to /\ \A i \in 1 .. to : u[i] = a[i]
  BY <1>1 DEF Bytes
<1> HIDE DEF s, t, u
<1>5. s \o t \in Bytes /\ Len(s \o t) = to
  <2>1. s \o t \in Bytes /\ Len(s \o t) = Len(s) + Len(t)
    BY <1>2, <1>3, ConcatBytes
  <2> QED
    BY <1>2, <1>3, <2>1
<1>6. ASSUME NEW i \in 1 .. to
      PROVE  (s \o t)[i] = u[i]
  <2>1. CASE i <= from
    <3>1. i \in 1 .. from /\ i \in 1 .. Len(s)
      BY <1>2, <2>1
    <3> QED
      BY <1>2, <1>3, <1>4, <3>1, ConcatAt
  <2>2. CASE ~(i <= from)
    <3>1. i - from \in 1 .. to - from /\ from + (i - from) = i
      BY <2>2
    <3>2. (s \o t)[from + (i - from)] = t[i - from]
      <4> DEFINE j == i - from
      <4>1. j \in 1 .. Len(t) /\ Len(s) = from /\ s \in Bytes /\ t \in Bytes
        BY <1>2, <1>3, <3>1
      <4> HIDE DEF j
      <4>2. (s \o t)[Len(s) + j] = t[j]
        BY <4>1, ConcatAt
      <4> QED
        BY <4>1, <4>2 DEF j
    <3>3. t[i - from] = a[from + (i - from)]
      BY <1>3, <3>1
    <3>4. u[i] = a[i]
      BY <1>4
    <3> QED
      BY <3>1, <3>2, <3>3, <3>4
  <2> QED
    BY <2>1, <2>2
<1>7. s \o t = u
  BY <1>4, <1>5, <1>6, EqualRuns
<1> QED
  BY <1>7 DEF s, t, u

LEMMA CutsOne ==
    ASSUME NEW a \in Bytes, NEW reports \in BOOLEAN
    PROVE  Cuts(<<[octets |-> a, reports |-> reports]>>, a, 0)
<1> DEFINE pieces == <<[octets |-> a, reports |-> reports]>>
           b == [i \in 0 .. 1 |-> IF i = 0 THEN 0 ELSE Len(a)]
<1>1. Len(a) \in Nat /\ SubSeq(a, 1, Len(a)) = a
  BY WholeRun DEF Bytes
<1>2. Len(pieces) = 1 /\ pieces[1].octets = a
  OBVIOUS
<1>3. b[0] = 0 /\ b[1] = Len(a) /\ b \in [0 .. 1 -> Nat]
  BY <1>1
<1> HIDE DEF pieces, b
<1>4. CutsAt(pieces, a, 0, b)
  BY <1>1, <1>2, <1>3 DEF CutsAt
<1>5. Cuts(pieces, a, 0)
  BY <1>2, <1>3, <1>4 DEF Cuts
<1> QED
  BY <1>5 DEF pieces

LEMMA CutsJoin ==
    ASSUME NEW p \in Seq(Pieces), NEW q \in Seq(Pieces), NEW s \in Bytes, NEW t \in Bytes,
           Cuts(p, s, 0), Cuts(q, t, 0)
    PROVE  Cuts(p \o q, s \o t, 0)
<1>1. PICK c \in [0 .. Len(p) -> Nat] : CutsAt(p, s, 0, c)
  BY DEF Cuts
<1>2. PICK d \in [0 .. Len(q) -> Nat] : CutsAt(q, t, 0, d)
  BY DEF Cuts
<1> DEFINE P == Len(p)
           Q == Len(q)
           b == [i \in 0 .. P + Q |-> IF i <= P THEN c[i] ELSE Len(s) + d[i - P]]
           pq == p \o q
           st == s \o t
<1>3. P \in Nat /\ Q \in Nat /\ Len(s) \in Nat /\ Len(t) \in Nat
  BY DEF Bytes
<1>4. Len(pq) = P + Q /\ Len(st) = Len(s) + Len(t)
  BY ConcatBytes
<1>5. /\ \A i \in 1 .. P : pq[i] = p[i]
      /\ \A i \in P + 1 .. P + Q : pq[i] = q[i - P]
  OBVIOUS
<1>6. b \in [0 .. P + Q -> Nat]
  <2>1. ASSUME NEW i \in 0 .. P + Q
        PROVE  (IF i <= P THEN c[i] ELSE Len(s) + d[i - P]) \in Nat
    <3>1. CASE i <= P
      <4>1. i \in 0 .. P
        BY <1>3, <3>1
      <4>2. c[i] \in Nat
        BY <1>1, <4>1
      <4> QED
        BY <3>1, <4>2
    <3>2. CASE ~(i <= P)
      <4>1. i - P \in 0 .. Q
        BY <1>3, <3>2
      <4>2. d[i - P] \in Nat
        BY <1>2, <4>1
      <4> QED
        BY <1>3, <3>2, <4>2
    <3> QED
      BY <3>1, <3>2
  <2> QED
    BY <2>1
<1>7. /\ c[0] = 0 /\ c[P] = Len(s)
      /\ \A i \in 1 .. P : c[i - 1] <= c[i] /\ c[i] <= Len(s) /\ p[i].octets = SubSeq(s, c[i - 1] + 1, c[i])
  BY <1>1 DEF CutsAt
<1>8. /\ d[0] = 0 /\ d[Q] = Len(t)
      /\ \A i \in 1 .. Q : d[i - 1] <= d[i] /\ d[i] <= Len(t) /\ q[i].octets = SubSeq(t, d[i - 1] + 1, d[i])
  BY <1>2 DEF CutsAt
<1>9. \A i \in 0 .. P : b[i] = c[i]
  BY <1>3
<1>10. \A i \in P .. P + Q : b[i] = Len(s) + d[i - P]
  <2>1. ASSUME NEW i \in P .. P + Q
        PROVE  b[i] = Len(s) + d[i - P]
    <3>1. CASE i = P
      BY <1>3, <1>7, <1>8, <3>1
    <3>2. CASE i # P
      BY <1>3, <3>2
    <3> QED
      BY <3>1, <3>2
  <2> QED
    BY <2>1
<1> HIDE DEF b, pq, st
<1>11. ASSUME NEW i \in 1 .. P + Q
       PROVE  b[i - 1] <= b[i] /\ b[i] <= Len(st) /\ pq[i].octets = SubSeq(st, b[i - 1] + 1, b[i])
  <2>1. CASE i <= P
    <3>1. i \in 1 .. P /\ i \in 0 .. P /\ i - 1 \in 0 .. P
      BY <1>3, <2>1
    <3>2. b[i] = c[i] /\ b[i - 1] = c[i - 1] /\ c[i] \in Nat /\ c[i - 1] \in Nat
      BY <1>1, <1>9, <3>1
    <3>3. c[i - 1] <= c[i] /\ c[i] <= Len(s) /\ p[i].octets = SubSeq(s, c[i - 1] + 1, c[i])
      BY <1>7, <3>1
    <3>4. SubSeq(st, c[i - 1] + 1, c[i]) = SubSeq(s, c[i - 1] + 1, c[i])
      BY <3>2, <3>3, SubRunLeft DEF st
    <3>5. b[i] <= Len(st)
      BY <1>3, <1>4, <3>2, <3>3
    <3> QED
      BY <1>5, <3>1, <3>2, <3>3, <3>4, <3>5
  <2>2. CASE ~(i <= P)
    <3> DEFINE j == i - P
    <3>1. /\ j \in 1 .. Q /\ j \in 0 .. Q /\ j - 1 \in 0 .. Q /\ i \in P .. P + Q /\ i - 1 \in P .. P + Q
          /\ (i - 1) - P = j - 1 /\ i \in P + 1 .. P + Q
      BY <1>3, <2>2
    <3>2. b[i] = Len(s) + d[j] /\ b[i - 1] = Len(s) + d[j - 1]
      BY <1>10, <3>1
    <3>3. d[j] \in Nat /\ d[j - 1] \in Nat
      BY <1>2, <3>1
    <3>4. d[j - 1] <= d[j] /\ d[j] <= Len(t) /\ q[j].octets = SubSeq(t, d[j - 1] + 1, d[j])
      BY <1>8, <3>1
    <3>5. SubSeq(st, Len(s) + d[j - 1] + 1, Len(s) + d[j]) = SubSeq(t, d[j - 1] + 1, d[j])
      BY <3>3, <3>4, SubRunRight DEF st
    <3>6. pq[i] = q[j]
      BY <1>5, <3>1
    <3> HIDE DEF j
    <3>7. b[i - 1] <= b[i] /\ b[i] <= Len(st)
      <4>1. \A l, m, n, k \in Nat : m <= n /\ n <= k => l + m <= l + n /\ l + n <= l + k
        OBVIOUS
      <4>2. Len(s) + d[j - 1] <= Len(s) + d[j] /\ Len(s) + d[j] <= Len(s) + Len(t)
        BY <1>3, <3>3, <3>4, <4>1
      <4> QED
        BY <1>4, <3>2, <4>2
    <3> QED
      BY <3>2, <3>4, <3>5, <3>6, <3>7
  <2> QED
    BY <2>1, <2>2
<1>12. b[0] = 0 /\ b[P + Q] = Len(st)
  <2>1. b[0] = c[0]
    BY <1>3, <1>9
  <2>2. b[P + Q] = Len(s) + d[(P + Q) - P] /\ (P + Q) - P = Q
    <3>1. P + Q \in P .. P + Q /\ (P + Q) - P = Q
      BY <1>3
    <3> QED
      BY <1>10, <3>1
  <2> QED
    BY <1>4, <1>7, <1>8, <2>1, <2>2
<1>13. CutsAt(pq, st, 0, b)
  BY <1>4, <1>11, <1>12 DEF CutsAt
<1>14. Cuts(pq, st, 0)
  BY <1>4, <1>6, <1>13 DEF Cuts
<1> QED
  BY <1>14 DEF pq, st

\* All of the first piece is the next run of the target; the others go on behind it.
LEMMA CutsNext ==
    ASSUME NEW pieces \in Seq(Pieces), NEW target \in Bytes, NEW from \in Nat,
           Cuts(pieces, target, from), pieces # <<>>
    PROVE  \E to \in Nat : /\ from <= to /\ to <= Len(target)
                           /\ Head(pieces).octets = SubSeq(target, from + 1, to)
                           /\ Cuts(Tail(pieces), target, to)
<1>1. PICK b \in [0 .. Len(pieces) -> Nat] : CutsAt(pieces, target, from, b)
  BY DEF Cuts
<1> DEFINE P == Len(pieces)
           rest == Tail(pieces)
           d == [i \in 0 .. P - 1 |-> b[i + 1]]
<1>2. P \in Nat /\ P >= 1 /\ Len(rest) = P - 1 /\ Head(pieces) = pieces[1]
  OBVIOUS
<1>3. \A i \in 1 .. P - 1 : rest[i] = pieces[i + 1]
  OBVIOUS
<1> HIDE DEF rest
<1>4. /\ b[0] = from /\ b[P] = Len(target)
      /\ \A i \in 1 .. P : /\ b[i - 1] <= b[i] /\ b[i] <= Len(target)
                           /\ pieces[i].octets = SubSeq(target, b[i - 1] + 1, b[i])
  BY <1>1 DEF CutsAt
<1>5. d \in [0 .. P - 1 -> Nat] /\ d[0] = b[1] /\ d[P - 1] = b[P]
  <2>1. \A i \in 0 .. P - 1 : b[i + 1] \in Nat
    BY <1>1, <1>2
  <2>2. 0 \in 0 .. P - 1 /\ P - 1 \in 0 .. P - 1 /\ (P - 1) + 1 = P /\ 0 + 1 = 1
    BY <1>2
  <2>3. d[0] = b[0 + 1] /\ d[P - 1] = b[(P - 1) + 1]
    BY <2>2
  <2> QED
    BY <2>1, <2>2, <2>3
<1>6. ASSUME NEW i \in 1 .. P - 1
      PROVE  d[i - 1] <= d[i] /\ d[i] <= Len(target) /\ rest[i].octets = SubSeq(target, d[i - 1] + 1, d[i])
  <2>1. i + 1 \in 1 .. P /\ (i + 1) - 1 = i /\ (i - 1) + 1 = i /\ i \in 0 .. P - 1 /\ i - 1 \in 0 .. P - 1
    BY <1>2
  <2>2. d[i] = b[i + 1] /\ d[i - 1] = b[i]
    BY <2>1
  <2>3. /\ b[(i + 1) - 1] <= b[i + 1] /\ b[i + 1] <= Len(target)
        /\ pieces[i + 1].octets = SubSeq(target, b[(i + 1) - 1] + 1, b[i + 1])
    BY <1>4, <2>1
  <2> QED
    BY <1>3, <2>1, <2>2, <2>3
<1> HIDE DEF d
<1>7. CutsAt(rest, target, b[1], d)
  BY <1>2, <1>4, <1>5, <1>6 DEF CutsAt
<1>8. Cuts(rest, target, b[1])
  BY <1>2, <1>5, <1>7 DEF Cuts
<1>9. /\ b[1] \in Nat /\ from <= b[1] /\ b[1] <= Len(target)
      /\ pieces[1].octets = SubSeq(target, from + 1, b[1])
  <2>1. 1 \in 1 .. P /\ 1 \in 0 .. P /\ 1 - 1 = 0
    BY <1>2
  <2> QED
    BY <1>1, <1>4, <2>1
<1> QED
  BY <1>2, <1>8, <1>9 DEF rest

LEMMA CutsEnd ==
    ASSUME NEW target, NEW from, Cuts(<<>>, target, from)
    PROVE  from = Len(target)
  BY DEF Cuts, CutsAt

\* Compressing two runs one after the other compresses the whole.
LEMMA DeflatedConcat ==
    ASSUME NEW a \in Bytes, NEW b \in Bytes
    PROVE  Deflated(a \o b) = Deflated(a) \o Deflated(b)
<1> DEFINE ab == a \o b
           x == Deflated(a)
           y == Deflated(b)
           z == Deflated(ab)
<1>1. ab \in Bytes /\ Len(ab) = Len(a) + Len(b) /\ Len(a) \in Nat /\ Len(b) \in Nat
  BY ConcatBytes DEF Bytes
<1>2. /\ \A i \in 1 .. Len(a) : ab[i] = a[i]
      /\ \A i \in 1 .. Len(b) : ab[Len(a) + i] = b[i]
  BY ConcatAt
<1> HIDE DEF ab
<1>3. x \in Bytes /\ Len(x) = Len(a) /\ y \in Bytes /\ Len(y) = Len(b) /\ z \in Bytes /\ Len(z) = Len(ab)
  BY <1>1, DeflatedBytes
<1>4. /\ \A i \in 1 .. Len(a) : x[i] = [a[i] EXCEPT !.deflated = TRUE]
      /\ \A i \in 1 .. Len(b) : y[i] = [b[i] EXCEPT !.deflated = TRUE]
      /\ \A i \in 1 .. Len(ab) : z[i] = [ab[i] EXCEPT !.deflated = TRUE]
  <2>1. DOMAIN a = 1 .. Len(a) /\ DOMAIN b = 1 .. Len(b) /\ DOMAIN ab = 1 .. Len(ab)
    BY <1>1 DEF Bytes
  <2> QED
    BY <2>1 DEF Deflated
<1> HIDE DEF x, y, z
<1>5. x \o y \in Bytes /\ Len(x \o y) = Len(z)
  <2>1. x \o y \in Bytes /\ Len(x \o y) = Len(x) + Len(y)
    BY <1>3, ConcatBytes
  <2> QED
    BY <1>1, <1>3, <2>1
<1>6. ASSUME NEW i \in 1 .. Len(z)
      PROVE  z[i] = (x \o y)[i]
  <2>0. i \in 1 .. Len(ab) /\ z[i] = [ab[i] EXCEPT !.deflated = TRUE]
    BY <1>3, <1>4
  <2>1. CASE i <= Len(a)
    <3>1. i \in 1 .. Len(a) /\ i \in 1 .. Len(x)
      BY <1>1, <1>3, <2>0, <2>1
    <3>2. (x \o y)[i] = x[i]
      BY <1>3, <3>1, ConcatAt
    <3> QED
      BY <1>2, <1>4, <2>0, <3>1, <3>2
  <2>2. CASE ~(i <= Len(a))
    <3> DEFINE j == i - Len(a)
    <3>1. j \in 1 .. Len(b) /\ j \in 1 .. Len(y) /\ Len(a) + j = i
      BY <1>1, <1>3, <2>0, <2>2
    <3> HIDE DEF j
    <3>2. (x \o y)[Len(x) + j] = y[j]
      BY <1>3, <3>1, ConcatAt
    <3>3. ab[Len(a) + j] = b[j]
      BY <1>2, <3>1
    <3>4. y[j] = [b[j] EXCEPT !.deflated = TRUE]
      BY <1>4, <3>1
    <3> QED
      BY <1>3, <2>0, <3>1, <3>2, <3>3, <3>4
  <2> QED
    BY <2>1, <2>2
<1>7. z = x \o y
  BY <1>3, <1>5, <1>6, EqualRuns
<1> QED
  BY <1>7 DEF x, y, z, ab

LEMMA LiteralParts ==
    ASSUME NEW document \in Bytes
    PROVE  \E front \in Bytes : Packet(Literal, LiteralBody(document), Definite) = front \o document
<1> DEFINE name == <<An("name", 0)>>
           body == LiteralBody(document)
           head == <<An("tag", Literal)>> \o appendNewFormatLength(Len(body))
<1>1. "name" \in Kinds /\ Literal \in Nat
  BY DEF Kinds, Literal
<1>2. name \in Bytes
  BY <1>1, OneOctet
<1>3. body = name \o document
  BY DEF LiteralBody
<1> HIDE DEF name, body
<1>4. body \in Bytes
  BY <1>2, <1>3, ConcatBytes
<1>5. head \in Bytes /\ Packet(Literal, body, Definite) = head \o body
  BY <1>1, <1>4, PacketBytes
<1> HIDE DEF head
<1>6. head \o name \in Bytes
  BY <1>2, <1>5, ConcatBytes
<1>7. (head \o name) \o document = head \o (name \o document)
  BY <1>2, <1>5, ConcatAssoc
<1> QED
  BY <1>3, <1>5, <1>6, <1>7 DEF body

LEMMA FirstOctets ==
    /\ Literal \in Nat /\ Compressed \in Nat
    /\ An("name", 0) \in Octet /\ An("algorithm", 1) \in Octet /\ <<An("signature", 0)>> \in Bytes
<1>1. {"name", "algorithm", "signature"} \subseteq Kinds
  BY DEF Kinds
<1> QED
  BY <1>1, AnOctet, OneOctet DEF Literal, Compressed

WriteErrors == {"FILE_IO_ERROR", "UNEXPECTED_ERROR", "OPERATION_CANCELLED"}

-----------------------------------------------------------------------------
(* More about runs of octets. *)

LEMMA NoOctets ==
    /\ <<>> \in Bytes /\ Len(<<>>) = 0
    /\ \A a \in Bytes : a \o <<>> = a /\ <<>> \o a = a /\ Drop(a, 0) = a /\ Len(a) \in Nat
    /\ \A a \in Bytes : Len(a) = 0 <=> a = <<>>
<1>1. \A a \in Bytes : Drop(a, 0) = a
  BY WholeRun DEF Drop
<1> QED
  BY <1>1, ConcatEmptySeq DEF Bytes

\* The first octets of a run, and what follows them.
LEMMA TakeDrop ==
    ASSUME NEW a \in Bytes, NEW n \in 0 .. Len(a)
    PROVE  SubSeq(a, 1, n) \o Drop(a, n) = a
<1>1. Len(a) \in Nat /\ n \in Nat /\ n <= Len(a) /\ Len(a) <= Len(a)
  BY DEF Bytes
<1>2. SubSeq(a, 1, n) \o SubSeq(a, n + 1, Len(a)) = SubSeq(a, 1, Len(a))
  BY <1>1, MeetingRuns
<1> QED
  BY <1>2, WholeRun DEF Drop

\* A run of a run.
LEMMA InnerRun ==
    ASSUME NEW a \in Bytes, NEW from \in Nat, NEW to \in Nat, from <= to, to <= Len(a), NEW n \in 0 .. to - from
    PROVE  /\ SubSeq(SubSeq(a, from + 1, to), 1, n) = SubSeq(a, from + 1, from + n)
           /\ Drop(SubSeq(a, from + 1, to), n) = SubSeq(a, from + n + 1, to)
<1> DEFINE b == SubSeq(a, from + 1, to)
           mid == from + n
           c == SubSeq(a, from + 1, mid)
           d == SubSeq(a, mid + 1, to)
<1>1. /\ Len(a) \in Nat /\ to - from \in Nat /\ n \in Nat /\ n <= to - from
      /\ mid \in Nat /\ mid <= to /\ from <= mid /\ mid <= Len(a) /\ mid - from = n /\ to - mid = to - from - n
  BY DEF Bytes
<1> HIDE DEF mid
<1>2. b \in Bytes /\ Len(b) = to - from /\ \A i \in 1 .. to - from : b[i] = a[from + i]
  BY SubRun
<1>3. c \in Bytes /\ Len(c) = n /\ \A i \in 1 .. n : c[i] = a[from + i]
  <2>1. c \in Bytes /\ Len(c) = mid - from /\ \A i \in 1 .. mid - from : c[i] = a[from + i]
    BY <1>1, SubRun
  <2> QED
    BY <1>1, <2>1
<1>4. d \in Bytes /\ Len(d) = to - from - n /\ \A i \in 1 .. to - from - n : d[i] = a[mid + i]
  <2>1. d \in Bytes /\ Len(d) = to - mid /\ \A i \in 1 .. to - mid : d[i] = a[mid + i]
    BY <1>1, SubRun
  <2> QED
    BY <1>1, <2>1
<1> HIDE DEF b, c, d
<1>5. SubSeq(b, 1, n) = c
  <2>2. SubSeq(b, 1, n) \in Bytes /\ Len(SubSeq(b, 1, n)) = n /\ \A i \in 1 .. n : SubSeq(b, 1, n)[i] = b[i]
    BY <1>1, <1>2 DEF Bytes
  <2>3. \A i \in 1 .. n : SubSeq(b, 1, n)[i] = c[i]
    BY <1>1, <1>2, <1>3, <2>2
  <2> QED
    BY <1>3, <2>2, <2>3, EqualRuns
<1>6. SubSeq(b, n + 1, Len(b)) = d
  <2>1. /\ SubSeq(b, n + 1, Len(b)) \in Bytes /\ Len(SubSeq(b, n + 1, Len(b))) = to - from - n
        /\ \A i \in 1 .. to - from - n : SubSeq(b, n + 1, Len(b))[i] = b[n + i]
    BY <1>1, <1>2, SubRun
  <2>2. \A i \in 1 .. to - from - n : SubSeq(b, n + 1, Len(b))[i] = d[i]
    <3>1. \A i \in 1 .. to - from - n : n + i \in 1 .. to - from /\ from + (n + i) = mid + i
      BY <1>1 DEF mid
    <3> QED
      BY <1>2, <1>4, <2>1, <3>1
  <2> QED
    BY <1>4, <2>1, <2>2, EqualRuns
<1> QED
  BY <1>5, <1>6 DEF b, c, d, mid, Drop

LEMMA DropDrop ==
    ASSUME NEW a \in Bytes, NEW n \in Nat, NEW k \in Nat, n + k <= Len(a)
    PROVE  Drop(Drop(a, n), k) = Drop(a, n + k)
<1>1. Len(a) \in Nat /\ n <= Len(a) /\ k \in 0 .. Len(a) - n
  BY DEF Bytes
<1>2. Drop(SubSeq(a, n + 1, Len(a)), k) = SubSeq(a, n + k + 1, Len(a))
  BY <1>1, InnerRun
<1> QED
  BY <1>2 DEF Drop

\* The first octets of two runs joined lie in the first one.
LEMMA JoinedRuns ==
    ASSUME NEW a \in Bytes, NEW b \in Bytes, NEW n \in 0 .. Len(a)
    PROVE  /\ SubSeq(a \o b, 1, n) = SubSeq(a, 1, n)
           /\ Drop(a \o b, n) = Drop(a, n) \o b
           /\ n <= Len(a \o b)
<1>1. Len(a) \in Nat /\ Len(b) \in Nat /\ a \o b \in Bytes /\ Len(a \o b) = Len(a) + Len(b) /\ n \in Nat /\ n <= Len(a)
  BY ConcatBytes DEF Bytes
<1> DEFINE c == Drop(a, n)
           d == Drop(a \o b, n)
           e == c \o b
<1>2. 0 + 1 = 1 /\ 0 <= n
  BY <1>1
<1>3. SubSeq(a \o b, 1, n) = SubSeq(a, 1, n)
  <2>1. SubSeq(a \o b, 0 + 1, n) = SubSeq(a, 0 + 1, n)
    BY <1>1, <1>2, SubRunLeft
  <2> QED
    BY <1>2, <2>1
<1>4. /\ d \in Bytes /\ Len(d) = Len(a) + Len(b) - n
      /\ \A i \in 1 .. Len(a) + Len(b) - n : d[i] = (a \o b)[n + i]
  <2> DEFINE whole == a \o b
  <2>1. whole \in Bytes /\ Len(whole) = Len(a) + Len(b) /\ n <= Len(whole) /\ Len(whole) \in Nat /\ Len(whole) <= Len(whole)
    BY <1>1
  <2> HIDE DEF whole
  <2>2. /\ Drop(whole, n) \in Bytes /\ Len(Drop(whole, n)) = Len(whole) - n
        /\ \A i \in 1 .. Len(whole) - n : Drop(whole, n)[i] = whole[n + i]
    BY <1>1, <2>1, SubRun DEF Drop
  <2> QED
    BY <2>1, <2>2 DEF whole
<1>5. c \in Bytes /\ Len(c) = Len(a) - n /\ \A i \in 1 .. Len(a) - n : c[i] = a[n + i]
  BY <1>1, SubRun DEF Drop
<1>6. e \in Bytes /\ Len(e) = Len(a) - n + Len(b)
  BY <1>1, <1>5, ConcatBytes
<1>7. /\ \A i \in 1 .. Len(a) : (a \o b)[i] = a[i]
      /\ \A i \in 1 .. Len(b) : (a \o b)[Len(a) + i] = b[i]
      /\ \A i \in 1 .. Len(c) : e[i] = c[i]
      /\ \A i \in 1 .. Len(b) : e[Len(c) + i] = b[i]
  BY <1>5, ConcatAt
<1> HIDE DEF c, d, e
<1>8. ASSUME NEW i \in 1 .. Len(d)
      PROVE  d[i] = e[i]
  <2>1. i \in 1 .. Len(a) + Len(b) - n /\ d[i] = (a \o b)[n + i]
    BY <1>4
  <2>2. CASE i <= Len(a) - n
    <3>1. n + i \in 1 .. Len(a) /\ i \in 1 .. Len(a) - n
      BY <1>1, <2>1, <2>2
    <3> QED
      BY <1>5, <1>7, <2>1, <3>1
  <2>3. CASE ~(i <= Len(a) - n)
    <3> DEFINE j == i - (Len(a) - n)
    <3>1. j \in 1 .. Len(b) /\ n + i = Len(a) + j /\ i = Len(c) + j
      BY <1>1, <1>5, <2>1, <2>3
    <3> HIDE DEF j
    <3> QED
      BY <1>7, <2>1, <3>1
  <2> QED
    BY <2>2, <2>3
<1>9. d = e
  <2>1. Len(d) = Len(e)
    BY <1>1, <1>4, <1>6
  <2> QED
    BY <1>4, <1>6, <1>8, <2>1, EqualRuns
<1> QED
  BY <1>1, <1>3, <1>9 DEF c, d, e

\* The second of two runs joined.
LEMMA JoinedRest ==
    ASSUME NEW a \in Bytes, NEW b \in Bytes
    PROVE  Drop(a \o b, Len(a)) = b /\ SubSeq(a \o b, 1, Len(a)) = a
<1>1. Len(a) \in Nat /\ Len(a) \in 0 .. Len(a) /\ Len(a) <= Len(a) /\ Len(a) - Len(a) = 0
  BY DEF Bytes
<1>2. Drop(a \o b, Len(a)) = Drop(a, Len(a)) \o b /\ SubSeq(a \o b, 1, Len(a)) = SubSeq(a, 1, Len(a))
  BY <1>1, JoinedRuns
<1>3. Drop(a, Len(a)) = <<>>
  <2>1. Drop(a, Len(a)) \in Bytes /\ Len(Drop(a, Len(a))) = 0
    BY <1>1, DropFacts
  <2> QED
    BY <2>1, NoOctets
<1> QED
  BY <1>2, <1>3, NoOctets, WholeRun

\* Where a run is cut in two, taking octets from the first part is taking them from
\* the whole.
LEMMA CutRun ==
    ASSUME NEW a \in Bytes, NEW b \in Bytes, NEW whole, a \o b = whole, NEW n \in 0 .. Len(a)
    PROVE  /\ SubSeq(a, 1, n) = SubSeq(whole, 1, n)
           /\ Drop(a, n) \o b = Drop(whole, n)
           /\ Len(a) >= 1 => a[1] = whole[1]
           /\ Len(a) >= 2 => a[2] = whole[2]
<1>1. SubSeq(a, 1, n) = SubSeq(whole, 1, n) /\ Drop(a, n) \o b = Drop(whole, n)
  BY JoinedRuns
<1>2. Len(a) \in Nat
  BY DEF Bytes
<1> QED
  BY <1>1, <1>2, ConcatAt

\* A single octet in front of a run.
LEMMA OctetFirst ==
    ASSUME NEW x \in Octet, NEW b \in Bytes
    PROVE  /\ <<x>> \in Bytes /\ Len(<<x>>) = 1 /\ <<x>> \o b \in Bytes /\ Len(<<x>> \o b) = 1 + Len(b)
           /\ (<<x>> \o b)[1] = x
           /\ Drop(<<x>> \o b, 1) = b
           /\ \A n \in 1 .. Len(b) : (<<x>> \o b)[n + 1] = b[n]
<1>1. <<x>> \in Bytes /\ Len(<<x>>) = 1 /\ <<x>>[1] = x
  BY DEF Bytes
<1>2. Len(b) \in Nat
  BY DEF Bytes
<1>3. \A n \in 1 .. Len(b) : 1 + n = n + 1
  BY <1>2
<1> DEFINE a == <<x>>
<1> HIDE DEF a
<1>4. a \in Bytes /\ Len(a) = 1 /\ a[1] = x
  BY <1>1 DEF a
<1>5. a \o b \in Bytes /\ Len(a \o b) = 1 + Len(b) /\ Drop(a \o b, 1) = b
  BY <1>4, ConcatBytes, JoinedRest
<1>6. (a \o b)[1] = x
  BY <1>4, ConcatAt
<1>7. \A n \in 1 .. Len(b) : (a \o b)[Len(a) + n] = b[n]
  BY <1>4, ConcatAt
<1>8. \A n \in 1 .. Len(b) : (a \o b)[n + 1] = b[n]
  BY <1>3, <1>4, <1>7
<1> QED
  BY <1>1, <1>5, <1>6, <1>8 DEF a

-----------------------------------------------------------------------------
(***************************************************************************)
(* The streaming reader in a message that is intact. Each of the three     *)
(* framings is a body with its chunks' ends; the reader is q octets into   *)
(* the body, in its chunk i, and what is ahead of it there is the rest of  *)
(* the chunk and then the other chunks, each after its header. A packet of *)
(* definite or indeterminate length is a body of one chunk.                *)
(***************************************************************************)

At(body, ends, q, i) ==
    /\ i \in 1 .. (Len(ends) + 1)
    /\ q \in ChunkEnd(body, ends, i - 1) .. ChunkEnd(body, ends, i)

Ahead(body, ends, q, i) == SubSeq(body, q + 1, ChunkEnd(body, ends, i)) \o ChunksFrom(body, ends, i + 1)

\* A body and the ends of its chunks, as WellFramed has them.
Chunking(body, ends) ==
    /\ body \in Bytes
    /\ ends \in Seq(Nat)
    /\ \A i \in 1 .. Len(ends) :
          ChunkEnd(body, ends, i - 1) < ChunkEnd(body, ends, i) /\ ChunkEnd(body, ends, i) <= Len(body)
    /\ ends # <<>> => Len(body) - ChunkEnd(body, ends, Len(ends)) < LengthModulus

LEMMA EndFacts ==
    ASSUME NEW body, NEW ends, Chunking(body, ends)
    PROVE  /\ body \in Bytes /\ Len(body) \in Nat /\ Len(ends) \in Nat
           /\ ChunkEnd(body, ends, 0) = 0
           /\ ChunkEnd(body, ends, Len(ends) + 1) = Len(body)
           /\ \A i \in 0 .. Len(ends) + 1 : ChunkEnd(body, ends, i) \in Nat /\ ChunkEnd(body, ends, i) <= Len(body)
           /\ \A i \in 1 .. Len(ends) + 1 : ChunkEnd(body, ends, i - 1) <= ChunkEnd(body, ends, i)
           /\ \A i \in 1 .. Len(ends) : ChunkEnd(body, ends, i - 1) < ChunkEnd(body, ends, i)
<1>1. body \in Bytes /\ Len(body) \in Nat /\ Len(ends) \in Nat /\ ends \in Seq(Nat)
  BY DEF Chunking, Bytes
<1>2. ChunkEnd(body, ends, 0) = 0 /\ ChunkEnd(body, ends, Len(ends) + 1) = Len(body)
  BY <1>1 DEF ChunkEnd
<1>3. \A i \in 1 .. Len(ends) :
         /\ ChunkEnd(body, ends, i - 1) < ChunkEnd(body, ends, i)
         /\ ChunkEnd(body, ends, i) <= Len(body)
  BY DEF Chunking
<1>4. \A i \in 1 .. Len(ends) : ChunkEnd(body, ends, i) \in Nat
  BY <1>1 DEF ChunkEnd
<1>5. ASSUME NEW i \in 0 .. Len(ends) + 1
      PROVE  ChunkEnd(body, ends, i) \in Nat /\ ChunkEnd(body, ends, i) <= Len(body)
  <2>1. i = 0 \/ i = Len(ends) + 1 \/ i \in 1 .. Len(ends)
    BY <1>1
  <2> QED
    BY <1>1, <1>2, <1>3, <1>4, <2>1
<1>6. ASSUME NEW i \in 1 .. Len(ends) + 1
      PROVE  ChunkEnd(body, ends, i - 1) <= ChunkEnd(body, ends, i)
  <2>1. CASE i \in 1 .. Len(ends)
    <3>1. ChunkEnd(body, ends, i - 1) < ChunkEnd(body, ends, i)
      BY <1>3, <2>1
    <3>2. i - 1 \in 0 .. Len(ends) + 1
      BY <1>1
    <3> QED
      BY <1>5, <3>1, <3>2
  <2>2. CASE i = Len(ends) + 1
    <3>1. i - 1 \in 0 .. Len(ends) + 1
      BY <1>1, <2>2
    <3> QED
      BY <1>2, <1>5, <2>2, <3>1
  <2> QED
    BY <1>1, <2>1, <2>2
<1> QED
  BY <1>1, <1>2, <1>3, <1>5, <1>6

\* The length headers, as appendNewFormatLength writes them.
LEMMA LengthHeader ==
    ASSUME NEW n \in Nat
    PROVE  LET h == appendNewFormatLength(n)
           IN  /\ h \in Bytes /\ Len(h) = HeaderSize(h[1]) /\ Len(h) \in {1, 2}
               /\ IsHeader(h[1]) /\ h[1].kind # "partial"
               /\ n < LengthModulus => h[1].n = n
<1> DEFINE h == appendNewFormatLength(n)
<1>1. h \in Bytes
  BY LengthBytes
<1>2. CASE n < OneOctetLimit
  <2>1. h = <<An("short", n)>>
    BY <1>2 DEF appendNewFormatLength
  <2> QED
    BY <1>1, <2>1 DEF An, HeaderSize, IsHeader
<1>3. CASE ~(n < OneOctetLimit)
  <2> DEFINE k == n % LengthModulus
  <2>1. h = <<An("long", k), An("more", 0)>>
    BY <1>3 DEF appendNewFormatLength
  <2>2. n < LengthModulus => k = n
    BY ReaderAssumption
  <2> HIDE DEF k
  <2>3. Len(h) = 2 /\ h[1] = An("long", k)
    BY <2>1
  <2> QED
    BY <1>1, <2>2, <2>3 DEF An, HeaderSize, IsHeader
<1> QED
  BY <1>2, <1>3

LEMMA ChunkHeaderFacts ==
    ASSUME NEW body, NEW ends, Chunking(body, ends), NEW i \in 1 .. Len(ends) + 1
    PROVE  LET h == ChunkHeader(body, ends, i)
           IN  /\ h \in Bytes /\ Len(h) = HeaderSize(h[1]) /\ Len(h) \in {1, 2}
               /\ IsHeader(h[1]) /\ (h[1].kind # "partial") = (i = Len(ends) + 1)
               /\ ends # <<>> \/ Len(body) < LengthModulus =>
                     h[1].n = ChunkEnd(body, ends, i) - ChunkEnd(body, ends, i - 1)
<1> DEFINE h == ChunkHeader(body, ends, i)
           n == ChunkEnd(body, ends, i) - ChunkEnd(body, ends, i - 1)
<1>1. Len(body) \in Nat /\ Len(ends) \in Nat
  BY EndFacts
<1>2. n \in Nat
  <2>1. i \in 0 .. Len(ends) + 1 /\ i - 1 \in 0 .. Len(ends) + 1
    BY <1>1
  <2> QED
    BY <2>1, EndFacts
<1>3. CASE i <= Len(ends)
  <2>1. h = <<An("partial", n)>> /\ "partial" \in Kinds
    BY <1>3 DEF ChunkHeader, Kinds
  <2> HIDE DEF n
  <2>2. h \in Bytes /\ Len(h) = 1 /\ h[1] = An("partial", n)
    BY <1>2, <2>1, OneOctet
  <2>3. i # Len(ends) + 1
    BY <1>1, <1>3
  <2> QED
    BY <2>2, <2>3 DEF An, HeaderSize, IsHeader, n
<1>4. CASE ~(i <= Len(ends))
  <2>1. i = Len(ends) + 1 /\ h = appendNewFormatLength(n)
    BY <1>1, <1>4 DEF ChunkHeader
  <2>2. ends # <<>> \/ Len(body) < LengthModulus => n < LengthModulus
    <3>1. ChunkEnd(body, ends, i) = Len(body) /\ i - 1 = Len(ends)
      BY <1>1, <2>1, EndFacts
    <3>2. ends = <<>> => ChunkEnd(body, ends, i - 1) = 0
      BY <3>1 DEF ChunkEnd
    <3> QED
      BY <1>1, <3>1, <3>2 DEF Chunking
  <2> HIDE DEF n
  <2> QED
    BY <1>2, <2>1, <2>2, LengthHeader DEF n
<1> QED
  BY <1>3, <1>4

\* What ChunksFrom puts down for chunk j, from what f has for the later ones.
ChunkRow(body, ends, f, j) ==
    IF j = Len(ends) + 2 THEN <<>>
    ELSE ChunkHeader(body, ends, j)
         \o (SubSeq(body, ChunkEnd(body, ends, j - 1) + 1, ChunkEnd(body, ends, j)) \o f[j + 1])

LEMMA ChunkRows ==
    ASSUME NEW body, NEW ends, Chunking(body, ends)
    PROVE  \E f : f = [j \in 1 .. (Len(ends) + 2) |-> ChunkRow(body, ends, f, j)]
<1> DEFINE L == Len(ends) + 2
           Rows(k, f) == f = [j \in k .. L |-> ChunkRow(body, ends, f, j)]
           Bad == {k \in 1 .. L : ~\E f : Rows(k, f)}
<1>1. L \in Nat /\ 1 \in 1 .. L
  BY EndFacts
<1>2. Bad = {}
  <2> SUFFICES ASSUME Bad # {} PROVE FALSE
    OBVIOUS
  <2>1. PICK k \in Bad : \A m \in Bad : m <= k
    <3>1. Bad \in SUBSET Nat /\ \A m \in Bad : m <= L
      BY <1>1
    <3> HIDE DEF Bad
    <3> QED
      BY <1>1, <3>1, GreatestNatural
  <2>2. k \in 1 .. L
    BY <2>1
  <2>3. PICK f : \A j \in k + 1 .. L : f[j] = ChunkRow(body, ends, f, j)
    <3>1. CASE k = L
      BY <1>1, <3>1
    <3>2. CASE k # L
      <4>1. k + 1 \in 1 .. L /\ k + 1 \notin Bad
        BY <1>1, <2>1, <2>2, <3>2
      <4> QED
        BY <4>1
    <3> QED
      BY <3>1, <3>2
  <2> DEFINE g == [j \in k .. L |-> IF j = k THEN ChunkRow(body, ends, f, k) ELSE f[j]]
  <2>4. \A j \in k + 1 .. L : g[j] = f[j] /\ j # k
    BY <1>1, <2>2
  <2>5. g[k] = ChunkRow(body, ends, f, k)
    BY <1>1, <2>2
  <2>6. g = [j \in k .. L |-> g[j]]
    OBVIOUS
  <2> HIDE DEF g
  <2>7. ASSUME NEW j \in k .. L
        PROVE  g[j] = ChunkRow(body, ends, g, j)
    <3>1. ChunkRow(body, ends, f, j) = ChunkRow(body, ends, g, j)
      <4>1. CASE j = L
        BY <4>1 DEF ChunkRow
      <4>2. CASE j # L
        <5>1. j + 1 \in k + 1 .. L
          BY <1>1, <2>2, <4>2
        <5> QED
          BY <2>4, <4>2, <5>1 DEF ChunkRow
      <4> QED
        BY <4>1, <4>2
    <3>2. j = k \/ j \in k + 1 .. L
      BY <1>1, <2>2
    <3> QED
      BY <2>3, <2>4, <2>5, <3>1, <3>2
  <2>8. Rows(k, g)
    BY <2>6, <2>7
  <2> QED
    BY <2>1, <2>8
<1>3. PICK f : Rows(1, f)
  BY <1>1, <1>2
<1> QED
  BY <1>3

\* A chunk is its header, its octets and the later chunks.
LEMMA ChunksUnfold ==
    ASSUME NEW body, NEW ends, Chunking(body, ends)
    PROVE  /\ ChunksFrom(body, ends, Len(ends) + 2) = <<>>
           /\ \A i \in 1 .. Len(ends) + 1 :
                 ChunksFrom(body, ends, i) =
                    ChunkHeader(body, ends, i) \o Ahead(body, ends, ChunkEnd(body, ends, i - 1), i)
<1> DEFINE f == CHOOSE f : f = [j \in 1 .. (Len(ends) + 2) |-> ChunkRow(body, ends, f, j)]
<1>1. \A i : ChunksFrom(body, ends, i) = f[i]
  BY DEF ChunksFrom, ChunkRow
<1>2. f = [j \in 1 .. (Len(ends) + 2) |-> ChunkRow(body, ends, f, j)]
  BY ChunkRows
<1> HIDE DEF f
<1>3. Len(ends) \in Nat
  BY EndFacts
<1>4. f[Len(ends) + 2] = <<>>
  <2>1. Len(ends) + 2 \in 1 .. (Len(ends) + 2)
    BY <1>3
  <2> QED
    BY <1>2, <2>1 DEF ChunkRow
<1>5. ASSUME NEW i \in 1 .. Len(ends) + 1
      PROVE  f[i] = ChunkHeader(body, ends, i)
                    \o (SubSeq(body, ChunkEnd(body, ends, i - 1) + 1, ChunkEnd(body, ends, i)) \o f[i + 1])
  <2>1. i \in 1 .. (Len(ends) + 2) /\ i # Len(ends) + 2
    BY <1>3
  <2>2. f[i] = ChunkRow(body, ends, f, i)
    BY <1>2, <2>1
  <2> QED
    BY <2>1, <2>2 DEF ChunkRow
<1> QED
  BY <1>1, <1>4, <1>5 DEF Ahead

LEMMA ChunksBytes ==
    ASSUME NEW body, NEW ends, Chunking(body, ends)
    PROVE  \A i \in 1 .. Len(ends) + 2 : ChunksFrom(body, ends, i) \in Bytes
<1> DEFINE L == Len(ends) + 2
           Bad == {i \in 1 .. L : ChunksFrom(body, ends, i) \notin Bytes}
<1>1. L \in Nat /\ Len(ends) \in Nat /\ body \in Bytes /\ Len(body) \in Nat
  BY EndFacts
<1>2. Bad = {}
  <2> SUFFICES ASSUME Bad # {} PROVE FALSE
    OBVIOUS
  <2>1. PICK k \in Bad : \A m \in Bad : m <= k
    <3>1. Bad \in SUBSET Nat /\ \A m \in Bad : m <= L
      BY <1>1
    <3> HIDE DEF Bad
    <3> QED
      BY <1>1, <3>1, GreatestNatural
  <2>2. k \in 1 .. L /\ ChunksFrom(body, ends, k) \notin Bytes
    BY <2>1
  <2>3. CASE k = L
    BY <2>2, <2>3, ChunksUnfold, NoOctets
  <2>4. CASE k # L
    <3>1. k \in 1 .. Len(ends) + 1 /\ k + 1 \in 1 .. L /\ k + 1 \notin Bad
      BY <1>1, <2>1, <2>2, <2>4
    <3>2. ChunksFrom(body, ends, k + 1) \in Bytes
      BY <3>1
    <3> DEFINE a == ChunkEnd(body, ends, k - 1)
               b == ChunkEnd(body, ends, k)
    <3>3. a \in Nat /\ b \in Nat /\ a <= b /\ b <= Len(body)
      <4>1. k \in 0 .. Len(ends) + 1 /\ k - 1 \in 0 .. Len(ends) + 1
        BY <1>1, <3>1
      <4> QED
        BY <3>1, <4>1, EndFacts
    <3>4. ChunksFrom(body, ends, k) = ChunkHeader(body, ends, k) \o (SubSeq(body, a + 1, b) \o ChunksFrom(body, ends, k + 1))
      BY <3>1, ChunksUnfold DEF Ahead
    <3> HIDE DEF a, b
    <3>5. SubSeq(body, a + 1, b) \in Bytes
      BY <1>1, <3>3, SubRun
    <3>6. ChunkHeader(body, ends, k) \in Bytes
      BY <3>1, ChunkHeaderFacts
    <3> QED
      BY <2>2, <3>2, <3>4, <3>5, <3>6, ConcatBytes
  <2> QED
    BY <2>3, <2>4
<1> QED
  BY <1>2

\* What is ahead in a chunk: octets of the body, then the later chunks.
LEMMA AheadFacts ==
    ASSUME NEW body, NEW ends, Chunking(body, ends), NEW q, NEW i, At(body, ends, q, i)
    PROVE  /\ body \in Bytes /\ Len(body) \in Nat /\ Len(ends) \in Nat
           /\ i \in 1 .. Len(ends) + 1 /\ i \in Nat /\ q \in Nat
           /\ ChunkEnd(body, ends, i) \in Nat /\ q <= ChunkEnd(body, ends, i) /\ ChunkEnd(body, ends, i) <= Len(body)
           /\ q \in 0 .. Len(body)
           /\ SubSeq(body, q + 1, ChunkEnd(body, ends, i)) \in Bytes
           /\ Len(SubSeq(body, q + 1, ChunkEnd(body, ends, i))) = ChunkEnd(body, ends, i) - q
           /\ ChunksFrom(body, ends, i + 1) \in Bytes
           /\ Ahead(body, ends, q, i) \in Bytes
           /\ Len(Ahead(body, ends, q, i)) = ChunkEnd(body, ends, i) - q + Len(ChunksFrom(body, ends, i + 1))
<1> DEFINE e == ChunkEnd(body, ends, i)
<1>1. body \in Bytes /\ Len(body) \in Nat /\ Len(ends) \in Nat
  BY EndFacts
<1>2. i \in 1 .. Len(ends) + 1 /\ q \in ChunkEnd(body, ends, i - 1) .. e
  BY DEF At
<1>3. i \in Nat /\ i \in 0 .. Len(ends) + 1 /\ i - 1 \in 0 .. Len(ends) + 1 /\ i + 1 \in 1 .. Len(ends) + 2
  BY <1>1, <1>2
<1>4. e \in Nat /\ e <= Len(body) /\ ChunkEnd(body, ends, i - 1) \in Nat
  BY <1>3, EndFacts
<1> HIDE DEF e
<1>5. q \in Nat /\ q <= e /\ q \in 0 .. Len(body)
  BY <1>1, <1>2, <1>4
<1>6. SubSeq(body, q + 1, e) \in Bytes /\ Len(SubSeq(body, q + 1, e)) = e - q
  BY <1>1, <1>4, <1>5, SubRun
<1>7. ChunksFrom(body, ends, i + 1) \in Bytes
  BY <1>3, ChunksBytes
<1>8. Ahead(body, ends, q, i) = SubSeq(body, q + 1, e) \o ChunksFrom(body, ends, i + 1)
  BY DEF Ahead, e
<1>9. /\ Ahead(body, ends, q, i) \in Bytes
      /\ Len(Ahead(body, ends, q, i)) = e - q + Len(ChunksFrom(body, ends, i + 1))
  BY <1>6, <1>7, <1>8, ConcatBytes
<1> QED
  BY <1>1, <1>2, <1>3, <1>4, <1>5, <1>6, <1>7, <1>9 DEF e

\* Taking octets of the chunk moves the reader along the body.
Takes(body, ends, q, i) ==
    \A n \in 0 .. ChunkEnd(body, ends, i) - q :
       /\ At(body, ends, q + n, i)
       /\ n <= Len(Ahead(body, ends, q, i))
       /\ SubSeq(Ahead(body, ends, q, i), 1, n) = SubSeq(body, q + 1, q + n)
       /\ Drop(Ahead(body, ends, q, i), n) = Ahead(body, ends, q + n, i)

LEMMA TakeAhead ==
    ASSUME NEW body, NEW ends, Chunking(body, ends), NEW q, NEW i, At(body, ends, q, i)
    PROVE  Takes(body, ends, q, i)
<1> DEFINE e == ChunkEnd(body, ends, i)
           run == SubSeq(body, q + 1, e)
           later == ChunksFrom(body, ends, i + 1)
<1>1. /\ body \in Bytes /\ Len(body) \in Nat /\ Len(ends) \in Nat /\ i \in 1 .. Len(ends) + 1 /\ q \in Nat
      /\ e \in Nat /\ q <= e /\ e <= Len(body) /\ run \in Bytes /\ Len(run) = e - q /\ later \in Bytes
      /\ Len(later) \in Nat /\ Len(Ahead(body, ends, q, i)) = e - q + Len(later)
  BY AheadFacts, NoOctets
<1> SUFFICES ASSUME NEW n \in 0 .. e - q
             PROVE  /\ At(body, ends, q + n, i)
                    /\ n <= Len(Ahead(body, ends, q, i))
                    /\ SubSeq(Ahead(body, ends, q, i), 1, n) = SubSeq(body, q + 1, q + n)
                    /\ Drop(Ahead(body, ends, q, i), n) = Ahead(body, ends, q + n, i)
  BY DEF Takes
<1>2. At(body, ends, q + n, i)
  <2>1. ChunkEnd(body, ends, i - 1) \in Nat
    <3>1. i - 1 \in 0 .. Len(ends) + 1
      BY <1>1
    <3> QED
      BY <3>1, EndFacts
  <2> DEFINE start == ChunkEnd(body, ends, i - 1)
             place == q + n
  <2>2. start \in Nat /\ q \in start .. e
    BY <2>1 DEF At
  <2> HIDE DEF start, e
  <2>3. place \in start .. e
    BY <1>1, <2>2
  <2> HIDE DEF place
  <2> QED
    BY <1>1, <2>3 DEF At, start, e, place
<1>3. Ahead(body, ends, q, i) = run \o later /\ Ahead(body, ends, q + n, i) = SubSeq(body, q + n + 1, e) \o later
  BY DEF Ahead
<1>4. n \in 0 .. Len(run)
  BY <1>1
<1>5. SubSeq(run, 1, n) = SubSeq(body, q + 1, q + n) /\ Drop(run, n) = SubSeq(body, q + n + 1, e)
  <2> HIDE DEF e
  <2> QED
    BY <1>1, InnerRun
<1> HIDE DEF run, later
<1>6. SubSeq(run \o later, 1, n) = SubSeq(run, 1, n) /\ Drop(run \o later, n) = Drop(run, n) \o later
  BY <1>1, <1>4, JoinedRuns
<1>7. n <= Len(Ahead(body, ends, q, i))
  BY <1>1, <1>4
<1> QED
  BY <1>2, <1>3, <1>5, <1>6, <1>7

\* Stepping from the end of a chunk over the header of the next one.
LEMMA NextAhead ==
    ASSUME NEW body, NEW ends, Chunking(body, ends), NEW q, NEW i, At(body, ends, q, i),
           q = ChunkEnd(body, ends, i), i # Len(ends) + 1
    PROVE  LET a == Ahead(body, ends, q, i)
           IN  /\ At(body, ends, q, i + 1)
               /\ a # <<>> /\ Decodes(a) /\ HeaderSize(a[1]) \in {1, 2} /\ HeaderSize(a[1]) <= Len(a)
               /\ a[1].n = ChunkEnd(body, ends, i + 1) - q
               /\ (a[1].kind # "partial") = (i + 1 = Len(ends) + 1)
               /\ Drop(a, HeaderSize(a[1])) = Ahead(body, ends, q, i + 1)
<1> DEFINE j == i + 1
           a == Ahead(body, ends, q, i)
           h == ChunkHeader(body, ends, j)
           b == Ahead(body, ends, q, j)
<1>1. /\ body \in Bytes /\ Len(body) \in Nat /\ Len(ends) \in Nat /\ i \in 1 .. Len(ends) + 1 /\ i \in Nat /\ q \in Nat
      /\ ChunksFrom(body, ends, j) \in Bytes
  BY AheadFacts
<1>2. j \in 1 .. Len(ends) + 1 /\ j \in 0 .. Len(ends) + 1 /\ j - 1 = i /\ ends # <<>>
  <2>1. ends = <<>> => Len(ends) = 0
    OBVIOUS
  <2> QED
    BY <1>1, <2>1
<1>3. a = ChunksFrom(body, ends, j)
  <2>1. SubSeq(body, q + 1, q) = <<>>
    BY <1>1 DEF Bytes
  <2> QED
    BY <1>1, <2>1, NoOctets DEF Ahead
<1> HIDE DEF j
<1>4. ChunkEnd(body, ends, i) <= ChunkEnd(body, ends, j) /\ ChunkEnd(body, ends, j) \in Nat
  <2>1. ChunkEnd(body, ends, j - 1) <= ChunkEnd(body, ends, j)
    BY <1>2, EndFacts
  <2> QED
    BY <1>2, <2>1, EndFacts
<1>5. At(body, ends, q, j)
  BY <1>1, <1>2, <1>4 DEF At
<1>6. /\ h \in Bytes /\ Len(h) = HeaderSize(h[1]) /\ Len(h) \in {1, 2} /\ IsHeader(h[1])
      /\ (h[1].kind # "partial") = (j = Len(ends) + 1)
      /\ h[1].n = ChunkEnd(body, ends, j) - q
  <2>1. /\ h \in Bytes /\ Len(h) = HeaderSize(h[1]) /\ Len(h) \in {1, 2} /\ IsHeader(h[1])
        /\ (h[1].kind # "partial") = (j = Len(ends) + 1)
        /\ h[1].n = ChunkEnd(body, ends, j) - ChunkEnd(body, ends, j - 1)
    BY <1>2, ChunkHeaderFacts
  <2> QED
    BY <1>2, <2>1
<1>7. a = h \o b
  <2>1. ChunksFrom(body, ends, j) = h \o Ahead(body, ends, ChunkEnd(body, ends, j - 1), j)
    BY <1>2, ChunksUnfold
  <2> QED
    BY <1>2, <1>3, <2>1
<1>8. b \in Bytes /\ Len(b) \in Nat
  BY <1>5, AheadFacts, NoOctets
<1> HIDE DEF a, h, b
<1>9. a \in Bytes /\ Len(a) = Len(h) + Len(b)
  BY <1>6, <1>7, <1>8, ConcatBytes
<1>10. Drop(a, Len(h)) = b
  BY <1>6, <1>7, <1>8, JoinedRest
<1>11. a[1] = h[1]
  <2>1. \A n \in 1 .. Len(h) : (h \o b)[n] = h[n]
    BY <1>6, <1>8, ConcatAt
  <2> QED
    BY <1>6, <1>7, <2>1
<1>12. a # <<>>
  BY <1>6, <1>8, <1>9, NoOctets
<1>13. Decodes(a)
  BY <1>6, <1>8, <1>9, <1>11, <1>12 DEF Decodes
<1>14. HeaderSize(a[1]) \in {1, 2} /\ HeaderSize(a[1]) <= Len(a) /\ Drop(a, HeaderSize(a[1])) = b
  BY <1>6, <1>8, <1>9, <1>10, <1>11
<1> QED
  BY <1>5, <1>6, <1>11, <1>12, <1>13, <1>14 DEF a, b, j

\* The last chunk, and the end of it.
LEMMA LastAhead ==
    ASSUME NEW body, NEW ends, Chunking(body, ends), NEW q, NEW i, At(body, ends, q, i)
    PROVE  /\ i = Len(ends) + 1 => ChunkEnd(body, ends, i) = Len(body) /\ Ahead(body, ends, q, i) = Drop(body, q)
           /\ Ahead(body, ends, q, i) = <<>> <=> i = Len(ends) + 1 /\ q = Len(body)
           /\ q < ChunkEnd(body, ends, i) \/ i # Len(ends) + 1 <=> Ahead(body, ends, q, i) # <<>>
<1> DEFINE e == ChunkEnd(body, ends, i)
           a == Ahead(body, ends, q, i)
<1>1. /\ body \in Bytes /\ Len(body) \in Nat /\ Len(ends) \in Nat /\ i \in 1 .. Len(ends) + 1 /\ i \in Nat /\ q \in Nat
      /\ e \in Nat /\ q <= e /\ e <= Len(body) /\ a \in Bytes
      /\ Len(a) = e - q + Len(ChunksFrom(body, ends, i + 1)) /\ ChunksFrom(body, ends, i + 1) \in Bytes
      /\ SubSeq(body, q + 1, e) \in Bytes
  BY AheadFacts
<1>2. i = Len(ends) + 1 => e = Len(body) /\ a = Drop(body, q)
  <2> SUFFICES ASSUME i = Len(ends) + 1 PROVE e = Len(body) /\ a = Drop(body, q)
    OBVIOUS
  <2>1. e = Len(body)
    BY EndFacts
  <2>2. i + 1 = Len(ends) + 2
    BY <1>1
  <2>3. ChunksFrom(body, ends, i + 1) = <<>>
    BY <2>2, ChunksUnfold
  <2>4. a = SubSeq(body, q + 1, e) \o <<>>
    BY <2>3 DEF Ahead
  <2> QED
    BY <1>1, <2>1, <2>4, NoOctets DEF Drop
<1>3. q < e => a # <<>>
  <2>1. Len(ChunksFrom(body, ends, i + 1)) \in Nat
    BY <1>1, NoOctets
  <2> QED
    BY <1>1, <2>1, NoOctets
<1>4. q = e /\ i # Len(ends) + 1 => a # <<>>
  BY NextAhead
<1>5. i = Len(ends) + 1 /\ q = e => a = <<>>
  <2> SUFFICES ASSUME i = Len(ends) + 1, q = e PROVE a = <<>>
    OBVIOUS
  <2>1. a = Drop(body, Len(body)) /\ Len(body) <= Len(body)
    BY <1>1, <1>2
  <2>2. Len(Drop(body, Len(body))) = Len(body) - Len(body) /\ Drop(body, Len(body)) \in Bytes
    BY <1>1, <2>1, DropFacts
  <2> QED
    BY <1>1, <2>1, <2>2, NoOctets
<1> HIDE DEF e, a
<1>6. q < e \/ q = e
  BY <1>1
<1>7. a = <<>> <=> i = Len(ends) + 1 /\ q = Len(body)
  BY <1>1, <1>2, <1>3, <1>4, <1>5, <1>6
<1>8. q < e \/ i # Len(ends) + 1 <=> a # <<>>
  BY <1>1, <1>2, <1>3, <1>4, <1>5, <1>6, <1>7
<1> QED
  BY <1>2, <1>7, <1>8 DEF e, a

-----------------------------------------------------------------------------
(* The outer framing: ensurePending moves along the encrypted packet's body. *)

\* The reader has taken q octets of the encrypted packet's body from the file.
OuterAt(r, body, ends, q, i) ==
    /\ At(body, ends, q, i)
    /\ r.rest = Ahead(body, ends, q, i)
    /\ r.cipherRemaining = Len(body) - q
    /\ (r.seipPartial <=> ends # <<>>)
    /\ ends # <<>> => /\ r.cipherChunkRemaining = ChunkEnd(body, ends, i) - q
                      /\ (r.cipherFinalChunk <=> i = Len(ends) + 1)

\* Steps that read nothing from the file, and steps that only read from it.
SameOuter(s, r) ==
    /\ s.rest = r.rest /\ s.cipherRemaining = r.cipherRemaining /\ s.seipPartial = r.seipPartial
    /\ s.cipherChunkRemaining = r.cipherChunkRemaining /\ s.cipherFinalChunk = r.cipherFinalChunk

SameInner(s, r) ==
    /\ s.phase = r.phase /\ s.innerTag = r.innerTag /\ s.innerPartial = r.innerPartial
    /\ s.innerFinalChunk = r.innerFinalChunk /\ s.remaining = r.remaining
    /\ s.algorithm = r.algorithm /\ s.literal = r.literal /\ s.output = r.output

LEMMA OuterStays ==
    ASSUME NEW r, NEW s, SameOuter(s, r), NEW body, NEW ends, NEW q, NEW i, OuterAt(r, body, ends, q, i)
    PROVE  OuterAt(s, body, ends, q, i)
  BY DEF OuterAt, SameOuter

\* While there is something left in the encrypted packet, ensurePending goes on, over
\* a chunk header or a run of octets; what is waiting and what is still to be read
\* make up the same octets as before.
LEMMA FillOuter ==
    ASSUME NEW r, Sound(r), NEW body, NEW ends, Chunking(body, ends), NEW q, NEW i,
           OuterAt(r, body, ends, q, i), q < Len(body)
    PROVE  \E k \in 0 .. Len(body), j \in 1 .. Len(ends) + 1 :
              /\ OuterAt(Fill(r), body, ends, k, j)
              /\ Fill(r).pending \o Drop(body, k) = r.pending \o Drop(body, q)
              /\ SameInner(Fill(r), r)
<1> DEFINE e == ChunkEnd(body, ends, i)
           a == Ahead(body, ends, q, i)
<1>1. /\ r \in Readers /\ r.rest \in Bytes /\ r.pending \in Bytes /\ r.cipherRemaining \in Nat
      /\ r.cipherChunkRemaining \in Nat /\ Len(r.rest) \in Nat
  BY ReaderFields
<1>2. /\ At(body, ends, q, i) /\ r.rest = a /\ r.cipherRemaining = Len(body) - q /\ (r.seipPartial <=> ends # <<>>)
      /\ ends # <<>> => r.cipherChunkRemaining = e - q /\ (r.cipherFinalChunk <=> i = Len(ends) + 1)
  BY DEF OuterAt
<1>3. /\ body \in Bytes /\ Len(body) \in Nat /\ Len(ends) \in Nat /\ i \in 1 .. Len(ends) + 1 /\ q \in Nat
      /\ e \in Nat /\ q <= e /\ e <= Len(body) /\ q \in 0 .. Len(body) /\ i \in Nat
  BY <1>2, AheadFacts
<1>4. i = Len(ends) + 1 => e = Len(body)
  BY <1>2, LastAhead
<1> HIDE DEF e
<1>5. r.cipherRemaining > 0 /\ r.cipherRemaining # 0
  BY <1>2, <1>3
<1>6. CASE r.seipPartial /\ r.cipherChunkRemaining = 0
  <2>1. ends # <<>> /\ q = e /\ i # Len(ends) + 1 /\ ~r.cipherFinalChunk
    BY <1>2, <1>3, <1>4, <1>6
  <2> DEFINE j == i + 1
             h == HeaderSize(a[1])
  <2>2. /\ At(body, ends, q, j) /\ Decodes(a) /\ a[1].n = ChunkEnd(body, ends, j) - q
        /\ (a[1].kind # "partial") = (j = Len(ends) + 1) /\ Drop(a, h) = Ahead(body, ends, q, j)
    BY <1>2, <2>1, NextAhead DEF e
  <2>3. j \in 1 .. Len(ends) + 1
    BY <1>3, <2>1
  <2> DEFINE left == ChunkEnd(body, ends, j) - q
             final == (j = Len(ends) + 1)
             rest == Ahead(body, ends, q, j)
  <2>4. Fill(r) = [r EXCEPT !.cipherChunkRemaining = a[1].n, !.cipherFinalChunk = a[1].kind # "partial", !.rest = Drop(a, h)]
    <3>1. ~(r.cipherFinalChunk \/ ~Decodes(r.rest))
      BY <1>2, <2>1, <2>2
    <3>2. Fill(r) = [r EXCEPT !.cipherChunkRemaining = r.rest[1].n, !.cipherFinalChunk = r.rest[1].kind # "partial",
                              !.rest = Drop(@, HeaderSize(r.rest[1]))]
      <4> HIDE DEF a, e
      <4> QED
        BY <1>5, <1>6, <3>1 DEF Fill
    <3> QED
      BY <1>2, <3>2
  <2>5. Fill(r) = [r EXCEPT !.cipherChunkRemaining = left, !.cipherFinalChunk = final, !.rest = rest]
    BY <2>2, <2>4
  <2>6. left \in Nat
    <3>1. ChunkEnd(body, ends, j) \in Nat /\ q <= ChunkEnd(body, ends, j)
      BY <2>2, AheadFacts
    <3> QED
      BY <1>3, <3>1
  <2> DEFINE s == [r EXCEPT !.cipherChunkRemaining = left, !.cipherFinalChunk = final, !.rest = rest]
  <2> HIDE DEF left, final, rest, a, e, j
  <2>7. /\ s.rest = rest /\ s.cipherRemaining = r.cipherRemaining /\ s.seipPartial = r.seipPartial
        /\ s.cipherChunkRemaining = left /\ s.cipherFinalChunk = final /\ s.pending = r.pending
    BY <1>1 DEF Readers
  <2>8. SameInner(s, r)
    BY <1>1 DEF Readers, SameInner
  <2>9. OuterAt(s, body, ends, q, j)
    BY <1>2, <2>2, <2>7 DEF OuterAt, left, final, rest
  <2> QED
    BY <1>3, <2>3, <2>5, <2>7, <2>8, <2>9
<1>7. CASE ~(r.seipPartial /\ r.cipherChunkRemaining = 0)
  <2> DEFINE take == Min(ReadCeiling(r) \cup {Len(r.rest)})
             k == q + take
  <2>1. /\ q < e /\ e - q <= r.cipherRemaining /\ e - q <= Len(r.rest)
        /\ r.seipPartial => r.cipherChunkRemaining = e - q
    <3>1. q < e
      <4>1. CASE ends = <<>>
        <5>1. Len(ends) = 0
          BY <4>1
        <5> QED
          BY <1>3, <1>4, <5>1
      <4>2. CASE ends # <<>>
        BY <1>2, <1>3, <1>7, <4>2
      <4> QED
        BY <4>1, <4>2
    <3>2. Len(a) = e - q + Len(ChunksFrom(body, ends, i + 1)) /\ ChunksFrom(body, ends, i + 1) \in Bytes
      BY <1>2, AheadFacts DEF e
    <3>3. Len(ChunksFrom(body, ends, i + 1)) \in Nat
      BY <3>2, NoOctets
    <3> QED
      BY <1>2, <1>3, <3>1, <3>2, <3>3
  <2>2. take \in Nat /\ take # 0 /\ take <= e - q /\ take <= r.cipherRemaining
    <3> DEFINE counts == ReadCeiling(r) \cup {Len(r.rest)}
    <3>1. counts \in SUBSET Nat /\ counts # {} /\ r.cipherRemaining \in counts
      BY <1>1, ReaderAssumption DEF ReadCeiling
    <3>2. \A n \in counts : n # 0
      <4>1. Len(r.rest) # 0
        BY <1>3, <2>1
      <4>2. \A n \in ReadCeiling(r) : n # 0
        BY <1>5, <1>7, ReaderAssumption DEF ReadCeiling
      <4> QED
        BY <4>1, <4>2
    <3>3. e - q \in counts
      <4>1. CASE ends = <<>>
        <5>1. Len(ends) = 0
          BY <4>1
        <5>2. r.cipherRemaining = e - q
          BY <1>2, <1>3, <1>4, <5>1
        <5> QED
          BY <3>1, <5>2
      <4>2. CASE ends # <<>>
        BY <1>2, <2>1, <4>2 DEF ReadCeiling
      <4> QED
        BY <4>1, <4>2
    <3> HIDE DEF counts
    <3>4. Min(counts) \in counts /\ \A n \in counts : Min(counts) <= n
      BY <3>1, MinOfCounts
    <3> QED
      BY <3>1, <3>2, <3>3, <3>4 DEF counts
  <2> DEFINE run == SubSeq(body, q + 1, k)
             more == r.pending \o run
             rest == Ahead(body, ends, k, i)
             left == r.cipherRemaining - take
             chunk == IF r.seipPartial THEN r.cipherChunkRemaining - take ELSE r.cipherChunkRemaining
  <2>3. Fill(r) = [r EXCEPT !.pending = @ \o SubSeq(r.rest, 1, take), !.rest = Drop(@, take),
                            !.cipherRemaining = @ - take,
                            !.cipherChunkRemaining = IF r.seipPartial THEN @ - take ELSE @]
    <3>1. ~(r.cipherRemaining > 0 /\ r.seipPartial /\ r.cipherChunkRemaining = 0)
      BY <1>7
    <3> QED
      BY <1>5, <2>2, <3>1 DEF Fill
  <2> HIDE DEF take, e
  <2>4. At(body, ends, k, i) /\ SubSeq(a, 1, take) = run /\ Drop(a, take) = rest
    <3>1. Takes(body, ends, q, i)
      BY <1>2, TakeAhead
    <3>2. take \in 0 .. e - q
      BY <1>3, <2>2
    <3> QED
      BY <3>1, <3>2 DEF e, Takes
  <2>5. Fill(r) = [r EXCEPT !.pending = more, !.rest = rest, !.cipherRemaining = left, !.cipherChunkRemaining = chunk]
    BY <1>2, <2>3, <2>4
  <2>6. /\ k \in Nat /\ k <= Len(body) /\ k \in 0 .. Len(body) /\ q <= k
        /\ left = Len(body) - k
        /\ r.seipPartial => chunk = e - k
    <3>1. k \in Nat /\ k <= Len(body) /\ q <= k
      BY <1>3, <2>2
    <3>2. left = Len(body) - k
      BY <1>2, <1>3, <2>2
    <3>3. r.seipPartial => chunk = e - k
      BY <1>3, <2>1, <2>2
    <3> QED
      BY <1>3, <3>1, <3>2, <3>3
  <2>7. more \o Drop(body, k) = r.pending \o Drop(body, q)
    <3>1. run \in Bytes /\ Drop(body, k) \in Bytes
      <4> HIDE DEF k
      <4> QED
        BY <1>3, <2>6, SubRun, DropFacts
    <3>2. run \o Drop(body, k) = Drop(body, q)
      <4> DEFINE tail == Drop(body, q)
                 n == Len(body) - q
      <4>1. take \in 0 .. n /\ n \in Nat
        BY <1>2, <1>3, <2>2
      <4>2. tail \in Bytes /\ Len(tail) = n
        BY <1>3, DropFacts
      <4>3. SubSeq(tail, 1, take) = run
        BY <1>3, <4>1, InnerRun DEF Drop
      <4>4. Drop(tail, take) = Drop(body, k)
        BY <1>3, <2>2, <2>6, DropDrop
      <4> HIDE DEF tail
      <4> QED
        BY <4>1, <4>2, <4>3, <4>4, TakeDrop DEF tail
    <3> HIDE DEF run
    <3>3. (r.pending \o run) \o Drop(body, k) = r.pending \o (run \o Drop(body, k))
      BY <1>1, <3>1, ConcatAssoc
    <3> QED
      BY <3>2, <3>3
  <2> DEFINE s == [r EXCEPT !.pending = more, !.rest = rest, !.cipherRemaining = left, !.cipherChunkRemaining = chunk]
  <2> HIDE DEF more, rest, left, chunk, k
  <2>8. /\ s.rest = rest /\ s.cipherRemaining = left /\ s.seipPartial = r.seipPartial
        /\ s.cipherChunkRemaining = chunk /\ s.cipherFinalChunk = r.cipherFinalChunk /\ s.pending = more
    BY <1>1 DEF Readers
  <2>9. SameInner(s, r)
    BY <1>1 DEF Readers, SameInner
  <2>10. Fill(r) = s
    BY <2>5
  <2> HIDE DEF s
  <2>11. OuterAt(s, body, ends, k, i)
    <3>1. (s.seipPartial <=> ends # <<>>) /\ s.cipherRemaining = Len(body) - k /\ s.rest = Ahead(body, ends, k, i)
      <4>1. s.cipherRemaining = Len(body) - k
        BY <2>6, <2>8
      <4>2. s.seipPartial <=> ends # <<>>
        BY <1>2, <2>8
      <4> QED
        BY <2>8, <4>1, <4>2 DEF rest
    <3>2. ends # <<>> => s.cipherChunkRemaining = e - k
      BY <1>2, <2>6, <2>8
    <3>3. ends # <<>> => (s.cipherFinalChunk <=> i = Len(ends) + 1)
      BY <1>2, <2>8
    <3> QED
      BY <2>4, <3>1, <3>2, <3>3 DEF OuterAt, e
  <2> QED
    BY <1>3, <2>6, <2>7, <2>8, <2>9, <2>10, <2>11
<1> QED
  BY <1>6, <1>7

-----------------------------------------------------------------------------
(* The innermost framing: drainDecoded in a literal packet inside a compressed one. *)

\* The literal packet inside a compressed one, of which the decompressor has yet to
\* put out t: its header is not yet parsed, ...
HeaderAhead(l, packet, t, out) ==
    /\ l = [NoLiteral EXCEPT !.plain = l.plain]
    /\ l.plain \o t = packet
    /\ out = <<>>

\* ... or q octets of its body have been found and p of them are disposed of, the
\* first as the prefix and the others as content.
LiteralAt(l, body, framing, t, out, q, i, p) ==
    /\ At(body, framing.ends, q, i)
    /\ p \in 0 .. q
    /\ l.headerParsed
    /\ (l.prefixParsed <=> p >= 1)
    /\ (l.partial <=> framing.ends # <<>>)
    /\ (l.indeterminate <=> framing.ends # <<>> \/ framing.form = "indeterminate")
    /\ l.raw \o t = Ahead(body, framing.ends, q, i)
    /\ l.plain = SubSeq(body, p + 1, q)
    /\ framing.ends = <<>> => l.raw = <<>>
    /\ framing.ends # <<>> => l.chunkRemaining = ChunkEnd(body, framing.ends, i) - q
    /\ framing.ends # <<>> => (l.finalChunk <=> i = Len(framing.ends) + 1)
    /\ ~l.indeterminate => l.contentRemaining = Len(body) - p
    /\ out = SubSeq(body, 2, p)

Decoded(l, body, framing, t, out) ==
    \/ HeaderAhead(l, Packet(Literal, body, framing), t, out)
    \/ \E q \in 0 .. Len(body), i \in 1 .. Len(framing.ends) + 1 :
          \E p \in 0 .. q : LiteralAt(l, body, framing, t, out, q, i, p)

LEMMA RunsMeet ==
    ASSUME NEW a \in Bytes, NEW from \in Nat, NEW mid \in Nat, NEW to \in Nat,
           from <= mid, mid <= to, to <= Len(a)
    PROVE  SubSeq(a, from + 1, mid) \o SubSeq(a, mid + 1, to) = SubSeq(a, from + 1, to)
<1> DEFINE b == SubSeq(a, from + 1, to)
           n == mid - from
<1>1. n \in 0 .. to - from /\ n \in Nat /\ from + n = mid
  OBVIOUS
<1>2. b \in Bytes /\ Len(b) = to - from
  BY SubRun
<1>3. SubSeq(b, 1, n) = SubSeq(a, from + 1, from + n) /\ Drop(b, n) = SubSeq(a, from + n + 1, to)
  <2> HIDE DEF n
  <2> QED
    BY <1>1, InnerRun
<1>4. SubSeq(b, 1, n) \o Drop(b, n) = b
  <2> HIDE DEF b, n
  <2> QED
    BY <1>1, <1>2, TakeDrop
<1> QED
  BY <1>1, <1>3, <1>4

LEMMA TailDrops ==
    ASSUME NEW a \in Bytes, a # <<>>
    PROVE  Tail(a) = Drop(a, 1) /\ Tail(a) \in Bytes /\ Len(Tail(a)) = Len(a) - 1 /\ Len(a) >= 1
<1>1. Tail(a) = SubSeq(a, 2, Len(a)) /\ Tail(a) \in Bytes /\ Len(Tail(a)) = Len(a) - 1 /\ Len(a) >= 1
  BY TailIsSubSeq DEF Bytes
<1> QED
  BY <1>1 DEF Drop

\* What a literal packet's fields are before its header is parsed.
LEMMA HeaderAheadFields ==
    ASSUME NEW l, NEW packet, NEW t, NEW out, HeaderAhead(l, packet, t, out)
    PROVE  /\ ~l.headerParsed /\ ~l.prefixParsed /\ ~l.indeterminate /\ ~l.partial /\ ~l.finalChunk
           /\ l.chunkRemaining = 0 /\ l.contentRemaining = 0 /\ l.raw = <<>>
           /\ l.plain \o t = packet /\ out = <<>>
<1> DEFINE plain == l.plain
<1>1. l = [NoLiteral EXCEPT !.plain = plain] /\ plain \o t = packet /\ out = <<>>
  BY DEF HeaderAhead
<1> HIDE DEF plain
<1>2. l = [headerParsed |-> FALSE, prefixParsed |-> FALSE, indeterminate |-> FALSE,
           partial |-> FALSE, finalChunk |-> FALSE, chunkRemaining |-> 0,
           contentRemaining |-> 0, raw |-> <<>>, plain |-> plain]
  BY <1>1 DEF NoLiteral
<1> QED
  BY <1>1, <1>2 DEF plain

\* The decompressor puts out the next octets of the packet.
Inflates(l, run) ==
    IF l.partial THEN [l EXCEPT !.raw = l.raw \o run] ELSE [l EXCEPT !.plain = l.plain \o run]

\* Taking octets from the first part of a run that is cut in two.
Splits(a, b, whole) ==
    \A n \in 0 .. Len(a) : SubSeq(a, 1, n) = SubSeq(whole, 1, n) /\ Drop(a, n) \o b = Drop(whole, n)

LEMMA SplitRun ==
    ASSUME NEW a \in Bytes, NEW b \in Bytes, NEW whole, a \o b = whole
    PROVE  Splits(a, b, whole)
<1>1. ASSUME NEW n \in 0 .. Len(a)
      PROVE  SubSeq(a, 1, n) = SubSeq(whole, 1, n) /\ Drop(a, n) \o b = Drop(whole, n)
  BY CutRun
<1> QED
  BY <1>1 DEF Splits

\* What was inflated of a body that is not in chunks.
Starts(body, ends, a, t) ==
    /\ Len(a) \in 0 .. Len(body) /\ At(body, ends, Len(a), 1)
    /\ a = SubSeq(body, 1, Len(a)) /\ t = Ahead(body, ends, Len(a), 1)

LEMMA BodyStart ==
    ASSUME NEW body, NEW ends, Chunking(body, ends), ends = <<>>, NEW a \in Bytes, NEW t \in Bytes,
           a \o t = Ahead(body, ends, 0, 1)
    PROVE  Starts(body, ends, a, t)
<1> DEFINE whole == Ahead(body, ends, 0, 1)
           c == Len(a)
<1>1. Len(ends) = 0 /\ body \in Bytes /\ Len(body) \in Nat /\ c \in Nat /\ Len(t) \in Nat
  BY EndFacts, NoOctets
<1>2. ChunkEnd(body, ends, 1) = Len(body) /\ ChunkEnd(body, ends, 1 - 1) = 0
  BY <1>1 DEF ChunkEnd
<1>3. At(body, ends, 0, 1)
  BY <1>1, <1>2 DEF At
<1>4. whole = body
  <2>1. whole = Drop(body, 0)
    BY <1>1, <1>3, LastAhead
  <2> QED
    BY <1>1, <2>1, NoOctets
<1>5. Len(a \o t) = c + Len(t)
  BY ConcatBytes
<1>6. c \in 0 .. Len(body) /\ c \in 0 .. ChunkEnd(body, ends, 1) - 0 /\ 0 + c = c /\ 0 + 1 = 1
  <2>1. Len(body) = c + Len(t)
    BY <1>4, <1>5
  <2> QED
    BY <1>1, <1>2, <2>1
<1>7. a = SubSeq(whole, 1, c) /\ t = Drop(whole, c)
  <2>1. Drop(a \o t, Len(a)) = t /\ SubSeq(a \o t, 1, Len(a)) = a
    BY JoinedRest
  <2> QED
    BY <2>1
<1>8. Takes(body, ends, 0, 1)
  BY <1>3, TakeAhead
<1> HIDE DEF whole, c
<1>9. At(body, ends, 0 + c, 1) /\ SubSeq(whole, 1, c) = SubSeq(body, 0 + 1, 0 + c) /\ Drop(whole, c) = Ahead(body, ends, 0 + c, 1)
  BY <1>6, <1>8 DEF Takes, whole
<1> QED
  BY <1>6, <1>7, <1>9 DEF c, Starts

LEMMA ContentMeets ==
    ASSUME NEW body \in Bytes, NEW p \in Nat, NEW q \in Nat, 1 <= p, p <= q, q <= Len(body)
    PROVE  SubSeq(body, 2, p) \o SubSeq(body, p + 1, q) = SubSeq(body, 2, q)
<1>1. SubSeq(body, 1 + 1, p) \o SubSeq(body, p + 1, q) = SubSeq(body, 1 + 1, q)
  BY RunsMeet
<1> QED
  BY <1>1

\* What is left once the content that was decoded is written.
Written(s, l) ==
    /\ s \in {[l EXCEPT !.plain = <<>>], [l EXCEPT !.plain = <<>>, !.contentRemaining = @ - Len(l.plain)]}
    /\ ~l.indeterminate => s = [l EXCEPT !.plain = <<>>, !.contentRemaining = @ - Len(l.plain)]

-----------------------------------------------------------------------------
(* Compression: what was never deflated comes back from the decompressor. *)

Plain == Seq({octet \in Octet : ~octet.deflated})

LEMMA PlainRuns ==
    /\ \A a \in Plain : a \in Bytes /\ \A n \in 1 .. Len(a) : ~a[n].deflated
    /\ \A a \in Plain, b \in Plain : a \o b \in Plain
    /\ <<>> \in Plain
    /\ \A kind \in Kinds, n \in Nat : <<An(kind, n)>> \in Plain
<1> DEFINE P == {octet \in Octet : ~octet.deflated}
<1>1. ASSUME NEW kind \in Kinds, NEW n \in Nat
      PROVE  <<An(kind, n)>> \in Plain
  <2>1. An(kind, n) \in Octet /\ ~An(kind, n).deflated
    BY AnOctet DEF An
  <2> DEFINE x == An(kind, n)
  <2>2. x \in P
    BY <2>1
  <2> HIDE DEF x, P
  <2>3. <<x>> \in Seq(P)
    BY <2>2
  <2> QED
    BY <2>3 DEF x, P, Plain
<1>2. ASSUME NEW a \in Plain
      PROVE  a \in Bytes /\ \A n \in 1 .. Len(a) : ~a[n].deflated
  <2>1. a \in Seq(P) /\ P \subseteq Octet
    BY DEF Plain
  <2>2. \A n \in 1 .. Len(a) : a[n] \in P
    BY <2>1
  <2>3. a \in Seq(Octet)
    <3> HIDE DEF P
    <3> QED
      BY <2>1
  <2> QED
    BY <2>2, <2>3 DEF Bytes
<1>3. \A a \in Plain, b \in Plain : a \o b \in Plain
  <2> HIDE DEF P
  <2>1. \A a \in Seq(P), b \in Seq(P) : a \o b \in Seq(P)
    OBVIOUS
  <2> QED
    BY <2>1 DEF Plain, P
<1>4. <<>> \in Plain
  BY DEF Plain
<1> QED
  BY <1>1, <1>2, <1>3, <1>4

LEMMA PlainSubRun ==
    ASSUME NEW a \in Plain, NEW from \in Nat, NEW to \in Nat, from <= to, to <= Len(a)
    PROVE  SubSeq(a, from + 1, to) \in Plain
<1> DEFINE P == {octet \in Octet : ~octet.deflated}
<1> HIDE DEF P
<1>1. a \in Seq(P) /\ Len(a) \in Nat
  BY DEF Plain, P
<1>2. SubSeq(a, from + 1, to) \in Seq(P)
  BY <1>1
<1> QED
  BY <1>2 DEF Plain, P

LEMMA PlainLength ==
    ASSUME NEW n \in Nat
    PROVE  appendNewFormatLength(n) \in Plain
<1>1. n % LengthModulus \in Nat
  BY ReaderAssumption
<1> DEFINE rest == n % LengthModulus
<1> HIDE DEF rest
<1>2. <<An("short", n)>> \in Plain /\ <<An("long", rest)>> \in Plain /\ <<An("more", 0)>> \in Plain
  BY <1>1, PlainRuns DEF Kinds, rest
<1>3. <<An("long", rest), An("more", 0)>> = <<An("long", rest)>> \o <<An("more", 0)>>
  OBVIOUS
<1>4. <<An("long", rest), An("more", 0)>> \in Plain
  BY <1>2, <1>3, PlainRuns
<1> QED
  BY <1>2, <1>4 DEF appendNewFormatLength, rest

LEMMA PlainChunks ==
    ASSUME NEW body, NEW ends, Chunking(body, ends), body \in Plain
    PROVE  \A i \in 1 .. Len(ends) + 2 : ChunksFrom(body, ends, i) \in Plain
<1> DEFINE L == Len(ends) + 2
           Bad == {i \in 1 .. L : ChunksFrom(body, ends, i) \notin Plain}
<1>1. L \in Nat /\ Len(ends) \in Nat /\ body \in Bytes /\ Len(body) \in Nat
  BY EndFacts
<1>2. Bad = {}
  <2> SUFFICES ASSUME Bad # {} PROVE FALSE
    OBVIOUS
  <2>1. PICK k \in Bad : \A m \in Bad : m <= k
    <3>1. Bad \in SUBSET Nat /\ \A m \in Bad : m <= L
      BY <1>1
    <3> HIDE DEF Bad
    <3> QED
      BY <1>1, <3>1, GreatestNatural
  <2>2. k \in 1 .. L /\ ChunksFrom(body, ends, k) \notin Plain
    BY <2>1
  <2>3. CASE k = L
    BY <2>2, <2>3, ChunksUnfold, PlainRuns
  <2>4. CASE k # L
    <3>1. k \in 1 .. Len(ends) + 1 /\ k + 1 \in 1 .. L /\ k + 1 \notin Bad
      BY <1>1, <2>1, <2>2, <2>4
    <3>2. ChunksFrom(body, ends, k + 1) \in Plain
      BY <3>1
    <3> DEFINE a == ChunkEnd(body, ends, k - 1)
               b == ChunkEnd(body, ends, k)
    <3>3. a \in Nat /\ b \in Nat /\ a <= b /\ b <= Len(body)
      <4>1. k \in 0 .. Len(ends) + 1 /\ k - 1 \in 0 .. Len(ends) + 1
        BY <1>1, <3>1
      <4> QED
        BY <3>1, <4>1, EndFacts
    <3>4. ChunksFrom(body, ends, k) = ChunkHeader(body, ends, k) \o (SubSeq(body, a + 1, b) \o ChunksFrom(body, ends, k + 1))
      BY <3>1, ChunksUnfold DEF Ahead
    <3>5. ChunkHeader(body, ends, k) \in Plain
      <4> DEFINE length == b - a
      <4>1. length \in Nat
        BY <3>3
      <4>2. ChunkHeader(body, ends, k) = IF k <= Len(ends) THEN <<An("partial", length)>> ELSE appendNewFormatLength(length)
        BY DEF ChunkHeader
      <4> HIDE DEF length
      <4>3. <<An("partial", length)>> \in Plain
        BY <4>1, PlainRuns DEF Kinds
      <4> QED
        BY <4>1, <4>2, <4>3, PlainLength
    <3> HIDE DEF a, b
    <3>6. SubSeq(body, a + 1, b) \in Plain
      BY <3>3, PlainSubRun
    <3> QED
      BY <2>2, <3>2, <3>4, <3>5, <3>6, PlainRuns
  <2> QED
    BY <2>3, <2>4
<1> QED
  BY <1>2

\* Deflating and then inflating what was not deflated changes nothing.
LEMMA InflatesRun ==
    ASSUME NEW a \in Plain, NEW from \in Nat, NEW to \in Nat, from <= to, to <= Len(a)
    PROVE  /\ Deflated(a) \in Bytes /\ Len(Deflated(a)) = Len(a)
           /\ Inflated(SubSeq(Deflated(a), from + 1, to)) = SubSeq(a, from + 1, to)
<1>1. a \in Bytes /\ Len(a) \in Nat /\ DOMAIN a = 1 .. Len(a) /\ \A n \in 1 .. Len(a) : a[n] \in Octet /\ ~a[n].deflated
  <2>1. a \in Bytes /\ \A n \in 1 .. Len(a) : ~a[n].deflated
    BY PlainRuns
  <2> QED
    BY <2>1 DEF Bytes
<1> DEFINE b == Deflated(a)
           c == SubSeq(b, from + 1, to)
           d == SubSeq(a, from + 1, to)
           e == Inflated(c)
<1>2. b \in Bytes /\ Len(b) = Len(a)
  BY <1>1, DeflatedBytes
<1>3. \A n \in 1 .. Len(a) : b[n] = [a[n] EXCEPT !.deflated = TRUE]
  BY <1>1 DEF Deflated
<1> HIDE DEF b
<1>4. c \in Bytes /\ Len(c) = to - from /\ \A n \in 1 .. to - from : c[n] = b[from + n]
  BY <1>2, SubRun
<1>5. d \in Bytes /\ Len(d) = to - from /\ \A n \in 1 .. to - from : d[n] = a[from + n]
  BY <1>1, SubRun
<1> HIDE DEF c, d
<1>6. e \in Bytes /\ Len(e) = to - from
  BY <1>4, InflatedBytes
<1>7. \A n \in 1 .. to - from : e[n] = [c[n] EXCEPT !.deflated = FALSE]
  BY <1>4 DEF Inflated, Bytes
<1>8. ASSUME NEW n \in 1 .. to - from
      PROVE  e[n] = d[n]
  <2> DEFINE x == a[from + n]
  <2>1. from + n \in 1 .. Len(a)
    BY <1>1
  <2>2. x \in Octet /\ ~x.deflated
    BY <1>1, <2>1
  <2>3. d[n] = x /\ c[n] = b[from + n]
    BY <1>4, <1>5
  <2>4. b[from + n] = [x EXCEPT !.deflated = TRUE]
    BY <1>3, <2>1
  <2> HIDE DEF x, e
  <2>5. e[n] = [c[n] EXCEPT !.deflated = FALSE]
    BY <1>7
  <2>6. e[n] = [[x EXCEPT !.deflated = TRUE] EXCEPT !.deflated = FALSE]
    BY <2>3, <2>4, <2>5
  <2>7. [[x EXCEPT !.deflated = TRUE] EXCEPT !.deflated = FALSE] = x
    BY <2>2 DEF Octet
  <2> QED
    BY <2>3, <2>6, <2>7
<1>9. e = d
  <2>1. \A n \in 1 .. Len(e) : e[n] = d[n]
    BY <1>6, <1>8
  <2> HIDE DEF e
  <2> QED
    BY <1>5, <1>6, <2>1, EqualRuns
<1> QED
  BY <1>2, <1>9 DEF b, c, d

Mdc == <<An("mdc", 1)>>

\* A change of phase leaves the rest of the reader alone.
LEMMA PhaseFields ==
    ASSUME NEW s \in Readers, NEW phase
    PROVE  LET n == [s EXCEPT !.phase = phase]
           IN  /\ n.phase = phase /\ n.pending = s.pending /\ n.output = s.output /\ SameOuter(n, s)
               /\ n.innerTag = s.innerTag /\ n.remaining = s.remaining /\ n.innerPartial = s.innerPartial
               /\ n.innerFinalChunk = s.innerFinalChunk /\ n.literal = s.literal /\ n.algorithm = s.algorithm
  BY DEF Readers, SameOuter

\* consumeForHash moves along what the encrypted packet still holds.
LEMMA ConsumeFields ==
    ASSUME NEW r \in Readers, NEW n \in 0 .. Len(r.pending)
    PROVE  LET c == Consume(r, n)
           IN  /\ c \in Readers /\ c.pending = Drop(r.pending, n) /\ c.streamPos = r.streamPos + n
               /\ SameOuter(c, r) /\ c.output = r.output /\ c.phase = r.phase
               /\ c.innerTag = r.innerTag /\ c.remaining = r.remaining /\ c.innerPartial = r.innerPartial
               /\ c.innerFinalChunk = r.innerFinalChunk /\ c.literal = r.literal /\ c.algorithm = r.algorithm
<1>1. r.pending \in Bytes /\ r.streamPos \in Nat
  BY DEF Readers
<1>2. n \in Nat /\ n <= Len(r.pending) /\ Len(r.pending) \in Nat
  BY <1>1, NoOctets
<1> DEFINE left == Drop(r.pending, n)
           pos == r.streamPos + n
<1>3. left \in Bytes /\ pos \in Nat
  <2>1. left \in Bytes
    BY <1>1, DropFacts
  <2> QED
    BY <1>1, <1>2, <2>1
<1>4. Consume(r, n) = [r EXCEPT !.pending = left, !.streamPos = pos]
  BY DEF Consume
<1> HIDE DEF left, pos
<1>5. [r EXCEPT !.pending = left, !.streamPos = pos] \in Readers
  BY <1>3 DEF Readers
<1>6. LET c == [r EXCEPT !.pending = left, !.streamPos = pos]
      IN  /\ c.pending = left /\ c.streamPos = pos
          /\ SameOuter(c, r) /\ c.output = r.output /\ c.phase = r.phase
          /\ c.innerTag = r.innerTag /\ c.remaining = r.remaining /\ c.innerPartial = r.innerPartial
          /\ c.innerFinalChunk = r.innerFinalChunk /\ c.literal = r.literal /\ c.algorithm = r.algorithm
  BY DEF Readers, SameOuter
<1> QED
  BY <1>4, <1>5, <1>6 DEF left, pos

LEMMA Unread ==
    ASSUME NEW r, Sound(r), NEW w \in Bytes, NEW u, r.pending \o w = u
    PROVE  /\ u \in Bytes /\ Len(u) \in Nat /\ Len(r.pending) \in Nat /\ Len(r.pending) <= Len(u)
           /\ Splits(r.pending, w, u)
           /\ Len(r.pending) >= 1 => r.pending[1] = u[1]
           /\ Len(r.pending) >= 2 => r.pending[2] = u[2]
           /\ r.cipherRemaining = Len(w) => Len(u) = r.encLength - r.streamPos
           /\ r.pending # <<>> <=> Len(r.pending) >= 1
<1> DEFINE p == r.pending
<1>1. p \in Bytes /\ Len(p) \in Nat /\ r.cipherRemaining \in Nat /\ r.encLength \in Nat /\ r.streamPos \in Nat
  BY ReaderFields
<1>2. Len(w) \in Nat
  BY NoOctets
<1>3. u \in Bytes /\ Len(u) = Len(p) + Len(w)
  BY <1>1, ConcatBytes
<1>4. Splits(p, w, u)
  BY <1>1, SplitRun
<1>5. (Len(p) >= 1 => p[1] = u[1]) /\ (Len(p) >= 2 => p[2] = u[2])
  <2>1. 0 \in 0 .. Len(p)
    BY <1>1
  <2> QED
    BY <1>1, <2>1, CutRun
<1>6. r.streamPos + Len(p) + r.cipherRemaining = r.encLength
  BY DEF Sound, Balanced
<1>7. p # <<>> <=> Len(p) >= 1
  BY <1>1, NoOctets
<1>8. /\ Len(u) \in Nat /\ Len(p) <= Len(u)
      /\ r.cipherRemaining = Len(w) => Len(u) = r.encLength - r.streamPos
  <2> DEFINE a == Len(p)
             b == Len(w)
             c == Len(u)
             x == r.cipherRemaining
             y == r.streamPos
             z == r.encLength
  <2>1. a \in Nat /\ b \in Nat /\ x \in Nat /\ y \in Nat /\ z \in Nat /\ c = a + b /\ y + a + x = z
    BY <1>1, <1>2, <1>3, <1>6
  <2> HIDE DEF a, b, c, x, y, z
  <2>2. c \in Nat /\ a <= c /\ (x = b => c = z - y)
    BY <2>1
  <2> QED
    BY <2>2 DEF a, b, c, x, y, z
<1> QED
  BY <1>1, <1>3, <1>4, <1>5, <1>7, <1>8

LEMMA MdcFacts == Mdc \in Bytes /\ Len(Mdc) = 1 /\ Mdc[1] = An("mdc", 1)
<1>1. An("mdc", 1) \in Octet
  BY AnOctet DEF Kinds
<1> QED
  BY <1>1 DEF Mdc, Bytes

\* Taking octets of the inner packet's body from what the encrypted packet holds.
InnerTakes(u, body, ends, q, i) ==
    \A n \in 0 .. ChunkEnd(body, ends, i) - q :
       /\ At(body, ends, q + n, i)
       /\ SubSeq(u, 1, n) = SubSeq(body, q + 1, q + n)
       /\ Drop(u, n) = Ahead(body, ends, q + n, i) \o Mdc

LEMMA TakeInner ==
    ASSUME NEW body, NEW ends, Chunking(body, ends), NEW q, NEW i, At(body, ends, q, i),
           NEW u, u = Ahead(body, ends, q, i) \o Mdc
    PROVE  InnerTakes(u, body, ends, q, i)
<1> DEFINE a == Ahead(body, ends, q, i)
           e == ChunkEnd(body, ends, i)
<1>1. Takes(body, ends, q, i)
  BY TakeAhead
<1>2. a \in Bytes /\ Len(a) \in Nat /\ Mdc \in Bytes /\ e \in Nat /\ q \in Nat
  BY AheadFacts, NoOctets, MdcFacts
<1>3. ASSUME NEW n \in 0 .. e - q
      PROVE  /\ At(body, ends, q + n, i)
             /\ SubSeq(u, 1, n) = SubSeq(body, q + 1, q + n)
             /\ Drop(u, n) = Ahead(body, ends, q + n, i) \o Mdc
  <2>1. /\ At(body, ends, q + n, i) /\ n <= Len(a)
        /\ SubSeq(a, 1, n) = SubSeq(body, q + 1, q + n)
        /\ Drop(a, n) = Ahead(body, ends, q + n, i)
    BY <1>1, <1>3 DEF Takes
  <2>2. n \in 0 .. Len(a)
    BY <1>2, <2>1
  <2> HIDE DEF a
  <2>3. SubSeq(a \o Mdc, 1, n) = SubSeq(a, 1, n) /\ Drop(a \o Mdc, n) = Drop(a, n) \o Mdc
    BY <1>2, <2>2, JoinedRuns
  <2> QED
    BY <2>1, <2>3 DEF a
<1> QED
  BY <1>3 DEF InnerTakes

\* What the first octet ahead is.
LEMMA FirstOfRun ==
    ASSUME NEW a \in Bytes, NEW b \in Bytes, a # <<>>
    PROVE  (a \o b)[1] = a[1]
<1>1. Len(a) \in Nat /\ Len(a) # 0
  BY NoOctets
<1>2. 1 \in 1 .. Len(a)
  BY <1>1
<1>3. \A n \in 1 .. Len(a) : (a \o b)[n] = a[n]
  BY ConcatAt
<1> QED
  BY <1>2, <1>3

LEMMA FirstOfChunk ==
    ASSUME NEW body, NEW ends, Chunking(body, ends), NEW q, NEW i, At(body, ends, q, i), q < ChunkEnd(body, ends, i)
    PROVE  (Ahead(body, ends, q, i) \o Mdc)[1] = body[q + 1]
<1> DEFINE a == Ahead(body, ends, q, i)
           e == ChunkEnd(body, ends, i)
           b == SubSeq(body, q + 1, e)
           c == ChunksFrom(body, ends, i + 1)
<1>1. a \in Bytes /\ Mdc \in Bytes /\ e \in Nat /\ q \in Nat /\ e <= Len(body) /\ body \in Bytes
      /\ b \in Bytes /\ Len(b) = e - q /\ c \in Bytes
  BY AheadFacts, MdcFacts
<1>2. q <= e /\ 1 \in 1 .. e - q /\ e - q # 0
  BY <1>1
<1>3. b[1] = body[q + 1]
  <2> HIDE DEF e
  <2> QED
    BY <1>1, <1>2, SubRun
<1>4. a = b \o c
  BY DEF Ahead
<1> HIDE DEF a, b, c, e
<1>5. b # <<>>
  BY <1>1, <1>2, NoOctets
<1>6. (b \o c)[1] = b[1]
  BY <1>1, <1>5, FirstOfRun
<1>7. b \o c # <<>>
  <2>1. Len(b \o c) = Len(b) + Len(c) /\ Len(c) \in Nat
    BY <1>1, ConcatBytes, NoOctets
  <2>2. Len(b \o c) # 0
    BY <1>1, <1>2, <2>1
  <2> QED
    BY <1>1, <1>4, <2>2, NoOctets
<1>8. (a \o Mdc)[1] = a[1]
  BY <1>1, <1>4, <1>7, FirstOfRun
<1> QED
  BY <1>3, <1>4, <1>6, <1>8 DEF a

LEMMA FirstOfNext ==
    ASSUME NEW body, NEW ends, Chunking(body, ends), NEW q, NEW i, At(body, ends, q, i),
           q = ChunkEnd(body, ends, i), i # Len(ends) + 1
    PROVE  (Ahead(body, ends, q, i) \o Mdc)[1] = Ahead(body, ends, q, i)[1]
<1> DEFINE a == Ahead(body, ends, q, i)
<1>1. a \in Bytes /\ a # <<>> /\ Mdc \in Bytes
  BY AheadFacts, NextAhead, MdcFacts
<1> HIDE DEF a
<1>2. (a \o Mdc)[1] = a[1]
  BY <1>1, FirstOfRun
<1> QED
  BY <1>2 DEF a

LEMMA LastIsMdc ==
    ASSUME NEW body, NEW ends, Chunking(body, ends), NEW q, NEW i, At(body, ends, q, i),
           i = Len(ends) + 1, q = Len(body)
    PROVE  Ahead(body, ends, q, i) \o Mdc = Mdc
<1>1. Ahead(body, ends, q, i) = <<>>
  BY LastAhead
<1> QED
  BY <1>1, MdcFacts, NoOctets

\* A run of a body without its first octet.
LEMMA RunPastFirst ==
    ASSUME NEW body \in Bytes, NEW x \in Nat, NEW y \in Nat, x <= y, y + 1 <= Len(body)
    PROVE  SubSeq(body, x + 1 + 1, y + 1) = SubSeq(Drop(body, 1), x + 1, y)
<1> DEFINE b == Drop(body, 1)
           left == SubSeq(body, x + 1 + 1, y + 1)
           right == SubSeq(b, x + 1, y)
           z == x + 1
           k == y + 1
<1>1. Len(body) \in Nat /\ 1 <= Len(body) /\ z \in Nat /\ k \in Nat /\ z <= k /\ k <= Len(body) /\ k - z = y - x
      /\ Len(body) <= Len(body) /\ y <= Len(body) - 1
  BY NoOctets
<1>2. b \in Bytes /\ Len(b) = Len(body) - 1 /\ \A n \in 1 .. Len(body) - 1 : b[n] = body[1 + n]
  <2> DEFINE one == 1
             size == Len(body)
  <2>1. b = SubSeq(body, one + 1, size) /\ one \in Nat /\ size \in Nat /\ one <= size /\ size <= Len(body)
    BY <1>1 DEF Drop
  <2> HIDE DEF one, size, b
  <2>2. b \in Bytes /\ Len(b) = size - one /\ \A n \in 1 .. size - one : b[n] = body[one + n]
    BY <2>1, SubRun
  <2> QED
    BY <2>2 DEF one, size
<1>3. left \in Bytes /\ Len(left) = k - z /\ \A n \in 1 .. k - z : left[n] = body[z + n]
  <2>1. left = SubSeq(body, z + 1, k)
    OBVIOUS
  <2> HIDE DEF z, k, left
  <2> QED
    BY <1>1, <2>1, SubRun
<1>4. right \in Bytes /\ Len(right) = y - x /\ \A n \in 1 .. y - x : right[n] = b[x + n]
  <2> HIDE DEF b, z, k, left
  <2>1. b \in Bytes /\ y <= Len(b)
    BY <1>1, <1>2
  <2>2. right = SubSeq(b, x + 1, y)
    OBVIOUS
  <2> HIDE DEF right
  <2> QED
    BY <2>1, <2>2, SubRun
<1> HIDE DEF left, right, b
<1>5. ASSUME NEW n \in 1 .. Len(left)
      PROVE  left[n] = right[n]
  <2>1. n \in 1 .. k - z /\ n \in 1 .. y - x
    BY <1>1, <1>3
  <2>2. x + n \in 1 .. Len(body) - 1 /\ 1 + (x + n) = z + n
    BY <1>1, <2>1
  <2> HIDE DEF z, k
  <2> QED
    BY <1>2, <1>3, <1>4, <2>1, <2>2
<1>6. left = right
  <2>1. Len(left) = Len(right)
    BY <1>1, <1>3, <1>4
  <2> QED
    BY <1>3, <1>4, <1>5, <2>1, EqualRuns
<1> QED
  BY <1>6 DEF left, right, b

-----------------------------------------------------------------------------
(* The sum over the chunks of a body that is well framed. *)

\* The sum from one chunk on, when the sum from the next one on is right.
LEMMA NextTotal ==
    ASSUME NEW body, NEW ends, Chunking(body, ends), NEW file \in Bytes, NEW i \in 1 .. Len(ends),
           NEW at \in 0 .. Len(file), Drop(file, at) = Ahead(body, ends, ChunkEnd(body, ends, i), i), NEW total,
           i # Len(ends) => \A b \in 0 .. Len(file) :
              Drop(file, b) = Ahead(body, ends, ChunkEnd(body, ends, i + 1), i + 1)
                 => total[b] = Len(body) - ChunkEnd(body, ends, i + 1)
    PROVE  ChunkTotal(file, total, at) = Len(body) - ChunkEnd(body, ends, i)
<1> DEFINE q == ChunkEnd(body, ends, i)
           j == i + 1
           e == ChunkEnd(body, ends, j)
           a == Ahead(body, ends, q, i)
           c == Ahead(body, ends, q, j)
           h == HeaderSize(a[1])
           n == a[1].n
           next == at + h + n
<1>1. /\ Len(ends) \in Nat /\ i \in Nat /\ i \in 1 .. Len(ends) + 1 /\ i # Len(ends) + 1 /\ j \in 1 .. Len(ends) + 1
      /\ j \in 0 .. Len(ends) + 1 /\ i \in 0 .. Len(ends) + 1 /\ Len(file) \in Nat /\ at \in Nat /\ j - 1 = i
  BY EndFacts, NoOctets
<1>2. q \in Nat /\ e \in Nat /\ Len(body) \in Nat /\ e <= Len(body) /\ q <= e /\ (j = Len(ends) + 1 => e = Len(body))
      /\ ChunkEnd(body, ends, i - 1) <= q /\ ChunkEnd(body, ends, i - 1) \in Nat
  <2>1. i - 1 \in 0 .. Len(ends) + 1
    BY <1>1
  <2> HIDE DEF j
  <2>2. q \in Nat /\ e \in Nat /\ Len(body) \in Nat /\ e <= Len(body) /\ (j = Len(ends) + 1 => e = Len(body))
      /\ ChunkEnd(body, ends, i - 1) \in Nat
    BY <1>1, <2>1, EndFacts
  <2>3. ChunkEnd(body, ends, i - 1) <= q /\ ChunkEnd(body, ends, j - 1) <= e
    BY <1>1, EndFacts
  <2> QED
    BY <1>1, <2>2, <2>3
<1>3. At(body, ends, q, i)
  BY <1>1, <1>2 DEF At
<1>4. /\ At(body, ends, q, j) /\ Decodes(a) /\ h \in {1, 2} /\ h <= Len(a) /\ n = e - q
      /\ (a[1].kind # "partial") = (j = Len(ends) + 1) /\ Drop(a, h) = c
  BY <1>1, <1>3, NextAhead
<1>5. a = Drop(file, at) /\ a \in Bytes /\ Len(a) = Len(file) - at /\ c \in Bytes /\ Len(c) = Len(a) - h
  <2>1. a = Drop(file, at)
    OBVIOUS
  <2>2. Drop(file, at) \in Bytes /\ Len(Drop(file, at)) = Len(file) - at
    BY <1>1, DropFacts
  <2> HIDE DEF a, c, h
  <2>3. a \in Bytes /\ Len(a) = Len(file) - at
    BY <2>1, <2>2
  <2>4. Drop(a, h) \in Bytes /\ Len(Drop(a, h)) = Len(a) - h
    BY <1>4, <2>3, DropFacts
  <2> QED
    BY <1>4, <2>1, <2>3, <2>4
<1>6. Takes(body, ends, q, j)
  BY <1>4, TakeAhead
<1>7. n \in 0 .. e - q /\ n \in Nat /\ q + n = e
  <2>1. n = e - q
    BY <1>4
  <2> HIDE DEF q, e, n
  <2> QED
    BY <1>2, <2>1
<1>8. n <= Len(c) /\ Drop(c, n) = Ahead(body, ends, e, j)
  <2>1. n <= Len(c) /\ Drop(c, n) = Ahead(body, ends, q + n, j)
    <3> HIDE DEF n, q, j
    <3> QED
      BY <1>6, <1>7 DEF Takes, c, e
  <2> HIDE DEF q, e, n
  <2> QED
    BY <1>7, <2>1
<1> HIDE DEF q, e, n, h, a, c, j
<1>9. next \in 0 .. Len(file) /\ at + h \in Nat /\ at + h <= Len(file) /\ at + h + n <= Len(file) /\ ~(next > Len(file))
  <2> DEFINE size == Len(file)
             rest == Len(c)
  <2>1. size \in Nat /\ at \in Nat /\ h \in Nat /\ n \in Nat /\ rest \in Nat /\ n <= rest /\ rest = size - at - h
    BY <1>1, <1>4, <1>5, <1>7, <1>8, NoOctets
  <2> HIDE DEF size, rest
  <2>2. next \in 0 .. size /\ at + h \in Nat /\ at + h <= size /\ at + h + n <= size /\ ~(next > size)
    BY <2>1
  <2> QED
    BY <2>2 DEF size
<1>10. Drop(file, next) = Ahead(body, ends, e, j)
  <2>1. Drop(file, at + h) = c
    BY <1>1, <1>4, <1>5, <1>9, DropDrop
  <2>2. Drop(Drop(file, at + h), n) = Drop(file, at + h + n)
    <3> DEFINE x == at + h
    <3>1. x \in Nat /\ x + n <= Len(file)
      BY <1>9
    <3> HIDE DEF x
    <3>2. Drop(Drop(file, x), n) = Drop(file, x + n)
      BY <1>7, <3>1, DropDrop
    <3> QED
      BY <3>2 DEF x
  <2> QED
    BY <1>8, <2>1, <2>2
<1>11. ChunkTotal(file, total, at) =
          IF a[1].kind # "partial" THEN n ELSE IF total[next] = -1 THEN -1 ELSE n + total[next]
  BY <1>4, <1>5, <1>9 DEF ChunkTotal, n, h
<1> HIDE DEF next
<1>12. CASE j = Len(ends) + 1
  <2>1. ChunkTotal(file, total, at) = n
    BY <1>4, <1>11, <1>12
  <2> QED
    BY <1>2, <1>4, <1>12, <2>1 DEF q
<1>13. CASE j # Len(ends) + 1
  <2>1. i # Len(ends)
    BY <1>1, <1>13 DEF j
  <2>2. total[next] = Len(body) - e
    BY <1>9, <1>10, <2>1 DEF e, j
  <2>3. total[next] # -1 /\ n + total[next] = Len(body) - q
    BY <1>2, <1>4, <2>2
  <2>4. ChunkTotal(file, total, at) = n + total[next]
    BY <1>4, <1>11, <1>13, <2>3
  <2> QED
    BY <2>3, <2>4 DEF q
<1> QED
  BY <1>12, <1>13

\* scanPartialBodyTotalLength finds the length of the chunks that follow.
LEMMA ChunksTotal ==
    ASSUME NEW body, NEW ends, Chunking(body, ends), NEW file \in Bytes, NEW i \in 1 .. Len(ends),
           NEW offset \in 0 .. Len(file), Drop(file, offset) = Ahead(body, ends, ChunkEnd(body, ends, i), i)
    PROVE  ChunksAfter(file, offset) = Len(body) - ChunkEnd(body, ends, i)
<1> DEFINE L == Len(file)
           total == CHOOSE f : f = [at \in 0 .. L |-> ChunkTotal(file, f, at)]
           Right(k) == \A at \in 0 .. L :
                          Drop(file, at) = Ahead(body, ends, ChunkEnd(body, ends, k), k)
                             => total[at] = Len(body) - ChunkEnd(body, ends, k)
           Bad == {k \in 1 .. Len(ends) : ~Right(k)}
<1>1. L \in Nat /\ Len(ends) \in Nat
  BY EndFacts, NoOctets
<1>2. ChunksAfter(file, offset) = IF offset > L THEN -1 ELSE total[offset]
  BY DEF ChunksAfter, ChunkTotal
<1>3. total = [at \in 0 .. L |-> ChunkTotal(file, total, at)]
  BY ChunkTotals
<1> HIDE DEF total
<1>4. Bad = {}
  <2> SUFFICES ASSUME Bad # {} PROVE FALSE
    OBVIOUS
  <2>1. PICK k \in Bad : \A m \in Bad : m <= k
    <3>1. Bad \in SUBSET Nat /\ \A m \in Bad : m <= Len(ends)
      BY <1>1
    <3> HIDE DEF Bad
    <3> QED
      BY <1>1, <3>1, GreatestNatural
  <2>2. k \in 1 .. Len(ends) /\ ~Right(k)
    BY <2>1
  <2>3. k # Len(ends) => Right(k + 1)
    <3>1. SUFFICES ASSUME k # Len(ends) PROVE Right(k + 1)
      OBVIOUS
    <3>2. k + 1 \in 1 .. Len(ends) /\ ~(k + 1 <= k)
      BY <1>1, <2>2, <3>1
    <3> HIDE DEF Right
    <3> QED
      BY <2>1, <3>2
  <2>4. ASSUME NEW at \in 0 .. L, Drop(file, at) = Ahead(body, ends, ChunkEnd(body, ends, k), k)
        PROVE  total[at] = Len(body) - ChunkEnd(body, ends, k)
    <3>1. ChunkTotal(file, total, at) = Len(body) - ChunkEnd(body, ends, k)
      BY <2>2, <2>3, <2>4, NextTotal
    <3> QED
      BY <1>3, <3>1
  <2> QED
    BY <2>2, <2>4
<1>5. Right(i)
  BY <1>4
<1> QED
  BY <1>1, <1>2, <1>5

\* A file in front of whose version octet, at v, there are k PKESK packets, the tag of
\* the encrypted packet and its length header.
Begins(file, k, v) ==
    /\ file \in Bytes /\ k \in Nat /\ v \in Nat
    /\ v = k + HeaderSize(file[k + 2]) + 2
    /\ v <= HeadRead /\ v <= Len(file)
    /\ \A i \in 1 .. k : file[i].kind = "pkesk"
    /\ \E i \in 1 .. k : file[i].n = OwnSubkey
    /\ file[k + 1] = An("tag", Seip)
    /\ file[v].kind = "version"

\* What parseEncryptedFileHeader makes of such a file.
StartChunked(file, v, first) ==
    LET total == ChunksAfter(file, v - 1 + first)
    IN  IF first < 1 \/ total = -1 THEN Refused
        ELSE Accepted(Drop(file, v), <<>>, first + total - 1, TRUE, first - 1)

StartWhole(file, v, first, head) ==
    LET encLength == (first - 1) % SizeModulus
        left == SubSeq(file, v + 1, head)
        pending == SubSeq(left, 1, Min({Len(left), encLength}))
    IN  Accepted(Drop(file, head), pending, encLength, FALSE, 0)

LEMMA HeaderRead ==
    ASSUME NEW file, NEW k, NEW v, Begins(file, k, v)
    PROVE  LET first == file[k + 2].n
           IN  parseEncryptedFileHeader(file) =
                  IF file[k + 2].kind = "partial" THEN StartChunked(file, v, first)
                  ELSE StartWhole(file, v, first, Min({HeadRead, Len(file)}))
<1> DEFINE head == Min({HeadRead, Len(file)})
           buf == SubSeq(file, 1, head)
           others == {i \in DOMAIN buf : buf[i].kind # "pkesk"}
           pkesks == IF others = {} THEN Len(buf) ELSE Min(others) - 1
           seip == Drop(buf, pkesks)
           size == 1 + HeaderSize(seip[2])
           first == seip[2].n
           version == pkesks + size + 1
           total == ChunksAfter(file, version - 1 + first)
           encLength == (first - 1) % SizeModulus
           left == Drop(buf, version)
           shown == Min({Len(left), encLength})
           pending == SubSeq(left, 1, shown)
           refused == \/ \A i \in 1..pkesks : buf[i].n # OwnSubkey
                      \/ Len(seip) < 2
                      \/ Len(seip) <= size
                      \/ seip[1] # An("tag", Seip)
                      \/ seip[size + 1].kind # "version"
           chunked == Accepted(Drop(file, version), <<>>, first + total - 1, TRUE, first - 1)
           whole == Accepted(Drop(file, Len(buf)), pending, encLength, FALSE, 0)
           header == HeaderSize(file[k + 2])
<1>1. parseEncryptedFileHeader(file) =
        IF refused THEN Refused
        ELSE IF seip[2].kind = "partial"
        THEN IF first < 1 \/ total = -1 THEN Refused ELSE chunked
        ELSE whole
  BY DEF parseEncryptedFileHeader
<1>2. file \in Bytes /\ k \in Nat /\ v \in Nat /\ v = k + header + 2 /\ v <= HeadRead /\ v <= Len(file) /\ Len(file) \in Nat
  BY NoOctets DEF Begins
<1>3. header \in {1, 2}
  BY DEF HeaderSize
<1> HIDE DEF header
<1>4. head \in Nat /\ head <= Len(file) /\ v <= head
  <2> DEFINE counts == {HeadRead, Len(file)}
  <2>1. counts \in SUBSET Nat /\ counts # {}
    BY <1>2, ReaderAssumption
  <2>2. Min(counts) \in counts /\ \A n \in counts : Min(counts) <= n
    <3> HIDE DEF counts
    <3> QED
      BY <2>1, MinOfCounts
  <2> QED
    BY <1>2, <2>1, <2>2
<1> HIDE DEF head
<1>5. buf \in Bytes /\ Len(buf) = head /\ DOMAIN buf = 1 .. head /\ \A i \in 1 .. head : buf[i] = file[i]
  <2> DEFINE zero == 0
  <2>1. buf = SubSeq(file, zero + 1, head) /\ zero \in Nat /\ zero <= head /\ head - zero = head
    BY <1>4
  <2> HIDE DEF zero, buf
  <2>2. buf \in Bytes /\ Len(buf) = head - zero /\ \A i \in 1 .. head - zero : buf[i] = file[zero + i]
    BY <1>2, <1>4, <2>1, SubRun
  <2>3. DOMAIN buf = 1 .. Len(buf)
    BY <2>2 DEF Bytes
  <2> QED
    BY <1>4, <2>1, <2>2, <2>3 DEF zero
<1> HIDE DEF buf
<1>6. pkesks = k
  <2>1. k + 1 \in 1 .. head
    BY <1>2, <1>3, <1>4
  <2>2. k + 1 \in others
    BY <1>5, <2>1 DEF Begins, An
  <2>3. \A x \in others : x \in Nat /\ k + 1 <= x
    <3> SUFFICES ASSUME NEW x \in others PROVE x \in Nat /\ k + 1 <= x
      OBVIOUS
    <3>1. x \in 1 .. head /\ file[x].kind # "pkesk"
      BY <1>5
    <3>2. x \notin 1 .. k
      BY <3>1 DEF Begins
    <3> QED
      BY <1>2, <1>4, <3>1, <3>2
  <2> HIDE DEF others
  <2>4. others \in SUBSET Nat /\ others # {}
    BY <2>2, <2>3
  <2>5. Min(others) \in others /\ Min(others) <= k + 1
    BY <2>2, <2>4, MinOfCounts
  <2>6. Min(others) = k + 1
    BY <1>2, <2>3, <2>5
  <2>7. pkesks = Min(others) - 1
    BY <2>4
  <2> HIDE DEF pkesks
  <2> QED
    BY <1>2, <2>6, <2>7
<1> HIDE DEF pkesks
<1>7. seip \in Bytes /\ Len(seip) = head - k /\ \A i \in 1 .. head - k : seip[i] = file[k + i]
  <2>1. seip = SubSeq(buf, k + 1, head)
    BY <1>5, <1>6 DEF Drop
  <2>2. k <= head
    BY <1>2, <1>3, <1>4
  <2> HIDE DEF seip
  <2>3. head <= Len(buf)
    BY <1>4, <1>5
  <2>4. seip \in Bytes /\ Len(seip) = head - k /\ \A i \in 1 .. head - k : seip[i] = buf[k + i]
    BY <1>2, <1>4, <1>5, <2>1, <2>2, <2>3, SubRun
  <2>5. \A i \in 1 .. head - k : k + i \in 1 .. head
    BY <1>2, <1>4
  <2> QED
    BY <1>5, <2>4, <2>5
<1> HIDE DEF seip
<1>8. seip[1] = file[k + 1] /\ seip[2] = file[k + 2] /\ size = 1 + header /\ seip[size + 1] = file[v]
      /\ Len(seip) \in Nat /\ size \in Nat /\ ~(Len(seip) < 2) /\ ~(Len(seip) <= size)
  <2>1. 1 \in 1 .. head - k /\ 2 \in 1 .. head - k /\ header + 2 \in 1 .. head - k /\ head - k \in Nat
        /\ k + (header + 2) = v /\ (1 + header) + 1 = header + 2
    BY <1>2, <1>3, <1>4
  <2>2. seip[1] = file[k + 1] /\ seip[2] = file[k + 2] /\ seip[header + 2] = file[k + (header + 2)]
    BY <1>7, <2>1
  <2>3. size = 1 + header
    BY <2>2 DEF header
  <2> HIDE DEF size
  <2> QED
    BY <1>3, <1>7, <2>1, <2>2, <2>3
<1>9. version = v
  <2> HIDE DEF size
  <2> QED
    BY <1>2, <1>3, <1>6, <1>8
<1>10. ~refused
  <2>1. \E i \in 1 .. pkesks : buf[i].n = OwnSubkey
    <3>1. PICK i \in 1 .. k : file[i].n = OwnSubkey
      BY DEF Begins
    <3>2. i \in 1 .. head
      BY <1>2, <1>3, <1>4
    <3> QED
      BY <1>5, <1>6, <3>1, <3>2
  <2>2. seip[1] = An("tag", Seip) /\ seip[size + 1].kind = "version"
    BY <1>8 DEF Begins
  <2> HIDE DEF size
  <2> QED
    BY <1>8, <2>1, <2>2
<1> HIDE DEF version, refused
<1>11. left = SubSeq(file, v + 1, head)
  <2> DEFINE zero == 0
  <2>1. zero \in Nat /\ zero <= head /\ v \in 0 .. head - zero
    BY <1>2, <1>4
  <2> HIDE DEF zero
  <2>2. Drop(SubSeq(file, zero + 1, head), v) = SubSeq(file, zero + v + 1, head)
    <3>1. file \in Bytes /\ zero \in Nat /\ head \in Nat /\ zero <= head /\ head <= Len(file) /\ v \in 0 .. head - zero
      BY <1>2, <1>4, <2>1
    <3> QED
      BY <3>1, InnerRun
  <2>3. zero + 1 = 1 /\ zero + v + 1 = v + 1
    BY <1>2 DEF zero
  <2> QED
    BY <1>9, <2>2, <2>3 DEF buf
<1> HIDE DEF left
<1>12. CASE file[k + 2].kind = "partial"
  <2>1. parseEncryptedFileHeader(file) = IF first < 1 \/ total = -1 THEN Refused ELSE chunked
    BY <1>1, <1>8, <1>10, <1>12
  <2>2. StartChunked(file, v, first) = IF first < 1 \/ total = -1 THEN Refused ELSE chunked
    BY <1>9 DEF StartChunked
  <2>3. first = file[k + 2].n
    BY <1>8
  <2> HIDE DEF first, total, chunked
  <2> QED
    BY <1>12, <2>1, <2>2, <2>3
<1>13. CASE file[k + 2].kind # "partial"
  <2>1. parseEncryptedFileHeader(file) = whole
    BY <1>1, <1>8, <1>10, <1>13
  <2>2. whole = StartWhole(file, v, first, head)
    BY <1>5, <1>11 DEF StartWhole
  <2>3. first = file[k + 2].n
    BY <1>8
  <2> HIDE DEF first, whole
  <2> QED
    BY <1>13, <2>1, <2>2, <2>3 DEF head
<1> QED
  BY <1>12, <1>13

LEMMA DefinitePacket ==
    ASSUME NEW tag \in Nat, NEW body \in Bytes
    PROVE  LET packet == Packet(tag, body, Definite)
           IN  packet \in Bytes /\ Len(packet) \in Nat /\ Len(body) \in Nat /\ Len(body) <= Len(packet)
<1> DEFINE first == <<An("tag", tag)>>
           length == appendNewFormatLength(Len(body))
           packet == Packet(tag, body, Definite)
<1>1. Len(body) \in Nat
  BY NoOctets
<1>2. length \in Bytes /\ Len(length) \in Nat
  BY <1>1, LengthHeader, NoOctets
<1>3. first \in Bytes /\ Len(first) = 1
  BY AnOctet, OneOctet DEF Kinds
<1>4. packet = first \o length \o body
  BY DEF Packet, Definite
<1> HIDE DEF first, length, packet
<1>5. packet \in Bytes /\ Len(packet) = Len(first) + Len(length) + Len(body)
  <2>1. first \o length \in Bytes /\ Len(first \o length) = Len(first) + Len(length)
    BY <1>2, <1>3, ConcatBytes
  <2> QED
    BY <1>4, <2>1, ConcatBytes
<1> QED
  BY <1>1, <1>2, <1>3, <1>5 DEF packet
=============================================================================
