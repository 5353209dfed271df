---------------------------- MODULE SeipReader ----------------------------
(***************************************************************************)
(* How DecryptFile takes an OpenPGP message apart while it streams it      *)
(* (src/src/Pgp/PgpEngine.cpp: parseEncryptedFileHeader and                *)
(* decryptSeipBodyStreaming), and how the message was put together.        *)
(*                                                                         *)
(* Three length framings may be nested: around the encrypted packet, in    *)
(* the clear; around the packet inside it; and around the literal packet   *)
(* inside a compressed one. Each may be definite, partial (RFC 4880        *)
(* 4.2.2.4: chunks with a length header each), or, inside, indeterminate.  *)
(* The reader is given the file in runs that end anywhere, a chunk header  *)
(* included, and may never take a header octet for content, miss the end   *)
(* or run past it.                                                         *)
(*                                                                         *)
(* A file is a sequence of octets. An octet says what it is and carries    *)
(* one number; a field no length rule looks into (a PKESK packet, the      *)
(* random prefix, the literal packet's name and date, the MDC trailer) is  *)
(* a single octet. Encryption keeps positions, so it is not shown; the MDC *)
(* carries whether it matches what precedes it.                            *)
(***************************************************************************)
EXTENDS Integers, SequencesExt

CONSTANTS
    HeadRead,       \* octets parseEncryptedFileHeader reads (65536)
    ReadSize,       \* octets per ReadFile (PGP_FILE_CHUNK_SIZE)
    OneOctetLimit,  \* lengths below take a one-octet header (192)
    LengthModulus,  \* a length header holds lengths below this (2^32)
    SizeModulus     \* std::size_t wraps here (2^64)

ASSUME ReaderAssumption ==
    /\ {HeadRead, ReadSize, OneOctetLimit} \subseteq Nat \ {0}
    /\ LengthModulus \in Nat /\ LengthModulus > OneOctetLimit
    /\ SizeModulus \in Nat /\ SizeModulus > LengthModulus

OwnSubkey == 1      \* the Key ID DecryptFile looks for
Literal == 11       \* PGP_TAG_LITERAL_DATA
Compressed == 8     \* PGP_TAG_COMPRESSED_DATA
Seip == 18          \* PGP_TAG_SEIP

Kinds == {"pkesk", "tag", "oldTag", "short", "long", "more", "partial", "version",
          "random", "name", "algorithm", "data", "mdc", "signature"}
Octet == [kind : Kinds, n : Nat, deflated : BOOLEAN]
An(kind, n) == [kind |-> kind, n |-> n, deflated |-> FALSE]

-----------------------------------------------------------------------------
(* Writing packets. *)

\* The longest form keeps the low bits of a longer length.
appendNewFormatLength(length) ==
    IF length < OneOctetLimit THEN <<An("short", length)>>
    ELSE <<An("long", length % LengthModulus), An("more", 0)>>

\* A framing of a body: where the chunks before the last one end.
Definite == [form |-> "definite", ends |-> <<>>]
Indeterminate == [form |-> "indeterminate", ends |-> <<>>]
Partial(ends) == [form |-> "partial", ends |-> ends]

\* Chunk i of a body is what lies between the ends of chunks i - 1 and i.
ChunkEnd(body, ends, i) ==
    IF i = 0 THEN 0 ELSE IF i <= Len(ends) THEN ends[i] ELSE Len(body)

ChunkHeader(body, ends, i) ==
    LET length == ChunkEnd(body, ends, i) - ChunkEnd(body, ends, i - 1)
    IN  IF i <= Len(ends) THEN <<An("partial", length)>> ELSE appendNewFormatLength(length)

\* The chunks of a partial-length body from chunk i on, each after its header.
ChunksFrom(body, ends, i) ==
    LET from[j \in 1..(Len(ends) + 2)] ==
            IF j = Len(ends) + 2 THEN <<>>
            ELSE ChunkHeader(body, ends, j)
                 \o (SubSeq(body, ChunkEnd(body, ends, j - 1) + 1, ChunkEnd(body, ends, j)) \o from[j + 1])
    IN  from[i]

Packet(tag, body, framing) ==
    CASE framing.form = "definite" -> <<An("tag", tag)>> \o appendNewFormatLength(Len(body)) \o body
      [] framing.form = "indeterminate" -> <<An("oldTag", tag)>> \o body
      [] framing.form = "partial" -> <<An("tag", tag)>> \o ChunksFrom(body, framing.ends, 1)

\* The document of length n; no document's octets say where it ends.
Document(n) == [i \in 1..n |-> An("data", i)]

Deflated(octets) == [i \in DOMAIN octets |-> [octets[i] EXCEPT !.deflated = TRUE]]
Inflated(octets) == [i \in DOMAIN octets |-> [octets[i] EXCEPT !.deflated = FALSE]]

LiteralBody(document) == <<An("name", 0)>> \o document
CompressedBody(algorithm, packet) ==
    <<An("algorithm", algorithm)>> \o (IF algorithm = 0 THEN packet ELSE Deflated(packet))
SeipBody(packet, mdcMatches) ==
    <<An("version", 1), An("random", 0)>> \o packet \o <<An("mdc", IF mdcMatches THEN 1 ELSE 0)>>

-----------------------------------------------------------------------------
(* Reading length headers. *)

IsHeader(octet) == octet.kind \in {"short", "long", "partial"}

\* newFormatBodyLengthHeaderSize
HeaderSize(octet) == IF octet.kind = "long" THEN 2 ELSE 1

\* decodeNewFormatBodyLength fails when the header is cut short.
Decodes(octets) == octets # <<>> /\ IsHeader(octets[1]) /\ Len(octets) >= HeaderSize(octets[1])

Drop(octets, count) == SubSeq(octets, count + 1, Len(octets))

\* scanPartialBodyTotalLength: the sum of the chunks that follow the one ending at
\* offset, or -1 when the file ends before the last of them does.
ChunksAfter(file, offset) ==
    LET total[at \in 0..Len(file)] ==
            LET header == Drop(file, at)
                next == at + HeaderSize(header[1]) + header[1].n
            IN  IF ~Decodes(header) \/ next > Len(file) THEN -1
                ELSE IF header[1].kind # "partial" THEN header[1].n
                ELSE IF total[next] = -1 THEN -1 ELSE header[1].n + total[next]
    IN  IF offset > Len(file) THEN -1 ELSE total[offset]

-----------------------------------------------------------------------------
(* parseEncryptedFileHeader: what the streaming reader starts from. *)

Refused == [ok |-> FALSE]

\* What the compressed branch keeps about the literal packet it is inflating.
NoLiteral == [headerParsed |-> FALSE, prefixParsed |-> FALSE, indeterminate |-> FALSE,
              partial |-> FALSE, finalChunk |-> FALSE, chunkRemaining |-> 0,
              contentRemaining |-> 0, raw |-> <<>>, plain |-> <<>>]

Accepted(rest, pending, encLength, partial, chunkRemaining) ==
    [ok |-> TRUE, code |-> "NO_ERROR", phase |-> "random", rest |-> rest, pending |-> pending,
     encLength |-> encLength, cipherRemaining |-> encLength - Len(pending),
     seipPartial |-> partial, cipherChunkRemaining |-> chunkRemaining, cipherFinalChunk |-> FALSE,
     streamPos |-> 0, innerTag |-> 0, innerPartial |-> FALSE, innerFinalChunk |-> FALSE,
     remaining |-> 0, algorithm |-> 0, literal |-> NoLiteral, output |-> <<>>]

parseEncryptedFileHeader(file) ==
    LET buf == SubSeq(file, 1, Min({HeadRead, Len(file)}))
        others == {i \in DOMAIN buf : buf[i].kind # "pkesk"}
        pkesks == IF others = {} THEN Len(buf) ELSE Min(others) - 1
        seip == Drop(buf, pkesks)                   \* from the packet's tag on
        size == 1 + HeaderSize(seip[2])
        first == seip[2].n
        version == pkesks + size + 1                \* where the version octet is
        total == ChunksAfter(file, version - 1 + first)
        encLength == (first - 1) % SizeModulus
        left == Drop(buf, version)
    IN  IF \/ \A i \in 1..pkesks : buf[i].n # OwnSubkey
           \/ Len(seip) < 2
           \/ Len(seip) <= size
           \/ seip[1] # An("tag", Seip)
           \/ seip[size + 1].kind # "version"
        THEN Refused
        ELSE IF seip[2].kind = "partial"
        THEN IF first < 1 \/ total = -1 THEN Refused
             ELSE Accepted(Drop(file, version), <<>>, first + total - 1, TRUE, first - 1)
        ELSE LET pending == SubSeq(left, 1, Min({Len(left), encLength}))
             IN  Accepted(Drop(file, Len(buf)), pending, encLength, FALSE, 0)

-----------------------------------------------------------------------------
(* The literal packet inside a compressed one: one turn of drainDecoded's work. *)

\* dechunkPartialBody has content to move, or a whole chunk header to step over.
Dechunks(literal) ==
    /\ literal.partial
    /\ literal.raw # <<>>
    /\ literal.chunkRemaining > 0 \/ (~literal.finalChunk /\ Decodes(literal.raw))

Dechunk(literal) ==
    LET take == Min({literal.chunkRemaining, Len(literal.raw)})
    IN  IF literal.chunkRemaining > 0
        THEN [literal EXCEPT !.plain = @ \o SubSeq(literal.raw, 1, take), !.raw = Drop(@, take),
                             !.chunkRemaining = @ - take]
        ELSE [literal EXCEPT !.chunkRemaining = literal.raw[1].n,
                             !.finalChunk = literal.raw[1].kind # "partial",
                             !.raw = Drop(@, HeaderSize(literal.raw[1]))]

\* The literal packet's own header, once all of it has been inflated. Nothing but a
\* tag starts one. An old-format header with a definite length differs from a new-format
\* one only in how its length is written and is not told apart from it.
HeaderComplete(octets) ==
    /\ octets # <<>>
    /\ \/ octets[1].kind = "oldTag"
       \/ octets[1].kind = "tag" /\ Decodes(Tail(octets))

ParseLiteralHeader(literal) ==
    LET octets == literal.plain
        indeterminate == octets[1].kind = "oldTag"
        body == Drop(octets, IF indeterminate THEN 1 ELSE 1 + HeaderSize(octets[2]))
        length == IF indeterminate THEN 0 ELSE octets[2].n
        partial == ~indeterminate /\ octets[2].kind = "partial"
    IN  [literal EXCEPT !.headerParsed = TRUE, !.partial = partial,
                        !.indeterminate = indeterminate \/ partial,
                        !.raw = IF partial THEN body ELSE <<>>,
                        !.plain = IF partial THEN <<>> ELSE body,
                        !.chunkRemaining = IF partial THEN length ELSE 0,
                        !.contentRemaining = IF partial THEN 0 ELSE length]

ParseLiteralPrefix(literal) ==
    [literal EXCEPT !.prefixParsed = TRUE, !.plain = Tail(@),
                    !.contentRemaining = IF literal.indeterminate THEN 0 ELSE @ - 1]

\* Once everything is inflated the literal packet must have ended exactly here.
LiteralEnded(literal) ==
    /\ literal.prefixParsed
    /\ ~literal.indeterminate => literal.contentRemaining = 0
    /\ literal.partial => literal.finalChunk /\ literal.chunkRemaining = 0 /\ literal.raw = <<>>

-----------------------------------------------------------------------------
(***************************************************************************)
(* decryptSeipBodyStreaming, one ReadFile, one header or one run of body   *)
(* octets per step. "output" is what the step writes; "remaining" is       *)
(* innerChunkRemaining for a partial inner packet, otherwise what is left  *)
(* of its body.                                                            *)
(***************************************************************************)

Stop(r, code) == [r EXCEPT !.code = code, !.phase = "done", !.output = <<>>]

\* consumeForHash
Consume(r, count) == [r EXCEPT !.pending = Drop(@, count), !.streamPos = @ + count]

\* What ensurePending is asked for before the phase's next step.
Needed(r) ==
    CASE r.phase = "header" ->
            IF Len(r.pending) >= 2 /\ r.pending[1].kind = "tag" THEN 1 + HeaderSize(r.pending[2]) ELSE 2
      [] r.phase = "chunk" -> IF r.pending = <<>> THEN 1 ELSE HeaderSize(r.pending[1])
      [] r.phase = "drain" -> 0
      [] OTHER -> 1

ReadCeiling(r) ==
    {r.cipherRemaining, ReadSize} \cup (IF r.seipPartial THEN {r.cipherChunkRemaining} ELSE {})

\* Mutant: a read of no octets is not taken for the end of the file.
FillPastEndOfFile(r) ==
    LET take == Min(ReadCeiling(r) \cup {Len(r.rest)})
    IN  CASE r.cipherRemaining = 0 -> Stop(r, "INVALID_DATA")
          [] r.cipherRemaining > 0 /\ r.seipPartial /\ r.cipherChunkRemaining = 0 ->
               IF r.cipherFinalChunk \/ ~Decodes(r.rest) THEN Stop(r, "INVALID_DATA")
               ELSE [r EXCEPT !.cipherChunkRemaining = r.rest[1].n,
                              !.cipherFinalChunk = r.rest[1].kind # "partial",
                              !.rest = Drop(@, HeaderSize(r.rest[1]))]
          [] OTHER ->
               [r EXCEPT !.pending = @ \o SubSeq(r.rest, 1, take), !.rest = Drop(@, take),
                         !.cipherRemaining = @ - take,
                         !.cipherChunkRemaining = IF r.seipPartial THEN @ - take ELSE @]

\* One turn of ensurePending's loops: a chunk header of the outer framing, or a run
\* of ciphertext.
Fill(r) ==
    LET take == Min(ReadCeiling(r) \cup {Len(r.rest)})
    IN  CASE r.cipherRemaining = 0 -> Stop(r, "INVALID_DATA")
          [] r.cipherRemaining > 0 /\ r.seipPartial /\ r.cipherChunkRemaining = 0 ->
               IF r.cipherFinalChunk \/ ~Decodes(r.rest) THEN Stop(r, "INVALID_DATA")
               ELSE [r EXCEPT !.cipherChunkRemaining = r.rest[1].n,
                              !.cipherFinalChunk = r.rest[1].kind # "partial",
                              !.rest = Drop(@, HeaderSize(r.rest[1]))]
          [] OTHER ->
               IF take = 0 THEN Stop(r, "INVALID_DATA")
               ELSE [r EXCEPT !.pending = @ \o SubSeq(r.rest, 1, take), !.rest = Drop(@, take),
                              !.cipherRemaining = @ - take,
                              !.cipherChunkRemaining = IF r.seipPartial THEN @ - take ELSE @]

\* The body is used up: a compressed packet's literal must be too, then the MDC.
EndBody(r) ==
    IF r.innerTag = Compressed /\ ~LiteralEnded(r.literal)
    THEN Stop(r, "INVALID_DATA") ELSE [r EXCEPT !.phase = "trailer"]

\* Mutant: a chunk that is used up is taken for the end of the packet.
LoopTopAtChunkEnd(r) ==
    IF r.remaining = 0 THEN EndBody(r) ELSE [r EXCEPT !.phase = "take"]

\* The test of the loop over the inner packet's body.
LoopTop(r) ==
    CASE r.remaining > 0 -> [r EXCEPT !.phase = "take"]
      [] r.remaining = 0 /\ r.innerPartial /\ ~r.innerFinalChunk -> [r EXCEPT !.phase = "chunk"]
      [] OTHER -> EndBody(r)

\* The inner packet's header, which only a tag starts. An indeterminate packet runs to
\* the MDC trailer.
ParseInnerHeader(r) ==
    LET indeterminate == r.pending[1].kind = "oldTag"
        size == IF indeterminate THEN 1 ELSE 1 + HeaderSize(r.pending[2])
        room == r.encLength - 1 - (r.streamPos + size)
        length == IF indeterminate THEN room ELSE r.pending[2].n
        partial == ~indeterminate /\ r.pending[2].kind = "partial"
        read == [Consume(r, size) EXCEPT !.innerTag = r.pending[1].n, !.innerPartial = partial,
                                         !.remaining = length]
    IN  IF r.pending[1].kind \notin {"tag", "oldTag"} \/ (indeterminate /\ room < 0)
        THEN Stop(r, "INVALID_DATA")
        ELSE IF read.innerTag \notin {Literal, Compressed} THEN Stop(r, "NOT_IMPLEMENTED")
        ELSE IF read.innerTag = Literal THEN [read EXCEPT !.phase = "literal"]
        ELSE IF length < 1 \/ (~partial /\ length > room % SizeModulus) THEN Stop(r, "INVALID_DATA")
        ELSE [read EXCEPT !.phase = "algorithm"]

\* Mutant: the length of the body is not compared with the prefix.
ParsePrefixUnchecked(r) ==
    IF r.phase = "algorithm" /\ r.pending[1].n > 3 THEN Stop(r, "NOT_IMPLEMENTED")
    ELSE LoopTop([Consume(r, 1) EXCEPT !.algorithm = r.pending[1].n, !.remaining = @ - 1])

\* The first octet of the body: a literal packet's prefix, or the algorithm. The prefix
\* is one octet, so that of innerPrefixFitsInChunk the empty first chunk is left.
ParsePrefix(r) ==
    IF r.remaining < 1 THEN Stop(r, "INVALID_DATA")
    ELSE IF r.phase = "algorithm" /\ r.pending[1].n > 3 THEN Stop(r, "NOT_IMPLEMENTED")
    ELSE LoopTop([Consume(r, 1) EXCEPT !.algorithm = r.pending[1].n, !.remaining = @ - 1])

\* Mutant: the chunk header's octets are taken for content.
ParseChunkHeaderAsContent(r) ==
    [r EXCEPT !.remaining = r.pending[1].n + HeaderSize(r.pending[1]),
              !.innerFinalChunk = r.pending[1].kind # "partial", !.phase = "take"]

\* ensureInnerChunk, once the header is there. It goes on until a chunk is not empty.
ParseChunkHeader(r) ==
    [Consume(r, HeaderSize(r.pending[1])) EXCEPT
        !.remaining = r.pending[1].n,
        !.innerFinalChunk = r.pending[1].kind # "partial",
        !.phase = IF r.pending[1].n = 0 THEN "chunk" ELSE "take"]

\* A run of body octets: to the output, or through the decompressor.
TakeBody(r) ==
    LET take == Min({Len(r.pending), r.remaining, ReadSize})
        run == SubSeq(r.pending, 1, take)
        inflated == IF r.algorithm = 0 THEN run ELSE Inflated(run)
        next == [Consume(r, take) EXCEPT !.remaining = @ - take]
    IN  CASE r.innerTag = Literal -> LoopTop([next EXCEPT !.output = run])
          [] r.innerTag = Compressed /\ r.literal.partial ->
                [next EXCEPT !.phase = "drain", !.literal.raw = @ \o inflated]
          [] r.innerTag = Compressed /\ ~r.literal.partial ->
                [next EXCEPT !.phase = "drain", !.literal.plain = @ \o inflated]

\* The end of drainDecoded: what is content by now goes to the output.
WriteDecoded(r) ==
    CASE ~r.literal.prefixParsed -> LoopTop(r)
      [] r.literal.prefixParsed /\ r.literal.indeterminate ->
            LoopTop([r EXCEPT !.output = r.literal.plain, !.literal.plain = <<>>])
      [] r.literal.prefixParsed /\ ~r.literal.indeterminate ->
            IF Len(r.literal.plain) > r.literal.contentRemaining THEN Stop(r, "INVALID_DATA")
            ELSE LoopTop([r EXCEPT !.output = r.literal.plain, !.literal.plain = <<>>,
                                   !.literal.contentRemaining = @ - Len(r.literal.plain)])

drainDecoded(r) ==
    CASE Dechunks(r.literal) -> [r EXCEPT !.literal = Dechunk(r.literal)]
      [] ~Dechunks(r.literal) /\ ~r.literal.headerParsed /\ HeaderComplete(r.literal.plain) ->
            IF r.literal.plain[1].n # Literal THEN Stop(r, "INVALID_DATA")
            ELSE [r EXCEPT !.literal = ParseLiteralHeader(r.literal)]
      [] ~Dechunks(r.literal) /\ r.literal.headerParsed /\ ~r.literal.prefixParsed
            /\ r.literal.plain # <<>> ->
            IF ~r.literal.indeterminate /\ r.literal.contentRemaining < 1 THEN Stop(r, "INVALID_DATA")
            ELSE [r EXCEPT !.literal = ParseLiteralPrefix(r.literal)]
      [] OTHER -> WriteDecoded(r)

\* The digest covers what comes before the last octets of the encrypted data, so
\* it only matches where these are.
CheckTrailer(r) ==
    Stop(r, IF r.pending[1] = An("mdc", 1) /\ r.streamPos + 1 = r.encLength
            THEN "NO_ERROR" ELSE "INVALID_DATA")

\* Refused before anything more is read: a body too short for a message, and
\* ensureInnerChunk past the last chunk.
NothingToRead(r) ==
    \/ r.phase = "random" /\ r.encLength < 3
    \/ r.phase = "chunk" /\ r.innerFinalChunk

ReaderStep(reader) ==
    LET r == [reader EXCEPT !.output = <<>>]
    IN  CASE NothingToRead(r) -> Stop(r, "INVALID_DATA")
          [] ~NothingToRead(r) /\ Len(r.pending) < Needed(r) -> Fill(r)
          [] OTHER ->
               CASE r.phase = "random" -> [Consume(r, 1) EXCEPT !.phase = "header"]
                 [] r.phase = "header" -> ParseInnerHeader(r)
                 [] r.phase \in {"literal", "algorithm"} -> ParsePrefix(r)
                 [] r.phase = "chunk" -> ParseChunkHeader(r)
                 [] r.phase = "take" -> TakeBody(r)
                 [] r.phase = "drain" -> drainDecoded(r)
                 [] r.phase = "trailer" -> CheckTrailer(r)
=============================================================================
