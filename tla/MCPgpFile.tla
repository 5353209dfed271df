----------------------------- MODULE MCPgpFile -----------------------------
(* Model-checking instance of PgpFile: a document at one path, and at the   *)
(* other nothing or a message another program wrote.                        *)
EXTENDS PgpFile

CONSTANTS A, B

MCPaths == {A, B}
MCRecipients == {<<1>>, <<2>>}

\* Framings a body of this length can have.
MCFramings(form, length) ==
    {f \in form : \A i \in DOMAIN f.ends : f.ends[i] <= length}

MCPartial == {Partial(<<1>>), Partial(<<2>>), Partial(<<2, 3>>)}
MCInner == {Definite, Indeterminate} \cup MCPartial
MCOuter == {Definite, Partial(<<2>>), Partial(<<4, 5>>)}

MCMessage(size, literal, algorithm, compressed, outer, mdcMatches) ==
    [recipients |-> <<2, 1>>, size |-> size, literal |-> literal, algorithm |-> algorithm,
     compressed |-> compressed, outer |-> outer, mdcMatches |-> mdcMatches]

MCPlain ==
    UNION {{MCMessage(n, f, NotCompressed, Definite, o, TRUE) :
                f \in MCFramings(MCInner, n + 1), o \in MCOuter} : n \in {0, 1, 2}}
MCZipped ==
    UNION {{MCMessage(n, f, 1, g, o, TRUE) :
                f \in MCFramings({Definite, Indeterminate, Partial(<<2>>)}, n + 1),
                g \in MCFramings(MCInner, n + 3), o \in {Definite, Partial(<<4, 5>>)}} : n \in {1, 2}}
\* The uncompressed "algorithm", and one that does not exist.
MCOtherAlgorithms == {MCMessage(2, Partial(<<2>>), a, Definite, Definite, TRUE) : a \in {0, 4}}
MCForeign == MCPlain \cup MCZipped \cup MCOtherAlgorithms

\* What is no message: a compressed packet inside another one, content without a packet.
MCMalformed ==
    {Pkesks(<<1>>) \o Packet(Seip, SeipBody(inside, TRUE), Definite) :
        inside \in {Packet(Compressed, CompressedBody(1, Packet(Compressed, LiteralBody(Document(1)), f)), Definite) :
                       f \in {Definite, Indeterminate}}
                   \cup {Document(2)}}

\* Messages cut short, and messages whose MDC does not match.
MCDamaged ==
    {SubSeq(MessageOf(m), 1, Len(MessageOf(m)) - k) : m \in MCPlain, k \in {1, 2, 4}}
      \cup {MessageOf([m EXCEPT !.mdcMatches = FALSE]) : m \in MCPlain}

MCDisks ==
    {[p \in MCPaths |-> IF p = A THEN Document(n) ELSE Absent] : n \in {0, 1, 3, 4, 10}}
      \cup {[p \in MCPaths |-> IF p = A THEN Document(1) ELSE m] :
                m \in MCMalformed \cup MCDamaged \cup {MessageOf(m) : m \in MCForeign}}

\* A message of another program is only decrypted, and the second call is always a
\* DecryptFile of what the first one left behind.
MCFocus ==
    pc = "open" /\ call.op # "DecryptFile" =>
        calls = 1 /\ Absent \in {call.source, disk[A], disk[B]}
=============================================================================
