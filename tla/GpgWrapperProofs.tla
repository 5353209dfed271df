------------------------- MODULE GpgWrapperProofs -------------------------
(***************************************************************************)
(* Proofs about GpgWrapper, for any number of instances, directories,      *)
(* keys, addresses and temporary files.                                    *)
(***************************************************************************)
EXTENDS GpgWrapper, SequenceTheorems, NaturalOrder

-----------------------------------------------------------------------------
(***************************************************************************)
(* The inductive invariant. Its first three parts hold whatever the        *)
(* instances do to each other; TrackedInv and CallInv of an instance hold  *)
(* while no other one used its directory.                                  *)
(***************************************************************************)

\* The home directory of an instance exists, and its own one is only its own; an
\* object that does not exist remembers nothing.
HomeInv(i) ==
    /\ home[i] # NoDir => home[i] \in dirs
    /\ home[i] \in {NoDir, i} \cup CallerDirs
    /\ home[i] = NoDir => own[i] = NoKey /\ peers[i] = <<>> /\ call[i] = NoCall
    /\ counter[i] = 0 => peers[i] = <<>> /\ call[i] = NoCall

HomesInv == \A i \in Instances : HomeInv(i)

\* Secret keys were generated here, so the next one is newer than all of them.
SecretsInv ==
    \A d \in Dirs : \A k \in SecretKeys(keyring[d]) : k.number <= generated

\* A call's record has the shape of its kind, with paths in the home directory.
ShapeOf(c, d) ==
    /\ Len(c.in) = Len(Inputs[c.op]) /\ Len(c.out) = Len(Outputs[c.op])
    /\ \A p \in Range(c.in) \cup Range(c.out) : p.dir = d
    /\ c.op = "import" => c.target = c.payload.key
    /\ c.step = "run" => ~c.gpgOk /\ c.started
    /\ c.gpgOk => c.started
    /\ c.gpgOk /\ c.step = "finish" => c.product \in Products

ShapeInv == \A i \in Instances : call[i] # NoCall => ShapeOf(call[i], home[i])

\* What the instance remembers is in its keyring; a peer that is listed twice was
\* imported twice.
TrackedInv(i) ==
    /\ own[i] # NoKey =>
          /\ HasSecret(home[i], own[i])
          /\ \A k \in SecretKeys(keyring[home[i]]) :
                k.email = own[i].email => own[i].number <= k.number
    /\ \A k \in Range(peers[i]) : InKeyring(home[i], k) \/ k \in repeated[i]
    /\ \A m, n \in DOMAIN peers[i] :
          m # n /\ peers[i][m] = peers[i][n] => peers[i][m] \in repeated[i]

OwnProduct(c) == [op |-> c.op, of |-> [n \in DOMAIN c.in |-> c.payload], key |-> c.target]

Holds(path, data) == [path |-> path, data |-> data] \in files

\* What is on disk, and in the record, at each step of a call.
CallInv(i) ==
    LET c == call[i]
    IN  c # NoCall =>
          /\ c.step = "run" => \A p \in Range(c.in) : Holds(p, c.payload)
          /\ c.step \in {"run", "finish"} /\ ~c.gpgOk /\ c.op = "revoke" =>
                \A p \in Range(c.out) : OnDisk(p) => c.stale
          /\ c.step = "finish" /\ c.gpgOk =>
                /\ c.product = OwnProduct(c)
                /\ \A p \in Range(c.out) : Holds(p, c.product)
                /\ c.op = "import" => InKeyring(home[i], c.product.key)
          /\ c.step = "returned" /\ c.status = "ok" =>
                (c.gpgOk /\ c.product = OwnProduct(c)) \/ (c.op = "revoke" /\ c.stale)
          /\ c.step = "returned" /\ c.status \in {"ok", "gpgFailed", "readFailed"} =>
                \A p \in Range(c.in) \cup Range(c.out) :
                    OnDisk(p) => c.op = "revoke" /\ c.stale /\ ~c.started

Undisturbed(i) == home[i] # NoDir /\ ~disturbed[i]

WrapperInv ==
    /\ GpgWrapperTypeOK
    /\ HomesInv
    /\ SecretsInv
    /\ ShapeInv
    /\ \A i \in Instances : Undisturbed(i) => TrackedInv(i) /\ CallInv(i)

-----------------------------------------------------------------------------
(* Data: the kinds of call, the files, the lists. *)

\* Every kind of call has one or two temporary files, with a suffix each.
LEMMA OpFacts ==
    ASSUME NEW op \in Ops
    PROVE  /\ Inputs[op] \in Seq(TempSuffixes) /\ Outputs[op] \in Seq(TempSuffixes)
           /\ Len(Inputs[op]) \in Nat /\ Len(Outputs[op]) \in Nat
           /\ Len(Inputs[op]) + Len(Outputs[op]) > 0
           /\ op = "import" => Len(Inputs[op]) = 1 /\ Len(Outputs[op]) = 0
           /\ op = "revoke" => Len(Inputs[op]) = 0 /\ Len(Outputs[op]) = 1
           /\ Len(Outputs[op]) <= 1
<1>1. op \in {"encrypt", "sign", "verify", "import", "revoke"}
  BY DEF Ops, Inputs
<1>2. /\ ".in" \in TempSuffixes /\ ".doc" \in TempSuffixes /\ ".sig" \in TempSuffixes
      /\ ".key" \in TempSuffixes /\ ".gpg" \in TempSuffixes /\ ".rev" \in TempSuffixes
  BY DEF TempSuffixes
<1>3. CASE op = "encrypt"
  BY <1>2, <1>3 DEF Inputs, Outputs
<1>4. CASE op = "sign"
  BY <1>2, <1>4 DEF Inputs, Outputs
<1>5. CASE op = "verify"
  BY <1>2, <1>5 DEF Inputs, Outputs
<1>6. CASE op = "import"
  BY <1>2, <1>6 DEF Inputs, Outputs
<1>7. CASE op = "revoke"
  BY <1>2, <1>7 DEF Inputs, Outputs
<1> QED
  BY <1>1, <1>3, <1>4, <1>5, <1>6, <1>7

\* The elements of a sequence have its type.
LEMMA RangeType ==
    ASSUME NEW S, NEW s \in Seq(S)
    PROVE  Range(s) \subseteq S
  BY DEF Range

\* A path names one file, so what DataOf finds is what is there.
LEMMA DataOfHeld ==
    ASSUME GpgWrapperTypeOK, NEW path, NEW data, Holds(path, data)
    PROVE  OnDisk(path) /\ DataOf(path) = data
<1> DEFINE f == [path |-> path, data |-> data]
           g == CHOOSE x \in files : x.path = path
<1>1. f \in files /\ f.path = path
  BY DEF Holds
<1>2. g \in files /\ g.path = path
  <2> HIDE DEF f
  <2> QED
    BY <1>1, Zenon
<1>3. g = f
  <2> HIDE DEF f, g
  <2> QED
    BY <1>1, <1>2, Zenon DEF GpgWrapperTypeOK
<1>4. DataOf(path) = data
  <2>1. DataOf(path) = g.data /\ f.data = data
    BY DEF DataOf
  <2> HIDE DEF f, g
  <2> QED
    BY <1>3, <2>1
<1> QED
  BY <1>1, <1>4 DEF OnDisk

\* What is on disk is held with its data, which has a file's type.
LEMMA OnDiskHeld ==
    ASSUME GpgWrapperTypeOK, NEW path, OnDisk(path)
    PROVE  Holds(path, DataOf(path)) /\ DataOf(path) \in Payloads \cup Products
<1> DEFINE g == CHOOSE x \in files : x.path = path
<1>1. g \in files /\ g.path = path
  BY Zenon DEF OnDisk
<1>2. g \in [path : Paths, data : Payloads \cup Products]
  <2> HIDE DEF g
  <2> QED
    BY <1>1 DEF GpgWrapperTypeOK
<1>3. DataOf(path) = g.data
  BY DEF DataOf
<1> HIDE DEF g
<1>4. g = [path |-> path, data |-> DataOf(path)]
  BY <1>1, <1>2, <1>3
<1>5. DataOf(path) \in Payloads \cup Products
  BY <1>2, <1>3
<1> QED
  BY <1>1, <1>4, <1>5 DEF Holds

\* Erasing the first match of k from a list without a second one erases k; nothing
\* is added, and what is listed twice was listed twice.
LEMMA EraseFirstFacts ==
    ASSUME NEW S, NEW list \in Seq(S), NEW k
    PROVE  LET erased == EraseFirst(list, k)
           IN  /\ erased \in Seq(S)
               /\ \A n \in DOMAIN erased : \E m \in DOMAIN list : erased[n] = list[m]
               /\ \A m, n \in DOMAIN erased : m # n /\ erased[m] = erased[n] =>
                     \E x, y \in DOMAIN list : x # y /\ list[x] = erased[m] /\ list[y] = erased[m]
               /\ (\E n \in DOMAIN erased : erased[n] = k) =>
                     \E x, y \in DOMAIN list : x # y /\ list[x] = k /\ list[y] = k
<1> DEFINE matches == {n \in DOMAIN list : list[n] = k}
           erased == EraseFirst(list, k)
<1>1. CASE matches = {}
  <2>1. erased = list
    BY <1>1 DEF EraseFirst
  <2> QED
    BY <1>1, <2>1
<1>2. CASE matches # {}
  <2> DEFINE First(n) == \A m \in matches : n <= m
             first == CHOOSE n \in matches : First(n)
  <2>1. \E n \in matches : First(n)
    <3>1. matches \in SUBSET Nat
      OBVIOUS
    <3> HIDE DEF matches
    <3> QED
      BY <1>2, <3>1, LeastNatural
  <2>2. first \in matches
    <3> HIDE DEF First, matches
    <3> QED
      BY <2>1, Zenon
  <2>3. erased = RemoveAt(list, first)
    BY <1>2 DEF EraseFirst
  <2>4. first \in 1 .. Len(list) /\ list[first] = k
    BY <2>2
  <2> HIDE DEF first
  <2>5. /\ RemoveAt(list, first) \in Seq(S)
        /\ Len(RemoveAt(list, first)) = Len(list) - 1
        /\ \A n \in 1 .. Len(list) - 1 :
              RemoveAt(list, first)[n] = IF n < first THEN list[n] ELSE list[n + 1]
    <3> DEFINE a == SubSeq(list, 1, first - 1)
               b == SubSeq(list, first + 1, Len(list))
    <3>1. /\ a \in Seq(S) /\ Len(a) = first - 1
          /\ \A n \in 1 .. first - 1 : a[n] = list[n]
      BY <2>4
    <3>2. /\ b \in Seq(S) /\ Len(b) = Len(list) - first
          /\ \A n \in 1 .. Len(list) - first : b[n] = list[first + n]
      BY <2>4
    <3>3. RemoveAt(list, first) = a \o b
      BY DEF RemoveAt
    <3> HIDE DEF a, b
    <3>4. /\ a \o b \in Seq(S) /\ Len(a \o b) = Len(a) + Len(b)
          /\ \A n \in 1 .. Len(a) + Len(b) :
                (a \o b)[n] = IF n <= Len(a) THEN a[n] ELSE b[n - Len(a)]
      BY <3>1, <3>2, ConcatProperties
    <3>5. ASSUME NEW n \in 1 .. Len(list) - 1
          PROVE  (a \o b)[n] = IF n < first THEN list[n] ELSE list[n + 1]
      <4>1. /\ n \in 1 .. Len(a) + Len(b) /\ Len(a) = first - 1
            /\ first \in Nat /\ Len(list) \in Nat /\ n \in Nat
        BY <2>4, <3>1, <3>2
      <4>2. CASE n < first
        <5>1. n \in 1 .. first - 1 /\ n <= Len(a)
          BY <4>1, <4>2
        <5> QED
          BY <3>1, <3>4, <4>1, <4>2, <5>1
      <4>3. CASE ~(n < first)
        <5>1. n - Len(a) \in 1 .. Len(list) - first /\ ~(n <= Len(a)) /\ first + (n - Len(a)) = n + 1
          BY <4>1, <4>3
        <5> QED
          BY <3>2, <3>4, <4>1, <4>3, <5>1
      <4> QED
        BY <4>2, <4>3
    <3> QED
      BY <2>4, <3>1, <3>2, <3>3, <3>4, <3>5
  <2> DEFINE Source(n) == IF n < first THEN n ELSE n + 1
  <2>6. /\ erased \in Seq(S)
        /\ DOMAIN erased = 1 .. Len(list) - 1
        /\ \A n \in DOMAIN erased : /\ Source(n) \in DOMAIN list
                                    /\ Source(n) # first
                                    /\ erased[n] = list[Source(n)]
    <3> HIDE DEF erased
    <3> QED
      BY <2>3, <2>4, <2>5
  <2>7. \A m, n \in DOMAIN erased : m # n => Source(m) # Source(n)
    <3> HIDE DEF erased
    <3> QED
      BY <2>4, <2>6
  <2> HIDE DEF Source, erased
  <2>8. \A m, n \in DOMAIN erased : m # n /\ erased[m] = erased[n] =>
            \E x, y \in DOMAIN list : x # y /\ list[x] = erased[m] /\ list[y] = erased[m]
    BY <2>6, <2>7
  <2>9. (\E n \in DOMAIN erased : erased[n] = k) =>
            \E x, y \in DOMAIN list : x # y /\ list[x] = k /\ list[y] = k
    BY <2>4, <2>6
  <2> QED
    BY <2>6, <2>8, <2>9 DEF erased
<1> QED
  BY <1>1, <1>2

-----------------------------------------------------------------------------
(* Types *)

\* The part of the types that is about files.
FilesOK(fs, ds) ==
    /\ fs \subseteq [path : Paths, data : Payloads \cup Products]
    /\ \A f \in fs : f.path.dir \in ds
    /\ \A f, g \in fs : f.path = g.path => f = g

\* Fewer files are as good.
LEMMA FewerFilesOK ==
    ASSUME NEW fs, NEW gs \in SUBSET fs, NEW ds, FilesOK(fs, ds)
    PROVE  FilesOK(gs, ds)
  BY DEF FilesOK

\* Writing files at paths of an existing directory keeps one file per path.
LEMMA WrittenOK ==
    ASSUME NEW ds, FilesOK(files, ds), NEW paths \in Seq(Paths), NEW data \in Payloads \cup Products,
           \A p \in Range(paths) : p.dir \in ds
    PROVE  FilesOK(Written(paths, data), ds)
<1> DEFINE new == {[path |-> p, data |-> data] : p \in Range(paths)}
<1>1. Range(paths) \subseteq Paths
  BY RangeType
<1>2. \A f \in new : /\ f \in [path : Paths, data : Payloads \cup Products]
                     /\ f.path \in Range(paths) /\ f.data = data
                     /\ f = [path |-> f.path, data |-> data]
  BY <1>1
<1>3. \A f \in Removed(paths) : f \in files /\ f.path \notin Range(paths)
  BY DEF Removed
<1>4. Written(paths, data) = Removed(paths) \cup new
  BY DEF Written
<1> HIDE DEF new
<1>5. Written(paths, data) \subseteq [path : Paths, data : Payloads \cup Products]
  BY <1>2, <1>3, <1>4 DEF FilesOK
<1>6. \A f \in Written(paths, data) : f.path.dir \in ds
  BY <1>2, <1>3, <1>4 DEF FilesOK
<1>7. ASSUME NEW f \in Written(paths, data), NEW g \in Written(paths, data), f.path = g.path
      PROVE  f = g
  <2>1. CASE f \in new /\ g \in new
    BY <1>2, <1>7, <2>1, Zenon
  <2>2. CASE f \in Removed(paths) /\ g \in Removed(paths)
    BY <1>3, <1>7, <2>2 DEF FilesOK
  <2>3. ~(f \in new /\ g \in Removed(paths)) /\ ~(g \in new /\ f \in Removed(paths))
    BY <1>2, <1>3, <1>7
  <2> QED
    BY <1>4, <1>7, <2>1, <2>2, <2>3
<1> QED
  BY <1>5, <1>6, <1>7 DEF FilesOK

\* The names makeTempPath gives to one call are paths of the home directory.
LEMMA PathsType ==
    ASSUME GpgWrapperTypeOK, HomesInv, NEW i \in Instances, NEW op \in Ops, home[i] # NoDir,
           counter[i] + Len(Inputs[op]) + Len(Outputs[op]) <= MaxTemps
    PROVE  /\ InPaths(i, op) \in Seq(Paths) /\ Len(InPaths(i, op)) = Len(Inputs[op])
           /\ OutPaths(i, op) \in Seq(Paths) /\ Len(OutPaths(i, op)) = Len(Outputs[op])
           /\ \A p \in Range(InPaths(i, op)) \cup Range(OutPaths(i, op)) : p.dir = home[i]
<1>1. /\ home[i] \in Dirs /\ home[i] \in dirs
      /\ counter[i] \in 0 .. MaxTemps /\ MaxTemps \in Nat
  BY WrapperConstantsAssumption DEF GpgWrapperTypeOK, HomesInv, HomeInv
<1>2. /\ Inputs[op] \in Seq(TempSuffixes) /\ Outputs[op] \in Seq(TempSuffixes)
      /\ Len(Inputs[op]) \in Nat /\ Len(Outputs[op]) \in Nat
  BY OpFacts
<1>3. ASSUME NEW number \in 1 .. MaxTemps, NEW suffix \in TempSuffixes
      PROVE  MakeTempPath(i, number, suffix) \in Paths /\ MakeTempPath(i, number, suffix).dir = home[i]
  BY <1>1 DEF MakeTempPath, Paths
<1>4. /\ \A n \in DOMAIN Inputs[op] : Inputs[op][n] \in TempSuffixes /\ counter[i] + n \in 1 .. MaxTemps
      /\ \A n \in DOMAIN Outputs[op] : /\ Outputs[op][n] \in TempSuffixes
                                       /\ counter[i] + Len(Inputs[op]) + n \in 1 .. MaxTemps
  <2>1. ASSUME NEW n \in DOMAIN Inputs[op]
        PROVE  Inputs[op][n] \in TempSuffixes /\ n \in 1 .. Len(Inputs[op])
    BY <1>2
  <2>2. ASSUME NEW n \in DOMAIN Outputs[op]
        PROVE  Outputs[op][n] \in TempSuffixes /\ n \in 1 .. Len(Outputs[op])
    BY <1>2
  <2>3. \A n \in 1 .. Len(Inputs[op]) : counter[i] + n \in 1 .. MaxTemps
    BY <1>1, <1>2
  <2>4. \A n \in 1 .. Len(Outputs[op]) : counter[i] + Len(Inputs[op]) + n \in 1 .. MaxTemps
    BY <1>1, <1>2
  <2> QED
    BY <2>1, <2>2, <2>3, <2>4
<1>5. \A n \in DOMAIN Inputs[op] : InPaths(i, op)[n] \in Paths /\ InPaths(i, op)[n].dir = home[i]
  BY <1>3, <1>4 DEF InPaths
<1>6. \A n \in DOMAIN Outputs[op] : OutPaths(i, op)[n] \in Paths /\ OutPaths(i, op)[n].dir = home[i]
  BY <1>3, <1>4 DEF OutPaths
<1>7. /\ InPaths(i, op) \in [DOMAIN Inputs[op] -> Paths]
      /\ OutPaths(i, op) \in [DOMAIN Outputs[op] -> Paths]
  BY <1>5, <1>6 DEF InPaths, OutPaths
<1>8. ASSUME NEW s \in Seq(TempSuffixes), NEW f \in [DOMAIN s -> Paths]
      PROVE  f \in Seq(Paths) /\ Len(f) = Len(s)
  OBVIOUS
<1>9. /\ InPaths(i, op) \in Seq(Paths) /\ Len(InPaths(i, op)) = Len(Inputs[op])
      /\ OutPaths(i, op) \in Seq(Paths) /\ Len(OutPaths(i, op)) = Len(Outputs[op])
  BY <1>2, <1>7, <1>8
<1>10. \A p \in Range(InPaths(i, op)) \cup Range(OutPaths(i, op)) : p.dir = home[i]
  BY <1>5, <1>6, <1>7 DEF Range
<1> QED
  BY <1>9, <1>10

\* A new call's record is well formed.
LEMMA NewCallType ==
    ASSUME GpgWrapperTypeOK, HomesInv, NEW i \in Instances, NEW op \in Ops, home[i] # NoDir,
           counter[i] + Len(Inputs[op]) + Len(Outputs[op]) <= MaxTemps,
           NEW k \in Keys \cup {NoKey}, MayCall(i, op), NEW step \in {"run", "returned"}
    PROVE  /\ NewCall(i, op, k, step) \in Calls
           /\ ShapeOf(NewCall(i, op, k, step), home[i])
<1> DEFINE c == NewCall(i, op, k, step)
<1>1. /\ InPaths(i, op) \in Seq(Paths) /\ Len(InPaths(i, op)) = Len(Inputs[op])
      /\ OutPaths(i, op) \in Seq(Paths) /\ Len(OutPaths(i, op)) = Len(Outputs[op])
      /\ \A p \in Range(InPaths(i, op)) \cup Range(OutPaths(i, op)) : p.dir = home[i]
  BY PathsType
<1>2. counter[i] + 1 \in 0 .. MaxTemps
  <2>1. counter[i] \in 0 .. MaxTemps /\ MaxTemps \in Nat
    BY WrapperConstantsAssumption DEF GpgWrapperTypeOK
  <2>2. Len(Inputs[op]) \in Nat /\ Len(Outputs[op]) \in Nat /\ Len(Inputs[op]) + Len(Outputs[op]) > 0
    BY OpFacts
  <2> DEFINE a == Len(Inputs[op])
             b == Len(Outputs[op])
  <2>3. a \in Nat /\ b \in Nat /\ a + b > 0 /\ counter[i] + a + b <= MaxTemps
    BY <2>2
  <2> HIDE DEF a, b
  <2> QED
    BY <2>1, <2>3
<1>3. [from |-> i, number |-> counter[i] + 1, key |-> k] \in Payloads
  BY <1>2 DEF Payloads
<1>4. Target(i, op, k) \in Keys \cup {NoKey}
  <2>1. peers[i] \in Seq(Keys) /\ own[i] \in Keys \cup {NoKey}
    BY DEF GpgWrapperTypeOK
  <2>2. peers[i] # <<>> => Last(peers[i]) \in Keys
    BY <2>1 DEF Last
  <2>3. op \in {"encrypt", "sign", "verify", "import", "revoke"}
    BY DEF Ops, Inputs
  <2> QED
    BY <2>1, <2>2, <2>3 DEF Target, MayCall
<1>5. (\E p \in Range(OutPaths(i, op)) : OnDisk(p)) \in BOOLEAN
  OBVIOUS
<1>6. c = [op |-> op, step |-> step, in |-> InPaths(i, op), out |-> OutPaths(i, op),
           payload |-> [from |-> i, number |-> counter[i] + 1, key |-> k],
           target |-> Target(i, op, k),
           stale |-> \E p \in Range(OutPaths(i, op)) : OnDisk(p),
           started |-> TRUE, gpgOk |-> FALSE, product |-> NoProduct, status |-> "pending"]
  BY DEF NewCall
<1>7. c \in Calls
  <2> DEFINE isStale == \E p \in Range(OutPaths(i, op)) : OnDisk(p)
             payload == [from |-> i, number |-> counter[i] + 1, key |-> k]
  <2>1. isStale \in BOOLEAN /\ payload \in Payloads
    BY <1>3
  <2>2. c = [op |-> op, step |-> step, in |-> InPaths(i, op), out |-> OutPaths(i, op),
             payload |-> payload, target |-> Target(i, op, k), stale |-> isStale,
             started |-> TRUE, gpgOk |-> FALSE, product |-> NoProduct, status |-> "pending"]
    BY <1>6
  <2> HIDE DEF isStale, payload, c
  <2> QED
    BY <1>1, <1>4, <2>1, <2>2 DEF Calls
<1>8. op = "import" => Target(i, op, k) = k
  BY DEF Target
<1>9. /\ c.op = op /\ c.in = InPaths(i, op) /\ c.out = OutPaths(i, op)
      /\ c.target = Target(i, op, k) /\ c.payload.key = k
      /\ ~c.gpgOk /\ c.started
  BY <1>6
<1> HIDE DEF c
<1>10. ShapeOf(c, home[i])
  BY <1>1, <1>8, <1>9 DEF ShapeOf
<1> QED
  BY <1>7, <1>10 DEF c

\* Two keys of the same number and address are the same.
LEMMA KeyIdentity ==
    ASSUME NEW k \in Keys, NEW m \in Keys, k.number = m.number, k.email = m.email
    PROVE  k = m
  BY DEF Keys, GeneratedKeys

\* Key numbers are naturals.
LEMMA KeyNumber ==
    ASSUME NEW k \in Keys
    PROVE  k.number \in Nat
  BY WrapperConstantsAssumption DEF Keys, GeneratedKeys

\* What SecretKeys lists.
LEMMA SecretKeysFacts ==
    ASSUME NEW ring \in SUBSET [key : Keys, secret : BOOLEAN]
    PROVE  /\ SecretKeys(ring) \subseteq Keys
           /\ \A k : k \in SecretKeys(ring) <=> [key |-> k, secret |-> TRUE] \in ring
<1>1. ASSUME NEW k, [key |-> k, secret |-> TRUE] \in ring
      PROVE  k \in SecretKeys(ring)
  <2> DEFINE e == [key |-> k, secret |-> TRUE]
  <2>1. e \in {x \in ring : x.secret} /\ e.key = k
    BY <1>1
  <2> HIDE DEF e
  <2> QED
    BY <2>1 DEF SecretKeys
<1>2. ASSUME NEW k, k \in SecretKeys(ring)
      PROVE  [key |-> k, secret |-> TRUE] \in ring /\ k \in Keys
  <2>1. PICK e \in ring : e.secret /\ e.key = k
    BY <1>2 DEF SecretKeys
  <2>2. e \in [key : Keys, secret : BOOLEAN] /\ e.secret = TRUE
    BY <2>1
  <2>3. e = [key |-> k, secret |-> TRUE]
    BY <2>1, <2>2
  <2> QED
    BY <2>1, <2>2, <2>3
<1> QED
  BY <1>1, <1>2

\* The key that is listed first is the oldest one of its address, and there is
\* only one of these.
LEMMA FirstSecretFacts ==
    ASSUME NEW ring \in SUBSET [key : Keys, secret : BOOLEAN], NEW email,
           NEW k \in SecretKeys(ring), k.email = email
    PROVE  /\ FirstSecret(ring, email) \in SecretKeys(ring)
           /\ FirstSecret(ring, email).email = email
           /\ \A m \in SecretKeys(ring) : m.email = email =>
                 FirstSecret(ring, email).number <= m.number
           /\ (\A m \in SecretKeys(ring) : m.email = email => k.number <= m.number)
                 => k = FirstSecret(ring, email)
<1> DEFINE listed == {m \in SecretKeys(ring) : m.email = email}
           Oldest(m) == \A o \in listed : m.number <= o.number
           first == CHOOSE m \in listed : Oldest(m)
           numbers == {n \in Nat : \E m \in listed : m.number = n}
<1>1. listed \subseteq Keys /\ \A m \in listed : m.number \in Nat
  BY SecretKeysFacts, KeyNumber
<1>2. PICK n \in numbers : \A o \in numbers : n <= o
  <2>1. numbers \in SUBSET Nat /\ k.number \in numbers
    BY <1>1
  <2> HIDE DEF numbers
  <2> QED
    BY <2>1, LeastNatural
<1>3. \E m \in listed : Oldest(m)
  <2>1. PICK m \in listed : m.number = n
    OBVIOUS
  <2>2. ASSUME NEW o \in listed
        PROVE  m.number <= o.number
    <3>1. o.number \in numbers
      BY <1>1
    <3> QED
      BY <1>2, <2>1, <3>1
  <2> QED
    BY <2>2
<1>4. first \in listed /\ Oldest(first)
  <2> HIDE DEF listed, Oldest
  <2> QED
    BY <1>3, Zenon
<1>5. FirstSecret(ring, email) = first
  BY DEF FirstSecret
<1>6. ASSUME \A m \in listed : k.number <= m.number
      PROVE  k = first
  <2>1. k \in listed /\ first \in listed /\ k.number <= first.number /\ first.number <= k.number
    <3> HIDE DEF first
    <3> QED
      BY <1>4, <1>6
  <2>2. k.number = first.number /\ k.email = first.email
    <3> HIDE DEF first
    <3> QED
      BY <1>1, <2>1
  <2> HIDE DEF first, listed
  <2> QED
    BY <1>1, <2>1, <2>2, KeyIdentity
<1> HIDE DEF first
<1> QED
  BY <1>4, <1>5, <1>6

-----------------------------------------------------------------------------
(* Other instances: what a step of one leaves alone. *)

\* What instance j remembers is as it was, and what it knows of disturbances is
\* not forgotten.
SameInstance(j) ==
    /\ home'[j] = home[j] /\ counter'[j] = counter[j] /\ own'[j] = own[j]
    /\ peers'[j] = peers[j] /\ call'[j] = call[j] /\ repeated'[j] = repeated[j]
    /\ disturbed[j] => disturbed'[j]

\* The contents of directory d are as they were.
SameDirectory(d) ==
    /\ keyring'[d] = keyring[d]
    /\ \A f : f.path.dir = d => (f \in files' <=> f \in files)

\* A step of one instance changes no other one, removes no other one's directory,
\* and changes no directory of another one that it does not disturb.
LEMMA OthersUntouched ==
    ASSUME WrapperInv, NEW i \in Instances, Step(i), NEW j \in Instances \ {i}
    PROVE  /\ SameInstance(j)
           /\ home[j] \in dirs => home[j] \in dirs'
           /\ home[j] # NoDir /\ ~disturbed'[j] => SameDirectory(home[j])
<1> USE DEF SameInstance
<1>1. /\ home \in [Instances -> Dirs \cup {NoDir}] /\ counter \in [Instances -> 0 .. MaxTemps]
      /\ own \in [Instances -> Keys \cup {NoKey}] /\ peers \in [Instances -> Seq(Keys)]
      /\ keyring \in [Dirs -> SUBSET [key : Keys, secret : BOOLEAN]]
      /\ call \in [Instances -> Calls \cup {NoCall}]
      /\ disturbed \in [Instances -> BOOLEAN] /\ repeated \in [Instances -> SUBSET Keys]
  BY DEF WrapperInv, GpgWrapperTypeOK
<1>2. /\ home[i] \in {NoDir, i} \cup CallerDirs /\ home[j] \in {NoDir, j} \cup CallerDirs
      /\ i \notin CallerDirs /\ i # NoDir /\ j # i /\ NoDir \notin CallerDirs
  BY WrapperConstantsAssumption DEF WrapperInv, HomesInv, HomeInv, NoDir
<1>3. \A e : Disturbs(i, e) => /\ disturbed[j] => disturbed'[j]
                               /\ home[j] = e => disturbed'[j]
  BY <1>1 DEF Disturbs
<1>4. call[i] # NoCall => /\ \A p \in Range(call[i].in) \cup Range(call[i].out) : p.dir = home[i]
                          /\ home[i] \in Dirs
  BY <1>1 DEF WrapperInv, ShapeInv, ShapeOf, HomesInv, HomeInv, GpgWrapperTypeOK
<1>5. \A d : d # home[i] /\ keyring'[d] = keyring[d]
               /\ (\A f : f.path.dir # home[i] => (f \in files' <=> f \in files)) => SameDirectory(d)
  BY DEF SameDirectory
<1>6. keyring' = keyring /\ files' = files => \A d : SameDirectory(d)
  BY DEF SameDirectory
<1>7. ASSUME Construct(i)
      PROVE  SameInstance(j) /\ dirs \subseteq dirs' /\ keyring' = keyring /\ files' = files
  BY <1>1, <1>7 DEF Construct
<1>8. ASSUME NEW d \in CallerDirs, SetHomeDir(i, d)
      PROVE  /\ SameInstance(j)
             /\ home[j] \in dirs => home[j] \in dirs'
             /\ home[j] # NoDir => SameDirectory(home[j])
  <2>1. SameInstance(j)
    BY <1>1, <1>3, <1>8 DEF SetHomeDir
  <2>2. CASE home[i] \in CallerDirs
    BY <1>6, <1>8, <2>1, <2>2 DEF SetHomeDir
  <2>3. CASE home[i] \notin CallerDirs
    <3>1. home[i] = i /\ home[j] # home[i]
      BY <1>2, <1>8, <2>3 DEF SetHomeDir, Fresh
    <3>2. /\ dirs' = (dirs \ {home[i]}) \cup {d}
          /\ files' = {f \in files : f.path.dir # home[i]}
          /\ keyring' = [keyring EXCEPT ![home[i]] = {}]
      BY <1>8, <2>3 DEF SetHomeDir
    <3> QED
      BY <1>1, <1>5, <2>1, <3>1, <3>2
  <2> QED
    BY <2>2, <2>3
<1>9. ASSUME Destroy(i)
      PROVE  /\ SameInstance(j)
             /\ home[j] \in dirs => home[j] \in dirs'
             /\ home[j] # NoDir => SameDirectory(home[j])
  <2>1. SameInstance(j)
    BY <1>1, <1>9 DEF Destroy, Forget
  <2>2. CASE home[i] \in CallerDirs
    BY <1>6, <1>9, <2>1, <2>2 DEF Destroy
  <2>3. CASE home[i] \notin CallerDirs
    <3>1. home[i] = i /\ home[j] # home[i]
      BY <1>2, <1>9, <2>3 DEF Destroy, Idle
    <3>2. /\ dirs' = dirs \ {home[i]}
          /\ files' = {f \in files : f.path.dir # home[i]}
          /\ keyring' = [keyring EXCEPT ![home[i]] = {}]
      BY <1>9, <2>3 DEF Destroy, RemoveAll
    <3> QED
      BY <1>1, <1>5, <2>1, <3>1, <3>2
  <2> QED
    BY <2>2, <2>3
<1>10. ASSUME Kill(i)
       PROVE  SameInstance(j) /\ dirs' = dirs /\ keyring' = keyring /\ files' = files
  BY <1>1, <1>10 DEF Kill, Forget, diskVars
<1>11. ASSUME LoadOwnIdentity(i) \/ Throw(i) \/ GpgFails(i) \/ GpgDoesNotStart(i)
       PROVE  SameInstance(j) /\ dirs' = dirs /\ keyring' = keyring /\ files' = files
  BY <1>1, <1>11 DEF LoadOwnIdentity, Throw, GpgFails, GpgDoesNotStart, instanceVars, diskVars
<1>12. ASSUME \/ \E email \in Emails : GenerateKeyPair(i, email)
              \/ DeleteOwnIdentity(i)
              \/ \E k \in KeyBlocks : DeletePeerPublicKey(i, k)
       PROVE  /\ SameInstance(j) /\ dirs' = dirs /\ files' = files /\ Disturbs(i, home[i])
              /\ \A d : d # home[i] => keyring'[d] = keyring[d]
  <2>1. CASE \E email \in Emails : GenerateKeyPair(i, email)
    BY <1>1, <1>3, <2>1 DEF GenerateKeyPair
  <2>2. CASE DeleteOwnIdentity(i)
    BY <1>1, <1>3, <2>2 DEF DeleteOwnIdentity
  <2>3. CASE \E k \in KeyBlocks : DeletePeerPublicKey(i, k)
    BY <1>1, <1>3, <2>3 DEF DeletePeerPublicKey
  <2> QED
    BY <1>12, <2>1, <2>2, <2>3
<1>13. ASSUME NEW paths, \A p \in Range(paths) : p.dir = home[i], NEW data, NEW f, f.path.dir # home[i]
       PROVE  /\ f \in Written(paths, data) <=> f \in files
              /\ f \in Removed(paths) <=> f \in files
  BY <1>13 DEF Written, Removed
<1>14. ASSUME NEW op \in Ops, NEW k, StartCall(i, op, k) \/ WriteFails(i, op, k)
       PROVE  /\ SameInstance(j) /\ dirs' = dirs /\ keyring' = keyring /\ Disturbs(i, home[i])
              /\ \A f : f.path.dir # home[i] => (f \in files' <=> f \in files)
  <2>1. Enter(i, op) /\ home[i] # NoDir
    BY <1>14 DEF StartCall, WriteFails, Enter, Idle
  <2>2. /\ InPaths(i, op) \in Seq(Paths) /\ Len(InPaths(i, op)) = Len(Inputs[op])
        /\ \A p \in Range(InPaths(i, op)) : p.dir = home[i]
    BY <2>1, PathsType DEF WrapperInv, Enter
  <2>3. dirs' = dirs /\ keyring' = keyring /\ Disturbs(i, home[i])
    BY <2>1 DEF Enter
  <2>4. \A step : NewCall(i, op, k, step).in = InPaths(i, op)
    BY DEF NewCall
  <2>5. /\ call'[j] = call[j]
        /\ \/ \E data : files' = Written(InPaths(i, op), data)
           \/ files' = Removed(InPaths(i, op))
           \/ op # "verify" /\ Inputs[op] # <<>> /\ files' = Written(<<InPaths(i, op)[1]>>, CutShort(i))
    <3>1. CASE StartCall(i, op, k)
      BY <1>1, <2>4, <3>1 DEF StartCall
    <3>2. CASE WriteFails(i, op, k)
      BY <1>1, <2>4, <3>2 DEF WriteFails
    <3> QED
      BY <1>14, <3>1, <3>2
  <2>6. SameInstance(j)
    BY <1>1, <1>3, <2>1, <2>5 DEF Enter
  <2>7. Inputs[op] # <<>> => \A p \in Range(<<InPaths(i, op)[1]>>) : p.dir = home[i]
    <3>1. Inputs[op] # <<>> => 1 \in DOMAIN InPaths(i, op)
      BY <2>2, OpFacts
    <3>2. Range(<<InPaths(i, op)[1]>>) = {InPaths(i, op)[1]}
      BY DEF Range
    <3>3. 1 \in DOMAIN InPaths(i, op) => InPaths(i, op)[1] \in Range(InPaths(i, op))
      BY DEF Range
    <3> QED
      BY <2>2, <3>1, <3>2, <3>3
  <2>8. \A f : f.path.dir # home[i] => (f \in files' <=> f \in files)
    BY <1>13, <2>2, <2>5, <2>7
  <2> QED
    BY <2>3, <2>6, <2>8
<1>15. ASSUME RunGpg(i)
       PROVE  /\ SameInstance(j) /\ dirs' = dirs /\ Disturbs(i, home[i])
              /\ \A d : d # home[i] => keyring'[d] = keyring[d]
              /\ \A f : f.path.dir # home[i] => (f \in files' <=> f \in files)
  <2>1. call[i] # NoCall
    BY <1>15 DEF RunGpg, NoCall
  <2>2. \E data : files' = Written(call[i].out, data)
    BY <1>15 DEF RunGpg
  <2>3. \A f : f.path.dir # home[i] => (f \in files' <=> f \in files)
    BY <1>4, <1>13, <2>1, <2>2
  <2>4. \A d : d # home[i] => keyring'[d] = keyring[d]
    BY <1>1, <1>15 DEF RunGpg
  <2> QED
    BY <1>1, <1>3, <1>15, <2>3, <2>4 DEF RunGpg, instanceVars
<1>16. ASSUME Finish(i)
       PROVE  /\ SameInstance(j) /\ dirs' = dirs /\ keyring' = keyring /\ Disturbs(i, home[i])
              /\ \A f : f.path.dir # home[i] => (f \in files' <=> f \in files)
  <2>1. call[i] # NoCall
    BY <1>16 DEF Finish, NoCall
  <2>2. files' = {f \in files : f.path \notin Cleaned(call[i])}
    BY <1>16 DEF Finish
  <2>3. Cleaned(call[i]) \subseteq Range(call[i].in) \cup Range(call[i].out)
    BY DEF Cleaned
  <2>4. \A f : f.path.dir # home[i] => (f \in files' <=> f \in files)
    BY <1>4, <2>1, <2>2, <2>3
  <2>5. call'[j] = call[j] /\ peers'[j] = peers[j] /\ repeated'[j] = repeated[j]
    BY <1>1, <1>16 DEF Finish
  <2> QED
    BY <1>1, <1>3, <1>16, <2>4, <2>5 DEF Finish
<1>17. ASSUME /\ SameInstance(j) /\ dirs' = dirs /\ Disturbs(i, home[i])
              /\ \A d : d # home[i] => keyring'[d] = keyring[d]
              /\ \A f : f.path.dir # home[i] => (f \in files' <=> f \in files)
       PROVE  /\ SameInstance(j)
              /\ home[j] \in dirs => home[j] \in dirs'
              /\ home[j] # NoDir /\ ~disturbed'[j] => SameDirectory(home[j])
  BY <1>3, <1>5, <1>17
<1> HIDE DEF SameInstance
<1> QED
  BY <1>6, <1>7, <1>8, <1>9, <1>10, <1>11, <1>12, <1>14, <1>15, <1>16, <1>17 DEF Step

\* The part of the invariant that is about one instance.
InstanceInv(i) ==
    /\ HomeInv(i)
    /\ call[i] # NoCall => ShapeOf(call[i], home[i])
    /\ Undisturbed(i) => TrackedInv(i) /\ CallInv(i)

\* The invariant of an instance survives the steps of the others.
LEMMA OthersInvariant ==
    ASSUME WrapperInv, NEW i \in Instances, Step(i), NEW j \in Instances \ {i}
    PROVE  InstanceInv(j)'
<1>1. /\ HomeInv(j)
      /\ call[j] # NoCall => ShapeOf(call[j], home[j])
      /\ Undisturbed(j) => TrackedInv(j) /\ CallInv(j)
  BY DEF WrapperInv, HomesInv, ShapeInv
<1>2. /\ SameInstance(j)
      /\ home[j] \in dirs => home[j] \in dirs'
      /\ home[j] # NoDir /\ ~disturbed'[j] => SameDirectory(home[j])
  BY OthersUntouched
<1>3. HomeInv(j)'
  BY <1>1, <1>2 DEF HomeInv, SameInstance
<1>4. (call[j] # NoCall => ShapeOf(call[j], home[j]))'
  BY <1>1, <1>2 DEF ShapeOf, SameInstance
<1>5. ASSUME Undisturbed(j)'
      PROVE  TrackedInv(j)' /\ CallInv(j)'
  <2>1. TrackedInv(j) /\ CallInv(j) /\ SameDirectory(home[j]) /\ home[j] # NoDir
    BY <1>1, <1>2, <1>5 DEF Undisturbed, SameInstance
  <2>2. TrackedInv(j)'
    BY <1>2, <2>1 DEF TrackedInv, SameInstance, SameDirectory, HasSecret, InKeyring
  <2>3. ASSUME NEW p, p.dir = home[j]
        PROVE  OnDisk(p)' <=> OnDisk(p)
    BY <2>1, <2>3 DEF OnDisk, SameDirectory
  <2>4. ASSUME NEW p, p.dir = home[j], NEW data
        PROVE  Holds(p, data)' <=> Holds(p, data)
    <3> DEFINE f == [path |-> p, data |-> data]
    <3>1. f.path.dir = home[j]
      BY <2>4
    <3> HIDE DEF f
    <3>2. f \in files' <=> f \in files
      BY <2>1, <3>1 DEF SameDirectory
    <3> QED
      BY <3>2 DEF Holds, f
  <2>5. InKeyring(home[j], call[j].product.key)' <=> InKeyring(home[j], call[j].product.key)
    BY <1>2, <2>1 DEF InKeyring, SameInstance, SameDirectory
  <2>6. CallInv(j)'
    <3>1. call[j] # NoCall => \A p \in Range(call[j].in) \cup Range(call[j].out) : p.dir = home[j]
      BY <1>1 DEF ShapeOf
    <3>2. call'[j] = call[j] /\ OwnProduct(call[j])' = OwnProduct(call[j])
      BY <1>2 DEF SameInstance, OwnProduct
    <3> QED
      BY <1>2, <2>1, <2>3, <2>4, <2>5, <3>1, <3>2 DEF CallInv
  <2> QED
    BY <2>2, <2>6
<1> QED
  BY <1>3, <1>4, <1>5 DEF InstanceInv

-----------------------------------------------------------------------------
(* The instance that takes the step: its home directory. *)

\* The types, without the call's home directory that HomesInv implies.
VariablesOK ==
    /\ home \in [Instances -> Dirs \cup {NoDir}]
    /\ counter \in [Instances -> 0 .. MaxTemps]
    /\ own \in [Instances -> Keys \cup {NoKey}]
    /\ peers \in [Instances -> Seq(Keys)]
    /\ dirs \subseteq Dirs
    /\ keyring \in [Dirs -> SUBSET [key : Keys, secret : BOOLEAN]]
    /\ generated \in 0 .. MaxKeys
    /\ FilesOK(files, dirs)
    /\ call \in [Instances -> Calls \cup {NoCall}]
    /\ disturbed \in [Instances -> BOOLEAN]
    /\ repeated \in [Instances -> SUBSET Keys]

LEMMA TypeParts == GpgWrapperTypeOK => VariablesOK
  BY DEF GpgWrapperTypeOK, VariablesOK, FilesOK

LEMMA PartsType == VariablesOK /\ HomesInv => GpgWrapperTypeOK
  BY DEF GpgWrapperTypeOK, VariablesOK, FilesOK, HomesInv, HomeInv

\* What the parts of the invariant say of one instance.
LEMMA InstanceParts ==
    ASSUME WrapperInv, NEW i \in Instances
    PROVE  VariablesOK /\ InstanceInv(i)
  BY TypeParts DEF WrapperInv, InstanceInv, HomesInv, ShapeInv

\* An instance that remembers nothing after the step, whatever is in its directory.
LEMMA NothingRemembered ==
    ASSUME NEW i \in Instances, home'[i] # NoDir => home'[i] \in dirs',
           home'[i] \in {NoDir, i} \cup CallerDirs,
           own'[i] = NoKey, peers'[i] = <<>>, call'[i] = NoCall
    PROVE  InstanceInv(i)'
<1>1. HomeInv(i)'
  BY DEF HomeInv
<1>2. TrackedInv(i)'
  <2>1. Range(peers'[i]) = {} /\ DOMAIN peers'[i] = {}
    BY DEF Range
  <2> QED
    BY <2>1 DEF TrackedInv
<1>3. CallInv(i)'
  BY DEF CallInv
<1> QED
  BY <1>1, <1>2, <1>3 DEF InstanceInv

\* No secret key is added: none is newer than the last one generated.
LEMMA SecretsShrink ==
    ASSUME VariablesOK, VariablesOK', SecretsInv, generated' = generated,
           \A d \in Dirs : SecretKeys(keyring'[d]) \subseteq SecretKeys(keyring[d])
    PROVE  SecretsInv'
  BY DEF SecretsInv, SecretKeys

LEMMA ConstructStep ==
    ASSUME WrapperInv, NEW i \in Instances, Construct(i)
    PROVE  VariablesOK' /\ SecretsInv' /\ InstanceInv(i)'
<1>1. VariablesOK /\ HomeInv(i)
  BY InstanceParts DEF InstanceInv
<1>2. FilesOK(files', dirs')
  BY <1>1 DEF Construct, FilesOK, VariablesOK
<1>3. VariablesOK'
  BY <1>1, <1>2 DEF Construct, VariablesOK, Dirs
<1>4. SecretsInv'
  BY DEF Construct, SecretsInv, SecretKeys, WrapperInv
<1>5. /\ home'[i] = i /\ i \in dirs'
      /\ own'[i] = NoKey /\ peers'[i] = <<>> /\ call'[i] = NoCall
  BY <1>1 DEF Construct, VariablesOK, HomeInv
<1> QED
  BY <1>3, <1>4, <1>5, NothingRemembered

LEMMA SetHomeDirStep ==
    ASSUME WrapperInv, NEW i \in Instances, NEW d \in CallerDirs, SetHomeDir(i, d)
    PROVE  VariablesOK' /\ SecretsInv' /\ InstanceInv(i)'
<1>1. VariablesOK /\ HomeInv(i)
  BY InstanceParts DEF InstanceInv
<1>2. home[i] \in Dirs /\ d \in Dirs /\ d # NoDir
  BY <1>1, WrapperConstantsAssumption DEF VariablesOK, SetHomeDir, Fresh, Dirs, NoDir
<1>3. /\ FilesOK(files', dirs') /\ dirs' \subseteq Dirs /\ d \in dirs'
      /\ keyring' \in [Dirs -> SUBSET [key : Keys, secret : BOOLEAN]]
      /\ \A e \in Dirs : keyring'[e] \subseteq keyring[e]
  <2>1. /\ FilesOK(files, dirs) /\ dirs \subseteq Dirs
        /\ keyring \in [Dirs -> SUBSET [key : Keys, secret : BOOLEAN]]
    BY <1>1 DEF VariablesOK
  <2>2. CASE home[i] \in CallerDirs
    <3>1. dirs' = dirs \cup {d} /\ keyring' = keyring /\ files' = files
      BY <2>2 DEF SetHomeDir
    <3> QED
      BY <1>2, <2>1, <3>1 DEF FilesOK
  <2>3. CASE home[i] \notin CallerDirs
    <3>1. /\ dirs' = (dirs \ {home[i]}) \cup {d}
          /\ files' = {f \in files : f.path.dir # home[i]}
          /\ keyring' = [keyring EXCEPT ![home[i]] = {}]
      BY <2>3 DEF SetHomeDir
    <3>2. FilesOK(files', dirs')
      BY <2>1, <3>1 DEF FilesOK
    <3> QED
      BY <1>2, <2>1, <3>1, <3>2
  <2> QED
    BY <2>2, <2>3
<1>4. VariablesOK'
  BY <1>1, <1>2, <1>3 DEF SetHomeDir, VariablesOK, Disturbs
<1>5. SecretsInv'
  <2>1. \A e \in Dirs : SecretKeys(keyring'[e]) \subseteq SecretKeys(keyring[e])
    BY <1>3 DEF SecretKeys
  <2> QED
    BY <1>1, <1>4, <2>1, SecretsShrink DEF SetHomeDir, WrapperInv
<1>6. /\ home'[i] = d /\ d \in dirs'
      /\ own'[i] = NoKey /\ peers'[i] = <<>> /\ call'[i] = NoCall
  BY <1>1, <1>3 DEF SetHomeDir, Fresh, VariablesOK, HomeInv
<1> QED
  BY <1>4, <1>5, <1>6, NothingRemembered

\* Destroy and Kill: the object is gone, and with it what it remembered.
LEMMA GoneStep ==
    ASSUME WrapperInv, NEW i \in Instances, Destroy(i) \/ Kill(i)
    PROVE  VariablesOK' /\ SecretsInv' /\ InstanceInv(i)'
<1>1. VariablesOK /\ HomeInv(i)
  BY InstanceParts DEF InstanceInv
<1>2. /\ home' = [home EXCEPT ![i] = NoDir] /\ Forget(i) /\ generated' = generated
      /\ home[i] \in Dirs
  BY <1>1 DEF Destroy, Kill, diskVars, VariablesOK, Idle
<1>3. /\ FilesOK(files', dirs') /\ dirs' \subseteq Dirs
      /\ keyring' \in [Dirs -> SUBSET [key : Keys, secret : BOOLEAN]]
      /\ \A e \in Dirs : keyring'[e] \subseteq keyring[e]
  <2>1. CASE dirs' = dirs /\ keyring' = keyring /\ files' = files
    BY <1>1, <2>1 DEF VariablesOK
  <2>2. CASE RemoveAll(home[i])
    BY <1>1, <1>2, <2>2 DEF VariablesOK, RemoveAll, FilesOK
  <2> QED
    BY <2>1, <2>2 DEF Destroy, Kill, diskVars
<1>4. VariablesOK'
  <2>1. <<>> \in Seq(Keys) /\ 0 \in 0 .. MaxTemps
    BY WrapperConstantsAssumption
  <2> QED
    BY <1>1, <1>2, <1>3, <2>1 DEF Forget, VariablesOK
<1>5. SecretsInv'
  <2>1. \A e \in Dirs : SecretKeys(keyring'[e]) \subseteq SecretKeys(keyring[e])
    BY <1>3 DEF SecretKeys
  <2> QED
    BY <1>1, <1>2, <1>4, <2>1, SecretsShrink DEF WrapperInv
<1>6. home'[i] = NoDir /\ own'[i] = NoKey /\ peers'[i] = <<>> /\ call'[i] = NoCall
  BY <1>1, <1>2 DEF Forget, VariablesOK
<1> QED
  BY <1>4, <1>5, <1>6, NothingRemembered

-----------------------------------------------------------------------------
(* The instance that takes the step: its keyring. *)

\* A call that is over says nothing of the keyring.
LEMMA CallIsOver ==
    ASSUME NEW i \in Instances, Idle(i), call'[i] = call[i], files' = files, CallInv(i)
    PROVE  CallInv(i)'
<1>1. call[i].step # "finish" /\ call[i].step # "run"
  BY DEF Idle
<1> QED
  BY <1>1 DEF CallInv, OnDisk, OwnProduct

\* What the operations on the keyring share: the call, the disk's files and the
\* home directory stay.
LEMMA KeyringStep ==
    ASSUME WrapperInv, NEW i \in Instances, Idle(i), Disturbs(i, home[i]) \/ disturbed' = disturbed,
           UNCHANGED <<home, counter, dirs, files, call>>,
           own' \in [Instances -> Keys \cup {NoKey}], peers' \in [Instances -> Seq(Keys)],
           keyring' \in [Dirs -> SUBSET [key : Keys, secret : BOOLEAN]],
           generated' \in 0 .. MaxKeys, repeated' \in [Instances -> SUBSET Keys],
           peers[i] = <<>> => peers'[i] = <<>>,
           Undisturbed(i) /\ TrackedInv(i) => TrackedInv(i)'
    PROVE  VariablesOK' /\ InstanceInv(i)'
<1>1. VariablesOK /\ InstanceInv(i)
  BY InstanceParts
<1>2. disturbed' \in [Instances -> BOOLEAN] /\ disturbed'[i] = disturbed[i]
  BY <1>1 DEF Disturbs, VariablesOK
<1>3. VariablesOK'
  BY <1>1, <1>2 DEF VariablesOK
<1>4. HomeInv(i)' /\ (call[i] # NoCall => ShapeOf(call[i], home[i]))'
  <2>1. home[i] # NoDir
    BY DEF Idle
  <2> QED
    BY <1>1, <2>1 DEF InstanceInv, HomeInv, ShapeOf
<1>5. Undisturbed(i)' => TrackedInv(i)' /\ CallInv(i)'
  BY <1>1, <1>2, CallIsOver DEF InstanceInv, Undisturbed
<1> QED
  BY <1>3, <1>4, <1>5 DEF InstanceInv

LEMMA GenerateStep ==
    ASSUME WrapperInv, NEW i \in Instances, NEW email \in Emails, GenerateKeyPair(i, email)
    PROVE  VariablesOK' /\ SecretsInv' /\ InstanceInv(i)'
<1> DEFINE key == [number |-> generated + 1, email |-> email]
           entry == [key |-> key, secret |-> TRUE]
           ring == keyring[home[i]] \cup {entry}
<1>1. VariablesOK /\ InstanceInv(i) /\ home[i] \in Dirs
  BY InstanceParts DEF GenerateKeyPair, Idle, VariablesOK
<1>2. /\ Idle(i) /\ generated' = generated + 1 /\ Disturbs(i, home[i])
      /\ keyring' = [keyring EXCEPT ![home[i]] = ring]
      /\ own' \in {own, [own EXCEPT ![i] = FirstSecret(ring, email)]}
      /\ UNCHANGED <<home, counter, peers, dirs, files, call, repeated>>
  BY DEF GenerateKeyPair
<1>3. key \in Keys /\ generated \in 0 .. MaxKeys /\ generated + 1 \in 0 .. MaxKeys
  BY <1>1, WrapperConstantsAssumption DEF GenerateKeyPair, VariablesOK, Keys, GeneratedKeys
<1>4. /\ keyring[home[i]] \in SUBSET [key : Keys, secret : BOOLEAN]
      /\ ring \in SUBSET [key : Keys, secret : BOOLEAN]
  <2>1. keyring[home[i]] \in SUBSET [key : Keys, secret : BOOLEAN]
    BY <1>1 DEF VariablesOK
  <2>2. entry \in [key : Keys, secret : BOOLEAN]
    BY <1>3
  <2> HIDE DEF entry
  <2> QED
    BY <2>1, <2>2
<1>5. /\ key \in SecretKeys(ring) /\ key.email = email /\ key.number = generated + 1
      /\ \A k \in SecretKeys(ring) : k \in SecretKeys(keyring[home[i]]) \/ k = key
      /\ \A k \in SecretKeys(keyring[home[i]]) : k \in SecretKeys(ring)
  <2>1. \A k : k \in SecretKeys(ring) <=> [key |-> k, secret |-> TRUE] \in ring
    <3> HIDE DEF ring
    <3> QED
      BY <1>4, SecretKeysFacts
  <2>2. \A k : k \in SecretKeys(keyring[home[i]]) <=> [key |-> k, secret |-> TRUE] \in keyring[home[i]]
    BY <1>4, SecretKeysFacts
  <2> QED
    BY <2>1, <2>2
<1> DEFINE first == FirstSecret(ring, email)
<1> HIDE DEF ring, key
<1>6. /\ first \in SecretKeys(ring) /\ first.email = email
      /\ \A m \in SecretKeys(ring) : m.email = email => first.number <= m.number
  BY <1>4, <1>5, FirstSecretFacts
<1>7. SecretKeys(ring) \subseteq Keys
  BY <1>4, SecretKeysFacts
<1>8. SecretsInv'
  <2>1. ASSUME NEW d \in Dirs, NEW k \in SecretKeys(keyring'[d])
        PROVE  k.number <= generated + 1
    <3>1. \A m \in SecretKeys(keyring[d]) : m.number <= generated /\ m.number \in Nat
      <4>1. keyring[d] \in SUBSET [key : Keys, secret : BOOLEAN]
        BY <1>1 DEF VariablesOK
      <4> QED
        BY <4>1, SecretKeysFacts, KeyNumber DEF WrapperInv, SecretsInv
    <3>2. CASE d = home[i]
      <4>1. k \in SecretKeys(ring)
        BY <1>1, <1>2, <2>1, <3>2 DEF VariablesOK
      <4> QED
        BY <1>3, <1>5, <3>1, <3>2, <4>1
    <3>3. CASE d # home[i]
      BY <1>1, <1>2, <1>3, <3>1, <3>3 DEF VariablesOK
    <3> QED
      BY <3>2, <3>3
  <2> QED
    BY <1>2, <2>1 DEF SecretsInv, SecretKeys
<1>9. /\ own' \in [Instances -> Keys \cup {NoKey}]
      /\ keyring' \in [Dirs -> SUBSET [key : Keys, secret : BOOLEAN]]
      /\ keyring'[home[i]] = ring
      /\ own'[i] = own[i] \/ own'[i] = first
  <2> HIDE DEF first
  <2> QED
    BY <1>1, <1>2, <1>4, <1>6, <1>7 DEF VariablesOK, first
<1>10. ASSUME Undisturbed(i), TrackedInv(i)
       PROVE  TrackedInv(i)'
  <2>1. \A k : InKeyring(home[i], k) => \E e \in ring : e.key = k
    BY DEF InKeyring, ring
  <2>2. ASSUME own'[i] = own[i], own[i] # NoKey, NEW k \in SecretKeys(ring), k.email = own[i].email
        PROVE  own[i] \in SecretKeys(ring) /\ own[i].number <= k.number
    <3>1. own[i] \in SecretKeys(keyring[home[i]])
      BY <1>4, <1>10, <2>2, SecretKeysFacts DEF TrackedInv, HasSecret
    <3>2. own[i].number <= generated /\ own[i].number \in Nat
      BY <1>1, <1>4, <3>1, SecretKeysFacts, KeyNumber DEF WrapperInv, SecretsInv
    <3> QED
      BY <1>3, <1>5, <1>10, <2>2, <3>1, <3>2 DEF TrackedInv
  <2>3. own'[i] # NoKey =>
          /\ [key |-> own'[i], secret |-> TRUE] \in ring
          /\ \A k \in SecretKeys(ring) : k.email = own'[i].email => own'[i].number <= k.number
    <3>1. \A k : k \in SecretKeys(ring) <=> [key |-> k, secret |-> TRUE] \in ring
      BY <1>4, SecretKeysFacts
    <3>2. own'[i] = own[i] /\ own[i] # NoKey => [key |-> own[i], secret |-> TRUE] \in ring
      BY <1>10 DEF TrackedInv, HasSecret, ring
    <3> HIDE DEF first
    <3> QED
      BY <1>6, <1>9, <2>2, <3>1, <3>2
  <2> QED
    BY <1>2, <1>9, <1>10, <2>1, <2>3 DEF TrackedInv, HasSecret, InKeyring, SecretKeys
<1>11. repeated' \in [Instances -> SUBSET Keys] /\ peers' \in [Instances -> Seq(Keys)]
  BY <1>1, <1>2 DEF VariablesOK
<1>12. VariablesOK' /\ InstanceInv(i)'
  BY <1>2, <1>3, <1>9, <1>10, <1>11, KeyringStep
<1> QED
  BY <1>8, <1>12

LEMMA LoadStep ==
    ASSUME WrapperInv, NEW i \in Instances, LoadOwnIdentity(i)
    PROVE  VariablesOK' /\ SecretsInv' /\ InstanceInv(i)'
<1>1. VariablesOK /\ InstanceInv(i) /\ home[i] \in Dirs /\ Idle(i)
  BY InstanceParts DEF LoadOwnIdentity, Idle, VariablesOK
<1>2. PICK k \in SecretKeys(keyring[home[i]]) :
          SecretKeys(keyring[home[i]]) = {k} /\ own' = [own EXCEPT ![i] = k]
  BY DEF LoadOwnIdentity
<1>3. UNCHANGED <<home, counter, peers, dirs, keyring, generated, files, call, disturbed, repeated>>
  BY DEF LoadOwnIdentity, diskVars
<1>4. keyring[home[i]] \in SUBSET [key : Keys, secret : BOOLEAN]
  BY <1>1 DEF VariablesOK
<1>5. k \in Keys /\ [key |-> k, secret |-> TRUE] \in keyring[home[i]] /\ k.number \in Nat
  BY <1>2, <1>4, SecretKeysFacts, KeyNumber
<1>6. own' \in [Instances -> Keys \cup {NoKey}] /\ own'[i] = k
  BY <1>1, <1>2, <1>5 DEF VariablesOK
<1>7. ASSUME TrackedInv(i)
      PROVE  TrackedInv(i)'
  BY <1>2, <1>3, <1>5, <1>6, <1>7 DEF TrackedInv, HasSecret, InKeyring, SecretKeys
<1>8. SecretsInv'
  BY <1>3 DEF WrapperInv, SecretsInv, SecretKeys
<1>9. /\ peers' \in [Instances -> Seq(Keys)] /\ generated' \in 0 .. MaxKeys
      /\ keyring' \in [Dirs -> SUBSET [key : Keys, secret : BOOLEAN]]
      /\ repeated' \in [Instances -> SUBSET Keys]
  BY <1>1, <1>3 DEF VariablesOK
<1>10. VariablesOK' /\ InstanceInv(i)'
  BY <1>1, <1>3, <1>6, <1>7, <1>9, KeyringStep
<1> QED
  BY <1>8, <1>10

\* Deleting a key deletes its secret part, and nothing else.
LEMMA WithoutFacts ==
    ASSUME NEW ring \in SUBSET [key : Keys, secret : BOOLEAN], NEW k
    PROVE  /\ Without(ring, k) \in SUBSET [key : Keys, secret : BOOLEAN]
           /\ SecretKeys(Without(ring, k)) \subseteq SecretKeys(ring)
           /\ \A m : m # k /\ [key |-> m, secret |-> TRUE] \in ring
                        => [key |-> m, secret |-> TRUE] \in Without(ring, k)
           /\ \A m : m # k /\ (\E e \in ring : e.key = m) => \E e \in Without(ring, k) : e.key = m
<1>1. Without(ring, k) \subseteq ring
  BY DEF Without
<1>2. SecretKeys(Without(ring, k)) \subseteq SecretKeys(ring)
  BY <1>1 DEF SecretKeys
<1>3. \A m : m # k /\ (\E e \in ring : e.key = m) => \E e \in Without(ring, k) : e.key = m
  BY DEF Without
<1>4. ASSUME NEW m, m # k, [key |-> m, secret |-> TRUE] \in ring
      PROVE  [key |-> m, secret |-> TRUE] \in Without(ring, k)
  <2> DEFINE e == [key |-> m, secret |-> TRUE]
  <2>1. e \in ring /\ e.key # k
    BY <1>4
  <2> HIDE DEF e
  <2>2. e \in Without(ring, k)
    BY <2>1 DEF Without
  <2> QED
    BY <2>2 DEF e
<1> QED
  BY <1>1, <1>2, <1>3, <1>4

LEMMA DeleteOwnStep ==
    ASSUME WrapperInv, NEW i \in Instances, DeleteOwnIdentity(i)
    PROVE  VariablesOK' /\ SecretsInv' /\ InstanceInv(i)'
<1> DEFINE old == keyring[home[i]]
           new == Without(old, own[i])
<1>1. VariablesOK /\ InstanceInv(i) /\ home[i] \in Dirs /\ Idle(i)
  BY InstanceParts DEF DeleteOwnIdentity, Idle, VariablesOK
<1>2. /\ own[i] # NoKey /\ keyring' = [keyring EXCEPT ![home[i]] = new]
      /\ own' = [own EXCEPT ![i] = NoKey]
      /\ repeated' = [repeated EXCEPT ![i] = repeated[i] \cup {own[i]}]
      /\ Disturbs(i, home[i])
      /\ UNCHANGED <<home, counter, peers, dirs, generated, files, call>>
  BY <1>1 DEF DeleteOwnIdentity, VariablesOK
<1>3. old \in SUBSET [key : Keys, secret : BOOLEAN] /\ own[i] \in Keys /\ repeated[i] \subseteq Keys
  BY <1>1, <1>2 DEF VariablesOK
<1>4. /\ new \in SUBSET [key : Keys, secret : BOOLEAN]
      /\ SecretKeys(new) \subseteq SecretKeys(old)
      /\ \A m : m # own[i] /\ (\E e \in old : e.key = m) => \E e \in new : e.key = m
  BY <1>3, WithoutFacts
<1> HIDE DEF old, new
<1>5. /\ own' \in [Instances -> Keys \cup {NoKey}] /\ own'[i] = NoKey
      /\ keyring' \in [Dirs -> SUBSET [key : Keys, secret : BOOLEAN]] /\ keyring'[home[i]] = new
      /\ repeated' \in [Instances -> SUBSET Keys] /\ repeated'[i] = repeated[i] \cup {own[i]}
      /\ peers' \in [Instances -> Seq(Keys)] /\ generated' \in 0 .. MaxKeys
  BY <1>1, <1>2, <1>3, <1>4 DEF VariablesOK
<1>6. ASSUME TrackedInv(i)
      PROVE  TrackedInv(i)'
  <2>1. \A k \in Range(peers[i]) : (\E e \in old : e.key = k) \/ k \in repeated[i]
    BY <1>6 DEF TrackedInv, InKeyring, old
  <2> QED
    BY <1>2, <1>4, <1>5, <1>6, <2>1 DEF TrackedInv, InKeyring
<1>7. VariablesOK' /\ InstanceInv(i)'
  BY <1>1, <1>2, <1>5, <1>6, KeyringStep
<1>8. SecretsInv'
  <2>1. \A d \in Dirs : SecretKeys(keyring'[d]) \subseteq SecretKeys(keyring[d])
    BY <1>1, <1>2, <1>4, <1>5 DEF VariablesOK, old
  <2> QED
    BY <1>1, <1>2, <1>7, <2>1, SecretsShrink DEF WrapperInv
<1> QED
  BY <1>7, <1>8

LEMMA DeletePeerStep ==
    ASSUME WrapperInv, NEW i \in Instances, NEW k, DeletePeerPublicKey(i, k)
    PROVE  VariablesOK' /\ SecretsInv' /\ InstanceInv(i)'
<1> DEFINE old == keyring[home[i]]
           new == Without(old, k)
           list == EraseFirst(peers[i], k)
<1>1. VariablesOK /\ InstanceInv(i) /\ home[i] \in Dirs /\ Idle(i)
  BY InstanceParts DEF DeletePeerPublicKey, Idle, VariablesOK
<1>2. /\ k # own[i] /\ keyring' = [keyring EXCEPT ![home[i]] = new]
      /\ peers' = [peers EXCEPT ![i] = list]
      /\ Disturbs(i, home[i])
      /\ UNCHANGED <<home, counter, own, dirs, generated, files, call, repeated>>
  BY <1>1 DEF DeletePeerPublicKey, VariablesOK
<1>3. old \in SUBSET [key : Keys, secret : BOOLEAN] /\ peers[i] \in Seq(Keys)
  BY <1>1, <1>2 DEF VariablesOK
<1>4. /\ new \in SUBSET [key : Keys, secret : BOOLEAN]
      /\ SecretKeys(new) \subseteq SecretKeys(old)
      /\ \A m : m # k /\ [key |-> m, secret |-> TRUE] \in old => [key |-> m, secret |-> TRUE] \in new
      /\ \A m : m # k /\ (\E e \in old : e.key = m) => \E e \in new : e.key = m
  BY <1>3, WithoutFacts
<1>5. /\ list \in Seq(Keys)
      /\ \A n \in DOMAIN list : \E m \in DOMAIN peers[i] : list[n] = peers[i][m]
      /\ \A m, n \in DOMAIN list : m # n /\ list[m] = list[n] =>
            \E x, y \in DOMAIN peers[i] : x # y /\ peers[i][x] = list[m] /\ peers[i][y] = list[m]
      /\ (\E n \in DOMAIN list : list[n] = k) =>
            \E x, y \in DOMAIN peers[i] : x # y /\ peers[i][x] = k /\ peers[i][y] = k
  BY <1>3, EraseFirstFacts
<1>6. peers[i] = <<>> => list = <<>>
  <2>1. peers[i] = <<>> => {n \in DOMAIN peers[i] : peers[i][n] = k} = {}
    BY <1>3
  <2> QED
    BY <2>1 DEF EraseFirst
<1> HIDE DEF old, new, list
<1>7. /\ keyring' \in [Dirs -> SUBSET [key : Keys, secret : BOOLEAN]] /\ keyring'[home[i]] = new
      /\ peers' \in [Instances -> Seq(Keys)] /\ peers'[i] = list
      /\ own' \in [Instances -> Keys \cup {NoKey}] /\ repeated' \in [Instances -> SUBSET Keys]
      /\ generated' \in 0 .. MaxKeys
  BY <1>1, <1>2, <1>4, <1>5 DEF VariablesOK
<1>8. ASSUME TrackedInv(i)
      PROVE  TrackedInv(i)'
  <2>1. own'[i] # NoKey =>
          /\ [key |-> own[i], secret |-> TRUE] \in new
          /\ \A m \in SecretKeys(new) : m.email = own[i].email => own[i].number <= m.number
    BY <1>2, <1>4, <1>8 DEF TrackedInv, HasSecret, old
  <2>2. ASSUME NEW m \in Range(list)
        PROVE  (\E e \in new : e.key = m) \/ m \in repeated[i]
    <3>1. PICK n \in DOMAIN list : m = list[n]
      BY DEF Range
    <3>2. CASE m = k
      <4>1. PICK x, y \in DOMAIN peers[i] : x # y /\ peers[i][x] = k /\ peers[i][y] = k
        BY <1>5, <3>1, <3>2
      <4> QED
        BY <1>8, <3>2, <4>1 DEF TrackedInv
    <3>3. CASE m # k
      <4>1. m \in Range(peers[i])
        BY <1>5, <3>1 DEF Range
      <4>2. (\E e \in old : e.key = m) \/ m \in repeated[i]
        BY <1>8, <4>1 DEF TrackedInv, InKeyring, old
      <4> QED
        BY <1>4, <3>3, <4>2
    <3> QED
      BY <3>2, <3>3
  <2>3. \A m, n \in DOMAIN list : m # n /\ list[m] = list[n] => list[m] \in repeated[i]
    BY <1>5, <1>8 DEF TrackedInv
  <2> QED
    BY <1>2, <1>7, <2>1, <2>2, <2>3 DEF TrackedInv, HasSecret, InKeyring, SecretKeys
<1>9. VariablesOK' /\ InstanceInv(i)'
  BY <1>1, <1>2, <1>6, <1>7, <1>8, KeyringStep
<1>10. SecretsInv'
  <2>1. \A d \in Dirs : SecretKeys(keyring'[d]) \subseteq SecretKeys(keyring[d])
    BY <1>1, <1>2, <1>4, <1>7 DEF VariablesOK, old
  <2> QED
    BY <1>1, <1>2, <1>9, <2>1, SecretsShrink DEF WrapperInv
<1> QED
  BY <1>9, <1>10

-----------------------------------------------------------------------------
(* The instance that takes the step: its buffer calls. *)

\* What the steps of a call share: home directory and identity stay, the record is
\* well formed before and after.
LEMMA CallStep ==
    ASSUME WrapperInv, NEW i \in Instances, home[i] # NoDir,
           Disturbs(i, home[i]) \/ disturbed' = disturbed,
           UNCHANGED <<home, own, dirs, generated>>,
           counter' \in [Instances -> 0 .. MaxTemps], counter'[i] # 0,
           peers' \in [Instances -> Seq(Keys)], repeated' \in [Instances -> SUBSET Keys],
           keyring' \in [Dirs -> SUBSET [key : Keys, secret : BOOLEAN]], FilesOK(files', dirs),
           NEW c \in Calls, ShapeOf(c, home[i]), call' = [call EXCEPT ![i] = c],
           Undisturbed(i) /\ TrackedInv(i) /\ CallInv(i) => TrackedInv(i)' /\ CallInv(i)'
    PROVE  VariablesOK' /\ InstanceInv(i)'
<1>1. VariablesOK /\ InstanceInv(i)
  BY InstanceParts
<1>2. disturbed' \in [Instances -> BOOLEAN] /\ disturbed'[i] = disturbed[i]
  BY <1>1 DEF Disturbs, VariablesOK
<1>3. call' \in [Instances -> Calls \cup {NoCall}] /\ call'[i] = c
  BY <1>1 DEF VariablesOK
<1>4. VariablesOK'
  BY <1>1, <1>2, <1>3 DEF VariablesOK
<1>5. HomeInv(i)'
  BY <1>1 DEF InstanceInv, HomeInv
<1>6. (call[i] # NoCall => ShapeOf(call[i], home[i]))'
  BY <1>3 DEF ShapeOf
<1>7. Undisturbed(i)' => TrackedInv(i)' /\ CallInv(i)'
  BY <1>1, <1>2 DEF InstanceInv, Undisturbed
<1> QED
  BY <1>4, <1>5, <1>6, <1>7 DEF InstanceInv

\* What is known of a call that is under way.
LEMMA CallUnderWay ==
    ASSUME WrapperInv, NEW i \in Instances, call[i].step \in {"run", "finish"}
    PROVE  /\ VariablesOK /\ InstanceInv(i) /\ call[i] # NoCall /\ call[i] \in Calls
           /\ ShapeOf(call[i], home[i])
           /\ home[i] # NoDir /\ home[i] \in dirs /\ home[i] \in Dirs /\ counter[i] # 0
<1>1. VariablesOK /\ InstanceInv(i)
  BY InstanceParts
<1>2. call[i] # NoCall
  BY DEF NoCall
<1> QED
  BY <1>1, <1>2 DEF InstanceInv, HomeInv, VariablesOK

\* Identity, peers and keyring stay: what is remembered of them still holds.
LEMMA TrackedStays ==
    ASSUME NEW i \in Instances, TrackedInv(i), UNCHANGED <<home, own, peers, keyring, repeated>>
    PROVE  TrackedInv(i)'
  BY DEF TrackedInv, HasSecret, InKeyring, SecretKeys

\* The steps that only change the record: gpg is not run, or makes nothing.
LEMMA NoGpgStep ==
    ASSUME WrapperInv, NEW i \in Instances, Throw(i) \/ GpgFails(i) \/ GpgDoesNotStart(i)
    PROVE  VariablesOK' /\ SecretsInv' /\ InstanceInv(i)'
<1> DEFINE c == call[i]
<1>1. c.step = "run"
  BY DEF Throw, GpgFails, GpgDoesNotStart
<1>2. /\ VariablesOK /\ InstanceInv(i) /\ c # NoCall /\ c \in Calls /\ ShapeOf(c, home[i])
      /\ home[i] # NoDir /\ counter[i] # 0
  BY <1>1, CallUnderWay
<1>3. UNCHANGED <<home, counter, own, peers, dirs, keyring, generated, files, disturbed, repeated>>
  BY DEF Throw, GpgFails, GpgDoesNotStart, instanceVars, diskVars
<1> DEFINE Thrown == [c EXCEPT !.step = "returned", !.status = "thrown"]
           Failed == [c EXCEPT !.step = "finish"]
           Unstarted == [c EXCEPT !.step = "finish", !.started = FALSE]
<1>4. \E d \in {Thrown, Failed, Unstarted} : call' = [call EXCEPT ![i] = d]
  BY <1>2 DEF Throw, GpgFails, GpgDoesNotStart, VariablesOK
<1>5. PICK d \in {Thrown, Failed, Unstarted} : call' = [call EXCEPT ![i] = d]
  BY <1>4
<1>6. /\ d \in Calls
      /\ d.op = c.op /\ d.in = c.in /\ d.out = c.out /\ d.payload = c.payload /\ d.target = c.target
      /\ d.stale = c.stale /\ d.gpgOk = c.gpgOk /\ d.product = c.product
      /\ \/ d.step = "returned" /\ d.status = "thrown" /\ d.started = c.started
         \/ d.step = "finish"
  <2>1. ASSUME NEW e \in Calls
        PROVE  /\ [e EXCEPT !.step = "returned", !.status = "thrown"] \in Calls
               /\ [e EXCEPT !.step = "finish"] \in Calls
               /\ [e EXCEPT !.step = "finish", !.started = FALSE] \in Calls
    BY DEF Calls
  <2>2. Thrown \in Calls /\ Failed \in Calls /\ Unstarted \in Calls
    BY <1>2, <2>1
  <2>3. CASE d = Thrown
    BY <1>2, <2>2, <2>3 DEF Calls
  <2>4. CASE d = Failed
    BY <1>2, <2>2, <2>4 DEF Calls
  <2>5. CASE d = Unstarted
    BY <1>2, <2>2, <2>5 DEF Calls
  <2> QED
    BY <2>3, <2>4, <2>5
<1> HIDE DEF c, Thrown, Failed, Unstarted
<1>7. ~c.gpgOk
  BY <1>1, <1>2 DEF ShapeOf
<1>8. ShapeOf(d, home[i])
  BY <1>2, <1>6, <1>7 DEF ShapeOf
<1>9. call'[i] = d
  BY <1>2, <1>5 DEF VariablesOK
<1>10. ASSUME TrackedInv(i), CallInv(i)
       PROVE  TrackedInv(i)' /\ CallInv(i)'
  <2>1. TrackedInv(i)'
    BY <1>3, <1>10, TrackedStays
  <2>2. c.op = "revoke" => \A p \in Range(c.out) : OnDisk(p) => c.stale
    BY <1>1, <1>2, <1>7, <1>10 DEF CallInv, c
  <2>3. CallInv(i)'
    BY <1>3, <1>6, <1>7, <1>9, <2>2 DEF CallInv, OnDisk
  <2> QED
    BY <2>1, <2>3
<1>11. /\ counter' \in [Instances -> 0 .. MaxTemps] /\ counter'[i] # 0
       /\ peers' \in [Instances -> Seq(Keys)] /\ repeated' \in [Instances -> SUBSET Keys]
       /\ keyring' \in [Dirs -> SUBSET [key : Keys, secret : BOOLEAN]] /\ FilesOK(files', dirs)
  BY <1>2, <1>3 DEF VariablesOK
<1>12. VariablesOK' /\ InstanceInv(i)'
  BY <1>2, <1>3, <1>5, <1>6, <1>8, <1>10, <1>11, CallStep
<1>13. SecretsInv'
  BY <1>3 DEF WrapperInv, SecretsInv, SecretKeys
<1> QED
  BY <1>12, <1>13

\* What a file operation wrote is there.
LEMMA WrittenHolds ==
    ASSUME NEW paths, NEW data, files' = Written(paths, data)
    PROVE  \A p \in Range(paths) : [path |-> p, data |-> data] \in files'
  BY DEF Written

\* The first path of a list, as a list.
LEMMA FirstPath ==
    ASSUME NEW paths \in Seq(Paths), Len(paths) # 0
    PROVE  /\ <<paths[1]>> \in Seq(Paths)
           /\ \A p \in Range(<<paths[1]>>) : p \in Range(paths)
<1>1. 1 \in DOMAIN paths /\ paths[1] \in Paths
  OBVIOUS
<1>2. Range(<<paths[1]>>) = {paths[1]}
  BY DEF Range
<1>3. paths[1] \in Range(paths)
  BY <1>1 DEF Range
<1> QED
  BY <1>1, <1>2, <1>3

\* StartCall and WriteFails: a new record, and the files that were written.
LEMMA EnterStep ==
    ASSUME WrapperInv, NEW i \in Instances, NEW op \in Ops, NEW k \in Keys \cup {NoKey},
           StartCall(i, op, k) \/ WriteFails(i, op, k)
    PROVE  VariablesOK' /\ SecretsInv' /\ InstanceInv(i)'
<1>1. /\ Enter(i, op) /\ Idle(i) /\ home[i] # NoDir /\ MayCall(i, op)
      /\ counter[i] + Len(Inputs[op]) + Len(Outputs[op]) <= MaxTemps
  BY DEF StartCall, WriteFails, Enter, Idle
<1>2. VariablesOK /\ InstanceInv(i) /\ HomesInv /\ GpgWrapperTypeOK /\ home[i] \in dirs
  BY <1>1, InstanceParts DEF WrapperInv, InstanceInv, HomeInv
<1>3. UNCHANGED <<home, own, peers, dirs, keyring, generated, repeated>> /\ Disturbs(i, home[i])
  BY <1>1 DEF Enter
<1>4. counter' \in [Instances -> 0 .. MaxTemps] /\ counter'[i] # 0
  <2> DEFINE a == Len(Inputs[op])
             b == Len(Outputs[op])
  <2>1. a \in Nat /\ b \in Nat /\ a + b > 0 /\ counter[i] + a + b <= MaxTemps
    BY <1>1, OpFacts
  <2>2. counter' = [counter EXCEPT ![i] = counter[i] + a + b] /\ counter \in [Instances -> 0 .. MaxTemps]
    BY <1>1, <1>2 DEF Enter, VariablesOK
  <2> HIDE DEF a, b
  <2>3. counter[i] + a + b \in 0 .. MaxTemps /\ counter[i] + a + b # 0
    <3>1. counter[i] \in 0 .. MaxTemps /\ MaxTemps \in Nat
      BY <2>2, WrapperConstantsAssumption
    <3> QED
      BY <2>1, <3>1
  <2> QED
    BY <2>2, <2>3
<1>5. /\ peers' \in [Instances -> Seq(Keys)] /\ repeated' \in [Instances -> SUBSET Keys]
      /\ keyring' \in [Dirs -> SUBSET [key : Keys, secret : BOOLEAN]] /\ FilesOK(files, dirs)
  BY <1>2, <1>3 DEF VariablesOK
<1>6. SecretsInv'
  BY <1>3 DEF WrapperInv, SecretsInv, SecretKeys
<1>7. CASE StartCall(i, op, k)
  <2> DEFINE c == NewCall(i, op, k, "run")
  <2>1. call' = [call EXCEPT ![i] = c] /\ files' = Written(c.in, c.payload)
    BY <1>7 DEF StartCall
  <2>2. c \in Calls /\ ShapeOf(c, home[i])
    BY <1>1, <1>2, NewCallType
  <2>3. /\ c.op = op /\ c.step = "run" /\ c.in = InPaths(i, op) /\ c.out = OutPaths(i, op)
        /\ c.stale = \E p \in Range(OutPaths(i, op)) : OnDisk(p)
    BY DEF NewCall
  <2> HIDE DEF c
  <2>4. c.in \in Seq(Paths) /\ c.payload \in Payloads /\ \A p \in Range(c.in) : p.dir \in dirs
    BY <1>2, <2>2 DEF Calls, ShapeOf
  <2>5. FilesOK(files', dirs)
    BY <1>5, <2>1, <2>4, WrittenOK
  <2>6. \A p \in Range(c.in) : [path |-> p, data |-> c.payload] \in files'
    BY <2>1, WrittenHolds
  <2>7. op = "revoke" => \A p : OnDisk(p)' => OnDisk(p)
    <3>1. op = "revoke" => Len(c.in) = 0
      BY <2>2, <2>3, OpFacts DEF ShapeOf
    <3>2. op = "revoke" => Range(c.in) = {}
      BY <2>4, <3>1 DEF Range
    <3> QED
      BY <2>1, <3>2 DEF OnDisk, Written, Removed
  <2>8. call'[i] = c
    BY <1>2, <2>1 DEF VariablesOK
  <2>9. CallInv(i)'
    BY <2>3, <2>6, <2>7, <2>8 DEF CallInv, Holds
  <2>10. TrackedInv(i) => TrackedInv(i)'
    BY <1>3, TrackedStays
  <2> QED
    BY <1>1, <1>3, <1>4, <1>5, <1>6, <2>1, <2>2, <2>5, <2>9, <2>10, CallStep
<1>8. CASE WriteFails(i, op, k)
  <2> DEFINE new == NewCall(i, op, k, "returned")
             c == [new EXCEPT !.status = "writeFailed"]
  <2>1. /\ call' = [call EXCEPT ![i] = c] /\ Inputs[op] # <<>>
        /\ files' = IF op = "verify" THEN Removed(new.in) ELSE Written(<<new.in[1]>>, CutShort(i))
    BY <1>8 DEF WriteFails
  <2>2. new \in Calls /\ ShapeOf(new, home[i])
    BY <1>1, <1>2, NewCallType
  <2>3. new.op = op /\ new.step = "returned" /\ ~new.gpgOk
    BY DEF NewCall
  <2> HIDE DEF new
  <2>4. /\ c \in Calls /\ c.op = op /\ c.step = "returned" /\ c.status = "writeFailed" /\ ~c.gpgOk
        /\ c.in = new.in /\ c.out = new.out /\ c.target = new.target /\ c.payload = new.payload
    BY <2>2, <2>3 DEF Calls
  <2> HIDE DEF c
  <2>5. ShapeOf(c, home[i])
    BY <2>2, <2>3, <2>4 DEF ShapeOf
  <2>6. FilesOK(files', dirs)
    <3>1. Removed(new.in) \subseteq files
      BY DEF Removed
    <3>2. FilesOK(Removed(new.in), dirs)
      BY <1>5, <3>1, FewerFilesOK
    <3>3. new.in \in Seq(Paths) /\ Len(new.in) # 0 /\ \A p \in Range(new.in) : p.dir \in dirs
      <4>1. Len(new.in) = Len(Inputs[op])
        BY <2>2, <2>3 DEF ShapeOf
      <4>2. Inputs[op] \in Seq(TempSuffixes)
        BY OpFacts
      <4> QED
        BY <1>2, <2>1, <2>2, <4>1, <4>2 DEF Calls, ShapeOf
    <3>4. <<new.in[1]>> \in Seq(Paths) /\ \A p \in Range(<<new.in[1]>>) : p.dir \in dirs
      BY <3>3, FirstPath
    <3>5. CutShort(i) \in Payloads
      BY WrapperConstantsAssumption DEF CutShort, Payloads
    <3>6. FilesOK(Written(<<new.in[1]>>, CutShort(i)), dirs)
      BY <1>5, <3>4, <3>5, WrittenOK
    <3> QED
      BY <2>1, <3>2, <3>6
  <2>7. call'[i] = c
    BY <1>2, <2>1 DEF VariablesOK
  <2>8. CallInv(i)'
    BY <2>4, <2>7 DEF CallInv
  <2>9. TrackedInv(i) => TrackedInv(i)'
    BY <1>3, TrackedStays
  <2> QED
    BY <1>1, <1>3, <1>4, <1>5, <1>6, <2>1, <2>4, <2>5, <2>6, <2>8, <2>9, CallStep
<1> QED
  BY <1>7, <1>8

LEMMA RunGpgStep ==
    ASSUME WrapperInv, NEW i \in Instances, RunGpg(i)
    PROVE  VariablesOK' /\ SecretsInv' /\ InstanceInv(i)'
<1> DEFINE c == call[i]
           contents == [n \in DOMAIN c.in |-> DataOf(c.in[n])]
           key == IF c.op = "import" THEN contents[1].key ELSE c.target
           product == [op |-> c.op, of |-> contents, key |-> key]
           d == [c EXCEPT !.step = "finish", !.gpgOk = TRUE, !.product = product]
           old == keyring[home[i]]
           entry == [key |-> key, secret |-> FALSE]
<1>1. c.step = "run"
  BY DEF RunGpg
<1>2. /\ VariablesOK /\ InstanceInv(i) /\ c # NoCall /\ c \in Calls /\ ShapeOf(c, home[i])
      /\ home[i] # NoDir /\ home[i] \in dirs /\ home[i] \in Dirs /\ counter[i] # 0
  BY <1>1, CallUnderWay
<1>3. /\ \A p \in Range(c.in) : OnDisk(p) /\ DataOf(p) \in Payloads
      /\ key # NoKey
      /\ call' = [call EXCEPT ![i] = d]
      /\ files' = Written(c.out, product)
      /\ keyring' = IF c.op = "import" /\ ~InKeyring(home[i], key)
                    THEN [keyring EXCEPT ![home[i]] = old \cup {entry}] ELSE keyring
      /\ Disturbs(i, home[i])
      /\ UNCHANGED <<home, counter, own, peers, dirs, generated, repeated>>
  BY <1>2 DEF RunGpg, instanceVars, VariablesOK
<1>4. /\ c.op \in Ops /\ c.in \in Seq(Paths) /\ c.out \in Seq(Paths) /\ c.payload \in Payloads
      /\ c.target \in Keys \cup {NoKey} /\ Len(c.in) = Len(Inputs[c.op])
      /\ \A p \in Range(c.in) \cup Range(c.out) : p.dir = home[i]
      /\ c.op = "import" => c.target = c.payload.key
      /\ c.started
  BY <1>1, <1>2 DEF Calls, ShapeOf
<1>5. c.op = "import" => 1 \in DOMAIN c.in
  <2>1. c.op = "import" => Len(c.in) = 1
    BY <1>4, OpFacts
  <2> QED
    BY <1>4, <2>1
<1>6. contents \in Seq(Payloads) /\ DOMAIN contents = DOMAIN c.in
  <2>1. \A n \in DOMAIN c.in : DataOf(c.in[n]) \in Payloads
    BY <1>3 DEF Range
  <2>2. contents \in [1 .. Len(c.in) -> Payloads] /\ Len(c.in) \in Nat /\ DOMAIN contents = DOMAIN c.in
    BY <1>4, <2>1
  <2>3. \A S, n : n \in Nat => [1 .. n -> S] \subseteq Seq(S)
    OBVIOUS
  <2> HIDE DEF c, contents
  <2> QED
    BY <2>2, <2>3
<1>7. key \in Keys
  <2>1. \A x \in Payloads : x.key \in Keys \cup {NoKey}
    BY DEF Payloads
  <2>2. c.op = "import" => contents[1] \in Payloads
    <3> HIDE DEF contents
    <3> QED
      BY <1>5, <1>6
  <2> HIDE DEF contents
  <2> QED
    BY <1>3, <1>4, <2>1, <2>2
<1> HIDE DEF c, contents, key
<1>8. product \in Products /\ product.key = key /\ product.op = c.op /\ product.of = contents
  BY <1>4, <1>6, <1>7 DEF Products
<1> HIDE DEF product
<1>9. /\ d \in Calls /\ d.op = c.op /\ d.in = c.in /\ d.out = c.out /\ d.payload = c.payload
      /\ d.target = c.target /\ d.started = c.started
      /\ d.step = "finish" /\ d.gpgOk = TRUE /\ d.product = product
  <2>1. ASSUME NEW e \in Calls, NEW x \in Products
        PROVE  [e EXCEPT !.step = "finish", !.gpgOk = TRUE, !.product = x] \in Calls
    BY DEF Calls
  <2> QED
    BY <1>2, <1>8, <2>1 DEF Calls
<1> HIDE DEF d
<1>10. ShapeOf(d, home[i])
  BY <1>2, <1>4, <1>8, <1>9 DEF ShapeOf
<1>11. FilesOK(files', dirs)
  BY <1>2, <1>3, <1>4, <1>8, WrittenOK DEF VariablesOK
<1>12. old \in SUBSET [key : Keys, secret : BOOLEAN] /\ old \cup {entry} \in SUBSET [key : Keys, secret : BOOLEAN]
  <2>1. old \in SUBSET [key : Keys, secret : BOOLEAN]
    BY <1>2 DEF VariablesOK
  <2>2. entry \in [key : Keys, secret : BOOLEAN]
    BY <1>7
  <2> HIDE DEF entry, old
  <2> QED
    BY <2>1, <2>2
<1>13. SecretKeys(old \cup {entry}) = SecretKeys(old)
  BY DEF SecretKeys
<1> DEFINE ring == keyring'[home[i]]
<1>14. /\ keyring' \in [Dirs -> SUBSET [key : Keys, secret : BOOLEAN]]
       /\ old \subseteq ring /\ SecretKeys(ring) = SecretKeys(old)
       /\ c.op = "import" => \E e \in ring : e.key = key
       /\ \A x \in Dirs : SecretKeys(keyring'[x]) = SecretKeys(keyring[x])
  <2>1. entry.key = key
    OBVIOUS
  <2>2. CASE c.op = "import" /\ ~InKeyring(home[i], key)
    <3>1. keyring' = [keyring EXCEPT ![home[i]] = old \cup {entry}]
      BY <1>3, <2>2
    <3>2. keyring \in [Dirs -> SUBSET [key : Keys, secret : BOOLEAN]]
      BY <1>2 DEF VariablesOK
    <3>3. /\ keyring' \in [Dirs -> SUBSET [key : Keys, secret : BOOLEAN]]
          /\ ring = old \cup {entry}
          /\ \A x \in Dirs \ {home[i]} : keyring'[x] = keyring[x]
      <4> HIDE DEF old, entry
      <4> QED
        BY <1>2, <1>12, <3>1, <3>2
    <3> HIDE DEF entry
    <3> QED
      BY <1>13, <2>1, <3>3
  <2>3. CASE ~(c.op = "import" /\ ~InKeyring(home[i], key))
    BY <1>2, <1>3, <2>3 DEF VariablesOK, InKeyring
  <2> QED
    BY <2>2, <2>3
<1>15. SecretsInv'
  BY <1>3, <1>14 DEF WrapperInv, SecretsInv, SecretKeys
<1>16. ASSUME TrackedInv(i)
       PROVE  TrackedInv(i)'
  BY <1>3, <1>14, <1>16 DEF TrackedInv, HasSecret, InKeyring, SecretKeys
<1>17. call'[i] = d
  BY <1>2, <1>3 DEF VariablesOK
<1>18. ASSUME CallInv(i)
       PROVE  CallInv(i)'
  <2>1. \A p \in Range(c.in) : Holds(p, c.payload)
    BY <1>1, <1>2, <1>18 DEF CallInv, c
  <2>2. \A n \in DOMAIN c.in : DataOf(c.in[n]) = c.payload
    <3>1. \A n \in DOMAIN c.in : c.in[n] \in Range(c.in)
      BY DEF Range
    <3> QED
      BY <2>1, <3>1, DataOfHeld DEF WrapperInv
  <2>3. contents = [n \in DOMAIN c.in |-> c.payload]
    BY <2>2 DEF contents
  <2>4. key = c.target
    BY <1>4, <1>5, <2>3 DEF key
  <2>5. d.product = OwnProduct(d)
    BY <1>9, <2>3, <2>4 DEF OwnProduct, product
  <2>6. \A p \in Range(c.out) : [path |-> p, data |-> product] \in files'
    BY <1>3, WrittenHolds
  <2>7. c.op = "import" => \E e \in keyring'[home[i]] : e.key = product.key
    BY <1>8, <1>14
  <2> QED
    BY <1>3, <1>9, <1>17, <2>5, <2>6, <2>7 DEF CallInv, Holds, InKeyring, OwnProduct
<1>19. /\ counter' \in [Instances -> 0 .. MaxTemps] /\ counter'[i] # 0
       /\ peers' \in [Instances -> Seq(Keys)] /\ repeated' \in [Instances -> SUBSET Keys]
  BY <1>2, <1>3 DEF VariablesOK
<1>20. VariablesOK' /\ InstanceInv(i)'
  BY <1>2, <1>3, <1>9, <1>10, <1>11, <1>14, <1>16, <1>18, <1>19, CallStep
<1> QED
  BY <1>15, <1>20

LEMMA FinishStep ==
    ASSUME WrapperInv, NEW i \in Instances, Finish(i)
    PROVE  VariablesOK' /\ SecretsInv' /\ InstanceInv(i)'
<1> DEFINE c == call[i]
           read == c.out = <<>> \/ OnDisk(c.out[1])
           status == IF ~c.started \/ (~c.gpgOk /\ ~VerdictIsFile(c.op)) THEN "gpgFailed"
                     ELSE IF read THEN "ok" ELSE "readFailed"
           result == IF status = "ok" /\ c.out # <<>> THEN DataOf(c.out[1]) ELSE c.product
           imported == c.op = "import" /\ status = "ok"
           d == [c EXCEPT !.step = "returned", !.status = status, !.product = result]
           peer == c.product.key
<1>1. c.step = "finish"
  BY DEF Finish
<1>2. /\ VariablesOK /\ InstanceInv(i) /\ c # NoCall /\ c \in Calls /\ ShapeOf(c, home[i])
      /\ home[i] # NoDir /\ home[i] \in dirs /\ home[i] \in Dirs /\ counter[i] # 0
  BY <1>1, CallUnderWay
<1>3. /\ call' = [call EXCEPT ![i] = d]
      /\ files' = {f \in files : f.path \notin Cleaned(c)}
      /\ peers' = IF imported THEN [peers EXCEPT ![i] = Append(peers[i], peer)] ELSE peers
      /\ repeated' = IF imported /\ peer \in Range(peers[i])
                     THEN [repeated EXCEPT ![i] = repeated[i] \cup {peer}] ELSE repeated
      /\ Disturbs(i, home[i])
      /\ UNCHANGED <<home, counter, own, dirs, keyring, generated>>
  BY <1>2 DEF Finish, VariablesOK
<1>4. /\ c.op \in Ops /\ c.in \in Seq(Paths) /\ c.out \in Seq(Paths)
      /\ c.product \in Payloads \cup Products \cup {NoProduct}
      /\ Len(c.out) = Len(Outputs[c.op])
      /\ c.gpgOk => c.started /\ c.product \in Products
  BY <1>1, <1>2 DEF Calls, ShapeOf
<1>5. VerdictIsFile(c.op) <=> c.op = "revoke"
  BY DEF VerdictIsFile
<1> HIDE DEF c
<1>6. /\ status \in {"ok", "gpgFailed", "readFailed"}
      /\ status = "ok" => (c.out = <<>> \/ OnDisk(c.out[1])) /\ c.started
      /\ status = "ok" /\ ~c.gpgOk => c.op = "revoke"
  BY <1>5
<1> HIDE DEF status
<1>7. result \in Payloads \cup Products \cup {NoProduct}
  BY <1>4, <1>6, OnDiskHeld DEF WrapperInv
<1>8. imported => peer \in Keys /\ c.gpgOk
  <2>1. imported => c.gpgOk
    BY <1>6
  <2>2. \A x \in Products : x.key \in Keys
    BY DEF Products
  <2> QED
    BY <1>4, <2>1, <2>2
<1>9. result = IF status = "ok" /\ c.out # <<>> THEN DataOf(c.out[1]) ELSE c.product
  OBVIOUS
<1> HIDE DEF result
<1>10. /\ d \in Calls /\ d.op = c.op /\ d.in = c.in /\ d.out = c.out /\ d.payload = c.payload
       /\ d.target = c.target /\ d.started = c.started /\ d.gpgOk = c.gpgOk /\ d.stale = c.stale
       /\ d.step = "returned" /\ d.status = status /\ d.product = result
  <2>1. ASSUME NEW e \in Calls, NEW s \in {"ok", "gpgFailed", "readFailed"},
               NEW x \in Payloads \cup Products \cup {NoProduct}
        PROVE  [e EXCEPT !.step = "returned", !.status = s, !.product = x] \in Calls
    <3>1. [e EXCEPT !.step = "returned"] \in Calls
      BY DEF Calls
    <3>2. \A h \in Calls : [h EXCEPT !.status = s] \in Calls
      BY DEF Calls
    <3>3. \A h \in Calls : [h EXCEPT !.product = x] \in Calls
      BY DEF Calls
    <3>4. [[[e EXCEPT !.step = "returned"] EXCEPT !.status = s] EXCEPT !.product = x] \in Calls
      BY <3>1, <3>2, <3>3
    <3> QED
      BY <3>4
  <2> QED
    BY <1>2, <1>6, <1>7, <2>1 DEF Calls
<1> HIDE DEF d
<1>11. ShapeOf(d, home[i])
  BY <1>2, <1>10 DEF ShapeOf
<1>12. FilesOK(files', dirs) /\ files' \subseteq files
  <2>1. files' \subseteq files
    BY <1>3
  <2> QED
    BY <1>2, <2>1, FewerFilesOK DEF VariablesOK
<1> HIDE DEF imported, peer
<1>13. /\ peers[i] \in Seq(Keys) /\ peers' \in [Instances -> Seq(Keys)]
       /\ peers'[i] = IF imported THEN Append(peers[i], peer) ELSE peers[i]
  <2>1. peers \in [Instances -> Seq(Keys)]
    BY <1>2 DEF VariablesOK
  <2>2. imported => Append(peers[i], peer) \in Seq(Keys)
    BY <1>8, <2>1
  <2> QED
    BY <1>3, <2>1, <2>2
<1>14. /\ repeated' \in [Instances -> SUBSET Keys] /\ repeated[i] \subseteq repeated'[i]
       /\ imported /\ peer \in Range(peers[i]) => peer \in repeated'[i]
  BY <1>2, <1>3, <1>8 DEF VariablesOK
<1>15. ASSUME TrackedInv(i), CallInv(i)
       PROVE  TrackedInv(i)'
  <2>1. imported => \E e \in keyring[home[i]] : e.key = peer
    <3>1. imported => c.op = "import"
      BY DEF imported
    <3> QED
      BY <1>1, <1>2, <1>8, <1>15, <3>1 DEF CallInv, InKeyring, c, peer
  <2>2. \A k \in Range(peers[i]) : (\E e \in keyring[home[i]] : e.key = k) \/ k \in repeated[i]
    BY <1>15 DEF TrackedInv, InKeyring
  <2>3. \A m, n \in DOMAIN peers[i] : m # n /\ peers[i][m] = peers[i][n] => peers[i][m] \in repeated[i]
    BY <1>15 DEF TrackedInv
  <2> DEFINE list == Append(peers[i], peer)
  <2>4. /\ DOMAIN list = DOMAIN peers[i] \cup {Len(peers[i]) + 1}
        /\ Len(peers[i]) + 1 \notin DOMAIN peers[i]
        /\ list[Len(peers[i]) + 1] = peer
        /\ \A n \in DOMAIN peers[i] : list[n] = peers[i][n]
    BY <1>13
  <2>5. \A n \in DOMAIN peers[i] : peers[i][n] \in Range(peers[i])
    BY DEF Range
  <2> HIDE DEF list
  <2>6. imported => \A m, n \in DOMAIN list : m # n /\ list[m] = list[n] => list[m] \in repeated'[i]
    BY <1>14, <2>3, <2>4, <2>5
  <2>7. imported => \A k \in Range(list) : (\E e \in keyring[home[i]] : e.key = k) \/ k \in repeated[i]
    <3>1. \A k \in Range(list) : k = peer \/ k \in Range(peers[i])
      BY <2>4 DEF Range
    <3> QED
      BY <2>1, <2>2, <3>1
  <2>8. /\ \A k \in Range(peers'[i]) : (\E e \in keyring[home[i]] : e.key = k) \/ k \in repeated'[i]
        /\ \A m, n \in DOMAIN peers'[i] :
              m # n /\ peers'[i][m] = peers'[i][n] => peers'[i][m] \in repeated'[i]
    <3>1. CASE imported
      BY <1>13, <1>14, <2>6, <2>7, <3>1 DEF list
    <3>2. CASE ~imported
      BY <1>13, <1>14, <2>2, <2>3, <3>2
    <3> QED
      BY <3>1, <3>2
  <2> QED
    BY <1>3, <1>15, <2>8 DEF TrackedInv, HasSecret, InKeyring, SecretKeys
<1>16. call'[i] = d
  BY <1>2, <1>3 DEF VariablesOK
<1>17. ASSUME CallInv(i)
       PROVE  CallInv(i)'
  <2>1. ~c.gpgOk /\ c.op = "revoke" => \A p \in Range(c.out) : OnDisk(p) => c.stale
    BY <1>1, <1>2, <1>17 DEF CallInv, c
  <2>2. c.gpgOk => c.product = OwnProduct(c) /\ \A p \in Range(c.out) : Holds(p, c.product)
    BY <1>1, <1>2, <1>17 DEF CallInv, c
  <2>3. c.out # <<>> => c.out[1] \in Range(c.out)
    BY <1>4 DEF Range
  <2>4. c.gpgOk /\ status = "ok" => result = OwnProduct(c)
    <3>1. c.gpgOk /\ c.out # <<>> => DataOf(c.out[1]) = c.product
      BY <2>2, <2>3, DataOfHeld DEF WrapperInv
    <3> QED
      BY <1>9, <2>2, <3>1
  <2>5. OwnProduct(d) = OwnProduct(c)
    BY <1>10 DEF OwnProduct
  <2>6. ~c.gpgOk /\ status = "ok" => c.op = "revoke" /\ c.stale
    <3>1. c.op = "revoke" => c.out # <<>>
      <4>1. c.op = "revoke" => Len(c.out) = 1
        BY <1>4, OpFacts
      <4>2. Len(<<>>) = 0
        OBVIOUS
      <4> QED
        BY <4>1, <4>2
    <3> QED
      BY <1>6, <2>1, <2>3, <3>1
  <2>7. \A p : OnDisk(p)' => OnDisk(p) /\ p \notin Cleaned(c)
    BY <1>3 DEF OnDisk
  <2>8. ASSUME NEW p \in Range(c.in) \cup Range(c.out), OnDisk(p)'
        PROVE  c.op = "revoke" /\ c.stale /\ ~c.started
    <3>1. OnDisk(p) /\ p \in Range(c.out) /\ ~c.started /\ c.op = "revoke"
      BY <1>5, <2>7, <2>8 DEF Cleaned
    <3> QED
      BY <1>4, <2>1, <3>1
  <2> QED
    BY <1>10, <1>16, <2>4, <2>5, <2>6, <2>8 DEF CallInv, OwnProduct
<1>18. /\ counter' \in [Instances -> 0 .. MaxTemps] /\ counter'[i] # 0
       /\ keyring' \in [Dirs -> SUBSET [key : Keys, secret : BOOLEAN]]
  BY <1>2, <1>3 DEF VariablesOK
<1>19. VariablesOK' /\ InstanceInv(i)'
  BY <1>2, <1>3, <1>10, <1>11, <1>12, <1>13, <1>14, <1>15, <1>17, <1>18, CallStep
<1>20. SecretsInv'
  BY <1>3 DEF WrapperInv, SecretsInv, SecretKeys
<1> QED
  BY <1>19, <1>20

-----------------------------------------------------------------------------
(* The theorems. *)

LEMMA InitialWrapper == Init => WrapperInv
<1> SUFFICES ASSUME Init
             PROVE  WrapperInv
  OBVIOUS
<1>1. GpgWrapperTypeOK
  BY WrapperConstantsAssumption DEF Init, GpgWrapperTypeOK
<1>2. HomesInv
  BY DEF Init, HomesInv, HomeInv
<1>3. SecretsInv
  BY DEF Init, SecretsInv, SecretKeys
<1>4. ShapeInv
  BY DEF Init, ShapeInv
<1>5. \A i \in Instances : ~Undisturbed(i)
  BY DEF Init, Undisturbed
<1> QED
  BY <1>1, <1>2, <1>3, <1>4, <1>5 DEF WrapperInv

\* Whatever an instance does keeps the invariant: its own part action by action,
\* the others' because it leaves them alone or disturbs them.
LEMMA StepInvariant ==
    ASSUME WrapperInv, NEW i \in Instances, Step(i)
    PROVE  WrapperInv'
<1>1. VariablesOK' /\ SecretsInv' /\ InstanceInv(i)'
  <2>1. KeyBlocks \subseteq Keys
    BY DEF KeyBlocks
  <2>2. CASE Construct(i)
    BY <2>2, ConstructStep
  <2>3. CASE \E d \in CallerDirs : SetHomeDir(i, d)
    BY <2>3, SetHomeDirStep
  <2>4. CASE Destroy(i) \/ Kill(i)
    BY <2>4, GoneStep
  <2>5. CASE \E email \in Emails : GenerateKeyPair(i, email)
    BY <2>5, GenerateStep
  <2>6. CASE LoadOwnIdentity(i)
    BY <2>6, LoadStep
  <2>7. CASE DeleteOwnIdentity(i)
    BY <2>7, DeleteOwnStep
  <2>8. CASE \E k \in KeyBlocks : DeletePeerPublicKey(i, k)
    BY <2>8, DeletePeerStep
  <2>9. CASE \E op \in Ops, k \in KeyBlocks \cup {NoKey} : StartCall(i, op, k) \/ WriteFails(i, op, k)
    BY <2>1, <2>9, EnterStep
  <2>10. CASE Throw(i) \/ GpgFails(i) \/ GpgDoesNotStart(i)
    BY <2>10, NoGpgStep
  <2>11. CASE RunGpg(i)
    BY <2>11, RunGpgStep
  <2>12. CASE Finish(i)
    BY <2>12, FinishStep
  <2> QED
    BY <2>2, <2>3, <2>4, <2>5, <2>6, <2>7, <2>8, <2>9, <2>10, <2>11, <2>12 DEF Step
<1>2. \A j \in Instances : InstanceInv(j)'
  BY <1>1, OthersInvariant
<1>3. /\ HomesInv' /\ ShapeInv'
      /\ \A j \in Instances : Undisturbed(j)' => TrackedInv(j)' /\ CallInv(j)'
  BY <1>2 DEF InstanceInv, HomesInv, ShapeInv
<1>4. GpgWrapperTypeOK'
  BY <1>1, <1>3 DEF GpgWrapperTypeOK, VariablesOK, FilesOK, HomesInv, HomeInv
<1> QED
  BY <1>1, <1>3, <1>4 DEF WrapperInv

\* WrapperInv holds in every reachable state: what CPgpEngineWrapper remembers, and
\* what its calls leave on disk, for any number of instances that follow each
\* other, are killed or share directories.
THEOREM WrapperInvariant == Spec => []WrapperInv
<1>1. Init => WrapperInv
  BY InitialWrapper
<1>2. ASSUME WrapperInv, [Next]_vars
      PROVE  WrapperInv'
  <2>1. CASE Next
    BY <1>2, <2>1, StepInvariant DEF Next
  <2>2. CASE UNCHANGED vars
    <3>1. UNCHANGED <<home, counter, own, peers, dirs, keyring, generated, files, call, disturbed, repeated>>
      BY <2>2 DEF vars, instanceVars, diskVars
    <3>2. GpgWrapperTypeOK' /\ HomesInv' /\ SecretsInv'
      BY <1>2, <3>1 DEF WrapperInv, GpgWrapperTypeOK, HomesInv, HomeInv, SecretsInv, SecretKeys
    <3>3. ShapeInv'
      BY <1>2, <3>1 DEF WrapperInv, ShapeInv, ShapeOf
    <3>4. ASSUME NEW i \in Instances, Undisturbed(i)'
          PROVE  TrackedInv(i)' /\ CallInv(i)'
      <4>1. TrackedInv(i) /\ CallInv(i)
        BY <1>2, <3>1, <3>4 DEF WrapperInv, Undisturbed
      <4>2. TrackedInv(i)'
        BY <3>1, <4>1, TrackedStays
      <4>3. CallInv(i)'
        BY <3>1, <4>1 DEF CallInv, OnDisk, Holds, InKeyring, OwnProduct
      <4> QED
        BY <4>2, <4>3
    <3> QED
      BY <3>2, <3>3, <3>4 DEF WrapperInv
  <2> QED
    BY <1>2, <2>1, <2>2
<1> QED
  BY <1>1, <1>2, PTL DEF Spec

\* Types of CPgpEngineWrapper's state, one file per path, files and calls only in
\* directories that exist: SetHomeDir and ~Impl never remove a directory under
\* another instance.
THEOREM WrapperTypeCorrect == Spec => []GpgWrapperTypeOK
<1>1. WrapperInv => GpgWrapperTypeOK
  BY DEF WrapperInv
<1> QED
  BY <1>1, WrapperInvariant, PTL

\* The identity and the peers an instance remembers are in its keyring: what
\* GenerateKeyPair, LoadOwnIdentity, the imports and the deletions keep in step.
THEOREM TrackedKeysHold == Spec => []TrackedKeysInKeyring
<1>1. WrapperInv => TrackedKeysInKeyring
  <2> SUFFICES ASSUME WrapperInv, NEW i \in Instances, home[i] # NoDir, ~disturbed[i]
               PROVE  /\ own[i] # NoKey =>
                             /\ HasSecret(home[i], own[i])
                             /\ own[i] = FirstSecret(keyring[home[i]], own[i].email)
                      /\ \A k \in Range(peers[i]) : InKeyring(home[i], k) \/ k \in repeated[i]
    BY DEF TrackedKeysInKeyring
  <2>1. TrackedInv(i) /\ keyring[home[i]] \in SUBSET [key : Keys, secret : BOOLEAN]
    BY DEF WrapperInv, Undisturbed, GpgWrapperTypeOK
  <2>2. own[i] # NoKey => own[i] \in SecretKeys(keyring[home[i]])
    BY <2>1, SecretKeysFacts DEF TrackedInv, HasSecret
  <2>3. own[i] # NoKey => own[i] = FirstSecret(keyring[home[i]], own[i].email)
    BY <2>1, <2>2, FirstSecretFacts DEF TrackedInv
  <2> QED
    BY <2>1, <2>3 DEF TrackedInv
<1> QED
  BY <1>1, WrapperInvariant, PTL

\* A buffer call that returned NO_ERROR carries what gpg made of its own input,
\* RevokeKeyArmored's left-over files apart.
THEOREM ResultIsOwnHolds == Spec => []ResultIsOwn
<1>1. WrapperInv => ResultIsOwn
  <2> SUFFICES ASSUME WrapperInv, NEW i \in Instances, home[i] # NoDir, ~disturbed[i],
                      call[i].step = "returned", call[i].status = "ok"
               PROVE  \/ call[i].gpgOk /\ call[i].product = OwnProduct(call[i])
                      \/ call[i].op = "revoke" /\ call[i].stale
    BY DEF ResultIsOwn, OwnProduct
  <2>1. CallInv(i) /\ call[i] # NoCall
    BY DEF WrapperInv, Undisturbed, NoCall
  <2> QED
    BY <2>1 DEF CallInv
<1> QED
  BY <1>1, WrapperInvariant, PTL

\* A buffer call that returned after gpg was run, or was not started, has removed
\* its temporary files, with RevokeKeyArmored's exception.
THEOREM TemporariesRemovedHolds == Spec => []TemporariesRemoved
<1>1. WrapperInv => TemporariesRemoved
  <2> SUFFICES ASSUME WrapperInv, NEW i \in Instances, home[i] # NoDir, ~disturbed[i],
                      call[i].step = "returned", call[i].status \in {"ok", "gpgFailed", "readFailed"},
                      NEW p \in Range(call[i].in) \cup Range(call[i].out), OnDisk(p)
               PROVE  call[i].op = "revoke" /\ call[i].stale /\ ~call[i].started
    BY DEF TemporariesRemoved
  <2>1. CallInv(i) /\ call[i] # NoCall
    BY DEF WrapperInv, Undisturbed, NoCall
  <2> QED
    BY <2>1 DEF CallInv
<1> QED
  BY <1>1, WrapperInvariant, PTL
=============================================================================
