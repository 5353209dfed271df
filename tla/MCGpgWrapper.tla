---------------------------- MODULE MCGpgWrapper ----------------------------
(* Model-checking instance of GpgWrapper: instances in directories of their  *)
(* own, and one after the other in a shared one.                             *)
EXTENDS GpgWrapper

Alive == {i \in Instances : home[i] # NoDir}
OfACall(path) == \E i \in Alive : call[i] # NoCall /\ path \in Range(call[i].in) \cup Range(call[i].out)

\* The keyring, with imports as the only buffer calls and nothing left on disk.
KeysFocus ==
    /\ Cardinality(Alive) <= 1
    /\ \A i \in Alive : call[i] # NoCall => call[i].op = "import"
    /\ \A f \in files : OfACall(f.path)

\* The files left in a directory, with one key in its keyring.
FilesFocus ==
    /\ Cardinality(Alive) <= 1
    /\ generated <= 1
    /\ \A d \in Dirs : Cardinality(keyring[d]) <= 1
    /\ Cardinality(files) <= 2

\* Two instances at the same time, with the foreign key only.
TwoFocus ==
    /\ generated = 0
    /\ \A f \in files : OfACall(f.path)

\* Nothing is claimed of an instance once another one used its directory, and
\* nobody comes back to the own directory of a killed one.
MCFocus ==
    /\ \A i \in Instances : ~disturbed[i]
    /\ dirs \subseteq CallerDirs \cup {home[i] : i \in Alive}
    /\ KeysFocus \/ FilesFocus \/ TwoFocus

MCSymmetry == Permutations(Instances)
=============================================================================
