-------------------------- MODULE GpgProcessProofs --------------------------
(***************************************************************************)
(* Proofs about GpgProcess: for any number of concurrent calls and any     *)
(* sizes, a call leaves no handle open and closes none twice, and a result *)
(* that says it started is complete.                                       *)
(***************************************************************************)
EXTENDS GpgProcess, TLAPS

-----------------------------------------------------------------------------
(* The inductive invariant: what holds of one call, at each of its steps *)

BeforeChild == {"idle", "keepIn", "pipeOut", "keepOut", "create"}

\* The handles that are open at each step, once the child is known to exist or not.
HandlesAt(step, child) ==
    CASE step \in {"idle", "returned"} -> {}
      [] step \in {"keepIn", "pipeOut"} -> StdinEnds
      [] step \in {"keepOut", "create"} -> PipeEnds
      [] step = "closeReadEnd" -> PipeEnds \cup child
      [] step = "closeWriteEnd" -> (PipeEnds \ {"stdinRead"}) \cup child
      [] step = "created" -> {"stdinWrite", "stdoutRead"} \cup child
      [] step = "write" -> {"stdinWrite", "stdoutRead", "process"}
      [] step = "drain" -> {"stdoutRead", "process"}
      [] step = "wait" -> {"process"}

ChildHandle(c) == IF gpg[c] = "none" THEN {} ELSE {"process"}

\* The open handles are those of the step, and until the return the variables
\* say so.
HandlesFit(c) ==
    /\ open[c] = HandlesAt(pc[c], ChildHandle(c))
    /\ pc[c] # "returned" => local[c] = open[c]

\* Before the child is there nothing has been printed; the ends it will get
\* are inheritable when it is made.
NoChildYet(c) ==
    /\ pc[c] \in BeforeChild => gpg[c] = "none"
    /\ gpg[c] = "none" => printed[c] = 0 /\ stdout[c] = 0 /\ result[c].output = 0 /\ ~result[c].started
    /\ gpg[c] = "none" => doing[c] = "read" /\ ~sawEnd[c] /\ stdin[c] = 0
    /\ gpg[c] = "none" => pc[c] \notin {"write", "drain", "wait"}
    /\ pc[c] \in {"keepIn", "pipeOut", "keepOut", "create"} => "stdinRead" \in inheritable[c]
    /\ pc[c] \in {"keepOut", "create"} => "stdoutWrite" \in inheritable[c]

Leaving(c) == doing[c] \in {"done", "failed"}

\* A child holds its own ends until it leaves, prints only what it has, and
\* leaves normally only past the end of its input.
ChildFits(c) ==
    /\ gpg[c] = "running" /\ ~Leaving(c) =>
           <<c, "stdinRead">> \in inherited[c] /\ <<c, "stdoutWrite">> \in inherited[c]
    /\ gpg[c] \in {"done", "failed"} => doing[c] = gpg[c]
    /\ doing[c] = "print" => toPrint[c] > 0
    /\ doing[c] \in {"exit", "done"} => sawEnd[c]
    /\ sawEnd[c] => stdin[c] = 0 /\ input[c] = 0 /\ pc[c] \in {"drain", "wait", "returned"}
    /\ pc[c] \in {"drain", "wait", "returned"} /\ gpg[c] # "none" => input[c] = 0 \/ Leaving(c)

\* What was printed is in the result or in the pipe; from the end of the loop
\* on it is all in the result, and the child is leaving.
OutputFits(c) ==
    /\ pc[c] # "returned" \/ result[c].started => printed[c] = result[c].output + stdout[c]
    /\ pc[c] = "wait" => stdout[c] = 0 /\ Leaving(c)
    /\ pc[c] = "returned" /\ result[c].started =>
           /\ stdout[c] = 0
           /\ gpg[c] \in {"done", "failed"}
           /\ result[c].exitCode = gpg[c]

CallInv(c) == HandlesFit(c) /\ NoChildYet(c) /\ ChildFits(c) /\ OutputFits(c)

GpgInv == GpgProcessTypeOK /\ \A c \in Calls : CallInv(c)

\* A result stays a result when one of its fields is set.
Results == [started : BOOLEAN, exitCode : {"unknown", "done", "failed"}, output : Nat]

LEMMA ResultFields ==
    ASSUME GpgProcessTypeOK, NEW d \in Calls
    PROVE  /\ \A b \in BOOLEAN : [result EXCEPT ![d].started = b] \in [Calls -> Results]
           /\ \A e \in {"unknown", "done", "failed"} : [result EXCEPT ![d].exitCode = e] \in [Calls -> Results]
           /\ \A n \in Nat : [result EXCEPT ![d].output = @ + n] \in [Calls -> Results]
<1>1. result \in [Calls -> Results]
  BY DEF GpgProcessTypeOK, Results
<1>2. \A x \in Results : [result EXCEPT ![d] = x] \in [Calls -> Results]
  BY <1>1
<1> DEFINE x == result[d]
<1>3. x \in Results /\ x.output \in Nat
  BY <1>1 DEF Results
<1> HIDE DEF x
<1>4. /\ \A b \in BOOLEAN : [x EXCEPT !.started = b] \in Results
      /\ \A e \in {"unknown", "done", "failed"} : [x EXCEPT !.exitCode = e] \in Results
      /\ \A n \in Nat : [x EXCEPT !.output = x.output + n] \in Results
  <2>1. \A b \in BOOLEAN : [x EXCEPT !.started = b] \in Results
    BY <1>3 DEF Results
  <2>2. \A e \in {"unknown", "done", "failed"} : [x EXCEPT !.exitCode = e] \in Results
    BY <1>3 DEF Results
  <2>3. \A n \in Nat : [x EXCEPT !.output = n] \in Results
    BY <1>3 DEF Results
  <2>4. \A n \in Nat : x.output + n \in Nat
    BY <1>3
  <2> QED
    BY <2>1, <2>2, <2>3, <2>4
<1>5. /\ \A b : [result EXCEPT ![d].started = b] = [result EXCEPT ![d] = [x EXCEPT !.started = b]]
      /\ \A e : [result EXCEPT ![d].exitCode = e] = [result EXCEPT ![d] = [x EXCEPT !.exitCode = e]]
      /\ \A n : [result EXCEPT ![d].output = @ + n] = [result EXCEPT ![d] = [x EXCEPT !.output = x.output + n]]
  BY DEF x
<1>6. ASSUME NEW b \in BOOLEAN
      PROVE  [result EXCEPT ![d].started = b] \in [Calls -> Results]
  <2>1. [x EXCEPT !.started = b] \in Results
    BY <1>4
  <2> QED
    BY <1>2, <1>5, <2>1
<1>7. ASSUME NEW e \in {"unknown", "done", "failed"}
      PROVE  [result EXCEPT ![d].exitCode = e] \in [Calls -> Results]
  <2>1. [x EXCEPT !.exitCode = e] \in Results
    BY <1>4
  <2> QED
    BY <1>2, <1>5, <2>1
<1>8. ASSUME NEW n \in Nat
      PROVE  [result EXCEPT ![d].output = @ + n] \in [Calls -> Results]
  <2>1. [x EXCEPT !.output = x.output + n] \in Results
    BY <1>4
  <2> QED
    BY <1>2, <1>5, <2>1
<1> QED
  BY <1>6, <1>7, <1>8

-----------------------------------------------------------------------------
(* What a step of another call leaves alone *)

Same(c) ==
    /\ open'[c] = open[c]
    /\ local'[c] = local[c]
    /\ inheritable'[c] = inheritable[c]
    /\ input'[c] = input[c]
    /\ stdin'[c] = stdin[c]
    /\ stdout'[c] = stdout[c]
    /\ result'[c] = result[c]
    /\ gpg'[c] = gpg[c]
    /\ inherited'[c] = inherited[c]
    /\ doing'[c] = doing[c]
    /\ sawEnd'[c] = sawEnd[c]
    /\ toPrint'[c] = toPrint[c]
    /\ printed'[c] = printed[c]
    /\ pc'[c] = pc[c]

\* CallInv(c) is about the state of call c only.
LEMMA SameKeepsCallInv ==
    ASSUME NEW c \in Calls, CallInv(c), Same(c)
    PROVE  CallInv(c)'
  BY DEF CallInv, Same, HandlesFit, NoChildYet, ChildFits, OutputFits, ChildHandle, Leaving

\* The initial states.
LEMMA InitGpgInv == Init => GpgInv
  <1> SUFFICES ASSUME Init PROVE GpgInv
    OBVIOUS
  <1> USE GpgConstantsAssumption
  <1>1. GpgProcessTypeOK
    <2>1. input \in [Calls -> 0 .. PipeSize] /\ toPrint \in [Calls -> Nat]
      BY DEF Init
    <2>2. result \in [Calls -> [started : BOOLEAN, exitCode : {"unknown", "done", "failed"}, output : Nat]]
      BY DEF Init
    <2>3. stdin \in [Calls -> 0 .. PipeSize] /\ stdout \in [Calls -> 0 .. PipeSize]
      BY DEF Init
    <2> QED
      BY <2>1, <2>2, <2>3 DEF Init, GpgProcessTypeOK, Steps, Handles, PipeEnds, StdinEnds, StdoutEnds
  <1>2. ASSUME NEW c \in Calls PROVE CallInv(c)
    <2>1. HandlesFit(c)
      BY DEF Init, HandlesFit, HandlesAt, ChildHandle
    <2>2. NoChildYet(c)
      BY DEF Init, NoChildYet, BeforeChild
    <2>3. ChildFits(c)
      BY DEF Init, ChildFits, Leaving
    <2>4. OutputFits(c)
      BY DEF Init, OutputFits, Leaving
    <2> QED
      BY <2>1, <2>2, <2>3, <2>4 DEF CallInv
  <1> QED
    BY <1>1, <1>2 DEF GpgInv

-----------------------------------------------------------------------------
(* The steps of a call *)

\* The stdin pipe.
LEMMA CreatePipeIn ==
    ASSUME GpgInv, NEW d \in Calls, CreatePipe(d, "idle", StdinEnds, "keepIn")
    PROVE  GpgInv'
  <1> USE GpgConstantsAssumption
  <1> DEFINE Type == GpgProcessTypeOK
  <1>1. Type /\ CallInv(d)
    BY DEF GpgInv
  <1>2. Type'
    BY <1>1 DEF CreatePipe, callVars, gpgVars, Goto, GpgProcessTypeOK, CallInv, HandlesFit, NoChildYet, ChildFits, OutputFits, Steps, Handles, PipeEnds, StdinEnds, StdoutEnds
  <1>3. ASSUME NEW c \in Calls, c # d PROVE CallInv(c)'
    <2>1. Same(c)
      BY <1>1, <1>3 DEF CreatePipe, callVars, gpgVars, Goto, GpgProcessTypeOK, Same
    <2> QED
      BY <2>1, SameKeepsCallInv DEF GpgInv
  <1>4. HandlesFit(d)'
    BY <1>1 DEF CreatePipe, callVars, gpgVars, Goto, GpgProcessTypeOK, CallInv, HandlesFit, NoChildYet, ChildHandle, HandlesAt, StdinEnds, StdoutEnds, PipeEnds, BeforeChild
  <1>5. NoChildYet(d)'
    BY <1>1 DEF CreatePipe, callVars, gpgVars, Goto, GpgProcessTypeOK, CallInv, NoChildYet, BeforeChild, StdinEnds, StdoutEnds
  <1>6. ChildFits(d)'
    BY <1>1 DEF CreatePipe, callVars, gpgVars, Goto, GpgProcessTypeOK, CallInv, NoChildYet, ChildFits, HandlesFit, HandlesAt, ChildHandle, Leaving, BeforeChild, PipeEnds, StdinEnds, StdoutEnds, EndIsOpen, HeldByChild
  <1>7. OutputFits(d)'
    BY <1>1 DEF CreatePipe, callVars, gpgVars, Goto, GpgProcessTypeOK, CallInv, NoChildYet, ChildFits, OutputFits, Leaving, BeforeChild, EndIsOpen, HeldByChild
  <1> QED
    BY <1>2, <1>3, <1>4, <1>5, <1>6, <1>7 DEF GpgInv, CallInv

\* The stdout pipe.
LEMMA CreatePipeOut ==
    ASSUME GpgInv, NEW d \in Calls, CreatePipe(d, "pipeOut", StdoutEnds, "keepOut")
    PROVE  GpgInv'
  <1> USE GpgConstantsAssumption
  <1> DEFINE Type == GpgProcessTypeOK
  <1>1. Type /\ CallInv(d)
    BY DEF GpgInv
  <1>2. Type'
    BY <1>1 DEF CreatePipe, callVars, gpgVars, Goto, GpgProcessTypeOK, CallInv, HandlesFit, NoChildYet, ChildFits, OutputFits, Steps, Handles, PipeEnds, StdinEnds, StdoutEnds
  <1>3. ASSUME NEW c \in Calls, c # d PROVE CallInv(c)'
    <2>1. Same(c)
      BY <1>1, <1>3 DEF CreatePipe, callVars, gpgVars, Goto, GpgProcessTypeOK, Same
    <2> QED
      BY <2>1, SameKeepsCallInv DEF GpgInv
  <1>4. HandlesFit(d)'
    BY <1>1 DEF CreatePipe, callVars, gpgVars, Goto, GpgProcessTypeOK, CallInv, HandlesFit, NoChildYet, ChildHandle, HandlesAt, StdinEnds, StdoutEnds, PipeEnds, BeforeChild
  <1>5. NoChildYet(d)'
    BY <1>1 DEF CreatePipe, callVars, gpgVars, Goto, GpgProcessTypeOK, CallInv, NoChildYet, BeforeChild, StdinEnds, StdoutEnds
  <1>6. ChildFits(d)'
    BY <1>1 DEF CreatePipe, callVars, gpgVars, Goto, GpgProcessTypeOK, CallInv, NoChildYet, ChildFits, HandlesFit, HandlesAt, ChildHandle, Leaving, BeforeChild, PipeEnds, StdinEnds, StdoutEnds, EndIsOpen, HeldByChild
  <1>7. OutputFits(d)'
    BY <1>1 DEF CreatePipe, callVars, gpgVars, Goto, GpgProcessTypeOK, CallInv, NoChildYet, ChildFits, OutputFits, Leaving, BeforeChild, EndIsOpen, HeldByChild
  <1> QED
    BY <1>2, <1>3, <1>4, <1>5, <1>6, <1>7 DEF GpgInv, CallInv

\* The parent keeps its end of stdin to itself.
LEMMA ClearInheritIn ==
    ASSUME GpgInv, NEW d \in Calls, ClearInherit(d, "keepIn", "stdinWrite", "pipeOut")
    PROVE  GpgInv'
  <1> USE GpgConstantsAssumption
  <1> DEFINE Type == GpgProcessTypeOK
  <1>1. Type /\ CallInv(d)
    BY DEF GpgInv
  <1>2. Type'
    BY <1>1 DEF ClearInherit, callVars, gpgVars, Goto, GpgProcessTypeOK, CallInv, HandlesFit, NoChildYet, ChildFits, OutputFits, Steps, Handles, PipeEnds, StdinEnds, StdoutEnds
  <1>3. ASSUME NEW c \in Calls, c # d PROVE CallInv(c)'
    <2>1. Same(c)
      BY <1>1, <1>3 DEF ClearInherit, callVars, gpgVars, Goto, GpgProcessTypeOK, Same
    <2> QED
      BY <2>1, SameKeepsCallInv DEF GpgInv
  <1>4. HandlesFit(d)'
    BY <1>1 DEF ClearInherit, callVars, gpgVars, Goto, GpgProcessTypeOK, CallInv, HandlesFit, NoChildYet, ChildHandle, HandlesAt, StdinEnds, StdoutEnds, PipeEnds, BeforeChild
  <1>5. NoChildYet(d)'
    BY <1>1 DEF ClearInherit, callVars, gpgVars, Goto, GpgProcessTypeOK, CallInv, NoChildYet, BeforeChild, StdinEnds, StdoutEnds
  <1>6. ChildFits(d)'
    BY <1>1 DEF ClearInherit, callVars, gpgVars, Goto, GpgProcessTypeOK, CallInv, NoChildYet, ChildFits, HandlesFit, HandlesAt, ChildHandle, Leaving, BeforeChild, PipeEnds, StdinEnds, StdoutEnds, EndIsOpen, HeldByChild
  <1>7. OutputFits(d)'
    BY <1>1 DEF ClearInherit, callVars, gpgVars, Goto, GpgProcessTypeOK, CallInv, NoChildYet, ChildFits, OutputFits, Leaving, BeforeChild, EndIsOpen, HeldByChild
  <1> QED
    BY <1>2, <1>3, <1>4, <1>5, <1>6, <1>7 DEF GpgInv, CallInv

\* The parent keeps its end of stdout to itself.
LEMMA ClearInheritOut ==
    ASSUME GpgInv, NEW d \in Calls, ClearInherit(d, "keepOut", "stdoutRead", "create")
    PROVE  GpgInv'
  <1> USE GpgConstantsAssumption
  <1> DEFINE Type == GpgProcessTypeOK
  <1>1. Type /\ CallInv(d)
    BY DEF GpgInv
  <1>2. Type'
    BY <1>1 DEF ClearInherit, callVars, gpgVars, Goto, GpgProcessTypeOK, CallInv, HandlesFit, NoChildYet, ChildFits, OutputFits, Steps, Handles, PipeEnds, StdinEnds, StdoutEnds
  <1>3. ASSUME NEW c \in Calls, c # d PROVE CallInv(c)'
    <2>1. Same(c)
      BY <1>1, <1>3 DEF ClearInherit, callVars, gpgVars, Goto, GpgProcessTypeOK, Same
    <2> QED
      BY <2>1, SameKeepsCallInv DEF GpgInv
  <1>4. HandlesFit(d)'
    BY <1>1 DEF ClearInherit, callVars, gpgVars, Goto, GpgProcessTypeOK, CallInv, HandlesFit, NoChildYet, ChildHandle, HandlesAt, StdinEnds, StdoutEnds, PipeEnds, BeforeChild
  <1>5. NoChildYet(d)'
    BY <1>1 DEF ClearInherit, callVars, gpgVars, Goto, GpgProcessTypeOK, CallInv, NoChildYet, BeforeChild, StdinEnds, StdoutEnds
  <1>6. ChildFits(d)'
    BY <1>1 DEF ClearInherit, callVars, gpgVars, Goto, GpgProcessTypeOK, CallInv, NoChildYet, ChildFits, HandlesFit, HandlesAt, ChildHandle, Leaving, BeforeChild, PipeEnds, StdinEnds, StdoutEnds, EndIsOpen, HeldByChild
  <1>7. OutputFits(d)'
    BY <1>1 DEF ClearInherit, callVars, gpgVars, Goto, GpgProcessTypeOK, CallInv, NoChildYet, ChildFits, OutputFits, Leaving, BeforeChild, EndIsOpen, HeldByChild
  <1> QED
    BY <1>2, <1>3, <1>4, <1>5, <1>6, <1>7 DEF GpgInv, CallInv

\* The early returns.
LEMMA FailInv ==
    ASSUME GpgInv, NEW d \in Calls, Fail(d)
    PROVE  GpgInv'
  <1> USE GpgConstantsAssumption
  <1> DEFINE Type == GpgProcessTypeOK
  <1>1. Type /\ CallInv(d)
    BY DEF GpgInv
  <1>2. Type'
    BY <1>1 DEF Fail, ClosedOnFailure, Close, callVars, gpgVars, Goto, GpgProcessTypeOK, CallInv, HandlesFit, NoChildYet, ChildFits, OutputFits, Steps, Handles, PipeEnds, StdinEnds, StdoutEnds
  <1>3. ASSUME NEW c \in Calls, c # d PROVE CallInv(c)'
    <2>1. Same(c)
      BY <1>1, <1>3 DEF Fail, ClosedOnFailure, Close, callVars, gpgVars, Goto, GpgProcessTypeOK, Same
    <2> QED
      BY <2>1, SameKeepsCallInv DEF GpgInv
  <1>4. HandlesFit(d)'
    BY <1>1 DEF Fail, ClosedOnFailure, Close, callVars, gpgVars, Goto, GpgProcessTypeOK, CallInv, HandlesFit, NoChildYet, ChildHandle, HandlesAt, StdinEnds, StdoutEnds, PipeEnds, BeforeChild
  <1>5. NoChildYet(d)'
    BY <1>1 DEF Fail, ClosedOnFailure, Close, callVars, gpgVars, Goto, GpgProcessTypeOK, CallInv, NoChildYet, BeforeChild, StdinEnds, StdoutEnds
  <1>6. ChildFits(d)'
    BY <1>1 DEF Fail, ClosedOnFailure, Close, callVars, gpgVars, Goto, GpgProcessTypeOK, CallInv, NoChildYet, ChildFits, HandlesFit, HandlesAt, ChildHandle, Leaving, BeforeChild, PipeEnds, StdinEnds, StdoutEnds, EndIsOpen, HeldByChild
  <1>7. OutputFits(d)'
    BY <1>1 DEF Fail, ClosedOnFailure, Close, callVars, gpgVars, Goto, GpgProcessTypeOK, CallInv, NoChildYet, ChildFits, OutputFits, Leaving, BeforeChild, EndIsOpen, HeldByChild
  <1> QED
    BY <1>2, <1>3, <1>4, <1>5, <1>6, <1>7 DEF GpgInv, CallInv

\* The child is made, with its own ends among those it inherits.
LEMMA CreateProcessInv ==
    ASSUME GpgInv, NEW d \in Calls, CreateProcess(d)
    PROVE  GpgInv'
  <1> USE GpgConstantsAssumption
  <1> DEFINE Type == GpgProcessTypeOK
  <1>1. Type /\ CallInv(d)
    BY DEF GpgInv
  <1>2. Type'
    <2>1. doing' \in [Calls -> {"read", "print", "exit", "done", "failed"}]
      BY <1>1 DEF CreateProcess, NextOperation, Choices, GpgProcessTypeOK
    <2>2. inherited' \in [Calls -> SUBSET (Calls \X PipeEnds)]
      <3>1. AllInheritable \in SUBSET (Calls \X PipeEnds)
        BY DEF AllInheritable
      <3> QED
        BY <1>1, <3>1 DEF CreateProcess, GpgProcessTypeOK
    <2> QED
      BY <1>1, <2>1, <2>2 DEF CreateProcess, GpgProcessTypeOK, callVars, gpgVars, Goto, Steps, Handles, PipeEnds, StdinEnds, StdoutEnds
  <1>3. ASSUME NEW c \in Calls, c # d PROVE CallInv(c)'
    <2>1. Same(c)
      BY <1>1, <1>3 DEF CreateProcess, AllInheritable, NextOperation, Choices, callVars, gpgVars, Goto, GpgProcessTypeOK, Same
    <2> QED
      BY <2>1, SameKeepsCallInv DEF GpgInv
  <1>4. HandlesFit(d)'
    BY <1>1 DEF CreateProcess, AllInheritable, NextOperation, Choices, callVars, gpgVars, Goto, GpgProcessTypeOK, CallInv, HandlesFit, NoChildYet, ChildHandle, HandlesAt, StdinEnds, StdoutEnds, PipeEnds, BeforeChild
  <1>5. NoChildYet(d)'
    BY <1>1 DEF CreateProcess, AllInheritable, NextOperation, Choices, callVars, gpgVars, Goto, GpgProcessTypeOK, CallInv, NoChildYet, BeforeChild, StdinEnds, StdoutEnds
  <1>6. ChildFits(d)'
    BY <1>1 DEF CreateProcess, AllInheritable, NextOperation, Choices, callVars, gpgVars, Goto, GpgProcessTypeOK, CallInv, NoChildYet, ChildFits, HandlesFit, HandlesAt, ChildHandle, Leaving, BeforeChild, PipeEnds, StdinEnds, StdoutEnds, EndIsOpen, HeldByChild
  <1>7. OutputFits(d)'
    BY <1>1 DEF CreateProcess, AllInheritable, NextOperation, Choices, callVars, gpgVars, Goto, GpgProcessTypeOK, CallInv, NoChildYet, ChildFits, OutputFits, Leaving, BeforeChild, EndIsOpen, HeldByChild
  <1> QED
    BY <1>2, <1>3, <1>4, <1>5, <1>6, <1>7 DEF GpgInv, CallInv

\* The child cannot be made.
LEMMA CreateProcessFailsInv ==
    ASSUME GpgInv, NEW d \in Calls, CreateProcessFails(d)
    PROVE  GpgInv'
  <1> USE GpgConstantsAssumption
  <1> DEFINE Type == GpgProcessTypeOK
  <1>1. Type /\ CallInv(d)
    BY DEF GpgInv
  <1>2. Type'
    BY <1>1 DEF CreateProcessFails, callVars, gpgVars, Goto, GpgProcessTypeOK, CallInv, HandlesFit, NoChildYet, ChildFits, OutputFits, Steps, Handles, PipeEnds, StdinEnds, StdoutEnds
  <1>3. ASSUME NEW c \in Calls, c # d PROVE CallInv(c)'
    <2>1. Same(c)
      BY <1>1, <1>3 DEF CreateProcessFails, callVars, gpgVars, Goto, GpgProcessTypeOK, Same
    <2> QED
      BY <2>1, SameKeepsCallInv DEF GpgInv
  <1>4. HandlesFit(d)'
    BY <1>1 DEF CreateProcessFails, callVars, gpgVars, Goto, GpgProcessTypeOK, CallInv, HandlesFit, NoChildYet, ChildHandle, HandlesAt, StdinEnds, StdoutEnds, PipeEnds, BeforeChild
  <1>5. NoChildYet(d)'
    BY <1>1 DEF CreateProcessFails, callVars, gpgVars, Goto, GpgProcessTypeOK, CallInv, NoChildYet, BeforeChild, StdinEnds, StdoutEnds
  <1>6. ChildFits(d)'
    BY <1>1 DEF CreateProcessFails, callVars, gpgVars, Goto, GpgProcessTypeOK, CallInv, NoChildYet, ChildFits, HandlesFit, HandlesAt, ChildHandle, Leaving, BeforeChild, PipeEnds, StdinEnds, StdoutEnds, EndIsOpen, HeldByChild
  <1>7. OutputFits(d)'
    BY <1>1 DEF CreateProcessFails, callVars, gpgVars, Goto, GpgProcessTypeOK, CallInv, NoChildYet, ChildFits, OutputFits, Leaving, BeforeChild, EndIsOpen, HeldByChild
  <1> QED
    BY <1>2, <1>3, <1>4, <1>5, <1>6, <1>7 DEF GpgInv, CallInv

\* The parent closes the child's end of stdin.
LEMMA CloseReadEnd ==
    ASSUME GpgInv, NEW d \in Calls, CloseEnd(d, "closeReadEnd", "stdinRead", "closeWriteEnd")
    PROVE  GpgInv'
  <1> USE GpgConstantsAssumption
  <1> DEFINE Type == GpgProcessTypeOK
  <1>1. Type /\ CallInv(d)
    BY DEF GpgInv
  <1>2. Type'
    BY <1>1 DEF CloseEnd, Close, callVars, gpgVars, Goto, GpgProcessTypeOK, CallInv, HandlesFit, NoChildYet, ChildFits, OutputFits, Steps, Handles, PipeEnds, StdinEnds, StdoutEnds
  <1>3. ASSUME NEW c \in Calls, c # d PROVE CallInv(c)'
    <2>1. Same(c)
      BY <1>1, <1>3 DEF CloseEnd, Close, callVars, gpgVars, Goto, GpgProcessTypeOK, Same
    <2> QED
      BY <2>1, SameKeepsCallInv DEF GpgInv
  <1>4. HandlesFit(d)'
    BY <1>1 DEF CloseEnd, Close, callVars, gpgVars, Goto, GpgProcessTypeOK, CallInv, HandlesFit, NoChildYet, ChildHandle, HandlesAt, StdinEnds, StdoutEnds, PipeEnds, BeforeChild
  <1>5. NoChildYet(d)'
    BY <1>1 DEF CloseEnd, Close, callVars, gpgVars, Goto, GpgProcessTypeOK, CallInv, NoChildYet, BeforeChild, StdinEnds, StdoutEnds
  <1>6. ChildFits(d)'
    BY <1>1 DEF CloseEnd, Close, callVars, gpgVars, Goto, GpgProcessTypeOK, CallInv, NoChildYet, ChildFits, HandlesFit, HandlesAt, ChildHandle, Leaving, BeforeChild, PipeEnds, StdinEnds, StdoutEnds, EndIsOpen, HeldByChild
  <1>7. OutputFits(d)'
    BY <1>1 DEF CloseEnd, Close, callVars, gpgVars, Goto, GpgProcessTypeOK, CallInv, NoChildYet, ChildFits, OutputFits, Leaving, BeforeChild, EndIsOpen, HeldByChild
  <1> QED
    BY <1>2, <1>3, <1>4, <1>5, <1>6, <1>7 DEF GpgInv, CallInv

\* The parent closes the child's end of stdout.
LEMMA CloseWriteEnd ==
    ASSUME GpgInv, NEW d \in Calls, CloseEnd(d, "closeWriteEnd", "stdoutWrite", "created")
    PROVE  GpgInv'
  <1> USE GpgConstantsAssumption
  <1> DEFINE Type == GpgProcessTypeOK
  <1>1. Type /\ CallInv(d)
    BY DEF GpgInv
  <1>2. Type'
    BY <1>1 DEF CloseEnd, Close, callVars, gpgVars, Goto, GpgProcessTypeOK, CallInv, HandlesFit, NoChildYet, ChildFits, OutputFits, Steps, Handles, PipeEnds, StdinEnds, StdoutEnds
  <1>3. ASSUME NEW c \in Calls, c # d PROVE CallInv(c)'
    <2>1. Same(c)
      BY <1>1, <1>3 DEF CloseEnd, Close, callVars, gpgVars, Goto, GpgProcessTypeOK, Same
    <2> QED
      BY <2>1, SameKeepsCallInv DEF GpgInv
  <1>4. HandlesFit(d)'
    BY <1>1 DEF CloseEnd, Close, callVars, gpgVars, Goto, GpgProcessTypeOK, CallInv, HandlesFit, NoChildYet, ChildHandle, HandlesAt, StdinEnds, StdoutEnds, PipeEnds, BeforeChild
  <1>5. NoChildYet(d)'
    BY <1>1 DEF CloseEnd, Close, callVars, gpgVars, Goto, GpgProcessTypeOK, CallInv, NoChildYet, BeforeChild, StdinEnds, StdoutEnds
  <1>6. ChildFits(d)'
    BY <1>1 DEF CloseEnd, Close, callVars, gpgVars, Goto, GpgProcessTypeOK, CallInv, NoChildYet, ChildFits, HandlesFit, HandlesAt, ChildHandle, Leaving, BeforeChild, PipeEnds, StdinEnds, StdoutEnds, EndIsOpen, HeldByChild
  <1>7. OutputFits(d)'
    BY <1>1 DEF CloseEnd, Close, callVars, gpgVars, Goto, GpgProcessTypeOK, CallInv, NoChildYet, ChildFits, OutputFits, Leaving, BeforeChild, EndIsOpen, HeldByChild
  <1> QED
    BY <1>2, <1>3, <1>4, <1>5, <1>6, <1>7 DEF GpgInv, CallInv

\* Without a child the call returns.
LEMMA NotCreatedInv ==
    ASSUME GpgInv, NEW d \in Calls, NotCreated(d)
    PROVE  GpgInv'
  <1> USE GpgConstantsAssumption
  <1> DEFINE Type == GpgProcessTypeOK
  <1>1. Type /\ CallInv(d)
    BY DEF GpgInv
  <1>2. Type'
    BY <1>1 DEF NotCreated, Close, callVars, gpgVars, Goto, GpgProcessTypeOK, CallInv, HandlesFit, NoChildYet, ChildFits, OutputFits, Steps, Handles, PipeEnds, StdinEnds, StdoutEnds
  <1>3. ASSUME NEW c \in Calls, c # d PROVE CallInv(c)'
    <2>1. Same(c)
      BY <1>1, <1>3 DEF NotCreated, Close, callVars, gpgVars, Goto, GpgProcessTypeOK, Same
    <2> QED
      BY <2>1, SameKeepsCallInv DEF GpgInv
  <1>4. HandlesFit(d)'
    BY <1>1 DEF NotCreated, Close, callVars, gpgVars, Goto, GpgProcessTypeOK, CallInv, HandlesFit, NoChildYet, ChildHandle, HandlesAt, StdinEnds, StdoutEnds, PipeEnds, BeforeChild
  <1>5. NoChildYet(d)'
    BY <1>1 DEF NotCreated, Close, callVars, gpgVars, Goto, GpgProcessTypeOK, CallInv, NoChildYet, BeforeChild, StdinEnds, StdoutEnds
  <1>6. ChildFits(d)'
    BY <1>1 DEF NotCreated, Close, callVars, gpgVars, Goto, GpgProcessTypeOK, CallInv, NoChildYet, ChildFits, HandlesFit, HandlesAt, ChildHandle, Leaving, BeforeChild, PipeEnds, StdinEnds, StdoutEnds, EndIsOpen, HeldByChild
  <1>7. OutputFits(d)'
    BY <1>1 DEF NotCreated, Close, callVars, gpgVars, Goto, GpgProcessTypeOK, CallInv, NoChildYet, ChildFits, OutputFits, Leaving, BeforeChild, EndIsOpen, HeldByChild
  <1> QED
    BY <1>2, <1>3, <1>4, <1>5, <1>6, <1>7 DEF GpgInv, CallInv

\* With a child it goes on.
LEMMA CreatedInv ==
    ASSUME GpgInv, NEW d \in Calls, Created(d)
    PROVE  GpgInv'
  <1> USE GpgConstantsAssumption
  <1> DEFINE Type == GpgProcessTypeOK
  <1>1. Type /\ CallInv(d)
    BY DEF GpgInv
  <1>2. Type'
    <2>1. result' \in [Calls -> [started : BOOLEAN, exitCode : {"unknown", "done", "failed"}, output : Nat]]
      BY <1>1, ResultFields DEF Created, Results
    <2>2. stdout' \in [Calls -> 0 .. PipeSize]
      BY <1>1 DEF Created, GpgProcessTypeOK
    <2> QED
      BY <1>1, <2>1, <2>2 DEF Created, GpgProcessTypeOK, callVars, gpgVars, Goto, Steps, Handles, PipeEnds, StdinEnds, StdoutEnds
  <1>3. ASSUME NEW c \in Calls, c # d PROVE CallInv(c)'
    <2>1. Same(c)
      BY <1>1, <1>3 DEF Created, callVars, gpgVars, Goto, GpgProcessTypeOK, Same
    <2> QED
      BY <2>1, SameKeepsCallInv DEF GpgInv
  <1>4. HandlesFit(d)'
    BY <1>1 DEF Created, callVars, gpgVars, Goto, GpgProcessTypeOK, CallInv, HandlesFit, NoChildYet, ChildHandle, HandlesAt, StdinEnds, StdoutEnds, PipeEnds, BeforeChild
  <1>5. NoChildYet(d)'
    BY <1>1 DEF Created, callVars, gpgVars, Goto, GpgProcessTypeOK, CallInv, NoChildYet, BeforeChild, StdinEnds, StdoutEnds
  <1>6. ChildFits(d)'
    BY <1>1 DEF Created, callVars, gpgVars, Goto, GpgProcessTypeOK, CallInv, NoChildYet, ChildFits, HandlesFit, HandlesAt, ChildHandle, Leaving, BeforeChild, PipeEnds, StdinEnds, StdoutEnds, EndIsOpen, HeldByChild
  <1>7. OutputFits(d)'
    BY <1>1 DEF Created, callVars, gpgVars, Goto, GpgProcessTypeOK, CallInv, NoChildYet, ChildFits, OutputFits, Leaving, BeforeChild, EndIsOpen, HeldByChild
  <1> QED
    BY <1>2, <1>3, <1>4, <1>5, <1>6, <1>7 DEF GpgInv, CallInv

\* Input goes to the pipe.
LEMMA WriteInputInv ==
    ASSUME GpgInv, NEW d \in Calls, WriteInput(d)
    PROVE  GpgInv'
  <1> USE GpgConstantsAssumption
  <1> DEFINE Type == GpgProcessTypeOK
  <1>1. Type /\ CallInv(d)
    BY DEF GpgInv
  <1>2. Type'
    BY <1>1 DEF WriteInput, callVars, gpgVars, Goto, GpgProcessTypeOK, CallInv, HandlesFit, NoChildYet, ChildFits, OutputFits, Steps, Handles, PipeEnds, StdinEnds, StdoutEnds
  <1>3. ASSUME NEW c \in Calls, c # d PROVE CallInv(c)'
    <2>1. Same(c)
      BY <1>1, <1>3 DEF WriteInput, callVars, gpgVars, Goto, GpgProcessTypeOK, Same
    <2> QED
      BY <2>1, SameKeepsCallInv DEF GpgInv
  <1>4. HandlesFit(d)'
    BY <1>1 DEF WriteInput, callVars, gpgVars, Goto, GpgProcessTypeOK, CallInv, HandlesFit, NoChildYet, ChildHandle, HandlesAt, StdinEnds, StdoutEnds, PipeEnds, BeforeChild
  <1>5. NoChildYet(d)'
    BY <1>1 DEF WriteInput, callVars, gpgVars, Goto, GpgProcessTypeOK, CallInv, NoChildYet, BeforeChild, StdinEnds, StdoutEnds
  <1>6. ChildFits(d)'
    BY <1>1 DEF WriteInput, callVars, gpgVars, Goto, GpgProcessTypeOK, CallInv, NoChildYet, ChildFits, HandlesFit, HandlesAt, ChildHandle, Leaving, BeforeChild, PipeEnds, StdinEnds, StdoutEnds, EndIsOpen, HeldByChild
  <1>7. OutputFits(d)'
    BY <1>1 DEF WriteInput, callVars, gpgVars, Goto, GpgProcessTypeOK, CallInv, NoChildYet, ChildFits, OutputFits, Leaving, BeforeChild, EndIsOpen, HeldByChild
  <1> QED
    BY <1>2, <1>3, <1>4, <1>5, <1>6, <1>7 DEF GpgInv, CallInv

\* The end of the input.
LEMMA InputWrittenInv ==
    ASSUME GpgInv, NEW d \in Calls, InputWritten(d)
    PROVE  GpgInv'
  <1> USE GpgConstantsAssumption
  <1> DEFINE Type == GpgProcessTypeOK
  <1>1. Type /\ CallInv(d)
    BY DEF GpgInv
  <1>2. Type'
    BY <1>1 DEF InputWritten, CloseEnd, Close, callVars, gpgVars, Goto, GpgProcessTypeOK, CallInv, HandlesFit, NoChildYet, ChildFits, OutputFits, Steps, Handles, PipeEnds, StdinEnds, StdoutEnds
  <1>3. ASSUME NEW c \in Calls, c # d PROVE CallInv(c)'
    <2>1. Same(c)
      BY <1>1, <1>3 DEF InputWritten, CloseEnd, Close, callVars, gpgVars, Goto, GpgProcessTypeOK, Same
    <2> QED
      BY <2>1, SameKeepsCallInv DEF GpgInv
  <1>4. HandlesFit(d)'
    BY <1>1 DEF InputWritten, CloseEnd, Close, callVars, gpgVars, Goto, GpgProcessTypeOK, CallInv, HandlesFit, NoChildYet, ChildHandle, HandlesAt, StdinEnds, StdoutEnds, PipeEnds, BeforeChild
  <1>5. NoChildYet(d)'
    BY <1>1 DEF InputWritten, CloseEnd, Close, callVars, gpgVars, Goto, GpgProcessTypeOK, CallInv, NoChildYet, BeforeChild, StdinEnds, StdoutEnds
  <1>6. ChildFits(d)'
    BY <1>1 DEF InputWritten, CloseEnd, Close, callVars, gpgVars, Goto, GpgProcessTypeOK, CallInv, NoChildYet, ChildFits, HandlesFit, HandlesAt, ChildHandle, Leaving, BeforeChild, PipeEnds, StdinEnds, StdoutEnds, EndIsOpen, HeldByChild
  <1>7. OutputFits(d)'
    BY <1>1 DEF InputWritten, CloseEnd, Close, callVars, gpgVars, Goto, GpgProcessTypeOK, CallInv, NoChildYet, ChildFits, OutputFits, Leaving, BeforeChild, EndIsOpen, HeldByChild
  <1> QED
    BY <1>2, <1>3, <1>4, <1>5, <1>6, <1>7 DEF GpgInv, CallInv

\* Output comes from the pipe.
LEMMA ReadOutputInv ==
    ASSUME GpgInv, NEW d \in Calls, ReadOutput(d)
    PROVE  GpgInv'
  <1> USE GpgConstantsAssumption
  <1> DEFINE Type == GpgProcessTypeOK
  <1>1. Type /\ CallInv(d)
    BY DEF GpgInv
  <1>2. Type'
    <2>1. result' \in [Calls -> [started : BOOLEAN, exitCode : {"unknown", "done", "failed"}, output : Nat]]
      <3>1. PICK n \in 1 .. stdout[d] : result' = [result EXCEPT ![d].output = @ + n]
        BY DEF ReadOutput
      <3>2. n \in Nat
        BY <1>1 DEF GpgProcessTypeOK
      <3> QED
        BY <1>1, <3>1, <3>2, ResultFields DEF Results
    <2>2. stdout' \in [Calls -> 0 .. PipeSize]
      BY <1>1 DEF ReadOutput, GpgProcessTypeOK
    <2> QED
      BY <1>1, <2>1, <2>2 DEF ReadOutput, GpgProcessTypeOK, callVars, gpgVars, Goto, Steps, Handles, PipeEnds, StdinEnds, StdoutEnds
  <1>3. ASSUME NEW c \in Calls, c # d PROVE CallInv(c)'
    <2>1. Same(c)
      BY <1>1, <1>3 DEF ReadOutput, callVars, gpgVars, Goto, GpgProcessTypeOK, Same
    <2> QED
      BY <2>1, SameKeepsCallInv DEF GpgInv
  <1>4. HandlesFit(d)'
    BY <1>1 DEF ReadOutput, callVars, gpgVars, Goto, GpgProcessTypeOK, CallInv, HandlesFit, NoChildYet, ChildHandle, HandlesAt, StdinEnds, StdoutEnds, PipeEnds, BeforeChild
  <1>5. NoChildYet(d)'
    BY <1>1 DEF ReadOutput, callVars, gpgVars, Goto, GpgProcessTypeOK, CallInv, NoChildYet, BeforeChild, StdinEnds, StdoutEnds
  <1>6. ChildFits(d)'
    BY <1>1 DEF ReadOutput, callVars, gpgVars, Goto, GpgProcessTypeOK, CallInv, NoChildYet, ChildFits, HandlesFit, HandlesAt, ChildHandle, Leaving, BeforeChild, PipeEnds, StdinEnds, StdoutEnds, EndIsOpen, HeldByChild
  <1>7. OutputFits(d)'
    BY <1>1 DEF ReadOutput, callVars, gpgVars, Goto, GpgProcessTypeOK, CallInv, NoChildYet, ChildFits, OutputFits, Leaving, BeforeChild, EndIsOpen, HeldByChild
  <1> QED
    BY <1>2, <1>3, <1>4, <1>5, <1>6, <1>7 DEF GpgInv, CallInv

\* The end of the output: the child is leaving.
LEMMA DrainedInv ==
    ASSUME GpgInv, NEW d \in Calls, Drained(d)
    PROVE  GpgInv'
  <1> USE GpgConstantsAssumption
  <1> DEFINE Type == GpgProcessTypeOK
  <1>1. Type /\ CallInv(d)
    BY DEF GpgInv
  <1>2. Type'
    BY <1>1 DEF Drained, CloseEnd, Close, callVars, gpgVars, Goto, GpgProcessTypeOK, CallInv, HandlesFit, NoChildYet, ChildFits, OutputFits, Steps, Handles, PipeEnds, StdinEnds, StdoutEnds
  <1>3. ASSUME NEW c \in Calls, c # d PROVE CallInv(c)'
    <2>1. Same(c)
      BY <1>1, <1>3 DEF Drained, CloseEnd, Close, callVars, gpgVars, Goto, GpgProcessTypeOK, Same
    <2> QED
      BY <2>1, SameKeepsCallInv DEF GpgInv
  <1>4. HandlesFit(d)'
    BY <1>1 DEF Drained, CloseEnd, Close, callVars, gpgVars, Goto, GpgProcessTypeOK, CallInv, HandlesFit, NoChildYet, ChildHandle, HandlesAt, StdinEnds, StdoutEnds, PipeEnds, BeforeChild
  <1>5. NoChildYet(d)'
    BY <1>1 DEF Drained, CloseEnd, Close, callVars, gpgVars, Goto, GpgProcessTypeOK, CallInv, NoChildYet, BeforeChild, StdinEnds, StdoutEnds
  <1>6. ChildFits(d)'
    BY <1>1 DEF Drained, CloseEnd, Close, callVars, gpgVars, Goto, GpgProcessTypeOK, CallInv, NoChildYet, ChildFits, HandlesFit, HandlesAt, ChildHandle, Leaving, BeforeChild, PipeEnds, StdinEnds, StdoutEnds, EndIsOpen, HeldByChild
  <1>7. OutputFits(d)'
    BY <1>1 DEF Drained, CloseEnd, Close, callVars, gpgVars, Goto, GpgProcessTypeOK, CallInv, NoChildYet, ChildFits, OutputFits, Leaving, BeforeChild, EndIsOpen, HeldByChild
  <1> QED
    BY <1>2, <1>3, <1>4, <1>5, <1>6, <1>7 DEF GpgInv, CallInv

\* The child has ended.
LEMMA WaitInv ==
    ASSUME GpgInv, NEW d \in Calls, Wait(d)
    PROVE  GpgInv'
  <1> USE GpgConstantsAssumption
  <1> DEFINE Type == GpgProcessTypeOK
  <1>1. Type /\ CallInv(d)
    BY DEF GpgInv
  <1>2. Type'
    <2>1. result' \in [Calls -> [started : BOOLEAN, exitCode : {"unknown", "done", "failed"}, output : Nat]]
      <3>1. gpg[d] \in {"unknown", "done", "failed"}
        BY <1>1 DEF Wait, GpgProcessTypeOK, CallInv, NoChildYet
      <3> QED
        BY <1>1, <3>1, ResultFields DEF Wait, Results
    <2> QED
      BY <1>1, <2>1 DEF Wait, Close, GpgProcessTypeOK, gpgVars, Goto, Steps
  <1>3. ASSUME NEW c \in Calls, c # d PROVE CallInv(c)'
    <2>1. Same(c)
      BY <1>1, <1>3 DEF Wait, Close, callVars, gpgVars, Goto, GpgProcessTypeOK, Same
    <2> QED
      BY <2>1, SameKeepsCallInv DEF GpgInv
  <1>4. HandlesFit(d)'
    BY <1>1 DEF Wait, Close, callVars, gpgVars, Goto, GpgProcessTypeOK, CallInv, HandlesFit, NoChildYet, ChildHandle, HandlesAt, StdinEnds, StdoutEnds, PipeEnds, BeforeChild
  <1>5. NoChildYet(d)'
    BY <1>1 DEF Wait, Close, callVars, gpgVars, Goto, GpgProcessTypeOK, CallInv, NoChildYet, BeforeChild, StdinEnds, StdoutEnds
  <1>6. ChildFits(d)'
    BY <1>1 DEF Wait, Close, callVars, gpgVars, Goto, GpgProcessTypeOK, CallInv, NoChildYet, ChildFits, HandlesFit, HandlesAt, ChildHandle, Leaving, BeforeChild, PipeEnds, StdinEnds, StdoutEnds, EndIsOpen, HeldByChild
  <1>7. OutputFits(d)'
    BY <1>1 DEF Wait, Close, callVars, gpgVars, Goto, GpgProcessTypeOK, CallInv, NoChildYet, ChildFits, OutputFits, Leaving, BeforeChild, EndIsOpen, HeldByChild
  <1> QED
    BY <1>2, <1>3, <1>4, <1>5, <1>6, <1>7 DEF GpgInv, CallInv

\* An exception.
LEMMA CatchInv ==
    ASSUME GpgInv, NEW d \in Calls, Catch(d)
    PROVE  GpgInv'
  <1> USE GpgConstantsAssumption
  <1> DEFINE Type == GpgProcessTypeOK
  <1>1. Type /\ CallInv(d)
    BY DEF GpgInv
  <1>2. Type'
    <2>1. result' \in [Calls -> [started : BOOLEAN, exitCode : {"unknown", "done", "failed"}, output : Nat]]
      BY <1>1, ResultFields DEF Catch, Results
    <2>2. stdout' \in [Calls -> 0 .. PipeSize]
      BY <1>1 DEF Catch, Close, GpgProcessTypeOK
    <2> QED
      BY <1>1, <2>1, <2>2 DEF Catch, Close, GpgProcessTypeOK, callVars, gpgVars, Goto, Steps, Handles, PipeEnds, StdinEnds, StdoutEnds
  <1>3. ASSUME NEW c \in Calls, c # d PROVE CallInv(c)'
    <2>1. Same(c)
      BY <1>1, <1>3 DEF Catch, MayThrow, Close, callVars, gpgVars, Goto, GpgProcessTypeOK, Same
    <2> QED
      BY <2>1, SameKeepsCallInv DEF GpgInv
  <1>4. HandlesFit(d)'
    BY <1>1 DEF Catch, MayThrow, Close, callVars, gpgVars, Goto, GpgProcessTypeOK, CallInv, HandlesFit, NoChildYet, ChildHandle, HandlesAt, StdinEnds, StdoutEnds, PipeEnds, BeforeChild
  <1>5. NoChildYet(d)'
    BY <1>1 DEF Catch, MayThrow, Close, callVars, gpgVars, Goto, GpgProcessTypeOK, CallInv, NoChildYet, BeforeChild, StdinEnds, StdoutEnds
  <1>6. ChildFits(d)'
    BY <1>1 DEF Catch, MayThrow, Close, callVars, gpgVars, Goto, GpgProcessTypeOK, CallInv, NoChildYet, ChildFits, HandlesFit, HandlesAt, ChildHandle, Leaving, BeforeChild, PipeEnds, StdinEnds, StdoutEnds, EndIsOpen, HeldByChild
  <1>7. OutputFits(d)'
    BY <1>1 DEF Catch, MayThrow, Close, callVars, gpgVars, Goto, GpgProcessTypeOK, CallInv, NoChildYet, ChildFits, OutputFits, Leaving, BeforeChild, EndIsOpen, HeldByChild
  <1> QED
    BY <1>2, <1>3, <1>4, <1>5, <1>6, <1>7 DEF GpgInv, CallInv

-----------------------------------------------------------------------------
(* The steps of a child *)

\* The child reads.
LEMMA GpgReadsInv ==
    ASSUME GpgInv, NEW d \in Calls, GpgReads(d)
    PROVE  GpgInv'
  <1> USE GpgConstantsAssumption
  <1> DEFINE Type == GpgProcessTypeOK
  <1>1. Type /\ CallInv(d)
    BY DEF GpgInv
  <1>2. Type'
    BY <1>1 DEF GpgReads, callVars, gpgVars, NextOperation, Choices, GpgProcessTypeOK, CallInv, HandlesFit, NoChildYet, ChildFits, OutputFits, Steps, Handles, PipeEnds, StdinEnds, StdoutEnds
  <1>3. ASSUME NEW c \in Calls, c # d PROVE CallInv(c)'
    <2>1. Same(c)
      BY <1>1, <1>3 DEF GpgReads, callVars, gpgVars, NextOperation, Choices, GpgProcessTypeOK, Same
    <2> QED
      BY <2>1, SameKeepsCallInv DEF GpgInv
  <1>4. HandlesFit(d)'
    BY <1>1 DEF GpgReads, callVars, gpgVars, NextOperation, Choices, GpgProcessTypeOK, CallInv, HandlesFit, NoChildYet, ChildHandle, HandlesAt, StdinEnds, StdoutEnds, PipeEnds, BeforeChild
  <1>5. NoChildYet(d)'
    BY <1>1 DEF GpgReads, callVars, gpgVars, NextOperation, Choices, GpgProcessTypeOK, CallInv, NoChildYet, BeforeChild, StdinEnds, StdoutEnds
  <1>6. ChildFits(d)'
    BY <1>1 DEF GpgReads, callVars, gpgVars, NextOperation, Choices, GpgProcessTypeOK, CallInv, NoChildYet, ChildFits, HandlesFit, HandlesAt, ChildHandle, Leaving, BeforeChild, PipeEnds, StdinEnds, StdoutEnds, EndIsOpen, HeldByChild
  <1>7. OutputFits(d)'
    BY <1>1 DEF GpgReads, callVars, gpgVars, NextOperation, Choices, GpgProcessTypeOK, CallInv, NoChildYet, ChildFits, OutputFits, Leaving, BeforeChild, EndIsOpen, HeldByChild
  <1> QED
    BY <1>2, <1>3, <1>4, <1>5, <1>6, <1>7 DEF GpgInv, CallInv

\* The child meets the end of its input: the call has closed it.
LEMMA GpgMeetsEndInv ==
    ASSUME GpgInv, NEW d \in Calls, GpgMeetsEnd(d)
    PROVE  GpgInv'
  <1> USE GpgConstantsAssumption
  <1> DEFINE Type == GpgProcessTypeOK
  <1>1. Type /\ CallInv(d)
    BY DEF GpgInv
  <1>2. Type'
    BY <1>1 DEF GpgMeetsEnd, callVars, gpgVars, NextOperation, Choices, GpgProcessTypeOK, CallInv, HandlesFit, NoChildYet, ChildFits, OutputFits, Steps, Handles, PipeEnds, StdinEnds, StdoutEnds
  <1>3. ASSUME NEW c \in Calls, c # d PROVE CallInv(c)'
    <2>1. Same(c)
      BY <1>1, <1>3 DEF GpgMeetsEnd, callVars, gpgVars, NextOperation, Choices, GpgProcessTypeOK, Same
    <2> QED
      BY <2>1, SameKeepsCallInv DEF GpgInv
  <1>4. HandlesFit(d)'
    BY <1>1 DEF GpgMeetsEnd, callVars, gpgVars, NextOperation, Choices, GpgProcessTypeOK, CallInv, HandlesFit, NoChildYet, ChildHandle, HandlesAt, StdinEnds, StdoutEnds, PipeEnds, BeforeChild
  <1>5. NoChildYet(d)'
    BY <1>1 DEF GpgMeetsEnd, callVars, gpgVars, NextOperation, Choices, GpgProcessTypeOK, CallInv, NoChildYet, BeforeChild, StdinEnds, StdoutEnds
  <1>6. ChildFits(d)'
    <2>1. pc[d] \in {"drain", "wait", "returned"}
      BY <1>1 DEF GpgMeetsEnd, EndIsOpen, GpgProcessTypeOK, CallInv, NoChildYet, BeforeChild, HandlesFit,
         HandlesAt, ChildHandle, Steps, PipeEnds, StdinEnds, StdoutEnds
    <2>2. input[d] = 0
      BY <1>1, <2>1 DEF GpgMeetsEnd, CallInv, ChildFits, Leaving
    <2> QED
      BY <1>1, <2>1, <2>2 DEF GpgMeetsEnd, callVars, gpgVars, NextOperation, Choices, GpgProcessTypeOK,
         CallInv, ChildFits, Leaving
  <1>7. OutputFits(d)'
    BY <1>1 DEF GpgMeetsEnd, callVars, gpgVars, NextOperation, Choices, GpgProcessTypeOK, CallInv, NoChildYet, ChildFits, OutputFits, Leaving, BeforeChild, EndIsOpen, HeldByChild
  <1> QED
    BY <1>2, <1>3, <1>4, <1>5, <1>6, <1>7 DEF GpgInv, CallInv

\* The child prints.
LEMMA GpgPrintsInv ==
    ASSUME GpgInv, NEW d \in Calls, GpgPrints(d)
    PROVE  GpgInv'
  <1> USE GpgConstantsAssumption
  <1> DEFINE Type == GpgProcessTypeOK
  <1>1. Type /\ CallInv(d)
    BY DEF GpgInv
  <1>2. Type'
    <2>1. doing' \in [Calls -> {"read", "print", "exit", "done", "failed"}]
      BY <1>1 DEF GpgPrints, NextOperation, Choices, GpgProcessTypeOK
    <2>2. toPrint[d] > 0
      BY <1>1 DEF GpgPrints, CallInv, ChildFits
    <2>3. toPrint' \in [Calls -> Nat] /\ printed' \in [Calls -> Nat] /\ stdout' \in [Calls -> 0 .. PipeSize]
      BY <1>1, <2>2 DEF GpgPrints, GpgProcessTypeOK
    <2> QED
      BY <1>1, <2>1, <2>3 DEF GpgPrints, GpgProcessTypeOK, callVars, gpgVars
  <1>3. ASSUME NEW c \in Calls, c # d PROVE CallInv(c)'
    <2>1. Same(c)
      BY <1>1, <1>3 DEF GpgPrints, callVars, gpgVars, NextOperation, Choices, GpgProcessTypeOK, Same
    <2> QED
      BY <2>1, SameKeepsCallInv DEF GpgInv
  <1>4. HandlesFit(d)'
    BY <1>1 DEF GpgPrints, callVars, gpgVars, NextOperation, Choices, GpgProcessTypeOK, CallInv, HandlesFit, NoChildYet, ChildHandle, HandlesAt, StdinEnds, StdoutEnds, PipeEnds, BeforeChild
  <1>5. NoChildYet(d)'
    BY <1>1 DEF GpgPrints, callVars, gpgVars, NextOperation, Choices, GpgProcessTypeOK, CallInv, NoChildYet, BeforeChild, StdinEnds, StdoutEnds
  <1>6. ChildFits(d)'
    BY <1>1 DEF GpgPrints, callVars, gpgVars, NextOperation, Choices, GpgProcessTypeOK, CallInv, NoChildYet, ChildFits, HandlesFit, HandlesAt, ChildHandle, Leaving, BeforeChild, PipeEnds, StdinEnds, StdoutEnds, EndIsOpen, HeldByChild
  <1>7. OutputFits(d)'
    BY <1>1 DEF GpgPrints, callVars, gpgVars, NextOperation, Choices, GpgProcessTypeOK, CallInv, NoChildYet, ChildFits, OutputFits, Leaving, BeforeChild, EndIsOpen, HeldByChild
  <1> QED
    BY <1>2, <1>3, <1>4, <1>5, <1>6, <1>7 DEF GpgInv, CallInv

\* The child leaves.
LEMMA GpgExitsInv ==
    ASSUME GpgInv, NEW d \in Calls, GpgExits(d)
    PROVE  GpgInv'
  <1> USE GpgConstantsAssumption
  <1> DEFINE Type == GpgProcessTypeOK
  <1>1. Type /\ CallInv(d)
    BY DEF GpgInv
  <1>2. Type'
    BY <1>1 DEF GpgExits, Exit, callVars, gpgVars, GpgProcessTypeOK, CallInv, HandlesFit, NoChildYet, ChildFits, OutputFits, Steps, Handles, PipeEnds, StdinEnds, StdoutEnds
  <1>3. ASSUME NEW c \in Calls, c # d PROVE CallInv(c)'
    <2>1. Same(c)
      BY <1>1, <1>3 DEF GpgExits, Exit, callVars, gpgVars, GpgProcessTypeOK, Same
    <2> QED
      BY <2>1, SameKeepsCallInv DEF GpgInv
  <1>4. HandlesFit(d)'
    BY <1>1 DEF GpgExits, Exit, callVars, gpgVars, GpgProcessTypeOK, CallInv, HandlesFit, NoChildYet, ChildHandle, HandlesAt, StdinEnds, StdoutEnds, PipeEnds, BeforeChild
  <1>5. NoChildYet(d)'
    BY <1>1 DEF GpgExits, Exit, callVars, gpgVars, GpgProcessTypeOK, CallInv, NoChildYet, BeforeChild, StdinEnds, StdoutEnds
  <1>6. ChildFits(d)'
    BY <1>1 DEF GpgExits, Exit, callVars, gpgVars, GpgProcessTypeOK, CallInv, NoChildYet, ChildFits, HandlesFit, HandlesAt, ChildHandle, Leaving, BeforeChild, PipeEnds, StdinEnds, StdoutEnds, EndIsOpen, HeldByChild
  <1>7. OutputFits(d)'
    BY <1>1 DEF GpgExits, Exit, callVars, gpgVars, GpgProcessTypeOK, CallInv, NoChildYet, ChildFits, OutputFits, Leaving, BeforeChild, EndIsOpen, HeldByChild
  <1> QED
    BY <1>2, <1>3, <1>4, <1>5, <1>6, <1>7 DEF GpgInv, CallInv

\* The child finds its output closed.
LEMMA GpgBreaksPipeInv ==
    ASSUME GpgInv, NEW d \in Calls, GpgBreaksPipe(d)
    PROVE  GpgInv'
  <1> USE GpgConstantsAssumption
  <1> DEFINE Type == GpgProcessTypeOK
  <1>1. Type /\ CallInv(d)
    BY DEF GpgInv
  <1>2. Type'
    BY <1>1 DEF GpgBreaksPipe, Exit, callVars, gpgVars, GpgProcessTypeOK, CallInv, HandlesFit, NoChildYet, ChildFits, OutputFits, Steps, Handles, PipeEnds, StdinEnds, StdoutEnds
  <1>3. ASSUME NEW c \in Calls, c # d PROVE CallInv(c)'
    <2>1. Same(c)
      BY <1>1, <1>3 DEF GpgBreaksPipe, Exit, callVars, gpgVars, GpgProcessTypeOK, Same
    <2> QED
      BY <2>1, SameKeepsCallInv DEF GpgInv
  <1>4. HandlesFit(d)'
    BY <1>1 DEF GpgBreaksPipe, Exit, callVars, gpgVars, GpgProcessTypeOK, CallInv, HandlesFit, NoChildYet, ChildHandle, HandlesAt, StdinEnds, StdoutEnds, PipeEnds, BeforeChild
  <1>5. NoChildYet(d)'
    BY <1>1 DEF GpgBreaksPipe, Exit, callVars, gpgVars, GpgProcessTypeOK, CallInv, NoChildYet, BeforeChild, StdinEnds, StdoutEnds
  <1>6. ChildFits(d)'
    BY <1>1 DEF GpgBreaksPipe, Exit, callVars, gpgVars, GpgProcessTypeOK, CallInv, NoChildYet, ChildFits, HandlesFit, HandlesAt, ChildHandle, Leaving, BeforeChild, PipeEnds, StdinEnds, StdoutEnds, EndIsOpen, HeldByChild
  <1>7. OutputFits(d)'
    BY <1>1 DEF GpgBreaksPipe, Exit, callVars, gpgVars, GpgProcessTypeOK, CallInv, NoChildYet, ChildFits, OutputFits, Leaving, BeforeChild, EndIsOpen, HeldByChild
  <1> QED
    BY <1>2, <1>3, <1>4, <1>5, <1>6, <1>7 DEF GpgInv, CallInv

\* The child fails.
LEMMA GpgFailsInv ==
    ASSUME GpgInv, NEW d \in Calls, GpgFails(d)
    PROVE  GpgInv'
  <1> USE GpgConstantsAssumption
  <1> DEFINE Type == GpgProcessTypeOK
  <1>1. Type /\ CallInv(d)
    BY DEF GpgInv
  <1>2. Type'
    BY <1>1 DEF GpgFails, Exit, callVars, gpgVars, GpgProcessTypeOK, CallInv, HandlesFit, NoChildYet, ChildFits, OutputFits, Steps, Handles, PipeEnds, StdinEnds, StdoutEnds
  <1>3. ASSUME NEW c \in Calls, c # d PROVE CallInv(c)'
    <2>1. Same(c)
      BY <1>1, <1>3 DEF GpgFails, Exit, callVars, gpgVars, GpgProcessTypeOK, Same
    <2> QED
      BY <2>1, SameKeepsCallInv DEF GpgInv
  <1>4. HandlesFit(d)'
    BY <1>1 DEF GpgFails, Exit, callVars, gpgVars, GpgProcessTypeOK, CallInv, HandlesFit, NoChildYet, ChildHandle, HandlesAt, StdinEnds, StdoutEnds, PipeEnds, BeforeChild
  <1>5. NoChildYet(d)'
    BY <1>1 DEF GpgFails, Exit, callVars, gpgVars, GpgProcessTypeOK, CallInv, NoChildYet, BeforeChild, StdinEnds, StdoutEnds
  <1>6. ChildFits(d)'
    BY <1>1 DEF GpgFails, Exit, callVars, gpgVars, GpgProcessTypeOK, CallInv, NoChildYet, ChildFits, HandlesFit, HandlesAt, ChildHandle, Leaving, BeforeChild, PipeEnds, StdinEnds, StdoutEnds, EndIsOpen, HeldByChild
  <1>7. OutputFits(d)'
    BY <1>1 DEF GpgFails, Exit, callVars, gpgVars, GpgProcessTypeOK, CallInv, NoChildYet, ChildFits, OutputFits, Leaving, BeforeChild, EndIsOpen, HeldByChild
  <1> QED
    BY <1>2, <1>3, <1>4, <1>5, <1>6, <1>7 DEF GpgInv, CallInv

\* The process object is signalled.
LEMMA GpgEndsInv ==
    ASSUME GpgInv, NEW d \in Calls, GpgEnds(d)
    PROVE  GpgInv'
  <1> USE GpgConstantsAssumption
  <1> DEFINE Type == GpgProcessTypeOK
  <1>1. Type /\ CallInv(d)
    BY DEF GpgInv
  <1>2. Type'
    BY <1>1 DEF GpgEnds, callVars, gpgVars, GpgProcessTypeOK, CallInv, HandlesFit, NoChildYet, ChildFits, OutputFits, Steps, Handles, PipeEnds, StdinEnds, StdoutEnds
  <1>3. ASSUME NEW c \in Calls, c # d PROVE CallInv(c)'
    <2>1. Same(c)
      BY <1>1, <1>3 DEF GpgEnds, callVars, gpgVars, GpgProcessTypeOK, Same
    <2> QED
      BY <2>1, SameKeepsCallInv DEF GpgInv
  <1>4. HandlesFit(d)'
    BY <1>1 DEF GpgEnds, callVars, gpgVars, GpgProcessTypeOK, CallInv, HandlesFit, NoChildYet, ChildHandle, HandlesAt, StdinEnds, StdoutEnds, PipeEnds, BeforeChild
  <1>5. NoChildYet(d)'
    BY <1>1 DEF GpgEnds, callVars, gpgVars, GpgProcessTypeOK, CallInv, NoChildYet, BeforeChild, StdinEnds, StdoutEnds
  <1>6. ChildFits(d)'
    BY <1>1 DEF GpgEnds, callVars, gpgVars, GpgProcessTypeOK, CallInv, NoChildYet, ChildFits, HandlesFit, HandlesAt, ChildHandle, Leaving, BeforeChild, PipeEnds, StdinEnds, StdoutEnds, EndIsOpen, HeldByChild
  <1>7. OutputFits(d)'
    BY <1>1 DEF GpgEnds, callVars, gpgVars, GpgProcessTypeOK, CallInv, NoChildYet, ChildFits, OutputFits, Leaving, BeforeChild, EndIsOpen, HeldByChild
  <1> QED
    BY <1>2, <1>3, <1>4, <1>5, <1>6, <1>7 DEF GpgInv, CallInv

-----------------------------------------------------------------------------
(* The theorems *)

\* One step of the system.
LEMMA NextGpgInv == GpgInv /\ [Next]_vars => GpgInv'
  <1> SUFFICES ASSUME GpgInv, [Next]_vars PROVE GpgInv'
    OBVIOUS
  <1>1. CASE UNCHANGED vars
    <2>1. GpgProcessTypeOK'
      BY <1>1 DEF GpgInv, GpgProcessTypeOK, vars, callVars, gpgVars
    <2>2. ASSUME NEW c \in Calls PROVE CallInv(c)'
      <3>1. Same(c)
        BY <1>1 DEF vars, callVars, gpgVars, Same
      <3> QED
        BY <3>1, SameKeepsCallInv DEF GpgInv
    <2> QED
      BY <2>1, <2>2 DEF GpgInv
  <1>2. ASSUME NEW d \in Calls, RunGpgProcess(d) PROVE GpgInv'
    BY <1>2, ClearInheritIn, CreatePipeOut, ClearInheritOut, CreateProcessInv, CloseReadEnd,
       CloseWriteEnd, NotCreatedInv, CreatedInv, WriteInputInv, InputWrittenInv, ReadOutputInv,
       DrainedInv, WaitInv DEF RunGpgProcess
  <1>3. ASSUME NEW d \in Calls, Failure(d) PROVE GpgInv'
    BY <1>3, FailInv, CreateProcessFailsInv, CatchInv DEF Failure
  <1>4. ASSUME NEW d \in Calls, Gpg(d) \/ GpgFails(d) PROVE GpgInv'
    BY <1>4, GpgReadsInv, GpgMeetsEndInv, GpgPrintsInv, GpgExitsInv, GpgBreaksPipeInv,
       GpgEndsInv, GpgFailsInv DEF Gpg
  <1> QED
    BY <1>1, <1>2, <1>3, <1>4, CreatePipeIn DEF Next

\* The inductive invariant holds in every state.
THEOREM GpgInvariant == Spec => []GpgInv
  BY InitGpgInv, NextGpgInv, PTL DEF Spec

\* Type correctness: no pipe is overfilled, and every exit code recorded is that
\* of a process that ended (WaitForSingleObject before GetExitCodeProcess).
THEOREM GpgProcessTyped == Spec => []GpgProcessTypeOK
  <1>1. GpgInv => GpgProcessTypeOK
    BY DEF GpgInv
  <1> QED
    BY <1>1, GpgInvariant, PTL

\* Whichever way runGpgProcess returns, with any number of concurrent calls,
\* its handles are closed, and its catch block closes each of them once.
THEOREM GpgHandlesReleased == Spec => []HandlesReleased
  <1>1. GpgInv => HandlesReleased
    BY DEF GpgInv, CallInv, HandlesFit, HandlesAt, HandlesReleased, MayThrow
  <1> QED
    BY <1>1, GpgInvariant, PTL

\* A result with started set has all that gpg printed and its exit code, and a
\* gpg that ended normally had read all the input, whoever else holds the pipes.
THEOREM GpgResultIsComplete == Spec => []ResultIsComplete
  <1>1. ASSUME GpgInv, NEW c \in Calls, pc[c] = "returned", result[c].started
        PROVE  /\ gpg[c] \in {"done", "failed"}
               /\ result[c].exitCode = gpg[c]
               /\ result[c].output = printed[c]
               /\ gpg[c] = "done" => stdin[c] = 0 /\ input[c] = 0
    <2>1. gpg[c] \in {"done", "failed"} /\ result[c].exitCode = gpg[c] /\ stdout[c] = 0
      BY <1>1 DEF GpgInv, CallInv, OutputFits
    <2>2. printed[c] = result[c].output + 0 /\ result[c].output \in Nat
      BY <1>1, <2>1 DEF GpgInv, GpgProcessTypeOK, CallInv, OutputFits
    <2>3. gpg[c] = "done" => sawEnd[c]
      BY <1>1, <2>1 DEF GpgInv, CallInv, ChildFits
    <2>4. result[c].output = printed[c]
      BY <2>2
    <2>5. gpg[c] = "done" => stdin[c] = 0 /\ input[c] = 0
      BY <1>1, <2>3 DEF GpgInv, CallInv, ChildFits
    <2> QED
      BY <2>1, <2>4, <2>5
  <1>2. GpgInv => ResultIsComplete
    BY <1>1 DEF ResultIsComplete
  <1> QED
    BY <1>2, GpgInvariant, PTL
=============================================================================
