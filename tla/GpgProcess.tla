----------------------------- MODULE GpgProcess -----------------------------
(***************************************************************************)
(* runGpgProcess (src/src/Pgp/PgpEngineWrapper.cpp): one gpg child process *)
(* with its stdin and its combined stdout and stderr redirected to pipes.  *)
(*                                                                         *)
(* Calls run concurrently, from wrapper instances used on several threads: *)
(* each element of Calls is one call, started at any time. CreateProcessW  *)
(* is told to inherit handles, so a child gets every handle of the process *)
(* that is inheritable at that moment, other calls' pipe ends included,    *)
(* and holds it until it exits.                                            *)
(*                                                                         *)
(* Data is counted in units of a pipe's capacity. gpg itself is external:  *)
(* a sequential process that reads its input to the end and writes its     *)
(* output in any order, commits to its next operation and blocks in it,    *)
(* and may fail at any time.                                               *)
(***************************************************************************)
EXTENDS Integers

CONSTANTS Calls,        \* the calls ever made
          PipeSize,     \* what a pipe holds
          InputSizes,   \* the sizes of stdinData
          OutputSizes   \* the sizes of what gpg may print

\* The input of every caller fits the pipe ("small, bounded stdinData"); what
\* gpg prints need not.
ASSUME GpgConstantsAssumption ==
    /\ PipeSize \in Nat \ {0}
    /\ InputSizes \subseteq 0 .. PipeSize
    /\ OutputSizes \subseteq Nat

StdinEnds == {"stdinRead", "stdinWrite"}
StdoutEnds == {"stdoutRead", "stdoutWrite"}
PipeEnds == StdinEnds \cup StdoutEnds
Handles == PipeEnds \cup {"process"}

VARIABLES
    pc,           \* call -> where it is in runGpgProcess
    open,         \* call -> the handles it opened and this process still has
    local,        \* call -> its local handle variables that are not nullptr
    inheritable,  \* call -> its pipe ends with HANDLE_FLAG_INHERIT
    input,        \* call -> what of stdinData is not written yet
    stdin,        \* call -> what its stdin pipe holds
    stdout,       \* call -> what its stdout pipe holds
    result,       \* call -> its GpgProcessResult
    gpg,          \* call -> its child: "none", "running", "done" or "failed"
    inherited,    \* call -> the <<call, pipe end>> pairs its child holds
    doing,        \* call -> the operation its child is in
    sawEnd,       \* call -> whether its child met the end of its input
    toPrint,      \* call -> what its child has still to print
    printed       \* call -> what its child has printed

callVars == <<open, local, inheritable, input, result>>
gpgVars == <<gpg, inherited, doing, sawEnd, toPrint, printed>>
vars == <<pc, callVars, stdin, stdout, gpgVars>>

\* "idle" is before the first CreatePipe, "create" is where the command line is
\* built and CreateProcessW called.
Steps == {"idle", "keepIn", "pipeOut", "keepOut", "create", "closeReadEnd",
          "closeWriteEnd", "created", "write", "drain", "wait", "returned"}

\* Every variable has its type, and no pipe holds more than its size.
GpgProcessTypeOK ==
    /\ pc \in [Calls -> Steps]
    /\ open \in [Calls -> SUBSET Handles]
    /\ local \in [Calls -> SUBSET Handles]
    /\ inheritable \in [Calls -> SUBSET PipeEnds]
    /\ input \in [Calls -> 0 .. PipeSize]
    /\ stdin \in [Calls -> 0 .. PipeSize]
    /\ stdout \in [Calls -> 0 .. PipeSize]
    /\ result \in [Calls -> [started : BOOLEAN, exitCode : {"unknown", "done", "failed"}, output : Nat]]
    /\ gpg \in [Calls -> {"none", "running", "done", "failed"}]
    /\ inherited \in [Calls -> SUBSET (Calls \X PipeEnds)]
    /\ doing \in [Calls -> {"read", "print", "exit", "done", "failed"}]
    /\ sawEnd \in [Calls -> BOOLEAN]
    /\ toPrint \in [Calls -> Nat]
    /\ printed \in [Calls -> Nat]

Init ==
    /\ pc = [c \in Calls |-> "idle"]
    /\ open = [c \in Calls |-> {}]
    /\ local = [c \in Calls |-> {}]
    /\ inheritable = [c \in Calls |-> {}]
    /\ input \in [Calls -> InputSizes]
    /\ stdin = [c \in Calls |-> 0]
    /\ stdout = [c \in Calls |-> 0]
    /\ result = [c \in Calls |-> [started |-> FALSE, exitCode |-> "unknown", output |-> 0]]
    /\ gpg = [c \in Calls |-> "none"]
    /\ inherited = [c \in Calls |-> {}]
    /\ doing = [c \in Calls |-> "read"]
    /\ sawEnd = [c \in Calls |-> FALSE]
    /\ toPrint \in [Calls -> OutputSizes]
    /\ printed = [c \in Calls |-> 0]

-----------------------------------------------------------------------------
(* The pipes *)

\* Some process has this end of the pipe of call c open.
HeldByChild(c, end) == \E d \in Calls : <<c, end>> \in inherited[d]
EndIsOpen(c, end) == end \in open[c] \/ HeldByChild(c, end)

-----------------------------------------------------------------------------
(* runGpgProcess *)

Goto(c, step) == pc' = [pc EXCEPT ![c] = step]

\* CreatePipe with bInheritHandle: both ends are inheritable.
CreatePipe(c, from, ends, to) ==
    /\ pc[c] = from
    /\ open' = [open EXCEPT ![c] = @ \cup ends]
    /\ local' = [local EXCEPT ![c] = @ \cup ends]
    /\ inheritable' = [inheritable EXCEPT ![c] = @ \cup ends]
    /\ Goto(c, to)
    /\ UNCHANGED <<input, result, stdin, stdout, gpgVars>>

\* Mutant: the parent's end stays inheritable.
KeepInheritable(c, from, end, to) ==
    /\ pc[c] = from
    /\ Goto(c, to)
    /\ UNCHANGED <<callVars, stdin, stdout, gpgVars>>

\* SetHandleInformation(end, HANDLE_FLAG_INHERIT, 0): the parent keeps it to itself.
ClearInherit(c, from, end, to) ==
    /\ pc[c] = from
    /\ inheritable' = [inheritable EXCEPT ![c] = @ \ {end}]
    /\ Goto(c, to)
    /\ UNCHANGED <<open, local, input, result, stdin, stdout, gpgVars>>

\* Mutant: the failure of the second SetHandleInformation forgets one end.
ClosedOnFailureButOne(step) ==
    CASE step = "idle" -> {}
      [] step \in {"keepIn", "pipeOut"} -> StdinEnds
      [] step = "keepOut" -> PipeEnds \ {"stdoutWrite"}
      [] step = "create" -> PipeEnds

\* What the early return of a step that fails closes.
ClosedOnFailure(step) ==
    CASE step = "idle" -> {}
      [] step \in {"keepIn", "pipeOut"} -> StdinEnds
      [] step \in {"keepOut", "create"} -> PipeEnds

\* Closing a handle of this process. The child's copies stay.
Close(c, handles) ==
    /\ open' = [open EXCEPT ![c] = @ \ handles]
    /\ inheritable' = [inheritable EXCEPT ![c] = @ \ handles]

\* CreatePipe, SetHandleInformation or utf8ToWide fails: close and return.
Fail(c) ==
    /\ pc[c] \in {"idle", "keepIn", "pipeOut", "keepOut", "create"}
    /\ Close(c, ClosedOnFailure(pc[c]))
    /\ Goto(c, "returned")
    /\ UNCHANGED <<local, input, result, stdin, stdout, gpgVars>>

\* What a child gets from CreateProcessW: every inheritable handle of the process.
AllInheritable == {p \in Calls \X PipeEnds : p[2] \in inheritable[p[1]]}

\* What a gpg process may do next: it never reads past the end of its input.
Choices(ended, left) ==
    (IF ended THEN {} ELSE {"read"}) \cup (IF left > 0 THEN {"print"} ELSE {})

NextOperation(c, ended, left) ==
    IF Choices(ended, left) = {} THEN doing' = [doing EXCEPT ![c] = "exit"]
    ELSE \E choice \in Choices(ended, left) : doing' = [doing EXCEPT ![c] = choice]

CreateProcess(c) ==
    /\ pc[c] = "create"
    /\ gpg' = [gpg EXCEPT ![c] = "running"]
    /\ inherited' = [inherited EXCEPT ![c] = AllInheritable]
    /\ NextOperation(c, FALSE, toPrint[c])
    /\ open' = [open EXCEPT ![c] = @ \cup {"process"}]
    /\ local' = [local EXCEPT ![c] = @ \cup {"process"}]
    /\ Goto(c, "closeReadEnd")
    /\ UNCHANGED <<inheritable, input, result, stdin, stdout, sawEnd, toPrint, printed>>

\* gpg cannot be started: both branches close the child's ends first.
CreateProcessFails(c) ==
    /\ pc[c] = "create"
    /\ Goto(c, "closeReadEnd")
    /\ UNCHANGED <<callVars, stdin, stdout, gpgVars>>

\* CloseHandle(end); end = nullptr;
CloseEnd(c, from, end, to) ==
    /\ pc[c] = from
    /\ Close(c, {end})
    /\ local' = [local EXCEPT ![c] = @ \ {end}]
    /\ Goto(c, to)
    /\ UNCHANGED <<input, result, stdin, stdout, gpgVars>>

\* if (!created) { close the parent's ends; return }
NotCreated(c) ==
    /\ pc[c] = "created"
    /\ gpg[c] = "none"
    /\ Close(c, {"stdinWrite", "stdoutRead"})
    /\ Goto(c, "returned")
    /\ UNCHANGED <<local, input, result, stdin, stdout, gpgVars>>

Created(c) ==
    /\ pc[c] = "created"
    /\ gpg[c] # "none"
    /\ result' = [result EXCEPT ![c].started = TRUE]
    /\ Goto(c, "write")
    /\ UNCHANGED <<open, local, inheritable, input, stdin, stdout, gpgVars>>

\* WriteFile(stdinWriteHandle) blocks while the pipe is full.
WriteInput(c) ==
    /\ pc[c] = "write"
    /\ input[c] > 0
    /\ EndIsOpen(c, "stdinRead")
    /\ stdin[c] < PipeSize
    /\ input' = [input EXCEPT ![c] = @ - 1]
    /\ stdin' = [stdin EXCEPT ![c] = @ + 1]
    /\ UNCHANGED <<pc, open, local, inheritable, result, stdout, gpgVars>>

\* All is written, or nobody reads any more (the result of WriteFile is not
\* looked at): close the input.
InputWritten(c) ==
    /\ input[c] = 0 \/ ~EndIsOpen(c, "stdinRead")
    /\ CloseEnd(c, "write", "stdinWrite", "drain")

\* ReadFile returned data: append it to the output.
ReadOutput(c) ==
    /\ pc[c] = "drain"
    /\ stdout[c] > 0
    /\ \E n \in 1 .. stdout[c] :
           /\ stdout' = [stdout EXCEPT ![c] = @ - n]
           /\ result' = [result EXCEPT ![c].output = @ + n]
    /\ UNCHANGED <<pc, open, local, inheritable, input, stdin, gpgVars>>

\* Mutant: the loop stops at the first moment the pipe is empty.
DrainedWhenEmpty(c) ==
    /\ stdout[c] = 0
    /\ CloseEnd(c, "drain", "stdoutRead", "wait")

\* ReadFile fails once the pipe is empty and every copy of its write end is closed.
Drained(c) ==
    /\ stdout[c] = 0
    /\ ~EndIsOpen(c, "stdoutWrite")
    /\ CloseEnd(c, "drain", "stdoutRead", "wait")

\* Mutant: the exit code is asked for without waiting.
NoWait(c) ==
    /\ pc[c] = "wait"
    /\ result' = [result EXCEPT ![c].exitCode = gpg[c]]
    /\ Close(c, {"process"})
    /\ Goto(c, "returned")
    /\ UNCHANGED <<local, input, stdin, stdout, gpgVars>>

\* WaitForSingleObject(INFINITE), GetExitCodeProcess, and the process handles closed.
Wait(c) ==
    /\ pc[c] = "wait"
    /\ gpg[c] # "running"
    /\ result' = [result EXCEPT ![c].exitCode = gpg[c]]
    /\ Close(c, {"process"})
    /\ Goto(c, "returned")
    /\ UNCHANGED <<local, input, stdin, stdout, gpgVars>>

\* The places where an allocation may throw.
MayThrow(c) == pc[c] \in {"create", "drain"}

\* catch (...): close what the variables say is open; the call did not start.
Catch(c) ==
    /\ MayThrow(c)
    /\ Close(c, local[c])
    /\ result' = [result EXCEPT ![c].started = FALSE]
    /\ Goto(c, "returned")
    /\ UNCHANGED <<local, input, stdin, stdout, gpgVars>>

-----------------------------------------------------------------------------
(* The child process *)

GpgReads(c) ==
    /\ gpg[c] = "running"
    /\ doing[c] = "read"
    /\ stdin[c] > 0
    /\ stdin' = [stdin EXCEPT ![c] = @ - 1]
    /\ NextOperation(c, FALSE, toPrint[c])
    /\ UNCHANGED <<pc, callVars, stdout, gpg, inherited, sawEnd, toPrint, printed>>

\* The pipe is empty and every copy of its write end is closed: end of input.
GpgMeetsEnd(c) ==
    /\ gpg[c] = "running"
    /\ doing[c] = "read"
    /\ stdin[c] = 0
    /\ ~EndIsOpen(c, "stdinWrite")
    /\ sawEnd' = [sawEnd EXCEPT ![c] = TRUE]
    /\ NextOperation(c, TRUE, toPrint[c])
    /\ UNCHANGED <<pc, callVars, stdin, stdout, gpg, inherited, toPrint, printed>>

\* Printing blocks while the pipe is full.
GpgPrints(c) ==
    /\ gpg[c] = "running"
    /\ doing[c] = "print"
    /\ EndIsOpen(c, "stdoutRead")
    /\ stdout[c] < PipeSize
    /\ stdout' = [stdout EXCEPT ![c] = @ + 1]
    /\ toPrint' = [toPrint EXCEPT ![c] = @ - 1]
    /\ printed' = [printed EXCEPT ![c] = @ + 1]
    /\ NextOperation(c, sawEnd[c], toPrint[c] - 1)
    /\ UNCHANGED <<pc, callVars, stdin, gpg, inherited, sawEnd>>

\* An exit first releases every handle the process inherited ...
Exit(c, code) ==
    /\ inherited' = [inherited EXCEPT ![c] = {}]
    /\ doing' = [doing EXCEPT ![c] = code]
    /\ UNCHANGED <<pc, callVars, stdin, stdout, gpg, sawEnd, toPrint, printed>>

\* ... and signals the process object, with its exit code, later.
GpgEnds(c) ==
    /\ gpg[c] = "running"
    /\ doing[c] \in {"done", "failed"}
    /\ gpg' = [gpg EXCEPT ![c] = doing[c]]
    /\ UNCHANGED <<pc, callVars, stdin, stdout, inherited, doing, sawEnd, toPrint, printed>>

GpgExits(c) ==
    /\ gpg[c] = "running"
    /\ doing[c] = "exit"
    /\ Exit(c, "done")

\* Printing to a pipe nobody reads any more ends the process.
GpgBreaksPipe(c) ==
    /\ gpg[c] = "running"
    /\ doing[c] = "print"
    /\ ~EndIsOpen(c, "stdoutRead")
    /\ Exit(c, "failed")

\* An error, a crash or a kill, whatever it was doing.
GpgFails(c) ==
    /\ gpg[c] = "running"
    /\ doing[c] \in {"read", "print", "exit"}
    /\ Exit(c, "failed")

-----------------------------------------------------------------------------
RunGpgProcess(c) ==
    \/ ClearInherit(c, "keepIn", "stdinWrite", "pipeOut")
    \/ CreatePipe(c, "pipeOut", StdoutEnds, "keepOut")
    \/ ClearInherit(c, "keepOut", "stdoutRead", "create")
    \/ CreateProcess(c)
    \/ CloseEnd(c, "closeReadEnd", "stdinRead", "closeWriteEnd")
    \/ CloseEnd(c, "closeWriteEnd", "stdoutWrite", "created")
    \/ NotCreated(c)
    \/ Created(c)
    \/ WriteInput(c)
    \/ InputWritten(c)
    \/ ReadOutput(c)
    \/ Drained(c)
    \/ Wait(c)

Failure(c) == Fail(c) \/ CreateProcessFails(c) \/ Catch(c)

Gpg(c) ==
    \/ GpgReads(c)
    \/ GpgMeetsEnd(c)
    \/ GpgPrints(c)
    \/ GpgExits(c)
    \/ GpgBreaksPipe(c)
    \/ GpgEnds(c)

Next ==
    \E c \in Calls :
        \/ CreatePipe(c, "idle", StdinEnds, "keepIn")
        \/ RunGpgProcess(c)
        \/ Failure(c)
        \/ Gpg(c)
        \/ GpgFails(c)

\* The threads and the children are scheduled; nothing has to be called, and
\* nothing has to fail.
Fairness == \A c \in Calls : WF_vars(RunGpgProcess(c)) /\ WF_vars(Gpg(c))

Spec == Init /\ [][Next]_vars /\ Fairness

-----------------------------------------------------------------------------
(* Properties *)

\* A call that returned has no handle open, whichever of its ways out it took;
\* and wherever an exception may be thrown the variables name exactly the open
\* handles, so that catch (...) neither leaks one nor closes one twice, which
\* would close whatever another thread got under the same value since.
HandlesReleased ==
    \A c \in Calls :
        /\ pc[c] = "returned" => open[c] = {}
        /\ MayThrow(c) => open[c] = local[c]

\* A result with started set carries all that gpg printed, in spite of the
\* other children that hold its pipe, and the exit code of a process that ended;
\* a gpg that ended normally read all of stdinData before the end of its input.
ResultIsComplete ==
    \A c \in Calls :
        pc[c] = "returned" /\ result[c].started =>
            /\ gpg[c] \in {"done", "failed"}
            /\ result[c].exitCode = gpg[c]
            /\ result[c].output = printed[c]
            /\ gpg[c] = "done" => stdin[c] = 0 /\ input[c] = 0

\* Every call returns, although it writes all the input before it reads any
\* output, and although another call's child may hold the pipe end whose
\* closing it or its child waits for.
GpgCallReturns == \A c \in Calls : pc[c] = "keepIn" ~> pc[c] = "returned"
=============================================================================
