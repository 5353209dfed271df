---------------------------- MODULE OutputFile ----------------------------
(***************************************************************************)
(* What the file calls of CPgpEngine promise of the files their caller     *)
(* named, with nothing said of how: no temporary file, no chunk, no        *)
(* framing.                                                                *)
(*                                                                         *)
(* A job has one output and one right result (or none, when its input is   *)
(* not what the call expects). A job that writes in place shows growing    *)
(* prefixes of the result. A job that replaces its output shows the old    *)
(* file, nothing, or the whole result, and touches the old file only if    *)
(* there is a right result. Only a job whose output is its result may      *)
(* report success.                                                         *)
(***************************************************************************)
EXTENDS SequencesExt

CONSTANTS Paths, Absent,
          Calls,          \* the file calls
          Replacing,      \* those that replace their output instead of writing it in place
          Result(_, _)    \* the right result of a call for an input, or Absent

VARIABLES files,  \* what each of the caller's paths holds
          job     \* the running call, or how the last one ended

NoJob == [state |-> "none", output |-> Absent, result |-> Absent, replaces |-> FALSE]

Start(call, input, output) ==
    /\ job.state # "busy"
    /\ job' = [state |-> "busy", output |-> output, result |-> Result(call, files[input]),
               replaces |-> call \in Replacing]
    /\ UNCHANGED files

\* The output shows a part of the result, or all of it.
Show ==
    /\ job.state = "busy"
    /\ job.result # Absent
    /\ \E shown \in Prefixes(job.result) :
          /\ job.replaces => shown = job.result
          /\ files' = [files EXCEPT ![job.output] = shown]
    /\ UNCHANGED job

Withdraw ==
    /\ job.state = "busy"
    /\ job.replaces => job.result # Absent
    /\ files' = [files EXCEPT ![job.output] = Absent]
    /\ UNCHANGED job

\* Success is reported: the output already is the result, or becomes it now.
Succeed ==
    /\ job.state = "busy"
    /\ job.result # Absent
    /\ job.replaces \/ files[job.output] = job.result
    /\ files' = [files EXCEPT ![job.output] = job.result]
    /\ job' = [job EXCEPT !.state = "succeeded"]

\* An error is returned, or the process dies; a job that writes in place may take
\* back what it wrote.
Fail ==
    /\ job.state = "busy"
    /\ \/ UNCHANGED files
       \/ ~job.replaces /\ files' = [files EXCEPT ![job.output] = Absent]
    /\ job' = [job EXCEPT !.state = "failed"]

OutputNext ==
    \/ \E call \in Calls, input, output \in Paths : Start(call, input, output)
    \/ Show
    \/ Withdraw
    \/ Succeed
    \/ Fail

OutputSpec == job = NoJob /\ [][OutputNext]_<<files, job>>
=============================================================================
