----------------------------- MODULE Processes ------------------------------
(* The `run` task's processes: TokioProcessRunner feeds a child its standard *)
(* input and collects its output through pipes that hold a limited amount.   *)
EXTENDS Naturals

CONSTANTS
    Pipe,      \* what a pipe holds
    Amounts,   \* the amounts of input and output of a program
    Allowed,   \* the kinds of process that are enabled: "script", "container"
    Known      \* the script languages that have an interpreter

\* Assumed of the constants by the theorems.
Sizes == Pipe \in Nat \ {0} /\ Amounts \subseteq Nat

\* What is run: a shell command, a script or a container; `input`: its standard
\* input (none is a null device).  The program reads `before` of it, makes its
\* output, and then reads the rest unless it `quits`.  Its output and its errors
\* have a pipe each, and both fill while nobody reads: `makes` is the greater.
Runs == [kind : {"shell", "script", "container"}, language : Known \cup {"other"}, piped : BOOLEAN,
         input : Amounts, before : Amounts, makes : Amounts, quits : BOOLEAN, awaits : BOOLEAN, timed : BOOLEAN]

VARIABLES
    job,      \* what is run
    parent,   \* "start", "feed", "collect" or "end"
    child,    \* "none", "runs", "exited" or "killed"
    stdin,    \* its pipe: how much is in it, and whether the parent has closed it
    fed,      \* how much of the input the parent has written
    read,     \* how much of it the child has read
    made,     \* how much output the child has written
    stdout,   \* how much of that is in the pipe
    taken,    \* how much of it the parent has read
    outcome   \* "none", "input", "output", "semantic", "policy", "communication" or "timeout"

vars == <<job, parent, child, stdin, fed, read, made, stdout, taken, outcome>>
work == <<fed, read, made, stdout, taken>>

Init ==
    /\ job \in Runs
    /\ parent = "start" /\ child = "none" /\ outcome = "none"
    /\ stdin = [holds |-> 0, open |-> job.piped]
    /\ fed = 0 /\ read = 0 /\ made = 0 /\ stdout = 0 /\ taken = 0

Finish(o) == parent' = "end" /\ outcome' = o

\* A run that nobody waits for is not started at all: its output is its input.
NotAwaited ==
    /\ parent = "start" /\ ~job.awaits
    /\ Finish("input")
    /\ UNCHANGED <<job, child, stdin>> /\ UNCHANGED work

\* run_shell, run_script and run_container: what is disabled, or has no interpreter.
Gate == IF job.kind = "container" THEN "container" ELSE "script"
script_interpreter(language) == language \in Known

Refuse ==
    /\ parent = "start" /\ job.awaits
    /\ \/ Gate \notin Allowed /\ Finish("policy")
       \/ Gate \in Allowed /\ job.kind = "script" /\ ~script_interpreter(job.language) /\ Finish("semantic")
    /\ UNCHANGED <<job, child, stdin>> /\ UNCHANGED work

Spawn ==
    /\ parent = "start" /\ job.awaits /\ Gate \in Allowed
    /\ job.kind = "script" => script_interpreter(job.language)
    /\ \/ child' = "runs" /\ parent' = (IF job.piped THEN "feed" ELSE "collect") /\ UNCHANGED outcome
       \/ Finish("communication") /\ UNCHANGED child
    /\ UNCHANGED <<job, stdin>> /\ UNCHANGED work

\* write_all: all of the input, as the pipe has room.
Feed ==
    /\ parent = "feed" /\ fed < job.input /\ stdin.holds < Pipe /\ child = "runs"
    /\ fed' = fed + 1 /\ stdin' = [stdin EXCEPT !.holds = @ + 1]
    /\ UNCHANGED <<job, parent, child, read, made, stdout, taken, outcome>>

\* shutdown: behind the input, or behind the error of a pipe that nobody reads.
Close ==
    /\ parent = "feed" /\ (fed = job.input \/ child = "exited")
    /\ parent' = "collect" /\ stdin' = [stdin EXCEPT !.open = FALSE]
    /\ UNCHANGED <<job, child, outcome>> /\ UNCHANGED work

\* wait_with_output: only now the output is read, until the child closes it.
Collect ==
    /\ parent = "collect" /\ stdout > 0
    /\ taken' = taken + 1 /\ stdout' = stdout - 1
    /\ UNCHANGED <<job, parent, child, stdin, fed, read, made, outcome>>

\* Mutant: the child is waited for, its output is not.
ReturnAtExit ==
    /\ parent = "collect" /\ child = "exited"
    /\ Finish("output")
    /\ UNCHANGED <<job, child, stdin>> /\ UNCHANGED work

Return ==
    /\ parent = "collect" /\ stdout = 0 /\ child = "exited"
    /\ Finish("output")
    /\ UNCHANGED <<job, child, stdin>> /\ UNCHANGED work

\* The timeout of the task drops the runner, and kill_on_drop the child with it.
TimeOut ==
    /\ job.timed /\ parent # "end"
    /\ Finish("timeout") /\ stdin' = [stdin EXCEPT !.open = FALSE]
    /\ child' = IF child = "runs" THEN "killed" ELSE child
    /\ UNCHANGED job /\ UNCHANGED work

\* The program.
AtEnd == stdin.holds = 0 /\ ~stdin.open
Reads ==
    /\ child = "runs" /\ stdin.holds > 0 /\ (read < job.before \/ (made = job.makes /\ ~job.quits))
    /\ read' = read + 1 /\ stdin' = [stdin EXCEPT !.holds = @ - 1]
    /\ UNCHANGED <<job, parent, child, fed, made, stdout, taken, outcome>>
Writes ==
    /\ child = "runs" /\ (read >= job.before \/ AtEnd) /\ made < job.makes /\ stdout < Pipe
    /\ made' = made + 1 /\ stdout' = stdout + 1
    /\ UNCHANGED <<job, parent, child, stdin, fed, read, taken, outcome>>
Exits ==
    /\ child = "runs" /\ made = job.makes /\ (AtEnd \/ (job.quits /\ read >= job.before))
    /\ child' = "exited"
    /\ UNCHANGED <<job, parent, stdin, outcome>> /\ UNCHANGED work

Runner  == NotAwaited \/ Refuse \/ Spawn \/ Feed \/ Close \/ Collect \/ Return
Program == Reads \/ Writes \/ Exits
Next    == Runner \/ Program \/ TimeOut

\* The runner is polled, the operating system runs the child, the timer fires.
Fairness == WF_vars(Runner) /\ WF_vars(Program) /\ WF_vars(TimeOut)
Spec == Init /\ [][Next]_vars /\ Fairness

-----------------------------------------------------------------------------
\* More input than the program takes and its pipe holds before it makes more
\* output than the other pipe holds.
Stalls == job.piped /\ job.input > job.before + Pipe /\ job.makes > Pipe

\* The result of a run is all that the program has made before it exited, no
\* child outlives the run, and what was not allowed never had one (the runner's
\* wait_with_output, kill_on_drop and gates).
OutputWhole ==
    /\ outcome = "output" => child = "exited" /\ taken = made /\ made = job.makes /\ ~Stalls
    /\ parent = "end" => child # "runs"
    /\ child # "none" => Gate \in Allowed /\ job.awaits
    /\ read + stdin.holds = fed /\ taken + stdout = made

\* A run returns if it has a timeout, or if the pipes hold the input that the
\* program leaves before it makes its output, or that output: else runner and
\* program wait for each other (run writes all of the input before it reads).
RunReturns == (job.timed \/ ~Stalls) => <>(parent = "end")

=============================================================================
