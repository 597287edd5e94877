------------------------------ MODULE Execution ------------------------------
(***************************************************************************)
(* One workflow execution, from Runtime::execute to the terminal record,   *)
(* with checkpoints after the top-level tasks, cancellation, timeouts,     *)
(* store failures, crashes and Runtime::resume.                            *)
(*                                                                         *)
(* A RUNNER is one call of engine::execute_with on this execution id: the  *)
(* first one is spawned by Runtime::execute and driven by run_with_cancel, *)
(* every other one is a call of Runtime::resume.  Each step of a runner    *)
(* lies between two await points of the engine, which is where another     *)
(* runner, a crash or the drop of the future can come in.                  *)
(***************************************************************************)
EXTENDS Workflow

CONSTANTS
    RunTimeout,     \* whether the workflow declares a timeout
    PipesMayFail,   \* whether the workflow's input/output pipelines may fail
    Runner,         \* engine runs on this execution id
    First,          \* the run spawned by Runtime::execute
    Registered,     \* resume calls that find the workflow registered
    Exclusive,      \* whether callers resume only when no run is active
    MaxSteps,       \* bound: no goto is taken by a longer trace
    MaxFailures,    \* bound: store operations that fail
    MaxCrashes      \* bound: runs lost with their process or their caller

ASSUME SwitchAssumption == /\ RunTimeout \in BOOLEAN
                           /\ PipesMayFail \in BOOLEAN
                           /\ Exclusive \in BOOLEAN
\* A task without a timeout of its own runs under the workflow's.
ASSUME TimeoutAssumption == RunTimeout => Timed = Task
ASSUME RunnerAssumption == First \in Runner
ASSUME BoundAssumption  == /\ MaxSteps \in Nat
                           /\ MaxFailures \in Nat
                           /\ MaxCrashes \in Nat

VARIABLES
    record,     \* the ExecutionRecord in the store
    events,     \* how often each event type is in the execution's event log
    run,        \* the local state of every runner
    cancel,     \* the Cancellation shared by the handle and the first run
    published,  \* `workflow.completed` lifecycle events published so far
    failures,   \* store operations that failed so far
    crashes     \* runs lost so far

vars == <<record, events, run, cancel, published, failures, crashes>>

-----------------------------------------------------------------------------
(* Phases, outcomes and the record.                                        *)

Phases   == Terminal \cup {"none", "running"}

RecordAs(phase, next, input, context) ==
    [phase |-> phase, next |-> next, input |-> input, context |-> context]
Record   == [phase : Phases, next : Nat, input : Trace, context : Trace]

Outcomes == {"none", "completed", "faulted", "cancelled", "timeout", "rejected"}

\* Mutant: a phase for cancellations only.
PhaseOfFault(outcome) == IF outcome = "cancelled" THEN outcome ELSE "faulted"

\* The phase persist_terminal writes for an outcome: only an error of kind
\* Cancelled gives Cancelled, so a timeout is a fault.
PhaseOf(outcome) ==
    IF outcome \in {"completed", "cancelled"} THEN outcome ELSE "faulted"

EventTypes == {"workflow.started", "workflow.completed",
               "workflow.cancelled", "workflow.faulted"}
\* Mutant: no event type for cancellations.
EventOfFault(phase) ==
    IF phase = "completed" THEN "workflow.completed" ELSE "workflow.faulted"

EventOf(phase) ==
    CASE phase = "completed" -> "workflow.completed"
      [] phase = "cancelled" -> "workflow.cancelled"
      [] OTHER               -> "workflow.faulted"

Pcs == {"idle", "spawned", "input", "create", "startEvent", "loop", "body",
        "checkpoint", "output", "announce", "terminal", "terminalEvent",
        "returned", "crashed"}

RunState == [pc : Pcs, next : Nat, input : Trace, context : Trace,
             ended : BOOLEAN, outcome : Outcomes, base : Nat]

\* The local state of a run that (re)starts from a position; base is the
\* length of the trace that other runs left it.
RunFrom(pc, outcome, next, input, context) ==
    [pc |-> pc, next |-> next, input |-> input, context |-> context,
     ended |-> FALSE, outcome |-> outcome, base |-> Len(input)]

\* ... and of one that has not begun, or is over.
Rest(pc, outcome) == RunFrom(pc, outcome, 0, <<>>, <<>>)

Active(r) == run[r].pc \notin {"idle", "returned", "crashed"}
Over(r)   == run[r].pc \in {"returned", "crashed"}

-----------------------------------------------------------------------------
Init ==
    /\ record = RecordAs("none", 0, <<>>, <<>>)
    /\ events = [e \in EventTypes |-> 0]
    /\ run = [r \in Runner |->
                Rest(IF r = First THEN "spawned" ELSE "idle", "none")]
    /\ cancel = [flag |-> FALSE, notified |-> FALSE]
    /\ published = 0
    /\ failures = 0
    /\ crashes = 0

(* Moving a runner, and the two kinds of store operation.  A failed one    *)
(* is logged and otherwise ignored.                                        *)

Goes(r, from, to) ==
    /\ run[r].pc = from
    /\ run' = [run EXCEPT ![r].pc = to]

\* A runner leaves for persist_terminal with an outcome ...
Leaves(r, to, outcome) ==
    run' = [run EXCEPT ![r].pc = to, ![r].outcome = outcome]

\* ... or is over, and its local state with it.
Ends(r, how, outcome) ==
    run' = [run EXCEPT ![r] = Rest(how, outcome)]

StoreFails == failures < MaxFailures /\ failures' = failures + 1

\* ExecutionStore::create and ::update: an upsert, whatever is stored.
Save(rec) ==
    \/ record' = rec /\ UNCHANGED failures
    \/ StoreFails /\ UNCHANGED record

\* ExecutionStore::append_event.
AppendEvent(e) ==
    \/ events' = [events EXCEPT ![e] = @ + 1] /\ UNCHANGED failures
    \/ StoreFails /\ UNCHANGED events

-----------------------------------------------------------------------------
(* engine::execute_with up to the top-level scope.                         *)

\* run_with_cancel: from here on a cancellation wakes its select.
RunWithCancel(r) ==
    /\ Goes(r, "spawned", "input")
    /\ UNCHANGED <<record, events, cancel, published, failures, crashes>>

\* apply_workflow_input: its error is returned before anything is persisted.
ApplyInput(r) ==
    /\ run[r].pc = "input"
    /\ \/ Goes(r, "input", "create")
       \/ PipesMayFail /\ Ends(r, "returned", "faulted")
    /\ UNCHANGED <<record, events, cancel, published, failures, crashes>>

\* persist_started, first the record ...
PersistStarted(r) ==
    /\ Goes(r, "create", "startEvent")
    /\ Save(RecordAs("running", 0, <<>>, <<>>))
    /\ UNCHANGED <<events, cancel, published, crashes>>

\* ... then the event.
AppendStarted(r) ==
    /\ Goes(r, "startEvent", "loop")
    /\ AppendEvent("workflow.started")
    /\ UNCHANGED <<record, cancel, published, crashes>>

-----------------------------------------------------------------------------
(* exec_scope on the top-level tasks.                                      *)

\* resume hands the engine a Cancellation of its own that nobody can reach.
Cancelled(r) == r = First /\ cancel.flag

ObserveCancel(r) ==
    /\ run[r].pc = "loop"
    /\ Cancelled(r)
    /\ Leaves(r, "terminal", "cancelled")
    /\ UNCHANGED <<record, events, cancel, published, failures, crashes>>

LeaveScope(r) ==
    /\ ~ Cancelled(r)
    /\ run[r].ended \/ run[r].next >= NTasks
    /\ Goes(r, "loop", "output")
    /\ UNCHANGED <<record, events, cancel, published, failures, crashes>>

\* Mutant: the `ended` flag is not looked at.
StartTaskAfterEnd(r) ==
    /\ ~ Cancelled(r)
    /\ run[r].next < NTasks
    /\ Goes(r, "loop", "body")
    /\ UNCHANGED <<record, events, cancel, published, failures, crashes>>

StartTask(r) ==
    /\ ~ Cancelled(r)
    /\ ~ run[r].ended
    /\ run[r].next < NTasks
    /\ Goes(r, "loop", "body")
    /\ UNCHANGED <<record, events, cancel, published, failures, crashes>>

\* The runner's state once the step s has handed its output on.
Stepped(r, s) ==
    [run[r] EXCEPT !.input   = Append(@, s),
                   !.context = IF s.exported THEN Append(run[r].input, s) ELSE @,
                   !.ended   = @ \/ s.ended]

\* exec_task succeeds with step s; the scope then acts on the directive.
Moves(r, s, pc, next) ==
    run' = [run EXCEPT ![r] = [Stepped(r, s) EXCEPT !.pc = pc, !.next = next]]

FinishTask(r) ==
    /\ run[r].pc = "body"
    /\ \E s \in StepsOf(run[r].next), d \in Flow[run[r].next] :
         \/ /\ d.kind = "continue"
            /\ Moves(r, s, "checkpoint", run[r].next + 1)
         \/ /\ d.kind = "goto" /\ d.to \in Task
            /\ Len(run[r].input) < MaxSteps
            /\ Moves(r, s, "checkpoint", d.to)
         \/ /\ d.kind = "exit"
            /\ Moves(r, s, "output", run[r].next)
         \/ /\ d.kind = "end"
            /\ Moves(r, [s EXCEPT !.ended = TRUE], "output", run[r].next)
    /\ UNCHANGED <<record, events, cancel, published, failures, crashes>>

\* exec_task fails: the error leaves the scope at once.  Tasks inside this
\* one may already have set the context.
Breaks(r, outcome) ==
    /\ run[r].pc = "body"
    /\ \E s \in StepsOf(run[r].next), dirty \in BOOLEAN :
         run' = [run EXCEPT ![r].pc = "terminal", ![r].outcome = outcome,
                            ![r].context = IF dirty /\ s.exported
                                           THEN Append(run[r].input, s) ELSE @]
    /\ UNCHANGED <<record, events, cancel, published, failures, crashes>>

FaultTask(r) == run[r].next \in Faulty /\ Breaks(r, "faulted")

\* The directive names no task of the scope: a semantic error.
FaultGoto(r) ==
    /\ run[r].pc = "body"
    /\ \E d \in Flow[run[r].next] : d.kind = "goto" /\ d.to \notin Task
    /\ \E s \in StepsOf(run[r].next) :
         run' = [run EXCEPT ![r] = [Stepped(r, s) EXCEPT !.pc = "terminal",
                                                        !.outcome = "faulted"]]
    /\ UNCHANGED <<record, events, cancel, published, failures, crashes>>

\* The body observes the flag or the notification (wait, listen, for, try,
\* an inner scope) and returns the cancellation as its error.
CancelInTask(r) == Cancelled(r) /\ Breaks(r, "cancelled")

\* tokio::time::timeout drops the exec_task future.
TaskTimeout(r) == run[r].next \in Timed /\ Breaks(r, "timeout")

\* Mutants: the checkpoint points one task too far, leaves the context out, or
\* writes back what was there.
CheckpointSkips(r) ==
    /\ Goes(r, "checkpoint", "loop")
    /\ Save(RecordAs("running", run[r].next + 1, run[r].input, run[r].context))
    /\ UNCHANGED <<events, cancel, published, crashes>>

CheckpointBare(r) ==
    /\ Goes(r, "checkpoint", "loop")
    /\ Save(RecordAs("running", run[r].next, run[r].input, <<>>))
    /\ UNCHANGED <<events, cancel, published, crashes>>

CheckpointStale(r) ==
    /\ Goes(r, "checkpoint", "loop")
    /\ Save(record)
    /\ UNCHANGED <<events, cancel, published, crashes>>

\* persist_checkpoint: pointer and context in one update.
Checkpoint(r) ==
    /\ Goes(r, "checkpoint", "loop")
    /\ Save(RecordAs("running", run[r].next, run[r].input, run[r].context))
    /\ UNCHANGED <<events, cancel, published, crashes>>

-----------------------------------------------------------------------------
(* The end of execute_with.                                                *)

\* apply_workflow_output.
ApplyOutput(r) ==
    /\ run[r].pc = "output"
    /\ \/ Leaves(r, "announce", "completed")
       \/ PipesMayFail /\ Leaves(r, "terminal", "faulted")
    /\ UNCHANGED <<record, events, cancel, published, failures, crashes>>

\* The `workflow.completed` lifecycle event goes out before the record does;
\* there is none for a fault or a cancellation.
Announce(r) ==
    /\ Goes(r, "announce", "terminal")
    /\ published' = published + 1
    /\ UNCHANGED <<record, events, cancel, failures, crashes>>

\* Mutant: the last record keeps the phase and the pointer.
PersistTerminalOpen(r) ==
    /\ Goes(r, "terminal", "terminalEvent")
    /\ Save(RecordAs("running", run[r].next, run[r].input, run[r].context))
    /\ UNCHANGED <<events, cancel, published, crashes>>

\* persist_terminal, first the record (its pointer is null) ...
PersistTerminal(r) ==
    /\ Goes(r, "terminal", "terminalEvent")
    /\ Save(RecordAs(PhaseOf(run[r].outcome), 0, <<>>, run[r].context))
    /\ UNCHANGED <<events, cancel, published, crashes>>

\* ... then the event; the outcome goes to the caller.
AppendTerminal(r) ==
    /\ run[r].pc = "terminalEvent"
    /\ Ends(r, "returned", run[r].outcome)
    /\ AppendEvent(EventOf(PhaseOf(run[r].outcome)))
    /\ UNCHANGED <<record, cancel, published, crashes>>

-----------------------------------------------------------------------------
(* The caller's side: ExecutionHandle, run_with_cancel, Runtime::resume.   *)

\* Mutant: the flag is set and nobody is woken.
CancelUnnotified ==
    /\ Active(First)
    /\ cancel' = [flag |-> TRUE, notified |-> FALSE]
    /\ UNCHANGED <<record, events, run, published, failures, crashes>>

\* ExecutionHandle::cancel; notify_waiters reaches only a select that exists.
Cancel ==
    /\ Active(First)
    /\ cancel' = [flag |-> TRUE, notified |-> run[First].pc # "spawned"]
    /\ UNCHANGED <<record, events, run, published, failures, crashes>>

\* The select picks the notification: the engine future is dropped.
DropCancelled(r) ==
    /\ r = First /\ Active(r)
    /\ cancel.notified
    /\ Ends(r, "returned", "cancelled")
    /\ UNCHANGED <<record, events, cancel, published, failures, crashes>>

\* The timeout around the select fires: the engine future is dropped.
DropTimedOut(r) ==
    /\ r = First /\ Active(r) /\ run[r].pc # "spawned"
    /\ RunTimeout
    /\ Ends(r, "returned", "timeout")
    /\ UNCHANGED <<record, events, cancel, published, failures, crashes>>

\* The process dies, or the caller of resume drops its future.
Crash(r) ==
    /\ Active(r)
    /\ crashes < MaxCrashes
    /\ crashes' = crashes + 1
    /\ Ends(r, "crashed", "none")
    /\ UNCHANGED <<record, events, cancel, published, failures>>

\* When a caller may ask for a resume.
MayResume(r) ==
    /\ run[r].pc = "idle"
    /\ Exclusive => \A q \in Runner : ~ Active(q)

\* Mutant: the first task again.
ResumeAtStart(r) ==
    /\ MayResume(r)
    /\ r \in Registered
    /\ record.phase = "running"
    /\ run' = [run EXCEPT ![r] = RunFrom("loop", "none", 0, <<>>, record.context)]
    /\ UNCHANGED <<record, events, cancel, published, failures, crashes>>

Resume(r) ==
    /\ MayResume(r)
    /\ r \in Registered
    /\ record.phase = "running"
    /\ run' = [run EXCEPT ![r] =
                  RunFrom("loop", "none", record.next, record.input, record.context)]
    /\ UNCHANGED <<record, events, cancel, published, failures, crashes>>

\* The load fails, or finds nothing, a terminal record, or a workflow that
\* is not registered.
RejectResume(r) ==
    /\ MayResume(r)
    /\ \/ StoreFails
       \/ /\ record.phase # "running" \/ r \notin Registered
          /\ UNCHANGED failures
    /\ Ends(r, "returned", "rejected")
    /\ UNCHANGED <<record, events, cancel, published, crashes>>

-----------------------------------------------------------------------------
\* The steps of the engine future other than the end of a task body.
EngineStep(r) ==
    \/ ApplyInput(r) \/ PersistStarted(r) \/ AppendStarted(r)
    \/ ObserveCancel(r) \/ LeaveScope(r) \/ StartTask(r) \/ Checkpoint(r)
    \/ ApplyOutput(r) \/ Announce(r) \/ PersistTerminal(r) \/ AppendTerminal(r)

BodyStep(r) ==
    \/ FinishTask(r) \/ FaultTask(r) \/ FaultGoto(r)
    \/ CancelInTask(r) \/ TaskTimeout(r)

CallerStep(r) ==
    \/ RunWithCancel(r) \/ DropCancelled(r) \/ DropTimedOut(r)
    \/ Crash(r) \/ Resume(r) \/ RejectResume(r)

\* Every run is over: nothing is left to happen.
Done == (\A r \in Runner : Over(r)) /\ UNCHANGED vars

Next ==
    \/ \E r \in Runner : EngineStep(r) \/ BodyStep(r) \/ CallerStep(r)
    \/ Cancel
    \/ Done

Spec == Init /\ [][Next]_vars

-----------------------------------------------------------------------------
(* Safety.                                                                 *)

TypeOK ==
    /\ record \in Record
    /\ events \in [EventTypes -> Nat]
    /\ run \in [Runner -> RunState]
    /\ cancel \in [flag : BOOLEAN, notified : BOOLEAN]
    /\ published \in Nat
    /\ failures \in 0 .. MaxFailures
    /\ crashes \in 0 .. MaxCrashes

\* Whatever crashes, resumes and lost writes came before, and however many
\* runs write the record, its pointer is a position the workflow reaches with
\* the stored input: resume never skips a task and never feeds a task the
\* output of one that does not precede it.
CheckpointOnPath ==
    record.phase = "running" => PathTo(record.input, record.next)

\* The stored context belongs to the stored position: a resumed task sees in
\* $context what it would have seen without the interruption.
CheckpointContext ==
    record.phase = "running" => LastExport(record.context, record.input)

\* A run in front of a task, in it, or about to save what it did.
Driving(r) == run[r].pc \in {"loop", "body", "checkpoint"}

\* A run is ahead of the checkpoint by the one task in flight and by one more
\* for every store failure: what a crash here makes resume do again.
BoundedRework ==
    \A r \in Runner : Driving(r) =>
        Len(run[r].input) <=
            Len(record.input) + failures + (IF run[r].pc = "checkpoint" THEN 1 ELSE 0)

\* Within one run no task follows an `end`, be it in an inner scope.  This is
\* silent about the tasks in front of a resume (base is their trace), for which
\* see EndCompletes.
EndHonoured ==
    \A r \in Runner : \A i \in 1 .. (Len(run[r].input) - 1) :
        run[r].input[i].ended => i <= run[r].base

\* `end` completes the whole workflow (docs/execution-model.md), also when it is
\* met in an inner scope and its execution is resumed: no task follows it.  The
\* flag `ended` is not in the checkpoint of the task that met it, so one may.
EndCompletes ==
    \A r \in Runner : \A i \in 1 .. Len(run[r].input) - 1 : ~ run[r].input[i].ended

\* The first run's future was dropped by its select or its timeout.
Dropped == run[First].pc = "returned" /\ run[First].outcome \in {"cancelled", "timeout"}

\* What is told of the end: one terminal event in the log, and one more for every
\* time the store lost the terminal record and left the execution resumable; with
\* a store that loses nothing it stands for the record; and `workflow.completed`,
\* published before that record is stored, is repeated only when a crash, a drop
\* or a lost write came in between (persist_terminal and the event before it).
TerminalEvents ==
    /\ events["workflow.completed"] + events["workflow.cancelled"]
          + events["workflow.faulted"] <= 1 + failures
    /\ failures = 0 =>
          /\ events["workflow.completed"] > 0 => record.phase = "completed"
          /\ events["workflow.cancelled"] > 0 => record.phase = "cancelled"
          /\ events["workflow.faulted"] > 0 => record.phase = "faulted"
    /\ published <= 1 + crashes + failures + (IF Dropped THEN 1 ELSE 0)

\* A caller that is told Ok finds the completed record in a working store.
OkIsStored ==
    \A r \in Runner : run[r].pc = "returned" /\ run[r].outcome = "completed"
                        /\ failures = 0 => record.phase = "completed"

-----------------------------------------------------------------------------
(* Action properties, refinement and liveness.                                         *)

\* A terminal record is never written again.
TerminalIsFinal ==
    [][record.phase \in Terminal => UNCHANGED record]_record

\* A task starts only from the stored position, or past it by the writes
\* that failed; what the checkpoint covers is never executed again.
NoWorkBehindCheckpoint ==
    [][\A r \in Runner : run[r].pc = "loop" /\ run'[r].pc = "body" =>
          record.phase \in {"none", "running"}
          /\ IsPrefix(record.input, run[r].input)]_vars

Durable == INSTANCE DurableExecution
             WITH phase <- record.phase, next <- record.next,
                  input <- record.input, context <- record.context

\* The store shows a durable execution: progress along the workflow that is
\* never taken back, then one terminal phase.
RefinesDurable == Durable!Spec

\* The places, from 1, a top-level task may send the walk to, and those it may leave from.
TopTo == [n \in 1 .. NTasks |-> {m \in 1 .. NTasks + 1 : Leads(n - 1, m - 1)}]
TopWith(kind) == {n \in 1 .. NTasks : \E d \in Flow[n - 1] : d.kind = kind}

OutcomeOf(state) ==
    CASE state.outcome = "none"    -> "ok"
      [] state.outcome = "faulted" -> "fault"
      [] OTHER                     -> state.outcome

TopLevel(r) == INSTANCE Walk
    WITH Length <- NTasks, To <- TopTo, ExitsAt <- TopWith("exit"), EndsAt <- TopWith("end"),
         place <- IF Driving(r) THEN run[r].next + 1 ELSE 0,
         phase <- IF ~ Driving(r) THEN "over" ELSE IF run[r].pc = "body" THEN "busy" ELSE "ready",
         outcome <- IF Driving(r) THEN "none" ELSE OutcomeOf(run[r]),
         ended <- run[r].ended, cancelled <- Cancelled(r)

\* Wherever a resume put it, a run goes through the top-level scope as `Walk`
\* says, which is what `Scopes` shows of exec_scope with all that is nested in
\* its tasks: a step of a body here stands for all of a task there.  A future
\* that is dropped walks no further.
WalksTheScope ==
    [][\A r \in Runner : Driving(r) /\ ~ Over(r)' =>
          TopLevel(r)!Next \/ UNCHANGED TopLevel(r)!vars]_vars

Fairness ==
    \A r \in Runner : /\ WF_vars(EngineStep(r))
                      /\ WF_vars(RunWithCancel(r))
                      /\ WF_vars(DropCancelled(r))
                      /\ WF_vars(TaskTimeout(r))

\* A task body may run forever: only a timeout bounds it.
FairSpec == Spec /\ Fairness

\* A cancelled run returns to its caller, whatever its task is blocked on and
\* wherever the cancellation met it.
CancelReturns == cancel.flag ~> Over(First)

\* Callers that resume an interrupted execution as long as they can.
Resumed == \A r \in Runner : WF_vars(Resume(r))
ResumeSpec == FairSpec /\ Resumed

\* Every run on the execution was lost before its end: nobody is left to resume it.
GivenUp == \A r \in Runner : run[r].pc = "crashed" \/ (r = First /\ Dropped)

\* Every task under a timeout and a store that loses nothing: an execution that was
\* started ends in a terminal record that stays, unless each of the runs that its
\* callers spend on it is interrupted.
ReachesTerminal ==
    record.phase = "running" ~> [](record.phase \in Terminal \/ GivenUp \/ failures > 0)

=============================================================================
