--------------------------- MODULE ExecutionProofs ---------------------------
(***************************************************************************)
(* Theorems about Execution, for every workflow, number of runs and bound. *)
(***************************************************************************)
EXTENDS Execution, SequenceTheorems, TLAPS

-----------------------------------------------------------------------------
(* Types.                                                                  *)

\* A step handed on keeps the local state of a run well typed.
LEMMA SteppedType ==
    ASSUME TypeOK, NEW r \in Runner, NEW s \in Step
    PROVE  Stepped(r, s) \in RunState
<1>1. run[r] \in RunState
  BY DEF TypeOK
<1>2. Append(run[r].input, s) \in Trace
  BY <1>1 DEF RunState, Trace
<1>3. (run[r].ended \/ s.ended) \in BOOLEAN
  OBVIOUS
<1>4. [run[r] EXCEPT !.input = Append(run[r].input, s)] \in RunState
  BY <1>1, <1>2 DEF RunState
<1>5. (IF s.exported THEN Append(run[r].input, s) ELSE run[r].context) \in Trace
  BY <1>1, <1>2 DEF RunState
<1> DEFINE c == IF s.exported THEN Append(run[r].input, s) ELSE run[r].context
           e == run[r].ended \/ s.ended
<1>6. ASSUME NEW cc \in Trace, NEW ee \in BOOLEAN, NEW ii \in Trace
      PROVE [run[r] EXCEPT !.input = ii, !.context = cc, !.ended = ee] \in RunState
  BY <1>1, <1>6 DEF RunState
<1> QED
  BY <1>2, <1>3, <1>5, <1>6 DEF Stepped

\* RecordAs and RunFrom build what their names say.
LEMMA RecordAsType ==
    ASSUME NEW phase \in Phases, NEW next \in Nat, NEW input \in Trace,
           NEW context \in Trace
    PROVE  RecordAs(phase, next, input, context) \in Record
  BY DEF RecordAs, Record

\* A run that starts from well-typed values is well typed.
LEMMA RunFromType ==
    ASSUME NEW pc \in Pcs, NEW outcome \in Outcomes, NEW next \in Nat,
           NEW input \in Trace, NEW context \in Trace
    PROVE  RunFrom(pc, outcome, next, input, context) \in RunState
<1>1. Len(input) \in Nat
  BY DEF Trace
<1>2. ASSUME NEW b \in BOOLEAN, NEW n \in Nat
      PROVE  [pc |-> pc, next |-> next, input |-> input, context |-> context,
              ended |-> b, outcome |-> outcome, base |-> n] \in RunState
  BY DEF RunState
<1> QED
  BY <1>1, <1>2 DEF RunFrom

\* The empty trace is a trace.
LEMMA EmptyTrace == <<>> \in Trace
  BY DEF Trace

\* A run that is idle or over is well typed.
LEMMA RestType ==
    ASSUME NEW pc \in Pcs, NEW outcome \in Outcomes
    PROVE  Rest(pc, outcome) \in RunState
  BY RunFromType, EmptyTrace DEF Rest

\* Init puts every variable in its type.
LEMMA InitType == Init => TypeOK
<1> SUFFICES ASSUME Init PROVE TypeOK
  OBVIOUS
<1>1. record \in Record
  BY RecordAsType, EmptyTrace DEF Init, Phases
<1>2. run \in [Runner -> RunState]
  BY RestType DEF Init, Pcs, Outcomes
<1> QED
  BY <1>1, <1>2, BoundAssumption DEF Init, TypeOK

\* What the moves of a run do to its type.
LEMMA GoesType ==
    ASSUME TypeOK, NEW r \in Runner, NEW from, NEW to \in Pcs, Goes(r, from, to)
    PROVE  run' \in [Runner -> RunState]
  BY DEF TypeOK, Goes, RunState

\* A run that leaves its scope stays well typed.
LEMMA LeavesType ==
    ASSUME TypeOK, NEW r \in Runner, NEW to \in Pcs, NEW outcome \in Outcomes,
           Leaves(r, to, outcome)
    PROVE  run' \in [Runner -> RunState]
<1>1. run \in [Runner -> RunState] /\ run[r] \in RunState
  BY DEF TypeOK
<1> DEFINE a == [run[r] EXCEPT !.pc = to]
           b == [a EXCEPT !.outcome = outcome]
<1>2. a \in RunState
  BY <1>1 DEF RunState
<1> HIDE DEF a
<1>3. b \in RunState
  BY <1>2 DEF RunState
<1>4. run' = [run EXCEPT ![r] = b]
  BY <1>1 DEF Leaves, a
<1> HIDE DEF b
<1> QED
  BY <1>1, <1>3, <1>4

\* A run that ends stays well typed.
LEMMA EndsType ==
    ASSUME TypeOK, NEW r \in Runner, NEW how \in Pcs, NEW outcome \in Outcomes,
           Ends(r, how, outcome)
    PROVE  run' \in [Runner -> RunState]
  BY RestType DEF TypeOK, Ends

\* Writing a well-typed record keeps the store well typed.
LEMMA SaveType ==
    ASSUME TypeOK, NEW rec \in Record, Save(rec)
    PROVE  record' \in Record /\ failures' \in 0 .. MaxFailures
  BY BoundAssumption DEF TypeOK, Save, StoreFails

\* Appending an event keeps the log well typed.
LEMMA AppendEventType ==
    ASSUME TypeOK, NEW e \in EventTypes, AppendEvent(e)
    PROVE  events' \in [EventTypes -> Nat] /\ failures' \in 0 .. MaxFailures
  BY BoundAssumption DEF TypeOK, AppendEvent, StoreFails

\* Handing a step on keeps the runs well typed.
LEMMA MovesType ==
    ASSUME TypeOK, NEW r \in Runner, NEW s \in Step, NEW pc \in Pcs,
           NEW next \in Nat, Moves(r, s, pc, next)
    PROVE  run' \in [Runner -> RunState]
<1>1. Stepped(r, s) \in RunState
  BY SteppedType
<1>2. [Stepped(r, s) EXCEPT !.pc = pc, !.next = next] \in RunState
  BY <1>1 DEF RunState
<1> QED
  BY <1>2 DEF TypeOK, Moves

\* A failing task keeps the runs well typed.
LEMMA BreaksType ==
    ASSUME TypeOK, NEW r \in Runner, NEW outcome \in Outcomes, Breaks(r, outcome)
    PROVE  run' \in [Runner -> RunState]
<1>1. PICK s \in StepsOf(run[r].next), dirty \in BOOLEAN :
         run' = [run EXCEPT ![r].pc = "terminal", ![r].outcome = outcome,
                            ![r].context = IF dirty /\ s.exported
                                           THEN Append(run[r].input, s) ELSE @]
  BY DEF Breaks
<1>2. s \in Step
  BY DEF StepsOf
<1>3. run[r] \in RunState
  BY DEF TypeOK
<1>4. Append(run[r].input, s) \in Trace /\ run[r].context \in Trace
  BY <1>2, <1>3 DEF RunState, Trace
<1> DEFINE c == IF dirty /\ s.exported THEN Append(run[r].input, s) ELSE run[r].context
<1>5. c \in Trace
  BY <1>4
<1>6. run' = [run EXCEPT ![r] = [run[r] EXCEPT !.pc = "terminal", !.outcome = outcome,
                                               !.context = c]]
  BY <1>1 DEF TypeOK
<1> HIDE DEF c
<1>7. [run[r] EXCEPT !.pc = "terminal", !.outcome = outcome, !.context = c] \in RunState
  BY <1>3, <1>5 DEF RunState, Pcs
<1> QED
  BY <1>6, <1>7 DEF TypeOK

-----------------------------------------------------------------------------
(* TypeOK is inductive: one step of the proof per action.                  *)

\* A resume starts a run with the values of the record.
LEMMA ResumeType ==
    ASSUME TypeOK, NEW r \in Runner, Resume(r)
    PROVE  run' \in [Runner -> RunState]
<1>1. record.next \in Nat /\ record.input \in Trace /\ record.context \in Trace
  BY DEF TypeOK, Record
<1>2. RunFrom("loop", "none", record.next, record.input, record.context) \in RunState
  BY <1>1, RunFromType DEF Pcs, Outcomes
<1> QED
  BY <1>2 DEF Resume, TypeOK

\* A finished task keeps the runs well typed.
LEMMA FinishTaskType ==
    ASSUME TypeOK, NEW r \in Runner, FinishTask(r)
    PROVE  run' \in [Runner -> RunState]
<1>1. PICK s \in StepsOf(run[r].next), d \in Flow[run[r].next] :
         \/ Moves(r, s, "checkpoint", run[r].next + 1)
         \/ d.to \in Task /\ Moves(r, s, "checkpoint", d.to)
         \/ Moves(r, s, "output", run[r].next)
         \/ Moves(r, [s EXCEPT !.ended = TRUE], "output", run[r].next)
  BY DEF FinishTask
<1>2. s \in Step /\ [s EXCEPT !.ended = TRUE] \in Step
  BY DEF StepsOf, Step
<1>3. run[r].next \in Nat
  BY DEF TypeOK, RunState
<1>4. Task \subseteq Nat
  BY TasksAssumption DEF Task
<1>5. {"checkpoint", "output"} \subseteq Pcs
  BY DEF Pcs
<1> QED
  BY <1>1, <1>2, <1>3, <1>4, <1>5, MovesType

\* A directive that names no task keeps the runs well typed.
LEMMA FaultGotoType ==
    ASSUME TypeOK, NEW r \in Runner, FaultGoto(r)
    PROVE  run' \in [Runner -> RunState]
<1>1. PICK s \in StepsOf(run[r].next) :
         run' = [run EXCEPT ![r] = [Stepped(r, s) EXCEPT !.pc = "terminal",
                                                        !.outcome = "faulted"]]
  BY DEF FaultGoto
<1>2. Stepped(r, s) \in RunState
  BY SteppedType DEF StepsOf
<1>3. [Stepped(r, s) EXCEPT !.pc = "terminal", !.outcome = "faulted"] \in RunState
  BY <1>2 DEF RunState, Pcs, Outcomes
<1> QED
  BY <1>1, <1>3 DEF TypeOK

\* Every action of a run keeps the types.
LEMMA StepType ==
    ASSUME TypeOK, NEW r \in Runner, EngineStep(r) \/ BodyStep(r) \/ CallerStep(r)
    PROVE  TypeOK'
<1> DEFINE RunOK == run' \in [Runner -> RunState]
           Quiet == UNCHANGED <<record, events, cancel, published, failures, crashes>>
<1> USE DEF Pcs, Outcomes
<1>0. ASSUME RunOK, Quiet PROVE TypeOK'
  BY <1>0 DEF TypeOK
<1>1. run[r].outcome \in Outcomes
  BY DEF TypeOK, RunState
<1>2. CASE RunWithCancel(r)
  BY <1>0, <1>2, GoesType DEF RunWithCancel
<1>3. CASE ApplyInput(r)
  BY <1>0, <1>3, GoesType, EndsType DEF ApplyInput
<1>4. CASE PersistStarted(r)
  <2>1. RecordAs("running", 0, <<>>, <<>>) \in Record
    BY RecordAsType, EmptyTrace DEF Phases
  <2>2. record' \in Record /\ failures' \in 0 .. MaxFailures
    BY <1>4, <2>1, SaveType DEF PersistStarted
  <2> QED
    BY <1>4, <2>2, GoesType DEF PersistStarted, TypeOK
<1>5. CASE AppendStarted(r)
  <2>1. events' \in [EventTypes -> Nat] /\ failures' \in 0 .. MaxFailures
    BY <1>5, AppendEventType DEF AppendStarted, EventTypes
  <2> QED
    BY <1>5, <2>1, GoesType DEF AppendStarted, TypeOK
<1>6. CASE ObserveCancel(r)
  BY <1>0, <1>6, LeavesType DEF ObserveCancel
<1>7. CASE LeaveScope(r)
  BY <1>0, <1>7, GoesType DEF LeaveScope
<1>8. CASE StartTask(r)
  BY <1>0, <1>8, GoesType DEF StartTask
<1>9. CASE FinishTask(r)
  BY <1>0, <1>9, FinishTaskType DEF FinishTask
<1>10. CASE FaultGoto(r)
  BY <1>0, <1>10, FaultGotoType DEF FaultGoto
<1>11. CASE FaultTask(r) \/ CancelInTask(r) \/ TaskTimeout(r)
  <2>1. PICK outcome \in Outcomes : Breaks(r, outcome)
    BY <1>11 DEF FaultTask, CancelInTask, TaskTimeout
  <2>2. run' \in [Runner -> RunState]
    BY <2>1, BreaksType
  <2>3. UNCHANGED <<record, events, cancel, published, failures, crashes>>
    BY <2>1 DEF Breaks
  <2> QED
    BY <2>2, <2>3 DEF TypeOK
<1>12. CASE Checkpoint(r)
  <2>1. RecordAs("running", run[r].next, run[r].input, run[r].context) \in Record
    BY RecordAsType DEF TypeOK, RunState, Phases
  <2>2. record' \in Record /\ failures' \in 0 .. MaxFailures
    BY <1>12, <2>1, SaveType DEF Checkpoint
  <2> QED
    BY <1>12, <2>2, GoesType DEF Checkpoint, TypeOK
<1>13. CASE ApplyOutput(r)
  BY <1>0, <1>13, LeavesType DEF ApplyOutput
<1>14. CASE Announce(r)
  <2>1. RunOK
    BY <1>14, GoesType DEF Announce
  <2> QED
    BY <1>14, <2>1 DEF Announce, TypeOK
<1>15. CASE PersistTerminal(r)
  <2>1. PhaseOf(run[r].outcome) \in Phases
    BY DEF PhaseOf, Phases, Terminal
  <2>2. RecordAs(PhaseOf(run[r].outcome), 0, <<>>, run[r].context) \in Record
    BY <2>1, RecordAsType, EmptyTrace DEF TypeOK, RunState
  <2>3. record' \in Record /\ failures' \in 0 .. MaxFailures
    BY <1>15, <2>2, SaveType DEF PersistTerminal
  <2> QED
    BY <1>15, <2>3, GoesType DEF PersistTerminal, TypeOK
<1>16. CASE AppendTerminal(r)
  <2>1. EventOf(PhaseOf(run[r].outcome)) \in EventTypes
    BY DEF EventOf, EventTypes
  <2>2. events' \in [EventTypes -> Nat] /\ failures' \in 0 .. MaxFailures
    BY <1>16, <2>1, AppendEventType DEF AppendTerminal
  <2> QED
    BY <1>1, <1>16, <2>2, EndsType DEF AppendTerminal, TypeOK
<1>17. CASE DropCancelled(r)
  BY <1>0, <1>17, EndsType DEF DropCancelled
<1>18. CASE DropTimedOut(r)
  BY <1>0, <1>18, EndsType DEF DropTimedOut
<1>19. CASE Crash(r)
  <2>1. RunOK
    BY <1>19, EndsType DEF Crash
  <2>2. crashes' \in 0 .. MaxCrashes
    BY <1>19, BoundAssumption DEF Crash, TypeOK
  <2> QED
    BY <1>19, <2>1, <2>2 DEF Crash, TypeOK
<1>20. CASE Resume(r)
  BY <1>0, <1>20, ResumeType DEF Resume
<1>21. CASE RejectResume(r)
  <2>1. RunOK
    BY <1>21, EndsType DEF RejectResume
  <2>2. failures' \in 0 .. MaxFailures
    BY <1>21, BoundAssumption DEF RejectResume, StoreFails, TypeOK
  <2> QED
    BY <1>21, <2>1, <2>2 DEF RejectResume, TypeOK
<1> QED
  BY <1>2, <1>3, <1>4, <1>5, <1>6, <1>7, <1>8, <1>9, <1>10, <1>11, <1>12,
     <1>13, <1>14, <1>15, <1>16, <1>17, <1>18, <1>19, <1>20, <1>21
  DEF EngineStep, BodyStep, CallerStep

\* TypeOK is inductive.
LEMMA NextType == TypeOK /\ [Next]_vars => TypeOK'
<1> SUFFICES ASSUME TypeOK, [Next]_vars PROVE TypeOK'
  OBVIOUS
<1>1. CASE \E r \in Runner : EngineStep(r) \/ BodyStep(r) \/ CallerStep(r)
  BY <1>1, StepType
<1>2. CASE Cancel
  BY <1>2 DEF Cancel, TypeOK
<1>3. CASE UNCHANGED vars
  BY <1>3 DEF TypeOK, vars
<1> QED
  BY <1>1, <1>2, <1>3 DEF Next, Done

\* Every variable keeps its type, whatever the program and the schedule.
THEOREM TypeCorrect == Spec => []TypeOK
  BY InitType, NextType, PTL DEF Spec

-----------------------------------------------------------------------------
(* The stored pointer is on a path of the workflow.                        *)

\* Positions of a run from which it can still save a checkpoint.
Ahead == {"spawned", "input", "create", "startEvent", "loop", "body", "checkpoint"}

RunOnPath == \A r \in Runner : run[r].pc \in Ahead => PathTo(run[r].input, run[r].next)

\* The inductive invariant: every run and the record stand on a path.
PathInv == /\ TypeOK
           /\ RunOnPath
           /\ PathTo(record.input, record.next)

\* The empty trace leads to the first task.
LEMMA EmptyPath == PathTo(<<>>, 0)
  BY DEF PathTo

\* Handing on a step of the task a path leads to gives a longer path.
LEMMA PathExtends ==
    ASSUME NEW trace \in Trace, NEW s \in Step, NEW next \in Nat,
           PathTo(trace, s.task), Leads(s.task, next)
    PROVE  PathTo(Append(trace, s), next)
<1> DEFINE longer == Append(trace, s)
<1>1. /\ longer \in Trace /\ longer # <<>>
      /\ Len(longer) = Len(trace) + 1
      /\ \A i \in 1 .. Len(trace) : longer[i] = trace[i]
      /\ longer[Len(trace) + 1] = s
  BY AppendProperties DEF Trace
<1>2. Len(trace) \in Nat /\ (trace = <<>> <=> Len(trace) = 0)
  BY DEF Trace
<1> HIDE DEF longer
<1>3. longer[1].task = 0
  <2>1. CASE trace = <<>>
    BY <1>1, <1>2, <2>1 DEF PathTo
  <2>2. CASE trace # <<>>
    BY <1>1, <1>2, <2>2 DEF PathTo
  <2> QED
    BY <2>1, <2>2
<1>4. Leads(Last(longer).task, next)
  BY <1>1, <1>2 DEF Last
<1>5. ASSUME NEW i \in 1 .. (Len(longer) - 1)
      PROVE  Leads(longer[i].task, longer[i + 1].task)
  <2>1. CASE i = Len(trace)
    <3>1. trace # <<>> /\ Last(trace) = trace[i]
      BY <1>2, <2>1 DEF Last
    <3>2. Leads(trace[i].task, s.task)
      BY <3>1 DEF PathTo
    <3> QED
      BY <1>1, <1>2, <2>1, <3>2
  <2>2. CASE i # Len(trace)
    <3>1. i \in 1 .. (Len(trace) - 1) /\ i \in 1 .. Len(trace) /\ i + 1 \in 1 .. Len(trace)
      BY <1>1, <1>2, <2>2
    <3>2. Leads(trace[i].task, trace[i + 1].task)
      BY <3>1 DEF PathTo
    <3> QED
      BY <1>1, <3>1, <3>2
  <2> QED
    BY <2>1, <2>2
<1> QED
  BY <1>1, <1>3, <1>4, <1>5 DEF PathTo, longer

\* A finished task leaves its run on a path, if the run can still save one.
LEMMA FinishTaskPath ==
    ASSUME PathInv, NEW r \in Runner, FinishTask(r)
    PROVE  RunOnPath'
<1>1. PICK s \in StepsOf(run[r].next), d \in Flow[run[r].next] :
         \/ d.kind = "continue" /\ Moves(r, s, "checkpoint", run[r].next + 1)
         \/ d.kind = "goto" /\ d.to \in Task /\ Moves(r, s, "checkpoint", d.to)
         \/ Moves(r, s, "output", run[r].next)
         \/ Moves(r, [s EXCEPT !.ended = TRUE], "output", run[r].next)
  BY DEF FinishTask
<1>2. run \in [Runner -> RunState] /\ run[r].next \in Nat /\ run[r].input \in Trace
  BY DEF PathInv, TypeOK, RunState
<1>3. s \in Step /\ s.task = run[r].next
  BY DEF StepsOf
<1>4. PathTo(run[r].input, s.task)
  BY <1>3 DEF PathInv, RunOnPath, FinishTask, Ahead
<1>5. ASSUME NEW n \in Nat, Leads(run[r].next, n), Moves(r, s, "checkpoint", n)
      PROVE  RunOnPath'
  <2>1. run'[r].input = Append(run[r].input, s) /\ run'[r].next = n
    BY <1>2, <1>5 DEF Moves, Stepped, RunState
  <2>2. PathTo(run'[r].input, run'[r].next)
    BY <1>2, <1>3, <1>4, <1>5, <2>1, PathExtends
  <2>3. \A q \in Runner \ {r} : run'[q] = run[q]
    BY <1>2, <1>5 DEF Moves
  <2> QED
    BY <2>2, <2>3 DEF PathInv, RunOnPath
<1>6. ASSUME NEW t, Moves(r, t, "output", run[r].next)
      PROVE  RunOnPath'
  <2>1. run'[r].pc = "output" /\ \A q \in Runner \ {r} : run'[q] = run[q]
    BY <1>2, <1>6 DEF Moves, Stepped, RunState
  <2> QED
    BY <2>1 DEF PathInv, RunOnPath, Ahead
<1>7. Task \subseteq Nat
  BY TasksAssumption DEF Task
<1> QED
  BY <1>1, <1>2, <1>5, <1>6, <1>7 DEF Leads

\* What the moves of a run do to the paths.
LEMMA GoesPath ==
    ASSUME PathInv, NEW r \in Runner, NEW from, NEW to, Goes(r, from, to),
           to \in Ahead => from \in Ahead
    PROVE  RunOnPath'
  BY DEF PathInv, TypeOK, RunState, RunOnPath, Goes

\* A run that leaves its scope saves no checkpoint any more.
LEMMA LeavesPath ==
    ASSUME PathInv, NEW r \in Runner, NEW to, NEW outcome,
           Leaves(r, to, outcome), to \notin Ahead
    PROVE  RunOnPath'
  BY DEF PathInv, TypeOK, RunState, RunOnPath, Leaves

\* A run that is over saves no checkpoint any more.
LEMMA EndsPath ==
    ASSUME PathInv, NEW r \in Runner, NEW how, NEW outcome,
           Ends(r, how, outcome), how \notin Ahead
    PROVE  RunOnPath'
  BY DEF PathInv, TypeOK, RunOnPath, Ends, Rest, RunFrom

\* A failed task leaves the scope, and its run saves no checkpoint.
LEMMA BreaksPath ==
    ASSUME PathInv, NEW r \in Runner, NEW outcome, Breaks(r, outcome)
    PROVE  RunOnPath'
<1>1. run'[r].pc = "terminal" /\ \A q \in Runner \ {r} : run'[q] = run[q]
  BY DEF PathInv, TypeOK, RunState, Breaks
<1> QED
  BY <1>1 DEF PathInv, RunOnPath, Ahead

\* Every action of a run keeps the paths.
LEMMA StepPath ==
    ASSUME PathInv, NEW r \in Runner, EngineStep(r) \/ BodyStep(r) \/ CallerStep(r)
    PROVE  RunOnPath' /\ PathTo(record.input, record.next)'
<1> USE DEF Ahead
<1>1. ASSUME UNCHANGED record PROVE PathTo(record.input, record.next)'
  BY <1>1 DEF PathInv
<1>2. CASE RunWithCancel(r)
  BY <1>1, <1>2, GoesPath DEF RunWithCancel
<1>3. CASE ApplyInput(r)
  BY <1>1, <1>3, GoesPath, EndsPath DEF ApplyInput
<1>4. CASE PersistStarted(r)
  <2>1. record' = record \/ record' = RecordAs("running", 0, <<>>, <<>>)
    BY <1>4 DEF PersistStarted, Save
  <2>2. PathTo(record.input, record.next)'
    BY <1>1, <2>1, EmptyPath DEF RecordAs
  <2> QED
    BY <1>4, <2>2, GoesPath DEF PersistStarted
<1>5. CASE AppendStarted(r)
  BY <1>1, <1>5, GoesPath DEF AppendStarted
<1>6. CASE ObserveCancel(r)
  BY <1>1, <1>6, LeavesPath DEF ObserveCancel
<1>7. CASE LeaveScope(r)
  BY <1>1, <1>7, GoesPath DEF LeaveScope
<1>8. CASE StartTask(r)
  BY <1>1, <1>8, GoesPath DEF StartTask
<1>9. CASE FinishTask(r)
  BY <1>1, <1>9, FinishTaskPath DEF FinishTask
<1>10. CASE FaultGoto(r)
  <2>1. run'[r].pc = "terminal" /\ \A q \in Runner \ {r} : run'[q] = run[q]
    BY <1>10 DEF FaultGoto, Stepped, PathInv, TypeOK, RunState
  <2> QED
    BY <1>1, <1>10, <2>1 DEF FaultGoto, PathInv, RunOnPath
<1>11. CASE FaultTask(r) \/ CancelInTask(r) \/ TaskTimeout(r)
  BY <1>1, <1>11, BreaksPath DEF FaultTask, CancelInTask, TaskTimeout, Breaks
<1>12. CASE Checkpoint(r)
  <2>1. record' = record
        \/ record' = RecordAs("running", run[r].next, run[r].input, run[r].context)
    BY <1>12 DEF Checkpoint, Save
  <2>2. PathTo(run[r].input, run[r].next)
    BY <1>12 DEF Checkpoint, Goes, PathInv, RunOnPath
  <2>3. PathTo(record.input, record.next)'
    BY <1>1, <2>1, <2>2 DEF RecordAs
  <2> QED
    BY <1>12, <2>3, GoesPath DEF Checkpoint
<1>13. CASE ApplyOutput(r)
  BY <1>1, <1>13, LeavesPath DEF ApplyOutput
<1>14. CASE Announce(r)
  BY <1>1, <1>14, GoesPath DEF Announce
<1>15. CASE PersistTerminal(r)
  <2>1. record' = record
        \/ record' = RecordAs(PhaseOf(run[r].outcome), 0, <<>>, run[r].context)
    BY <1>15 DEF PersistTerminal, Save
  <2>2. PathTo(record.input, record.next)'
    BY <1>1, <2>1, EmptyPath DEF RecordAs
  <2> QED
    BY <1>15, <2>2, GoesPath DEF PersistTerminal
<1>16. CASE AppendTerminal(r)
  BY <1>1, <1>16, EndsPath DEF AppendTerminal
<1>17. CASE DropCancelled(r) \/ DropTimedOut(r) \/ Crash(r) \/ RejectResume(r)
  BY <1>1, <1>17, EndsPath DEF DropCancelled, DropTimedOut, Crash, RejectResume
<1>18. CASE Resume(r)
  <2>1. run'[r].input = record.input /\ run'[r].next = record.next
        /\ \A q \in Runner \ {r} : run'[q] = run[q]
    BY <1>18 DEF Resume, RunFrom, PathInv, TypeOK
  <2> QED
    BY <1>1, <1>18, <2>1 DEF Resume, PathInv, RunOnPath
<1> QED
  BY <1>2, <1>3, <1>4, <1>5, <1>6, <1>7, <1>8, <1>9, <1>10, <1>11, <1>12,
     <1>13, <1>14, <1>15, <1>16, <1>17, <1>18
  DEF EngineStep, BodyStep, CallerStep

\* Every run begins in front of the first task.
LEMMA InitPath == Init => PathInv
<1> SUFFICES ASSUME Init PROVE PathInv
  OBVIOUS
<1>1. \A r \in Runner : run[r].input = <<>> /\ run[r].next = 0
  BY DEF Init, Rest, RunFrom
<1>2. record.input = <<>> /\ record.next = 0
  BY DEF Init, RecordAs
<1> QED
  BY <1>1, <1>2, InitType, EmptyPath DEF PathInv, RunOnPath

\* PathInv is inductive.
LEMMA NextPath == PathInv /\ [Next]_vars => PathInv'
<1> SUFFICES ASSUME PathInv, [Next]_vars PROVE PathInv'
  OBVIOUS
<1>0. TypeOK'
  BY NextType DEF PathInv
<1>1. CASE \E r \in Runner : EngineStep(r) \/ BodyStep(r) \/ CallerStep(r)
  BY <1>0, <1>1, StepPath DEF PathInv
<1>2. CASE Cancel
  BY <1>0, <1>2 DEF Cancel, PathInv, RunOnPath
<1>3. CASE UNCHANGED vars
  BY <1>0, <1>3 DEF PathInv, RunOnPath, vars
<1> QED
  BY <1>1, <1>2, <1>3 DEF Next, Done

\* Resume never skips a task, nor feeds one the output of a task that does not
\* precede it, however runs, crashes and lost writes interleave.
THEOREM CheckpointPath == Spec => []CheckpointOnPath
<1>1. PathInv => CheckpointOnPath
  BY DEF PathInv, CheckpointOnPath
<1> QED
  BY <1>1, InitPath, NextPath, PTL DEF Spec

-----------------------------------------------------------------------------
(* Prefixes.                                                               *)

\* A prefix is shorter and agrees where it is defined.
LEMMA PrefixPointwise ==
    ASSUME NEW S, NEW s \in Seq(S), NEW t \in Seq(S)
    PROVE  IsPrefix(s, t) <=> /\ Len(s) <= Len(t)
                              /\ \A i \in 1 .. Len(s) : s[i] = t[i]
<1>1. CASE Len(s) > Len(t)
  BY <1>1 DEF IsPrefix
<1>2. CASE Len(s) <= Len(t)
  <2>1. /\ SubSeq(t, 1, Len(s)) \in Seq(S)
        /\ Len(SubSeq(t, 1, Len(s))) = Len(s)
        /\ \A i \in 1 .. Len(s) : SubSeq(t, 1, Len(s))[i] = t[i]
    BY <1>2
  <2>2. SubSeq(s, 1, Len(s)) = s
    BY SubSeqFull
  <2>3. SubSeq(t, 1, Len(s)) = s <=> \A i \in 1 .. Len(s) : s[i] = SubSeq(t, 1, Len(s))[i]
    BY <2>1, SeqEqual
  <2> QED
    BY <1>2, <2>1, <2>2, <2>3 DEF IsPrefix
<1> QED
  BY <1>1, <1>2

\* A sequence is a prefix of itself.
LEMMA PrefixReflexive ==
    ASSUME NEW S, NEW s \in Seq(S)
    PROVE  IsPrefix(s, s)
  BY DEF IsPrefix

\* A prefix of a sequence is one of any longer sequence.
LEMMA PrefixAppend ==
    ASSUME NEW S, NEW s \in Seq(S), NEW t \in Seq(S), NEW e \in S, IsPrefix(s, t)
    PROVE  IsPrefix(s, Append(t, e))
<1>1. /\ Append(t, e) \in Seq(S)
      /\ Len(Append(t, e)) = Len(t) + 1
      /\ \A i \in 1 .. Len(t) : Append(t, e)[i] = t[i]
  BY AppendProperties
<1>2. Len(s) <= Len(t) /\ \A i \in 1 .. Len(s) : s[i] = t[i]
  BY PrefixPointwise
<1>3. Len(s) <= Len(Append(t, e)) /\ \A i \in 1 .. Len(s) : s[i] = Append(t, e)[i]
  BY <1>1, <1>2
<1> QED
  BY <1>1, <1>3, PrefixPointwise

-----------------------------------------------------------------------------
(* The stored context belongs to the stored position.                      *)

ContextKept ==
    \A r \in Runner : run[r].pc \in Ahead => LastExport(run[r].context, run[r].input)

ContextStored == record.phase \notin Terminal => LastExport(record.context, record.input)

ContextInv == TypeOK /\ ContextKept /\ ContextStored

\* Nothing was exported on the empty trace.
LEMMA EmptyExport == LastExport(<<>>, <<>>)
<1>1. <<>> \in Trace
  BY EmptyTrace
<1>2. IsPrefix(<<>>, <<>>)
  BY <1>1, PrefixReflexive DEF Trace
<1> QED
  BY <1>2 DEF LastExport

\* A step that exports makes its own value the context; another one keeps the
\* context it found.
LEMMA ExportExtends ==
    ASSUME NEW trace \in Trace, NEW context \in Trace, NEW s \in Step,
           LastExport(context, trace)
    PROVE  LastExport(IF s.exported THEN Append(trace, s) ELSE context,
                      Append(trace, s))
<1> DEFINE longer == Append(trace, s)
<1>1. /\ longer \in Seq(Step) /\ longer # <<>>
      /\ Len(longer) = Len(trace) + 1 /\ Len(trace) \in Nat
      /\ \A i \in 1 .. Len(trace) : longer[i] = trace[i]
      /\ longer[Len(trace) + 1] = s
  BY AppendProperties DEF Trace
<1>2. CASE s.exported
  <2>1. IsPrefix(longer, longer)
    BY <1>1, PrefixReflexive
  <2>2. Last(longer).exported
    BY <1>1, <1>2 DEF Last
  <2> QED
    BY <1>1, <1>2, <2>1, <2>2 DEF LastExport
<1>3. CASE ~ s.exported
  <2>1. IsPrefix(context, longer)
    BY PrefixAppend DEF LastExport, Trace
  <2>2. ASSUME NEW i \in 1 .. Len(longer), i > Len(context)
        PROVE  ~ longer[i].exported
    BY <1>1, <1>3, <2>2 DEF LastExport
  <2>3. context # <<>> => Last(context).exported
    BY DEF LastExport
  <2> QED
    BY <1>3, <2>1, <2>2, <2>3 DEF LastExport
<1> QED
  BY <1>2, <1>3

\* What the moves of a run do to its context.
LEMMA GoesContext ==
    ASSUME ContextInv, NEW r \in Runner, NEW from, NEW to, Goes(r, from, to),
           to \in Ahead => from \in Ahead
    PROVE  ContextKept'
  BY DEF ContextInv, TypeOK, RunState, ContextKept, Goes

\* A run that leaves its scope saves no context any more.
LEMMA LeavesContext ==
    ASSUME ContextInv, NEW r \in Runner, NEW to, NEW outcome,
           Leaves(r, to, outcome), to \notin Ahead
    PROVE  ContextKept'
  BY DEF ContextInv, TypeOK, RunState, ContextKept, Leaves

\* A run that is over saves no context any more.
LEMMA EndsContext ==
    ASSUME ContextInv, NEW r \in Runner, NEW how, NEW outcome,
           Ends(r, how, outcome), how \notin Ahead
    PROVE  ContextKept'
  BY DEF ContextInv, TypeOK, ContextKept, Ends, Rest, RunFrom

\* A failed task may leave a context that no checkpoint takes.
LEMMA BreaksContext ==
    ASSUME ContextInv, NEW r \in Runner, NEW outcome, Breaks(r, outcome)
    PROVE  ContextKept'
<1>1. run'[r].pc = "terminal" /\ \A q \in Runner \ {r} : run'[q] = run[q]
  BY DEF ContextInv, TypeOK, RunState, Breaks
<1> QED
  BY <1>1 DEF ContextInv, ContextKept, Ahead

\* A finished task leaves its run with the value exported last.
LEMMA FinishTaskContext ==
    ASSUME ContextInv, NEW r \in Runner, FinishTask(r)
    PROVE  ContextKept'
<1>1. PICK s \in Step, pc \in Pcs, next \in Nat : Moves(r, s, pc, next)
  <2>1. PICK s \in StepsOf(run[r].next), d \in Flow[run[r].next] :
           \/ Moves(r, s, "checkpoint", run[r].next + 1)
           \/ d.to \in Task /\ Moves(r, s, "checkpoint", d.to)
           \/ Moves(r, s, "output", run[r].next)
           \/ Moves(r, [s EXCEPT !.ended = TRUE], "output", run[r].next)
    BY DEF FinishTask
  <2>2. s \in Step /\ [s EXCEPT !.ended = TRUE] \in Step
    BY DEF StepsOf, Step
  <2>3. run[r].next \in Nat /\ Task \subseteq Nat
    BY TasksAssumption DEF ContextInv, TypeOK, RunState, Task
  <2> QED
    BY <2>1, <2>2, <2>3 DEF Pcs
<1>2. run \in [Runner -> RunState] /\ run[r].input \in Trace /\ run[r].context \in Trace
  BY DEF ContextInv, TypeOK, RunState
<1>3. LastExport(run[r].context, run[r].input)
  BY DEF ContextInv, ContextKept, FinishTask, Ahead
<1>4. run'[r].input = Append(run[r].input, s)
      /\ run'[r].context = IF s.exported THEN Append(run[r].input, s) ELSE run[r].context
  BY <1>1, <1>2 DEF Moves, Stepped, RunState
<1>5. LastExport(run'[r].context, run'[r].input)
  BY <1>2, <1>3, <1>4, ExportExtends
<1>6. \A q \in Runner \ {r} : run'[q] = run[q]
  BY <1>1, <1>2 DEF Moves
<1> QED
  BY <1>5, <1>6 DEF ContextInv, ContextKept

\* Every action of a run keeps the contexts.
LEMMA StepContext ==
    ASSUME ContextInv, NEW r \in Runner, EngineStep(r) \/ BodyStep(r) \/ CallerStep(r)
    PROVE  ContextKept' /\ ContextStored'
<1> USE DEF Ahead
<1>1. ASSUME UNCHANGED record PROVE ContextStored'
  BY <1>1 DEF ContextInv, ContextStored
<1>2. CASE RunWithCancel(r) \/ AppendStarted(r) \/ LeaveScope(r) \/ StartTask(r) \/ Announce(r)
  BY <1>1, <1>2, GoesContext
  DEF RunWithCancel, AppendStarted, LeaveScope, StartTask, Announce
<1>3. CASE ApplyInput(r)
  BY <1>1, <1>3, GoesContext, EndsContext DEF ApplyInput
<1>4. CASE PersistStarted(r)
  <2>1. record' = record \/ record' = RecordAs("running", 0, <<>>, <<>>)
    BY <1>4 DEF PersistStarted, Save
  <2>2. ContextStored'
    BY <1>1, <2>1, EmptyExport DEF RecordAs, ContextStored
  <2> QED
    BY <1>4, <2>2, GoesContext DEF PersistStarted
<1>5. CASE ObserveCancel(r) \/ ApplyOutput(r)
  BY <1>1, <1>5, LeavesContext DEF ObserveCancel, ApplyOutput
<1>6. CASE FinishTask(r)
  BY <1>1, <1>6, FinishTaskContext DEF FinishTask
<1>7. CASE FaultGoto(r)
  <2>1. run'[r].pc = "terminal" /\ \A q \in Runner \ {r} : run'[q] = run[q]
    BY <1>7 DEF FaultGoto, Stepped, ContextInv, TypeOK, RunState
  <2> QED
    BY <1>1, <1>7, <2>1 DEF FaultGoto, ContextInv, ContextKept
<1>8. CASE FaultTask(r) \/ CancelInTask(r) \/ TaskTimeout(r)
  BY <1>1, <1>8, BreaksContext DEF FaultTask, CancelInTask, TaskTimeout, Breaks
<1>9. CASE Checkpoint(r)
  <2>1. record' = record
        \/ record' = RecordAs("running", run[r].next, run[r].input, run[r].context)
    BY <1>9 DEF Checkpoint, Save
  <2>2. LastExport(run[r].context, run[r].input)
    BY <1>9 DEF Checkpoint, Goes, ContextInv, ContextKept
  <2>3. ContextStored'
    BY <1>1, <2>1, <2>2 DEF RecordAs, ContextStored
  <2> QED
    BY <1>9, <2>3, GoesContext DEF Checkpoint
<1>10. CASE PersistTerminal(r)
  <2>1. record' = record
        \/ record' = RecordAs(PhaseOf(run[r].outcome), 0, <<>>, run[r].context)
    BY <1>10 DEF PersistTerminal, Save
  <2>2. PhaseOf(run[r].outcome) \in Terminal
    BY DEF PhaseOf, Terminal
  <2>3. ContextStored'
    BY <1>1, <2>1, <2>2 DEF RecordAs, ContextStored
  <2> QED
    BY <1>10, <2>3, GoesContext DEF PersistTerminal
<1>11. CASE AppendTerminal(r)
  BY <1>1, <1>11, EndsContext DEF AppendTerminal
<1>12. CASE DropCancelled(r) \/ DropTimedOut(r) \/ Crash(r) \/ RejectResume(r)
  BY <1>1, <1>12, EndsContext DEF DropCancelled, DropTimedOut, Crash, RejectResume
<1>13. CASE Resume(r)
  <2>1. run'[r].input = record.input /\ run'[r].context = record.context
        /\ \A q \in Runner \ {r} : run'[q] = run[q]
    BY <1>13 DEF Resume, RunFrom, ContextInv, TypeOK
  <2>2. LastExport(record.context, record.input)
    BY <1>13 DEF Resume, ContextInv, ContextStored, Terminal
  <2> QED
    BY <1>1, <1>13, <2>1, <2>2 DEF Resume, ContextInv, ContextKept
<1> QED
  BY <1>2, <1>3, <1>4, <1>5, <1>6, <1>7, <1>8, <1>9, <1>10, <1>11, <1>12, <1>13
  DEF EngineStep, BodyStep, CallerStep

\* Nothing is exported at first.
LEMMA InitContext == Init => ContextInv
<1> SUFFICES ASSUME Init PROVE ContextInv
  OBVIOUS
<1>1. \A r \in Runner : run[r].input = <<>> /\ run[r].context = <<>>
  BY DEF Init, Rest, RunFrom
<1>2. record.input = <<>> /\ record.context = <<>>
  BY DEF Init, RecordAs
<1> QED
  BY <1>1, <1>2, InitType, EmptyExport DEF ContextInv, ContextKept, ContextStored

\* Every step keeps the contexts.
LEMMA NextContext == ContextInv /\ [Next]_vars => ContextInv'
<1> SUFFICES ASSUME ContextInv, [Next]_vars PROVE ContextInv'
  OBVIOUS
<1>0. TypeOK'
  BY NextType DEF ContextInv
<1>1. CASE \E r \in Runner : EngineStep(r) \/ BodyStep(r) \/ CallerStep(r)
  BY <1>0, <1>1, StepContext DEF ContextInv
<1>2. CASE Cancel
  BY <1>0, <1>2 DEF Cancel, ContextInv, ContextKept, ContextStored
<1>3. CASE UNCHANGED vars
  BY <1>0, <1>3 DEF ContextInv, ContextKept, ContextStored, vars
<1> QED
  BY <1>1, <1>2, <1>3 DEF Next, Done

\* A resumed task sees the $context that belongs to its position.
THEOREM ContextRestored == Spec => []CheckpointContext
<1>1. ContextInv => CheckpointContext
  BY DEF ContextInv, ContextStored, CheckpointContext, Terminal
<1> QED
  BY <1>1, InitContext, NextContext, PTL DEF Spec


-----------------------------------------------------------------------------
(* Where an `end` may stand in the trace of a run.                         *)

\* What a run met since it started is its last step, keeps it out of every
\* further body, and is in its flag.
EndKept(s) ==
    /\ \A i \in 1 .. Len(s.input) : s.input[i].ended =>
          i <= s.base \/ (i = Len(s.input) /\ s.ended)
    /\ s.pc = "body" => ~ s.ended

EndInv == \A r \in Runner : EndKept(run[r])

\* The shapes of the step of a run from s to t: it goes on with what it has, ...
Carries(s, t) ==
    /\ t.input = s.input /\ t.base = s.base /\ t.ended = s.ended
    /\ t.pc = "body" => ~ t.ended

\* ... has finished a task with step x, ...
Appends(s, t, x) ==
    /\ s.pc = "body" /\ t.pc # "body"
    /\ t.input = Append(s.input, x) /\ t.base = s.base
    /\ t.ended = (s.ended \/ x.ended)

\* ... or starts where another left it, or is over.
Restarts(t) == t.base = Len(t.input) /\ t.pc # "body"

\* Every action of a run has one of them.
LEMMA StepEnds ==
    ASSUME TypeOK, NEW r \in Runner, EngineStep(r) \/ BodyStep(r) \/ CallerStep(r)
    PROVE  /\ \A q \in Runner \ {r} : run'[q] = run[q]
           /\ \/ Carries(run[r], run'[r])
              \/ Restarts(run'[r])
              \/ \E x \in Step : Appends(run[r], run'[r], x)
<1>0. run \in [Runner -> RunState]
  BY DEF TypeOK
<1>1. CASE \E from, to : Goes(r, from, to) /\ (to = "body" => ~ run[r].ended)
  BY <1>0, <1>1 DEF Goes, RunState, Carries
<1>2. CASE \E to \in {"terminal", "announce"} : \E outcome : Leaves(r, to, outcome)
  BY <1>0, <1>2 DEF Leaves, RunState, Carries
<1>3. CASE \E how \in {"returned", "crashed"} : \E outcome : Ends(r, how, outcome)
  BY <1>0, <1>3 DEF Ends, Rest, RunFrom, Restarts
<1>4. CASE \E outcome : Breaks(r, outcome)
  BY <1>0, <1>4 DEF Breaks, RunState, Carries
<1>5. CASE Resume(r)
  BY <1>0, <1>5 DEF Resume, RunFrom, Restarts
<1>6. ASSUME run[r].pc = "body", NEW x \in Step, NEW pc, NEW n, pc # "body", Moves(r, x, pc, n)
      PROVE  (\A q \in Runner \ {r} : run'[q] = run[q]) /\ Appends(run[r], run'[r], x)
  BY <1>0, <1>6 DEF Moves, Stepped, RunState, Appends
<1>7. CASE FinishTask(r)
  <2>1. \A s \in StepsOf(run[r].next) : s \in Step /\ [s EXCEPT !.ended = TRUE] \in Step
    BY <1>0 DEF StepsOf, Step, RunState
  <2>2. \E x \in Step, pc \in {"checkpoint", "output"} : \E n : Moves(r, x, pc, n)
    BY <1>7, <2>1 DEF FinishTask
  <2>3. run[r].pc = "body"
    BY <1>7 DEF FinishTask
  <2> QED
    BY <1>6, <2>2, <2>3
<1>8. CASE FaultGoto(r)
  <2>1. PICK s \in StepsOf(run[r].next) :
          run' = [run EXCEPT ![r] = [Stepped(r, s) EXCEPT !.pc = "terminal", !.outcome = "faulted"]]
    BY <1>8 DEF FaultGoto
  <2>2. s \in Step
    BY <1>0 DEF StepsOf, Step, RunState
  <2>3. run[r].pc = "body" /\ run[r] \in RunState
    BY <1>0, <1>8 DEF FaultGoto
  <2>4. run'[r] = [Stepped(r, s) EXCEPT !.pc = "terminal", !.outcome = "faulted"]
    BY <1>0, <2>1
  <2>5. Appends(run[r], run'[r], s)
    BY <2>3, <2>4 DEF Stepped, RunState, Appends
  <2> QED
    BY <2>1, <2>2, <2>5
<1> QED
  BY <1>1, <1>2, <1>3, <1>4, <1>5, <1>7, <1>8
  DEF EngineStep, BodyStep, CallerStep, RunWithCancel, ApplyInput, PersistStarted, AppendStarted,
      ObserveCancel, LeaveScope, StartTask, Checkpoint, ApplyOutput, Announce, PersistTerminal,
      AppendTerminal, FaultTask, CancelInTask, TaskTimeout, DropCancelled, DropTimedOut, Crash,
      RejectResume

\* A step of any shape keeps the ends in place.
LEMMA EndKeeps ==
    ASSUME NEW s \in RunState, NEW t \in RunState, EndKept(s),
           \/ Carries(s, t) \/ Restarts(t) \/ \E x \in Step : Appends(s, t, x)
    PROVE  EndKept(t)
<1>0. s.input \in Seq(Step) /\ t.input \in Seq(Step)
  BY DEF RunState, Trace
<1>1. CASE Carries(s, t)
  BY <1>1 DEF Carries, EndKept
<1>2. CASE Restarts(t)
  BY <1>2 DEF Restarts, EndKept
<1>3. ASSUME NEW x \in Step, Appends(s, t, x) PROVE EndKept(t)
  <2>1. /\ t.input = Append(s.input, x) /\ t.base = s.base /\ t.ended = (s.ended \/ x.ended)
        /\ ~ s.ended /\ t.pc # "body"
    BY <1>3 DEF Appends, EndKept
  <2>2. ASSUME NEW i \in 1 .. Len(t.input), t.input[i].ended
        PROVE  i <= t.base \/ (i = Len(t.input) /\ t.ended)
    <3>1. CASE i = Len(t.input)
      <4>1. t.input[i] = x
        BY <1>0, <2>1, <3>1
      <4> QED
        BY <2>1, <2>2, <3>1, <4>1
    <3>2. CASE i # Len(t.input)
      <4>1. i \in 1 .. Len(s.input) /\ t.input[i] = s.input[i]
        BY <1>0, <2>1, <3>2
      <4> QED
        BY <2>1, <2>2, <4>1 DEF EndKept
    <3> QED
      BY <3>1, <3>2
  <2> QED
    BY <2>1, <2>2 DEF EndKept
<1> QED
  BY <1>1, <1>2, <1>3

LEMMA InitEnd == Init => EndInv
  BY DEF Init, EndInv, EndKept, Rest, RunFrom

LEMMA NextEnd == TypeOK /\ TypeOK' /\ EndInv /\ [Next]_vars => EndInv'
<1> SUFFICES ASSUME TypeOK, TypeOK', EndInv, [Next]_vars PROVE EndInv'
  OBVIOUS
<1>1. CASE UNCHANGED run
  BY <1>1 DEF EndInv
<1>2. ASSUME NEW r \in Runner, EngineStep(r) \/ BodyStep(r) \/ CallerStep(r)
      PROVE  EndInv'
  <2>1. run \in [Runner -> RunState] /\ run' \in [Runner -> RunState]
    BY DEF TypeOK
  <2>2. EndKept(run'[r])
    BY <1>2, <2>1, StepEnds, EndKeeps DEF EndInv
  <2>3. \A q \in Runner \ {r} : run'[q] = run[q]
    BY <1>2, StepEnds
  <2> QED
    BY <2>2, <2>3 DEF EndInv
<1> QED
  BY <1>1, <1>2 DEF Next, Done, Cancel, vars

\* Within one run no task follows an `end` (exec_scope's `ended` flag), however
\* often the execution is interrupted and whoever resumes it.
THEOREM EndsHonoured == Spec => []EndHonoured
<1>1. TypeOK /\ EndInv => EndHonoured
  <2> SUFFICES ASSUME TypeOK, EndInv, NEW r \in Runner, NEW i \in 1 .. (Len(run[r].input) - 1),
                      run[r].input[i].ended
               PROVE  i <= run[r].base
    BY DEF EndHonoured
  <2>1. run[r].input \in Seq(Step)
    BY DEF TypeOK, RunState, Trace
  <2>2. i \in 1 .. Len(run[r].input) /\ i # Len(run[r].input)
    BY <2>1
  <2> QED
    BY <2>2 DEF EndInv, EndKept
<1> QED
  BY <1>1, InitType, NextType, InitEnd, NextEnd, PTL DEF Spec

-----------------------------------------------------------------------------
(***************************************************************************)
(* What holds when an execution is resumed only while no run drives it:    *)
(* the record is a durable execution, and a resume repeats little.         *)
(***************************************************************************)

(* The shapes a step of run r can have, as far as the record, the failures *)
(* and the position and input of the run are concerned.                    *)

Starting == {"spawned", "input", "create", "startEvent"}

\* The run is over.
Stops(r) == UNCHANGED record /\ run'[r].pc \in {"returned", "crashed"}

\* The run has left the scope and can only end.
Heads(r) ==
    /\ UNCHANGED record
    /\ Active(r) /\ run[r].pc # "terminalEvent"
    /\ run'[r].pc \in {"output", "announce", "terminal"}

\* The run goes on with the input it has.
Holds(r) ==
    /\ UNCHANGED record
    /\ run[r].pc \in Ahead \ {"checkpoint"}
    /\ run'[r].pc \in Ahead \ {"checkpoint"}
    /\ run'[r].pc \in Starting => run[r].pc \in Starting
    /\ run'[r].input = run[r].input

\* A task is done and waits for its checkpoint.
Works(r) ==
    /\ UNCHANGED record
    /\ run[r].pc = "body" /\ run'[r].pc = "checkpoint"
    /\ \E s \in StepsOf(run[r].next) : run'[r].input = Append(run[r].input, s)

\* The start record is written, or lost.
Begins(r) ==
    /\ run[r].pc = "create" /\ run'[r].pc = "startEvent"
    /\ run'[r].input = run[r].input
    /\ record' \in {record, RecordAs("running", 0, <<>>, <<>>)}

\* A checkpoint is written, or lost.
Saves(r) ==
    /\ run[r].pc = "checkpoint" /\ run'[r].pc = "loop"
    /\ run'[r].input = run[r].input
    /\ \/ record' = RecordAs("running", run[r].next, run[r].input, run[r].context)
       \/ UNCHANGED record /\ failures' = failures + 1

\* The terminal record is written, or lost.
Closes(r) ==
    /\ run[r].pc = "terminal" /\ run'[r].pc = "terminalEvent"
    /\ \/ UNCHANGED record
       \/ record' = RecordAs(PhaseOf(run[r].outcome), 0, <<>>, run[r].context)

\* A resume takes over where the record stands.
TakesOver(r) ==
    /\ UNCHANGED record
    /\ record.phase = "running"
    /\ run[r].pc = "idle" /\ run'[r].pc = "loop"
    /\ Exclusive => \A q \in Runner : ~ Active(q)
    /\ run'[r].input = record.input

Shape(r) ==
    \/ Stops(r) \/ Heads(r) \/ Holds(r) \/ Works(r)
    \/ Begins(r) \/ Saves(r) \/ Closes(r) \/ TakesOver(r)

\* The other runs stay as they are, and no failure is forgotten.
Alone(r) ==
    /\ \A q \in Runner \ {r} : run'[q] = run[q]
    /\ failures' >= failures

\* Every action of a run has one of the shapes and leaves the others alone.
LEMMA StepShape ==
    ASSUME TypeOK, NEW r \in Runner, EngineStep(r) \/ BodyStep(r) \/ CallerStep(r)
    PROVE  Shape(r) /\ Alone(r)
<1> DEFINE Goal == Shape(r) /\ Alone(r)
<1> USE DEF Ahead, Starting, Active, Alone
<1>0. run \in [Runner -> RunState] /\ failures \in Nat
  BY BoundAssumption DEF TypeOK
<1>1. CASE RunWithCancel(r) \/ AppendStarted(r) \/ StartTask(r)
  BY <1>0, <1>1 DEF RunWithCancel, AppendStarted, StartTask, Goes, AppendEvent,
       StoreFails, Shape, Holds, RunState
<1>2. CASE ApplyInput(r)
  BY <1>0, <1>2 DEF ApplyInput, Goes, Ends, Rest, RunFrom, Shape, Holds, Stops, RunState
<1>3. CASE PersistStarted(r)
  BY <1>0, <1>3 DEF PersistStarted, Goes, Save, StoreFails, Shape, Begins, RunState
<1>4. CASE ObserveCancel(r) \/ LeaveScope(r) \/ ApplyOutput(r) \/ Announce(r)
  BY <1>0, <1>4 DEF ObserveCancel, LeaveScope, ApplyOutput, Announce, Goes, Leaves,
       Shape, Heads, RunState
<1>5. CASE FinishTask(r)
  <2>1. PICK s \in StepsOf(run[r].next), d \in Flow[run[r].next] :
           \/ Moves(r, s, "checkpoint", run[r].next + 1)
           \/ Moves(r, s, "checkpoint", d.to)
           \/ Moves(r, s, "output", run[r].next)
           \/ Moves(r, [s EXCEPT !.ended = TRUE], "output", run[r].next)
    BY <1>5 DEF FinishTask
  <2>2. ASSUME NEW n, Moves(r, s, "checkpoint", n) PROVE Goal
    <3>1. run'[r].pc = "checkpoint" /\ run'[r].input = Append(run[r].input, s)
          /\ \A q \in Runner \ {r} : run'[q] = run[q]
      BY <1>0, <2>2 DEF Moves, Stepped, RunState
    <3> QED
      BY <1>0, <1>5, <3>1 DEF FinishTask, Shape, Works
  <2>3. ASSUME NEW t, NEW n, Moves(r, t, "output", n) PROVE Goal
    <3>1. run'[r].pc = "output" /\ \A q \in Runner \ {r} : run'[q] = run[q]
      BY <1>0, <2>3 DEF Moves, Stepped, RunState
    <3> QED
      BY <1>0, <1>5, <3>1 DEF FinishTask, Shape, Heads
  <2> QED
    BY <2>1, <2>2, <2>3
<1>6. CASE FaultGoto(r)
  <2>1. run'[r].pc = "terminal" /\ \A q \in Runner \ {r} : run'[q] = run[q]
    BY <1>0, <1>6 DEF FaultGoto, Stepped, RunState
  <2> QED
    BY <1>0, <1>6, <2>1 DEF FaultGoto, Shape, Heads
<1>7. CASE FaultTask(r) \/ CancelInTask(r) \/ TaskTimeout(r)
  <2>1. PICK outcome : Breaks(r, outcome)
    BY <1>7 DEF FaultTask, CancelInTask, TaskTimeout
  <2>2. run'[r].pc = "terminal" /\ \A q \in Runner \ {r} : run'[q] = run[q]
    BY <1>0, <2>1 DEF Breaks, RunState
  <2> QED
    BY <1>0, <2>1, <2>2 DEF Breaks, Shape, Heads
<1>8. CASE Checkpoint(r)
  BY <1>0, <1>8 DEF Checkpoint, Goes, Save, StoreFails, Shape, Saves, RunState
<1>9. CASE PersistTerminal(r)
  BY <1>0, <1>9 DEF PersistTerminal, Goes, Save, StoreFails, Shape, Closes, RunState
<1>10. CASE AppendTerminal(r)
  BY <1>0, <1>10 DEF AppendTerminal, AppendEvent, StoreFails, Ends, Rest, RunFrom,
       Shape, Stops
<1>11. CASE DropCancelled(r) \/ DropTimedOut(r) \/ Crash(r) \/ RejectResume(r)
  BY <1>0, <1>11 DEF DropCancelled, DropTimedOut, Crash, RejectResume, StoreFails,
       Ends, Rest, RunFrom, Shape, Stops
<1>12. CASE Resume(r)
  BY <1>0, <1>12 DEF Resume, MayResume, RunFrom, Shape, TakesOver
<1> QED
  BY <1>1, <1>2, <1>3, <1>4, <1>5, <1>6, <1>7, <1>8, <1>9, <1>10, <1>11, <1>12
  DEF EngineStep, BodyStep, CallerStep

-----------------------------------------------------------------------------
(* The inductive invariant.                                                *)

\* At most one run is active.
Solo == \A p, q \in Runner : Active(p) /\ Active(q) => p = q

\* Once the record is terminal, the active run has only its event to append.
Closed ==
    \A r \in Runner : Active(r) /\ record.phase \in Terminal => run[r].pc = "terminalEvent"

\* No work before the first task.
Fresh == \A r \in Runner : run[r].pc \in Starting => run[r].input = <<>>

\* The record is never in front of the active run ...
Behind ==
    \A r \in Runner : run[r].pc \in Ahead => IsPrefix(record.input, run[r].input)

\* ... and not far behind it.
Near ==
    \A r \in Runner : run[r].pc \in Ahead =>
        /\ Len(run[r].input) <= Len(record.input) + failures + 1
        /\ run[r].pc # "checkpoint" => Len(run[r].input) <= Len(record.input) + failures

SoloInv == PathInv /\ ContextInv /\ Solo /\ Closed /\ Fresh /\ Behind /\ Near

\* A step changes the local state of one run: what holds of the others stays.
LEMMA NextSolo ==
    ASSUME Exclusive, SoloInv, PathInv', ContextInv', NEW r \in Runner, Shape(r),
           Alone(r)
    PROVE  SoloInv'
<1> USE DEF Ahead, Starting, Active
<1> (\A q \in Runner \ {r} : run'[q] = run[q]) /\ failures' >= failures
  BY DEF Alone
<1>0. TypeOK /\ TypeOK'
  BY DEF SoloInv, PathInv
<1>1. /\ run \in [Runner -> RunState] /\ run' \in [Runner -> RunState]
      /\ failures \in Nat /\ failures' \in Nat
      /\ record.input \in Trace /\ record'.input \in Trace
      /\ \A q \in Runner : run[q].input \in Trace /\ run'[q].input \in Trace
      /\ \A q \in Runner : Len(run[q].input) \in Nat /\ Len(run'[q].input) \in Nat
      /\ Len(record.input) \in Nat /\ Len(record'.input) \in Nat
  <2>1. /\ run \in [Runner -> RunState] /\ run' \in [Runner -> RunState]
        /\ record \in Record /\ record' \in Record
        /\ failures \in Nat /\ failures' \in Nat
    BY <1>0, BoundAssumption DEF TypeOK
  <2>2. record.input \in Trace /\ record'.input \in Trace
    BY <2>1 DEF Record
  <2>3. \A q \in Runner : run[q].input \in Trace /\ run'[q].input \in Trace
    BY <2>1 DEF RunState
  <2>4. \A t \in Trace : Len(t) \in Nat
    BY DEF Trace
  <2> QED
    BY <2>1, <2>2, <2>3, <2>4
<1>2. SoloInv
  OBVIOUS
<1>3. Solo'
  <2>1. CASE TakesOver(r)
    BY <1>2, <2>1 DEF TakesOver, SoloInv, Solo
  <2>2. CASE ~ TakesOver(r)
    <3>1. run'[r].pc \in {"returned", "crashed"} \/ Active(r)
      BY <2>2 DEF Shape, Stops, Heads, Holds, Works, Begins, Saves, Closes
    <3> QED
      BY <1>2, <3>1 DEF SoloInv, Solo
  <2> QED
    BY <2>1, <2>2
<1>4. Closed'
  <2>1. CASE Stops(r)
    BY <1>2, <2>1 DEF Stops, SoloInv, Closed
  <2>2. CASE Heads(r) \/ Holds(r) \/ Works(r)
    BY <1>2, <2>2 DEF Heads, Holds, Works, SoloInv, Closed, Solo
  <2>3. CASE Begins(r) \/ Saves(r)
    BY <1>2, <2>3 DEF Begins, Saves, RecordAs, Terminal, SoloInv, Closed, Solo
  <2>4. CASE Closes(r)
    BY <1>2, <2>4 DEF Closes, SoloInv, Closed, Solo
  <2>5. CASE TakesOver(r)
    BY <1>2, <2>5 DEF TakesOver, Terminal, SoloInv, Closed
  <2> QED
    BY <2>1, <2>2, <2>3, <2>4, <2>5 DEF Shape
<1>5. Fresh'
  BY <1>2 DEF SoloInv, Fresh, Shape, Stops, Heads, Holds, Works, Begins, Saves,
       Closes, TakesOver
<1>6. ASSUME NEW q \in Runner, run'[q].pc \in Ahead
      PROVE  /\ IsPrefix(record'.input, run'[q].input)
             /\ Len(run'[q].input) <= Len(record'.input) + failures' + 1
             /\ run'[q].pc # "checkpoint" =>
                  Len(run'[q].input) <= Len(record'.input) + failures'
  <2>1. CASE q # r
    <3>1. Active(q) /\ run'[q] = run[q] /\ run[q].pc \in Ahead
      BY <1>6, <2>1
    <3>2. ~ Active(r)
      BY <1>2, <2>1, <3>1 DEF SoloInv, Solo
    <3>3. UNCHANGED record
      BY <3>2 DEF Shape, Stops, Heads, Holds, Works, Begins, Saves, Closes, TakesOver
    <3>4. /\ IsPrefix(record.input, run[q].input)
          /\ Len(run[q].input) <= Len(record.input) + failures + 1
          /\ run[q].pc # "checkpoint" =>
               Len(run[q].input) <= Len(record.input) + failures
      BY <1>2, <3>1 DEF SoloInv, Behind, Near
    <3> QED
      BY <1>1, <3>1, <3>3, <3>4
  <2>2. CASE q = r /\ (Stops(r) \/ Heads(r) \/ Closes(r))
    BY <1>6, <2>2 DEF Stops, Heads, Closes
  <2>3. CASE q = r /\ Holds(r)
    <3>1. IsPrefix(record.input, run[r].input)
          /\ Len(run[r].input) <= Len(record.input) + failures
      BY <1>1, <1>2, <2>3 DEF Holds, SoloInv, Behind, Near
    <3>2. record' = record /\ run'[r].input = run[r].input /\ run'[r].pc # "checkpoint"
      BY <2>3 DEF Holds
    <3> QED
      BY <1>1, <2>3, <3>1, <3>2
  <2>4. CASE q = r /\ Works(r)
    <3>1. PICK s \in StepsOf(run[r].next) : run'[r].input = Append(run[r].input, s)
      BY <2>4 DEF Works
    <3>2. s \in Step
      BY DEF StepsOf
    <3>3. IsPrefix(record.input, run[r].input)
          /\ Len(run[r].input) <= Len(record.input) + failures
      BY <1>1, <1>2, <2>4 DEF Works, SoloInv, Behind, Near
    <3>4. IsPrefix(record.input, run'[r].input)
      BY <1>1, <3>1, <3>2, <3>3, PrefixAppend DEF Trace
    <3>5. Len(run'[r].input) = Len(run[r].input) + 1
      BY <1>1, <3>1, <3>2 DEF Trace
    <3>6. record' = record /\ run'[r].pc = "checkpoint"
      BY <2>4 DEF Works
    <3>7. Len(run'[r].input) <= Len(record'.input) + failures' + 1
      BY <1>1, <3>3, <3>5, <3>6
    <3> QED
      BY <2>4, <3>4, <3>6, <3>7
  <2>5. CASE q = r /\ Begins(r)
    <3>1. run'[r].input = <<>> /\ IsPrefix(record.input, <<>>)
      BY <1>2, <2>5 DEF Begins, SoloInv, Fresh, Behind
    <3>2. record'.input = <<>> \/ record' = record
      BY <2>5 DEF Begins, RecordAs
    <3>3. IsPrefix(<<>>, <<>>)
      BY EmptyTrace, PrefixReflexive DEF Trace
    <3>4. IsPrefix(record'.input, run'[r].input)
      BY <3>1, <3>2, <3>3
    <3>5. Len(run'[r].input) = 0
      BY <3>1
    <3>6. Len(run'[r].input) <= Len(record'.input) + failures'
          /\ Len(run'[r].input) <= Len(record'.input) + failures' + 1
      BY <1>1, <3>5
    <3> QED
      BY <2>5, <3>4, <3>6
  <2>6. CASE q = r /\ Saves(r)
    <3>1. /\ IsPrefix(record.input, run[r].input)
          /\ Len(run[r].input) <= Len(record.input) + failures + 1
          /\ run'[r].input = run[r].input /\ run'[r].pc = "loop"
      BY <1>2, <2>6 DEF Saves, SoloInv, Behind, Near
    <3>2. CASE UNCHANGED record /\ failures' = failures + 1
      <4>1. record'.input = record.input
        BY <3>2
      <4>2. IsPrefix(record'.input, run'[r].input)
        BY <3>1, <4>1
      <4>3. Len(run'[r].input) <= Len(record'.input) + failures'
        <5>1. Len(run'[r].input) <= Len(record'.input) + failures + 1
          BY <3>1, <4>1
        <5>2. ASSUME NEW a \in Nat, NEW b \in Nat, NEW f \in Nat, a <= b + f + 1
              PROVE  a <= b + (f + 1)
          BY <5>2
        <5>3. Len(run'[r].input) <= Len(record'.input) + (failures + 1)
          BY <1>1, <5>1, <5>2
        <5> QED
          BY <3>2, <5>3
      <4>4. Len(run'[r].input) <= Len(record'.input) + failures' + 1
        BY <1>1, <4>3
      <4> QED
        BY <2>6, <4>2, <4>3, <4>4
    <3>3. CASE record' = RecordAs("running", run[r].next, run[r].input, run[r].context)
      <4>1. record'.input = run'[r].input
        BY <3>1, <3>3 DEF RecordAs
      <4>2. IsPrefix(run'[r].input, run'[r].input)
        BY <1>1, PrefixReflexive DEF Trace
      <4> QED
        BY <1>1, <2>6, <3>1, <4>1, <4>2
    <3> QED
      BY <2>6, <3>2, <3>3 DEF Saves
  <2>7. CASE q = r /\ TakesOver(r)
    <3>1. IsPrefix(record.input, record.input)
      BY <1>1, PrefixReflexive DEF Trace
    <3> QED
      BY <1>1, <2>7, <3>1 DEF TakesOver
  <2> QED
    BY <2>1, <2>2, <2>3, <2>4, <2>5, <2>6, <2>7 DEF Shape
<1> QED
  BY <1>3, <1>4, <1>5, <1>6 DEF SoloInv, Behind, Near

\* What a step of the system is, for those who look at the record.
LEMMA NextShape ==
    ASSUME TypeOK, [Next]_vars
    PROVE  \/ \E r \in Runner : Shape(r) /\ Alone(r)
           \/ UNCHANGED <<record, run, failures>>
<1>1. CASE \E r \in Runner : EngineStep(r) \/ BodyStep(r) \/ CallerStep(r)
  BY <1>1, StepShape
<1>2. CASE Cancel \/ UNCHANGED vars
  BY <1>2 DEF Cancel, vars
<1> QED
  BY <1>1, <1>2 DEF Next, Done

\* The first run is alone, in front of a record that does not exist yet.
LEMMA InitSolo == Init => SoloInv
<1> SUFFICES ASSUME Init PROVE SoloInv
  OBVIOUS
<1>1. /\ \A r \in Runner : run[r].input = <<>>
      /\ \A r \in Runner : run[r].pc = IF r = First THEN "spawned" ELSE "idle"
      /\ record.input = <<>> /\ record.phase = "none"
      /\ failures = 0
  BY DEF Init, Rest, RunFrom, RecordAs
<1>2. IsPrefix(<<>>, <<>>) /\ Len(<<>>) = 0
  BY EmptyTrace, PrefixReflexive DEF Trace
<1>3. Solo /\ Closed /\ Fresh
  BY <1>1 DEF Solo, Closed, Fresh, Active, Terminal
<1>4. Behind
  BY <1>1, <1>2 DEF Behind
<1>5. Near
  BY <1>1, <1>2 DEF Near
<1> QED
  BY <1>3, <1>4, <1>5, InitPath, InitContext DEF SoloInv

\* SoloInv is inductive when callers resume only what no run drives.
LEMMA SoloInductive == Exclusive => (SoloInv /\ [Next]_vars => SoloInv')
<1> SUFFICES ASSUME Exclusive, SoloInv, [Next]_vars PROVE SoloInv'
  OBVIOUS
<1>1. TypeOK /\ PathInv' /\ ContextInv'
  BY NextPath, NextContext DEF SoloInv, PathInv
<1>2. CASE UNCHANGED <<record, run, failures>>
  BY <1>1, <1>2 DEF SoloInv, Solo, Closed, Fresh, Behind, Near, Active
<1>3. ASSUME NEW r \in Runner, Shape(r), Alone(r) PROVE SoloInv'
  BY <1>1, <1>3, NextSolo
<1> QED
  BY <1>1, <1>2, <1>3, NextShape

-----------------------------------------------------------------------------
(* What follows.                                                           *)

\* A crash makes resume repeat the task in flight and, for every write the
\* store lost, one task more.
THEOREM ReworkBounded == ASSUME Exclusive PROVE Spec => []BoundedRework
<1>1. SoloInv => BoundedRework
  <2> SUFFICES ASSUME SoloInv, NEW r \in Runner, Driving(r)
               PROVE  Len(run[r].input) <=
                        Len(record.input) + failures + (IF run[r].pc = "checkpoint" THEN 1 ELSE 0)
    BY DEF BoundedRework
  <2>1. /\ Len(run[r].input) <= Len(record.input) + failures + 1
        /\ run[r].pc # "checkpoint" => Len(run[r].input) <= Len(record.input) + failures
    BY DEF SoloInv, Near, Driving, Ahead
  <2>2. run[r].input \in Trace /\ record.input \in Trace /\ failures \in Nat
    BY BoundAssumption DEF SoloInv, PathInv, TypeOK, RunState, Record
  <2>3. Len(run[r].input) \in Nat /\ Len(record.input) \in Nat
    BY <2>2 DEF Trace
  <2>4. CASE run[r].pc = "checkpoint"
    BY <2>1, <2>4
  <2>5. CASE run[r].pc # "checkpoint"
    BY <2>1, <2>2, <2>3, <2>5
  <2> QED
    BY <2>4, <2>5
<1> QED
  BY <1>1, InitSolo, SoloInductive, PTL DEF Spec

\* A terminal record is never written again.
THEOREM TerminalFinal == ASSUME Exclusive PROVE Spec => TerminalIsFinal
<1>1. SoloInv /\ [Next]_vars => [record.phase \in Terminal => UNCHANGED record]_record
  <2> SUFFICES ASSUME SoloInv, [Next]_vars, record.phase \in Terminal
               PROVE  UNCHANGED record
    OBVIOUS
  <2>1. \A r \in Runner : Active(r) => run[r].pc = "terminalEvent"
    BY DEF SoloInv, Closed
  <2>2. ASSUME NEW r \in Runner, Shape(r) PROVE UNCHANGED record
    BY <2>1, <2>2 DEF Shape, Stops, Heads, Holds, Works, Begins, Saves, Closes,
         TakesOver, Active
  <2> QED
    BY <2>2, NextShape DEF SoloInv, PathInv
<1> QED
  BY <1>1, InitSolo, SoloInductive, PTL DEF Spec, TerminalIsFinal

\* What the checkpoint covers is never executed again.
THEOREM NoRework == ASSUME Exclusive PROVE Spec => NoWorkBehindCheckpoint
<1>1. SoloInv => \A r \in Runner : run[r].pc = "loop" =>
                   record.phase \in {"none", "running"} /\ IsPrefix(record.input, run[r].input)
  <2> SUFFICES ASSUME SoloInv, NEW r \in Runner, run[r].pc = "loop"
               PROVE  record.phase \in {"none", "running"} /\ IsPrefix(record.input, run[r].input)
    OBVIOUS
  <2>1. record.phase \in Phases
    BY DEF SoloInv, PathInv, TypeOK, Record
  <2>2. record.phase \notin Terminal
    BY DEF SoloInv, Closed, Active
  <2>3. IsPrefix(record.input, run[r].input)
    BY DEF SoloInv, Behind, Ahead
  <2> QED
    BY <2>1, <2>2, <2>3 DEF Phases
<1>2. SoloInv /\ [Next]_vars =>
        [\A r \in Runner : run[r].pc = "loop" /\ run'[r].pc = "body" =>
            record.phase \in {"none", "running"} /\ IsPrefix(record.input, run[r].input)]_vars
  BY <1>1
<1> QED
  BY <1>2, InitSolo, SoloInductive, PTL DEF Spec, NoWorkBehindCheckpoint

\* The abstract specification speaks of the same workflow.
LEMMA SameWorkflow ==
    /\ Durable!Terminal = Terminal
    /\ \A s, t : Durable!IsPrefix(s, t) <=> IsPrefix(s, t)
    /\ \A t, n : Durable!PathTo(t, n) <=> PathTo(t, n)
    /\ \A c, t : Durable!LastExport(c, t) <=> LastExport(c, t)
<1>1. \A s : Durable!Last(s) = Last(s)
  BY DEF Durable!Last, Last
<1>2. \A t, n : Durable!Leads(t, n) <=> Leads(t, n)
  BY DEF Durable!Leads, Leads, Durable!Task, Task
<1>3. \A s, t : Durable!IsPrefix(s, t) <=> IsPrefix(s, t)
  BY DEF Durable!IsPrefix, IsPrefix
<1>4. \A t, n : Durable!PathTo(t, n) <=> PathTo(t, n)
  BY <1>1, <1>2 DEF Durable!PathTo, PathTo
<1>5. \A c, t : Durable!LastExport(c, t) <=> LastExport(c, t)
  BY <1>1, <1>3 DEF Durable!LastExport, LastExport
<1> QED
  BY <1>3, <1>4, <1>5 DEF Durable!Terminal, Terminal

\* A step of the system is a step of the durable execution, or none.
LEMMA NextDurable == SoloInv /\ SoloInv' /\ [Next]_vars => [Durable!Next]_(Durable!vars)
<1> SUFFICES ASSUME SoloInv, SoloInv', NEW r \in Runner, Shape(r), record' # record
             PROVE  Durable!Next
  BY NextShape DEF SoloInv, PathInv, Durable!vars
<1> USE DEF Durable!Next
<1>0. /\ record.phase \in Phases /\ record.input \in Trace
      /\ run[r].input \in Trace
  BY DEF SoloInv, PathInv, TypeOK, Record, RunState
<1>1. CASE Begins(r) \/ Saves(r)
  <2>1. \/ record' = RecordAs("running", 0, <<>>, <<>>) /\ run[r].input = <<>>
        \/ record' = RecordAs("running", run[r].next, run[r].input, run[r].context)
    BY <1>1 DEF Begins, Saves, SoloInv, Fresh, Starting
  <2>2. record.phase \in {"none", "running"}
    BY <1>0, <1>1 DEF Begins, Saves, SoloInv, Closed, Active, Phases
  <2>3. record'.phase = "running" /\ record'.input = run[r].input
    BY <2>1 DEF RecordAs
  <2>4. IsPrefix(record.input, record'.input)
    BY <1>1, <2>3 DEF Begins, Saves, SoloInv, Behind, Ahead
  <2>5. PathTo(record'.input, record'.next)
    BY DEF SoloInv, PathInv
  <2>6. LastExport(record'.context, record'.input)
    BY <2>3 DEF SoloInv, ContextInv, ContextStored, Terminal
  <2> QED
    BY <2>2, <2>3, <2>4, <2>5, <2>6, SameWorkflow DEF Durable!Advance
<1>2. CASE Closes(r)
  <2>1. record' = RecordAs(PhaseOf(run[r].outcome), 0, <<>>, run[r].context)
    BY <1>2 DEF Closes
  <2>2. record.phase \in {"none", "running"}
    BY <1>0, <1>2 DEF Closes, SoloInv, Closed, Active, Phases
  <2>3. PhaseOf(run[r].outcome) \in Terminal
    BY DEF PhaseOf, Terminal
  <2> QED
    BY <2>1, <2>2, <2>3, SameWorkflow DEF Durable!Finish, RecordAs
<1> QED
  BY <1>1, <1>2 DEF Shape, Stops, Heads, Holds, Works, TakesOver

\* Whoever looks at the store sees a durable execution.
THEOREM Durability == ASSUME Exclusive PROVE Spec => RefinesDurable
<1>1. Init => Durable!Init
  BY DEF Init, Durable!Init, RecordAs
<1> QED
  BY <1>1, InitSolo, SoloInductive, NextDurable, PTL DEF Spec, RefinesDurable, Durable!Spec

-----------------------------------------------------------------------------
(* What is told of the end: the events and the outcomes.                   *)

\* The terminal events in the log.
Told == events["workflow.completed"] + events["workflow.cancelled"]
            + events["workflow.faulted"]

Final == IF record.phase \in Terminal THEN 1 ELSE 0
Drops == IF Dropped THEN 1 ELSE 0

\* Every terminal event but the one of the record is paid for by a lost write;
\* the event that a run is about to append is not in the log yet.
EventsPaid ==
    /\ Told <= failures + Final
    /\ \A r \in Runner : run[r].pc = "terminalEvent" => Told + 1 <= failures + Final

\* With a store that loses nothing, events and outcomes say what the record says.
EventsTrue ==
    failures = 0 =>
        /\ events["workflow.completed"] > 0 => record.phase = "completed"
        /\ events["workflow.cancelled"] > 0 => record.phase = "cancelled"
        /\ events["workflow.faulted"] > 0 => record.phase = "faulted"
        /\ \A r \in Runner : run[r].pc = "terminalEvent" =>
                                record.phase = PhaseOf(run[r].outcome)
        /\ \A r \in Runner : run[r].pc = "returned" /\ run[r].outcome = "completed" =>
                                record.phase = "completed"

\* A completion is announced once more only behind a loss, unless its record is
\* stored or about to be.
AnnouncedOnce ==
    \/ published <= crashes + failures + Drops
    \/ /\ published <= crashes + failures + Drops + 1
       /\ record.phase \in Terminal \/ \E r \in Runner : run[r].pc = "terminal"

TellInv == EventsPaid /\ EventsTrue /\ AnnouncedOnce

TerminalTypes == {"workflow.completed", "workflow.cancelled", "workflow.faulted"}

\* The shapes of a step of run r, as far as the events, the outcomes and the
\* counters are concerned.

\* Nothing is told, and nothing is on its way to be.
Mute(r) ==
    /\ UNCHANGED <<published, crashes>>
    /\ failures' = failures \/ failures' = failures + 1
    /\ \A e \in TerminalTypes : events'[e] = events[e]
    /\ record' = record \/ record'.phase = "running"
    /\ run[r].pc \notin {"terminal", "terminalEvent", "returned"}
    /\ run'[r].pc # "terminalEvent"
    /\ run'[r].pc = "returned" => run'[r].outcome # "completed"

\* The lifecycle event goes out.
Announces(r) ==
    /\ UNCHANGED <<record, events, crashes, failures>>
    /\ published' = published + 1
    /\ run[r].pc = "announce" /\ run'[r].pc = "terminal"

\* The terminal record is written, or lost.
Writes(r) ==
    /\ UNCHANGED <<events, published, crashes>>
    /\ run[r].pc = "terminal" /\ run'[r].pc = "terminalEvent"
    /\ run'[r].outcome = run[r].outcome
    /\ \/ record'.phase = PhaseOf(run[r].outcome) /\ UNCHANGED failures
       \/ UNCHANGED record /\ failures' = failures + 1

\* The terminal event is appended, or lost.
Logs(r) ==
    /\ UNCHANGED <<record, published, crashes>>
    /\ run[r].pc = "terminalEvent" /\ run'[r].pc = "returned"
    /\ run'[r].outcome = run[r].outcome
    /\ \/ /\ events' = [events EXCEPT ![EventOf(PhaseOf(run[r].outcome))] = @ + 1]
          /\ UNCHANGED failures
       \/ UNCHANGED events /\ failures' = failures + 1

\* The run is lost, with its process, its caller or its timeout.
Falls(r) ==
    /\ UNCHANGED <<record, events, published, failures>>
    /\ Active(r)
    /\ \/ run'[r].pc = "crashed" /\ crashes' = crashes + 1
       \/ /\ r = First /\ UNCHANGED crashes
          /\ run'[r].pc = "returned" /\ run'[r].outcome \in {"cancelled", "timeout"}

Telling(r) == Mute(r) \/ Announces(r) \/ Writes(r) \/ Logs(r) \/ Falls(r)

\* Every action of a run has one of these shapes.
LEMMA StepTelling ==
    ASSUME TypeOK, NEW r \in Runner, EngineStep(r) \/ BodyStep(r) \/ CallerStep(r)
    PROVE  Telling(r)
<1> USE DEF Telling, TerminalTypes
<1>0. run \in [Runner -> RunState]
      /\ events \in [EventTypes -> Nat]
  BY DEF TypeOK
<1>1. CASE RunWithCancel(r) \/ LeaveScope(r) \/ StartTask(r)
  BY <1>0, <1>1 DEF RunWithCancel, LeaveScope, StartTask, Goes, Mute, RunState
<1>2. CASE ApplyInput(r)
  BY <1>0, <1>2 DEF ApplyInput, Goes, Ends, Rest, RunFrom, Mute, RunState
<1>3. CASE PersistStarted(r) \/ Checkpoint(r)
  BY <1>0, <1>3 DEF PersistStarted, Checkpoint, Goes, Save, StoreFails, RecordAs, Mute, RunState
<1>4. CASE AppendStarted(r)
  BY <1>0, <1>4 DEF AppendStarted, Goes, AppendEvent, StoreFails, EventTypes, Mute, RunState
<1>5. CASE ObserveCancel(r) \/ ApplyOutput(r)
  BY <1>0, <1>5 DEF ObserveCancel, ApplyOutput, Leaves, Mute, RunState
<1>6. CASE FinishTask(r)
  <2>1. ASSUME NEW s, NEW pc, NEW n, Moves(r, s, pc, n) PROVE run'[r].pc = pc
    BY <1>0, <2>1 DEF Moves, Stepped, RunState
  <2>2. run'[r].pc \in {"checkpoint", "output"}
    BY <1>6, <2>1 DEF FinishTask
  <2> QED
    BY <1>6, <2>2 DEF FinishTask, Mute
<1>7. CASE FaultGoto(r)
  <2>1. run'[r].pc = "terminal"
    BY <1>0, <1>7 DEF FaultGoto, Stepped, RunState
  <2> QED
    BY <1>7, <2>1 DEF FaultGoto, Mute
<1>8. CASE FaultTask(r) \/ CancelInTask(r) \/ TaskTimeout(r)
  <2>1. PICK outcome : Breaks(r, outcome)
    BY <1>8 DEF FaultTask, CancelInTask, TaskTimeout
  <2>2. run'[r].pc = "terminal"
    BY <1>0, <2>1 DEF Breaks, RunState
  <2> QED
    BY <2>1, <2>2 DEF Breaks, Mute
<1>9. CASE Announce(r)
  BY <1>0, <1>9 DEF Announce, Goes, Announces, RunState
<1>10. CASE PersistTerminal(r)
  BY <1>0, <1>10 DEF PersistTerminal, Goes, Save, StoreFails, RecordAs, Writes, RunState
<1>11. CASE AppendTerminal(r)
  BY <1>0, <1>11 DEF AppendTerminal, AppendEvent, StoreFails, Ends, Rest, RunFrom, Logs, RunState
<1>12. CASE DropCancelled(r) \/ DropTimedOut(r) \/ Crash(r)
  BY <1>0, <1>12 DEF DropCancelled, DropTimedOut, Crash, Ends, Rest, RunFrom, Falls
<1>13. CASE Resume(r)
  BY <1>0, <1>13 DEF Resume, MayResume, RunFrom, Mute
<1>14. CASE RejectResume(r)
  BY <1>0, <1>14 DEF RejectResume, MayResume, StoreFails, Ends, Rest, RunFrom, Mute
<1> QED
  BY <1>1, <1>2, <1>3, <1>4, <1>5, <1>6, <1>7, <1>8, <1>9, <1>10, <1>11, <1>12, <1>13, <1>14
  DEF EngineStep, BodyStep, CallerStep

\* The runs and the counters that the events are weighed against.
LEMMA TellTypes ==
    ASSUME TypeOK, TypeOK'
    PROVE  /\ run \in [Runner -> RunState] /\ run' \in [Runner -> RunState]
           /\ events \in [EventTypes -> Nat] /\ events' \in [EventTypes -> Nat]
           /\ TerminalTypes \subseteq EventTypes
           /\ failures \in Nat /\ failures' \in Nat /\ crashes \in Nat /\ crashes' \in Nat
           /\ published \in Nat /\ published' \in Nat /\ Told \in Nat /\ Told' \in Nat
  BY BoundAssumption DEF TypeOK, EventTypes, TerminalTypes, Told

\* What pays for t told things still does when more was lost.
LEMMA StillPaid ==
    ASSUME NEW t \in Nat, NEW f \in Nat, NEW g \in Nat, NEW a \in Nat, NEW b \in Nat,
           f <= g, a <= b
    PROVE  /\ t <= f + a => t <= g + b
           /\ t + 1 <= f + a => t + 1 <= g + b
           /\ t <= f + a /\ f + 1 <= g => t + 1 <= g + b
           /\ t <= f + a /\ a + 1 <= b => t + 1 <= g + b
OBVIOUS

LEMMA OneLess ==
    ASSUME NEW t \in Nat, NEW f \in Nat, NEW a \in Nat, t + 1 <= f + a
    PROVE  t <= f + a
OBVIOUS

\* The same for announcements, which crashes and drops pay for as well: the sum that
\* may be owed, before a step and after it.
LEMMA SumGrows ==
    ASSUME NEW c \in Nat, NEW f \in Nat, NEW d \in Nat,
           NEW c2 \in Nat, NEW f2 \in Nat, NEW d2 \in Nat, c <= c2, f <= f2, d <= d2
    PROVE  /\ c + f + d \in Nat /\ c2 + f2 + d2 \in Nat
           /\ c + f + d <= c2 + f2 + d2
           /\ c + 1 <= c2 \/ f + 1 <= f2 \/ d + 1 <= d2 => c + f + d + 1 <= c2 + f2 + d2
OBVIOUS

\* A terminal record stays, as long as nobody resumes what runs.
LEMMA FinalStays ==
    ASSUME SoloInv, NEW r \in Runner, Shape(r), record.phase \in Terminal
    PROVE  UNCHANGED record
  BY DEF SoloInv, Closed, Shape, Stops, Heads, Holds, Works, Begins, Saves, Closes,
       TakesOver, Active

\* The first run is dropped for good.
LEMMA DropStays ==
    ASSUME NEW r \in Runner, Telling(r), Alone(r), TypeOK
    PROVE  Drops \in Nat /\ Drops' \in Nat /\ Drops <= Drops'
<1>1. ASSUME run[First].pc = "returned" PROVE run'[First] = run[First]
  BY <1>1, RunnerAssumption DEF Telling, Mute, Announces, Writes, Logs, Falls, Alone, Active
<1>2. Dropped => Dropped'
  BY <1>1 DEF Dropped
<1> QED
  BY <1>2 DEF Drops

\* EventsPaid is kept.
LEMMA EventsPaidKept ==
    ASSUME SoloInv, SoloInv', TellInv, NEW r \in Runner, Telling(r), Shape(r), Alone(r)
    PROVE  EventsPaid'
<1>0. TypeOK /\ TypeOK'
  BY DEF SoloInv, PathInv
<1>1. /\ failures \in Nat /\ failures' \in Nat /\ Told \in Nat /\ Told' \in Nat
      /\ run \in [Runner -> RunState] /\ run' \in [Runner -> RunState]
  BY <1>0, TellTypes
<1>2. Final \in Nat /\ Final' \in Nat /\ Final <= Final'
  BY FinalStays DEF Final
<1>3. failures' = failures \/ failures' = failures + 1
  BY DEF Telling, Mute, Announces, Writes, Logs, Falls
<1>4. failures <= failures'
  BY <1>1, <1>3
<1>5. /\ Told <= failures + Final
      /\ \A q \in Runner : run[q].pc = "terminalEvent" => Told + 1 <= failures + Final
  BY DEF TellInv, EventsPaid
<1>6. \A q \in Runner : q # r /\ run'[q].pc = "terminalEvent" => run[q].pc = "terminalEvent"
  BY DEF Alone
<1>7. CASE Mute(r) \/ Announces(r) \/ Falls(r)
  <2>1. Told' = Told
    BY <1>7 DEF Mute, Announces, Falls, TerminalTypes, Told
  <2>2. run'[r].pc # "terminalEvent"
    BY <1>7 DEF Mute, Announces, Falls
  <2>3. Told' <= failures' + Final'
    BY <1>1, <1>2, <1>4, <1>5, <2>1, StillPaid
  <2>4. Told + 1 <= failures + Final => Told' + 1 <= failures' + Final'
    BY <1>1, <1>2, <1>4, <2>1, StillPaid
  <2> QED
    BY <1>5, <1>6, <2>2, <2>3, <2>4 DEF EventsPaid
<1>8. CASE Writes(r)
  <2>1. Told' = Told /\ run[r].pc = "terminal"
    BY <1>8 DEF Writes, Told
  <2>2. record.phase \notin Terminal
    BY <2>1 DEF SoloInv, Closed, Active
  <2>5. Told' + 1 <= failures' + Final'
    <3>1. CASE record'.phase = PhaseOf(run[r].outcome)
      <4>1. Final = 0 /\ Final' = 1
        BY <2>2, <3>1 DEF Final, PhaseOf, Terminal
      <4>2. Final + 1 <= Final'
        BY <4>1
      <4> QED
        BY <1>1, <1>2, <1>4, <1>5, <2>1, <4>2, StillPaid
    <3>2. CASE failures' = failures + 1
      <4>1. failures + 1 <= failures'
        BY <1>1, <3>2
      <4> QED
        BY <1>1, <1>2, <1>4, <1>5, <2>1, <4>1, StillPaid
    <3> QED
      BY <1>8, <3>1, <3>2 DEF Writes
  <2>6. Told' <= failures' + Final'
    BY <1>1, <1>2, <2>5, OneLess
  <2> QED
    BY <2>5, <2>6 DEF EventsPaid
<1>9. CASE Logs(r)
  <2>1. run[r].pc = "terminalEvent" /\ run'[r].pc = "returned"
    BY <1>9 DEF Logs
  <2>2. \A q \in Runner : run'[q].pc # "terminalEvent"
    BY <1>6, <2>1 DEF SoloInv, Solo, Active
  <2>3. Told + 1 <= failures + Final
    BY <1>5, <2>1
  <2>6. Told' <= failures' + Final'
    <3>1. CASE UNCHANGED events
      <4>1. Told' = Told
        BY <3>1 DEF Told
      <4> QED
        BY <1>1, <1>2, <1>4, <1>5, <4>1, StillPaid
    <3>2. CASE events' = [events EXCEPT ![EventOf(PhaseOf(run[r].outcome))] = @ + 1]
      <4>1. EventOf(PhaseOf(run[r].outcome)) \in TerminalTypes
        BY DEF EventOf, TerminalTypes
      <4>2. events \in [EventTypes -> Nat] /\ TerminalTypes \subseteq EventTypes
        BY <1>0, TellTypes
      <4>3. Told' = Told + 1
        BY <3>2, <4>1, <4>2 DEF Told, TerminalTypes
      <4>4. Told' <= failures + Final
        BY <2>3, <4>3
      <4> QED
        BY <1>1, <1>2, <1>4, <4>4, StillPaid
    <3> QED
      BY <1>9, <3>1, <3>2 DEF Logs
  <2> QED
    BY <2>2, <2>6 DEF EventsPaid
<1> QED
  BY <1>7, <1>8, <1>9 DEF Telling

\* EventsTrue is kept.
LEMMA EventsTrueKept ==
    ASSUME SoloInv, SoloInv', TellInv, NEW r \in Runner, Telling(r), Shape(r), Alone(r)
    PROVE  EventsTrue'
<1> SUFFICES ASSUME failures' = 0 PROVE EventsTrue'
  BY DEF EventsTrue
<1>0. TypeOK /\ TypeOK'
  BY DEF SoloInv, PathInv
<1>1. /\ run \in [Runner -> RunState] /\ run' \in [Runner -> RunState]
      /\ events \in [EventTypes -> Nat] /\ events' \in [EventTypes -> Nat]
      /\ TerminalTypes \subseteq EventTypes
      /\ failures = 0 /\ \A q \in Runner \ {r} : run'[q] = run[q]
  BY <1>0, TellTypes DEF Alone
<1>2. /\ events["workflow.completed"] > 0 => record.phase = "completed"
      /\ events["workflow.cancelled"] > 0 => record.phase = "cancelled"
      /\ events["workflow.faulted"] > 0 => record.phase = "faulted"
      /\ \A q \in Runner : run[q].pc = "terminalEvent" => record.phase = PhaseOf(run[q].outcome)
      /\ \A q \in Runner : run[q].pc = "returned" /\ run[q].outcome = "completed" =>
                              record.phase = "completed"
  BY <1>1 DEF TellInv, EventsTrue
<1>3. \A o : PhaseOf(o) \in Terminal
  BY DEF PhaseOf, Terminal
<1>4. record.phase \in Terminal => record' = record
  BY FinalStays
<1>5. ASSUME NEW q \in Runner, q # r
      PROVE  /\ run'[q].pc = "terminalEvent" => record'.phase = PhaseOf(run'[q].outcome)
             /\ run'[q].pc = "returned" /\ run'[q].outcome = "completed" => record'.phase = "completed"
  BY <1>1, <1>2, <1>3, <1>4, <1>5 DEF Terminal
<1>6. ASSUME \A e \in TerminalTypes : events'[e] = events[e]
      PROVE  /\ events'["workflow.completed"] > 0 => record'.phase = "completed"
             /\ events'["workflow.cancelled"] > 0 => record'.phase = "cancelled"
             /\ events'["workflow.faulted"] > 0 => record'.phase = "faulted"
  BY <1>2, <1>4, <1>6 DEF Terminal, TerminalTypes
<1>7. CASE Mute(r) \/ Announces(r) \/ Falls(r)
  <2>1. \A e \in TerminalTypes : events'[e] = events[e]
    BY <1>7 DEF Mute, Announces, Falls
  <2>2. run'[r].pc # "terminalEvent" /\ (run'[r].pc = "returned" => run'[r].outcome # "completed")
    BY <1>7 DEF Mute, Announces, Falls
  <2> QED
    BY <1>5, <1>6, <2>1, <2>2 DEF EventsTrue
<1>8. CASE Writes(r)
  <2>1. \A e \in TerminalTypes : events'[e] = events[e]
    BY <1>8 DEF Writes
  <2>2. record'.phase = PhaseOf(run'[r].outcome) /\ run'[r].pc = "terminalEvent"
    BY <1>1, <1>8 DEF Writes
  <2> QED
    BY <1>5, <1>6, <2>1, <2>2 DEF EventsTrue
<1>9. CASE Logs(r)
  <2>1. /\ record' = record /\ run'[r].pc = "returned" /\ run'[r].outcome = run[r].outcome
        /\ record.phase = PhaseOf(run[r].outcome)
        /\ events' = [events EXCEPT ![EventOf(PhaseOf(run[r].outcome))] = @ + 1]
    BY <1>1, <1>2, <1>9 DEF Logs
  <2>2. EventOf(record.phase) \in TerminalTypes /\ EventOf(record.phase) \in EventTypes
    BY DEF EventOf, TerminalTypes, EventTypes
  <2>3. \A e \in TerminalTypes : e # EventOf(record.phase) => events'[e] = events[e]
    BY <1>1, <2>1
  <2>4. /\ events'["workflow.completed"] > 0 => record.phase = "completed"
        /\ events'["workflow.cancelled"] > 0 => record.phase = "cancelled"
        /\ events'["workflow.faulted"] > 0 => record.phase = "faulted"
    BY <1>2, <1>3, <2>1, <2>3 DEF EventOf, TerminalTypes, Terminal
  <2>5. run'[r].outcome = "completed" => record'.phase = "completed"
    BY <2>1 DEF PhaseOf
  <2> QED
    BY <1>5, <2>1, <2>4, <2>5 DEF EventsTrue
<1> QED
  BY <1>7, <1>8, <1>9 DEF Telling

\* AnnouncedOnce is kept.
LEMMA AnnouncedOnceKept ==
    ASSUME SoloInv, SoloInv', TellInv, NEW r \in Runner, Telling(r), Shape(r), Alone(r)
    PROVE  AnnouncedOnce'
<1>0. TypeOK /\ TypeOK'
  BY DEF SoloInv, PathInv
<1>1. /\ failures \in Nat /\ failures' \in Nat /\ crashes \in Nat /\ crashes' \in Nat
      /\ published \in Nat /\ published' \in Nat
  BY <1>0, TellTypes
<1>2. Drops \in Nat /\ Drops' \in Nat /\ Drops <= Drops'
  BY <1>0, DropStays
<1>3. /\ failures' = failures \/ failures' = failures + 1
      /\ crashes' = crashes \/ crashes' = crashes + 1
  BY DEF Telling, Mute, Announces, Writes, Logs, Falls
<1>4. failures <= failures' /\ crashes <= crashes'
  BY <1>1, <1>3
<1> DEFINE owed  == crashes + failures + Drops
           later == crashes' + failures' + Drops'
<1>5. /\ owed \in Nat /\ later \in Nat /\ owed <= later
      /\ crashes + 1 <= crashes' \/ failures + 1 <= failures' \/ Drops + 1 <= Drops' => owed + 1 <= later
  BY <1>1, <1>2, <1>4, SumGrows
<1>6. \/ published <= owed
      \/ /\ published <= owed + 1
         /\ record.phase \in Terminal \/ \E q \in Runner : run[q].pc = "terminal"
  BY DEF TellInv, AnnouncedOnce
<1>7. \/ published' <= later
      \/ /\ published' <= later + 1
         /\ record'.phase \in Terminal \/ \E q \in Runner : run'[q].pc = "terminal"
      => AnnouncedOnce'
  BY DEF AnnouncedOnce
<1> HIDE DEF owed, later
<1>8. record.phase \in Terminal => record'.phase \in Terminal
  BY FinalStays
<1>9. \/ published <= later
      \/ /\ published <= later + 1
         /\ record.phase \in Terminal \/ \E q \in Runner : run[q].pc = "terminal"
  BY <1>1, <1>5, <1>6
<1>10. published <= later + 1
  BY <1>1, <1>5, <1>9
<1>11. CASE Mute(r)
  <2>1. \A q \in Runner : run[q].pc = "terminal" => run'[q].pc = "terminal"
    BY <1>11 DEF Mute, Alone
  <2>2. published' = published
    BY <1>11 DEF Mute
  <2> QED
    BY <1>7, <1>8, <1>9, <2>1, <2>2
<1>12. CASE Announces(r)
  <2>1. record.phase \notin Terminal /\ \A q \in Runner : run[q].pc # "terminal"
    BY <1>12 DEF Announces, SoloInv, Closed, Solo, Active
  <2>2. published' = published + 1 /\ run'[r].pc = "terminal"
    BY <1>12 DEF Announces
  <2>3. published <= owed
    BY <1>6, <2>1
  <2>4. published' <= later + 1
    BY <1>1, <1>5, <2>2, <2>3
  <2> QED
    BY <1>7, <2>2, <2>4
<1>13. CASE Writes(r)
  <2>1. published' = published
    BY <1>13 DEF Writes
  <2>2. CASE record'.phase = PhaseOf(run[r].outcome)
    <3>1. record'.phase \in Terminal
      BY <2>2 DEF PhaseOf, Terminal
    <3> QED
      BY <1>7, <1>10, <2>1, <3>1
  <2>3. CASE failures' = failures + 1
    <3>1. owed + 1 <= later
      BY <1>1, <1>5, <2>3
    <3>2. published <= later
      BY <1>1, <1>5, <1>6, <3>1
    <3> QED
      BY <1>7, <2>1, <3>2
  <2> QED
    BY <1>13, <2>2, <2>3 DEF Writes
<1>14. CASE Logs(r)
  <2>1. published' = published
    BY <1>14 DEF Logs
  <2>2. \A q \in Runner : run[q].pc # "terminal"
    BY <1>14 DEF Logs, SoloInv, Solo, Active
  <2> QED
    BY <1>7, <1>8, <1>9, <2>1, <2>2
<1>15. CASE Falls(r)
  <2>1. published' = published
    BY <1>15 DEF Falls
  <2>2. crashes + 1 <= crashes' \/ Drops + 1 <= Drops'
    <3>1. CASE crashes' = crashes + 1
      BY <1>1, <3>1
    <3>2. CASE r = First /\ run'[r].pc = "returned" /\ run'[r].outcome \in {"cancelled", "timeout"}
      <4>1. Drops = 0 /\ Drops' = 1
        BY <1>15, <3>2 DEF Falls, Active, Drops, Dropped
      <4> QED
        BY <4>1
    <3> QED
      BY <1>15, <3>1, <3>2 DEF Falls
  <2>3. owed + 1 <= later
    BY <1>5, <2>2
  <2>4. published <= later
    BY <1>1, <1>5, <1>6, <2>3
  <2> QED
    BY <1>7, <2>1, <2>4
<1> QED
  BY <1>11, <1>12, <1>13, <1>14, <1>15 DEF Telling

\* What the counters hold at the start.
LEMMA InitTell == Init => TellInv
<1> SUFFICES ASSUME Init PROVE TellInv
  OBVIOUS
<1>1. /\ \A r \in Runner : run[r].pc = IF r = First THEN "spawned" ELSE "idle"
      /\ events["workflow.completed"] = 0 /\ events["workflow.cancelled"] = 0
      /\ events["workflow.faulted"] = 0
      /\ failures = 0 /\ crashes = 0 /\ published = 0 /\ record.phase = "none"
  BY DEF Init, Rest, RunFrom, EventTypes, RecordAs
<1>2. Told = 0 /\ Final = 0 /\ Drops \in Nat
  BY <1>1 DEF Told, Final, Terminal, Drops
<1> QED
  BY <1>1, <1>2 DEF TellInv, EventsPaid, EventsTrue, AnnouncedOnce

\* Both invariants together.
LEMMA TellInductive == Exclusive => (SoloInv /\ TellInv /\ [Next]_vars => TellInv')
<1> SUFFICES ASSUME Exclusive, SoloInv, TellInv, [Next]_vars PROVE TellInv'
  OBVIOUS
<1>1. SoloInv'
  BY SoloInductive
<1>2. TypeOK
  BY DEF SoloInv, PathInv
<1>3. CASE Cancel \/ UNCHANGED vars
  <2>1. UNCHANGED <<record, events, run, published, failures, crashes>>
    BY <1>3 DEF Cancel, vars
  <2> QED
    BY <2>1 DEF TellInv, EventsPaid, EventsTrue, AnnouncedOnce, Told, Final, Drops, Dropped
<1>4. ASSUME NEW r \in Runner, EngineStep(r) \/ BodyStep(r) \/ CallerStep(r)
      PROVE  TellInv'
  BY <1>1, <1>2, <1>4, StepShape, StepTelling, EventsPaidKept, EventsTrueKept, AnnouncedOnceKept
  DEF TellInv
<1> QED
  BY <1>3, <1>4 DEF Next, Done

\* One terminal event for the record and for every one that the store lost; the
\* lifecycle event goes out again only behind a loss (persist_terminal).
THEOREM EventsMatch == ASSUME Exclusive PROVE Spec => []TerminalEvents
<1>1. TellInv /\ TypeOK => TerminalEvents
  <2> SUFFICES ASSUME TellInv, TypeOK PROVE TerminalEvents
    OBVIOUS
  <2>1. failures \in Nat /\ crashes \in Nat /\ published \in Nat /\ Told \in Nat
    BY BoundAssumption DEF TypeOK, EventTypes, Told
  <2>2. Told <= 1 + failures
    BY <2>1 DEF TellInv, EventsPaid, Final
  <2>3. published <= 1 + crashes + failures + Drops
    BY <2>1 DEF TellInv, AnnouncedOnce, Drops
  <2> QED
    BY <2>2, <2>3 DEF TellInv, EventsTrue, TerminalEvents, Told, Drops
<1>2. SoloInv => TypeOK
  BY DEF SoloInv, PathInv
<1> QED
  BY <1>1, <1>2, InitSolo, InitTell, SoloInductive, TellInductive, PTL DEF Spec

\* A caller that is told Ok finds the completed record in a working store.
THEOREM OkStored == ASSUME Exclusive PROVE Spec => []OkIsStored
<1>1. TellInv => OkIsStored
  BY DEF TellInv, EventsTrue, OkIsStored
<1> QED
  BY <1>1, InitSolo, InitTell, SoloInductive, TellInductive, PTL DEF Spec

-----------------------------------------------------------------------------
(* A run goes through the top-level scope as `Walk` says.                  *)

\* A run has no outcome before it leaves the scope, and is in a task only where
\* there is one.
TopKept(s) ==
    /\ s.pc \in Ahead => s.outcome = "none"
    /\ s.pc = "body" => s.next < NTasks

TopInv == \A r \in Runner : TopKept(run[r])

\* The steps of a run in the scope from s to t; `stop` is its cancellation.
Keeps(s, t)  == t.next = s.next /\ t.ended = s.ended /\ t.outcome = s.outcome
Saved(s, t)  == s.pc = "checkpoint" /\ t.pc = "loop" /\ Keeps(s, t)
Observes(s, t, stop) ==
    /\ s.pc = "loop" /\ stop
    /\ t.pc = "terminal" /\ t.outcome = "cancelled" /\ t.ended = s.ended
Departs(s, t, stop) ==
    /\ s.pc = "loop" /\ ~ stop /\ (s.ended \/ s.next >= NTasks)
    /\ t.pc = "output" /\ Keeps(s, t)
Enters(s, t, stop) ==
    /\ s.pc = "loop" /\ ~ stop /\ ~ s.ended /\ s.next < NTasks
    /\ t.pc = "body" /\ Keeps(s, t)
MayHaveEnded(s, t) == t.ended \in {s.ended, TRUE}
Follows(s, t) ==
    /\ s.pc = "body" /\ t.pc = "checkpoint"
    /\ Leads(s.next, t.next) /\ MayHaveEnded(s, t) /\ t.outcome = s.outcome
Quits(s, t) ==
    /\ s.pc = "body" /\ t.pc = "output" /\ t.outcome = s.outcome
    /\ \E d \in Flow[s.next] :
          \/ d.kind = "exit" /\ MayHaveEnded(s, t)
          \/ d.kind = "end" /\ t.ended = TRUE
Fails(s, t, stop) ==
    /\ s.pc = "body" /\ t.pc = "terminal" /\ MayHaveEnded(s, t)
    /\ t.outcome \in {"faulted", "timeout", "cancelled"}
    /\ t.outcome = "cancelled" => stop
TopEdge(s, t, stop) ==
    \/ Saved(s, t) \/ Observes(s, t, stop) \/ Departs(s, t, stop) \/ Enters(s, t, stop)
    \/ Follows(s, t) \/ Quits(s, t) \/ Fails(s, t, stop)

\* ... and the other steps of a run: before the scope, behind it, and over.
OffEdge(s, t) ==
    \/ t.pc \in {"returned", "crashed"}
    \/ s.pc \in {"spawned", "input", "create", "startEvent"} /\ t.pc \in Ahead \ {"body"} /\ Keeps(s, t)
    \/ s.pc \in {"output", "announce", "terminal"} /\ t.pc \notin Ahead
    \/ s.pc = "idle" /\ t.pc = "loop" /\ t.outcome = "none"

\* What is left of a run that moves on,
LEMMA GoesEdge ==
    ASSUME TypeOK, NEW r \in Runner, NEW from, NEW to, Goes(r, from, to)
    PROVE  /\ run[r].pc = from /\ run'[r].pc = to /\ Keeps(run[r], run'[r])
           /\ \A q \in Runner \ {r} : run'[q] = run[q]
  BY DEF TypeOK, Goes, RunState, Keeps

\* ... for persist_terminal,
LEMMA LeavesEdge ==
    ASSUME TypeOK, NEW r \in Runner, NEW to, NEW outcome, Leaves(r, to, outcome)
    PROVE  /\ run'[r].pc = to /\ run'[r].outcome = outcome /\ run'[r].ended = run[r].ended
           /\ \A q \in Runner \ {r} : run'[q] = run[q]
  BY DEF TypeOK, Leaves, RunState

\* ... is over,
LEMMA EndsEdge ==
    ASSUME TypeOK, NEW r \in Runner, NEW how, NEW outcome, Ends(r, how, outcome)
    PROVE  /\ run'[r].pc = how
           /\ \A q \in Runner \ {r} : run'[q] = run[q]
  BY DEF TypeOK, Ends, Rest, RunFrom

\* ... fails in a task,
LEMMA BreaksEdge ==
    ASSUME TypeOK, NEW r \in Runner, NEW outcome \in {"faulted", "timeout", "cancelled"},
           Breaks(r, outcome), outcome = "cancelled" => Cancelled(r)
    PROVE  /\ Fails(run[r], run'[r], Cancelled(r))
           /\ \A q \in Runner \ {r} : run'[q] = run[q]
  BY DEF TypeOK, Breaks, RunState, Fails, MayHaveEnded

\* ... or has finished one.
LEMMA MovesEdge ==
    ASSUME TypeOK, NEW r \in Runner, NEW s, NEW pc, NEW n, Moves(r, s, pc, n)
    PROVE  /\ run'[r].pc = pc /\ run'[r].next = n /\ run'[r].outcome = run[r].outcome
           /\ run'[r].ended = (run[r].ended \/ s.ended)
           /\ \A q \in Runner \ {r} : run'[q] = run[q]
  BY DEF TypeOK, Moves, Stepped, RunState

\* A body that succeeds and stays in the scope.
LEMMA FollowsEdge ==
    ASSUME TypeOK, NEW r \in Runner, NEW s \in Step, NEW n, run[r].pc = "body",
           Leads(run[r].next, n), Moves(r, s, "checkpoint", n)
    PROVE  /\ Follows(run[r], run'[r])
           /\ \A q \in Runner \ {r} : run'[q] = run[q]
<1>1. run[r].ended \in BOOLEAN /\ s.ended \in BOOLEAN BY DEF TypeOK, RunState, Step
<1>2. /\ run'[r].pc = "checkpoint" /\ run'[r].next = n /\ run'[r].outcome = run[r].outcome
      /\ run'[r].ended = (run[r].ended \/ s.ended)
      /\ \A q \in Runner \ {r} : run'[q] = run[q]
  BY MovesEdge
<1>3. MayHaveEnded(run[r], run'[r]) BY <1>1, <1>2 DEF MayHaveEnded
<1> QED BY <1>2, <1>3 DEF Follows

\* The end of a body that succeeds.
LEMMA FinishEdge ==
    ASSUME TypeOK, NEW r \in Runner, FinishTask(r)
    PROVE  /\ Follows(run[r], run'[r]) \/ Quits(run[r], run'[r])
           /\ \A q \in Runner \ {r} : run'[q] = run[q]
<1>1. run[r].pc = "body" /\ run[r].ended \in BOOLEAN BY DEF FinishTask, TypeOK, RunState
<1>2. PICK s \in StepsOf(run[r].next), d \in Flow[run[r].next] :
         \/ /\ d.kind = "continue"
            /\ Moves(r, s, "checkpoint", run[r].next + 1)
         \/ /\ d.kind = "goto" /\ d.to \in Task
            /\ Len(run[r].input) < MaxSteps
            /\ Moves(r, s, "checkpoint", d.to)
         \/ /\ d.kind = "exit"
            /\ Moves(r, s, "output", run[r].next)
         \/ /\ d.kind = "end"
            /\ Moves(r, [s EXCEPT !.ended = TRUE], "output", run[r].next)
  BY DEF FinishTask
<1>3. s \in Step /\ s.ended \in BOOLEAN BY DEF StepsOf, Step
<1>4. (run[r].ended \/ s.ended) \in {run[r].ended, TRUE} BY <1>1, <1>3
<1>5. CASE d.kind = "continue" /\ Moves(r, s, "checkpoint", run[r].next + 1)
  <2>1. Leads(run[r].next, run[r].next + 1) BY <1>5 DEF Leads
  <2> QED BY <1>1, <1>3, <1>5, <2>1, FollowsEdge
<1>6. CASE d.kind = "goto" /\ d.to \in Task /\ Moves(r, s, "checkpoint", d.to)
  <2>1. Leads(run[r].next, d.to) BY <1>6 DEF Leads
  <2> QED BY <1>1, <1>3, <1>6, <2>1, FollowsEdge
<1>7. CASE d.kind = "exit" /\ Moves(r, s, "output", run[r].next)
  BY <1>1, <1>4, <1>7, MovesEdge DEF Quits, MayHaveEnded
<1>8. CASE d.kind = "end" /\ Moves(r, [s EXCEPT !.ended = TRUE], "output", run[r].next)
  <2>1. [s EXCEPT !.ended = TRUE].ended = TRUE BY <1>3 DEF Step
  <2>2. (run[r].ended \/ [s EXCEPT !.ended = TRUE].ended) = TRUE BY <2>1
  <2> QED BY <1>1, <1>8, <2>2, MovesEdge DEF Quits
<1> QED BY <1>2, <1>5, <1>6, <1>7, <1>8

\* ... and of one whose directive names no task.
LEMMA FaultGotoEdge ==
    ASSUME TypeOK, NEW r \in Runner, FaultGoto(r)
    PROVE  /\ Fails(run[r], run'[r], Cancelled(r))
           /\ \A q \in Runner \ {r} : run'[q] = run[q]
<1>1. run[r].pc = "body" /\ run[r] \in RunState BY DEF FaultGoto, TypeOK
<1>2. PICK s \in StepsOf(run[r].next) :
        run' = [run EXCEPT ![r] = [Stepped(r, s) EXCEPT !.pc = "terminal", !.outcome = "faulted"]]
  BY DEF FaultGoto
<1>3. s.ended \in BOOLEAN BY DEF StepsOf, Step
<1>4. run'[r] = [Stepped(r, s) EXCEPT !.pc = "terminal", !.outcome = "faulted"]
      /\ \A q \in Runner \ {r} : run'[q] = run[q]
  BY <1>2 DEF TypeOK
<1>5. run'[r].pc = "terminal" /\ run'[r].outcome = "faulted"
      /\ run'[r].ended = (run[r].ended \/ s.ended)
  BY <1>1, <1>4 DEF Stepped, RunState
<1> QED BY <1>1, <1>3, <1>4, <1>5 DEF Fails, MayHaveEnded, RunState

\* Every step of a run is one of these, and cancels nothing.
LEMMA StepTop ==
    ASSUME TypeOK, NEW r \in Runner, EngineStep(r) \/ BodyStep(r) \/ CallerStep(r)
    PROVE  /\ TopEdge(run[r], run'[r], Cancelled(r)) \/ OffEdge(run[r], run'[r])
           /\ \A q \in Runner \ {r} : run'[q] = run[q]
           /\ cancel' = cancel
<1> USE DEF TopEdge, OffEdge, Ahead
<1>1. cancel' = cancel
  BY DEF EngineStep, BodyStep, CallerStep, RunWithCancel, ApplyInput, PersistStarted, AppendStarted,
      ObserveCancel, LeaveScope, StartTask, Checkpoint, ApplyOutput, Announce, PersistTerminal,
      AppendTerminal, FinishTask, FaultTask, FaultGoto, CancelInTask, TaskTimeout, Breaks,
      DropCancelled, DropTimedOut, Crash, Resume, RejectResume
<1>2. CASE RunWithCancel(r) BY <1>1, <1>2, GoesEdge DEF RunWithCancel
<1>3. CASE ApplyInput(r) BY <1>1, <1>3, GoesEdge, EndsEdge DEF ApplyInput
<1>4. CASE PersistStarted(r) BY <1>1, <1>4, GoesEdge DEF PersistStarted
<1>5. CASE AppendStarted(r) BY <1>1, <1>5, GoesEdge DEF AppendStarted
<1>6. CASE ObserveCancel(r) BY <1>1, <1>6, LeavesEdge DEF ObserveCancel, Observes
<1>7. CASE LeaveScope(r) BY <1>1, <1>7, GoesEdge DEF LeaveScope, Departs
<1>8. CASE StartTask(r) BY <1>1, <1>8, GoesEdge DEF StartTask, Enters
<1>9. CASE Checkpoint(r) BY <1>1, <1>9, GoesEdge DEF Checkpoint, Saved
<1>10. CASE ApplyOutput(r) BY <1>1, <1>10, LeavesEdge DEF ApplyOutput
<1>11. CASE Announce(r) BY <1>1, <1>11, GoesEdge DEF Announce
<1>12. CASE PersistTerminal(r) BY <1>1, <1>12, GoesEdge DEF PersistTerminal
<1>13. CASE AppendTerminal(r) BY <1>1, <1>13, EndsEdge DEF AppendTerminal
<1>14. CASE BodyStep(r)
  <2>1. CASE FaultTask(r) BY <1>1, <2>1, BreaksEdge DEF FaultTask
  <2>2. CASE CancelInTask(r) BY <1>1, <2>2, BreaksEdge DEF CancelInTask
  <2>3. CASE TaskTimeout(r) BY <1>1, <2>3, BreaksEdge DEF TaskTimeout
  <2> QED BY <1>1, <1>14, <2>1, <2>2, <2>3, FinishEdge, FaultGotoEdge DEF BodyStep
<1>15. CASE DropCancelled(r) BY <1>1, <1>15, EndsEdge DEF DropCancelled
<1>16. CASE DropTimedOut(r) BY <1>1, <1>16, EndsEdge DEF DropTimedOut
<1>17. CASE Crash(r) BY <1>1, <1>17, EndsEdge DEF Crash
<1>18. CASE Resume(r)
  <2>1. run' = [run EXCEPT ![r] = RunFrom("loop", "none", record.next, record.input, record.context)]
        /\ run[r].pc = "idle"
    BY <1>18 DEF Resume, MayResume
  <2> QED BY <1>1, <2>1 DEF RunFrom, TypeOK
<1>19. CASE RejectResume(r) BY <1>1, <1>19, EndsEdge DEF RejectResume
<1> QED
  BY <1>2, <1>3, <1>4, <1>5, <1>6, <1>7, <1>8, <1>9, <1>10, <1>11, <1>12, <1>13, <1>14, <1>15,
     <1>16, <1>17, <1>18, <1>19
  DEF EngineStep, CallerStep

\* TopInv is inductive.
LEMMA InitTop == Init => TopInv
  BY DEF Init, TopInv, TopKept, Rest, RunFrom

\* Every step keeps it: TopKept follows from the edge a run takes.
LEMMA NextTop == TypeOK /\ TopInv /\ [Next]_vars => TopInv'
<1> SUFFICES ASSUME TypeOK, TopInv, [Next]_vars PROVE TopInv'
  OBVIOUS
<1>1. CASE UNCHANGED run BY <1>1 DEF TopInv
<1>2. ASSUME NEW r \in Runner, EngineStep(r) \/ BodyStep(r) \/ CallerStep(r)
      PROVE  TopInv'
  <2>1. TopKept(run[r]) BY DEF TopInv
  <2>2. TopEdge(run[r], run'[r], Cancelled(r)) \/ OffEdge(run[r], run'[r])
    BY <1>2, StepTop
  <2>3. TopKept(run'[r])
    <3>1. CASE TopEdge(run[r], run'[r], Cancelled(r))
      BY <2>1, <3>1 DEF TopKept, TopEdge, Saved, Observes, Departs, Enters, Follows, Quits, Fails,
                        Keeps, Ahead
    <3>2. CASE OffEdge(run[r], run'[r])
      BY <2>1, <3>2 DEF TopKept, OffEdge, Keeps, Ahead
    <3> QED BY <2>2, <3>1, <3>2
  <2>4. \A q \in Runner \ {r} : run'[q] = run[q] BY <1>2, StepTop
  <2> QED BY <2>3, <2>4 DEF TopInv
<1> QED BY <1>1, <1>2 DEF Next, Done, Cancel, vars

\* The places of the walk are the tasks, from 1.
LEMMA Places ==
    ASSUME NEW n \in Nat, n < NTasks, NEW m \in Nat, Leads(n, m)
    PROVE  m + 1 \in TopTo[n + 1]
<1>1. NTasks \in Nat BY TasksAssumption
<1>2. n + 1 \in 1 .. NTasks BY <1>1
<1>3. (n + 1) - 1 = n /\ (m + 1) - 1 = m OBVIOUS
<1>4. m = n + 1 \/ m \in Task BY DEF Leads
<1>5. m + 1 \in 1 .. NTasks + 1 BY <1>1, <1>4 DEF Task
<1>6. Leads((n + 1) - 1, (m + 1) - 1) BY <1>3
<1>7. TopTo[n + 1] = {k \in 1 .. NTasks + 1 : Leads((n + 1) - 1, k - 1)} BY <1>2 DEF TopTo
<1> QED BY <1>5, <1>6, <1>7

\* A task that may exit, or end, is at a place that may.
LEMMA PlacesWith ==
    ASSUME NEW n \in Nat, n < NTasks, NEW d \in Flow[n]
    PROVE  n + 1 \in TopWith(d.kind)
<1>1. NTasks \in Nat BY TasksAssumption
<1>2. n + 1 \in 1 .. NTasks /\ (n + 1) - 1 = n BY <1>1
<1>3. d \in Flow[(n + 1) - 1] BY <1>2
<1> QED BY <1>2, <1>3 DEF TopWith

\* A task is at a place of the scope, and the end of the scope is not.
LEMMA AtPlace ==
    ASSUME NEW n \in Nat
    PROVE  /\ n < NTasks => n + 1 <= NTasks
           /\ n >= NTasks => n + 1 > NTasks
  BY TasksAssumption

\* The step of a run in the scope is one of the walk.
TopWalked(r) == TopLevel(r)!Next \/ UNCHANGED TopLevel(r)!vars

\* One step of Walk per edge.
LEMMA EdgeWalks ==
    ASSUME TypeOK, TypeOK', TopInv, NEW r \in Runner, Driving(r), cancel' = cancel,
           TopEdge(run[r], run'[r], Cancelled(r))
    PROVE  TopWalked(r)
<1> USE DEF TopWalked, TopLevel!Next, Driving
<1>1. Cancelled(r)' = Cancelled(r) BY DEF Cancelled
<1>2. run[r].next \in Nat /\ run'[r].next \in Nat BY DEF TypeOK, RunState
<1>3. run[r].pc = "body" => run[r].next < NTasks BY DEF TopInv, TopKept
<1>4. run[r].outcome = "none" BY DEF TopInv, TopKept, Ahead
<1>5. CASE Saved(run[r], run'[r])
  BY <1>1, <1>5 DEF Saved, Keeps, TopLevel!vars
<1>6. CASE Observes(run[r], run'[r], Cancelled(r))
  <2>1. TopLevel(r)!ObserveCancel
    BY <1>1, <1>6 DEF Observes, OutcomeOf, TopLevel!ObserveCancel, TopLevel!Return
  <2> QED BY <2>1
<1>7. CASE Departs(run[r], run'[r], Cancelled(r))
  <2>1. run[r].ended \/ run[r].next + 1 > NTasks BY <1>2, <1>7, AtPlace DEF Departs
  <2>2. TopLevel(r)!Leave
    BY <1>1, <1>4, <1>7, <2>1 DEF Departs, Keeps, OutcomeOf, TopLevel!Leave, TopLevel!Return
  <2> QED BY <2>2
<1>8. CASE Enters(run[r], run'[r], Cancelled(r))
  <2>1. run[r].next + 1 <= NTasks BY <1>2, <1>8, AtPlace DEF Enters
  <2>2. TopLevel(r)!Start
    BY <1>1, <1>8, <2>1 DEF Enters, Keeps, TopLevel!Start
  <2> QED BY <2>2
<1>9. CASE Follows(run[r], run'[r])
  <2>1. run'[r].next + 1 \in TopTo[run[r].next + 1]
    BY <1>2, <1>3, <1>9, Places DEF Follows
  <2>2. TopLevel(r)!Proceed
    BY <1>1, <1>9, <2>1 DEF Follows, MayHaveEnded, TopLevel!Proceed, TopLevel!MayEnd
  <2> QED BY <2>2
<1>10. CASE Quits(run[r], run'[r])
  <2>1. PICK d \in Flow[run[r].next] :
          \/ d.kind = "exit" /\ MayHaveEnded(run[r], run'[r])
          \/ d.kind = "end" /\ run'[r].ended = TRUE
    BY <1>10 DEF Quits
  <2>2. run[r].next + 1 \in TopWith(d.kind)
    BY <1>2, <1>3, <1>10, PlacesWith DEF Quits
  <2>3. CASE d.kind = "exit" /\ MayHaveEnded(run[r], run'[r])
    <3>1. TopLevel(r)!Exit
      BY <1>1, <1>4, <1>10, <2>2, <2>3
      DEF Quits, MayHaveEnded, OutcomeOf, TopLevel!Exit, TopLevel!Return, TopLevel!MayEnd
    <3> QED BY <3>1
  <2>4. CASE d.kind = "end" /\ run'[r].ended = TRUE
    <3>1. TopLevel(r)!End
      BY <1>1, <1>4, <1>10, <2>2, <2>4 DEF Quits, OutcomeOf, TopLevel!End, TopLevel!Return
    <3> QED BY <3>1
  <2> QED BY <2>1, <2>3, <2>4
<1>11. CASE Fails(run[r], run'[r], Cancelled(r))
  <2>1. PICK error \in {"fault", "timeout", "cancelled"} :
          error = OutcomeOf(run'[r]) /\ (error = "cancelled" => Cancelled(r))
    BY <1>11 DEF Fails, OutcomeOf
  <2>2. TopLevel(r)!Fail(error)
    BY <1>1, <1>11, <2>1 DEF Fails, MayHaveEnded, TopLevel!Fail, TopLevel!Return, TopLevel!MayEnd
  <2> QED BY <2>2
<1> QED
  BY <1>5, <1>6, <1>7, <1>8, <1>9, <1>10, <1>11 DEF TopEdge

\* What leaves a run and its cancellation as they are leaves its walk as it is.
LEMMA StaysPut ==
    ASSUME NEW r \in Runner, run'[r] = run[r], Cancelled(r)' = Cancelled(r)
    PROVE  TopWalked(r)
  BY DEF TopWalked, TopLevel!vars, Driving

\* The handle's cancellation is one of the walk it meets.
LEMMA CancelWalks ==
    ASSUME TypeOK, NEW r \in Runner, Driving(r), Cancel
    PROVE  TopWalked(r)
<1>1. run' = run /\ cancel'.flag = TRUE /\ cancel.flag \in BOOLEAN BY DEF Cancel, TypeOK
<1>2. CASE r = First /\ ~ cancel.flag
  <2>1. ~ Cancelled(r) /\ Cancelled(r)' = TRUE BY <1>1, <1>2 DEF Cancelled
  <2>2. TopLevel(r)!Cancel BY <1>1, <2>1 DEF TopLevel!Cancel, Driving
  <2> QED BY <2>2 DEF TopWalked, TopLevel!Next
<1>3. CASE r # First \/ cancel.flag
  <2>1. Cancelled(r)' = Cancelled(r) BY <1>1, <1>3 DEF Cancelled
  <2> QED BY <1>1, <2>1, StaysPut
<1> QED BY <1>1, <1>2, <1>3

\* Wherever a resume put it, a run goes through the top-level scope as `Walk`
\* says (exec_scope): with `WalkKept` of ScopesProofs, which shows the same of
\* the nested scopes, this is what joins the two models.
THEOREM ScopeWalked == Spec => WalksTheScope
<1>1. TypeOK /\ TypeOK' /\ TopInv /\ [Next]_vars =>
        \A r \in Runner : Driving(r) /\ ~ Over(r)' => TopWalked(r)
  <2> SUFFICES ASSUME TypeOK, TypeOK', TopInv, [Next]_vars,
                      NEW r \in Runner, Driving(r), ~ Over(r)'
               PROVE  TopWalked(r)
    OBVIOUS
  <2>1. CASE UNCHANGED vars
    <3>1. run'[r] = run[r] /\ Cancelled(r)' = Cancelled(r) BY <2>1 DEF vars, Cancelled
    <3> QED BY <3>1, StaysPut
  <2>2. CASE Cancel BY <2>2, CancelWalks
  <2>3. ASSUME NEW q \in Runner, EngineStep(q) \/ BodyStep(q) \/ CallerStep(q)
        PROVE  TopWalked(r)
    <3>1. /\ TopEdge(run[q], run'[q], Cancelled(q)) \/ OffEdge(run[q], run'[q])
          /\ \A p \in Runner \ {q} : run'[p] = run[p]
          /\ cancel' = cancel
      BY <2>3, StepTop
    <3>2. CASE q = r
      <4>1. ~ OffEdge(run[r], run'[r]) BY DEF OffEdge, Driving, Over
      <4> QED BY <3>1, <3>2, <4>1, EdgeWalks
    <3>3. CASE q # r
      <4>1. run'[r] = run[r] /\ Cancelled(r)' = Cancelled(r) BY <3>1, <3>3 DEF Cancelled
      <4> QED BY <4>1, StaysPut
    <3> QED BY <3>2, <3>3
  <2> QED BY <2>1, <2>2, <2>3 DEF Next, Done
<1>2. TypeOK /\ TypeOK' /\ TopInv /\ [Next]_vars =>
        [\A r \in Runner : Driving(r) /\ ~ Over(r)' =>
            TopLevel(r)!Next \/ UNCHANGED TopLevel(r)!vars]_vars
  BY <1>1 DEF TopWalked
<1> QED
  BY <1>2, InitType, NextType, InitTop, NextTop, PTL DEF Spec, WalksTheScope

=============================================================================
