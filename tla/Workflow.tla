------------------------------- MODULE Workflow -------------------------------
(***************************************************************************)
(* The compiled workflow as an execution sees it: the top-level tasks,     *)
(* what each may do, and the values that flow between them.                *)
(*                                                                         *)
(* A value (the input one task hands to the next, or the context) is       *)
(* identified with the trace of the task steps that computed it.           *)
(***************************************************************************)
EXTENDS Naturals, Sequences, SequencesExt

CONSTANTS
    NTasks,         \* number of tasks of the top-level scope
    Flow,           \* [Task -> set of directives the task may produce]
    Faulty,         \* tasks whose execution may fail
    Exports,        \* tasks that set the context, themselves or inside
    Guarded,        \* tasks with an `if` guard
    NestedEnds,     \* composite tasks that may meet `end` in an inner scope
    Timed           \* tasks under a timeout, their own or the workflow's

Task == 0 .. (NTasks - 1)
Directive == [kind : {"continue", "goto", "exit", "end"}, to : Nat]

ASSUME TasksAssumption == NTasks \in Nat \ {0}
ASSUME FlowAssumption  == Flow \in [Task -> SUBSET Directive]
ASSUME SetsAssumption  == /\ Faulty \subseteq Task
                          /\ Exports \subseteq Task
                          /\ Guarded \subseteq Task
                          /\ NestedEnds \subseteq Task
                          /\ Timed \subseteq Task

\* One task step: did it set the context, and did it meet an `end`?
Step  == [task : Task, exported : BOOLEAN, ended : BOOLEAN]
Trace == Seq(Step)

\* The steps task t may make: a task skipped by its guard has no effect.
StepsOf(t) ==
    {s \in Step : /\ s.task = t
                  /\ s.exported => t \in Exports
                  /\ s.ended => t \in NestedEnds
                  /\ s.exported \/ t \notin Exports
                       \/ (t \in Guarded /\ ~ s.ended)}

\* Position u is one the scope goes to when task t produces a directive.
Leads(t, u) ==
    \E d \in Flow[t] : \/ (d.kind = "continue" /\ u = t + 1)
                      \/ (d.kind = "goto" /\ d.to \in Task /\ u = d.to)

\* The trace is a path through the workflow that ends in front of next.
PathTo(trace, next) ==
    /\ trace = <<>> => next = 0
    /\ trace # <<>> => trace[1].task = 0 /\ Leads(Last(trace).task, next)
    /\ \A i \in 1 .. (Len(trace) - 1) : Leads(trace[i].task, trace[i + 1].task)

\* The context is the value exported last on the way to the trace.
LastExport(context, trace) ==
    /\ IsPrefix(context, trace)
    /\ context # <<>> => Last(context).exported
    /\ \A i \in 1 .. Len(trace) : i > Len(context) => ~ trace[i].exported

\* Phase::is_terminal.
Terminal == {"completed", "faulted", "cancelled"}

=============================================================================
