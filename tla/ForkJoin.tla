------------------------------- MODULE ForkJoin -------------------------------
(***************************************************************************)
(* The fork task: branches in a JoinSet, each an exec_task on a clone of   *)
(* the ExecContext.  The clones share the workflow context behind one      *)
(* mutex, which every task reads before its body and writes at its end,    *)
(* whether it exports something or not.  Branches run in parallel.         *)
(*                                                                         *)
(* The context is identified with the set of branches whose export it      *)
(* contains: `export.as` merges into the $context the task began with.     *)
(* A branch is one task: what is nested in a composite one, and exports    *)
(* on its own before the branch has ended, is left out.                    *)
(***************************************************************************)
EXTENDS Naturals, Sequences, FiniteSets

CONSTANTS
    Branch,         \* the branches of the fork
    Exporting,      \* branches whose task has an `export.as`
    Guarded,        \* branches whose task has an `if`
    Fallible,       \* branches whose task may fail or panic
    Finite,         \* branches whose task ends by itself, by kind of fork
    Null            \* no branch

\* A fork of which all branches count, or with `compete` the first one.
Kinds == {"join", "race"}

ASSUME BranchAssumption == /\ IsFiniteSet(Branch)
                           /\ Branch # {}
                           /\ Exporting \subseteq Branch
                           /\ Guarded \subseteq Branch
                           /\ Fallible \subseteq Branch
                           /\ Null \notin Branch
ASSUME FiniteAssumption == Finite \in [Kinds -> SUBSET Branch]

VARIABLES
    context,    \* the shared workflow context
    holder,     \* the branch inside the context's mutex, or Null
    pc,         \* the next await point of every branch
    seen,       \* the context every branch read in front of its body
    value,      \* the context every branch will set
    order,      \* the branches that finished, in the order they did
    fork        \* the parent: its position, results taken, and its own result

vars == <<context, holder, pc, seen, value, order, fork>>

-----------------------------------------------------------------------------
Context == SUBSET Branch

\* At "read", "reread" and "write" a branch waits for the mutex; at the next
\* position it is inside.
Pcs == {"start", "read", "reading", "body", "reread", "rereading",
        "write", "writing", "done", "failed", "gone"}

ForkState == [kind : Kinds,
              pc : {"joining", "shutdown", "returned", "dropped"},
              taken : Nat, result : Branch \cup {Null}]

Finished(b) == pc[b] \in {"done", "failed"}
Gone(b)     == pc[b] \in {"done", "failed", "gone"}

\* Mutant: the set is waited for but not aborted.
AbortedByDrop == fork.pc = "dropped"

\* JoinSet::shutdown, or the drop of the set with the future of the task:
\* abort_all.  Only shutdown waits for the branches.
Aborted == fork.pc \in {"shutdown", "dropped"}

Init ==
    /\ context = {}
    /\ holder = Null
    /\ pc = [b \in Branch |-> "start"]
    /\ seen = [b \in Branch |-> {}]
    /\ value = [b \in Branch |-> {}]
    /\ order = <<>>
    /\ \E kind \in Kinds :
          fork = [kind |-> kind, pc |-> "joining", taken |-> 0, result |-> Null]

-----------------------------------------------------------------------------
(* The branches: run_branch and exec_task.                                 *)

Goes(b, from, to) == pc[b] = from /\ pc' = [pc EXCEPT ![b] = to]
Ends(b, from, to) == Goes(b, from, to) /\ order' = Append(order, b)

Enter(b) == holder = Null /\ holder' = b
Leave(b) == holder = b /\ holder' = Null

\* The guard and the input: ExecContext::variables does not wait for the mutex
\* (a try_lock, and a null context when it fails).
Guard(b) ==
    /\ Goes(b, "start", "read")
    /\ UNCHANGED <<context, holder, seen, value, order, fork>>

\* A false guard ends the task with its input, before it meets the context.
Skip(b) ==
    /\ b \in Guarded
    /\ Ends(b, "start", "done")
    /\ UNCHANGED <<context, holder, seen, value, fork>>

\* An error, or a panic, in the guard, the input, the body or the output.
Fail(b) ==
    /\ b \in Fallible
    /\ Ends(b, "start", "failed") \/ Ends(b, "body", "failed")
    /\ UNCHANGED <<context, holder, seen, value, fork>>

\* ExecContext::context_value for the expressions of the body and the export.
LockToRead(b) ==
    /\ Goes(b, "read", "reading")
    /\ Enter(b)
    /\ UNCHANGED <<context, seen, value, order, fork>>

Read(b) ==
    /\ Goes(b, "reading", "body")
    /\ Leave(b)
    /\ seen' = [seen EXCEPT ![b] = context]
    /\ UNCHANGED <<context, value, order, fork>>

\* tasks::dispatch, which an aborted branch may still finish in the poll it is
\* in.  With an `export.as` the new context is computed from the one read
\* in front of the body ...
Body(b) ==
    /\ IF b \in Exporting
       THEN /\ Goes(b, "body", "write")
            /\ value' = [value EXCEPT ![b] = seen[b] \cup {b}]
       ELSE Goes(b, "body", "reread") /\ UNCHANGED value
    /\ UNCHANGED <<context, holder, seen, order, fork>>

\* ... without, it is the current one ...
LockToReread(b) ==
    /\ Goes(b, "reread", "rereading")
    /\ Enter(b)
    /\ UNCHANGED <<context, seen, value, order, fork>>

Reread(b) ==
    /\ Goes(b, "rereading", "write")
    /\ Leave(b)
    /\ value' = [value EXCEPT ![b] = context]
    /\ UNCHANGED <<context, seen, order, fork>>

\* ... and ExecContext::set_context writes either, once the export schema has
\* accepted it.
RejectExport(b) ==
    /\ b \in Fallible
    /\ Ends(b, "write", "failed")
    /\ UNCHANGED <<context, holder, seen, value, fork>>

LockToWrite(b) ==
    /\ Goes(b, "write", "writing")
    /\ Enter(b)
    /\ UNCHANGED <<context, seen, value, order, fork>>

\* Mutant: the export schema is checked behind the write.
WriteUnchecked(b) ==
    /\ \/ Ends(b, "writing", "done")
       \/ b \in Fallible /\ Ends(b, "writing", "failed")
    /\ Leave(b)
    /\ context' = value[b]
    /\ UNCHANGED <<seen, value, fork>>

Write(b) ==
    /\ Ends(b, "writing", "done")
    /\ Leave(b)
    /\ context' = value[b]
    /\ UNCHANGED <<seen, value, fork>>

\* An aborted branch is dropped where it awaits; the poll it is in goes on.
Drop(b) ==
    /\ Aborted
    /\ pc[b] \in {"start", "read", "body", "reread", "write"}
    /\ pc' = [pc EXCEPT ![b] = "gone"]
    /\ UNCHANGED <<context, holder, seen, value, order, fork>>

-----------------------------------------------------------------------------
(* The parent: task_fork.                                                  *)

Joined == order[fork.taken + 1]

\* Mutant: the losers are aborted and nobody waits for them.
JoinFirstUnwaited ==
    /\ fork.kind = "race"
    /\ fork.pc = "joining"
    /\ fork.taken < Len(order)
    /\ fork' = [fork EXCEPT !.pc = "returned", !.taken = 1, !.result = Joined]
    /\ UNCHANGED <<context, holder, pc, seen, value, order>>

\* Competing: the first branch to finish, whatever its result, ends the fork.
JoinFirst ==
    /\ fork.kind = "race"
    /\ fork.pc = "joining"
    /\ fork.taken < Len(order)
    /\ fork' = [fork EXCEPT !.pc = "shutdown", !.taken = 1, !.result = Joined]
    /\ UNCHANGED <<context, holder, pc, seen, value, order>>

\* JoinSet::shutdown waits until every aborted branch is gone.
Shutdown ==
    /\ fork.pc = "shutdown"
    /\ \A b \in Branch : Gone(b)
    /\ fork' = [fork EXCEPT !.pc = "returned"]
    /\ UNCHANGED <<context, holder, pc, seen, value, order>>

\* Mutant: the last error is kept.
JoinNextLast ==
    /\ fork.kind = "join"
    /\ fork.pc = "joining"
    /\ fork.taken < Len(order)
    /\ fork' = [fork EXCEPT
                !.pc     = IF fork.taken + 1 = Cardinality(Branch)
                           THEN "returned" ELSE "joining",
                !.taken  = fork.taken + 1,
                !.result = IF pc[Joined] = "failed"
                           THEN Joined ELSE fork.result]
    /\ UNCHANGED <<context, holder, pc, seen, value, order>>

\* Joining: the first error is kept, the others are waited for.  The result of
\* a fork whose branches all succeed is named Null: their outputs in order.
JoinNext ==
    /\ fork.kind = "join"
    /\ fork.pc = "joining"
    /\ fork.taken < Len(order)
    /\ fork' = [fork EXCEPT
                !.pc     = IF fork.taken + 1 = Cardinality(Branch)
                           THEN "returned" ELSE "joining",
                !.taken  = fork.taken + 1,
                !.result = IF fork.result = Null /\ pc[Joined] = "failed"
                           THEN Joined ELSE fork.result]
    /\ UNCHANGED <<context, holder, pc, seen, value, order>>

\* The future of the task is dropped: a timeout, a cancellation, a lost race
\* of an enclosing fork.
DropFork ==
    /\ fork.pc \in {"joining", "shutdown"}
    /\ fork' = [fork EXCEPT !.pc = "dropped"]
    /\ UNCHANGED <<context, holder, pc, seen, value, order>>

-----------------------------------------------------------------------------
Step(b) ==
    \/ Guard(b) \/ Skip(b) \/ Fail(b) \/ LockToRead(b) \/ Read(b) \/ Body(b)
    \/ LockToReread(b) \/ Reread(b)
    \/ RejectExport(b) \/ LockToWrite(b) \/ Write(b)
    \/ Drop(b)

Parent == JoinFirst \/ Shutdown \/ JoinNext

Next == (\E b \in Branch : Step(b)) \/ Parent \/ DropFork

Spec == Init /\ [][Next]_vars

\* A woken branch is polled, a body only has to end when its branch is Finite.
BranchFairness(b) ==
    /\ WF_vars(Guard(b) \/ Skip(b) \/ Read(b) \/ Reread(b) \/ Write(b))
    /\ WF_vars(LockToRead(b) \/ LockToReread(b) \/ LockToWrite(b) \/ RejectExport(b))
    /\ WF_vars(Drop(b))
    /\ WF_vars(b \in Finite[fork.kind] /\ (Body(b) \/ Fail(b)))

FairSpec == Spec /\ WF_vars(Parent) /\ \A b \in Branch : BranchFairness(b)

-----------------------------------------------------------------------------
(* Properties.                                                             *)

TypeOK ==
    /\ context \in Context
    /\ holder \in Branch \cup {Null}
    /\ pc \in [Branch -> Pcs]
    /\ seen \in [Branch -> Context]
    /\ value \in [Branch -> Context]
    /\ order \in Seq(Branch)
    /\ fork \in ForkState

\* No dirty read: neither a failed branch nor an aborted one leaves its export
\* in the context, and no body has read an export of a task that has not ended
\* well (exec_task sets the context behind every check, in its last step).
\* Whether an export stays once it is there is another question: it may be
\* lost, see OnlyExportsChange.
ExportsOfDone ==
    /\ \A b \in context : pc[b] = "done"
    /\ \A b \in Branch : \A c \in seen[b] : pc[c] = "done"

\* A join returns when nothing of it runs, with the error of the branch that
\* failed first, in whatever order the errors came in, and with a success
\* only if no branch failed.
FirstErrorWins ==
    (fork.kind = "join" /\ fork.pc = "returned") =>
        /\ \A b \in Branch : Finished(b)
        /\ IF fork.result = Null
           THEN \A b \in Branch : pc[b] = "done"
           ELSE \E i \in 1 .. Len(order) :
                    /\ order[i] = fork.result
                    /\ pc[order[i]] = "failed"
                    /\ \A j \in 1 .. i - 1 : pc[order[j]] = "done"

\* Behind the return of a fork its branches change nothing any more: the next
\* task has the context for itself (JoinSet::shutdown waits for the losers).
QuietAfterReturn == [][fork.pc = "returned" => UNCHANGED <<context, pc>>]_vars

\* Whether the branches of the fork let it come back.
MayReturn ==
    IF fork.kind = "race" THEN Finite["race"] # {} ELSE Finite["join"] = Branch

\* A fork comes back once its branches can: a joining one when all of them end,
\* a competing one when one does, the others blocked for ever or not.  And no
\* branch survives it: the losers of a race, and the branches of a fork that was
\* dropped by a timeout or a cancellation, stop.
ForkEnds ==
    /\ (fork.pc = "joining" /\ MayReturn) ~> (fork.pc \in {"returned", "dropped"})
    /\ (fork.pc # "joining") ~> (\A b \in Branch : Gone(b))

\* A task without `export.as` leaves the context to the others ("shared via
\* Arc so structured concurrency is safe", docs/architecture.md).
OnlyExportsChange ==
    [][context' # context =>
         \E b \in Exporting : pc[b] = "writing" /\ pc'[b] = "done"]_vars

=============================================================================
