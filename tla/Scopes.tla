-------------------------------- MODULE Scopes --------------------------------
(***************************************************************************)
(* What happens inside a task: exec_scope and exec_task call each other    *)
(* through `do`, `for`, `try` and the extensions, on one mutable           *)
(* ExecContext.  The calls are a stack; a task timeout drops its upper     *)
(* part, and with it the code that would have restored the context.        *)
(*                                                                         *)
(* Values are left out: a body, a condition or a transform comes out in    *)
(* any way its task allows.                                                *)
(***************************************************************************)
EXTENDS Naturals, Sequences, FiniteSets

CONSTANTS
    Scope, Task, Extension, Name,   \* their identities
    Main,           \* the top-level scope
    In,             \* [Scope -> the tasks of the scope, in order]
    Then,           \* [Task -> the directives it may produce]
    Do, For, Try,   \* the composite tasks; a fork is a task of its own here
    Body,           \* [composite -> its scope]
    Handler,        \* [try -> its `catch.do` scope, or NoHandler]
    NoHandler,
    Caught,         \* [try -> the errors its `catch` matches]
    Limit,          \* [try -> its retry attempt count; 0 without a retry]
    Items,          \* [for -> the length of its collection]
    Sets,           \* [for or try -> the loop variables it inserts]
    Extends,        \* [Task -> the extensions that target it, in order]
    Before, After,  \* [Extension -> the scope]
    Conditional,    \* extensions with a `when`
    Guarded,        \* tasks with an `if`, loops with a `while`
    Fallible,       \* tasks that may fail, in an expression or in the body
    Finite,         \* tasks whose body ends by itself
    Interruptible,  \* tasks whose body listens to the cancellation
    Timed           \* tasks under a timeout

Errors     == {"fault", "timeout", "cancelled"}
Composite  == Do \cup For \cup Try
Directives == {"continue", "exit", "end"} \cup Task

\* What is counted of `late`: one more than what FewLate allows.
MaxLate == 3

ASSUME IdentityAssumption ==
    /\ Main \in Scope /\ Do \subseteq Task /\ For \subseteq Task /\ Try \subseteq Task
    /\ Do \cap For = {} /\ Do \cap Try = {} /\ For \cap Try = {}
    /\ NoHandler \notin Scope
ASSUME ProgramAssumption ==
    /\ In \in [Scope -> Seq(Task)]
    /\ Then \in [Task -> SUBSET Directives]
    /\ Body \in [Composite -> Scope]
    /\ Handler \in [Try -> Scope \cup {NoHandler}]
    /\ Extends \in [Task -> Seq(Extension)]
    /\ Before \in [Extension -> Scope] /\ After \in [Extension -> Scope]
    /\ Conditional \subseteq Extension
ASSUME DataAssumption ==
    /\ Caught \in [Try -> SUBSET Errors]
    /\ Limit \in [Try -> Nat] /\ Items \in [For -> Nat]
    /\ Sets \in [For \cup Try -> SUBSET Name]

VARIABLES
    stack,      \* the calls, the innermost first
    signal,     \* "run", or what has just been returned to the innermost call
    ended,      \* ExecContext::ended
    exited,     \* ExecContext::scope_exited
    applies,    \* ExecContext::apply_extensions, "on" or "off"
    names,      \* the names in ExecContext::loop_vars
    cancelled,  \* the flag of the Cancellation
    late,       \* task bodies started behind an `end` or a cancellation
    leaving     \* whether a scope was exited since an extension scope started

vars == <<stack, signal, ended, exited, applies, names, cancelled, late, leaving>>
flags == <<ended, exited, applies, cancelled>>
history == <<late, leaving>>

-----------------------------------------------------------------------------
\* A call: exec_scope in front of task number n, exec_task at one of its steps
\* in front of or in its n-th extension, of which `exts` apply, task_for behind n items,
\* task_try behind n retries.  `was` is run_extension_scope's `previous`.
Ats  == {"scope", "task", "before", "body", "after", "for", "try", "wait", "handler"}
Call == [at : Ats, of : Scope \cup Task, n : Nat, exts : SUBSET Extension, was : {"on", "off"}]

Calling(at, of, n) == [at |-> at, of |-> of, n |-> n, exts |-> {}, was |-> "on"]

Init ==
    /\ stack = <<Calling("scope", Main, 1)>>
    /\ signal = "run"
    /\ ended = FALSE
    /\ exited = FALSE
    /\ applies = "on"
    /\ names = {}
    /\ cancelled = FALSE
    /\ late = 0
    /\ leaving = FALSE

Top == Head(stack)
Runs(at)    == stack # <<>> /\ signal = "run" /\ Top.at = at
Returned(at) == stack # <<>> /\ signal # "run" /\ Top.at = at

Return(s)    == stack' = Tail(stack) /\ signal' = s
Become(f)    == stack' = <<f>> \o Tail(stack) /\ signal' = "run"
Invoke(f, g) == stack' = <<g, f>> \o Tail(stack) /\ signal' = "run"

\* `result?`: an error goes on to the caller.
Propagate(at) ==
    /\ Returned(at) /\ signal \in Errors
    /\ Return(signal)
    /\ UNCHANGED <<flags, names, history>>

-----------------------------------------------------------------------------
(* exec_scope.                                                             *)

Current == In[Top.of][Top.n]

ObserveCancel ==
    /\ Runs("scope") /\ cancelled
    /\ Return("cancelled")
    /\ UNCHANGED <<flags, names, history>>

\* Mutant: the exit of an inner scope leaves this one, too.
LeaveScopeExited ==
    /\ Runs("scope") /\ ~ cancelled
    /\ ended \/ exited \/ Top.n > Len(In[Top.of])
    /\ Return("ok")
    /\ UNCHANGED <<flags, names, history>>

LeaveScope ==
    /\ Runs("scope") /\ ~ cancelled
    /\ ended \/ Top.n > Len(In[Top.of])
    /\ Return("ok")
    /\ UNCHANGED <<flags, names, history>>

\* Mutant: `ended` is not looked at.
StartTaskAfterEnd ==
    /\ Runs("scope") /\ ~ cancelled
    /\ Top.n <= Len(In[Top.of])
    /\ Invoke(Top, Calling("task", Current, 0))
    /\ UNCHANGED <<flags, names, history>>

StartTask ==
    /\ Runs("scope") /\ ~ cancelled /\ ~ ended
    /\ Top.n <= Len(In[Top.of])
    /\ Invoke(Top, Calling("task", Current, 0))
    /\ UNCHANGED <<flags, names, history>>

\* The directive of a `switch`, or the task's `then`, a skipped task's too.
Continue ==
    /\ Returned("scope") /\ signal = "ok" /\ "continue" \in Then[Current]
    /\ Become([Top EXCEPT !.n = @ + 1])
    /\ UNCHANGED <<flags, names, history>>

Goto ==
    /\ Returned("scope") /\ signal = "ok"
    /\ \E t \in Then[Current] \cap Task :
          \/ \E i \in 1 .. Len(In[Top.of]) :
                /\ In[Top.of][i] = t
                /\ Become([Top EXCEPT !.n = i])
          \/ /\ \A i \in 1 .. Len(In[Top.of]) : In[Top.of][i] # t
             /\ Return("fault")
    /\ UNCHANGED <<flags, names, history>>

Exit ==
    /\ Returned("scope") /\ signal = "ok" /\ "exit" \in Then[Current]
    /\ exited' = TRUE
    /\ leaving' = TRUE
    /\ Return("ok")
    /\ UNCHANGED <<ended, applies, cancelled, names, late>>

End ==
    /\ Returned("scope") /\ signal = "ok" /\ "end" \in Then[Current]
    /\ ended' = TRUE
    /\ Return("ok")
    /\ UNCHANGED <<exited, applies, cancelled, names, history>>

\* A timeout drops what its task has called, wherever that waits, and is
\* returned by the scope.
Timeout ==
    /\ Runs("body") \/ Runs("wait")
    /\ \E k \in 2 .. Len(stack) :
          /\ stack[k].at = "scope"
          /\ In[stack[k].of][stack[k].n] \in Timed
          /\ stack' = SubSeq(stack, k + 1, Len(stack))
    /\ signal' = "timeout"
    /\ UNCHANGED <<flags, names, history>>

-----------------------------------------------------------------------------
(* exec_task and run_extension_scope.                                      *)

ScopeOf(f) == LET e == Extends[f.of][f.n] IN IF f.at = "before" THEN Before[e] ELSE After[e]

\* No extension is left, or the next one applies and has tasks here.
Passed(f)   == f.n > Len(Extends[f.of])
Extended(f) == ~ Passed(f) /\ Extends[f.of][f.n] \in f.exts /\ In[ScopeOf(f)] # <<>>

\* The guard is false.
Skip ==
    /\ Runs("task") /\ Top.of \in Guarded
    /\ Return("ok")
    /\ UNCHANGED <<flags, names, history>>

\* The guard, a transform or a schema fails, before or behind the body.
Refuse ==
    /\ Runs("task") \/ (Runs("after") /\ (Top.n = 1 \/ Passed(Top)))
    /\ Top.of \in Fallible
    /\ Return("fault")
    /\ UNCHANGED <<flags, names, history>>

\* The extensions of t, without those whose `when` is false.
Applicable(t) ==
    IF applies = "off" THEN {{}}
    ELSE {{Extends[t][i] : i \in 1 .. Len(Extends[t])} \ out : out \in SUBSET Conditional}

\* The extensions are selected once, for before and after.
Select ==
    /\ Runs("task")
    /\ \E exts \in Applicable(Top.of) :
          Become([Top EXCEPT !.at = "before", !.n = 1, !.exts = exts])
    /\ UNCHANGED <<flags, names, history>>

\* Mutant: scope_exited is what the last scope left.
EnterExtensionDirty ==
    /\ Runs("before") \/ Runs("after")
    /\ Extended(Top)
    /\ Invoke([Top EXCEPT !.was = applies], Calling("scope", ScopeOf(Top), 1))
    /\ applies' = "off"
    /\ leaving' = FALSE
    /\ UNCHANGED <<ended, exited, cancelled, names, late>>

\* Mutant: the extensions stay on.
EnterExtensionOn ==
    /\ Runs("before") \/ Runs("after")
    /\ Extended(Top)
    /\ Invoke([Top EXCEPT !.was = applies], Calling("scope", ScopeOf(Top), 1))
    /\ exited' = FALSE
    /\ leaving' = FALSE
    /\ UNCHANGED <<ended, applies, cancelled, names, late>>

EnterExtension ==
    /\ Runs("before") \/ Runs("after")
    /\ Extended(Top)
    /\ Invoke([Top EXCEPT !.was = applies], Calling("scope", ScopeOf(Top), 1))
    /\ applies' = "off"
    /\ exited' = FALSE
    /\ leaving' = FALSE
    /\ UNCHANGED <<ended, cancelled, names, late>>

\* One that does not, or has none, leaves the context alone.
PassExtension ==
    /\ Runs("before") \/ Runs("after")
    /\ ~ Passed(Top) /\ ~ Extended(Top)
    /\ Become([Top EXCEPT !.n = @ + 1])
    /\ UNCHANGED <<flags, names, history>>

\* The flags are restored, whatever the scope returned; an exit of `before`
\* leaves out the rest of them and the body.
LeaveExtension ==
    /\ Returned("before") \/ Returned("after")
    /\ applies' = Top.was
    /\ exited' = FALSE
    /\ IF signal \in Errors THEN Return(signal)
       ELSE IF Top.at = "before" /\ exited
       THEN Become([Top EXCEPT !.at = "after", !.n = 1])
       ELSE Become([Top EXCEPT !.n = @ + 1])
    /\ UNCHANGED <<ended, cancelled, names, history>>

\* tasks::dispatch.
Dispatch ==
    /\ Runs("before") /\ Passed(Top)
    /\ LET t == Top.of
           f == [Top EXCEPT !.at = "body", !.n = 0]
       IN  IF t \in Do THEN Invoke(f, Calling("scope", Body[t], 1))
           ELSE IF t \in For THEN Invoke(f, Calling("for", t, 0))
           ELSE IF t \in Try THEN Invoke(f, Calling("try", t, 0))
           ELSE Become(f)
    /\ late' = IF (ended \/ cancelled) /\ Top.of \notin Composite /\ late < MaxLate
               THEN late + 1 ELSE late
    /\ UNCHANGED <<flags, names, leaving>>

\* The body of a task that calls no scope ends, fails, or notices a cancellation.
FinishBody ==
    /\ Runs("body")
    /\ \/ Top.of \in Finite /\ Become([Top EXCEPT !.at = "after", !.n = 1])
       \/ Top.of \in Fallible /\ Return("fault")
       \/ Top.of \in Interruptible /\ cancelled /\ Return("cancelled")
    /\ UNCHANGED <<flags, names, history>>

\* The called scope is back.
BodyDone ==
    /\ Returned("body") /\ signal = "ok"
    /\ Become([Top EXCEPT !.at = "after", !.n = 1])
    /\ UNCHANGED <<flags, names, history>>

FinishTask ==
    /\ Runs("after") /\ Passed(Top)
    /\ Return("ok")
    /\ UNCHANGED <<flags, names, history>>

-----------------------------------------------------------------------------
(* task_for.                                                               *)

\* An iteration: the variables, the `while`, the body.
Iterate ==
    /\ Runs("for") /\ ~ cancelled
    /\ Top.n < Items[Top.of]
    /\ Invoke(Top, Calling("scope", Body[Top.of], 1))
    /\ names' = names \cup Sets[Top.of]
    /\ UNCHANGED <<flags, history>>

\* `in` is no collection, the loop is cancelled, or its `while` fails: the
\* variables stay.
FailLoop ==
    /\ Runs("for")
    /\ \/ Top.n = 0 /\ Top.of \in Fallible /\ Return("fault") /\ names' = names
       \/ cancelled /\ Top.n < Items[Top.of] /\ Return("cancelled") /\ names' = names
       \/ /\ ~ cancelled /\ Top.n < Items[Top.of]
          /\ Top.of \in Guarded \cap Fallible
          /\ Return("fault")
          /\ names' = names \cup Sets[Top.of]
    /\ UNCHANGED <<flags, history>>

\* No item is left, `while` is false, or an `end` was met: the loop is done.
LeaveLoop ==
    /\ \/ Runs("for") /\ Top.n = Items[Top.of]
       \/ Runs("for") /\ ~ cancelled /\ Top.of \in Guarded
       \/ Returned("for") /\ signal = "ok" /\ ended
    /\ Return("ok")
    /\ names' = names \ Sets[Top.of]
    /\ UNCHANGED <<flags, history>>

\* Mutant: an iteration cleans up behind itself, the names are set once.
NextItemClean ==
    /\ Returned("for") /\ signal = "ok" /\ ~ ended
    /\ IF Top.n + 1 < Items[Top.of]
       THEN Invoke([Top EXCEPT !.n = @ + 1], Calling("scope", Body[Top.of], 1))
       ELSE Become([Top EXCEPT !.n = @ + 1])
    /\ names' = names \ Sets[Top.of]
    /\ UNCHANGED <<flags, history>>

NextItem ==
    /\ Returned("for") /\ signal = "ok" /\ ~ ended
    /\ Become([Top EXCEPT !.n = @ + 1])
    /\ UNCHANGED <<flags, names, history>>

-----------------------------------------------------------------------------
(* task_try.                                                               *)

Attempt ==
    /\ Runs("try")
    /\ IF cancelled THEN Return("cancelled")
       ELSE Invoke(Top, Calling("scope", Body[Top.of], 1))
    /\ UNCHANGED <<flags, names, history>>

Succeed ==
    /\ Returned("try") /\ signal = "ok"
    /\ Return("ok")
    /\ UNCHANGED <<flags, names, history>>

\* set_error_var comes first, and stays; a `when` may fail.
Uncaught ==
    /\ Returned("try") /\ signal \in Errors
    /\ \/ signal \notin Caught[Top.of] /\ Return(signal)
       \/ Top.of \in Fallible /\ Return("fault")
    /\ names' = names \cup Sets[Top.of]
    /\ UNCHANGED <<flags, history>>

Catches == Returned("try") /\ signal \in Errors \cap Caught[Top.of]

\* Mutant: the attempts are not counted.
RetryUncounted ==
    /\ Catches
    /\ Top.n < Limit[Top.of]
    /\ Become([Top EXCEPT !.at = "wait"])
    /\ names' = names \cup Sets[Top.of]
    /\ UNCHANGED <<flags, history>>

\* Mutant: one attempt more.
RetryOnceMore ==
    /\ Catches
    /\ Top.n <= Limit[Top.of] /\ Limit[Top.of] > 0
    /\ Become([Top EXCEPT !.at = "wait", !.n = @ + 1])
    /\ names' = names \cup Sets[Top.of]
    /\ UNCHANGED <<flags, history>>

Retry ==
    /\ Catches
    /\ Top.n < Limit[Top.of]
    /\ Become([Top EXCEPT !.at = "wait", !.n = @ + 1])
    /\ names' = names \cup Sets[Top.of]
    /\ UNCHANGED <<flags, history>>

\* wait_with_cancel.
Wait ==
    /\ Runs("wait")
    /\ \/ Become([Top EXCEPT !.at = "try"])
       \/ cancelled /\ Return("cancelled")
    /\ UNCHANGED <<flags, names, history>>

\* No attempt is left, or the retry's `when` does not ask for one.
Handle ==
    /\ Catches
    /\ Top.n = Limit[Top.of] \/ Top.of \in Guarded
    /\ IF Handler[Top.of] = NoHandler THEN Return("ok")
       ELSE Invoke([Top EXCEPT !.at = "handler"], Calling("scope", Handler[Top.of], 1))
    /\ names' = names \cup Sets[Top.of]
    /\ UNCHANGED <<flags, history>>

Handled ==
    /\ Returned("handler")
    /\ Return(signal)
    /\ UNCHANGED <<flags, names, history>>

-----------------------------------------------------------------------------
\* Cancellation::cancel.
Cancel ==
    /\ ~ cancelled /\ stack # <<>>
    /\ cancelled' = TRUE
    /\ UNCHANGED <<stack, signal, ended, exited, applies, names, history>>

\* What the interpreter does when it is polled.
Scoping  == ObserveCancel \/ LeaveScope \/ StartTask \/ Continue \/ Goto \/ Exit \/ End
Tasking  == Skip \/ Refuse \/ Select \/ EnterExtension \/ PassExtension
            \/ LeaveExtension \/ Dispatch \/ BodyDone \/ FinishTask
Looping  == Iterate \/ FailLoop \/ LeaveLoop \/ NextItem
Trying   == Attempt \/ Succeed \/ Uncaught \/ Retry \/ Handle \/ Handled
Raising  == \E at \in {"scope", "body", "for"} : Propagate(at)
Polled   == Scoping \/ Tasking \/ Looping \/ Trying \/ Raising

Next == Polled \/ FinishBody \/ Wait \/ Timeout \/ Cancel

Spec == Init /\ [][Next]_vars

\* The interpreter is polled, sleeps end, and so do the bodies that may end;
\* a timeout comes.  Nobody need cancel.
FairSpec ==
    /\ Spec
    /\ WF_vars(Polled) /\ WF_vars(Wait) /\ WF_vars(Timeout)
    /\ WF_vars(stack # <<>> /\ Top.of \in Finite /\ FinishBody)

-----------------------------------------------------------------------------
(* Properties.                                                             *)

TypeOK ==
    /\ stack \in Seq(Call)
    /\ \A k \in 1 .. Len(stack) :
          IF stack[k].at = "scope"
          THEN stack[k].of \in Scope /\ stack[k].n \in 1 .. Len(In[stack[k].of]) + 1
          ELSE stack[k].of \in Task
    /\ signal \in {"run", "ok"} \cup Errors
    /\ ended \in BOOLEAN
    /\ exited \in BOOLEAN
    /\ applies \in {"on", "off"}
    /\ names \subseteq Name
    /\ cancelled \in BOOLEAN
    /\ late \in 0 .. MaxLate
    /\ leaving \in BOOLEAN

\* Call number k is inside run_extension_scope.
Extending(k) == stack[k].at \in {"before", "after"} /\ (k > 1 \/ signal # "run")

\* "Extensions never extend themselves": no extension scope runs, however deep,
\* inside another one (run_extension_scope).
NeverExtended ==
    \A j, k \in 1 .. Len(stack) : Extending(j) /\ Extending(k) => j = k

\* An exit that leaves out a task's body was one of its own extension's scopes:
\* neither an earlier exit nor one behind a dropped scope counts (exec_task).
ExitIsOwn ==
    [][(Returned("before") /\ stack' # <<>> /\ stack'[1].at = "after" /\ Len(stack') = Len(stack))
          => leaving]_vars

\* "end - complete the whole workflow", and "a cancelled workflow stops
\* executing subsequent tasks": one body starts behind an `end`, if its extension
\* met it, and one behind a cancellation, if it was past its scope's check.
FewLate == late <= IF ended /\ cancelled THEN 2 ELSE 1

\* "The engine re-runs the try body [...] up to the attempt count", counted per
\* visit of the task, whatever is caught and retried inside (task_try).
AttemptsBounded ==
    \A k \in 1 .. Len(stack) :
        stack[k].at \in {"try", "wait", "handler"} => stack[k].n <= Limit[stack[k].of]

\* The body of a loop sees the loop's variables, whatever failed, was caught, or
\* was looped over inside it under other names (task_for).
LoopVariables ==
    \A k \in 2 .. Len(stack) : stack[k].at = "for" => Sets[stack[k].of] \subseteq names

\* The child c is nested in the parent p, in the same part of the definition.
Under(depth, aside, p, c) == depth[p] < depth[c] /\ (p \in aside <=> c \in aside)

\* Assumed of the definition by the theorem about LoopVariables: its scopes and
\* tasks are nested in each other, the extensions' scopes aside, and two loops
\* have no variable in common.
Nested(depth, aside) ==
    /\ depth \in [Scope \cup Task -> Nat]
    /\ Main \notin aside
    /\ \A s \in Scope : \A i \in 1 .. Len(In[s]) : Under(depth, aside, s, In[s][i])
    /\ \A t \in Composite : Under(depth, aside, t, Body[t])
    /\ \A t \in Try : Handler[t] # NoHandler => Under(depth, aside, t, Handler[t])
    /\ \A e \in Extension : Before[e] \in aside /\ After[e] \in aside
OwnNames == \A t, u \in For : t # u => Sets[t] \cap Sets[u] = {}

\* With timeouts on the bodies that do not end, and no jump back, the workflow
\* returns: loops, retries and extensions come to an end, in any nesting.
Returns == <>(stack = <<>>)

\* The places a task of the main scope may send it to, and how it may leave it.
MainTo == [n \in 1 .. Len(In[Main]) |->
    {m \in 1 .. Len(In[Main]) + 1 :
        \/ m = n + 1 /\ "continue" \in Then[In[Main][n]]
        \/ m <= Len(In[Main]) /\ In[Main][m] \in Then[In[Main][n]] \cap Task}]
MainWith(directive) == {n \in 1 .. Len(In[Main]) : directive \in Then[In[Main][n]]}

MainScope == INSTANCE Walk
    WITH Length <- Len(In[Main]), To <- MainTo, ExitsAt <- MainWith("exit"), EndsAt <- MainWith("end"),
         place <- IF stack = <<>> THEN 0 ELSE stack[Len(stack)].n,
         phase <- IF stack = <<>> THEN "over"
                  ELSE IF Len(stack) = 1 /\ signal = "run" THEN "ready" ELSE "busy",
         outcome <- IF stack = <<>> THEN signal ELSE "none"

\* Seen from outside, the top-level scope is walked as if its tasks had no inside:
\* no exit, error, retry, timeout or extension of a nested scope moves or leaves
\* it but by the directive or the error of its own task, and an `end` met
\* anywhere stops it in front of the next one (exec_scope, calling itself).
RefinesWalk == MainScope!Spec

\* "Extension tasks run before/after every task of the targeted type"
\* (README.md), extensions being "temporarily disabled" in their own scopes
\* (run_extension_scope): a task that starts outside of one finds them on.
ExtensionsApply ==
    (Runs("task") /\ \A k \in 1 .. Len(stack) : ~ Extending(k)) => applies = "on"

=============================================================================
