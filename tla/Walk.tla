--------------------------------- MODULE Walk ---------------------------------
(***************************************************************************)
(* What exec_scope promises about the tasks of a scope, whatever happens   *)
(* inside them: one task at a time, in the order the directives name, no   *)
(* task behind an `end` or a cancellation, and one outcome.  Nothing but   *)
(* the directive of the task itself moves the walk.                        *)
(***************************************************************************)
EXTENDS Naturals

CONSTANTS
    Length,     \* the number of tasks of the scope
    To,         \* [1 .. Length -> the places a task may send the walk to]
    ExitsAt,    \* the places of tasks that may exit the scope
    EndsAt      \* the places of tasks that may end the workflow

VARIABLES
    place,      \* the task in front of which, or in which, the walk is; 0 behind it
    phase,      \* "ready", "busy" in a task, or "over"
    outcome,    \* what the walk returned
    ended,      \* whether an `end` was met, here or inside a task
    cancelled   \* whether the execution was cancelled

vars == <<place, phase, outcome, ended, cancelled>>

Init ==
    /\ place = 1
    /\ phase = "ready"
    /\ outcome = "none"
    /\ ended = FALSE
    /\ cancelled = FALSE

Return(o) == place' = 0 /\ phase' = "over" /\ outcome' = o

\* An `end` that is met inside a task stays.
MayEnd == ended' \in {ended, TRUE}

ObserveCancel ==
    /\ phase = "ready" /\ cancelled
    /\ Return("cancelled")
    /\ UNCHANGED <<ended, cancelled>>

Leave ==
    /\ phase = "ready" /\ ~ cancelled
    /\ ended \/ place > Length
    /\ Return("ok")
    /\ UNCHANGED <<ended, cancelled>>

Start ==
    /\ phase = "ready" /\ ~ cancelled /\ ~ ended
    /\ place <= Length
    /\ phase' = "busy"
    /\ UNCHANGED <<place, outcome, ended, cancelled>>

EndInside ==
    /\ phase = "busy"
    /\ MayEnd
    /\ UNCHANGED <<place, phase, outcome, cancelled>>

Proceed ==
    /\ phase = "busy"
    /\ phase' = "ready"
    /\ place' \in To[place]
    /\ MayEnd
    /\ UNCHANGED <<outcome, cancelled>>

Exit ==
    /\ phase = "busy" /\ place \in ExitsAt
    /\ Return("ok")
    /\ MayEnd
    /\ UNCHANGED cancelled

End ==
    /\ phase = "busy" /\ place \in EndsAt
    /\ Return("ok")
    /\ ended' = TRUE
    /\ UNCHANGED cancelled

\* Only a task that runs can fail, and a cancellation is not made up.
Fail(error) ==
    /\ phase = "busy"
    /\ error = "cancelled" => cancelled
    /\ Return(error)
    /\ MayEnd
    /\ UNCHANGED cancelled

Cancel ==
    /\ phase # "over" /\ ~ cancelled
    /\ cancelled' = TRUE
    /\ UNCHANGED <<place, phase, outcome, ended>>

Next ==
    \/ ObserveCancel \/ Leave \/ Start \/ EndInside \/ Proceed \/ Exit \/ End
    \/ \E error \in {"fault", "timeout", "cancelled"} : Fail(error)
    \/ Cancel

Spec == Init /\ [][Next]_vars

=============================================================================
