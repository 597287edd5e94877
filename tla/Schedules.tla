------------------------------ MODULE Schedules ------------------------------
(***************************************************************************)
(* Runtime::start_schedules: one loop per scheduled workflow, all sharing  *)
(* the Cancellation of the ScheduleSet.  A loop waits for its trigger in a *)
(* select with the cancellation and runs the workflow to its end.          *)
(*                                                                         *)
(* A Cancellation is a flag and a tokio Notify: notify_waiters wakes the   *)
(* Notified futures that exist, and nobody who creates one later.          *)
(***************************************************************************)
EXTENDS Naturals, FiniteSets

CONSTANTS
    Loop,           \* the schedules that were started
    Every, After, Cron, OnEvents,   \* the loops of every kind of trigger
    Unstartable,    \* loops whose cron expression or subscription is refused
    Event,          \* the events that reach the subscriptions
    Filter,         \* the events every loop's filters match
    Endless,        \* loops whose workflow may block for ever
    MaxEvents,      \* bound on the events in flight to a loop
    MaxLate         \* bound on the count of late triggers

ASSUME LoopAssumption == /\ Loop = Every \cup After \cup Cron \cup OnEvents
                         /\ Every \cap (After \cup Cron \cup OnEvents) = {}
                         /\ After \cap (Cron \cup OnEvents) = {}
                         /\ Cron \cap OnEvents = {}
                         /\ Unstartable \subseteq Cron \cup OnEvents
                         /\ Filter \in [OnEvents -> SUBSET Event]
ASSUME BoundAssumption == MaxEvents \in Nat /\ MaxLate \in Nat \ {0, 1}

VARIABLES
    owner,      \* the ScheduleSet in the hands of the application
    flag,       \* Cancellation::flag
    pc,         \* the next step of every loop
    armed,      \* loops whose Notified future exists
    notified,   \* of these, the ones a notify_waiters has reached
    inbox,      \* the events in the subscription of every loop
    late        \* of `triggered`: by every loop since the cancellation returned

vars == <<owner, flag, pc, armed, notified, inbox, late>>

-----------------------------------------------------------------------------
Timed == Every \cup After \cup Cron

\* "holding" may still cancel; "awaiting" gave the set to join without.
Owners == {"holding", "cancelling", "cancelled", "joining", "awaiting", "gone"}
Pcs    == {"start", "next", "check", "arm", "wait", "fire", "run", "done"}

\* The step behind the end of an execution.
Again(l) == CASE l \in Every \cup After -> "check"
              [] l \in Cron             -> "next"
              [] l \in OnEvents         -> "arm"

Init ==
    /\ owner = "holding"
    /\ flag = FALSE
    /\ pc = [l \in Loop |-> "start"]
    /\ armed = {}
    /\ notified = {}
    /\ inbox = [l \in Loop |-> {}]
    /\ late = [l \in Loop |-> 0]

-----------------------------------------------------------------------------
(* The loops: run_schedule.                                                *)

Goes(l, from, to) == pc[l] = from /\ pc' = [pc EXCEPT ![l] = to]

\* An After loop executes first; a cron expression is parsed and a subscription
\* made, or the loop is over.
Start(l) ==
    /\ Goes(l, "start", IF l \in Unstartable THEN "done"
                        ELSE IF l \in After THEN "fire" ELSE Again(l))
    /\ UNCHANGED <<owner, flag, armed, notified, inbox, late>>

\* CronSchedule::next_after_epoch, which may have no further time.
NextTime(l) ==
    /\ Goes(l, "next", "check") \/ Goes(l, "next", "done")
    /\ UNCHANGED <<owner, flag, armed, notified, inbox, late>>

\* sleep_or_cancel looks at the flag first ...
Check(l) ==
    /\ Goes(l, "check", IF flag THEN "done" ELSE "arm")
    /\ UNCHANGED <<owner, flag, armed, notified, inbox, late>>

\* ... and the select creates the Notified future.
Arm(l) ==
    /\ Goes(l, "arm", "wait")
    /\ armed' = armed \cup {l}
    /\ UNCHANGED <<owner, flag, notified, inbox, late>>

\* The select is over: its other future is dropped.
Disarm(l) ==
    /\ armed' = armed \ {l}
    /\ notified' = notified \ {l}

\* The clock's sleep ends, in time or not.
Wake(l) ==
    /\ l \in Timed
    /\ Goes(l, "wait", IF flag THEN "done" ELSE "fire")
    /\ Disarm(l)
    /\ UNCHANGED <<owner, flag, inbox, late>>

\* An event is received; the select takes a ready branch at random, so also
\* when the loop was notified.  Events the filters do not match are skipped.
Receive(l) ==
    /\ l \in OnEvents
    /\ \E e \in inbox[l] :
          /\ inbox' = [inbox EXCEPT ![l] = @ \ {e}]
          /\ Goes(l, "wait", IF e \in Filter[l] THEN "fire" ELSE "arm")
    /\ Disarm(l)
    /\ UNCHANGED <<owner, flag, late>>

\* The select sees the cancellation.
SeeCancel(l) ==
    /\ l \in notified
    /\ Goes(l, "wait", "done")
    /\ Disarm(l)
    /\ UNCHANGED <<owner, flag, inbox, late>>

\* fire counts the trigger and starts the execution ...
Fire(l) ==
    /\ Goes(l, "fire", "run")
    /\ late' = IF owner \in {"cancelled", "joining"} /\ late[l] < MaxLate
               THEN [late EXCEPT ![l] = @ + 1] ELSE late
    /\ UNCHANGED <<owner, flag, armed, notified, inbox>>

\* ... which ends, whatever its result; the set's cancellation is not its own.
EndRun(l) ==
    /\ Goes(l, "run", Again(l))
    /\ UNCHANGED <<owner, flag, armed, notified, inbox, late>>

\* EventBroker::publish to a subscription; a receiver without events stays.
Publish(e) ==
    /\ inbox' = [l \in Loop |-> IF /\ l \in OnEvents
                                   /\ pc[l] \notin {"start", "done"}
                                   /\ Cardinality(inbox[l]) < MaxEvents
                                THEN inbox[l] \cup {e} ELSE inbox[l]]
    /\ UNCHANGED <<owner, flag, pc, armed, notified, late>>

-----------------------------------------------------------------------------
(* The owner: ScheduleSet.                                                 *)

\* Mutant: Cancellation::cancel only notifies.
StoreFlagNever ==
    /\ owner = "holding"
    /\ owner' = "cancelling"
    /\ UNCHANGED <<flag, pc, armed, notified, inbox, late>>

\* ScheduleSet::cancel, or the drop of the set: Cancellation::cancel stores
\* the flag ...
StoreFlag ==
    /\ owner = "holding"
    /\ owner' = "cancelling"
    /\ flag' = TRUE
    /\ UNCHANGED <<pc, armed, notified, inbox, late>>

\* ... and wakes who waits.
NotifyWaiters ==
    /\ owner = "cancelling"
    /\ owner' = "cancelled"
    /\ notified' = armed
    /\ UNCHANGED <<flag, pc, armed, inbox, late>>

\* ScheduleSet::join takes the set: nobody can cancel it any more.
Join ==
    /\ \/ owner = "cancelled" /\ owner' = "joining"
       \/ owner = "holding" /\ owner' = "awaiting"
    /\ UNCHANGED <<flag, pc, armed, notified, inbox, late>>

\* The handles are awaited, then the set is dropped.
Joined ==
    /\ owner \in {"joining", "awaiting"}
    /\ \A l \in Loop : pc[l] = "done"
    /\ owner' = "gone"
    /\ flag' = TRUE
    /\ UNCHANGED <<pc, armed, notified, inbox, late>>

-----------------------------------------------------------------------------
Step(l) ==
    \/ Start(l) \/ NextTime(l) \/ Check(l) \/ Arm(l)
    \/ Wake(l) \/ Receive(l) \/ SeeCancel(l)
    \/ Fire(l) \/ EndRun(l)

Owner == StoreFlag \/ NotifyWaiters \/ Join \/ Joined

Next == Owner \/ (\E l \in Loop : Step(l)) \/ (\E e \in Event : Publish(e))

Spec == Init /\ [][Next]_vars

\* A loop is polled, a sleep ends, an execution ends unless it is Endless.  The
\* owner need not cancel, nor anybody publish.
FairSpec ==
    /\ Spec
    /\ WF_vars(NotifyWaiters) /\ WF_vars(Joined)
    /\ \A l \in Loop :
          /\ WF_vars(Start(l) \/ NextTime(l) \/ Check(l) \/ Arm(l) \/ Fire(l))
          /\ WF_vars(Wake(l) \/ Receive(l) \/ SeeCancel(l))
          /\ l \notin Endless => WF_vars(EndRun(l))

-----------------------------------------------------------------------------
(* Properties.                                                             *)

TypeOK ==
    /\ owner \in Owners
    /\ flag \in BOOLEAN
    /\ pc \in [Loop -> Pcs]
    /\ armed \subseteq Loop
    /\ notified \subseteq armed
    /\ inbox \in [Loop -> SUBSET Event]
    /\ late \in [Loop -> 0 .. MaxLate]

\* Behind a cancellation a timer loop starts one execution at most, the one it
\* had decided on, even when the notification came between its look at the
\* flag and its select (sleep_or_cancel).
AtMostOneLate == \A l \in Timed : late[l] <= 1

\* A cancelled loop with a timer ends once its execution does, whatever it was
\* doing when it was cancelled ("Cancelling it (or dropping it) stops all").
TimersStop == (owner = "cancelled") ~> (\A l \in Timed \ Endless : pc[l] = "done")

\* "Awaits all schedule loops (they finish when cancelled)".
JoinReturns == (owner = "joining") ~> (owner = "gone")

=============================================================================
