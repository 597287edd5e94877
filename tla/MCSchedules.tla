----------------------------- MODULE MCSchedules -----------------------------
(* A loop of every kind; the filters of the event loop match one event.    *)
EXTENDS Schedules

CONSTANTS every, after, cron, bad, on, hit, miss

AllLoops   == {every, after, cron, bad, on}
EventLoops == {every, on}
None    == {}
EverySet == {every}
AfterSet == {after}
CronSet  == {cron}
BadCron  == {cron, bad}
Bad      == {bad}
OnSet    == {on}
Events   == {hit, miss}
Matches  == [l \in OnEvents |-> {hit}]

=============================================================================
