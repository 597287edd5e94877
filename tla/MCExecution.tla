----------------------------- MODULE MCExecution -----------------------------
(* Small programs for Execution, one operator per constant value.          *)
EXTENDS Execution

CONSTANTS r1, r2, r3

Continue == [kind |-> "continue", to |-> 0]
Exit     == [kind |-> "exit", to |-> 0]
End      == [kind |-> "end", to |-> 0]
Goto(t)  == [kind |-> "goto", to |-> t]

\* 0 goes on, or skips 1, or names no task; 1 may jump back or end; 2 may exit.
LoopFlow == 0 :> {Continue, Goto(2), Goto(9)}
         @@ 1 :> {Continue, Goto(0), End}
         @@ 2 :> {Continue, Exit}

LineFlow == 0 :> {Continue} @@ 1 :> {Continue, End}

One1  == {r1}
Two   == {r1, r2}
Three == {r1, r2, r3}
None  == {}
Zero  == {0}
One   == {1}
Both  == {0, 1}
All   == {0, 1, 2}

=============================================================================
