------------------------------ MODULE MCForkJoin ------------------------------
(* Small forks: three branches, of which a exports and fails, b exports, and *)
(* c neither.                                                                *)
EXTENDS ForkJoin, TLC

CONSTANTS a, b, c

ABC  == {a, b, c}
AB   == {a, b}
A    == {a}
C    == {c}

\* A join of branches that end, a race of which one does.
Ending == "join" :> ABC @@ "race" :> A

=============================================================================
