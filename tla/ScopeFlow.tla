------------------------------ MODULE ScopeFlow ------------------------------
(* Where the tasks of a scope lead: as validation draws it                  *)
(* (validate_reachability) and as the engine goes (exec_scope, task_switch).*)
(* A scope is a sequence of tasks; of a task, its name and kind, its `if`,  *)
(* its `then` ("" if none) and the cases of its switch matter here.         *)
EXTENDS Integers, Sequences, FiniteSetsExt, SequencesExt

Keywords == {"continue", "exit", "end"}

\* The names of a scope's tasks, and the position a directive names.
NamesOf(s) == [i \in DOMAIN s |-> s[i].name]
Position(s, name) == Min({i \in DOMAIN s : s[i].name = name})
Named(s, name) == name \in ToSet(NamesOf(s))

-----------------------------------------------------------------------------
(* As validation draws it.                                                  *)

\* The positions a directive at i leads to.
add_edge(s, i, then) ==
    IF then = "continue" THEN {i + 1} ELSE IF Named(s, then) THEN {Position(s, then)} ELSE {}

Thens(t)  == {t.cases[k].then : k \in DOMAIN t.cases}
Explicit(t) == (Thens(t) \cup {t.then}) \ {""}

\* Mutant: a switch in which no case may match is forgotten.
EdgesMatched(s, i) ==
    (UNION {add_edge(s, i, then) : then \in Explicit(s[i])}) \cup (IF Explicit(s[i]) = {} \/ s[i].if THEN {i + 1} ELSE {})

\* Where the graph of a scope leads from position i: the directives, the next
\* task if there is none, if a guard may be false or if no case may match.
Edges(s, i) ==
    LET t == s[i]
    IN  (UNION {add_edge(s, i, then) : then \in Explicit(t)})
        \cup (IF Explicit(t) = {} \/ t.if
                 \/ (t.kind = "switch" /\ "" \notin Thens(t) /\ t.then = "") THEN {i + 1} ELSE {})

\* One more round over the edges of the positions found.
Grow(s, found) == found \cup ((UNION {Edges(s, i) : i \in found}) \cap DOMAIN s)

\* What the loop over `pending` visits, whatever its order: as many rounds as there
\* are tasks find everything.
Reachable(s) ==
    LET found[n \in 0 .. Len(s)] == IF n = 0 THEN {1} ELSE Grow(s, found[n - 1])
    IN  found[Len(s)]

\* A try may lead anywhere: it keeps its scope from being diagnosed.
Unreachable(s) ==
    IF s = <<>> \/ \E i \in DOMAIN s : s[i].kind = "try" THEN {}
    ELSE DOMAIN s \ Reachable(s)

validate_reachability(s) == {<<"flow.unreachable", s[i].name>> : i \in Unreachable(s)}

-----------------------------------------------------------------------------
(* As the engine goes.                                                      *)

Else(directive) == IF directive = "" THEN "continue" ELSE directive

\* What a switch may give: the `then` of a case that may be the first to match,
\* and nothing ("") if none need match.
task_switch(t) ==
    LET may == {k \in DOMAIN t.cases : \A j \in 1 .. k - 1 : t.cases[j].when}
    IN  {Else(t.cases[k].then) : k \in may} \cup (IF \A k \in DOMAIN t.cases : t.cases[k].when THEN {""} ELSE {})

\* The directives a task may end with: its own, when it is skipped too.
Directives(t) ==
    {IF d = "" THEN Else(t.then) ELSE d : d \in (IF t.kind = "switch" THEN task_switch(t) ELSE {""})
                                               \cup (IF t.if THEN {""} ELSE {})}

\* Where the engine goes from position i.
Goes(s, i) == (UNION {add_edge(s, i, d) : d \in Directives(s[i])}) \cap DOMAIN s

\* A way of the engine through the scope, from its entry.
Way(s, w) ==
    /\ w \in Seq(DOMAIN s) /\ w # <<>>
    /\ w[1] = 1
    /\ \A k \in 1 .. Len(w) - 1 : w[k + 1] \in Goes(s, w[k])

\* A scope in which only switches have cases, and every case says where to go on
\* (`switch.then.required`).
Sequential(s) ==
    \A i \in DOMAIN s : IF s[i].kind = "switch" THEN "" \notin Thens(s[i]) ELSE Thens(s[i]) = {}

=============================================================================
