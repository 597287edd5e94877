--------------------------- MODULE DefinitionLaws ---------------------------
(* What validation and compilation promise the engine: the flow of a scope  *)
(* as the engine walks it, and the path of a task in its definition, each   *)
(* compared with what Definitions computes.                                 *)
EXTENDS Definitions

\* The targets the engine does not find from position i.
Lost(s, i) == {d \in Directives(s[i]) \ Keywords : ~Named(s, d)}

RECURSIVE Reached(_, _)
Reached(s, found) ==
    LET next == found \cup UNION {Goes(s, i) : i \in found} IN IF next = found THEN found ELSE Reached(s, next)

\* A task reported as unreachable is one the engine never comes to, and in a
\* valid scope it loses its way at a switch only (validate.rs: reachability of
\* a sequential scope, flow targets).
FlowSound(s) ==
    LET reached == Reached(s, {1})
    IN  /\ Sequential(s) => reached \cap Unreachable(s) = {}
        /\ validate_task_scope(s) = {} => \A i \in reached : Lost(s, i) # {} => s[i].kind = "switch"

-----------------------------------------------------------------------------
\* Every task of a scope and of those nested in it.
RECURSIVE AllTasks(_)
AllTasks(s) ==
    FlattenSeq([i \in DOMAIN s |->
        LET labels == SetToSeq(DOMAIN s[i].scopes)
        IN  <<s[i]>> \o FlattenSeq([k \in DOMAIN labels |-> AllTasks(s[i].scopes[labels[k]])])])

\* The task at a path of a definition's scope.
RECURSIVE Follow(_, _)
Follow(s, path) ==
    LET t    == s[path[1] + 1]
        rest == SubSeq(path, 3, Len(path))
        l    == CHOOSE l \in DOMAIN Segments : IsPrefix(Segments[l], rest)
    IN  IF rest = <<>> THEN t ELSE Follow(t.scopes[l], SubSeq(rest, Len(Segments[l]) + 1, Len(rest)))

Declared(item, components) == item.by = "name" => item.value \in DOMAIN components
Accepted(t, use) ==
    /\ Declared(t.timeout, use.timeouts) /\ Declared(t.retry, use.retries)
    /\ t.timeout.by = "inline" => t.timeout.value # "bad"
    /\ t.kind = "wait" => "bad" \notin t.parts
    /\ t.kind = "run" => t.parts \cap {"container", "script", "shell", "workflow"} # {}

\* A definition compiles if it is valid and whatever its tasks refer to, at any
\* depth, is there; then each compiled task stands where its reference says, in
\* the order and number of the definition, with the timeout its reference means.
CompiledTree(def) ==
    LET c    == compile(def)
        all  == AllTasks(def.do)
        flat == AllTasks(c.value.tasks)
    IN  /\ c.ok <=> /\ validate(def) = {}
                    /\ \A i \in DOMAIN all : Accepted(all[i], def.use)
        /\ c.ok => /\ \A i \in DOMAIN flat :
                         LET t == Follow(def.do, Tail(flat[i].reference))
                         IN  /\ t = all[i] /\ flat[i].name = t.name /\ flat[i].then = t.then
                             /\ t.timeout.by = "name" => flat[i].timeout = def.use.timeouts[t.timeout.value]
                   /\ Len(flat) = Len(all)
                   /\ Cardinality({flat[i].reference : i \in DOMAIN flat}) = Len(flat)

\* Normalising twice is normalising once, and a document without forks and
\* loops in the scope of a listen is always decodable behind it.
Normalised(s) ==
    LET n == normalize_scope(s)
        all == AllTasks(s)
    IN  /\ normalize_scope(n) = n
        /\ (\A i \in DOMAIN all : "foreach" \in DOMAIN all[i].scopes =>
                \A j \in DOMAIN AllTasks(all[i].scopes["foreach"]) :
                    AllTasks(all[i].scopes["foreach"])[j].kind \notin {"fork", "for"}) => from_yaml(s).ok

=============================================================================
