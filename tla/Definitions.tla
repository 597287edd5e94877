----------------------------- MODULE Definitions -----------------------------
(* Parsing, validation and compilation of a workflow definition             *)
(* (normalize_definition, validate, Runtime::compile, compile).             *)
(*                                                                          *)
(* A task is a record: its name and kind, whether it has an `if`, its       *)
(* `then` ("" if none), its switch cases, its nested scopes (a function     *)
(* from the labels of Segments to sequences of tasks), its references to    *)
(* timeout and retry, and `parts`, what else of its definition the compiler *)
(* chooses from.  What a data mapping, a schema or an error says, and the   *)
(* pointers of issues are left out.                                         *)
EXTENDS ScopeFlow

CONSTANT Identifiers    \* the names that are OWS identifiers

Refused == [ok |-> FALSE]
Got(v)  == [ok |-> TRUE, value |-> v]

\* Where a nested scope stands in its task.
Segments == [do |-> <<"do">>, try |-> <<"try">>, catch |-> <<"catch", "do">>,
             branches |-> <<"fork", "branches">>, foreach |-> <<"foreach", "do">>]

-----------------------------------------------------------------------------
(* Normalisation of the parsed document, before it is typed.                *)

\* A fork without `compete` gets the default, an inline collection of a for
\* becomes an expression; this reaches the scopes of do, for, try, catch and
\* fork, not those of a listen's foreach.
RECURSIVE normalize_scope(_)
normalize_scope(s) ==
    [i \in DOMAIN s |->
        [s[i] EXCEPT !.compete = IF s[i].kind = "fork" /\ @ = "missing" THEN "false" ELSE @,
                     !.in      = IF @ = "inline" THEN "text" ELSE @,
                     !.scopes  = [l \in DOMAIN @ |-> IF l = "foreach" THEN @[l] ELSE normalize_scope(@[l])]]]

\* The typed model requires `compete` of every fork, and a text of every `in`.
RECURSIVE Decodable(_)
Decodable(s) ==
    \A i \in DOMAIN s : /\ s[i].compete # "missing" /\ s[i].in # "inline"
                        /\ \A l \in DOMAIN s[i].scopes : Decodable(s[i].scopes[l])

from_yaml(s) == IF Decodable(normalize_scope(s)) THEN Got(normalize_scope(s)) ELSE Refused

-----------------------------------------------------------------------------
(* Validation: a set of issues, each a code with the task it is about.      *)

is_identifier(name) == name \in Identifiers

validate_switch(t) ==
    LET defaults == {k \in DOMAIN t.cases : ~t.cases[k].when}
    IN  {<<code, t.name>> : code \in
            (IF t.cases = <<>> THEN {"switch.empty"} ELSE {})
            \cup (IF Cardinality(defaults) > 1 THEN {"switch.multiple-default"} ELSE {})
            \cup (IF "" \in Thens(t) THEN {"switch.then.required"} ELSE {})}

\* Nested scopes of do, for, fork, try and catch are validated on their own;
\* the targets of switch cases are not.
RECURSIVE validate_task_scope(_)
validate_task_scope(s) ==
    LET names == NamesOf(s)
        Of(t) ==
            (IF ~is_identifier(t.name) THEN {<<"task.name.invalid", t.name>>} ELSE {})
            \cup (IF t.then \notin Keywords \cup {""} /\ ~Named(s, t.then) THEN {<<"flow.unknown-target", t.name>>}
                  ELSE {})
            \cup (IF t.kind = "switch" THEN validate_switch(t) ELSE {})
            \cup (IF t.kind = "for" /\ t.in = "" THEN {<<"for.in.required", t.name>>} ELSE {})
            \cup UNION {validate_task_scope(t.scopes[l]) : l \in DOMAIN t.scopes \ {"foreach"}}
    IN  UNION {Of(s[i]) : i \in DOMAIN s}
        \cup {<<"task.name.duplicate", names[i]>> : i \in {i \in DOMAIN s : \E j \in 1 .. i - 1 : names[j] = names[i]}}
        \cup validate_reachability(s)

\* Versions and names of the document: "" if missing, else what they are.
validate_document(doc) ==
    {c \in {"document.name.required", "document.version.required", "document.dsl.required"} :
        \/ c = "document.name.required" /\ doc.name = ""
        \/ c = "document.version.required" /\ doc.version = ""
        \/ c = "document.dsl.required" /\ doc.dsl = ""}
    \cup (IF is_identifier(doc.name) THEN {} ELSE {"document.name.invalid"})
    \cup (IF is_identifier(doc.namespace) THEN {} ELSE {"document.namespace.invalid"})
    \cup (IF doc.dsl \in {"", "1.0"} THEN {} ELSE {"document.dsl.unsupported"})

validate(def) ==
    {<<c, "">> : c \in validate_document(def.document)}
    \cup (IF def.do = <<>> THEN {<<"do.empty", "">>} ELSE {})
    \cup validate_task_scope(def.do)

-----------------------------------------------------------------------------
(* Compilation.                                                             *)

\* All results of a sequence, or the failure of one.
AllOf(rs) == IF \A i \in DOMAIN rs : rs[i].ok THEN Got([i \in DOMAIN rs |-> rs[i].value]) ELSE Refused

\* A duration is a number or the text of one, that may be no duration.
resolve_duration(d) == IF d = "bad" THEN Refused ELSE Got(d)

\* Mutant: a name that no component has is no error.
ResolveLenient(item, components) ==
    Got(IF item.by = "inline" THEN item.value
        ELSE IF item.by = "name" /\ item.value \in DOMAIN components THEN components[item.value] ELSE "none")

\* Inline, or by its name among the components.
Resolve(item, components) ==
    CASE item.by = "none"   -> Got("none")
      [] item.by = "inline" -> Got(item.value)
      [] item.by = "name"   -> IF item.value \in DOMAIN components THEN Got(components[item.value]) ELSE Refused

resolve_timeout(timeout, use) ==
    LET t == Resolve(timeout, use.timeouts)
    IN  IF ~t.ok \/ timeout.by = "none" THEN t ELSE resolve_duration(t.value)

\* A policy with both kinds of back-off is exponential; limits are kept as they are.
resolve_retry(retry, use) ==
    LET r == Resolve(retry, use.retries)
    IN  IF ~r.ok \/ retry.by = "none" THEN r
        ELSE Got([r.value EXCEPT !.backoff = IF "exponential" \in @ THEN "exponential"
                                             ELSE IF "linear" \in @ THEN "linear" ELSE "constant"])

\* The first of these that a definition has, else the last one as a default.
FirstPart(order, parts) ==
    LET D == {k \in DOMAIN order : order[k] \in parts} IN IF D = {} THEN "" ELSE order[Min(D)]

compile_run(parts) ==
    LET p == FirstPart(<<"container", "script", "shell", "workflow">>, parts) IN IF p = "" THEN Refused ELSE Got(p)

\* A strategy without one, all or any takes any event.
compile_listen_to(parts) ==
    LET p == FirstPart(<<"one", "all", "any">>, parts) IN Got(IF p = "" THEN "any" ELSE p)

\* A schedule's trigger; of an event strategy it takes one and any, never all.
build_schedule_trigger(parts) ==
    LET p == FirstPart(<<"every", "after", "cron">>, parts)
    IN  IF parts = {} THEN [trigger |-> "none", filters |-> {}]
        ELSE IF p = "" THEN [trigger |-> "on", filters |-> parts \cap {"one", "any"}] ELSE [trigger |-> p, filters |-> {}]

CompileParts(t) ==
    CASE t.kind = "run"    -> compile_run(t.parts)
      [] t.kind = "listen" -> compile_listen_to(t.parts)
      [] t.kind = "wait"   -> resolve_duration(FirstPart(<<"bad", "1">>, t.parts))
      [] OTHER             -> Got("")

\* A mapping is kept if it is a text; an object is left out without an error.
compile_data(parts) == parts \cap {"input.from", "output.as", "export.as"}

RECURSIVE compile_scope(_, _, _)
compile_task(t, reference, use) ==
    LET labels  == SetToSeq(DOMAIN t.scopes)
        nested  == AllOf([k \in DOMAIN labels |-> compile_scope(t.scopes[labels[k]], reference \o Segments[labels[k]], use)])
        timeout == resolve_timeout(t.timeout, use)
        retry   == resolve_retry(t.retry, use)
        part    == CompileParts(t)
    IN  IF ~(nested.ok /\ timeout.ok /\ retry.ok /\ part.ok) THEN Refused
        ELSE Got([name |-> t.name, reference |-> reference, kind |-> t.kind, if |-> t.if, then |-> t.then,
                  cases |-> t.cases, timeout |-> timeout.value, retry |-> retry.value, part |-> part.value,
                  data |-> compile_data(t.parts),
                  scopes |-> [l \in DOMAIN t.scopes |-> nested.value[CHOOSE k \in DOMAIN labels : labels[k] = l]]])

\* A task's reference is the path of its entry: scope, index, name.
compile_scope(s, base, use) ==
    AllOf([i \in DOMAIN s |-> compile_task(s[i], base \o <<i - 1, s[i].name>>, use)])

\* The extensions of the definition, each with its scopes before and after.
compile_extensions(use) ==
    LET Part(i, label) ==
            compile_scope(use.extensions[i][label], <<"use", "extensions", i - 1, use.extensions[i].name, label>>, use)
        Both(i) == AllOf(<<Part(i, "before"), Part(i, "after")>>)
    IN  AllOf([i \in DOMAIN use.extensions |->
                  IF Both(i).ok THEN Got([extend |-> use.extensions[i].extend, before |-> Both(i).value[1], after |-> Both(i).value[2]])
                  ELSE Refused])

\* Secrets named anywhere in the definition must be declared by it.
enforce_declared_secrets(def) == def.secrets \subseteq def.use.secrets

compile(def) ==
    LET timeout == resolve_timeout(def.timeout, def.use)
        tasks   == compile_scope(def.do, <<"do">>, def.use)
        exts    == compile_extensions(def.use)
    IN  IF validate(def) = {} /\ timeout.ok /\ tasks.ok /\ exts.ok /\ enforce_declared_secrets(def)
        THEN Got([tasks |-> tasks.value, extensions |-> exts.value, timeout |-> timeout.value,
                  schedule |-> build_schedule_trigger(def.schedule)])
        ELSE Refused

\* Runtime::compile: every expression of the definition must compile before.
Compile(def) ==
    IF validate(def) = {} /\ def.language \in {"", "jq"} /\ def.expressions THEN compile(def) ELSE Refused

=============================================================================
