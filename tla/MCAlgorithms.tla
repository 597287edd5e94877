---------------------------- MODULE MCAlgorithms ----------------------------
(* The runtime's pure algorithms over small inputs: each state is a job for *)
(* one of them, and done when its results are compared with its laws.       *)
EXTENDS Integers, Sequences, FiniteSets, TLC

VARIABLES job, done

Expr == INSTANCE ExpressionLaws WITH CharOrder <- <<"0", "1", "2", "a", "b">>
Defn == INSTANCE DefinitionLaws WITH Identifiers <- {"a", "b", "c"}
Reqs == INSTANCE Requests
Otel == INSTANCE Telemetry

Texts(n, A) == UNION {[1 .. k -> A] : k \in 0 .. n}

-----------------------------------------------------------------------------
(* Expressions: lines of characters, tokens, templates, and values.         *)

Chars == {".", "1", "a", "\"", "\\", "(", ")", "#", " ", "e"}
LexJobs == [kind : {"lex"}, s : Texts(3, Chars),
            t : {<<"a">>, <<"1", ".">>, <<"\"", "a", "\"">>, <<")">>, <<"\"">>}]

Op(c) == <<"op", c>>
Operators == {<<"num", <<"1">> >>, <<"id", <<"o", "r">> >>} \cup {Op(c) : c \in {"+", "*", "|", "-", "(", ")", ","}}
Brackets  == {<<"id", <<"a">> >>} \cup {Op(c) : c \in {".", "[", "]", "{", "}", ":", ","}}
Infix  == {Op(c) : c \in {"|", ",", "==", "<", "+", "-", "//", "*", "/", "%"}}
          \cup {<<"id", <<"o", "r">> >>, <<"id", <<"a", "n", "d">> >>}
One(d) == <<"num", <<d>> >>
Nested == {<<One("1"), o, Op("("), One("2"), p, One("3"), Op(")")>> : o, p \in Infix}
     \cup {<<Op("("), One("1"), o, One("2"), Op(")"), p, One("3")>> : o, p \in Infix}
     \cup {<<One("1"), o, Op("-"), Op("("), One("2"), p, One("3"), Op(")")>> : o, p \in Infix}
ParseJobs == [kind : {"parse"}, ts : Texts(5, Operators) \cup Texts(5, Brackets) \cup Nested]
TextJobs  == [kind : {"template"}, s : Texts(5, {"$", "{", "}", "a", "1", " "})]

Trees == {Expr!Input, Expr!Each, Expr!Const(1), Expr!At_(0), Expr!Fn("empty"), <<"Field", Expr!Input, <<"a">> >>,
          <<"Stream", <<Expr!Const(0), <<"Literal", <<"null">> >> >> >>,
          <<"Unary", "-", Expr!Input>>, <<"Unary", "not", Expr!Input>>,
          <<"Binary", "+", Expr!Input, Expr!Const(1)>>, <<"Binary", "//", Expr!Input, Expr!Const(2)>>}
Values == {Expr!Null, Expr!Bool(TRUE), Expr!Whole(0), Expr!Whole(2), Expr!Num(1, 2), Expr!Str(<<"a">>),
           Expr!Str(<<"a", "b">>), Expr!Arr(<<>>), Expr!Arr(<<Expr!Whole(1)>>), Expr!Arr(<<Expr!Whole(1), Expr!Null>>),
           Expr!Arr(<<Expr!Arr(<<Expr!Whole(0)>>), Expr!Whole(2)>>), Expr!Obj(<<>>), Expr!Obj(<<"a">> :> Expr!Whole(1)),
           Expr!Obj((<<"a">> :> Expr!Null) @@ (<<"b">> :> Expr!Whole(1)))}
EvalJobs == [kind : {"stream"}, f : Trees, g : Trees, h : Trees, v : Values]
       \cup [kind : {"order"}, a : Values, b : Values, c : Values]
       \cup [kind : {"index"}, v : Values, i : 0 .. 3]
       \cup [kind : {"text"}, s : Texts(4, {"a", "b"}), t : Texts(2, {"a", "b"})]

-----------------------------------------------------------------------------
(* Definitions: scopes of three tasks in any flow, and trees of tasks.      *)

NoRef == [by |-> "none", value |-> ""]
Ref(name) == [by |-> "name", value |-> name]
Task(name, kind) ==
    [name |-> name, kind |-> kind, if |-> FALSE, then |-> "", cases |-> <<>>, scopes |-> <<>>, timeout |-> NoRef,
     retry |-> NoRef, parts |-> {}, compete |-> IF kind = "fork" THEN "missing" ELSE "",
     in |-> IF kind = "for" THEN "inline" ELSE "text"]
Case(when, then) == [when |-> when, then |-> then]
CaseLists == {<<>>, <<Case(TRUE, "c")>>, <<Case(TRUE, "b"), Case(FALSE, "exit")>>,
              <<Case(FALSE, "c"), Case(TRUE, "a")>>, <<Case(TRUE, "")>>, <<Case(TRUE, "x")>>}
FlowTasks(n) == {[Task(n, "set") EXCEPT !.if = i, !.then = d] : i \in BOOLEAN, d \in {"", "exit", "a", "c", "x"}}
           \cup {[Task(n, "switch") EXCEPT !.if = i, !.then = d, !.cases = c] :
                     i \in BOOLEAN, d \in {"", "c"}, c \in CaseLists}
           \cup {Task(n, "try")}
FlowJobs == [kind : {"flow"}, s : {<<x, y, z>> : x \in FlowTasks("a"), y \in FlowTasks("b"), z \in FlowTasks("c")}]

Leaves(n) == {Task(n, "set"), [Task(n, "set") EXCEPT !.timeout = Ref("t")], [Task(n, "set") EXCEPT !.timeout = Ref("u")],
              [Task(n, "wait") EXCEPT !.parts = {"bad"}], [Task(n, "run") EXCEPT !.parts = {"shell", "script"}],
              Task(n, "run"), [Task(n, "set") EXCEPT !.then = "b"], Task(n, "fork"), Task(n, "for")}
Bodies == {<<x>> : x \in Leaves("a")} \cup {<<x, y>> : x \in Leaves("a"), y \in {Task("b", "set"), Task("b", "fork")}}
In(label, body) == [l \in {label} |-> body]
Nests(n) == {[Task(n, k) EXCEPT !.scopes = In("do", b)] : k \in {"do", "for"}, b \in Bodies}
       \cup {[Task(n, "fork") EXCEPT !.scopes = In("branches", b)] : b \in Bodies}
       \cup {[Task(n, "listen") EXCEPT !.scopes = In("foreach", b)] : b \in Bodies}
       \cup {[Task(n, "try") EXCEPT !.scopes = ("try" :> b) @@ ("catch" :> c), !.retry = r] :
                 b \in Bodies, c \in {<<Task("a", "set"), Task("b", "wait")>>, <<Task("a", "fork")>>},
                 r \in {Ref("r"), NoRef, Ref("q")}}
Scopes == {<<x, y>> : x \in Leaves("a") \cup Nests("a"), y \in Leaves("b")}
     \cup {<<x, y>> : x \in Leaves("a"), y \in Nests("b")}
     \cup {<<[Task("a", "do") EXCEPT !.scopes = In("do", <<x>>)]>> : x \in Nests("a")}
TreeJobs == [kind : {"tree"}, s : Scopes]

Use == [timeouts |-> [t |-> "1"], retries |-> [r |-> [backoff |-> {"linear", "exponential"}]], secrets |-> {},
        extensions |-> <<[name |-> "e", extend |-> "all", before |-> <<Task("a", "set")>>, after |-> <<>>]>>]
Definition(s) == [document |-> [name |-> "a", namespace |-> "a", version |-> "1", dsl |-> "1.0"], do |-> s, use |-> Use,
                  timeout |-> NoRef, schedule |-> {"every"}, secrets |-> {}, language |-> "", expressions |-> TRUE]

-----------------------------------------------------------------------------
(* Requests: addresses with names in them, and documents.                   *)

InBraces == {<<"{", "a", "}">>, <<"{", "b", "}">>}
Filled == {<<>>, <<"a">>, <<"b">>, <<"a", "b">>} \cup InBraces
Parts  == {<<"{">>, <<"}">>, <<"a">>, <<"b">>} \cup InBraces
AddressJobs == [kind : {"address"}, s : {<<>>, <<"{", "a", "}">>}, t : {Reqs!FlattenSeq(p) : p \in Texts(4, Parts)},
                v : {(<<"a">> :> x) @@ (<<"b">> :> y) : x, y \in Filled} \cup {<<"a">> :> x : x \in Filled}]
Items == {Reqs!NoObject, [get |-> "x"], [put |-> "y", get |-> ""], [head |-> "x", post |-> "y"]}
DocumentJobs == [kind : {"document"}, d : Texts(3, [path : {"p", "q"}, item : Items]), id : {"x", "y"}]
Channels == [name : {"c", "d"}, publish : {"none", "", "x"}, subscribe : {"none", "x", "y"}, path : {"/"}]
ChannelJobs == [kind : {"channel"}, c : Texts(2, Channels), id : {"", "x", "y"}, name : {"", "c", "e"},
                servers : Texts(2, [http : BOOLEAN, url : {"u"}]), override : {"", "v"}]

-----------------------------------------------------------------------------
(* Telemetry: events of every type, samples around the bounds.              *)

Types == {Otel!Lifecycle(s, w) : s \in {"workflow", "task"},
              w \in {"started", "completed", "faulted", "retried", "status-changed", "correlation-completed", "cancelled"}}
         \cup {<<"order", "failed">>}
EventJobs == [kind : {"event"}, e : [id : {<<"x", "y">>}, source : {"s", "t"}, type : Types, subject : {"", "u"},
                                     data : {"", "d"}, time : {Otel!NoTime, Otel!Time(-3), Otel!Time(4)}]]
SampleJobs == [kind : {"samples"}, s : Texts(3, {0, 1, 2, 5, 70, 1000, 5000, 5001})]
Statuses == {"running", "completed", "faulted"}
WorkflowEmits(x) ==
         {Otel!workflow_event("s", x, w, "", Otel!Time(1)) : w \in Otel!WorkflowEvents \ {"faulted"}}
    \cup {Otel!workflow_event("s", x, "faulted", e, Otel!Time(1)) : e \in {"e1", "e2"}}
    \cup {Otel!workflow_status_changed("s", x, f, w, Otel!Time(1)) : f, w \in Statuses}
TaskEmits(x, t) ==
         {Otel!task_event("s", x, t, w, "", Otel!Time(n)) : w \in {"started", "completed"}, n \in {1, 2}}
    \cup {Otel!task_event("s", x, t, "faulted", e, Otel!Time(1)) : e \in {"e1", "e2"}}
    \cup {Otel!task_event("s", x, t, "retried", a, Otel!Time(1)) : a \in {"once", "twice"}}
Emits == UNION {WorkflowEmits(x) \cup TaskEmits(x, "t") \cup TaskEmits(x, "status") : x \in {"x", "y"}}
CountJobs == [kind : {"count"}, s : Texts(3, WorkflowEmits("x"))]
IdJobs    == [kind : {"ids"}, e : Emits, f : Emits]

-----------------------------------------------------------------------------
Init == /\ job \in LexJobs \cup ParseJobs \cup TextJobs \cup EvalJobs \cup FlowJobs \cup TreeJobs
                   \cup AddressJobs \cup DocumentJobs \cup ChannelJobs
                   \cup EventJobs \cup SampleJobs \cup CountJobs \cup IdJobs
        /\ done = FALSE
Next == ~done /\ done' = TRUE /\ UNCHANGED job
Spec == Init /\ [][Next]_<<job, done>>
Done(kind) == done /\ job.kind = kind

\* Lines are lexed apart, what is parsed is parsed again from its own printing,
\* and templates are cut and evaluated piece by piece (lexer, parser, engine).
SyntaxKept == /\ Done("lex")      => Expr!LinesApart(job.s, job.t)
              /\ Done("parse")    => Expr!Reparsed(job.ts)
              /\ Done("template") => Expr!CutWithoutLoss(job.s) /\ Expr!PiecewiseText(job.s, Expr!Null, <<>>)

\* The evaluator computes streams, orders, indices and texts as jq defines them
\* (eval.rs).
EvaluationLaws == /\ Done("stream") => Expr!StreamLaws(job.f, job.g, job.h, job.v)
                  /\ Done("order")  => Expr!OrderLaws(job.a, job.b, job.c)
                  /\ Done("index")  => Expr!IndexLaws(job.v, job.i)
                  /\ Done("text")   => Expr!TextLaws(job.s, job.t)

\* Validation reports no task that the engine reaches, and in a valid scope the
\* engine finds every task it is sent to, but by a switch (validate.rs, engine.rs).
FlowSound == Done("flow") => Defn!FlowSound(job.s)

\* What compiles is what is valid and complete, and each compiled task is the one
\* that its reference points to; decoding keeps what it can read (compile.rs, lib.rs).
CompiledTree == Done("tree") => /\ Defn!CompiledTree(Definition(Defn!normalize_scope(job.s)))
                                /\ Defn!Normalised(job.s)

\* Addresses are filled in as if at once where no value names a later parameter,
\* and operations are found that are there (service.rs).
RequestsBuilt == /\ Done("address")  => Reqs!AddressFilled(job.s, job.t, job.v)
                 /\ Done("document") => Reqs!OperationFound(job.d, job.id)
                 /\ Done("channel")  => Reqs!ChannelFound(job.c, job.id, job.name, job.servers, job.override)

\* The exporters agree, metrics count each event and sample once, and an id says
\* what its event is of (the otel crate and the LifecycleEmitter).
TelemetryRight == /\ Done("event")   => Otel!ProtocolsAgree(job.e)
                  /\ Done("samples") => Otel!HistogramRight(job.s)
                  /\ Done("count")   => Otel!CountersRight(job.s)
                  /\ Done("ids")     => Otel!IdsTell(job.e, job.f)

=============================================================================
