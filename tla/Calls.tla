------------------------------- MODULE Calls --------------------------------
(* The `call` task inside a try that may repeat it: each built-in function  *)
(* is the list of its steps in the order of its code (service.rs, grpc.rs), *)
(* with the one request, or the broker, that it reaches the outside by.     *)
EXTENDS Naturals, Sequences, FiniteSets

CONSTANTS
    Calls,     \* the call tasks: see CallShape
    Answers,   \* what targets answer: see AnswerShape
    Attempts,  \* how often a try runs a task
    MaxEvents  \* bound: the matching events that others publish

\* A call of `function`; `inline`: its AsyncAPI document needs no fetch; `by`:
\* the transport of an AsyncAPI call; `count`: the events it consumes;
\* `redirect`: whether an HTTP call takes 3xx for success; `timed`: whether the
\* task has a timeout; `retried`: whether the try retries what it catches.
CallShape == [function : {"http", "openapi", "mcp", "a2a", "grpc", "native", "asyncapi"},
              inline : BOOLEAN, by : {"http", "publish", "subscribe"}, count : Nat,
              redirect : BOOLEAN, timed : BOOLEAN, retried : BOOLEAN]
AnswerShape == [status : 200 .. 599, body : {"json", "error", "text"}]

\* Assumed of the constants.
CallsInShape == Calls \subseteq CallShape /\ Answers \subseteq AnswerShape /\ Attempts \in Nat \ {0}

VARIABLES
    call,     \* the call task
    fault,    \* the step that its arguments make fail, if any
    attempt,  \* the attempt of the try
    at,       \* the step it is at
    wire,     \* each attempt's request: "none", "sent", "performed" or "lost"
    answer,   \* each performed request's answer
    stream,   \* a subscription: "none", "open" or "closed", and its events to come
    got,      \* the events consumed
    result    \* the outcome of the attempt: its kind and status

vars == <<call, fault, attempt, at, wire, answer, stream, got, result>>

Running  == [kind |-> "running", status |-> 0]
NoAnswer == [status |-> 0, body |-> ""]
NoFault  == <<"none", "">>

-----------------------------------------------------------------------------
(* The steps: what each may fail at, in the order of the code.              *)

Need(argument)  == <<"need", argument>>   \* it is there, of the right type
Text(argument)  == <<"text", argument>>   \* its expressions have values
Allow(uri)      == <<"allow", uri>>       \* a URI, and the policy allows it
Find(operation) == <<"find", operation>>  \* it is in the document
Fetch(document) == <<"fetch", document>>
Connect == <<"connect", "channel">>
Send    == <<"send", "request">>
Receive == <<"receive", "response">>

task_call        == << Text("with"), Find("function") >>
resolve_endpoint == << Need("uri"), Text("uri") >>
prepared         == << Allow("uri"), Text("headers"), Text("authentication") >>
exchange         == << Send, Receive >>

http    == << Need("method"), Need("endpoint") >> \o resolve_endpoint \o prepared
           \o << Text("body"), Text("query") >> \o exchange
openapi == << Need("document"), Need("operationId"), Allow("document"), Fetch("document"),
              Find("operation"), Text("parameters") >> \o exchange
mcp     == << Need("tool"), Need("endpoint") >> \o resolve_endpoint \o prepared \o exchange
a2a     == << Need("endpoint") >> \o resolve_endpoint \o prepared \o exchange
grpc    == << Need("endpoint") >> \o resolve_endpoint \o prepared \o exchange
native  == << Need("proto"), Need("service"), Need("method"), Find("method"), Allow("service"),
              Connect, Need("arguments") >> \o exchange
document(c)      == IF c.inline THEN <<>> ELSE << Allow("document"), Fetch("document") >>
invoke_broker(c) == IF c.by = "publish" THEN << <<"publish", "event">> >>
                    ELSE << Text("filter"), <<"subscribe", "broker">>, <<"consume", "events">> >>
asyncapi(c) == << Need("document") >> \o document(c) \o << Need("channels"), Find("operation") >>
               \o (IF c.by = "http" THEN << Allow("uri"), Text("headers") >> \o exchange ELSE invoke_broker(c))

Steps(c) == task_call \o CASE c.function = "http"     -> http
                           [] c.function = "openapi"  -> openapi
                           [] c.function = "mcp"      -> mcp
                           [] c.function = "a2a"      -> a2a
                           [] c.function = "grpc"     -> grpc
                           [] c.function = "native"   -> native
                           [] c.function = "asyncapi" -> asyncapi(c)

Static == {"need", "text", "allow", "find"}
Faults(c) == {NoFault} \cup {Steps(c)[i] : i \in {j \in DOMAIN Steps(c) : Steps(c)[j][1] \in Static}}

Failed(kind, status) == [kind |-> kind, status |-> status]
communication_error(status) == Failed("communication", status)

\* The errors of a step that fails: an address may be no URI or not allowed.
Errors(step) == CASE step[1] \in {"need", "find"} -> {Failed("semantic", 0)}
                  [] step[1] = "text"  -> {Failed("expression", 0)}
                  [] step[1] = "allow" -> {Failed("semantic", 0), Failed("policy", 0)}
                  [] step[1] \in {"fetch", "connect"} -> {communication_error(500)}

\* Mutant: a redirect is a success of every call.
AcceptedRedirect(c, status) == status \in 200 .. 399

Accepted(c, status) == status \in 200 .. 299 \/ (c.function = "http" /\ c.redirect /\ status \in 200 .. 399)

\* What the call makes of an answer: a gRPC error has no HTTP status, and the
\* JSON-RPC functions look into the body too.
Outcome(c, a) ==
    IF ~Accepted(c, a.status) THEN communication_error(IF c.function = "native" THEN 500 ELSE a.status)
    ELSE IF c.function \notin {"mcp", "a2a"} \/ a.body = "json" THEN Failed("ok", a.status)
    ELSE communication_error(IF a.body = "text" THEN 500 ELSE a.status)

-----------------------------------------------------------------------------
Init ==
    /\ call \in Calls
    /\ fault \in Faults(call)
    /\ attempt = 1 /\ at = 1
    /\ wire = [n \in 1 .. Attempts |-> "none"]
    /\ answer = [n \in 1 .. Attempts |-> NoAnswer]
    /\ stream = [state |-> "none", ready |-> 0, others |-> 0] /\ got = 0
    /\ result = Running

Step   == Steps(call)[at]
AtStep(op) == result = Running /\ Step[1] = op
Goes   == at' = at + 1 /\ UNCHANGED result
Ends(r) == result' = r /\ UNCHANGED at

Prepare ==
    /\ result = Running /\ Step[1] \in Static
    /\ IF Step = fault THEN \E e \in Errors(Step) : Ends(e) ELSE Goes
    /\ UNCHANGED <<call, fault, attempt, wire, answer, stream, got>>

\* A document is read, or the channel of a native gRPC call is opened.
ReachOut ==
    /\ result = Running /\ Step[1] \in {"fetch", "connect"}
    /\ Goes \/ \E e \in Errors(Step) : Ends(e)
    /\ UNCHANGED <<call, fault, attempt, wire, answer, stream, got>>

SendRequest ==
    /\ AtStep("send") /\ Goes
    /\ wire' = [wire EXCEPT ![attempt] = "sent"]
    /\ UNCHANGED <<call, fault, attempt, answer, stream, got>>

\* A target performs a request when it will, late ones of other attempts too.
Perform(n) ==
    /\ wire[n] = "sent"
    /\ wire' = [wire EXCEPT ![n] = "performed"]
    /\ \E a \in Answers : answer' = [answer EXCEPT ![n] = a]
    /\ UNCHANGED <<call, fault, attempt, at, stream, got, result>>

Lose(n) ==
    /\ wire[n] = "sent"
    /\ wire' = [wire EXCEPT ![n] = "lost"]
    /\ UNCHANGED <<call, fault, attempt, at, answer, stream, got, result>>

ReceiveAnswer ==
    /\ AtStep("receive") /\ wire[attempt] = "performed"
    /\ Ends(Outcome(call, answer[attempt]))
    /\ UNCHANGED <<call, fault, attempt, wire, answer, stream, got>>

\* The connection breaks before the answer is read, or as it is.
BreakConnection ==
    /\ AtStep("receive")
    /\ Ends(communication_error(500))
    /\ UNCHANGED <<call, fault, attempt, wire, answer, stream, got>>

PublishEvent ==
    /\ AtStep("publish") /\ Ends(Failed("ok", 200))
    /\ wire' = [wire EXCEPT ![attempt] = "performed"]
    /\ UNCHANGED <<call, fault, attempt, answer, stream, got>>

Subscribe ==
    /\ AtStep("subscribe") /\ Goes
    /\ stream' = [stream EXCEPT !.state = "open", !.ready = 0] /\ got' = 0
    /\ UNCHANGED <<call, fault, attempt, wire, answer>>

\* Others publish a matching event, or the broker goes away.
EventArrives ==
    /\ stream.state = "open" /\ stream.others < MaxEvents
    /\ stream' = [stream EXCEPT !.ready = @ + 1, !.others = @ + 1]
    /\ UNCHANGED <<call, fault, attempt, at, wire, answer, got, result>>

BrokerCloses ==
    /\ stream.state = "open"
    /\ stream' = [stream EXCEPT !.state = "closed"]
    /\ UNCHANGED <<call, fault, attempt, at, wire, answer, got, result>>

Consume ==
    /\ AtStep("consume") /\ got < call.count /\ stream.ready > 0
    /\ got' = got + 1 /\ stream' = [stream EXCEPT !.ready = @ - 1]
    /\ UNCHANGED <<call, fault, attempt, at, wire, answer, result>>

\* All are consumed, or no more will come: the call succeeds with what it has.
ReturnEvents ==
    /\ AtStep("consume") /\ (got = call.count \/ (stream.state = "closed" /\ stream.ready = 0))
    /\ Ends(Failed("ok", 200))
    /\ UNCHANGED <<call, fault, attempt, wire, answer, stream, got>>

\* The timeout of the task drops the call wherever it is; what it has sent is sent.
TimeOut ==
    /\ call.timed /\ result = Running
    /\ Ends(Failed("timeout", 408))
    /\ UNCHANGED <<call, fault, attempt, wire, answer, stream, got>>

\* The try runs the task again: the same arguments, a new request.
Retry ==
    /\ result.kind \notin {"running", "ok"} /\ call.retried /\ attempt < Attempts
    /\ attempt' = attempt + 1 /\ at' = 1 /\ result' = Running
    /\ stream' = [stream EXCEPT !.state = "none"] /\ got' = 0
    /\ UNCHANGED <<call, fault, wire, answer>>

Caller ==
    \/ Prepare \/ ReachOut \/ SendRequest \/ ReceiveAnswer \/ PublishEvent
    \/ Subscribe \/ Consume \/ ReturnEvents \/ Retry
World == EventArrives \/ BrokerCloses \/ BreakConnection \/ \E n \in 1 .. Attempts : Perform(n) \/ Lose(n)
Next  == Caller \/ World \/ TimeOut

\* The caller is polled, and the timer of a timeout fires.
Fairness == WF_vars(Caller) /\ WF_vars(TimeOut)
Spec == Init /\ [][Next]_vars /\ Fairness

-----------------------------------------------------------------------------
Requests == call.function # "asyncapi" \/ call.by = "http"

\* The outcome tells what this attempt did outside: success means that its own
\* request was performed and accepted (a client gives an answer to its request);
\* a status other than the runtime's own is the target's; an error of the
\* definition means that nothing was sent; and a broker that is still there
\* has given all the events asked for (the invokers' status handling).
AnswerBehindResult ==
    /\ result.kind = "ok" /\ Requests =>
          /\ wire[attempt] = "performed" /\ result.status = answer[attempt].status
          /\ result.status < 300 \/ (call.redirect /\ result.status < 400)
          /\ call.function \in {"mcp", "a2a"} => answer[attempt].body = "json"
    /\ result.kind = "communication" /\ result.status # 500 =>
          wire[attempt] = "performed" /\ result.status = answer[attempt].status
    /\ result.kind \in {"semantic", "expression", "policy"} => wire[attempt] = "none" /\ stream.state = "none"
    /\ result.kind = "ok" /\ ~Requests /\ call.by = "subscribe" /\ stream.state = "open" => got = call.count
    /\ \A n \in 1 .. Attempts : n > attempt => wire[n] = "none"

\* A call with a timeout comes to its end, retries included, whatever the
\* target and the broker do (the clients have no timeout of their own).
Over == result.kind = "ok" \/ (result.kind # "running" /\ (~call.retried \/ attempt = Attempts))
CallEnds == call.timed => <>Over

=============================================================================
