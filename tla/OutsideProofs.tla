---------------------------- MODULE OutsideProofs ----------------------------
(* Proofs about what the runtime reaches outside itself: the invariants of  *)
(* processes and calls, and that the four parts, one at a time, keep what   *)
(* each of them promises.                                                   *)
EXTENDS Outside, SequenceTheorems, TLAPS

-----------------------------------------------------------------------------
(* Processes.                                                               *)

\* The types of what the proof is about.
ProcessType ==
    /\ job \in Proc!Runs
    /\ parent \in {"start", "feed", "collect", "end"}
    /\ child \in {"none", "runs", "exited", "killed"}
    /\ stdin \in [holds : Nat, open : BOOLEAN]
    /\ fed \in Nat /\ read \in Nat /\ made \in Nat /\ stdout \in Nat /\ taken \in Nat
    /\ outcome \in {"none", "input", "output", "semantic", "policy", "communication", "timeout"}

\* The pipes lose nothing and hold no more than they can; a program makes what it
\* makes and no more, and before that it reads no more than its `before`.
PipeInv ==
    /\ read + stdin.holds = fed /\ taken + stdout = made
    /\ stdin.holds <= Pipe /\ stdout <= Pipe
    /\ made <= job.makes
    /\ made < job.makes => read <= job.before
    /\ child = "exited" => made = job.makes

\* Where the runner is: it reads no output before it has written all the input,
\* so that a run that stalls never leaves its first pipe.
RunnerInv ==
    /\ parent \in {"start", "feed"} => taken = 0 /\ outcome = "none"
    /\ parent = "collect" => ~Proc!Stalls /\ outcome = "none"
    /\ parent = "start" => child = "none"
    /\ parent = "end" => child # "runs"
    /\ child # "none" => Proc!Gate \in Allowed /\ job.awaits
    /\ outcome = "output" => parent = "end" /\ child = "exited" /\ stdout = 0 /\ ~Proc!Stalls

ProcInv == ProcessType /\ PipeInv /\ RunnerInv

\* The amounts of a run are numbers.
LEMMA RunAmounts ==
    ASSUME Proc!Sizes, ProcessType
    PROVE  /\ Pipe \in Nat /\ Pipe > 0
           /\ job.input \in Nat /\ job.before \in Nat /\ job.makes \in Nat
<1>1. Pipe \in Nat /\ Pipe > 0 /\ Amounts \subseteq Nat
  BY DEF Proc!Sizes
<1>2. job.input \in Amounts /\ job.before \in Amounts /\ job.makes \in Amounts
  BY Zenon DEF ProcessType, Proc!Runs
<1> QED
  BY <1>1, <1>2

\* Behind a full input the runner may go on: not if the run stalls.
LEMMA StallsForever ==
    ASSUME Proc!Sizes, ProcInv, parent = "feed", fed = job.input \/ child = "exited"
    PROVE  ~Proc!Stalls
  BY RunAmounts DEF ProcInv, ProcessType, PipeInv, RunnerInv, Proc!Stalls

\* Nothing starts in a pipe.
LEMMA InitProcess == Proc!Sizes /\ Proc!Init => ProcInv
<1> SUFFICES ASSUME Proc!Sizes, Proc!Init PROVE ProcInv
  OBVIOUS
<1>1. ProcessType
  BY DEF Proc!Init, ProcessType, Proc!Runs
<1> QED
  BY <1>1, RunAmounts DEF Proc!Init, ProcInv, PipeInv, RunnerInv

\* One step of the proof per action.
LEMMA NextProcess == Proc!Sizes /\ ProcInv /\ (Proc!Next \/ UNCHANGED Proc!vars) => ProcInv'
<1> SUFFICES ASSUME Proc!Sizes, ProcInv, (Proc!Next \/ UNCHANGED Proc!vars) PROVE ProcInv'
  OBVIOUS
<1>0. Pipe \in Nat /\ Pipe > 0 /\ job.input \in Nat /\ job.before \in Nat /\ job.makes \in Nat
  BY RunAmounts DEF ProcInv
<1> USE <1>0 DEF ProcInv, ProcessType, PipeInv, RunnerInv, Proc!Stalls, Proc!Gate, Proc!Finish, Proc!work
<1>1. CASE Proc!NotAwaited BY <1>1 DEF Proc!NotAwaited
<1>2. CASE Proc!Refuse BY <1>2 DEF Proc!Refuse
<1>3. CASE Proc!Spawn BY <1>3 DEF Proc!Spawn
<1>4. CASE Proc!Feed BY <1>4 DEF Proc!Feed
<1>5. CASE Proc!Close
  <2>1. ~Proc!Stalls BY <1>5, StallsForever DEF Proc!Close
  <2> QED BY <1>5, <2>1 DEF Proc!Close
<1>6. CASE Proc!Collect BY <1>6 DEF Proc!Collect
<1>7. CASE Proc!Return BY <1>7 DEF Proc!Return
<1>8. CASE Proc!Reads BY <1>8 DEF Proc!Reads
<1>9. CASE Proc!Writes BY <1>9 DEF Proc!Writes
<1>10. CASE Proc!Exits BY <1>10 DEF Proc!Exits
<1>11. CASE Proc!TimeOut BY <1>11 DEF Proc!TimeOut
<1>12. CASE UNCHANGED Proc!vars BY <1>12 DEF Proc!vars
<1> QED
  BY <1>1, <1>2, <1>3, <1>4, <1>5, <1>6, <1>7, <1>8, <1>9, <1>10, <1>11, <1>12
  DEF Proc!Next, Proc!Runner, Proc!Program

\* What the invariant says of a run.
LEMMA ProcessWhole == Proc!Sizes /\ ProcInv => Proc!OutputWhole
  BY RunAmounts DEF ProcInv, ProcessType, PipeInv, RunnerInv, Proc!OutputWhole

-----------------------------------------------------------------------------
(* Calls.                                                                   *)

\* The steps before a call reaches out for its result, and all of them.
Before == {"need", "text", "allow", "find", "fetch", "connect"}
Words  == {"arguments", "authentication", "body", "channel", "channels", "document", "endpoint",
           "event", "events", "broker", "request", "response",
           "filter", "function", "headers", "method", "operation", "operationId", "parameters",
           "proto", "query", "service", "tool", "uri", "with"}
Kinds  == Before \cup {"send", "receive", "publish", "subscribe", "consume"}

\* A list of such steps, in front of the last ones, t.
Ahead(s, t) == \E p \in Seq(Before \X Words) : Len(p) > 0 /\ s = p \o t

Publishes == << <<"publish", "event">> >>
Consumes  == << <<"subscribe", "broker">>, <<"consume", "events">> >>

\* More steps in front.
LEMMA MoreAhead ==
    ASSUME NEW p \in Seq(Before \X Words), NEW s, NEW t \in Seq(Kinds \X Words),
           Ahead(s, t) \/ (s = t /\ Len(p) > 0)
    PROVE  Ahead(p \o s, t)
<1> DEFINE S == Kinds \X Words
           B == Before \X Words
<1>0. \A q \in Seq(B) : q \in Seq(S)
  <2> B \subseteq S BY DEF Kinds
  <2> HIDE DEF S, B
  <2> QED BY SeqMonotonic
<1>1. CASE s = t /\ Len(p) > 0 BY <1>1 DEF Ahead
<1>2. CASE Ahead(s, t)
  <2>1. PICK q \in Seq(B) : Len(q) > 0 /\ s = q \o t BY <1>2 DEF Ahead
  <2> HIDE DEF S, B
  <2>2. p \in Seq(B) BY DEF B
  <2>3. p \in Seq(S) /\ q \in Seq(S) /\ t \in Seq(S) BY <1>0, <2>1, <2>2 DEF S
  <2>4. p \o s = (p \o q) \o t
    <3>1. p \o (q \o t) = (p \o q) \o t BY <2>3, ConcatAssociative
    <3> QED BY <2>1, <3>1
  <2>5. p \o q \in Seq(B) /\ Len(p \o q) = Len(p) + Len(q) BY <2>1, <2>2, ConcatProperties
  <2>6. Len(p) \in Nat /\ Len(q) \in Nat BY <2>1, <2>2
  <2>7. Len(p \o q) > 0 BY <2>1, <2>5, <2>6
  <2> QED BY <2>4, <2>5, <2>7 DEF Ahead, B
<1> QED BY <1>1, <1>2

\* Preparations.
LEMMA Items ==
    /\ \A x \in Words : /\ Call!Need(x) \in Before \X Words /\ Call!Text(x) \in Before \X Words
                        /\ Call!Allow(x) \in Before \X Words /\ Call!Find(x) \in Before \X Words
                        /\ Call!Fetch(x) \in Before \X Words
    /\ Call!Connect \in Before \X Words
<1>1. \A b \in Before, x \in Words : <<b, x>> \in Before \X Words
  OBVIOUS
<1>2. {"need", "text", "allow", "find", "fetch", "connect"} \subseteq Before /\ "channel" \in Words
  BY DEF Before, Words
<1> QED
  BY <1>1, <1>2 DEF Call!Need, Call!Text, Call!Allow, Call!Find, Call!Fetch, Call!Connect

\* Lists of preparations.
LEMMA Preparations ==
    /\ Call!task_call \in Seq(Before \X Words) /\ Len(Call!task_call) > 0
    /\ Call!resolve_endpoint \in Seq(Before \X Words)
    /\ Call!prepared \in Seq(Before \X Words)
    /\ \A c : Call!document(c) \in Seq(Before \X Words)
    /\ Call!exchange \in Seq(Kinds \X Words)
    /\ Publishes \in Seq(Kinds \X Words) /\ Consumes \in Seq(Kinds \X Words)
<1> DEFINE B == Before \X Words
           K == Kinds \X Words
<1>1. \A x \in Words : Call!Need(x) \in B /\ Call!Text(x) \in B /\ Call!Allow(x) \in B
          /\ Call!Find(x) \in B /\ Call!Fetch(x) \in B
  BY Items
<1>2. /\ Call!Send \in K /\ Call!Receive \in K /\ <<"publish", "event">> \in K
      /\ <<"subscribe", "broker">> \in K /\ <<"consume", "events">> \in K
  BY DEF Call!Send, Call!Receive, Kinds, Words
<1> HIDE DEF B, K
<1>3. Call!task_call \in Seq(B) /\ Len(Call!task_call) > 0 BY <1>1 DEF Call!task_call, Words
<1>4. Call!resolve_endpoint \in Seq(B) BY <1>1 DEF Call!resolve_endpoint, Words
<1>5. Call!prepared \in Seq(B) BY <1>1 DEF Call!prepared, Words
<1>6. \A c : Call!document(c) \in Seq(B) BY <1>1 DEF Call!document, Words
<1>7. Call!exchange \in Seq(K) BY <1>2 DEF Call!exchange
<1>8. Publishes \in Seq(K) BY <1>2 DEF Publishes
<1>9. Consumes \in Seq(K) BY <1>2 DEF Consumes
<1> QED BY <1>3, <1>4, <1>5, <1>6, <1>7, <1>8, <1>9 DEF B, K

\* The lists of the functions that end in an exchange.
LEMMA RequestLists ==
    /\ Ahead(Call!http, Call!exchange) /\ Ahead(Call!openapi, Call!exchange) /\ Ahead(Call!mcp, Call!exchange)
    /\ Ahead(Call!a2a, Call!exchange) /\ Ahead(Call!grpc, Call!exchange) /\ Ahead(Call!native, Call!exchange)
<1> DEFINE B == Before \X Words
           h1 == << Call!Need("method"), Call!Need("endpoint") >>
           h2 == << Call!Text("body"), Call!Text("query") >>
           o1 == << Call!Need("document"), Call!Need("operationId"), Call!Allow("document"), Call!Fetch("document"),
                    Call!Find("operation"), Call!Text("parameters") >>
           m1 == << Call!Need("tool"), Call!Need("endpoint") >>
           a1 == << Call!Need("endpoint") >>
           n1 == << Call!Need("proto"), Call!Need("service"), Call!Need("method"), Call!Find("method"),
                     Call!Allow("service"),
                    Call!Connect, Call!Need("arguments") >>
<1>1. /\ h1 \in Seq(B) /\ h2 \in Seq(B) /\ o1 \in Seq(B) /\ m1 \in Seq(B) /\ a1 \in Seq(B) /\ n1 \in Seq(B)
      /\ Len(h1) > 0 /\ Len(o1) > 0 /\ Len(m1) > 0 /\ Len(a1) > 0 /\ Len(n1) > 0
  <2>1. /\ \A x \in Words : Call!Need(x) \in B /\ Call!Text(x) \in B /\ Call!Allow(x) \in B
            /\ Call!Find(x) \in B /\ Call!Fetch(x) \in B
        /\ Call!Connect \in B
    BY Items
  <2> HIDE DEF B
  <2>2. h1 \in Seq(B) /\ Len(h1) > 0 BY <2>1 DEF Words
  <2>3. h2 \in Seq(B) BY <2>1 DEF Words
  <2>4. o1 \in Seq(B) /\ Len(o1) > 0 BY <2>1 DEF Words
  <2>5. m1 \in Seq(B) /\ Len(m1) > 0 BY <2>1 DEF Words
  <2>6. a1 \in Seq(B) /\ Len(a1) > 0 BY <2>1 DEF Words
  <2>7. n1 \in Seq(B) /\ Len(n1) > 0 BY <2>1 DEF Words
  <2> QED BY <2>2, <2>3, <2>4, <2>5, <2>6, <2>7
<1>2. Call!resolve_endpoint \in Seq(B) /\ Call!prepared \in Seq(B) BY Preparations
<1>3. /\ Call!http = (((h1 \o Call!resolve_endpoint) \o Call!prepared) \o h2) \o Call!exchange
      /\ Call!openapi = o1 \o Call!exchange
      /\ Call!mcp = ((m1 \o Call!resolve_endpoint) \o Call!prepared) \o Call!exchange
      /\ Call!a2a = ((a1 \o Call!resolve_endpoint) \o Call!prepared) \o Call!exchange
      /\ Call!grpc = ((a1 \o Call!resolve_endpoint) \o Call!prepared) \o Call!exchange
      /\ Call!native = n1 \o Call!exchange
  BY DEF Call!http, Call!openapi, Call!mcp, Call!a2a, Call!grpc, Call!native
<1> HIDE DEF h1, h2, o1, m1, a1, n1, B
<1>4. ASSUME NEW p \in Seq(B), NEW q \in Seq(B), Len(p) > 0
      PROVE  p \o q \in Seq(B) /\ Len(p \o q) > 0
  <2>1. p \o q \in Seq(B) /\ Len(p \o q) = Len(p) + Len(q) BY ConcatProperties
  <2>2. Len(p) \in Nat /\ Len(q) \in Nat OBVIOUS
  <2> QED BY <1>4, <2>1, <2>2
<1>5. ASSUME NEW p \in Seq(B), Len(p) > 0 PROVE Ahead(p \o Call!exchange, Call!exchange)
  BY <1>5 DEF Ahead, B
<1>6. h1 \o Call!resolve_endpoint \in Seq(B) /\ Len(h1 \o Call!resolve_endpoint) > 0 BY <1>1, <1>2, <1>4
<1>7. /\ (h1 \o Call!resolve_endpoint) \o Call!prepared \in Seq(B)
      /\ Len((h1 \o Call!resolve_endpoint) \o Call!prepared) > 0
  BY <1>2, <1>4, <1>6
<1>8. /\ ((h1 \o Call!resolve_endpoint) \o Call!prepared) \o h2 \in Seq(B)
      /\ Len(((h1 \o Call!resolve_endpoint) \o Call!prepared) \o h2) > 0
  BY <1>1, <1>4, <1>7
<1>9. m1 \o Call!resolve_endpoint \in Seq(B) /\ Len(m1 \o Call!resolve_endpoint) > 0 BY <1>1, <1>2, <1>4
<1>10. /\ (m1 \o Call!resolve_endpoint) \o Call!prepared \in Seq(B)
       /\ Len((m1 \o Call!resolve_endpoint) \o Call!prepared) > 0
  BY <1>2, <1>4, <1>9
<1>11. a1 \o Call!resolve_endpoint \in Seq(B) /\ Len(a1 \o Call!resolve_endpoint) > 0 BY <1>1, <1>2, <1>4
<1>12. /\ (a1 \o Call!resolve_endpoint) \o Call!prepared \in Seq(B)
       /\ Len((a1 \o Call!resolve_endpoint) \o Call!prepared) > 0
  BY <1>2, <1>4, <1>11
<1> QED BY <1>1, <1>3, <1>5, <1>8, <1>10, <1>12

\* A call that is a request, and those that are not.
Asks(c) == c.function # "asyncapi" \/ c.by = "http"

\* Every list of steps is preparations in front of an exchange, of an event to
\* publish, or of a subscription.
LEMMA StepLists ==
    ASSUME NEW c \in Call!CallShape
    PROVE  \/ Ahead(Call!Steps(c), Call!exchange) /\ Asks(c)
           \/ Ahead(Call!Steps(c), Publishes) /\ ~ Asks(c) /\ c.by = "publish"
           \/ Ahead(Call!Steps(c), Consumes) /\ ~ Asks(c) /\ c.by = "subscribe"
<1>1. /\ c.function \in {"http", "openapi", "mcp", "a2a", "grpc", "native", "asyncapi"}
      /\ c.by \in {"http", "publish", "subscribe"}
  BY DEF Call!CallShape
<1>2. ASSUME NEW s, NEW t \in Seq(Kinds \X Words), Ahead(s, t), Call!Steps(c) = Call!task_call \o s
      PROVE  Ahead(Call!Steps(c), t)
  <2>1. Call!task_call \in Seq(Before \X Words) BY Preparations
  <2>2. Ahead(Call!task_call \o s, t) BY <1>2, <2>1, MoreAhead
  <2> QED BY <1>2, <2>2
<1>3. CASE c.function # "asyncapi"
  <2>1. PICK s \in {Call!http, Call!openapi, Call!mcp, Call!a2a, Call!grpc, Call!native}
            : Call!Steps(c) = Call!task_call \o s
    BY <1>1, <1>3 DEF Call!Steps
  <2>2. Ahead(s, Call!exchange) BY RequestLists
  <2> QED BY <1>2, <1>3, <2>1, <2>2, Preparations DEF Asks
<1>4. CASE c.function = "asyncapi"
  <2> DEFINE B == Before \X Words
             p1 == << Call!Need("document") >>
             p2 == << Call!Need("channels"), Call!Find("operation") >>
             p  == (p1 \o Call!document(c)) \o p2
             h  == << Call!Allow("uri"), Call!Text("headers") >>
             f  == << Call!Text("filter") >>
             z  == IF c.by = "http" THEN h \o Call!exchange ELSE Call!invoke_broker(c)
  <2>1. Call!Steps(c) = Call!task_call \o Call!asyncapi(c) BY <1>4 DEF Call!Steps
  <2>2. Call!asyncapi(c) = p \o z BY DEF Call!asyncapi
  <2>3. p1 \in Seq(B) /\ p2 \in Seq(B) /\ h \in Seq(B) /\ f \in Seq(B) /\ Len(h) > 0 /\ Len(f) > 0
        /\ Len(p1) > 0 /\ Len(p2) > 0
    <3>1. \A x \in Words : Call!Need(x) \in B /\ Call!Text(x) \in B /\ Call!Allow(x) \in B /\ Call!Find(x) \in B
        BY Items
    <3> HIDE DEF B
    <3>2. p1 \in Seq(B) /\ Len(p1) > 0 BY <3>1 DEF Words
    <3>3. p2 \in Seq(B) /\ Len(p2) > 0 BY <3>1 DEF Words
    <3>4. h \in Seq(B) /\ Len(h) > 0 BY <3>1 DEF Words
    <3>5. f \in Seq(B) /\ Len(f) > 0 BY <3>1 DEF Words
    <3> QED BY <3>2, <3>3, <3>4, <3>5
  <2>4. z = IF c.by = "http" THEN h \o Call!exchange ELSE IF c.by = "publish" THEN Publishes ELSE f \o Consumes
    <3>1. << Call!Text("filter"), <<"subscribe", "broker">>, <<"consume", "events">> >> = f \o Consumes
      BY DEF Consumes
    <3>2. Call!invoke_broker(c) = IF c.by = "publish" THEN Publishes ELSE f \o Consumes
      BY <3>1 DEF Call!invoke_broker, Publishes
    <3> HIDE DEF f
    <3> QED BY <3>2
  <2> HIDE DEF p1, p2, h, f, z
  <2>5. p \in Seq(B) /\ Len(p) > 0
    <3>1. p1 \o Call!document(c) \in Seq(B) BY <2>3, Preparations, ConcatProperties
    <3>2. p \in Seq(B) /\ Len(p) = Len(p1 \o Call!document(c)) + Len(p2) BY <2>3, <3>1, ConcatProperties
    <3>3. Len(p1 \o Call!document(c)) \in Nat /\ Len(p2) \in Nat BY <2>3, <3>1
    <3> QED BY <2>3, <3>2, <3>3
  <2> HIDE DEF p
  <2>6. ASSUME NEW t \in Seq(Kinds \X Words), Ahead(z, t) \/ z = t PROVE Ahead(Call!Steps(c), t)
    <3>1. Ahead(p \o z, t) BY <2>5, <2>6, MoreAhead DEF B
    <3> QED BY <1>2, <2>1, <2>2, <3>1
  <2>7. CASE c.by = "http"
    <3>1. Ahead(h \o Call!exchange, Call!exchange) BY <2>3, Preparations, MoreAhead DEF B
    <3> QED BY <2>4, <2>6, <2>7, <3>1, Preparations DEF Asks
  <2>8. CASE c.by = "publish" BY <1>4, <2>4, <2>6, <2>8, Preparations DEF Asks
  <2>9. CASE c.by = "subscribe"
    <3>1. Ahead(f \o Consumes, Consumes) BY <2>3, Preparations, MoreAhead DEF B
    <3> QED BY <1>4, <2>4, <2>6, <2>9, <3>1, Preparations DEF Asks
  <2> QED BY <1>1, <2>7, <2>8, <2>9
<1> QED BY <1>3, <1>4

\* What follows what in a call.
Sequel(c, s) ==
    /\ Len(s) \in Nat /\ Len(s) > 1
    /\ \A i \in 1 .. Len(s) : s[i][1] \in Kinds
    /\ \A i \in 1 .. Len(s) : s[i][1] \in Before \cup {"send", "subscribe"} => i + 1 \in 1 .. Len(s)
    /\ \A i \in 1 .. Len(s) - 1 : s[i + 1][1] = "receive" <=> s[i][1] = "send"
    /\ \A i \in 1 .. Len(s) - 1 : s[i + 1][1] = "consume" <=> s[i][1] = "subscribe"
    /\ s[1][1] \in Before
    /\ \A i \in 1 .. Len(s) : s[i][1] \in {"send", "receive"} => Asks(c)
    /\ \A i \in 1 .. Len(s) : s[i][1] = "publish" => ~ Asks(c) /\ c.by = "publish"
    /\ \A i \in 1 .. Len(s) : s[i][1] \in {"subscribe", "consume"} => ~ Asks(c) /\ c.by = "subscribe"

\* A list of preparations and of last steps, item by item.
LEMMA ItemByItem ==
    ASSUME NEW s, NEW t \in Seq(Kinds \X Words), Ahead(s, t)
    PROVE  \E n \in Nat \ {0} :
             /\ Len(s) = n + Len(t) /\ Len(t) \in Nat
             /\ \A i \in 1 .. n : s[i][1] \in Before
             /\ \A i \in n + 1 .. n + Len(t) : s[i] = t[i - n]
<1> DEFINE S == Kinds \X Words
           B == Before \X Words
<1>1. PICK p \in Seq(B) : Len(p) > 0 /\ s = p \o t BY DEF Ahead
<1>2. p \in Seq(S)
  <2> B \subseteq S BY DEF Kinds
  <2> HIDE DEF S, B
  <2> QED BY <1>1, SeqMonotonic
<1>3. \A i \in 1 .. Len(p) : p[i] \in B
  <2> HIDE DEF B
  <2> QED BY <1>1
<1>4. \A i \in 1 .. Len(p) : p[i][1] \in Before BY <1>3
<1> HIDE DEF S, B
<1>5. t \in Seq(S) BY DEF S
<1>6. /\ Len(s) = Len(p) + Len(t)
      /\ \A i \in 1 .. Len(p) + Len(t) : s[i] = IF i <= Len(p) THEN p[i] ELSE t[i - Len(p)]
  BY <1>1, <1>2, <1>5, ConcatProperties
<1>7. Len(p) \in Nat \ {0} /\ Len(t) \in Nat BY <1>1, <1>5
<1>8. \A i \in 1 .. Len(p) : s[i][1] \in Before BY <1>4, <1>6, <1>7
<1>9. \A i \in Len(p) + 1 .. Len(p) + Len(t) : s[i] = t[i - Len(p)] BY <1>6, <1>7
<1> QED BY <1>6, <1>7, <1>8, <1>9

\* What every call has in its order, whatever its function.
LEMMA StepOrder ==
    ASSUME NEW c \in Call!CallShape
    PROVE  Sequel(c, Call!Steps(c))
<1> DEFINE s == Call!Steps(c)
<1>1. CASE Ahead(s, Call!exchange) /\ Asks(c)
  <2>1. PICK n \in Nat \ {0} : /\ Len(s) = n + Len(Call!exchange)
                               /\ \A i \in 1 .. n : s[i][1] \in Before
                               /\ \A i \in n + 1 .. n + Len(Call!exchange) : s[i] = Call!exchange[i - n]
    <3>1. Call!exchange \in Seq(Kinds \X Words) /\ Ahead(s, Call!exchange) BY <1>1, Preparations
    <3> HIDE DEF s
    <3> QED BY <3>1, ItemByItem
  <2>2. Len(Call!exchange) = 2 /\ Call!exchange[1][1] = "send" /\ Call!exchange[2][1] = "receive"
    BY DEF Call!exchange, Call!Send, Call!Receive
  <2> HIDE DEF s
  <2>3. Len(s) = n + 2 /\ s[n + 1][1] = "send" /\ s[n + 2][1] = "receive" BY <2>1, <2>2
  <2>4. \A i \in 1 .. n + 2 : i \in 1 .. n \/ i = n + 1 \/ i = n + 2 OBVIOUS
  <2>5. Sequel(c, s)
    <3>1. ASSUME NEW i \in 1 .. n + 2
          PROVE  \/ i \in 1 .. n /\ s[i][1] \in Before
                 \/ i = n + 1 /\ s[i][1] = "send"
                 \/ i = n + 2 /\ s[i][1] = "receive"
      BY <2>1, <2>3, <2>4
    <3>2. ASSUME NEW i \in 1 .. n + 1
          PROVE  i \in 1 .. n + 2 /\ i + 1 \in 1 .. n + 2 /\ (i = n + 1 <=> i + 1 = n + 2)
      OBVIOUS
    <3>3. "send" \notin Before /\ "receive" \notin Before /\ "publish" \notin Before
          /\ "subscribe" \notin Before /\ "consume" \notin Before
      BY DEF Before
    <3>4. \A i \in 1 .. n + 1 : s[i + 1][1] = "receive" <=> s[i][1] = "send" BY <3>1, <3>2, <3>3
    <3>5. \A i \in 1 .. n + 2 : s[i][1] \in Before \cup {"send"} => i + 1 \in 1 .. n + 2 BY <3>1, <3>3
    <3>6. \A i \in 1 .. n + 2 : s[i][1] \in Before \cup {"send", "receive"} BY <3>1
    <3>7. s[1][1] \in Before BY <2>1
    <3>8. Len(s) \in Nat /\ Len(s) > 1 /\ Len(s) = n + 2 /\ Len(s) - 1 = n + 1 BY <2>3
    <3>9. \A i \in 1 .. n + 1 : i \in 1 .. n + 2 /\ i + 1 \in 1 .. n + 2 BY <3>2
    <3>10. \A i \in 1 .. n + 2 : s[i][1] \in Kinds BY <3>6 DEF Kinds
    <3>11. \A i \in 1 .. n + 2 : s[i][1] \notin {"publish", "subscribe", "consume"} BY <3>3, <3>6
    <3>12. \A i \in 1 .. n + 1 : s[i + 1][1] # "consume" /\ s[i][1] # "subscribe" BY <3>9, <3>11
    <3> QED BY <1>1, <3>4, <3>5, <3>7, <3>8, <3>10, <3>11, <3>12 DEF Sequel
  <2> QED BY <2>5 DEF s
<1>2. CASE Ahead(s, Publishes) /\ ~ Asks(c) /\ c.by = "publish"
  <2>0. Publishes \in Seq(Kinds \X Words) BY Preparations
  <2>1. PICK n \in Nat \ {0} : /\ Len(s) = n + Len(Publishes)
                               /\ \A i \in 1 .. n : s[i][1] \in Before
                               /\ \A i \in n + 1 .. n + Len(Publishes) : s[i] = Publishes[i - n]
    <3>1. Ahead(s, Publishes) BY <1>2
    <3> HIDE DEF s
    <3> QED BY <2>0, <3>1, ItemByItem
  <2>2. Len(Publishes) = 1 /\ Publishes[1][1] = "publish" BY DEF Publishes
  <2> HIDE DEF s
  <2>3. Len(s) = n + 1 /\ s[n + 1][1] = "publish" BY <2>1, <2>2
  <2>4. \A i \in 1 .. n + 1 : i \in 1 .. n \/ i = n + 1 OBVIOUS
  <2>5. Sequel(c, s)
    <3>1. "send" \notin Before /\ "receive" \notin Before /\ "publish" \notin Before
          /\ "subscribe" \notin Before /\ "consume" \notin Before
      BY DEF Before
    <3>2. \A i \in 1 .. n + 1 : s[i][1] \in Before \cup {"publish"} BY <2>1, <2>3, <2>4
    <3>3. \A i \in 1 .. n + 1 : s[i][1] \in Kinds BY <3>2 DEF Kinds
    <3>4. \A i \in 1 .. n + 1 : s[i][1] \in Before => i \in 1 .. n BY <2>3, <2>4, <3>1
    <3>5. \A i \in 1 .. n : i \in 1 .. n + 1 /\ i + 1 \in 1 .. n + 1 OBVIOUS
    <3>6. \A i \in 1 .. n + 1 : s[i][1] \notin {"send", "receive", "subscribe", "consume"} BY <3>1, <3>2
    <3>7. \A i \in 1 .. n : /\ s[i][1] \notin {"send", "subscribe"}
                            /\ s[i + 1][1] \notin {"receive", "consume"}
      BY <3>5, <3>6
    <3>8. s[1][1] \in Before BY <2>1
    <3>9. Len(s) \in Nat /\ Len(s) > 1 /\ Len(s) = n + 1 /\ Len(s) - 1 = n BY <2>3
    <3> QED BY <1>2, <3>3, <3>4, <3>5, <3>6, <3>7, <3>8, <3>9 DEF Sequel
  <2> QED BY <2>5 DEF s
<1>3. CASE Ahead(s, Consumes) /\ ~ Asks(c) /\ c.by = "subscribe"
  <2>0. Consumes \in Seq(Kinds \X Words) BY Preparations
  <2>1. PICK n \in Nat \ {0} : /\ Len(s) = n + Len(Consumes)
                               /\ \A i \in 1 .. n : s[i][1] \in Before
                               /\ \A i \in n + 1 .. n + Len(Consumes) : s[i] = Consumes[i - n]
    <3>1. Ahead(s, Consumes) BY <1>3
    <3> HIDE DEF s
    <3> QED BY <2>0, <3>1, ItemByItem
  <2>2. Len(Consumes) = 2 /\ Consumes[1][1] = "subscribe" /\ Consumes[2][1] = "consume"
    BY DEF Consumes
  <2> HIDE DEF s
  <2>3. Len(s) = n + 2 /\ s[n + 1][1] = "subscribe" /\ s[n + 2][1] = "consume" BY <2>1, <2>2
  <2>4. \A i \in 1 .. n + 2 : i \in 1 .. n \/ i = n + 1 \/ i = n + 2 OBVIOUS
  <2>5. Sequel(c, s)
    <3>1. ASSUME NEW i \in 1 .. n + 2
          PROVE  \/ i \in 1 .. n /\ s[i][1] \in Before
                 \/ i = n + 1 /\ s[i][1] = "subscribe"
                 \/ i = n + 2 /\ s[i][1] = "consume"
      BY <2>1, <2>3, <2>4
    <3>2. ASSUME NEW i \in 1 .. n + 1
          PROVE  i \in 1 .. n + 2 /\ i + 1 \in 1 .. n + 2 /\ (i = n + 1 <=> i + 1 = n + 2)
      OBVIOUS
    <3>3. "send" \notin Before /\ "receive" \notin Before /\ "publish" \notin Before
          /\ "subscribe" \notin Before /\ "consume" \notin Before
      BY DEF Before
    <3>4. \A i \in 1 .. n + 1 : s[i + 1][1] = "consume" <=> s[i][1] = "subscribe" BY <3>1, <3>2, <3>3
    <3>5. \A i \in 1 .. n + 2 : s[i][1] \in Before \cup {"subscribe"} => i + 1 \in 1 .. n + 2 BY <3>1, <3>3
    <3>6. \A i \in 1 .. n + 2 : s[i][1] \in Before \cup {"subscribe", "consume"} BY <3>1
    <3>7. s[1][1] \in Before BY <2>1
    <3>8. Len(s) \in Nat /\ Len(s) > 1 /\ Len(s) = n + 2 /\ Len(s) - 1 = n + 1 BY <2>3
    <3>9. \A i \in 1 .. n + 1 : i \in 1 .. n + 2 /\ i + 1 \in 1 .. n + 2 BY <3>2
    <3>10. \A i \in 1 .. n + 2 : s[i][1] \in Kinds BY <3>6 DEF Kinds
    <3>11. \A i \in 1 .. n + 2 : s[i][1] \notin {"publish", "send", "receive"} BY <3>3, <3>6
    <3>12. \A i \in 1 .. n + 1 : s[i + 1][1] # "receive" /\ s[i][1] # "send" BY <3>9, <3>11
    <3> QED BY <1>3, <3>4, <3>5, <3>7, <3>8, <3>10, <3>11, <3>12 DEF Sequel
  <2> QED BY <2>5 DEF s
<1> QED BY <1>1, <1>2, <1>3, StepLists

\* The types of what the proof is about.
CallType ==
    /\ call \in Calls
    /\ attempt \in 1 .. Attempts
    /\ at \in 1 .. Len(Call!Steps(call))
    /\ wire \in [1 .. Attempts -> {"none", "sent", "performed", "lost"}]
    /\ answer \in [1 .. Attempts -> Answers \cup {Call!NoAnswer}]
    /\ stream \in [state : {"none", "open", "closed"}, ready : Nat, others : Nat]
    /\ got \in Nat

\* Where the call is tells what it has outside: a request once it waits for its
\* answer, a subscription once it consumes, and nothing of attempts to come.
FlightInv ==
    /\ \A n \in 1 .. Attempts : n > attempt => wire[n] = "none"
    /\ result = Call!Running /\ Call!Step[1] # "receive" => wire[attempt] = "none"
    /\ result = Call!Running /\ Call!Step[1] # "consume" => stream.state = "none"

CallInv == CallType /\ FlightInv /\ Call!AnswerBehindResult

\* The step of a call, and the next one.
LEMMA StepAndNext ==
    ASSUME Call!CallsInShape, CallType
    PROVE  /\ Call!Step[1] \in Kinds
           /\ Call!Step[1] \in Before \cup {"send", "subscribe"} =>
                /\ at + 1 \in 1 .. Len(Call!Steps(call))
                /\ Call!Steps(call)[at + 1][1] = "receive" <=> Call!Step[1] = "send"
                /\ Call!Steps(call)[at + 1][1] = "consume" <=> Call!Step[1] = "subscribe"
           /\ 1 \in 1 .. Len(Call!Steps(call)) /\ Call!Steps(call)[1][1] \in Before
           /\ Call!Step[1] \in {"send", "receive"} => Call!Requests
           /\ Call!Step[1] = "publish" => ~ Call!Requests /\ call.by = "publish"
           /\ Call!Step[1] \in {"subscribe", "consume"} => ~ Call!Requests /\ call.by = "subscribe"
           /\ Attempts \in Nat \ {0}
<1>1. call \in Call!CallShape BY DEF Call!CallsInShape, CallType
<1>2. Sequel(call, Call!Steps(call)) BY <1>1, StepOrder
<1>3. Call!Requests <=> Asks(call) BY DEF Call!Requests, Asks
<1>4. at \in 1 .. Len(Call!Steps(call)) BY DEF CallType
<1>5. at + 1 \in 1 .. Len(Call!Steps(call)) => at \in 1 .. Len(Call!Steps(call)) - 1 BY <1>2, <1>4 DEF Sequel
<1> QED BY <1>2, <1>3, <1>4, <1>5 DEF Sequel, Call!Step, Call!CallsInShape

\* A call begins with a preparation, and with nothing sent.
LEMMA InitCall == Call!CallsInShape /\ Call!Init => CallInv
<1> SUFFICES ASSUME Call!CallsInShape, Call!Init PROVE CallInv
  OBVIOUS
<1>1. call \in Call!CallShape BY DEF Call!CallsInShape, Call!Init
<1>2. Sequel(call, Call!Steps(call)) BY <1>1, StepOrder
<1>3. at = 1 /\ at \in 1 .. Len(Call!Steps(call)) /\ Call!Steps(call)[1][1] \in Before BY <1>2
  DEF Sequel, Call!Init
<1>4. Attempts \in Nat \ {0} BY DEF Call!CallsInShape
<1>5. CallType BY <1>3, <1>4 DEF Call!Init, CallType
<1>6. FlightInv BY <1>3, <1>4 DEF Call!Init, FlightInv
<1>7. Call!AnswerBehindResult
  <2>1. result.kind = "running" BY DEF Call!Init, Call!Running
  <2> QED BY <1>4, <2>1 DEF Call!Init, Call!AnswerBehindResult
<1> QED BY <1>5, <1>6, <1>7 DEF CallInv

\* A call that goes to its next step.
LEMMA GoesOn ==
    ASSUME Call!CallsInShape, CallInv, result = Call!Running, Call!Goes, Call!Step[1] \in Before,
           UNCHANGED <<call, fault, attempt, wire, answer, stream, got>>
    PROVE  CallInv'
<1>1. CallType' BY StepAndNext DEF CallInv, CallType, Call!Goes
<1>2. Call!Step[1] # "receive" /\ Call!Step[1] # "consume" /\ Call!Step[1] # "send" /\ Call!Step[1] # "subscribe"
  BY DEF Before
<1>3. Call!Step'[1] # "receive" /\ Call!Step'[1] # "consume"
  BY <1>2, StepAndNext DEF CallInv, Call!Goes, Call!Step
<1>4. FlightInv' BY <1>2, <1>3 DEF CallInv, FlightInv
<1>5. Call!AnswerBehindResult'
  <2>1. result.kind = "running" /\ result' = result BY DEF Call!Running, Call!Goes
  <2> QED BY <2>1 DEF CallInv, Call!AnswerBehindResult
<1> QED BY <1>1, <1>4, <1>5 DEF CallInv

\* A call that ends without a result of its own.
LEMMA EndsAt ==
    ASSUME Call!CallsInShape, CallInv, NEW r, Call!Ends(r), r.kind # "running", r.kind # "ok",
           r.kind = "communication" => r.status = 500,
           r.kind \in {"semantic", "expression", "policy"} => wire[attempt] = "none" /\ stream.state = "none",
           UNCHANGED <<call, fault, attempt, wire, answer, stream, got>>
    PROVE  CallInv'
<1>1. CallType' BY DEF CallInv, CallType, Call!Ends
<1>2. result' = r /\ result' # Call!Running BY DEF Call!Ends, Call!Running
<1>3. FlightInv' BY <1>2 DEF CallInv, FlightInv
<1>4. Call!AnswerBehindResult' BY <1>2 DEF CallInv, Call!AnswerBehindResult, FlightInv
<1> QED BY <1>1, <1>3, <1>4 DEF CallInv

\* A preparation: the call goes on, or ends with nothing sent.
LEMMA PrepareKeeps == ASSUME Call!CallsInShape, CallInv, Call!Prepare \/ Call!ReachOut PROVE CallInv'
<1>1. result = Call!Running /\ Call!Step[1] \in Before
          /\ UNCHANGED <<call, fault, attempt, wire, answer, stream, got>>
  BY DEF Call!Prepare, Call!ReachOut, Call!Static, Before
<1>2. CASE Call!Goes BY <1>1, <1>2, GoesOn
<1>3. CASE \E e \in Call!Errors(Call!Step) : Call!Ends(e)
  <2>1. PICK e \in Call!Errors(Call!Step) : Call!Ends(e) BY <1>3
  <2>2. wire[attempt] = "none" /\ stream.state = "none" BY <1>1 DEF CallInv, FlightInv, Before
  <2>3. e \in {Call!Failed("semantic", 0), Call!Failed("policy", 0), Call!Failed("expression", 0),
            Call!Failed("communication", 500)}
    BY <1>1, <2>1 DEF Call!Errors, Call!communication_error, Before
  <2>4. e.kind # "running" /\ e.kind # "ok" /\ (e.kind = "communication" => e.status = 500)
    BY <2>3 DEF Call!Failed
  <2> QED BY <1>1, <2>1, <2>2, <2>4, EndsAt
<1> QED BY <1>2, <1>3 DEF Call!Prepare, Call!ReachOut

\* A request: the next step waits for its answer.
LEMMA SendKeeps == ASSUME Call!CallsInShape, CallInv, Call!SendRequest PROVE CallInv'
<1>1. /\ result = Call!Running /\ Call!Step[1] = "send" /\ at' = at + 1 /\ result' = result
      /\ wire' = [wire EXCEPT ![attempt] = "sent"] /\ UNCHANGED <<call, fault, attempt, answer, stream, got>>
  BY DEF Call!SendRequest, Call!AtStep, Call!Goes
<1>2. at' \in 1 .. Len(Call!Steps(call)) /\ Call!Step'[1] = "receive" /\ Call!Step'[1] # "consume"
  BY <1>1, StepAndNext DEF CallInv, Call!Step
<1>3. CallType' BY <1>1, <1>2 DEF CallInv, CallType
<1>4. FlightInv' BY <1>1, <1>2, StepAndNext DEF CallInv, CallType, FlightInv
<1>5. result'.kind = "running" BY <1>1 DEF Call!Running
<1>6. Call!AnswerBehindResult' BY <1>1, <1>4, <1>5 DEF FlightInv, Call!AnswerBehindResult
<1> QED BY <1>3, <1>4, <1>6 DEF CallInv

\* The network and the target, behind the back of the call.
LEMMA OutsideKeeps ==
    ASSUME Call!CallsInShape, CallInv, NEW n \in 1 .. Attempts, Call!Perform(n) \/ Call!Lose(n)
    PROVE  CallInv'
<1>1. /\ wire[n] = "sent" /\ UNCHANGED <<call, fault, attempt, at, stream, got, result>>
      /\ \/ wire' = [wire EXCEPT ![n] = "performed"] /\ \E a \in Answers : answer' = [answer EXCEPT ![n] = a]
         \/ wire' = [wire EXCEPT ![n] = "lost"] /\ answer' = answer
  BY DEF Call!Perform, Call!Lose
<1>2. CallType' BY <1>1 DEF CallInv, CallType
<1>3. \A m \in 1 .. Attempts : m # n => wire'[m] = wire[m] /\ answer'[m] = answer[m]
  BY <1>1 DEF CallInv, CallType
<1>4. attempt \in 1 .. Attempts BY DEF CallInv, CallType
<1>5. Call!Step' = Call!Step BY <1>1 DEF Call!Step
<1>6. FlightInv' BY <1>1, <1>3, <1>4, <1>5 DEF CallInv, FlightInv
<1>7. Call!AnswerBehindResult' BY <1>1, <1>3, <1>4, <1>6
  DEF CallInv, Call!AnswerBehindResult, FlightInv, Call!Requests
<1> QED BY <1>2, <1>6, <1>7 DEF CallInv

\* An answer: the outcome is that of this attempt's own request.
LEMMA ReceiveKeeps == ASSUME Call!CallsInShape, CallInv, Call!ReceiveAnswer PROVE CallInv'
<1> DEFINE a == answer[attempt]
<1>1. /\ result = Call!Running /\ Call!Step[1] = "receive" /\ wire[attempt] = "performed"
      /\ result' = Call!Outcome(call, a) /\ at' = at
      /\ UNCHANGED <<call, fault, attempt, wire, answer, stream, got>>
  BY DEF Call!ReceiveAnswer, Call!AtStep, Call!Ends
<1>2. Call!Requests BY <1>1, StepAndNext DEF CallInv
<1>3. \/ /\ Call!Accepted(call, a.status) /\ result' = Call!Failed("ok", a.status)
         /\ call.function \in {"mcp", "a2a"} => a.body = "json"
      \/ \E status \in {500, a.status} : result' = Call!Failed("communication", status)
  BY <1>1 DEF Call!Outcome, Call!communication_error
<1>4. CallType' BY <1>1 DEF CallInv, CallType
<1>5. result' # Call!Running BY <1>3 DEF Call!Failed, Call!Running
<1>6. FlightInv' BY <1>1, <1>5 DEF CallInv, FlightInv
<1>7. Call!AnswerBehindResult'
  <2>1. CASE /\ Call!Accepted(call, a.status) /\ result' = Call!Failed("ok", a.status)
             /\ call.function \in {"mcp", "a2a"} => a.body = "json"
    <3>1. result'.kind = "ok" /\ result'.status = a.status BY <2>1 DEF Call!Failed
    <3>2. a.status < 300 \/ (call.redirect /\ a.status < 400) BY <2>1 DEF Call!Accepted
    <3> QED BY <1>1, <1>2, <1>6, <2>1, <3>1, <3>2 DEF Call!AnswerBehindResult, Call!Requests, FlightInv
  <2>2. CASE \E status \in {500, a.status} : result' = Call!Failed("communication", status)
    <3>1. result'.kind = "communication" /\ (result'.status # 500 => result'.status = a.status)
      BY <2>2 DEF Call!Failed
    <3> QED BY <1>1, <1>6, <3>1 DEF Call!AnswerBehindResult, FlightInv
  <2> QED BY <1>3, <2>1, <2>2
<1> QED BY <1>4, <1>6, <1>7 DEF CallInv

\* The calls that publish or consume.
LEMMA EventsKeep ==
    ASSUME Call!CallsInShape, CallInv,
           Call!PublishEvent \/ Call!Subscribe \/ Call!EventArrives \/ Call!BrokerCloses
                     \/ Call!Consume \/ Call!ReturnEvents
    PROVE  CallInv'
<1> USE StepAndNext DEF CallInv
<1>1. CASE Call!PublishEvent
  <2>1. /\ result = Call!Running /\ Call!Step[1] = "publish" /\ result' = Call!Failed("ok", 200) /\ at' = at
        /\ wire' = [wire EXCEPT ![attempt] = "performed"]
                  /\ UNCHANGED <<call, fault, attempt, answer, stream, got>>
    BY <1>1 DEF Call!PublishEvent, Call!AtStep, Call!Ends
  <2>2. CallType' BY <2>1 DEF CallType
  <2>3. result'.kind = "ok" /\ result' # Call!Running BY <2>1 DEF Call!Failed, Call!Running
  <2>4. FlightInv' BY <2>1, <2>3 DEF FlightInv, CallType
  <2>5. ~ Call!Requests' /\ call'.by # "subscribe" BY <2>1 DEF Call!Requests
  <2>6. Call!AnswerBehindResult' BY <2>1, <2>3, <2>4, <2>5 DEF Call!AnswerBehindResult, FlightInv
  <2> QED BY <2>2, <2>4, <2>6
<1>2. CASE Call!Subscribe
  <2>1. /\ result = Call!Running /\ Call!Step[1] = "subscribe" /\ at' = at + 1 /\ result' = result /\ got' = 0
        /\ stream' = [stream EXCEPT !.state = "open", !.ready = 0]
                  /\ UNCHANGED <<call, fault, attempt, wire, answer>>
    BY <1>2 DEF Call!Subscribe, Call!AtStep, Call!Goes
  <2>2. at' \in 1 .. Len(Call!Steps(call)) /\ Call!Step'[1] = "consume" /\ Call!Step'[1] # "receive"
    BY <2>1 DEF Call!Step
  <2>3. CallType' BY <2>1, <2>2 DEF CallType
  <2>4. FlightInv' BY <2>1, <2>2 DEF FlightInv
  <2>5. result'.kind = "running" BY <2>1 DEF Call!Running
  <2>6. Call!AnswerBehindResult' BY <2>4, <2>5 DEF Call!AnswerBehindResult, FlightInv
  <2> QED BY <2>3, <2>4, <2>6
<1>3. CASE Call!EventArrives \/ Call!BrokerCloses
  <2>1. /\ stream.state = "open" /\ stream'.state \in {"open", "closed"}
        /\ UNCHANGED <<call, fault, attempt, at, wire, answer, got, result>>
    BY <1>3 DEF Call!EventArrives, Call!BrokerCloses, CallType
  <2>2. CallType'
    <3> DEFINE s == stream
    <3>1. s \in [state : {"none", "open", "closed"}, ready : Nat, others : Nat] BY DEF CallType
    <3>2. stream' = [s EXCEPT !.ready = @ + 1, !.others = @ + 1] \/ stream' = [s EXCEPT !.state = "closed"]
      BY <1>3 DEF Call!EventArrives, Call!BrokerCloses
    <3> HIDE DEF s
    <3>3. stream' \in [state : {"none", "open", "closed"}, ready : Nat, others : Nat]
      <4>1. s.ready \in Nat /\ s.others \in Nat /\ s.state \in {"none", "open", "closed"} BY <3>1
      <4>2. CASE stream' = [s EXCEPT !.ready = @ + 1, !.others = @ + 1]
        <5>1. stream' = [state |-> s.state, ready |-> s.ready + 1, others |-> s.others + 1] BY <3>1, <4>2
        <5> QED BY <4>1, <5>1
      <4>3. CASE stream' = [s EXCEPT !.state = "closed"] BY <3>1, <4>3
      <4> QED BY <3>2, <4>2, <4>3
    <3> QED BY <2>1, <3>3 DEF CallType
  <2>3. Call!Step' = Call!Step BY <2>1 DEF Call!Step
  <2>4. FlightInv' BY <2>1, <2>3 DEF FlightInv
  <2>5. Call!AnswerBehindResult' BY <2>1 DEF Call!AnswerBehindResult, Call!Requests
  <2> QED BY <2>2, <2>4, <2>5
<1>4. CASE Call!Consume
  <2>1. /\ result = Call!Running /\ got' = got + 1 /\ stream'.state = stream.state
        /\ UNCHANGED <<call, fault, attempt, at, wire, answer, result>>
    BY <1>4 DEF Call!Consume, Call!AtStep, CallType
  <2>2. CallType'
    <3> DEFINE s == stream
    <3>1. s \in [state : {"none", "open", "closed"}, ready : Nat, others : Nat] BY DEF CallType
    <3>2. s.ready > 0 /\ stream' = [s EXCEPT !.ready = @ - 1] BY <1>4 DEF Call!Consume
    <3> HIDE DEF s
    <3>3. stream' \in [state : {"none", "open", "closed"}, ready : Nat, others : Nat] BY <3>1, <3>2
    <3>4. got' \in Nat BY <2>1 DEF CallType
    <3> QED BY <2>1, <3>3, <3>4 DEF CallType
  <2>3. Call!Step' = Call!Step BY <2>1 DEF Call!Step
  <2>4. FlightInv' BY <2>1, <2>3 DEF FlightInv
  <2>5. result'.kind = "running" BY <2>1 DEF Call!Running
  <2>6. Call!AnswerBehindResult' BY <2>4, <2>5 DEF Call!AnswerBehindResult, FlightInv
  <2> QED BY <2>2, <2>4, <2>6
<1>5. CASE Call!ReturnEvents
  <2>1. /\ result = Call!Running /\ Call!Step[1] = "consume" /\ result' = Call!Failed("ok", 200) /\ at' = at
        /\ got = call.count \/ stream.state = "closed"
        /\ UNCHANGED <<call, fault, attempt, wire, answer, stream, got>>
    BY <1>5 DEF Call!ReturnEvents, Call!AtStep, Call!Ends
  <2>2. CallType' BY <2>1 DEF CallType
  <2>3. result'.kind = "ok" /\ result' # Call!Running BY <2>1 DEF Call!Failed, Call!Running
  <2>4. FlightInv' BY <2>1, <2>3 DEF FlightInv
  <2>5. ~ Call!Requests' BY <2>1 DEF Call!Requests
  <2>6. Call!AnswerBehindResult' BY <2>1, <2>3, <2>4, <2>5 DEF Call!AnswerBehindResult, FlightInv
  <2> QED BY <2>2, <2>4, <2>6
<1> QED BY <1>1, <1>2, <1>3, <1>4, <1>5

\* A retry: a new attempt has nothing outside.
LEMMA RetryKeeps == ASSUME Call!CallsInShape, CallInv, Call!Retry PROVE CallInv'
<1>1. /\ attempt < Attempts /\ attempt' = attempt + 1 /\ at' = 1 /\ result' = Call!Running /\ got' = 0
      /\ stream' = [stream EXCEPT !.state = "none"] /\ UNCHANGED <<call, fault, wire, answer>>
  BY DEF Call!Retry
<1>2. at' \in 1 .. Len(Call!Steps(call)) BY <1>1, StepAndNext DEF CallInv
<1>3. attempt' \in 1 .. Attempts BY <1>1, StepAndNext DEF CallInv, CallType
<1>4. CallType' BY <1>1, <1>2, <1>3 DEF CallInv, CallType
<1>5. FlightInv' BY <1>1, <1>3, StepAndNext DEF CallInv, CallType, FlightInv
<1>6. result'.kind = "running" BY <1>1 DEF Call!Running
<1>7. Call!AnswerBehindResult' BY <1>5, <1>6 DEF Call!AnswerBehindResult, FlightInv
<1> QED BY <1>4, <1>5, <1>7 DEF CallInv

\* One step of the proof per action.
LEMMA NextCall == Call!CallsInShape /\ CallInv /\ (Call!Next \/ UNCHANGED Call!vars) => CallInv'
<1> SUFFICES ASSUME Call!CallsInShape, CallInv, (Call!Next \/ UNCHANGED Call!vars) PROVE CallInv'
  OBVIOUS
<1>1. CASE Call!BreakConnection \/ Call!TimeOut
  <2>1. \E r \in {Call!Failed("communication", 500), Call!Failed("timeout", 408)} : Call!Ends(r)
    BY <1>1 DEF Call!BreakConnection, Call!TimeOut, Call!communication_error
  <2>2. UNCHANGED <<call, fault, attempt, wire, answer, stream, got>> BY <1>1
    DEF Call!BreakConnection, Call!TimeOut
  <2>3. PICK r \in {Call!Failed("communication", 500), Call!Failed("timeout", 408)} : Call!Ends(r) BY <2>1
  <2>4. r.kind \in {"communication", "timeout"} /\ (r.kind = "communication" => r.status = 500)
    BY <2>3 DEF Call!Failed
  <2> QED BY <2>2, <2>3, <2>4, EndsAt
<1>2. CASE UNCHANGED Call!vars
  BY <1>2 DEF Call!vars, CallInv, CallType, FlightInv, Call!Step, Call!AnswerBehindResult, Call!Requests
<1> QED BY <1>1, <1>2, PrepareKeeps, SendKeeps, OutsideKeeps, ReceiveKeeps, EventsKeep, RetryKeeps
        DEF Call!Next, Call!Caller, Call!World

-----------------------------------------------------------------------------
(* Catalogs and stores: their invariants, proved beside their modules.      *)

CatP  == INSTANCE DefinitionProofs WITH result <- resolved
StorP == INSTANCE StoresProofs

\* The catalogs that run here are those that were proved about.
LEMMA SameCatalogs ==
    /\ Cat!EndpointsFit => CatP!EndpointsFit
    /\ Cat!Init => CatP!Init
    /\ Cat!Next => CatP!Next
    /\ UNCHANGED catVars => UNCHANGED CatP!vars
    /\ CatP!EverythingImported => Cat!EverythingImported
<1>1. Cat!EndpointsFit => CatP!EndpointsFit
  BY DEF Cat!EndpointsFit, CatP!EndpointsFit, Cat!IsFiniteSet, CatP!IsFiniteSet
<1>2. Cat!Init => CatP!Init
  BY DEF Cat!Init, CatP!Init, Cat!Catalog, CatP!Catalog, Cat!Orders, CatP!Orders, Cat!RangeOf, CatP!RangeOf,
         Cat!Cardinality, CatP!Cardinality
<1>3. Cat!Next => CatP!Next
  <2> USE DEF Cat!Top, CatP!Top, Cat!Rest, CatP!Rest, Cat!Resolving, CatP!Resolving
  <2>1. Cat!Unchanged => CatP!Unchanged BY DEF Cat!Unchanged, CatP!Unchanged
  <2>2. Cat!Skip => CatP!Skip BY DEF Cat!Skip, CatP!Skip
  <2>3. Cat!Import => CatP!Import
    BY DEF Cat!Import, CatP!Import, Cat!merge_components, CatP!merge_components, Cat!Orders, CatP!Orders,
           Cat!RangeOf, CatP!RangeOf, Cat!Cardinality, CatP!Cardinality
  <2>4. Cat!Fail => CatP!Fail BY DEF Cat!Fail, CatP!Fail
  <2>5. Cat!Finish => CatP!Finish BY DEF Cat!Finish, CatP!Finish
  <2> QED BY <2>1, <2>2, <2>3, <2>4, <2>5 DEF Cat!Next, CatP!Next
<1>4. UNCHANGED catVars => UNCHANGED CatP!vars
  BY DEF catVars, CatP!vars
<1>5. CatP!EverythingImported => Cat!EverythingImported
  BY DEF Cat!EverythingImported, CatP!EverythingImported, Cat!Closed, CatP!Closed, Cat!RangeOf, CatP!RangeOf
<1> QED BY <1>1, <1>2, <1>3, <1>4, <1>5

\* And so are the stores.
LEMMA SameStores ==
    /\ Stor!Init => StorP!Init
    /\ Stor!Next => StorP!Next
    /\ UNCHANGED storVars => UNCHANGED StorP!vars
    /\ StorP!WritesKept => Stor!WritesKept
<1>1. Stor!Init => StorP!Init
  BY DEF Stor!Init, StorP!Init, Stor!Idle, StorP!Idle
<1>2. Stor!Next => StorP!Next
  <2> USE DEF Stor!Becomes, StorP!Becomes, Stor!Release, StorP!Release, Stor!Written, StorP!Written,
              Stor!MaySend, StorP!MaySend
  <2>1. Stor!Apply => StorP!Apply BY DEF Stor!Apply, StorP!Apply
  <2>2. Stor!Break => StorP!Break BY DEF Stor!Break, StorP!Break
  <2>3. ASSUME NEW w \in Writers
        PROVE  /\ Stor!Ask(w) => StorP!Ask(w)
               /\ Stor!Drop(w) => StorP!Drop(w)
               /\ Stor!Return(w) => StorP!Return(w)
    BY DEF Stor!Ask, StorP!Ask, Stor!Drop, StorP!Drop, Stor!Return, StorP!Return, Stor!Idle, StorP!Idle
  <2>4. ASSUME NEW w \in Writers
        PROVE  /\ Stor!Execute(w) => StorP!Execute(w)
               /\ Stor!Lock(w) => StorP!Lock(w)
               /\ Stor!Send(w) => StorP!Send(w)
               /\ Stor!Acknowledge(w) => StorP!Acknowledge(w)
               /\ Stor!Fail(w) => StorP!Fail(w)
    <3>1. Stor!Execute(w) => StorP!Execute(w) BY DEF Stor!Execute, StorP!Execute
    <3>2. Stor!Lock(w) => StorP!Lock(w) BY DEF Stor!Lock, StorP!Lock
    <3>3. Stor!Send(w) => StorP!Send(w) BY DEF Stor!Send, StorP!Send
    <3>4. Stor!Acknowledge(w) => StorP!Acknowledge(w)
      BY DEF Stor!Acknowledge, StorP!Acknowledge, Stor!Applied, StorP!Applied
    <3>5. Stor!Fail(w) => StorP!Fail(w) BY DEF Stor!Fail, StorP!Fail
    <3> QED BY <3>1, <3>2, <3>3, <3>4, <3>5
  <2> QED BY <2>1, <2>2, <2>3, <2>4 DEF Stor!Next, StorP!Next, Stor!Served, StorP!Served
<1>3. UNCHANGED storVars => UNCHANGED StorP!vars
  BY DEF storVars, StorP!vars
<1>4. StorP!WritesKept => Stor!WritesKept
  BY DEF Stor!WritesKept, StorP!WritesKept
<1> QED BY <1>1, <1>2, <1>3, <1>4

-----------------------------------------------------------------------------
(* The parts beside each other.                                             *)

\* A part has its invariant while it runs, and is off while another runs.
CatalogPart == IF part = "catalogs" THEN CatP!CatalogInv ELSE CatOff
CallPart    == IF part = "calls" THEN CallInv ELSE CallOff
ProcessPart == IF part = "processes" THEN ProcInv ELSE ProcOff
StorePart   == IF part = "stores" THEN StorP!StoreInv ELSE StorOff

Parts == CatalogPart /\ CallPart /\ ProcessPart /\ StorePart

\* The part that runs begins, and the others are off.
LEMMA InitParts == Init => Parts
<1> SUFFICES ASSUME Init PROVE Parts
  OBVIOUS
<1>1. CASE part = "catalogs"
  <2>1. Cat!Init /\ CallOff /\ ProcOff /\ StorOff BY <1>1 DEF Init
  <2>2. CatP!CatalogInv BY <2>1, ConstantsFit, SameCatalogs, CatP!InitCatalogs
  <2> QED BY <1>1, <2>1, <2>2 DEF Parts, CatalogPart, CallPart, ProcessPart, StorePart
<1>2. CASE part = "calls"
  <2>1. CatOff /\ Call!Init /\ ProcOff /\ StorOff BY <1>2 DEF Init
  <2>2. CallInv BY <2>1, ConstantsFit, InitCall
  <2> QED BY <1>2, <2>1, <2>2 DEF Parts, CatalogPart, CallPart, ProcessPart, StorePart
<1>3. CASE part = "processes"
  <2>1. CatOff /\ CallOff /\ Proc!Init /\ StorOff BY <1>3 DEF Init
  <2>2. ProcInv BY <2>1, ConstantsFit, InitProcess
  <2> QED BY <1>3, <2>1, <2>2 DEF Parts, CatalogPart, CallPart, ProcessPart, StorePart
<1>4. CASE part = "stores"
  <2>1. CatOff /\ CallOff /\ ProcOff /\ Stor!Init BY <1>4 DEF Init
  <2>2. StorP!StoreInv BY <2>1, SameStores, StorP!InitStores
  <2> QED BY <1>4, <2>1, <2>2 DEF Parts, CatalogPart, CallPart, ProcessPart, StorePart
<1> QED BY <1>1, <1>2, <1>3, <1>4 DEF Init

\* A part that does not move stays what it is.
LEMMA PartsRest ==
    ASSUME Parts, UNCHANGED part
    PROVE  /\ UNCHANGED catVars => CatalogPart'
           /\ UNCHANGED callVars => CallPart'
           /\ UNCHANGED procVars => ProcessPart'
           /\ UNCHANGED storVars => StorePart'
<1>1. ASSUME UNCHANGED catVars PROVE CatalogPart'
  <2>1. CASE part = "catalogs"
    <3>1. CatP!CatalogInv' BY <1>1, <2>1, ConstantsFit, SameCatalogs, CatP!NextCatalogs DEF Parts, CatalogPart
    <3> QED BY <2>1, <3>1 DEF CatalogPart
  <2>2. CASE part # "catalogs" BY <1>1, <2>2 DEF Parts, CatalogPart, CatOff, catVars
  <2> QED BY <2>1, <2>2
<1>2. ASSUME UNCHANGED callVars PROVE CallPart'
  <2>1. UNCHANGED Call!vars BY <1>2 DEF callVars, Call!vars
  <2>2. CASE part = "calls"
    <3>1. CallInv' BY <2>1, <2>2, ConstantsFit, NextCall DEF Parts, CallPart
    <3> QED BY <2>2, <3>1 DEF CallPart
  <2>3. CASE part # "calls" BY <1>2, <2>3 DEF Parts, CallPart, CallOff, callVars
  <2> QED BY <2>2, <2>3
<1>3. ASSUME UNCHANGED procVars PROVE ProcessPart'
  <2>1. UNCHANGED Proc!vars BY <1>3 DEF procVars, Proc!vars
  <2>2. CASE part = "processes"
    <3>1. ProcInv' BY <2>1, <2>2, ConstantsFit, NextProcess DEF Parts, ProcessPart
    <3> QED BY <2>2, <3>1 DEF ProcessPart
  <2>3. CASE part # "processes" BY <1>3, <2>3 DEF Parts, ProcessPart, ProcOff, procVars
  <2> QED BY <2>2, <2>3
<1>4. ASSUME UNCHANGED storVars PROVE StorePart'
  <2>1. CASE part = "stores"
    <3>1. StorP!StoreInv' BY <1>4, <2>1, SameStores, StorP!NextStores DEF Parts, StorePart
    <3> QED BY <2>1, <3>1 DEF StorePart
  <2>2. CASE part # "stores" BY <1>4, <2>2 DEF Parts, StorePart, StorOff, storVars
  <2> QED BY <2>1, <2>2
<1> QED BY <1>1, <1>2, <1>3, <1>4

\* A step is one of the part that runs.
LEMMA NextParts == Parts /\ [Next]_vars => Parts'
<1> SUFFICES ASSUME Parts, [Next]_vars PROVE Parts'
  OBVIOUS
<1>1. UNCHANGED part BY DEF Next, vars
<1>2. CASE part = "catalogs" /\ Cat!Next /\ UNCHANGED <<callVars, procVars, storVars>>
  <2>1. CatP!CatalogInv' BY <1>2, ConstantsFit, SameCatalogs, CatP!NextCatalogs DEF Parts, CatalogPart
  <2> QED BY <1>1, <1>2, <2>1, PartsRest DEF Parts, CatalogPart
<1>3. CASE part = "calls" /\ Call!Next /\ UNCHANGED <<catVars, procVars, storVars>>
  <2>1. CallInv' BY <1>3, ConstantsFit, NextCall DEF Parts, CallPart
  <2> QED BY <1>1, <1>3, <2>1, PartsRest DEF Parts, CallPart
<1>4. CASE part = "processes" /\ Proc!Next /\ UNCHANGED <<catVars, callVars, storVars>>
  <2>1. ProcInv' BY <1>4, ConstantsFit, NextProcess DEF Parts, ProcessPart
  <2> QED BY <1>1, <1>4, <2>1, PartsRest DEF Parts, ProcessPart
<1>5. CASE part = "stores" /\ Stor!Next /\ UNCHANGED <<catVars, callVars, procVars>>
  <2>1. StorP!StoreInv' BY <1>5, SameStores, StorP!NextStores DEF Parts, StorePart
  <2> QED BY <1>1, <1>5, <2>1, PartsRest DEF Parts, StorePart
<1>6. CASE UNCHANGED vars
  <2>1. UNCHANGED catVars /\ UNCHANGED callVars /\ UNCHANGED procVars /\ UNCHANGED storVars BY <1>6 DEF vars
  <2> QED BY <1>1, <2>1, PartsRest DEF Parts
<1> QED BY <1>2, <1>3, <1>4, <1>5, <1>6 DEF Next

\* Each part has its invariant, always.
LEMMA AlwaysParts == Spec => []Parts
  BY InitParts, NextParts, PTL DEF Spec

\* A resolution that succeeds has imported all that the definition's catalogs
\* reach, and no more, for all endpoints (resolve_definition's queue).
THEOREM ImportsComplete == Spec => []EverythingImported
<1>1. Parts => EverythingImported
  <2> SUFFICES ASSUME Parts PROVE Cat!EverythingImported
    BY DEF EverythingImported
  <2>1. CASE part = "catalogs"
    BY <2>1, SameCatalogs, CatP!InvImported DEF Parts, CatalogPart
  <2>2. CASE part # "catalogs" BY <2>2 DEF Parts, CatalogPart, CatOff, Cat!EverythingImported
  <2> QED BY <2>1, <2>2
<1> QED BY <1>1, AlwaysParts, PTL

\* A call's outcome tells what it did outside, for all calls, whatever their
\* targets answer and however often a try repeats them (the invokers of service.rs).
THEOREM OutcomeTells == Spec => []AnswerBehindResult
<1>1. Parts => AnswerBehindResult
  <2> SUFFICES ASSUME Parts PROVE Call!AnswerBehindResult
    BY DEF AnswerBehindResult
  <2>1. CASE part = "calls" BY <2>1 DEF Parts, CallPart, CallInv
  <2>2. CASE part # "calls"
    <3>1. CallOff BY <2>2 DEF Parts, CallPart
    <3>2. result.kind = "timeout" BY <3>1 DEF CallOff, Call!Failed
    <3>3. Attempts \in Nat \ {0} BY ConstantsFit DEF Call!CallsInShape
    <3> QED BY <3>1, <3>2, <3>3 DEF CallOff, Call!AnswerBehindResult
  <2> QED BY <2>1, <2>2
<1> QED BY <1>1, AlwaysParts, PTL

\* A run returns all that its program has made, leaves no child behind and starts
\* none that is not allowed, for all pipes and programs (TokioProcessRunner::run).
THEOREM WholeOutput == Spec => []OutputWhole
<1>1. Parts => OutputWhole
  <2> SUFFICES ASSUME Parts PROVE Proc!OutputWhole
    BY DEF OutputWhole
  <2>1. CASE part = "processes" BY <2>1, ConstantsFit, ProcessWhole DEF Parts, ProcessPart
  <2>2. CASE part # "processes" BY <2>2 DEF Parts, ProcessPart, ProcOff, Proc!OutputWhole
  <2> QED BY <2>1, <2>2
<1> QED BY <1>1, AlwaysParts, PTL

\* An acknowledged write is never lost or overtaken, however many writers there
\* are and whatever is dropped or breaks in between (update and append_event).
THEOREM WritesLast == Spec => []WritesKept
<1>1. Parts => WritesKept
  <2> SUFFICES ASSUME Parts PROVE Stor!WritesKept
    BY DEF WritesKept
  <2>1. CASE part = "stores" BY <2>1, SameStores, StorP!StoreKept DEF Parts, StorePart
  <2>2. CASE part # "stores"
    <3>1. acked = {} /\ log = <<>> /\ pipe = <<>> BY <2>2 DEF Parts, StorePart, StorOff
    <3> QED BY <3>1 DEF Stor!WritesKept
  <2> QED BY <2>1, <2>2
<1> QED BY <1>1, AlwaysParts, PTL

=============================================================================
