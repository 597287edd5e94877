----------------------------- MODULE Telemetry ------------------------------
(* Lifecycle events and what the OpenTelemetry exporters make of them, over *)
(* HTTP (lib.rs) and over gRPC (grpc.rs): logs, spans and metrics.          *)
EXTENDS Integers, Sequences, FiniteSets, SequencesExt

\* An event; "" is an absent subject, datum or time.  An event type is its words.
Event(id, source, type, data, time) ==
    [id |-> id, source |-> source, type |-> type, subject |-> "", data |-> data, time |-> time]
Absent == ""
NoTime == [given |-> FALSE, at |-> 0]
Time(n) == [given |-> TRUE, at |-> n]

-----------------------------------------------------------------------------
(* LifecycleEmitter: the events of an execution, each id a dotted name.     *)

WorkflowEvents == {"started", "completed", "faulted", "cancelled"}
TaskEvents     == {"started", "completed", "faulted", "retried"}
Lifecycle(scope, what) == <<"io", "serverlessworkflow", scope, what, "v1">>

\* What the data tells: times, the error of a fault, the two statuses of a change,
\* the attempt of a retry.  None of it but the new status is in the id.
workflow_event(source, execution, what, error, time) ==
    Event(<<execution, what>>, source, Lifecycle("workflow", what), [error |-> error, at |-> time], time)
workflow_status_changed(source, execution, from, to, time) ==
    Event(<<execution, "status", to>>, source, Lifecycle("workflow", "status-changed"),
          [from |-> from, to |-> to], time)
\* more: the error of a faulted task, the attempt of a retried one, else Absent.
task_event(source, execution, task, what, more, time) ==
    Event(<<execution, task, what>>, source, Lifecycle("task", what),
          [execution |-> execution, task |-> task, more |-> more, at |-> time], time)

-----------------------------------------------------------------------------
(* Logs and spans.                                                          *)

Attribute(key, value) == IF value = Absent THEN {} ELSE {<<key, value>>}
Attributes(e) == {<<"event.id", e.id>>, <<"event.source", e.source>>, <<"event.type", e.type>>}
Says(type, words) == \E i \in 1 .. Len(type) - Len(words) + 1 : SubSeq(type, i, i + Len(words) - 1) = words

event_time_nanos(e) == IF e.time.given /\ e.time.at > 0 THEN e.time.at ELSE 0
hash_hex(seed, bytes) == <<seed, bytes>>
errored(e) == Says(e.type, <<"faulted">>) \/ Says(e.type, <<"cancelled">>) \/ Says(e.type, <<"failed">>)

encode_log_request(e, service) ==
    [service |-> service, time |-> IF e.time.given THEN e.time.at ELSE 0, body |-> e.type,
     attributes |-> Attributes(e) \cup {<<"service.name", service>>}
                    \cup Attribute("event.subject", e.subject) \cup Attribute("event.data", e.data)]
logs_request(e, service) ==
    [service |-> service, time |-> event_time_nanos(e), body |-> e.type,
     attributes |-> Attributes(e) \cup Attribute("event.subject", e.subject) \cup Attribute("event.data", e.data)]

Span(e, attributes) ==
    [trace |-> hash_hex(<<e.source, e.subject>>, 16), span |-> hash_hex(e.id, 8), name |-> e.type,
     starts |-> event_time_nanos(e), ends |-> event_time_nanos(e), attributes |-> attributes,
     status |-> IF errored(e) THEN 2 ELSE 1]
encode_trace_request(e) ==
    Span(e, Attributes(e) \cup Attribute("event.subject", e.subject) \cup Attribute("event.data", e.data))
traces_request(e) == Span(e, Attributes(e) \cup Attribute("event.data", e.data))

-----------------------------------------------------------------------------
(* Metrics: counters by name and the samples of each duration.              *)

Bounds == <<1, 5, 10, 50, 100, 500, 1000, 5000>>

Counted(counters, name) == IF name \in DOMAIN counters THEN counters[name] ELSE 0
inc_counter(counters, name, delta) ==
    [n \in DOMAIN counters \cup {name} |-> Counted(counters, n) + IF n = name THEN delta ELSE 0]

record_event(counters, e) ==
    LET counted == inc_counter(counters, <<"ows", "events", e.type>>, 1)
    IN  IF Says(e.type, <<"workflow", "completed">>) THEN inc_counter(counted, <<"ows", "workflow", "completed">>, 1)
        ELSE IF Says(e.type, <<"workflow", "faulted">>) THEN inc_counter(counted, <<"ows", "workflow", "faulted">>, 1)
        ELSE counted

\* Mutant: a sample at a bound belongs to the next bucket.
BucketBelow(sample) ==
    LET fits == {i \in DOMAIN Bounds : sample < Bounds[i]} IN IF fits = {} THEN Len(Bounds) + 1 ELSE Min(fits)

\* A sample is counted in the first bucket whose bound it keeps, or in the last.
Bucket(sample) ==
    LET fits == {i \in DOMAIN Bounds : sample <= Bounds[i]} IN IF fits = {} THEN Len(Bounds) + 1 ELSE Min(fits)

histogram(samples) ==
    FoldLeft(LAMBDA h, sample : [h EXCEPT !.count = @ + 1, !.sum = @ + sample, !.buckets[Bucket(sample)] = @ + 1],
             [count |-> 0, sum |-> 0, buckets |-> [i \in 1 .. Len(Bounds) + 1 |-> 0]], samples)

encode_metrics_request(counters, durations) ==
    [sums |-> counters, histograms |-> [n \in {m \in DOMAIN durations : durations[m] # <<>>} |-> histogram(durations[n])]]

-----------------------------------------------------------------------------
\* Logs and spans say the same over HTTP and over gRPC, but for the service in a
\* log's attributes, the subject of a span and times before 1970 (the two
\* encoders are written apart); and a span is an error just for bad ends.
ProtocolsAgree(e) ==
    LET log == encode_log_request(e, "s")
        span == encode_trace_request(e)
    IN  /\ e.time.at >= 0 =>
              [log EXCEPT !.attributes = @ \ {<<"service.name", "s">>}] = logs_request(e, "s")
        /\ [span EXCEPT !.attributes = @ \ Attribute("event.subject", e.subject)] = traces_request(e)
        /\ span.starts <= span.ends
        /\ Len(e.type) = 5 => (span.status = 2) = (e.type[4] \in {"faulted", "cancelled"})

\* A cumulative histogram: bucket i holds the samples behind bound i - 1 up to
\* bound i, and what is counted or summed is there, in any order of samples.
HistogramRight(samples) ==
    LET h == histogram(samples)
        low(i)  == IF i = 1 THEN -1 ELSE Bounds[i - 1]
        In(i)   == {k \in DOMAIN samples : samples[k] > low(i) /\ (i <= Len(Bounds) => samples[k] <= Bounds[i])}
    IN  /\ h.count = Len(samples) /\ \A i \in DOMAIN h.buckets : h.buckets[i] = Cardinality(In(i))
        /\ h = histogram(Reverse(samples))
        /\ DOMAIN encode_metrics_request(<<>>, [d |-> samples]).histograms = (IF samples = <<>> THEN {} ELSE {"d"})

\* The counters are those of the events so far: every event once under its type,
\* and once more if it ends a workflow well or badly.
CountersRight(events) ==
    LET counters == FoldLeft(record_event, <<>>, events)
        Times(t) == Cardinality({i \in DOMAIN events : events[i].type = t})
    IN  \A what \in WorkflowEvents \cup {"status-changed"} :
          /\ Counted(counters, <<"ows", "events", Lifecycle("workflow", what)>>) = Times(Lifecycle("workflow", what))
          /\ what \in {"completed", "faulted"} =>
                Counted(counters, <<"ows", "workflow", what>>) = Times(Lifecycle("workflow", what))

\* An id tells the type of an event, of a task's the execution and the task, and
\* of a change the new status, unless a task is called "status".  It does not tell
\* attempts, errors or times apart: all retries of a task have one id (task_retried).
IdsTell(e, f) ==
    LET IsTask(g) == Says(g.type, <<"task">>)
        Odd(g)    == IsTask(g) /\ g.data.task = "status"
    IN  e.id = f.id /\ ~Odd(e) /\ ~Odd(f) =>
          /\ e.type = f.type
          /\ IsTask(e) => e.data.execution = f.data.execution /\ e.data.task = f.data.task
          /\ Says(e.type, <<"status-changed">>) => e.data.to = f.data.to

=============================================================================
