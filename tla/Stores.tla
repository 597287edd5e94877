------------------------------- MODULE Stores -------------------------------
(* The durable stores under requests that may be dropped: SQLite executes a *)
(* statement while it holds the mutex, PostgreSQL over a connection that    *)
(* the mutex guards, Redis over a connection that all requests share.       *)
EXTENDS Naturals, Sequences, FiniteSets

CONSTANTS
    Backends,  \* some of "sqlite", "postgres" and "redis"
    Writers,   \* the futures that write one execution's record and events
    None,      \* no writer
    MaxWrites  \* bound: the statements that are sent

\* Assumed of the constants by the theorems.
NoneWrites == None \notin Writers /\ MaxWrites \in Nat

VARIABLES
    backend,
    request,  \* what each writer is at: see States
    holder,   \* who holds the store's mutex
    pipe,     \* the statements on the connection, with their writers
    sent,     \* how many statements have been sent: each has its number
    row,      \* the statement that last wrote the record
    log,      \* the statements that appended events
    acked,    \* the statements that their writers know to be done
    up        \* whether the connection is up

vars == <<backend, request, holder, pipe, sent, row, log, acked, up>>

Idle == [is |-> "idle", what |-> "none", number |-> 0]
States == {"idle", "asks", "prepares", "waits", "done", "failed"}

Init ==
    /\ backend \in Backends
    /\ request = [w \in Writers |-> Idle]
    /\ holder = None /\ pipe = <<>> /\ sent = 0
    /\ row = 0 /\ log = <<>> /\ acked = {} /\ up = TRUE

Becomes(w, state) == request' = [request EXCEPT ![w].is = state]
Release(w) == holder' = IF holder = w THEN None ELSE holder

\* update (which is create, an upsert) or append_event.
Ask(w) ==
    /\ request[w].is = "idle"
    /\ \E what \in {"update", "append"} : request' = [request EXCEPT ![w] = [is |-> "asks", what |-> what, number |-> 0]]
    /\ UNCHANGED <<backend, holder, pipe, sent, row, log, acked, up>>

Written(what, number) ==
    IF what = "update" THEN row' = number /\ UNCHANGED log ELSE log' = Append(log, number) /\ UNCHANGED row

\* SQLite: the lock, the statement and the answer without an await in between.
Execute(w) ==
    /\ backend = "sqlite" /\ request[w].is = "asks" /\ holder = None /\ sent < MaxWrites
    /\ \/ Written(request[w].what, sent + 1) /\ sent' = sent + 1 /\ acked' = acked \cup {<<request[w].what, sent + 1>>}
          /\ Becomes(w, "done")
       \/ Becomes(w, "failed") /\ UNCHANGED <<row, log, sent, acked>>
    /\ UNCHANGED <<backend, holder, pipe, up>>

\* PostgreSQL: the lock, then a round trip that prepares the statement.
Lock(w) ==
    /\ backend = "postgres" /\ request[w].is = "asks" /\ holder = None
    /\ holder' = w /\ Becomes(w, "prepares")
    /\ UNCHANGED <<backend, pipe, sent, row, log, acked, up>>

MaySend(w) == \/ backend = "postgres" /\ request[w].is = "prepares"
              \/ backend = "redis" /\ request[w].is = "asks"

Send(w) ==
    /\ MaySend(w) /\ up /\ sent < MaxWrites
    /\ sent' = sent + 1
    /\ request' = [request EXCEPT ![w].is = "waits", ![w].number = sent + 1]
    /\ pipe' = Append(pipe, [what |-> request[w].what, number |-> sent + 1])
    /\ UNCHANGED <<backend, holder, row, log, acked, up>>

\* The database takes the statements of a connection one by one.
Apply ==
    /\ pipe # <<>>
    /\ Written(Head(pipe).what, Head(pipe).number)
    /\ pipe' = Tail(pipe)
    /\ UNCHANGED <<backend, request, holder, sent, acked, up>>

Applied(number) == \A i \in 1 .. Len(pipe) : pipe[i].number # number

\* Mutant: a statement that is sent is taken for done.
AcknowledgeSent(w) ==
    /\ request[w].is = "waits" /\ up
    /\ acked' = acked \cup {<<request[w].what, request[w].number>>}
    /\ Becomes(w, "done") /\ Release(w)
    /\ UNCHANGED <<backend, pipe, sent, row, log, up>>

Acknowledge(w) ==
    /\ request[w].is = "waits" /\ up /\ Applied(request[w].number)
    /\ acked' = acked \cup {<<request[w].what, request[w].number>>}
    /\ Becomes(w, "done") /\ Release(w)
    /\ UNCHANGED <<backend, pipe, sent, row, log, up>>

\* The database refuses a statement, or the connection is down: db_error.
Fail(w) ==
    /\ \/ MaySend(w) /\ (~up \/ backend = "postgres")
       \/ request[w].is = "waits" /\ ~up
    /\ Becomes(w, "failed") /\ Release(w)
    /\ UNCHANGED <<backend, pipe, sent, row, log, acked, up>>

\* The connection breaks with what is still on it; it is never opened again.
Break ==
    /\ up /\ backend # "sqlite"
    /\ up' = FALSE
    /\ \E n \in 0 .. Len(pipe) : pipe' = SubSeq(pipe, 1, n)
    /\ UNCHANGED <<backend, request, holder, sent, row, log, acked>>

\* Mutant: the dropped future keeps the mutex.
DropHolding(w) ==
    /\ request[w].is \in {"asks", "prepares", "waits"}
    /\ Becomes(w, "failed")
    /\ UNCHANGED <<backend, holder, pipe, sent, row, log, acked, up>>

\* The future of a request is dropped: the guard goes with it, the statement stays.
Drop(w) ==
    /\ request[w].is \in {"asks", "prepares", "waits"}
    /\ Becomes(w, "failed") /\ Release(w)
    /\ UNCHANGED <<backend, pipe, sent, row, log, acked, up>>

Return(w) ==
    /\ request[w].is \in {"done", "failed"} /\ sent < MaxWrites
    /\ request' = [request EXCEPT ![w] = Idle]
    /\ UNCHANGED <<backend, holder, pipe, sent, row, log, acked, up>>

Served(w) == Execute(w) \/ Lock(w) \/ Send(w) \/ Acknowledge(w) \/ Fail(w)
Next == Apply \/ Break \/ \E w \in Writers : Ask(w) \/ Served(w) \/ Drop(w) \/ Return(w)

\* The mutex is fair (tokio queues its waiters), the database goes on.
Fairness == WF_vars(Apply) /\ \A w \in Writers : SF_vars(Served(w))
Spec == Init /\ [][Next]_vars /\ Fairness

-----------------------------------------------------------------------------
\* A write that was acknowledged stays: the record is that of the last one or
\* of a later statement, the events hold all of them, once each and in the order
\* in which they were sent, whatever was dropped or lost in between (the stores'
\* upsert by execution id and their events by sequence).
WritesKept ==
    /\ \A a \in acked : IF a[1] = "update" THEN a[2] <= row ELSE \E i \in DOMAIN log : log[i] = a[2]
    /\ \A i, j \in DOMAIN log : i < j => log[i] < log[j]
    /\ \A i \in 1 .. Len(pipe) : row < pipe[i].number /\ \A j \in DOMAIN log : log[j] < pipe[i].number

\* A dropped request keeps no other from being served (the guard of the mutex).
RequestsServed ==
    \A w \in Writers : request[w].is \in {"asks", "prepares", "waits"} ~> request[w].is \in {"done", "failed"} \/ sent = MaxWrites

=============================================================================
