---------------------------- MODULE StoresProofs ----------------------------
(* Proofs about Stores: for every set of writers, whatever is dropped or    *)
(* lost, an acknowledged write stays.                                       *)
EXTENDS Stores, SequenceTheorems, TLAPS

Statements == [what : {"none", "update", "append"}, number : Nat]
Requests   == [is : States, what : {"none", "update", "append"}, number : Nat]

\* The types of what the proof is about.
StoreType ==
    /\ request \in [Writers -> Requests]
    /\ pipe \in Seq(Statements) /\ log \in Seq(Nat)
    /\ sent \in Nat /\ row \in Nat
    /\ acked \subseteq {"none", "update", "append"} \X Nat

\* A write is behind the database.
Done(what, number) == IF what = "update" THEN number <= row ELSE \E i \in 1 .. Len(log) : log[i] = number

Rises(s) == \A i, j \in 1 .. Len(s) : i < j => s[i] < s[j]

\* The statements keep their order: those on the connection come behind all that
\* are in the database, and none is on a connection that SQLite does not have.
OrderInv ==
    /\ backend = "sqlite" => pipe = <<>>
    /\ row <= sent /\ \A j \in 1 .. Len(log) : log[j] <= sent
    /\ Rises(log)
    /\ \A i \in 1 .. Len(pipe) :
          /\ pipe[i].number <= sent /\ row < pipe[i].number
          /\ \A j \in 1 .. Len(log) : log[j] < pipe[i].number
    /\ \A i, j \in 1 .. Len(pipe) : i < j => pipe[i].number < pipe[j].number

\* The statement of a request that waits is on the connection or done.
OnPipe(r) == \E i \in 1 .. Len(pipe) : pipe[i].what = r.what /\ pipe[i].number = r.number
WaitInv == up => \A w \in Writers : request[w].is = "waits" =>
                     Done(request[w].what, request[w].number) \/ OnPipe(request[w])

AckInv == \A a \in acked : Done(a[1], a[2])

StoreInv == StoreType /\ OrderInv /\ WaitInv /\ AckInv

-----------------------------------------------------------------------------
(* Sequences.                                                               *)

\* What Append does to the indices and the elements of a sequence.
LEMMA AppendIndexed ==
    ASSUME NEW S, NEW s \in Seq(S), NEW x \in S, NEW t, t = Append(s, x)
    PROVE  /\ t \in Seq(S) /\ Len(s) \in Nat
           /\ Len(s) + 1 \in 1 .. Len(t) /\ t[Len(s) + 1] = x
           /\ \A i \in 1 .. Len(s) : i \in 1 .. Len(t) /\ t[i] = s[i] /\ s[i] \in S
           /\ \A i \in 1 .. Len(t) : i = Len(s) + 1 \/ i \in 1 .. Len(s)
<1>1. t \in Seq(S) /\ Len(t) = Len(s) + 1 /\ Len(s) \in Nat
  OBVIOUS
<1>2. t[Len(s) + 1] = x /\ \A i \in 1 .. Len(s) : t[i] = s[i] /\ s[i] \in S
  OBVIOUS
<1>3. /\ Len(s) + 1 \in 1 .. Len(t)
      /\ \A i \in 1 .. Len(s) : i \in 1 .. Len(t)
      /\ \A i \in 1 .. Len(t) : i = Len(s) + 1 \/ i \in 1 .. Len(s)
  BY <1>1
<1> QED BY <1>1, <1>2, <1>3

\* The elements of a sequence.
LEMMA Elements ==
    ASSUME NEW S, NEW s \in Seq(S)
    PROVE  Len(s) \in Nat /\ \A i \in 1 .. Len(s) : s[i] \in S
OBVIOUS

\* What Tail does.
LEMMA TailIndexed ==
    ASSUME NEW S, NEW s \in Seq(S), s # <<>>
    PROVE  /\ Head(s) \in S /\ Head(s) = s[1] /\ Tail(s) \in Seq(S) /\ 1 \in 1 .. Len(s)
           /\ \A i \in 1 .. Len(s) : i = 1 \/ i - 1 \in 1 .. Len(Tail(s))
           /\ \A i \in 1 .. Len(Tail(s)) : i + 1 \in 1 .. Len(s) /\ Tail(s)[i] = s[i + 1] /\ s[i + 1] \in S
<1>1. Len(s) \in Nat /\ Len(s) # 0 /\ Len(Tail(s)) = Len(s) - 1 /\ Tail(s) \in Seq(S) /\ Head(s) = s[1]
  OBVIOUS
<1>2. \A i \in 1 .. Len(s) : s[i] \in S
  OBVIOUS
<1>3. \A i \in 1 .. Len(Tail(s)) : Tail(s)[i] = s[i + 1]
  OBVIOUS
<1>4. /\ 1 \in 1 .. Len(s)
      /\ \A i \in 1 .. Len(s) : i = 1 \/ i - 1 \in 1 .. Len(Tail(s))
      /\ \A i \in 1 .. Len(Tail(s)) : i + 1 \in 1 .. Len(s)
  BY <1>1
<1> QED BY <1>1, <1>2, <1>3, <1>4

-----------------------------------------------------------------------------
(* Steps of their parts.                                                    *)

\* What becomes of a request.
LEMMA RequestBecomes ==
    ASSUME StoreType, NEW w \in Writers, NEW state \in States, Becomes(w, state)
    PROVE  /\ request' \in [Writers -> Requests]
           /\ \A v \in Writers : /\ request'[v].what = request[v].what /\ request'[v].number = request[v].number
                                 /\ request'[v].is = IF v = w THEN state ELSE request[v].is
<1>1. request' = [request EXCEPT ![w] = [request[w] EXCEPT !.is = state]]
  BY DEF Becomes
<1>2. request[w] \in Requests
  BY DEF StoreType
<1>3. [request[w] EXCEPT !.is = state] \in Requests
  BY <1>2 DEF Requests
<1>4. /\ [request[w] EXCEPT !.is = state].what = request[w].what
      /\ [request[w] EXCEPT !.is = state].number = request[w].number
      /\ [request[w] EXCEPT !.is = state].is = state
  BY <1>2 DEF Requests
<1> QED
  BY <1>1, <1>3, <1>4 DEF StoreType

\* The parts of a request.
LEMMA RequestTyped ==
    ASSUME StoreType, NEW w \in Writers
    PROVE  request[w].is \in States /\ request[w].what \in {"none", "update", "append"} /\ request[w].number \in Nat
<1>1. request[w] \in Requests
  BY DEF StoreType
<1> QED BY <1>1 DEF Requests

\* A request that is over does not wait, the others stay what they are.
LEMMA FailsOnly ==
    ASSUME StoreType, NEW w \in Writers, NEW state \in {"asks", "prepares", "done", "failed"}, Becomes(w, state)
    PROVE  /\ request' \in [Writers -> Requests]
           /\ \A v \in Writers : request'[v].is = "waits" => request'[v] = request[v]
<1>1. state \in States /\ state # "waits"
  BY DEF States
<1>2. request' \in [Writers -> Requests] /\ \A v \in Writers : request'[v].is = IF v = w THEN state ELSE request[v].is
  BY <1>1, RequestBecomes
<1>3. \A v \in Writers : v # w => request'[v] = request[v]
  BY DEF Becomes, StoreType
<1> QED BY <1>1, <1>2, <1>3

\* A write that is done stays so while the row grows and the log is appended to.
LEMMA DoneStays ==
    ASSUME StoreType, NEW what, NEW number \in Nat, Done(what, number),
           row' \in Nat, row <= row', \E n \in Nat : log' = log \/ log' = Append(log, n)
    PROVE  Done(what, number)'
<1>1. CASE what = "update"
  <2>1. number <= row /\ row \in Nat
    BY <1>1 DEF Done, StoreType
  <2>2. number <= row'
    BY <2>1
  <2> QED BY <1>1, <2>2 DEF Done
<1>2. CASE what # "update"
  <2>1. PICK i \in 1 .. Len(log) : log[i] = number
    BY <1>2 DEF Done
  <2>2. log \in Seq(Nat)
    BY DEF StoreType
  <2>3. PICK n \in Nat : log' = log \/ log' = Append(log, n)
    OBVIOUS
  <2>4. i \in 1 .. Len(log') /\ log'[i] = number
    <3>1. CASE log' = log
      BY <2>1, <3>1
    <3>2. CASE log' = Append(log, n)
      BY <2>1, <2>2, <3>2, AppendIndexed
    <3> QED BY <2>3, <3>1, <3>2
  <2> QED BY <1>2, <2>4 DEF Done
<1> QED BY <1>1, <1>2

\* The same of the statement of a request that stays as it is.
LEMMA WaiterStays ==
    ASSUME StoreType, NEW v \in Writers, request'[v] = request[v], Done(request[v].what, request[v].number),
           row' \in Nat, row <= row', NEW n \in Nat, log' = log \/ log' = Append(log, n)
    PROVE  Done(request[v].what, request[v].number)'
<1>a. request[v].number \in Nat /\ request[v].what \in {"none", "update", "append"}
  BY RequestTyped
<1>1. PICK what \in {"none", "update", "append"}, number \in Nat : what = request[v].what /\ number = request[v].number
  BY <1>a, Zenon
<1>2. Done(what, number)
  BY <1>1
<1>3. \E k \in Nat : log' = log \/ log' = Append(log, k)
  OBVIOUS
<1>4. Done(what, number)'
  BY <1>2, <1>3, DoneStays
<1> QED BY <1>1, <1>4

\* A statement that is written, with a number that no other has reached, is done.
LEMMA WrittenDone ==
    ASSUME StoreType, NEW what, NEW number \in Nat, Written(what, number),
           row < number, Rises(log), \A j \in 1 .. Len(log) : log[j] < number
    PROVE  /\ Done(what, number)'
           /\ row' \in Nat /\ row <= row' /\ row' <= number
           /\ log' \in Seq(Nat) /\ (log' = log \/ log' = Append(log, number))
           /\ Rises(log') /\ \A j \in 1 .. Len(log') : log'[j] <= number
<1>a. row \in Nat /\ log \in Seq(Nat)
  BY DEF StoreType
<1>0. row \in Nat /\ log \in Seq(Nat) /\ \A j \in 1 .. Len(log) : log[j] \in Nat
  BY <1>a, Elements
<1>1. CASE what = "update"
  <2>1. row' = number /\ log' = log
    BY <1>1 DEF Written
  <2>2. Done(what, number)'
    BY <1>1, <2>1 DEF Done
  <2>3. row' \in Nat /\ row <= row' /\ row' <= number
    BY <1>0, <2>1
  <2>4. \A j \in 1 .. Len(log') : log'[j] <= number
    BY <1>0, <2>1
  <2> QED BY <1>0, <2>1, <2>2, <2>3, <2>4
<1>2. CASE what # "update"
  <2>1. log' = Append(log, number) /\ row' = row
    BY <1>2 DEF Written
  <2>2. /\ log' \in Seq(Nat) /\ Len(log) \in Nat
        /\ Len(log) + 1 \in 1 .. Len(log') /\ log'[Len(log) + 1] = number
        /\ \A i \in 1 .. Len(log) : i \in 1 .. Len(log') /\ log'[i] = log[i]
        /\ \A i \in 1 .. Len(log') : i = Len(log) + 1 \/ i \in 1 .. Len(log)
    BY <1>0, <2>1, AppendIndexed
  <2>3. ASSUME NEW j \in 1 .. Len(log') PROVE log'[j] <= number
    <3>1. CASE j = Len(log) + 1 BY <2>2, <3>1
    <3>2. CASE j \in 1 .. Len(log)
      <4>1. log'[j] = log[j] /\ log[j] \in Nat /\ log[j] < number BY <1>0, <2>2, <3>2
      <4> QED BY <4>1
    <3> QED BY <2>2, <3>1, <3>2
  <2>4. Rises(log')
    <3> SUFFICES ASSUME NEW i \in 1 .. Len(log'), NEW j \in 1 .. Len(log'), i < j PROVE log'[i] < log'[j]
      BY DEF Rises
    <3>1. i \in 1 .. Len(log)
      BY <2>2
    <3>2. CASE j = Len(log) + 1
      BY <2>2, <3>1, <3>2
    <3>3. CASE j \in 1 .. Len(log)
      BY <2>2, <3>1, <3>3 DEF Rises
    <3> QED BY <2>2, <3>2, <3>3
  <2>5. Done(what, number)'
    BY <1>2, <2>2 DEF Done
  <2>6. row' \in Nat /\ row <= row' /\ row' <= number
    BY <1>0, <2>1
  <2> QED BY <2>1, <2>2, <2>3, <2>4, <2>5, <2>6
<1> QED BY <1>1, <1>2

\* The acknowledged writes stay when a statement is written.
LEMMA AcksStay ==
    ASSUME StoreInv, row' \in Nat, row <= row', \E n \in Nat : log' = log \/ log' = Append(log, n)
    PROVE  \A a \in acked : Done(a[1], a[2])'
<1> SUFFICES ASSUME NEW a \in acked PROVE Done(a[1], a[2])'
  OBVIOUS
<1>1. a[2] \in Nat /\ Done(a[1], a[2])
  BY DEF StoreInv, StoreType, AckInv
<1> QED BY <1>1, DoneStays DEF StoreInv

\* A step that leaves database and connection alone and lets no request begin to
\* wait keeps what the invariant says of them.
LEMMA RequestsMove ==
    ASSUME StoreInv, UNCHANGED <<backend, pipe, sent, row, log, up>>,
           \A v \in Writers : request'[v].is = "waits" => request'[v] = request[v]
    PROVE  OrderInv' /\ WaitInv' /\ \A a \in acked : Done(a[1], a[2])'
<1>1. OrderInv'
  BY DEF StoreInv, OrderInv, Rises
<1>2. WaitInv'
  <2> SUFFICES ASSUME up', NEW v \in Writers, request'[v].is = "waits"
               PROVE  (Done(request[v].what, request[v].number) \/ OnPipe(request[v]))' 
    BY DEF WaitInv
  <2>1. request'[v] = request[v] /\ up
    OBVIOUS
  <2>2. Done(request[v].what, request[v].number) \/ OnPipe(request[v])
    BY <2>1 DEF StoreInv, WaitInv
  <2> QED BY <2>1, <2>2 DEF Done, OnPipe
<1>3. \A a \in acked : Done(a[1], a[2])'
  BY DEF StoreInv, AckInv, Done
<1> QED BY <1>1, <1>2, <1>3

-----------------------------------------------------------------------------
(* The actions.                                                             *)

\* A new request.
LEMMA AskKeeps == ASSUME StoreInv, NEW w \in Writers, Ask(w) PROVE StoreInv'
<1>1. PICK what \in {"update", "append"} : request' = [request EXCEPT ![w] = [is |-> "asks", what |-> what, number |-> 0]]
  BY DEF Ask
<1>3. [is |-> "asks", what |-> what, number |-> 0] \in Requests
  BY DEF Requests, States
<1>4. request' \in [Writers -> Requests] /\ \A v \in Writers : request'[v].is = "waits" => request'[v] = request[v]
  BY <1>1, <1>3 DEF StoreInv, StoreType
<1>5. UNCHANGED <<backend, pipe, sent, row, log, up, acked>>
  BY DEF Ask
<1>6. StoreType'
  BY <1>4, <1>5 DEF StoreInv, StoreType
<1>7. OrderInv' /\ WaitInv' /\ \A a \in acked : Done(a[1], a[2])'
  BY <1>4, <1>5, RequestsMove
<1> QED BY <1>5, <1>6, <1>7 DEF StoreInv, AckInv

\* The statement of the action's request is done at once.
LEMMA ExecuteKeeps == ASSUME StoreInv, NEW w \in Writers, Execute(w) PROVE StoreInv'
<1>1. UNCHANGED <<backend, pipe, up>> /\ backend = "sqlite"
  BY DEF Execute
<1>2. CASE UNCHANGED <<row, log, sent, acked>> /\ Becomes(w, "failed")
  <2>1. /\ request' \in [Writers -> Requests]
        /\ \A v \in Writers : request'[v].is = "waits" => request'[v] = request[v]
    BY <1>2, FailsOnly DEF StoreInv
  <2>2. StoreType'
    BY <1>1, <1>2, <2>1 DEF StoreInv, StoreType
  <2>3. OrderInv' /\ WaitInv' /\ \A a \in acked : Done(a[1], a[2])'
    BY <1>1, <1>2, <2>1, RequestsMove
  <2> QED BY <1>2, <2>2, <2>3 DEF StoreInv, AckInv
<1>3. CASE /\ Written(request[w].what, sent + 1) /\ sent' = sent + 1
           /\ acked' = acked \cup {<<request[w].what, sent + 1>>} /\ Becomes(w, "done")
  <2>a. request[w].what \in {"none", "update", "append"} /\ sent \in Nat
    BY RequestTyped DEF StoreInv, StoreType
  <2>d. sent + 1 \in Nat
    BY <2>a
  <2>b. PICK what \in {"none", "update", "append"}, number \in Nat : what = request[w].what /\ number = sent + 1
    BY <2>a, <2>d, Zenon
  <2>1. /\ request' \in [Writers -> Requests]
        /\ \A v \in Writers : request'[v].is = "waits" => request'[v] = request[v]
    BY <1>3, FailsOnly DEF StoreInv
  <2>2. row \in Nat /\ StoreType /\ Rises(log)
    BY DEF StoreInv, StoreType, OrderInv
  <2>3. log \in Seq(Nat)
    BY DEF StoreInv, StoreType
  <2>4. \A j \in 1 .. Len(log) : log[j] \in Nat
    BY <2>3, Elements
  <2>c. row <= sent /\ \A j \in 1 .. Len(log) : log[j] <= sent
    BY DEF StoreInv, OrderInv
  <2>5. row < number /\ \A j \in 1 .. Len(log) : log[j] < number
    <3>1. row < number
      BY <2>a, <2>b, <2>2, <2>c
    <3>2. ASSUME NEW j \in 1 .. Len(log) PROVE log[j] < number
      <4>1. log[j] \in Nat /\ log[j] <= sent
        BY <2>4, <2>c
      <4> QED BY <2>a, <2>b, <4>1
    <3> QED BY <3>1, <3>2
  <2>6. /\ Done(what, number)'
        /\ row' \in Nat /\ row <= row' /\ row' <= number
        /\ log' \in Seq(Nat) /\ (log' = log \/ log' = Append(log, number))
        /\ Rises(log') /\ \A j \in 1 .. Len(log') : log'[j] <= number
    BY <1>3, <2>b, <2>2, <2>5, WrittenDone
  <2>7. StoreType'
    <3>1. acked' \subseteq {"none", "update", "append"} \X Nat
      <4>1. acked \subseteq {"none", "update", "append"} \X Nat
        BY DEF StoreInv, StoreType
      <4>2. <<what, number>> \in {"none", "update", "append"} \X Nat /\ acked' = acked \cup {<<what, number>>}
        BY <1>3, <2>b
      <4> QED BY <4>1, <4>2
    <3>2. sent' \in Nat /\ pipe' \in Seq(Statements)
      BY <1>1, <1>3, <2>b DEF StoreInv, StoreType
    <3> QED BY <2>1, <2>6, <3>1, <3>2 DEF StoreType
  <2>8. pipe' = <<>>
    BY <1>1 DEF StoreInv, OrderInv
  <2>9. OrderInv'
    <3>1. sent' = number /\ 1 .. Len(pipe') = {}
      BY <1>3, <2>b, <2>8
    <3>2. row' <= sent' /\ \A j \in 1 .. Len(log') : log'[j] <= sent'
      BY <2>6, <3>1
    <3> QED BY <2>6, <2>8, <3>1, <3>2, Zenon DEF OrderInv
  <2>10. \A a \in acked : Done(a[1], a[2])'
    BY <2>2, <2>6, AcksStay
  <2>11. AckInv'
    <3> SUFFICES ASSUME NEW a \in acked' PROVE Done(a[1], a[2])'
      BY DEF AckInv
    <3>1. CASE a \in acked
      BY <2>10, <3>1
    <3>2. CASE a = <<what, number>>
      BY <2>6, <3>2
    <3> QED BY <1>3, <2>b, <3>1, <3>2
  <2>12. WaitInv'
    <3> SUFFICES ASSUME up', NEW v \in Writers, request'[v].is = "waits"
                 PROVE  (Done(request[v].what, request[v].number) \/ OnPipe(request[v]))'
      BY DEF WaitInv
    <3>1. request'[v] = request[v] /\ request[v].is = "waits" /\ up
      BY <1>1, <2>1
    <3>2. Done(request[v].what, request[v].number) \/ OnPipe(request[v])
      BY <3>1 DEF StoreInv, WaitInv
    <3>3. Done(request[v].what, request[v].number)
      <4>1. ~OnPipe(request[v])
        <5>1. pipe = <<>> /\ 1 .. Len(pipe) = {}
          BY <1>1, <2>8
        <5> QED BY <5>1, Zenon DEF OnPipe
      <4> QED BY <3>2, <4>1
    <3> QED BY <2>6, <3>1, <3>3, WaiterStays DEF StoreInv
  <2> QED BY <2>7, <2>9, <2>11, <2>12 DEF StoreInv
<1> QED BY <1>2, <1>3 DEF Execute

\* A request that takes the mutex, fails or is dropped.
LEMMA MoveKeeps ==
    ASSUME StoreInv, NEW w \in Writers, NEW state \in {"asks", "prepares", "done", "failed"}, Becomes(w, state),
           UNCHANGED <<backend, pipe, sent, row, log, acked, up>>
    PROVE  StoreInv'
<1>1. /\ request' \in [Writers -> Requests]
      /\ \A v \in Writers : request'[v].is = "waits" => request'[v] = request[v]
  BY FailsOnly DEF StoreInv
<1>2. StoreType'
  BY <1>1 DEF StoreInv, StoreType
<1>3. OrderInv' /\ WaitInv' /\ \A a \in acked : Done(a[1], a[2])'
  BY <1>1, RequestsMove
<1> QED BY <1>2, <1>3 DEF StoreInv, AckInv

\* A request that is answered.
LEMMA ReturnKeeps == ASSUME StoreInv, NEW w \in Writers, Return(w) PROVE StoreInv'
<1>1. Idle \in Requests /\ Idle.is # "waits"
  BY DEF Idle, Requests, States
<1>2. request' \in [Writers -> Requests] /\ \A v \in Writers : request'[v].is = "waits" => request'[v] = request[v]
  BY <1>1 DEF Return, StoreInv, StoreType
<1>3. UNCHANGED <<backend, pipe, sent, row, log, acked, up>>
  BY DEF Return
<1>4. StoreType'
  BY <1>2, <1>3 DEF StoreInv, StoreType
<1>5. OrderInv' /\ WaitInv' /\ \A a \in acked : Done(a[1], a[2])'
  BY <1>2, <1>3, RequestsMove
<1> QED BY <1>3, <1>4, <1>5 DEF StoreInv, AckInv

\* The request that is acknowledged waited for a statement that left the connection.
LEMMA AcknowledgeKeeps == ASSUME StoreInv, NEW w \in Writers, Acknowledge(w) PROVE StoreInv'
<1>1. UNCHANGED <<backend, pipe, sent, row, log, up>> /\ Becomes(w, "done")
  BY DEF Acknowledge
<1>2. /\ request' \in [Writers -> Requests]
      /\ \A v \in Writers : request'[v].is = "waits" => request'[v] = request[v]
  BY <1>1, FailsOnly DEF StoreInv
<1>3. OrderInv' /\ WaitInv' /\ \A a \in acked : Done(a[1], a[2])'
  BY <1>1, <1>2, RequestsMove
<1>4. request[w].what \in {"none", "update", "append"} /\ request[w].number \in Nat
  BY RequestTyped DEF StoreInv
<1>5. PICK what \in {"none", "update", "append"}, number \in Nat : what = request[w].what /\ number = request[w].number
  BY <1>4, Zenon
<1>6. acked' = acked \cup {<<what, number>>}
  BY <1>5 DEF Acknowledge
<1>7. StoreType'
  <2>1. acked \subseteq {"none", "update", "append"} \X Nat
    BY DEF StoreInv, StoreType
  <2>2. <<what, number>> \in {"none", "update", "append"} \X Nat
    BY <1>5
  <2>3. acked' \subseteq {"none", "update", "append"} \X Nat
    BY <1>6, <2>1, <2>2
  <2> QED BY <1>1, <1>2, <2>3 DEF StoreInv, StoreType
<1>8. Done(what, number)
  <2>1. ~OnPipe(request[w])
    BY DEF Acknowledge, Applied, OnPipe
  <2>2. Done(request[w].what, request[w].number) \/ OnPipe(request[w])
    BY DEF Acknowledge, StoreInv, WaitInv
  <2> QED BY <1>5, <2>1, <2>2
<1>9. Done(what, number)'
  BY <1>1, <1>8 DEF Done
<1>10. AckInv'
  <2> SUFFICES ASSUME NEW a \in acked' PROVE Done(a[1], a[2])'
    BY DEF AckInv
  <2>1. CASE a \in acked
    BY <1>3, <2>1
  <2>2. CASE a = <<what, number>>
    BY <1>9, <2>2
  <2> QED BY <1>6, <2>1, <2>2
<1> QED BY <1>3, <1>7, <1>10 DEF StoreInv

\* A statement that is sent comes behind all others.
LEMMA SendKeeps == ASSUME StoreInv, NEW w \in Writers, Send(w) PROVE StoreInv'
<1>1. UNCHANGED <<backend, row, log, acked, up>> /\ sent' = sent + 1 /\ backend # "sqlite"
  BY DEF Send, MaySend
<1>2. /\ row \in Nat /\ sent \in Nat /\ row <= sent
      /\ log \in Seq(Nat) /\ pipe \in Seq(Statements)
  BY DEF StoreInv, StoreType, OrderInv
<1>3. PICK number \in Nat : number = sent + 1
  BY <1>2
<1>4. row < number /\ sent < number
  BY <1>2, <1>3
<1>5. PICK what \in {"none", "update", "append"} : what = request[w].what
  BY RequestTyped, Zenon DEF StoreInv
<1>6. PICK statement \in Statements : statement.what = what /\ statement.number = number /\ pipe' = Append(pipe, statement)
  <2>1. [what |-> what, number |-> number] \in Statements
    BY DEF Statements
  <2>2. pipe' = Append(pipe, [what |-> what, number |-> number])
    BY <1>3, <1>5 DEF Send
  <2> QED BY <2>1, <2>2
<1>7. /\ pipe' \in Seq(Statements) /\ Len(pipe) \in Nat
      /\ Len(pipe) + 1 \in 1 .. Len(pipe') /\ pipe'[Len(pipe) + 1] = statement
      /\ \A i \in 1 .. Len(pipe) : i \in 1 .. Len(pipe') /\ pipe'[i] = pipe[i]
      /\ \A i \in 1 .. Len(pipe') : i = Len(pipe) + 1 \/ i \in 1 .. Len(pipe)
  BY <1>2, <1>6, AppendIndexed
<1>8. /\ request' \in [Writers -> Requests]
      /\ request'[w].what = what /\ request'[w].number = number
      /\ \A v \in Writers : v # w => request'[v] = request[v]
  <2> DEFINE r == [request[w] EXCEPT !.is = "waits", !.number = number]
  <2>1. request[w] \in Requests /\ request' = [request EXCEPT ![w] = r] /\ request \in [Writers -> Requests]
    BY <1>3 DEF Send, StoreInv, StoreType
  <2>2. r \in Requests /\ r.what = what /\ r.number = number
    BY <1>5, <2>1 DEF Requests, States
  <2> HIDE DEF r
  <2> QED BY <2>1, <2>2
<1>9. StoreType'
  BY <1>1, <1>2, <1>3, <1>7, <1>8 DEF StoreInv, StoreType
<1>10. \A i \in 1 .. Len(pipe) : pipe[i].number \in Nat /\ pipe[i].number <= sent
  <2>1. \A i \in 1 .. Len(pipe) : pipe[i] \in Statements
    BY <1>2, Elements
  <2> QED BY <2>1 DEF StoreInv, OrderInv, Statements
<1>11. \A j \in 1 .. Len(log) : log[j] \in Nat /\ log[j] <= sent
  BY <1>2, Elements DEF StoreInv, OrderInv
<1>12. OrderInv'
  <2>1. backend' = "sqlite" => pipe' = <<>>
    BY <1>1
  <2>2. row' <= sent' /\ \A j \in 1 .. Len(log') : log'[j] <= sent'
    BY <1>1, <1>2, <1>11
  <2>3. Rises(log')
    BY <1>1 DEF StoreInv, OrderInv
  <2>4. ASSUME NEW i \in 1 .. Len(pipe')
        PROVE  /\ pipe'[i].number <= sent' /\ row' < pipe'[i].number
               /\ \A j \in 1 .. Len(log') : log'[j] < pipe'[i].number
    <3>1. CASE i = Len(pipe) + 1
      <4>1. pipe'[i].number = number
        BY <1>6, <1>7, <3>1
      <4>2. \A j \in 1 .. Len(log) : log[j] < number
        BY <1>2, <1>3, <1>11
      <4> QED BY <1>1, <1>2, <1>3, <1>4, <4>1, <4>2
    <3>2. CASE i \in 1 .. Len(pipe)
      <4>1. pipe'[i] = pipe[i] /\ pipe[i].number \in Nat /\ pipe[i].number <= sent
        BY <1>7, <1>10, <3>2
      <4>2. row < pipe[i].number /\ \A j \in 1 .. Len(log) : log[j] < pipe[i].number
        BY <3>2 DEF StoreInv, OrderInv
      <4> QED BY <1>1, <1>2, <4>1, <4>2
    <3> QED BY <1>7, <3>1, <3>2
  <2>5. ASSUME NEW i \in 1 .. Len(pipe'), NEW j \in 1 .. Len(pipe'), i < j PROVE pipe'[i].number < pipe'[j].number
    <3>1. i \in 1 .. Len(pipe)
      BY <1>7, <2>5
    <3>2. CASE j = Len(pipe) + 1
      <4>1. pipe'[j].number = number /\ pipe'[i].number = pipe[i].number
        BY <1>6, <1>7, <3>1, <3>2
      <4> QED BY <1>2, <1>3, <1>10, <3>1, <4>1
    <3>3. CASE j \in 1 .. Len(pipe)
      BY <1>7, <2>5, <3>1, <3>3 DEF StoreInv, OrderInv
    <3> QED BY <1>7, <3>2, <3>3
  <2> QED BY <2>1, <2>2, <2>3, <2>4, <2>5 DEF OrderInv
<1>13. WaitInv'
  <2> SUFFICES ASSUME up', NEW v \in Writers, request'[v].is = "waits"
               PROVE  (Done(request[v].what, request[v].number) \/ OnPipe(request[v]))'
    BY DEF WaitInv
  <2>1. CASE v = w
    BY <1>6, <1>7, <1>8, <2>1 DEF OnPipe
  <2>2. CASE v # w
    <3>1. request'[v] = request[v] /\ (Done(request[v].what, request[v].number) \/ OnPipe(request[v]))
      BY <1>1, <1>8, <2>2 DEF StoreInv, WaitInv
    <3>2. CASE Done(request[v].what, request[v].number)
      BY <1>1, <3>1, <3>2 DEF Done
    <3>3. CASE OnPipe(request[v])
      BY <1>7, <3>1, <3>3 DEF OnPipe
    <3> QED BY <3>1, <3>2, <3>3
  <2> QED BY <2>1, <2>2
<1>14. AckInv'
  BY <1>1 DEF StoreInv, AckInv, Done
<1> QED BY <1>9, <1>12, <1>13, <1>14 DEF StoreInv

\* The statement that leaves the connection for the database is the oldest one.
LEMMA ApplyKeeps == ASSUME StoreInv, Apply PROVE StoreInv'
<1>1. UNCHANGED <<backend, request, sent, acked, up>> /\ pipe # <<>> /\ pipe' = Tail(pipe)
  BY DEF Apply
<1>2. /\ row \in Nat /\ sent \in Nat /\ StoreType /\ Rises(log)
      /\ log \in Seq(Nat) /\ pipe \in Seq(Statements)
  BY DEF StoreInv, StoreType, OrderInv
<1>3. /\ Head(pipe) \in Statements /\ Head(pipe) = pipe[1] /\ Tail(pipe) \in Seq(Statements) /\ 1 \in 1 .. Len(pipe)
      /\ \A i \in 1 .. Len(pipe) : i = 1 \/ i - 1 \in 1 .. Len(Tail(pipe))
      /\ \A i \in 1 .. Len(Tail(pipe)) : i + 1 \in 1 .. Len(pipe) /\ Tail(pipe)[i] = pipe[i + 1] /\ pipe[i + 1] \in Statements
  BY <1>1, <1>2, TailIndexed
<1>4. PICK what, number : /\ what \in {"none", "update", "append"} /\ number \in Nat
                          /\ what = Head(pipe).what /\ number = Head(pipe).number
  BY <1>3 DEF Statements
<1>5. /\ number <= sent /\ row < number /\ \A j \in 1 .. Len(log) : log[j] < number
  BY <1>3, <1>4 DEF StoreInv, OrderInv
<1>6. Written(what, number)
  BY <1>4 DEF Apply
<1>7. /\ Done(what, number)'
      /\ row' \in Nat /\ row <= row' /\ row' <= number
      /\ log' \in Seq(Nat) /\ (log' = log \/ log' = Append(log, number))
      /\ Rises(log') /\ \A j \in 1 .. Len(log') : log'[j] <= number
  BY <1>2, <1>4, <1>5, <1>6, WrittenDone
<1>8. StoreType'
  BY <1>1, <1>2, <1>3, <1>7 DEF StoreType
<1>9. \A j \in 1 .. Len(log') : log'[j] \in Nat
  BY <1>7, Elements
<1>10. OrderInv'
  <2>1. backend' = "sqlite" => pipe' = <<>>
    BY <1>1 DEF StoreInv, OrderInv
  <2>2. row' <= sent' /\ \A j \in 1 .. Len(log') : log'[j] <= sent'
    <3>1. sent' = sent /\ sent \in Nat /\ number \in Nat /\ number <= sent
      BY <1>1, <1>2, <1>4, <1>5
    <3>2. ASSUME NEW n \in Nat, n <= number PROVE n <= sent'
      BY <3>1, <3>2
    <3>3. row' \in Nat /\ row' <= number BY <1>7
    <3>4. \A j \in 1 .. Len(log') : log'[j] \in Nat /\ log'[j] <= number BY <1>7, <1>9
    <3> QED BY <3>2, <3>3, <3>4
  <2>3. \A i \in 1 .. Len(pipe') :
           i + 1 \in 1 .. Len(pipe) /\ i \in Nat /\ 1 < i + 1 /\ pipe'[i] = pipe[i + 1] /\ pipe[i + 1].number \in Nat
    BY <1>1, <1>3 DEF Statements
  <2>4. ASSUME NEW i \in 1 .. Len(pipe')
        PROVE  /\ pipe'[i].number <= sent' /\ row' < pipe'[i].number
               /\ \A j \in 1 .. Len(log') : log'[j] < pipe'[i].number
    <3>1. PICK k \in 1 .. Len(pipe) : k = i + 1 /\ 1 < k /\ pipe'[i] = pipe[k] /\ pipe[k].number \in Nat
      BY <2>3
    <3>2. pipe[k].number <= sent /\ number < pipe[k].number
      BY <1>3, <1>4, <3>1 DEF StoreInv, OrderInv
    <3>3. \A j \in 1 .. Len(log') : log'[j] < pipe[k].number
      <4>1. \A n \in Nat : n <= number => n < pipe[k].number BY <1>4, <3>1, <3>2
      <4> QED BY <1>7, <1>9, <4>1
    <3>4. row' < pipe[k].number
      <4>1. row' \in Nat /\ row' <= number /\ number \in Nat BY <1>4, <1>7
      <4> QED BY <3>1, <3>2, <4>1
    <3>5. pipe'[i].number = pipe[k].number /\ sent' = sent BY <1>1, <3>1
    <3> QED BY <3>2, <3>3, <3>4, <3>5
  <2>5. ASSUME NEW i \in 1 .. Len(pipe'), NEW j \in 1 .. Len(pipe'), i < j PROVE pipe'[i].number < pipe'[j].number
    <3>1. i + 1 \in 1 .. Len(pipe) /\ j + 1 \in 1 .. Len(pipe) /\ i + 1 < j + 1
      BY <2>3, <2>5
    <3>2. pipe[i + 1].number < pipe[j + 1].number
      BY <3>1 DEF StoreInv, OrderInv
    <3> QED BY <2>3, <3>2
  <2> QED BY <1>7, <2>1, <2>2, <2>4, <2>5 DEF OrderInv
<1>11. \A a \in acked : Done(a[1], a[2])'
  BY <1>4, <1>7, AcksStay
<1>12. AckInv'
  BY <1>1, <1>11 DEF AckInv
<1>13. WaitInv'
  <2> SUFFICES ASSUME up', NEW v \in Writers, request'[v].is = "waits"
               PROVE  (Done(request[v].what, request[v].number) \/ OnPipe(request[v]))'
    BY DEF WaitInv
  <2>1. request'[v] = request[v] /\ (Done(request[v].what, request[v].number) \/ OnPipe(request[v]))
    BY <1>1 DEF StoreInv, WaitInv
  <2>2. CASE Done(request[v].what, request[v].number)
    BY <1>2, <1>4, <1>7, <2>1, <2>2, WaiterStays
  <2>3. CASE OnPipe(request[v])
    <3>1. PICK i \in 1 .. Len(pipe) : pipe[i].what = request[v].what /\ pipe[i].number = request[v].number
      BY <2>3 DEF OnPipe
    <3>2. CASE i = 1
      <4>1. what = request'[v].what /\ number = request'[v].number
        BY <1>3, <1>4, <2>1, <3>1, <3>2
      <4> QED BY <1>7, <4>1
    <3>3. CASE i - 1 \in 1 .. Len(Tail(pipe))
      <4>1. Tail(pipe)[i - 1] = pipe[(i - 1) + 1] /\ (i - 1) + 1 = i
        BY <1>3, <3>3
      <4> QED BY <1>1, <2>1, <3>1, <3>3, <4>1 DEF OnPipe
    <3> QED BY <1>3, <3>2, <3>3
  <2> QED BY <2>1, <2>2, <2>3
<1> QED BY <1>8, <1>10, <1>12, <1>13 DEF StoreInv

\* What is still on a connection that breaks keeps its order.
LEMMA BreakKeeps == ASSUME StoreInv, Break PROVE StoreInv'
<1>1. UNCHANGED <<backend, request, sent, row, log, acked>> /\ ~up'
  BY DEF Break
<1>2. PICK n \in 0 .. Len(pipe) : pipe' = SubSeq(pipe, 1, n)
  BY DEF Break
<1>3. pipe \in Seq(Statements) /\ Len(pipe) \in Nat
  BY DEF StoreInv, StoreType
<1>4. pipe' \in Seq(Statements) /\ Len(pipe') = n /\ \A i \in 1 .. n : pipe'[i] = pipe[i]
  BY <1>2, <1>3
<1>5. \A i \in 1 .. Len(pipe') : i \in 1 .. Len(pipe) /\ pipe'[i] = pipe[i]
  BY <1>3, <1>4
<1>6. pipe = <<>> => pipe' = <<>>
  BY <1>2, <1>3
<1>7. StoreType'
  BY <1>1, <1>4 DEF StoreInv, StoreType
<1>8. OrderInv'
  BY <1>1, <1>5, <1>6 DEF StoreInv, OrderInv, Rises
<1>9. WaitInv' /\ AckInv'
  BY <1>1 DEF StoreInv, WaitInv, AckInv, Done
<1> QED BY <1>7, <1>8, <1>9 DEF StoreInv

-----------------------------------------------------------------------------
(* The theorem.                                                             *)

LEMMA InitStores == Init => StoreInv
<1> SUFFICES ASSUME Init PROVE StoreInv
  OBVIOUS
<1>1. Idle \in Requests /\ Idle.is # "waits"
  BY DEF Idle, Requests, States
<1>2. /\ request = [w \in Writers |-> Idle] /\ pipe = <<>> /\ log = <<>> /\ acked = {} /\ sent = 0 /\ row = 0
      /\ 1 .. Len(pipe) = {} /\ 1 .. Len(log) = {}
  BY DEF Init
<1>3. StoreType
  BY <1>1, <1>2 DEF StoreType
<1>4. OrderInv
  BY <1>2 DEF OrderInv, Rises
<1>5. WaitInv /\ AckInv
  BY <1>1, <1>2 DEF WaitInv, AckInv
<1> QED BY <1>3, <1>4, <1>5 DEF StoreInv

LEMMA NextStores == StoreInv /\ [Next]_vars => StoreInv'
<1> SUFFICES ASSUME StoreInv, [Next]_vars PROVE StoreInv'
  OBVIOUS
<1>1. CASE Apply
  BY <1>1, ApplyKeeps
<1>2. CASE Break
  BY <1>2, BreakKeeps
<1>3. ASSUME NEW w \in Writers, Ask(w) PROVE StoreInv'
  BY <1>3, AskKeeps
<1>4. ASSUME NEW w \in Writers, Execute(w) PROVE StoreInv'
  BY <1>4, ExecuteKeeps
<1>5. ASSUME NEW w \in Writers, Lock(w) PROVE StoreInv'
  BY <1>5, MoveKeeps DEF Lock
<1>6. ASSUME NEW w \in Writers, Send(w) PROVE StoreInv'
  BY <1>6, SendKeeps
<1>7. ASSUME NEW w \in Writers, Acknowledge(w) PROVE StoreInv'
  BY <1>7, AcknowledgeKeeps
<1>8. ASSUME NEW w \in Writers, Fail(w) \/ Drop(w) PROVE StoreInv'
  BY <1>8, MoveKeeps DEF Fail, Drop
<1>9. ASSUME NEW w \in Writers, Return(w) PROVE StoreInv'
  BY <1>9, ReturnKeeps
<1>10. CASE UNCHANGED vars
  <2>1. UNCHANGED <<backend, request, pipe, sent, row, log, acked, up>>
    BY <1>10 DEF vars
  <2> QED BY <2>1 DEF StoreInv, StoreType, OrderInv, Rises, WaitInv, AckInv, Done, OnPipe
<1> QED BY <1>1, <1>2, <1>3, <1>4, <1>5, <1>6, <1>7, <1>8, <1>9, <1>10 DEF Next, Served

\* The invariant is what the writers rely on.
LEMMA StoreKept == StoreInv => WritesKept
<1> SUFFICES ASSUME StoreInv PROVE WritesKept
  OBVIOUS
<1>1. DOMAIN log = 1 .. Len(log)
  BY DEF StoreInv, StoreType
<1>2. \A a \in acked : IF a[1] = "update" THEN a[2] <= row ELSE \E i \in DOMAIN log : log[i] = a[2]
  BY <1>1 DEF StoreInv, AckInv, Done
<1>3. \A i, j \in DOMAIN log : i < j => log[i] < log[j]
  BY <1>1 DEF StoreInv, OrderInv, Rises
<1>4. \A i \in 1 .. Len(pipe) : row < pipe[i].number /\ \A j \in DOMAIN log : log[j] < pipe[i].number
  BY <1>1 DEF StoreInv, OrderInv
<1> QED BY <1>2, <1>3, <1>4 DEF WritesKept

\* An acknowledged write is never lost or overtaken, however many writers there
\* are and whatever is dropped or breaks between two statements (the stores'
\* update and append_event).
THEOREM WritesStay == Spec => []WritesKept
<1>1. Spec => []StoreInv
  BY InitStores, NextStores, PTL DEF Spec
<1> QED BY <1>1, StoreKept, PTL

=============================================================================
