------------------------------ MODULE Listening ------------------------------
(***************************************************************************)
(* The listen task on the in-memory broker.  The broker appends a          *)
(* published event to the channel of everybody who has subscribed by then; *)
(* the task takes its events from there one by one, accepts what its       *)
(* strategy needs and groups the accepted ones by their correlation keys.  *)
(*                                                                         *)
(* An event is its matched attributes (`type`) and the values that the     *)
(* `from` expressions of the correlation keys find in its data.            *)
(***************************************************************************)
EXTENDS Naturals, Sequences, FiniteSets

CONSTANTS
    Definition,     \* listen tasks: records as in `Definitions` below
    Event,          \* the events: [type, key]
    Key,            \* the correlation keys' `from` expressions
    Value,          \* their values
    Unset,          \* no value: no `expect`, or nothing seen yet
    MaxPublished,   \* bound on the published events
    MayClose        \* whether the consumer may close a subscription

\* A filter: the types its `with` matches, its keys, and the values expected.
Filters == [types : SUBSET {e.type : e \in Event}, keys : SUBSET Key,
            expect : [Key -> Value \cup {Unset}]]

\* `strategy` is "one" for `one` and `any`, "all" for `all`; `until` are the
\* filters of an `until` strategy; `enough` is what an `until` expression on the
\* consumed events asks for: so many of them (0: there is no expression).
Definitions == [strategy : {"one", "all"}, filters : Seq(Filters),
                until : Seq(Filters), enough : Nat]

ASSUME ListenAssumption == /\ Definition \subseteq Definitions
                           /\ Event \subseteq [type : {e.type : e \in Event},
                                               key : [Key -> Value]]
                           /\ Value # {} /\ Unset \notin Value
                           /\ MayClose \in BOOLEAN
                           /\ MaxPublished \in Nat

VARIABLES
    def,        \* the listen task
    pc,         \* "start", "gather", "done", "dropped"
    channel,    \* the events sent to the subscription and not yet received
    received,   \* the events received, in order
    consumed,   \* the positions in `received` of the consumed ones
    satisfied,  \* the filters that have matched
    stopped,    \* the filters of the `until` strategy that have matched
    enough,     \* whether an `until` has held
    group,      \* the first values seen of the keys without an `expect`
    closed,     \* whether the subscription is closed
    published   \* the number of events published

vars == <<def, pc, channel, received, consumed, satisfied, stopped, enough,
          group, closed, published>>

-----------------------------------------------------------------------------
Groups == [Key -> Value \cup {Unset}]

Init ==
    /\ def \in Definition
    /\ pc = "start"
    /\ channel = <<>>
    /\ received = <<>>
    /\ consumed = {}
    /\ satisfied = {}
    /\ stopped = {}
    /\ enough = FALSE
    /\ group = [k \in Key |-> Unset]
    /\ closed = FALSE
    /\ published = 0

-----------------------------------------------------------------------------
(* filter_matches.                                                         *)

\* What a key of a filter must be: what it expects, else what the group has.
Wanted(f, g, k) == IF f.expect[k] # Unset THEN f.expect[k] ELSE g[k]

\* The `with` attributes and the correlation keys agree with the event.
Matches(f, e, g) ==
    /\ e.type \in f.types
    /\ \A k \in f.keys : Wanted(f, g, k) \in {Unset, e.key[k]}

\* Mutant: the trial group is not written back.
CommitNothing(f, e, g) == g

\* The group behind a match: a first-seen value stays.
Commit(f, e, g) ==
    [k \in Key |-> IF k \in f.keys /\ Wanted(f, g, k) = Unset THEN e.key[k] ELSE g[k]]

\* Filter number i is tried behind the ones before it, in the group that these
\* have committed to: [hits, group].
Try(fs, done, e, before, i) ==
    IF i \notin done /\ Matches(fs[i], e, before.group)
    THEN [hits  |-> before.hits \cup {i},
          group |-> Commit(fs[i], e, before.group)]
    ELSE before

\* The filters fs that an event newly satisfies, and the group behind them all.
Scan(fs, done, e, g) ==
    LET scan[i \in 0 .. Len(fs)] ==
          IF i = 0 THEN [hits |-> {}, group |-> g]
          ELSE Try(fs, done, e, scan[i - 1], i)
    IN  scan[Len(fs)]

-----------------------------------------------------------------------------
(* gather_listen_events.                                                   *)

HasUntil(d) == d.enough > 0 \/ d.until # <<>>

\* The strategy has what it needs, and so has the `until`.
BaseSatisfied ==
    IF def.strategy = "all"
    THEN satisfied = 1 .. Len(def.filters)
    ELSE consumed # {} \/ (HasUntil(def) /\ def.filters = <<>>)

Complete == BaseSatisfied /\ (HasUntil(def) => enough)

\* EventConsumer::subscribe, with a filter that accepts everything.
Subscribe ==
    /\ pc = "start"
    /\ pc' = "gather"
    /\ UNCHANGED <<def, channel, received, consumed, satisfied, stopped, enough,
                   group, closed, published>>

\* Mutant: the first filter of an `any` is the only one tried.
AcceptByFirst(e) ==
    [accepted  |-> def.filters = <<>> \/ Matches(def.filters[1], e, group),
     satisfied |-> satisfied,
     group     |-> group]

\* `one` and `any`: an event that matches a filter, or any event without
\* filters.  Each filter is tried in the group, which stays as it is.
AcceptOne(e) ==
    [accepted  |-> def.filters = <<>>
                   \/ \E i \in DOMAIN def.filters : Matches(def.filters[i], e, group),
     satisfied |-> satisfied,
     group     |-> group]

\* Mutant: the filters that matched before are forgotten.
AcceptAllAnew(e) ==
    LET s == Scan(def.filters, satisfied, e, group)
    IN  [accepted |-> s.hits # {}, satisfied |-> s.hits, group |-> s.group]

\* Mutant: an event is consumed whether it satisfies a further filter or not.
AcceptAllAgain(e) ==
    LET s == Scan(def.filters, {}, e, group)
    IN  [accepted |-> s.hits # {}, satisfied |-> satisfied \cup s.hits, group |-> s.group]

\* `all`: an event that satisfies a filter for the first time.
AcceptAll(e) ==
    LET s == Scan(def.filters, satisfied, e, group)
    IN  [accepted |-> s.hits # {}, satisfied |-> satisfied \cup s.hits, group |-> s.group]

\* The next event of the channel goes through the strategy and both kinds of
\* `until`; the event that an `until` strategy takes is consumed too.
Receive ==
    /\ pc = "gather" /\ ~ Complete
    /\ channel # <<>>
    /\ LET e == Head(channel)
           n == Len(received) + 1
           a == IF def.strategy = "all" THEN AcceptAll(e) ELSE AcceptOne(e)
           u == Scan(def.until, stopped, e, a.group)
       IN  /\ received' = Append(received, e)
           /\ satisfied' = a.satisfied
           /\ group' = u.group
           /\ stopped' = stopped \cup u.hits
           /\ consumed' = IF a.accepted \/ u.hits # {}
                          THEN consumed \cup {n} ELSE consumed
           /\ enough' = \/ IF u.hits # {} THEN stopped' = 1 .. Len(def.until) ELSE enough
                        \/ def.enough > 0 /\ Cardinality(consumed') >= def.enough
    /\ channel' = Tail(channel)
    /\ UNCHANGED <<def, pc, closed, published>>

\* The loop is left: complete, or with what there is when the subscription ends.
Finish ==
    /\ pc = "gather"
    /\ Complete \/ (closed /\ channel = <<>>)
    /\ pc' = "done"
    /\ UNCHANGED <<def, channel, received, consumed, satisfied, stopped, enough,
                   group, closed, published>>

\* A cancellation or a timeout ends the task; the broker keeps the subscriber.
Drop ==
    /\ pc \in {"start", "gather"}
    /\ pc' = "dropped"
    /\ UNCHANGED <<def, channel, received, consumed, satisfied, stopped, enough,
                   group, closed, published>>

-----------------------------------------------------------------------------
(* InMemoryBroker.                                                         *)

\* Mutant: the broker keeps one event for a slow subscriber.
PublishLatest(e) ==
    /\ published < MaxPublished
    /\ published' = published + 1
    /\ channel' = IF pc = "gather" /\ ~ closed THEN <<e>> ELSE channel
    /\ UNCHANGED <<def, pc, received, consumed, satisfied, stopped, enough,
                   group, closed>>

\* InMemoryBroker::publish: who has not subscribed yet does not get the event.
Publish(e) ==
    /\ published < MaxPublished
    /\ published' = published + 1
    /\ channel' = IF pc = "gather" /\ ~ closed THEN Append(channel, e) ELSE channel
    /\ UNCHANGED <<def, pc, received, consumed, satisfied, stopped, enough,
                   group, closed>>

\* Another consumer than the in-memory one may end a subscription.
Close ==
    /\ MayClose /\ ~ closed
    /\ pc = "gather"
    /\ closed' = TRUE
    /\ UNCHANGED <<def, pc, channel, received, consumed, satisfied, stopped, enough,
                   group, published>>

-----------------------------------------------------------------------------
Next ==
    \/ Subscribe \/ Receive \/ Finish \/ Drop
    \/ Close
    \/ \E e \in Event : Publish(e)

Spec == Init /\ [][Next]_vars

\* The task is polled when an event is in its channel; nobody need publish.
FairSpec == Spec /\ WF_vars(Subscribe) /\ WF_vars(Receive) /\ WF_vars(Finish)

-----------------------------------------------------------------------------
(* Properties.                                                             *)

TypeOK ==
    /\ def \in Definition
    /\ pc \in {"start", "gather", "done", "dropped"}
    /\ channel \in Seq(Event)
    /\ received \in Seq(Event)
    /\ consumed \subseteq 1 .. Len(received)
    /\ satisfied \subseteq 1 .. Len(def.filters)
    /\ stopped \subseteq 1 .. Len(def.until)
    /\ enough \in BOOLEAN
    /\ group \in Groups
    /\ closed \in BOOLEAN
    /\ published \in 0 .. MaxPublished

\* An event is evidence for a filter in the correlation group g.
Evidence(f, g) == \E n \in consumed : Matches(f, received[n], g)

\* A finished `all` has, for every filter, a consumed event that matches it, and
\* these events agree on the correlation keys, with each other and with those
\* of the `until` strategy: one group of values explains them all ("a first-seen
\* key value becomes the expected value shared by subsequent filters").
OneGroup ==
    (pc = "done" /\ ~ closed /\ def.strategy = "all") =>
        \E g \in [Key -> Value] :
            /\ \A i \in 1 .. Len(def.filters) : Evidence(def.filters[i], g)
            /\ def.enough = 0 => \A i \in 1 .. Len(def.until) : Evidence(def.until[i], g)

\* An `all` consumes an event only for a filter nothing has matched before: not
\* more than it has filters, however many events arrive (gather_listen_events).
NothingInVain ==
    def.strategy = "all" =>
        Cardinality(consumed) <= Cardinality(satisfied) + Cardinality(stopped)

\* Without an `until` a `one` or `any` takes the first event that matches, and
\* leaves the later ones alone.
FirstMatch ==
    (pc = "done" /\ ~ closed /\ def.strategy = "one" /\ ~ HasUntil(def)) =>
        /\ consumed = {Len(received)}
        /\ \/ def.filters = <<>>
           \/ \E i \in 1 .. Len(def.filters) :
                 Matches(def.filters[i], received[Len(received)], group)
        /\ \A n \in 1 .. Len(received) - 1 :
              \A i \in 1 .. Len(def.filters) : ~ Matches(def.filters[i], received[n], group)

\* What a listen has agreed on is not revised: neither a correlation value nor a
\* filter's match is lost while it waits.
AgreementKept ==
    [][/\ \A k \in Key : group[k] # Unset => group'[k] = group[k]
       /\ satisfied \subseteq satisfied'
       /\ stopped \subseteq stopped']_vars

\* The events behind the subscription that match a filter on its own.
Arrived(f) == \E s \in {received, channel} : \E n \in DOMAIN s : Matches(f, s[n], group)

\* No event is missed: once an event has arrived for every filter of a listen
\* without an `until` and without grouping, it finishes, in whatever order and
\* however fast the events came.
Fulfilled ==
    /\ pc = "gather" /\ ~ HasUntil(def)
    /\ \A i \in 1 .. Len(def.filters) :
          \A k \in def.filters[i].keys : def.filters[i].expect[k] # Unset
    /\ IF def.strategy = "all"
       THEN \A i \in 1 .. Len(def.filters) : Arrived(def.filters[i])
       ELSE \E i \in 1 .. Len(def.filters) : Arrived(def.filters[i])

FinishesWhenFulfilled == Fulfilled ~> pc \in {"done", "dropped"}

=============================================================================
