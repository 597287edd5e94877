--------------------------- MODULE ListeningProofs ---------------------------
(***************************************************************************)
(* Proofs about Listening.                                                 *)
(***************************************************************************)
EXTENDS Listening, FiniteSetTheorems, WellFoundedInduction, TLAPS

-----------------------------------------------------------------------------
(* Induction over the filters, by the least counterexample.                *)

LEMMA LeastNat ==
    ASSUME NEW T, T \subseteq Nat, T # {}
    PROVE  \E n \in T : \A m \in T : n <= m
<1>1. PICK n \in T : \A m \in T : <<m, n>> \notin OpToRel(<, Nat)
  BY NatLessThanWellFounded, WFMin, Zenon
<1>2. ASSUME NEW m \in T PROVE n <= m
  <2>1. m \in Nat /\ n \in Nat
    OBVIOUS
  <2>2. ~ (m < n)
    BY <1>1, <2>1 DEF OpToRel
  <2> QED
    BY <2>1, <2>2
<1> QED
  BY <1>2

\* What Scan goes through: behind i filters.
Scans(fs, done, e, g, s, n) ==
    s = [i \in 0 .. n |-> IF i = 0 THEN [hits |-> {}, group |-> g]
                                   ELSE Try(fs, done, e, s[i - 1], i)]

\* There is one for any number of filters.
LEMMA ScanExists ==
    ASSUME NEW fs, NEW done, NEW e, NEW g
    PROVE  \A n \in Nat : \E s : Scans(fs, done, e, g, s, n)
<1> DEFINE T == {n \in Nat : ~ \E s : Scans(fs, done, e, g, s, n)}
<1>1. SUFFICES ASSUME T # {} PROVE FALSE
  OBVIOUS
<1>2. PICK n \in T : \A m \in T : n <= m
  BY <1>1, LeastNat
<1>3. CASE n = 0
  <2>1. Scans(fs, done, e, g, [i \in 0 .. 0 |-> [hits |-> {}, group |-> g]], 0)
    BY DEF Scans
  <2> QED
    BY <1>3, <2>1
<1>4. CASE n # 0
  <2>1. n - 1 \in Nat /\ n - 1 \notin T
    BY <1>2, <1>4
  <2>2. PICK s : Scans(fs, done, e, g, s, n - 1)
    BY <2>1
  <2> DEFINE t == [i \in 0 .. n |-> IF i = n THEN Try(fs, done, e, s[n - 1], n) ELSE s[i]]
  <2>3. ASSUME NEW i \in 0 .. n
        PROVE  t[i] = IF i = 0 THEN [hits |-> {}, group |-> g] ELSE Try(fs, done, e, t[i - 1], i)
    <3>1. CASE i = n
      <4>1. t[i - 1] = s[n - 1] /\ i # 0
        BY <1>4, <2>1, <3>1
      <4> QED
        BY <3>1, <4>1
    <3>2. CASE i # n
      <4>1. i \in 0 .. (n - 1) /\ t[i] = s[i] /\ (i # 0 => i - 1 \in 0 .. n /\ i - 1 # n /\ t[i - 1] = s[i - 1])
        BY <2>1, <3>2
      <4> QED
        BY <2>2, <4>1 DEF Scans
    <3> QED
      BY <3>1, <3>2
  <2>4. Scans(fs, done, e, g, t, n)
    BY <2>3 DEF Scans
  <2> QED
    BY <2>4
<1> QED
  BY <1>3, <1>4

\* Scan is what it says it is.
LEMMA ScanUnfolds ==
    ASSUME NEW fs, NEW done, NEW e, NEW g, Len(fs) \in Nat
    PROVE  \E s : Scans(fs, done, e, g, s, Len(fs)) /\ Scan(fs, done, e, g) = s[Len(fs)]
<1> DEFINE s == CHOOSE s : Scans(fs, done, e, g, s, Len(fs))
<1>1. Scans(fs, done, e, g, s, Len(fs))
  BY ScanExists
<1>2. Scan(fs, done, e, g) = s[Len(fs)]
  BY DEF Scan, Scans
<1> QED
  BY <1>1, <1>2

-----------------------------------------------------------------------------
(* What a scan finds.                                                      *)

\* The event e is a match for the filter f that no later event can take away:
\* each key of f has the value that the filter or the group asks for.
Settled(f, e, g) ==
    /\ e.type \in f.types
    /\ \A k \in f.keys : Wanted(f, g, k) = e.key[k]

\* The group h keeps what the group g has agreed on.
Extends(g, h) == \A k \in Key : g[k] # Unset => h[k] = g[k]

\* The result r of a scan of the first n filters.
Found(fs, done, e, g, r, n) ==
    /\ r.hits \subseteq (1 .. n) \ done
    /\ r.group \in Groups
    /\ Extends(g, r.group)
    /\ \A i \in r.hits : Settled(fs[i], e, r.group)

\* An event's keys have values.
LEMMA EventKeys ==
    ASSUME NEW e \in Event, NEW k \in Key
    PROVE  e.key[k] \in Value /\ e.key[k] # Unset
<1>1. e \in [type : {d.type : d \in Event}, key : [Key -> Value]]
  BY ListenAssumption
<1>2. e.key \in [Key -> Value]
  BY <1>1
<1> QED
  BY <1>2, ListenAssumption

\* A match is settled by committing to it, ...
LEMMA CommitSettles ==
    ASSUME NEW f \in Filters, NEW e \in Event, NEW g \in Groups, Matches(f, e, g)
    PROVE  /\ Commit(f, e, g) \in Groups
           /\ Extends(g, Commit(f, e, g))
           /\ Settled(f, e, Commit(f, e, g))
<1>1. f.keys \subseteq Key /\ f.expect \in [Key -> Value \cup {Unset}]
  BY DEF Filters
<1>2. \A k \in Key : e.key[k] \in Value /\ e.key[k] # Unset
  BY EventKeys
<1>3. Commit(f, e, g) \in Groups
  BY <1>1, <1>2 DEF Commit, Groups
<1>4. Extends(g, Commit(f, e, g))
  BY DEF Extends, Commit, Wanted
<1>5. \A k \in f.keys : Wanted(f, Commit(f, e, g), k) = e.key[k]
  BY <1>1, <1>2 DEF Matches, Commit, Wanted
<1> QED
  BY <1>3, <1>4, <1>5 DEF Settled, Matches

\* ... and stays so.
LEMMA SettledStays ==
    ASSUME NEW f \in Filters, NEW e \in Event, NEW g, NEW h, Extends(g, h), Settled(f, e, g)
    PROVE  Settled(f, e, h)
<1>1. f.keys \subseteq Key
  BY DEF Filters
<1>2. \A k \in f.keys : Wanted(f, g, k) = e.key[k] /\ e.key[k] # Unset
  BY <1>1, EventKeys DEF Settled
<1> QED
  BY <1>1, <1>2 DEF Settled, Wanted, Extends

LEMMA ExtendsTransitive ==
    ASSUME NEW g, NEW h, NEW j, Extends(g, h), Extends(h, j)
    PROVE  Extends(g, j)
BY DEF Extends

\* One filter more.
LEMMA TryFinds ==
    ASSUME NEW fs \in Seq(Filters), NEW done, NEW e \in Event, NEW g \in Groups,
           NEW r, NEW n \in 1 .. Len(fs), Found(fs, done, e, g, r, n - 1)
    PROVE  Found(fs, done, e, g, Try(fs, done, e, r, n), n)
<1>0. fs[n] \in Filters /\ r.group \in Groups /\ Len(fs) \in Nat
  BY DEF Found
<1>1. CASE n \notin done /\ Matches(fs[n], e, r.group)
  <2> DEFINE h == Commit(fs[n], e, r.group)
  <2>1. h \in Groups /\ Extends(r.group, h) /\ Settled(fs[n], e, h)
    BY <1>0, <1>1, CommitSettles
  <2>2. Try(fs, done, e, r, n) = [hits |-> r.hits \cup {n}, group |-> h]
    BY <1>1 DEF Try
  <2>3. \A i \in r.hits : i \in 1 .. Len(fs) /\ Settled(fs[i], e, r.group)
    BY <1>0 DEF Found
  <2>4. \A i \in r.hits : Settled(fs[i], e, h)
    BY <2>1, <2>3, SettledStays
  <2>5. Extends(g, h)
    BY <2>1, ExtendsTransitive DEF Found
  <2>6. r.hits \cup {n} \subseteq (1 .. n) \ done
    BY <1>0, <1>1 DEF Found
  <2> QED
    BY <2>1, <2>2, <2>4, <2>5, <2>6 DEF Found
<1>2. CASE ~ (n \notin done /\ Matches(fs[n], e, r.group))
  <2>1. Try(fs, done, e, r, n) = r
    BY <1>2 DEF Try
  <2>2. (1 .. (n - 1)) \ done \subseteq (1 .. n) \ done
    BY <1>0
  <2> QED
    BY <2>1, <2>2 DEF Found
<1> QED
  BY <1>1, <1>2

\* All of them: by induction over the scan.
LEMMA ScanFinds ==
    ASSUME NEW fs \in Seq(Filters), NEW done, NEW e \in Event, NEW g \in Groups
    PROVE  /\ Found(fs, done, e, g, Scan(fs, done, e, g), Len(fs))
           /\ fs = <<>> => Scan(fs, done, e, g) = [hits |-> {}, group |-> g]
<1>0. Len(fs) \in Nat
  OBVIOUS
<1>1. PICK s : Scans(fs, done, e, g, s, Len(fs)) /\ Scan(fs, done, e, g) = s[Len(fs)]
  BY <1>0, ScanUnfolds
<1>2. \A i \in 0 .. Len(fs) :
        s[i] = IF i = 0 THEN [hits |-> {}, group |-> g] ELSE Try(fs, done, e, s[i - 1], i)
  BY <1>1 DEF Scans
<1> DEFINE T == {i \in 0 .. Len(fs) : ~ Found(fs, done, e, g, s[i], i)}
<1>3. T = {}
  <2>1. SUFFICES ASSUME T # {} PROVE FALSE
    OBVIOUS
  <2>2. T \subseteq Nat
    BY <1>0
  <2>3. PICK n \in T : \A m \in T : n <= m
    BY <2>1, <2>2, LeastNat
  <2>4. CASE n = 0
    <3>1. Found(fs, done, e, g, [hits |-> {}, group |-> g], 0)
      BY DEF Found, Extends
    <3> QED
      BY <1>0, <1>2, <2>4, <3>1
  <2>5. CASE n # 0
    <3>1. n \in 1 .. Len(fs) /\ n - 1 \in 0 .. Len(fs) /\ n - 1 \notin T
      BY <1>0, <2>3, <2>5
    <3>2. Found(fs, done, e, g, s[n - 1], n - 1)
      BY <3>1
    <3>3. Found(fs, done, e, g, Try(fs, done, e, s[n - 1], n), n)
      BY <3>1, <3>2, TryFinds
    <3>4. s[n] = Try(fs, done, e, s[n - 1], n)
      BY <1>0, <1>2, <2>5, <3>1
    <3> QED
      BY <3>3, <3>4
  <2> QED
    BY <2>4, <2>5
<1>4. Found(fs, done, e, g, s[Len(fs)], Len(fs))
  BY <1>0, <1>3
<1>5. fs = <<>> => s[Len(fs)] = [hits |-> {}, group |-> g]
  BY <1>0, <1>2
<1> QED
  BY <1>1, <1>4, <1>5

-----------------------------------------------------------------------------
(* The step that takes an event.                                           *)

\* Receive takes the event e, which the filters in hits and those of the `until`
\* in tops match for the first time.
Takes(e, hits, tops, accepted) ==
    /\ pc = "gather" /\ ~ Complete
    /\ e \in Event /\ received' = Append(received, e)
    /\ channel # <<>> /\ channel' = Tail(channel)
    /\ hits \subseteq 1 .. Len(def.filters) /\ hits \cap satisfied = {}
    /\ tops \subseteq 1 .. Len(def.until) /\ tops \cap stopped = {}
    /\ satisfied' = satisfied \cup hits
    /\ stopped' = stopped \cup tops
    /\ group' \in Groups /\ Extends(group, group')
    /\ \A i \in hits : Settled(def.filters[i], e, group')
    /\ \A i \in tops : Settled(def.until[i], e, group')
    /\ consumed' = IF accepted \/ tops # {} THEN consumed \cup {Len(received) + 1} ELSE consumed
    /\ enough' = \/ IF tops # {} THEN stopped' = 1 .. Len(def.until) ELSE enough
                 \/ def.enough > 0 /\ Cardinality(consumed') >= def.enough
    /\ def.strategy = "all" => (accepted <=> hits # {})
    /\ def.strategy = "one" =>
         /\ hits = {}
         /\ accepted <=> \/ def.filters = <<>>
                         \/ \E i \in 1 .. Len(def.filters) : Matches(def.filters[i], e, group)
         /\ def.until = <<>> => tops = {} /\ group' = group
    /\ UNCHANGED <<def, pc, closed, published>>

\* What a listen task is made of.
LEMMA TaskParts ==
    ASSUME TypeOK
    PROVE  /\ def.strategy \in {"one", "all"} /\ def.enough \in Nat
           /\ def.filters \in Seq(Filters) /\ def.until \in Seq(Filters)
  BY ListenAssumption DEF TypeOK, Definitions

LEMMA ReceiveTakes ==
    ASSUME TypeOK, Receive
    PROVE  \E e, hits, tops, accepted : Takes(e, hits, tops, accepted)
<1>0. /\ def.strategy \in {"one", "all"}
      /\ def.filters \in Seq(Filters) /\ def.until \in Seq(Filters)
      /\ group \in Groups /\ channel \in Seq(Event) /\ received \in Seq(Event)
  BY TaskParts DEF TypeOK
<1> DEFINE e == Head(channel)
           a == IF def.strategy = "all" THEN AcceptAll(e) ELSE AcceptOne(e)
           b == Scan(def.filters, satisfied, e, group)
           u == Scan(def.until, stopped, e, a.group)
           hits == IF def.strategy = "all" THEN b.hits ELSE {}
<1>1. /\ pc = "gather" /\ ~ Complete /\ channel # <<>>
      /\ received' = Append(received, e)
      /\ satisfied' = a.satisfied /\ group' = u.group /\ stopped' = stopped \cup u.hits
      /\ consumed' = IF a.accepted \/ u.hits # {} THEN consumed \cup {Len(received) + 1} ELSE consumed
      /\ enough' = \/ IF u.hits # {} THEN stopped' = 1 .. Len(def.until) ELSE enough
                   \/ def.enough > 0 /\ Cardinality(consumed') >= def.enough
      /\ channel' = Tail(channel)
      /\ UNCHANGED <<def, pc, closed, published>>
  BY DEF Receive
<1>2. e \in Event
  <2>1. channel \in Seq(Event) /\ channel # <<>>
    BY <1>0 DEF Receive
  <2> QED
    BY <2>1
<1>6. /\ a = IF def.strategy = "all" THEN AcceptAll(e) ELSE AcceptOne(e)
      /\ b = Scan(def.filters, satisfied, e, group)
      /\ u = Scan(def.until, stopped, e, a.group)
  OBVIOUS
<1> HIDE DEF e, a, b, u
<1>3. Found(def.filters, satisfied, e, group, b, Len(def.filters))
  BY <1>0, <1>2, <1>6, ScanFinds
<1>4. CASE def.strategy = "all"
  <2>1. a = [accepted |-> b.hits # {}, satisfied |-> satisfied \cup b.hits, group |-> b.group]
    BY <1>4, <1>6 DEF AcceptAll
  <2>2. /\ b.hits \subseteq 1 .. Len(def.filters) /\ b.hits \cap satisfied = {}
        /\ b.group \in Groups /\ Extends(group, b.group)
        /\ \A i \in b.hits : Settled(def.filters[i], e, b.group)
    BY <1>3 DEF Found
  <2>3. Found(def.until, stopped, e, b.group, u, Len(def.until))
    <3>1. a.group = b.group
      BY <2>1
    <3>2. u = Scan(def.until, stopped, e, b.group)
      BY <1>6, <3>1
    <3>3. b.group \in Groups
      BY <2>2
    <3>4. Found(def.until, stopped, e, b.group, Scan(def.until, stopped, e, b.group), Len(def.until))
      BY <1>0, <1>2, <3>3, ScanFinds
    <3> QED
      BY <3>2, <3>4
  <2>4. /\ u.hits \subseteq 1 .. Len(def.until) /\ u.hits \cap stopped = {}
        /\ u.group \in Groups /\ Extends(b.group, u.group)
        /\ \A i \in u.hits : Settled(def.until[i], e, u.group)
    BY <2>3 DEF Found
  <2>5. \A i \in b.hits : Settled(def.filters[i], e, u.group)
    <3>1. \A i \in b.hits : def.filters[i] \in Filters
      BY <1>0, <2>2
    <3> QED
      BY <1>2, <2>2, <2>4, <3>1, SettledStays
  <2>6. Extends(group, u.group)
    BY <2>2, <2>4, ExtendsTransitive
  <2>7. Takes(e, b.hits, u.hits, b.hits # {})
    BY <1>1, <1>2, <1>4, <2>1, <2>2, <2>4, <2>5, <2>6 DEF Takes
  <2> QED
    BY <2>7
<1>5. CASE def.strategy = "one"
  <2>1. a = [accepted  |-> def.filters = <<>>
                           \/ \E i \in DOMAIN def.filters : Matches(def.filters[i], e, group),
             satisfied |-> satisfied, group |-> group]
    BY <1>5, <1>6 DEF AcceptOne
  <2>2. u = Scan(def.until, stopped, e, group)
    BY <1>6, <2>1
  <2>3. Found(def.until, stopped, e, group, u, Len(def.until))
    BY <1>0, <1>2, <2>2, ScanFinds
  <2>4. /\ u.hits \subseteq 1 .. Len(def.until) /\ u.hits \cap stopped = {}
        /\ u.group \in Groups /\ Extends(group, u.group)
        /\ \A i \in u.hits : Settled(def.until[i], e, u.group)
    BY <2>3 DEF Found
  <2>5. def.until = <<>> => u.hits = {} /\ u.group = group
    <3>1. def.until = <<>> => u = [hits |-> {}, group |-> group]
      BY <1>0, <1>2, <2>2, ScanFinds
    <3> QED
      BY <3>1
  <2>6. DOMAIN def.filters = 1 .. Len(def.filters)
    BY <1>0
  <2>7. Takes(e, {}, u.hits, a.accepted)
    BY <1>1, <1>2, <1>5, <2>1, <2>4, <2>5, <2>6 DEF Takes
  <2> QED
    BY <2>7
<1> QED
  BY <1>0, <1>4, <1>5

-----------------------------------------------------------------------------
(* The inductive invariant.                                                *)

\* Every filter that counts as matched has a consumed event that settles it, in
\* the one group that there is.
SettledInv ==
    /\ \A i \in satisfied : \E n \in consumed : Settled(def.filters[i], received[n], group)
    /\ \A i \in stopped : \E n \in consumed : Settled(def.until[i], received[n], group)

\* What it takes to be done, and for an `until` strategy to be enough.
DoneInv ==
    /\ pc = "done" /\ ~ closed => Complete
    /\ enough => def.enough > 0 \/ stopped = 1 .. Len(def.until)

\* The received event number n is what a `one` or `any` waits for.
Fits(n) == def.filters = <<>>
           \/ \E i \in 1 .. Len(def.filters) : Matches(def.filters[i], received[n], group)

\* Without an `until` a `one` or `any` consumes the first event that fits.
FirstInv ==
    def.strategy = "one" /\ ~ HasUntil(def) =>
        /\ consumed \in {{}, {Len(received)}}
        /\ \A n \in 1 .. Len(received) : n \in consumed <=> Fits(n)

ListenInv == TypeOK /\ SettledInv /\ DoneInv /\ NothingInVain /\ FirstInv

\* Every other action leaves what has been received as it is.
Leaves == UNCHANGED <<def, received, consumed, satisfied, stopped, enough, group>>

\* A step that takes an event keeps the types ...
LEMMA TakesType ==
    ASSUME TypeOK, NEW e, NEW hits, NEW tops, NEW accepted, Takes(e, hits, tops, accepted)
    PROVE  TypeOK'
<1>1. received' \in Seq(Event) /\ Len(received') = Len(received) + 1 /\ Len(received) \in Nat
  BY DEF TypeOK, Takes
<1>2. channel' \in Seq(Event)
  BY DEF TypeOK, Takes
<1>3. consumed' \subseteq 1 .. Len(received')
  <2>1. consumed' \subseteq consumed \cup {Len(received) + 1}
    BY DEF Takes
  <2>2. consumed \subseteq 1 .. Len(received)
    BY DEF TypeOK
  <2> QED
    BY <1>1, <2>1, <2>2
<1>4. satisfied' \subseteq 1 .. Len(def'.filters) /\ stopped' \subseteq 1 .. Len(def'.until)
  BY DEF TypeOK, Takes
<1>5. enough' \in BOOLEAN
  BY DEF TypeOK, Takes
<1> QED
  BY <1>1, <1>2, <1>3, <1>4, <1>5 DEF TypeOK, Takes

\* ... and what was settled, and settles what it adds.
LEMMA TakesSettled ==
    ASSUME TypeOK, SettledInv, NEW e, NEW hits, NEW tops, NEW accepted,
           Takes(e, hits, tops, accepted)
    PROVE  SettledInv'
<1>0. /\ received \in Seq(Event) /\ consumed \subseteq 1 .. Len(received)
      /\ def.filters \in Seq(Filters) /\ def.until \in Seq(Filters)
      /\ satisfied \subseteq 1 .. Len(def.filters) /\ stopped \subseteq 1 .. Len(def.until)
      /\ def.strategy \in {"one", "all"}
  BY TaskParts DEF TypeOK
<1>1. e \in Event /\ received' = Append(received, e) /\ Extends(group, group') /\ def' = def
  BY DEF Takes
<1>2. \A n \in 1 .. Len(received) : received[n] \in Event /\ received'[n] = received[n]
  BY <1>0, <1>1
<1>3. received'[Len(received) + 1] = e
  BY <1>0, <1>1
<1>4. consumed \subseteq consumed'
  BY DEF Takes
<1>5. ASSUME NEW f \in Filters, \E n \in consumed : Settled(f, received[n], group)
      PROVE  \E n \in consumed' : Settled(f, received'[n], group')
  <2>1. PICK n \in consumed : Settled(f, received[n], group)
    BY <1>5
  <2>2. Settled(f, received[n], group')
    BY <1>0, <1>1, <1>2, <2>1, SettledStays
  <2> QED
    BY <1>0, <1>2, <1>4, <2>2
<1>6. ASSUME NEW f, Settled(f, e, group'), hits # {} \/ tops # {}
      PROVE  \E n \in consumed' : Settled(f, received'[n], group')
  <2>1. accepted \/ tops # {}
    BY <1>0, <1>6 DEF Takes
  <2>2. Len(received) + 1 \in consumed'
    BY <2>1 DEF Takes
  <2> QED
    BY <1>3, <1>6, <2>2
<1>7. ASSUME NEW i \in satisfied'
      PROVE  \E n \in consumed' : Settled(def'.filters[i], received'[n], group')
  <2>1. CASE i \in satisfied
    <3>1. def.filters[i] \in Filters
      BY <1>0, <2>1
    <3>2. \E n \in consumed : Settled(def.filters[i], received[n], group)
      BY <2>1 DEF SettledInv
    <3> QED
      BY <1>1, <1>5, <3>1, <3>2
  <2>2. CASE i \in hits
    BY <1>1, <1>6, <2>2 DEF Takes
  <2> QED
    BY <1>7, <2>1, <2>2 DEF Takes
<1>8. ASSUME NEW i \in stopped'
      PROVE  \E n \in consumed' : Settled(def'.until[i], received'[n], group')
  <2>1. CASE i \in stopped
    <3>1. def.until[i] \in Filters
      BY <1>0, <2>1
    <3>2. \E n \in consumed : Settled(def.until[i], received[n], group)
      BY <2>1 DEF SettledInv
    <3> QED
      BY <1>1, <1>5, <3>1, <3>2
  <2>2. CASE i \in tops
    BY <1>1, <1>6, <2>2 DEF Takes
  <2> QED
    BY <1>8, <2>1, <2>2 DEF Takes
<1> QED
  BY <1>7, <1>8 DEF SettledInv

\* Adding new elements to a finite set of numbers.
LEMMA CardinalityGrows ==
    ASSUME NEW n \in Nat, NEW S \in SUBSET (1 .. n), NEW T \in SUBSET (1 .. n), S \cap T = {}
    PROVE  /\ Cardinality(S) \in Nat /\ Cardinality(S \cup T) \in Nat
           /\ Cardinality(S) <= Cardinality(S \cup T)
           /\ T # {} => Cardinality(S) + 1 <= Cardinality(S \cup T)
<1>1. IsFiniteSet(1 .. n)
  BY FS_Interval
<1>2. IsFiniteSet(S) /\ IsFiniteSet(S \cup T)
  BY <1>1, FS_Subset
<1>3. Cardinality(S) \in Nat /\ Cardinality(S \cup T) \in Nat
  BY <1>2, FS_CardinalityType
<1>4. Cardinality(S) <= Cardinality(S \cup T) /\ (Cardinality(S) = Cardinality(S \cup T) => S = S \cup T)
  BY <1>2, FS_Subset
<1>5. T # {} => S # S \cup T
  OBVIOUS
<1> QED
  BY <1>3, <1>4, <1>5

LEMMA TakesInVain ==
    ASSUME TypeOK, NothingInVain, NEW e, NEW hits, NEW tops, NEW accepted,
           Takes(e, hits, tops, accepted)
    PROVE  NothingInVain'
<1> SUFFICES ASSUME def.strategy = "all"
             PROVE  Cardinality(consumed') <= Cardinality(satisfied') + Cardinality(stopped')
  BY DEF NothingInVain, Takes
<1>0. /\ Len(def.filters) \in Nat /\ Len(def.until) \in Nat /\ Len(received) \in Nat
      /\ satisfied \subseteq 1 .. Len(def.filters) /\ stopped \subseteq 1 .. Len(def.until)
      /\ consumed \subseteq 1 .. Len(received)
  <2>1. def.filters \in Seq(Filters) /\ def.until \in Seq(Filters)
    BY TaskParts
  <2>2. /\ received \in Seq(Event) /\ consumed \subseteq 1 .. Len(received)
        /\ satisfied \subseteq 1 .. Len(def.filters) /\ stopped \subseteq 1 .. Len(def.until)
    BY DEF TypeOK
  <2> QED
    BY <2>1, <2>2
<1>1. /\ Cardinality(satisfied) \in Nat /\ Cardinality(satisfied') \in Nat
      /\ Cardinality(satisfied) <= Cardinality(satisfied')
      /\ hits # {} => Cardinality(satisfied) + 1 <= Cardinality(satisfied')
  <2>1. /\ hits \subseteq 1 .. Len(def.filters) /\ satisfied \cap hits = {}
        /\ satisfied' = satisfied \cup hits
    BY DEF Takes
  <2> QED
    BY <1>0, <2>1, CardinalityGrows
<1>2. /\ Cardinality(stopped) \in Nat /\ Cardinality(stopped') \in Nat
      /\ Cardinality(stopped) <= Cardinality(stopped')
      /\ tops # {} => Cardinality(stopped) + 1 <= Cardinality(stopped')
  <2>1. /\ tops \subseteq 1 .. Len(def.until) /\ stopped \cap tops = {}
        /\ stopped' = stopped \cup tops
    BY DEF Takes
  <2> QED
    BY <1>0, <2>1, CardinalityGrows
<1>3. IsFiniteSet(consumed) /\ Cardinality(consumed) \in Nat
  <2>1. IsFiniteSet(1 .. Len(received))
    BY <1>0, FS_Interval
  <2>2. IsFiniteSet(consumed)
    BY <1>0, <2>1, FS_Subset
  <2> QED
    BY <2>2, FS_CardinalityType
<1>4. Cardinality(consumed) <= Cardinality(satisfied) + Cardinality(stopped)
  BY DEF NothingInVain
<1>5. CASE hits = {} /\ tops = {}
  <2>1. consumed' = consumed
    BY <1>5 DEF Takes
  <2> QED
    BY <1>1, <1>2, <1>3, <1>4, <2>1
<1>6. CASE hits # {} \/ tops # {}
  <2>1. consumed' = consumed \cup {Len(received) + 1}
    BY <1>6 DEF Takes
  <2>2. Cardinality(consumed \cup {Len(received) + 1}) <= Cardinality(consumed) + 1
    <3>1. Cardinality(consumed \cup {Len(received) + 1}) =
            IF Len(received) + 1 \in consumed THEN Cardinality(consumed) ELSE Cardinality(consumed) + 1
      BY <1>3, FS_AddElement
    <3> QED
      BY <1>3, <3>1
  <2>3. Cardinality(consumed \cup {Len(received) + 1}) \in Nat
    BY <1>3, FS_AddElement, FS_CardinalityType
  <2> QED
    BY <1>1, <1>2, <1>3, <1>4, <1>6, <2>1, <2>2, <2>3
<1> QED
  BY <1>5, <1>6

\* The first event that fits is consumed, and no event behind it.
LEMMA TakesFirst ==
    ASSUME TypeOK, FirstInv, NEW e, NEW hits, NEW tops, NEW accepted,
           Takes(e, hits, tops, accepted)
    PROVE  FirstInv'
<1> SUFFICES ASSUME def.strategy = "one", ~ HasUntil(def)
             PROVE  /\ consumed' \in {{}, {Len(received')}}
                    /\ \A n \in 1 .. Len(received') : n \in consumed' <=> Fits(n)'
  BY DEF FirstInv, Takes, HasUntil
<1>0. received \in Seq(Event)
  BY DEF TypeOK
<1>1. consumed = {}
  BY DEF Takes, Complete, BaseSatisfied, HasUntil
<1>2. def.until = <<>>
  BY DEF HasUntil
<1>3. /\ group' = group /\ tops = {} /\ def' = def /\ received' = Append(received, e)
      /\ consumed' = IF accepted THEN {Len(received) + 1} ELSE {}
      /\ accepted <=> \/ def.filters = <<>>
                      \/ \E i \in 1 .. Len(def.filters) : Matches(def.filters[i], e, group)
  BY <1>1, <1>2 DEF Takes
<1>4. Len(received') = Len(received) + 1 /\ Len(received) \in Nat /\ received'[Len(received) + 1] = e
  BY <1>0, <1>3
<1>5. accepted <=> \/ def'.filters = <<>>
                   \/ \E i \in 1 .. Len(def'.filters) :
                         Matches(def'.filters[i], received'[Len(received) + 1], group')
  BY <1>3, <1>4
<1>6. ASSUME NEW n \in 1 .. Len(received) PROVE ~ Fits(n)' /\ n \notin consumed'
  <2>1. ~ Fits(n)
    BY <1>1 DEF FirstInv
  <2>2. received'[n] = received[n]
    BY <1>0, <1>3
  <2> QED
    BY <1>3, <1>4, <2>1, <2>2 DEF Fits
<1>7. consumed' \in {{}, {Len(received')}}
  BY <1>3, <1>4
<1>8. ASSUME NEW n \in 1 .. Len(received') PROVE n \in consumed' <=> Fits(n)'
  <2>1. CASE n = Len(received')
    <3>1. n = Len(received) + 1
      BY <1>4, <2>1
    <3>2. accepted <=> Fits(n)'
      BY <1>5, <3>1 DEF Fits
    <3> QED
      BY <1>3, <3>1, <3>2
  <2>2. CASE n \in 1 .. Len(received)
    BY <1>6, <2>2
  <2> QED
    BY <1>4, <2>1, <2>2
<1> QED
  BY <1>7, <1>8

\* Only a task that gathers takes events, and it is not complete.
LEMMA TakesDone ==
    ASSUME TypeOK, DoneInv, NEW e, NEW hits, NEW tops, NEW accepted,
           Takes(e, hits, tops, accepted)
    PROVE  DoneInv'
<1>1. pc' = "gather"
  BY DEF Takes
<1>2. enough' => def'.enough > 0 \/ stopped' = 1 .. Len(def'.until)
  BY DEF Takes, DoneInv
<1> QED
  BY <1>1, <1>2 DEF DoneInv

LEMMA InitListen == Init => ListenInv
<1> SUFFICES ASSUME Init PROVE ListenInv
  OBVIOUS
<1>1. TypeOK
  <2>1. group \in Groups /\ published \in 0 .. MaxPublished
    BY ListenAssumption DEF Init, Groups
  <2>2. channel \in Seq(Event) /\ received \in Seq(Event)
    BY DEF Init
  <2> QED
    BY <2>1, <2>2 DEF Init, TypeOK
<1>2. NothingInVain
  BY FS_EmptySet DEF Init, NothingInVain
<1> QED
  BY <1>1, <1>2 DEF Init, ListenInv, SettledInv, DoneInv, FirstInv

LEMMA NextListen == ListenInv /\ [Next]_vars => ListenInv'
<1> SUFFICES ASSUME ListenInv, [Next]_vars PROVE ListenInv'
  OBVIOUS
<1> USE DEF ListenInv
<1>1. CASE Receive
  BY <1>1, ReceiveTakes, TakesType, TakesSettled, TakesInVain, TakesFirst, TakesDone
<1>2. ASSUME Leaves, TypeOK', DoneInv' PROVE ListenInv'
  BY <1>2 DEF Leaves, SettledInv, NothingInVain, FirstInv, Fits
<1>3. CASE Subscribe \/ Drop \/ Close \/ UNCHANGED vars
  <2>1. Leaves /\ UNCHANGED <<channel, published>>
    BY <1>3 DEF Subscribe, Drop, Close, vars, Leaves
  <2>2. pc' \in {"start", "gather", "done", "dropped"} /\ closed' \in BOOLEAN
    BY <1>3 DEF Subscribe, Drop, Close, vars, TypeOK
  <2>3. TypeOK'
    BY <2>1, <2>2 DEF TypeOK, Leaves
  <2>4. pc' = "done" /\ ~ closed' => pc = "done" /\ ~ closed
    BY <1>3 DEF Subscribe, Drop, Close, vars
  <2>5. Complete => Complete'
    BY <2>1 DEF Leaves, Complete, BaseSatisfied
  <2>6. DoneInv'
    BY <2>1, <2>4, <2>5 DEF DoneInv, Leaves
  <2> QED
    BY <1>2, <2>1, <2>3, <2>6
<1>4. CASE Finish
  <2>1. Leaves /\ TypeOK'
    BY <1>4 DEF Finish, Leaves, TypeOK
  <2>2. DoneInv'
    BY <1>4 DEF Finish, DoneInv, Complete, BaseSatisfied
  <2> QED
    BY <1>2, <2>1, <2>2
<1>5. CASE \E e \in Event : Publish(e)
  <2>1. PICK e \in Event : Publish(e)
    BY <1>5
  <2>2. Leaves
    BY <2>1 DEF Publish, Leaves
  <2>3. channel' \in Seq(Event)
    BY <2>1 DEF Publish, TypeOK
  <2>4. published' \in 0 .. MaxPublished
    BY <2>1, ListenAssumption DEF Publish, TypeOK
  <2>5. TypeOK'
    BY <2>1, <2>3, <2>4 DEF Publish, TypeOK
  <2>6. DoneInv'
    BY <2>1 DEF Publish, DoneInv, Complete, BaseSatisfied
  <2> QED
    BY <1>2, <2>2, <2>5, <2>6
<1> QED
  BY <1>1, <1>3, <1>4, <1>5 DEF Next

-----------------------------------------------------------------------------
(* The theorems.                                                           *)

\* Every listen task keeps its types, whatever it receives.
THEOREM TypeCorrect == Spec => []TypeOK
<1>1. ListenInv => TypeOK
  BY DEF ListenInv
<1> QED
  BY <1>1, InitListen, NextListen, PTL DEF Spec

\* A finished `all` has an event for every filter, and one group of correlation
\* values explains them all (gather_listen_events, filter_matches).
THEOREM OneGroupFound == Spec => []OneGroup
<1>1. ListenInv => OneGroup
  <2> SUFFICES ASSUME ListenInv, pc = "done", ~ closed, def.strategy = "all"
               PROVE  \E g \in [Key -> Value] :
                        /\ \A i \in 1 .. Len(def.filters) : Evidence(def.filters[i], g)
                        /\ def.enough = 0 =>
                              \A i \in 1 .. Len(def.until) : Evidence(def.until[i], g)
    BY DEF OneGroup
  <2>1. PICK v : v \in Value
    BY ListenAssumption
  <2> DEFINE g == [k \in Key |-> IF group[k] = Unset THEN v ELSE group[k]]
  <2>2. g \in [Key -> Value]
    BY <2>1 DEF ListenInv, TypeOK, Groups
  <2>3. ASSUME NEW f \in Filters, NEW n \in consumed, Settled(f, received[n], group)
        PROVE  Evidence(f, g)
    <3>1. received[n] \in Event /\ f.keys \subseteq Key
      BY DEF ListenInv, TypeOK, Filters
    <3>2. \A k \in f.keys : Wanted(f, group, k) = received[n].key[k] /\ received[n].key[k] # Unset
      BY <2>3, <3>1, EventKeys DEF Settled
    <3>3. \A k \in f.keys : Wanted(f, g, k) = received[n].key[k]
      BY <3>1, <3>2 DEF Wanted
    <3> QED
      BY <2>3, <3>3 DEF Evidence, Matches, Settled
  <2>4. def.filters \in Seq(Filters) /\ def.until \in Seq(Filters) /\ def.enough \in Nat
    BY TaskParts DEF ListenInv
  <2>5. satisfied = 1 .. Len(def.filters) /\ (HasUntil(def) => enough)
    BY DEF ListenInv, DoneInv, Complete, BaseSatisfied
  <2>6. ASSUME NEW i \in 1 .. Len(def.filters) PROVE Evidence(def.filters[i], g)
    <3>1. def.filters[i] \in Filters
      BY <2>4
    <3> QED
      BY <2>3, <2>5, <3>1 DEF ListenInv, SettledInv
  <2>7. ASSUME def.enough = 0, NEW i \in 1 .. Len(def.until) PROVE Evidence(def.until[i], g)
    <3>1. def.until[i] \in Filters /\ def.until # <<>>
      BY <2>4
    <3>2. i \in stopped
      BY <2>5, <2>7, <3>1 DEF ListenInv, DoneInv, HasUntil
    <3> QED
      BY <2>3, <3>1, <3>2 DEF ListenInv, SettledInv
  <2> HIDE DEF g
  <2> QED
    BY <2>2, <2>6, <2>7
<1> QED
  BY <1>1, InitListen, NextListen, PTL DEF Spec

\* An `all` consumes no more events than it has filters (gather_listen_events).
THEOREM NoneInVain == Spec => []NothingInVain
<1>1. ListenInv => NothingInVain
  BY DEF ListenInv
<1> QED
  BY <1>1, InitListen, NextListen, PTL DEF Spec

\* A `one` or `any` takes the first event that matches (gather_listen_events).
THEOREM FirstTaken == Spec => []FirstMatch
<1>1. ListenInv => FirstMatch
  <2> SUFFICES ASSUME ListenInv, pc = "done", ~ closed, def.strategy = "one", ~ HasUntil(def)
               PROVE  /\ consumed = {Len(received)} /\ Fits(Len(received))
                      /\ \A n \in 1 .. Len(received) - 1 : ~ Fits(n)
    BY DEF FirstMatch, Fits
  <2>1. consumed # {}
    BY DEF ListenInv, DoneInv, Complete, BaseSatisfied
  <2>2. /\ consumed = {Len(received)}
        /\ \A n \in 1 .. Len(received) : n \in consumed <=> Fits(n)
    BY <2>1 DEF ListenInv, FirstInv
  <2>3. consumed \subseteq 1 .. Len(received) /\ Len(received) \in Nat
    BY DEF ListenInv, TypeOK
  <2> QED
    BY <2>2, <2>3
<1> QED
  BY <1>1, InitListen, NextListen, PTL DEF Spec

\* Neither a correlation value nor a match is lost while a task waits.
THEOREM AgreementStays == Spec => AgreementKept
<1>1. ListenInv /\ [Next]_vars =>
        [/\ \A k \in Key : group[k] # Unset => group'[k] = group[k]
         /\ satisfied \subseteq satisfied'
         /\ stopped \subseteq stopped']_vars
  <2> SUFFICES ASSUME ListenInv, [Next]_vars
               PROVE  /\ \A k \in Key : group[k] # Unset => group'[k] = group[k]
                      /\ satisfied \subseteq satisfied'
                      /\ stopped \subseteq stopped'
    OBVIOUS
  <2>1. CASE Receive
    <3>1. PICK e, hits, tops, accepted : Takes(e, hits, tops, accepted)
      BY <2>1, ReceiveTakes DEF ListenInv
    <3> QED
      BY <3>1 DEF Takes, Extends
  <2>2. CASE Leaves
    BY <2>2 DEF Leaves
  <2> QED
    BY <2>1, <2>2 DEF Next, Subscribe, Finish, Drop, Close, Publish, vars, Leaves
<1> QED
  BY <1>1, InitListen, NextListen, PTL DEF Spec, AgreementKept

=============================================================================
