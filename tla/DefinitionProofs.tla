-------------------------- MODULE DefinitionProofs --------------------------
(* Proofs about a definition before it runs.  Catalogs: for every set of    *)
(* catalogs, however they declare each other, a resolved definition has     *)
(* imported what it can reach.  ScopeFlow: for every scope, the tasks that  *)
(* validation reports as unreachable are those that the graph does not      *)
(* reach, and none that the engine does.                                    *)
EXTENDS Catalogs, ScopeFlow, FiniteSetTheorems, SequenceTheorems, WellFoundedInduction, TLAPS

-----------------------------------------------------------------------------
(* Sequences and their elements.                                            *)

LEMMA RangeConcat ==
    ASSUME NEW S, NEW s \in Seq(S), NEW t \in Seq(S)
    PROVE  s \o t \in Seq(S) /\ RangeOf(s \o t) = RangeOf(s) \cup RangeOf(t)
<1>1. s \o t \in Seq(S) /\ Len(s \o t) = Len(s) + Len(t) /\ Len(s) \in Nat /\ Len(t) \in Nat
  OBVIOUS
<1>2. ASSUME NEW i \in 1 .. Len(s \o t) PROVE (s \o t)[i] \in RangeOf(s) \cup RangeOf(t)
  <2>1. CASE i <= Len(s)
    <3>1. i \in 1 .. Len(s) /\ (s \o t)[i] = s[i] BY <1>1, <2>1
    <3> QED BY <3>1 DEF RangeOf
  <2>2. CASE i > Len(s)
    <3>1. i - Len(s) \in 1 .. Len(t) /\ (s \o t)[i] = t[i - Len(s)] BY <1>1, <2>2
    <3> QED BY <3>1 DEF RangeOf
  <2> QED BY <1>1, <2>1, <2>2
<1>3. ASSUME NEW i \in 1 .. Len(s) PROVE s[i] \in RangeOf(s \o t)
  <2>1. i \in 1 .. Len(s \o t) /\ (s \o t)[i] = s[i] BY <1>1
  <2> QED BY <2>1 DEF RangeOf
<1>4. ASSUME NEW i \in 1 .. Len(t) PROVE t[i] \in RangeOf(s \o t)
  <2>1. Len(s) + i \in 1 .. Len(s \o t) /\ (s \o t)[Len(s) + i] = t[i] BY <1>1
  <2> QED BY <2>1 DEF RangeOf
<1>5. RangeOf(s \o t) \subseteq RangeOf(s) \cup RangeOf(t)
  BY <1>2 DEF RangeOf
<1>6. RangeOf(s) \subseteq RangeOf(s \o t) /\ RangeOf(t) \subseteq RangeOf(s \o t)
  BY <1>3, <1>4 DEF RangeOf
<1> QED BY <1>1, <1>5, <1>6

LEMMA RangeTop ==
    ASSUME NEW S, queue \in Seq(S), queue # <<>>
    PROVE  /\ Top \in S /\ Rest \in Seq(S)
           /\ RangeOf(queue) = RangeOf(Rest) \cup {Top}
<1>1. Len(queue) \in Nat /\ Len(queue) > 0
  OBVIOUS
<1>2. Rest \in Seq(S) /\ Len(Rest) = Len(queue) - 1 /\ \A i \in 1 .. Len(Rest) : Rest[i] = queue[i]
  <2>1. \A i \in 1 .. Len(queue) - 1 : queue[i] \in S
    BY <1>1
  <2>2. Rest \in Seq(S) /\ \A i \in 1 .. Len(queue) - 1 - 1 + 1 : Rest[i] = queue[1 + i - 1]
    BY <1>1, <2>1, SubSeqProperties DEF Rest
  <2>3. Len(Rest) = Len(queue) - 1
    <3>1. Len(Rest) = IF 1 <= Len(queue) - 1 THEN Len(queue) - 1 - 1 + 1 ELSE 0
      BY <1>1, <2>1, SubSeqProperties DEF Rest
    <3>2. ASSUME NEW n \in Nat, n > 0, NEW k, k = IF 1 <= n - 1 THEN n - 1 - 1 + 1 ELSE 0 PROVE k = n - 1
      BY <3>2
    <3> QED BY <1>1, <3>1, <3>2
  <2>4. ASSUME NEW i \in 1 .. Len(Rest) PROVE Rest[i] = queue[i]
    <3>1. i \in 1 .. Len(queue) - 1 - 1 + 1 /\ 1 + i - 1 = i
      BY <1>1, <2>3
    <3> QED BY <2>2, <3>1
  <2> QED BY <2>2, <2>3, <2>4
<1>3. Top \in S
  BY <1>1 DEF Top
<1>4. ASSUME NEW i \in 1 .. Len(queue) PROVE queue[i] \in RangeOf(Rest) \cup {Top}
  <2>1. CASE i = Len(queue) BY <2>1 DEF Top
  <2>2. CASE i # Len(queue)
    <3>1. i \in 1 .. Len(Rest) /\ Rest[i] = queue[i] BY <1>1, <1>2, <2>2
    <3> QED BY <3>1 DEF RangeOf
  <2> QED BY <2>1, <2>2
<1>5. RangeOf(Rest) \subseteq RangeOf(queue)
  <2>1. 1 .. Len(Rest) \subseteq 1 .. Len(queue) BY <1>1, <1>2
  <2> QED BY <1>2, <2>1 DEF RangeOf
<1>6. Top \in RangeOf(queue)
  BY <1>1 DEF Top, RangeOf
<1>7. RangeOf(queue) \subseteq RangeOf(Rest) \cup {Top}
  BY <1>4 DEF RangeOf
<1> QED BY <1>2, <1>3, <1>5, <1>6, <1>7

\* No element twice.
Distinct(s) == \A i, j \in 1 .. Len(s) : s[i] = s[j] => i = j

LEMMA RangeAppend ==
    ASSUME NEW S, NEW s \in Seq(S), NEW e \in S
    PROVE  /\ Append(s, e) \in Seq(S) /\ RangeOf(Append(s, e)) = RangeOf(s) \cup {e}
           /\ Distinct(s) /\ e \notin RangeOf(s) => Distinct(Append(s, e))
<1> DEFINE t == Append(s, e)
<1>1. t \in Seq(S) /\ Len(t) = Len(s) + 1 /\ Len(s) \in Nat
  OBVIOUS
<1>2. t[Len(s) + 1] = e /\ \A i \in 1 .. Len(s) : t[i] = s[i]
  OBVIOUS
<1>3. \A i \in 1 .. Len(t) : i \in 1 .. Len(s) \/ i = Len(s) + 1
  BY <1>1
<1>4. \A i \in 1 .. Len(s) : i \in 1 .. Len(t) /\ i # Len(s) + 1
  BY <1>1
<1>5. Len(s) + 1 \in 1 .. Len(t)
  BY <1>1
<1> HIDE DEF t
<1>6. RangeOf(t) = RangeOf(s) \cup {e}
  BY <1>2, <1>3, <1>4, <1>5 DEF RangeOf
<1>7. ASSUME Distinct(s), e \notin RangeOf(s) PROVE Distinct(t)
  <2> SUFFICES ASSUME NEW i \in 1 .. Len(t), NEW j \in 1 .. Len(t), t[i] = t[j] PROVE i = j
    BY DEF Distinct
  <2> QED BY <1>2, <1>3, <1>7 DEF Distinct, RangeOf
<1> QED BY <1>1, <1>6, <1>7 DEF t

\* An order of a set of endpoints is a sequence of just these.
LEMMA OrderRange ==
    ASSUME EndpointsFit, NEW S \in SUBSET Endpoints, NEW s \in Orders(S)
    PROVE  s \in Seq(Endpoints) /\ RangeOf(s) = S
<1>1. IsFiniteSet(S)
  BY FS_Subset DEF EndpointsFit
<1>2. Cardinality(S) \in Nat
  BY <1>1, FS_CardinalityType
<1>3. s \in [1 .. Cardinality(S) -> S] /\ RangeOf(s) = S
  BY DEF Orders
<1> QED BY <1>2, <1>3

-----------------------------------------------------------------------------
(* The invariant.                                                           *)

\* The types of what the proof is about.
CatalogType ==
    /\ web \in [Endpoints -> Catalog]
    /\ declared \in [gives : SUBSET Components, catalogs : SUBSET Endpoints]
    /\ queue \in Seq(Endpoints)
    /\ visited \in SUBSET Endpoints
    /\ merged \in [Components -> Seq(Endpoints \cup {Own})]

Seen == visited \cup RangeOf(queue)

\* Whatever is declared by what was looked at is seen: imported, or to be imported;
\* and what was looked at was there, and allowed.
CoverInv ==
    /\ declared.catalogs \subseteq Seen
    /\ \A e \in visited : web[e].catalogs \subseteq Seen /\ web[e].found /\ e \notin denied

\* No more is seen than can be reached.
LeastInv == \A S \in SUBSET Endpoints : Closed(S) => Seen \subseteq S

Givers(c) == {e \in visited : c \in web[e].gives} \cup (IF c \in declared.gives THEN {Own} ELSE {})

\* A component has each of its origins once.
MergedInv == \A c \in Components : RangeOf(merged[c]) = Givers(c) /\ Distinct(merged[c])

CatalogInv ==
    /\ CatalogType
    /\ result # "failed" => CoverInv /\ LeastInv /\ MergedInv
    /\ result = "resolved" => queue = <<>>

\* The definition's own use stands at the beginning.
LEMMA InitCatalogs == EndpointsFit /\ Init => CatalogInv
<1> SUFFICES ASSUME EndpointsFit, Init PROVE CatalogInv
  OBVIOUS
<1>1. declared.catalogs \in SUBSET Endpoints /\ visited = {} /\ result = "none"
  BY DEF Init
<1>2. queue \in Seq(Endpoints) /\ RangeOf(queue) = declared.catalogs
  BY <1>1, OrderRange DEF Init
<1>3. ASSUME NEW c \in Components
      PROVE  /\ merged[c] \in Seq(Endpoints \cup {Own})
             /\ RangeOf(merged[c]) = Givers(c) /\ Distinct(merged[c])
  <2>1. CASE c \in declared.gives
    <3>1. merged[c] = <<Own>> BY <2>1 DEF Init
    <3>2. Len(<<Own>>) = 1 /\ <<Own>>[1] = Own OBVIOUS
    <3> QED BY <1>1, <2>1, <3>1, <3>2 DEF Givers, RangeOf, Distinct
  <2>2. CASE c \notin declared.gives
    <3>1. merged[c] = <<>> BY <2>2 DEF Init
    <3> QED BY <1>1, <2>2, <3>1 DEF Givers, RangeOf, Distinct
  <2> QED BY <2>1, <2>2
<1>4. merged \in [Components -> Seq(Endpoints \cup {Own})]
  <2>1. merged = [c \in Components |-> IF c \in declared.gives THEN <<Own>> ELSE <<>>]
    BY DEF Init
  <2> QED BY <2>1, <1>3
<1> QED
  BY <1>1, <1>2, <1>3, <1>4 DEF Init, CatalogInv, CatalogType, CoverInv, LeastInv, MergedInv, Seen, Closed

\* An endpoint that was looked at before leaves the queue, and is still seen.
LEMMA SkipKeeps == ASSUME CatalogInv, Skip PROVE CatalogInv'
<1>1. Rest \in Seq(Endpoints) /\ RangeOf(queue) = RangeOf(Rest) \cup {Top}
  BY RangeTop DEF CatalogInv, CatalogType, Skip
<1>2. Seen' = Seen
  BY <1>1 DEF Seen, Skip
<1> QED
  BY <1>1, <1>2 DEF CatalogInv, CatalogType, CoverInv, LeastInv, MergedInv, Skip, Resolving, Givers, Closed

\* An import sees what its catalog declares, which every closed set has.
LEMMA ImportKeeps == ASSUME EndpointsFit, CatalogInv, Import PROVE CatalogInv'
<1>0. CatalogType /\ CoverInv /\ LeastInv /\ MergedInv /\ result = "none" /\ result' = "none"
  BY DEF CatalogInv, Import, Resolving
<1>1. Top \in Endpoints /\ Rest \in Seq(Endpoints) /\ RangeOf(queue) = RangeOf(Rest) \cup {Top}
  BY <1>0, RangeTop DEF CatalogType, Import
<1>2. web[Top].catalogs \in SUBSET Endpoints /\ web[Top].gives \in SUBSET Components
  BY <1>0, <1>1 DEF CatalogType, Catalog
<1>3. PICK nested \in Orders(web[Top].catalogs) : queue' = Rest \o nested
  BY DEF Import
<1>4. nested \in Seq(Endpoints) /\ RangeOf(nested) = web[Top].catalogs
  BY <1>2, <1>3, OrderRange
<1>5. queue' \in Seq(Endpoints) /\ RangeOf(queue)' = RangeOf(Rest) \cup web[Top].catalogs
  <2>1. Rest \o nested \in Seq(Endpoints) /\ RangeOf(Rest \o nested) = RangeOf(Rest) \cup RangeOf(nested)
    BY <1>1, <1>4, RangeConcat
  <2>2. RangeOf(queue)' = RangeOf(queue')
    BY DEF RangeOf
  <2> QED BY <1>3, <1>4, <2>1, <2>2
<1>6. visited' = visited \cup {Top} /\ web' = web /\ declared' = declared /\ denied' = denied
  BY DEF Import
<1>7. Seen' = Seen \cup web[Top].catalogs
  BY <1>1, <1>5, <1>6 DEF Seen
<1>8. CoverInv'
  <2>1. web[Top].found /\ Top \notin denied
    BY DEF Import
  <2> QED BY <1>0, <1>6, <1>7, <2>1 DEF CoverInv
<1>9. LeastInv'
  <2> SUFFICES ASSUME NEW S \in SUBSET Endpoints, Closed(S)' PROVE Seen' \subseteq S
    BY DEF LeastInv
  <2>1. Closed(S)
    BY <1>6 DEF Closed
  <2>2. Seen \subseteq S /\ Top \in Seen
    BY <1>0, <1>1, <2>1 DEF LeastInv, Seen
  <2> QED BY <1>7, <2>1, <2>2 DEF Closed
<1>10. ASSUME NEW c \in Components
       PROVE  /\ merged'[c] \in Seq(Endpoints \cup {Own})
              /\ RangeOf(merged'[c]) = Givers(c)' /\ Distinct(merged'[c])
  <2>1. /\ merged[c] \in Seq(Endpoints \cup {Own}) /\ RangeOf(merged[c]) = Givers(c) /\ Distinct(merged[c])
        /\ merged'[c] = IF c \in web[Top].gives THEN Append(merged[c], Top) ELSE merged[c]
    BY <1>0 DEF CatalogType, MergedInv, Import, merge_components
  <2>2. Top \notin Givers(c)
    BY <1>1 DEF Givers, Import, EndpointsFit
  <2>3. Givers(c)' = Givers(c) \cup (IF c \in web[Top].gives THEN {Top} ELSE {})
    BY <1>6 DEF Givers
  <2>4. CASE c \in web[Top].gives
    BY <1>1, <2>1, <2>2, <2>3, <2>4, RangeAppend
  <2>5. CASE c \notin web[Top].gives
    BY <2>1, <2>3, <2>5
  <2> QED BY <2>4, <2>5
<1>11. merged' \in [Components -> Seq(Endpoints \cup {Own})]
  <2>1. merged' = [c \in Components |-> IF c \in web[Top].gives THEN Append(merged[c], Top) ELSE merged[c]]
    BY DEF Import, merge_components
  <2> QED BY <2>1, <1>10
<1>12. MergedInv'
  <2> SUFFICES ASSUME NEW c \in Components
               PROVE  (RangeOf(merged[c]) = Givers(c) /\ Distinct(merged[c]))'
    BY DEF MergedInv
  <2> QED BY <1>10 DEF RangeOf, Distinct
<1>13. CatalogType'
  BY <1>0, <1>1, <1>5, <1>6, <1>11 DEF CatalogType
<1> QED
  BY <1>0, <1>8, <1>9, <1>12, <1>13 DEF CatalogInv

\* One step of the proof per action.
LEMMA NextCatalogs == EndpointsFit /\ CatalogInv /\ [Next]_vars => CatalogInv'
<1> SUFFICES ASSUME EndpointsFit, CatalogInv, [Next]_vars PROVE CatalogInv'
  OBVIOUS
<1> USE DEF CatalogInv, CatalogType, CoverInv, LeastInv, MergedInv, Seen, Givers, Closed
<1>1. CASE Unchanged BY <1>1 DEF Unchanged
<1>2. CASE Skip BY <1>2, SkipKeeps
<1>3. CASE Import BY <1>3, ImportKeeps
<1>4. CASE Fail
  <2>1. Top \in Endpoints
    BY <1>4, RangeTop DEF Fail
  <2> QED BY <1>4, <2>1 DEF Fail
<1>5. CASE Finish BY <1>5 DEF Finish, Resolving
<1>6. CASE UNCHANGED vars BY <1>6 DEF vars
<1> QED BY <1>1, <1>2, <1>3, <1>4, <1>5, <1>6 DEF Next

\* What the invariant says of a resolution that succeeded.
LEMMA InvImported == CatalogInv => EverythingImported
<1> SUFFICES ASSUME CatalogInv, result = "resolved" PROVE EverythingImported
  BY DEF EverythingImported
<1>1. CoverInv /\ LeastInv /\ MergedInv /\ queue = <<>>
  BY DEF CatalogInv
<1>2. Seen = visited
  BY <1>1 DEF Seen, RangeOf
<1>3. Closed(visited)
  BY <1>1, <1>2 DEF CoverInv, Closed
<1>4. \A S \in SUBSET Endpoints : Closed(S) => visited \subseteq S
  BY <1>1, <1>2 DEF LeastInv
<1>5. visited \cap denied = {} /\ \A e \in visited : web[e].found
  BY <1>1 DEF CoverInv
<1> QED BY <1>1, <1>3, <1>4, <1>5 DEF EverythingImported, MergedInv, Givers, Distinct

\* Whatever catalogs declare each other, a definition that is resolved has all of
\* what its catalogs give, and nothing else (resolve_definition).
THEOREM AllImported == ASSUME EndpointsFit PROVE Spec => []EverythingImported
  BY InvImported, InitCatalogs, NextCatalogs, PTL DEF Spec

-----------------------------------------------------------------------------
(* The search for reachable tasks comes to an end.                          *)

\* Induction over the rounds, by the least counterexample.
LEMMA LeastNat ==
    ASSUME NEW T, T \subseteq Nat, T # {}
    PROVE  \E n \in T : \A m \in T : n <= m
<1>1. PICK n \in T : \A m \in T : <<m, n>> \notin OpToRel(<, Nat)
  BY NatLessThanWellFounded, WFMin, Zenon
<1>2. ASSUME NEW m \in T PROVE n <= m
  <2>1. m \in Nat /\ n \in Nat
    OBVIOUS
  <2>2. ~ (m < n)
    BY <1>1, <2>1 DEF OpToRel
  <2> QED
    BY <2>1, <2>2
<1> QED
  BY <1>2

\* The positions found behind each of n rounds.
Search(s, f, n) == f = [k \in 0 .. n |-> IF k = 0 THEN {1} ELSE Grow(s, f[k - 1])]

\* There is a search of any length.
LEMMA SearchExists ==
    ASSUME NEW s
    PROVE  \A n \in Nat : \E f : Search(s, f, n)
<1> DEFINE T == {n \in Nat : ~ \E f : Search(s, f, n)}
<1>1. SUFFICES ASSUME T # {} PROVE FALSE
  OBVIOUS
<1>2. PICK n \in T : \A m \in T : n <= m
  BY <1>1, LeastNat
<1>3. CASE n = 0
  <2>1. Search(s, [k \in 0 .. 0 |-> {1}], 0)
    BY DEF Search
  <2> QED
    BY <1>3, <2>1
<1>4. CASE n # 0
  <2>1. n - 1 \in Nat /\ n - 1 \notin T
    BY <1>2, <1>4
  <2>2. PICK f : Search(s, f, n - 1)
    BY <2>1
  <2> DEFINE g == [k \in 0 .. n |-> IF k = n THEN Grow(s, f[n - 1]) ELSE f[k]]
  <2>3. ASSUME NEW k \in 0 .. n
        PROVE  g[k] = IF k = 0 THEN {1} ELSE Grow(s, g[k - 1])
    <3>1. CASE k = n
      <4>1. g[k - 1] = f[n - 1] /\ k # 0
        BY <1>4, <2>1, <3>1
      <4> QED
        BY <3>1, <4>1
    <3>2. CASE k # n
      <4>1. k \in 0 .. (n - 1) /\ g[k] = f[k] /\ (k # 0 => k - 1 \in 0 .. n /\ k - 1 # n /\ g[k - 1] = f[k - 1])
        BY <2>1, <3>2
      <4> QED
        BY <2>2, <4>1 DEF Search
    <3> QED
      BY <3>1, <3>2
  <2>4. Search(s, g, n)
    BY <2>3 DEF Search
  <2> QED
    BY <2>4
<1> QED
  BY <1>3, <1>4

\* Reachable is what one of them has in the end.
LEMMA ReachableUnfolds ==
    ASSUME NEW s, Len(s) \in Nat
    PROVE  \E f : Search(s, f, Len(s)) /\ Reachable(s) = f[Len(s)]
<1> DEFINE f == CHOOSE f : Search(s, f, Len(s))
<1>1. Search(s, f, Len(s))
  BY SearchExists
<1>2. Reachable(s) = f[Len(s)]
  BY DEF Reachable, Search
<1> QED
  BY <1>1, <1>2

\* A round takes no position away, and nothing from outside of the scope.
LEMMA GrowKeeps ==
    ASSUME NEW s, NEW found, found \subseteq DOMAIN s
    PROVE  found \subseteq Grow(s, found) /\ Grow(s, found) \subseteq DOMAIN s
  BY DEF Grow

\* A set of positions of n or more has more than n, or nothing, to find.
LEMMA OneMore ==
    ASSUME NEW N \in Nat, NEW S, NEW T, S \subseteq T, T \subseteq 1 .. N, S # T,
           NEW n \in Nat, Cardinality(S) >= n
    PROVE  Cardinality(T) >= n + 1
<1>1. IsFiniteSet(1 .. N)
  BY FS_Interval
<1>2. IsFiniteSet(T)
  BY <1>1, FS_Subset
<1>3. IsFiniteSet(S) /\ Cardinality(S) <= Cardinality(T) /\ Cardinality(S) # Cardinality(T)
  BY <1>2, FS_Subset
<1>4. Cardinality(S) \in Nat /\ Cardinality(T) \in Nat
  BY <1>2, <1>3, FS_CardinalityType
<1> QED
  BY <1>3, <1>4

\* Behind n rounds there are more than n positions, or all there are.
LEMMA SearchFills ==
    ASSUME NEW s, NEW N \in Nat, N # 0, DOMAIN s = 1 .. N, NEW f, Search(s, f, N)
    PROVE  \A n \in 0 .. N : /\ f[n] \subseteq DOMAIN s /\ 1 \in f[n]
                             /\ Cardinality(f[n]) >= n + 1 \/ Grow(s, f[n]) = f[n]
<1> DEFINE Filled(n) == /\ f[n] \subseteq DOMAIN s /\ 1 \in f[n]
                        /\ Cardinality(f[n]) >= n + 1 \/ Grow(s, f[n]) = f[n]
           T == {n \in 0 .. N : ~ Filled(n)}
<1>0. \A n \in 0 .. N : f[n] = IF n = 0 THEN {1} ELSE Grow(s, f[n - 1])
  BY DEF Search
<1>1. SUFFICES ASSUME T # {} PROVE FALSE
  OBVIOUS
<1>2. PICK n \in T : \A m \in T : n <= m
  <2>1. T \subseteq Nat
    OBVIOUS
  <2> QED
    BY <1>1, <2>1, LeastNat
<1>3. CASE n = 0
  <2>1. f[n] = {1} /\ 1 \in DOMAIN s
    BY <1>0, <1>3
  <2>2. Cardinality({1}) = 1
    BY FS_Singleton
  <2>3. Cardinality(f[n]) >= n + 1
    BY <1>3, <2>1, <2>2
  <2>4. Filled(n)
    BY <2>1, <2>3
  <2> QED
    BY <1>2, <2>4
<1>4. CASE n # 0
  <2>1. n \in 1 .. N /\ n - 1 \in 0 .. N /\ n - 1 \notin T /\ n \in Nat
    BY <1>2, <1>4
  <2> DEFINE before == f[n - 1]
             after  == f[n]
  <2>2. after = Grow(s, before)
    BY <1>0, <1>4, <2>1
  <2>3. /\ before \subseteq DOMAIN s /\ 1 \in before
        /\ Cardinality(before) >= n \/ Grow(s, before) = before
    <3>1. Filled(n - 1)
      BY <2>1
    <3>2. (n - 1) + 1 = n
      BY <2>1
    <3> QED
      BY <3>1, <3>2
  <2> HIDE DEF before, after
  <2>4. before \subseteq after /\ after \subseteq DOMAIN s
    BY <2>2, <2>3, GrowKeeps
  <2>5. Cardinality(after) >= n + 1 \/ Grow(s, after) = after
    <3>1. CASE after = before
      BY <2>2, <3>1
    <3>2. CASE after # before
      <4>1. Cardinality(before) >= n
        BY <2>2, <2>3, <3>2
      <4> QED
        BY <2>1, <2>4, <3>2, <4>1, OneMore
    <3> QED
      BY <3>1, <3>2
  <2>6. Filled(n)
    BY <2>3, <2>4, <2>5 DEF after
  <2> QED
    BY <1>2, <2>6
<1> QED
  BY <1>3, <1>4

\* The entry is reachable, and what an edge leads to from a reachable position.
LEMMA ReachableClosed ==
    ASSUME NEW s, NEW N \in Nat, N # 0, DOMAIN s = 1 .. N, Len(s) = N
    PROVE  /\ Reachable(s) \subseteq DOMAIN s /\ 1 \in Reachable(s)
           /\ Grow(s, Reachable(s)) = Reachable(s)
<1>1. PICK f : Search(s, f, N) /\ Reachable(s) = f[N]
  BY ReachableUnfolds
<1>2. /\ f[N] \subseteq 1 .. N /\ 1 \in f[N]
      /\ Cardinality(f[N]) >= N + 1 \/ Grow(s, f[N]) = f[N]
  BY <1>1, SearchFills
<1>3. Cardinality(f[N]) <= N
  <2>1. IsFiniteSet(1 .. N) /\ Cardinality(1 .. N) = N
    BY FS_Interval
  <2> QED
    BY <1>2, <2>1, FS_Subset
<1>4. ~ (Cardinality(f[N]) >= N + 1)
  <2>1. Cardinality(f[N]) \in Nat
    <3>1. IsFiniteSet(1 .. N)
      BY FS_Interval
    <3>2. IsFiniteSet(f[N])
      BY <1>2, <3>1, FS_Subset
    <3> QED
      BY <3>2, FS_CardinalityType
  <2> QED
    BY <1>3, <2>1
<1> QED
  BY <1>1, <1>2, <1>4

\* ... and nothing else: every set of positions with the entry that no edge leaves
\* has it all.
LEMMA ReachableLeast ==
    ASSUME NEW s, NEW N \in Nat, Len(s) = N,
           NEW C, 1 \in C, Grow(s, C) = C
    PROVE  Reachable(s) \subseteq C
<1>1. PICK f : Search(s, f, N) /\ Reachable(s) = f[N]
  BY ReachableUnfolds
<1>2. \A n \in 0 .. N : f[n] = IF n = 0 THEN {1} ELSE Grow(s, f[n - 1])
  BY <1>1 DEF Search
<1> DEFINE T == {n \in 0 .. N : ~ (f[n] \subseteq C)}
<1>3. T = {}
  <2>1. SUFFICES ASSUME T # {} PROVE FALSE
    OBVIOUS
  <2>2. T \subseteq Nat
    OBVIOUS
  <2>3. PICK n \in T : \A m \in T : n <= m
    BY <2>1, <2>2, LeastNat
  <2>4. n # 0
    BY <1>2, <2>3
  <2>5. n - 1 \in 0 .. N /\ n - 1 \notin T /\ n \in 0 .. N
    BY <2>3, <2>4
  <2>6. f[n - 1] \subseteq C /\ f[n] = Grow(s, f[n - 1])
    BY <1>2, <2>4, <2>5
  <2>7. Grow(s, f[n - 1]) \subseteq Grow(s, C)
    BY <2>6 DEF Grow
  <2> QED
    BY <2>3, <2>6, <2>7
<1> QED
  BY <1>1, <1>3

-----------------------------------------------------------------------------
(* The engine goes where the graph leads.                                   *)

\* Each directive a task may end with is one the graph has: its own or a case's, or
\* "continue" where the graph goes on to the next task.
LEMMA DirectiveDrawn ==
    ASSUME NEW s, NEW i \in DOMAIN s, Sequential(s), NEW d \in Directives(s[i])
    PROVE  add_edge(s, i, d) \subseteq Edges(s, i)
<1> DEFINE t == s[i]
<1>1. ASSUME d \in Explicit(t) PROVE add_edge(s, i, d) \subseteq Edges(s, i)
  BY <1>1 DEF Edges
<1>2. ASSUME d = "continue",
             Explicit(t) = {} \/ t.if \/ (t.kind = "switch" /\ "" \notin Thens(t) /\ t.then = "")
      PROVE  add_edge(s, i, d) \subseteq Edges(s, i)
  BY <1>2 DEF Edges, add_edge
<1>3. PICK c \in (IF t.kind = "switch" THEN task_switch(t) ELSE {""}) \cup (IF t.if THEN {""} ELSE {}) :
        d = IF c = "" THEN Else(t.then) ELSE c
  BY DEF Directives
<1>4. CASE c # ""
  <2>1. t.kind = "switch" /\ c \in task_switch(t)
    BY <1>3, <1>4
  <2>2. PICK k \in DOMAIN t.cases : c = Else(t.cases[k].then)
    BY <1>4, <2>1 DEF task_switch
  <2>3. t.cases[k].then \in Thens(t) /\ t.cases[k].then # ""
    BY <2>1 DEF Thens, Sequential
  <2>4. d \in Explicit(t)
    BY <1>3, <1>4, <2>2, <2>3 DEF Else, Explicit
  <2> QED
    BY <1>1, <2>4
<1>5. CASE c = "" /\ t.then # ""
  <2>1. d \in Explicit(t)
    BY <1>3, <1>5 DEF Else, Explicit
  <2> QED
    BY <1>1, <2>1
<1>6. CASE c = "" /\ t.then = ""
  <2>1. d = "continue"
    BY <1>3, <1>6 DEF Else
  <2>2. CASE t.kind = "switch"
    <3>1. "" \notin Thens(t)
      BY <2>2 DEF Sequential
    <3> QED
      BY <1>2, <1>6, <2>1, <2>2, <3>1
  <2>3. CASE t.kind # "switch"
    <3>1. Thens(t) = {}
      BY <2>3 DEF Sequential
    <3>2. Explicit(t) = {}
      BY <1>6, <3>1 DEF Explicit
    <3> QED
      BY <1>2, <2>1, <3>2
  <2> QED
    BY <2>2, <2>3
<1> QED
  BY <1>4, <1>5, <1>6

\* No task that validation reports as unreachable is one the engine comes to, in
\* whatever order and however often it goes through the scope: for every scope, of
\* any length, that only the switch rules are known of (validate_reachability).
THEOREM NoneReportedOnTheWay ==
    ASSUME NEW Task, NEW s \in Seq(Task), Sequential(s), NEW w, Way(s, w)
    PROVE  \A k \in 1 .. Len(w) : w[k] \notin Unreachable(s)
<1> DEFINE R == Reachable(s)
           T == {k \in 1 .. Len(w) : w[k] \notin R}
<1>1. /\ Len(s) \in Nat /\ DOMAIN s = 1 .. Len(s) /\ Len(w) \in Nat
      /\ \A k \in 1 .. Len(w) : w[k] \in DOMAIN s
  BY DEF Way
<1>2. 1 \in 1 .. Len(w) /\ Len(s) # 0
  <2>1. 1 \in 1 .. Len(w)
    BY <1>1 DEF Way
  <2>2. 1 \in DOMAIN s
    BY <1>1, <2>1 DEF Way
  <2> QED
    BY <1>1, <2>1, <2>2
<1>3. /\ R \subseteq DOMAIN s /\ 1 \in R
      /\ Grow(s, R) = R
  BY <1>1, <1>2, ReachableClosed
<1> HIDE DEF R
<1>4. T = {}
  <2>1. SUFFICES ASSUME T # {} PROVE FALSE
    OBVIOUS
  <2>2. T \subseteq Nat
    BY <1>1
  <2>3. PICK k \in T : \A m \in T : k <= m
    BY <2>1, <2>2, LeastNat
  <2>4. k # 1
    BY <1>3, <2>3 DEF Way
  <2>5. k - 1 \in 1 .. Len(w) - 1 /\ k - 1 \in 1 .. Len(w) /\ k - 1 \notin T /\ (k - 1) + 1 = k
    BY <1>1, <2>3, <2>4
  <2>6. w[k - 1] \in R /\ w[k - 1] \in DOMAIN s
    BY <1>1, <2>5
  <2>7. w[k] \in Goes(s, w[k - 1])
    BY <2>5 DEF Way
  <2>8. PICK d \in Directives(s[w[k - 1]]) : w[k] \in add_edge(s, w[k - 1], d) /\ w[k] \in DOMAIN s
    BY <2>7 DEF Goes
  <2>9. w[k] \in Edges(s, w[k - 1])
    BY <2>6, <2>8, DirectiveDrawn
  <2>10. w[k] \in Grow(s, R)
    BY <2>6, <2>8, <2>9 DEF Grow
  <2> QED
    BY <1>3, <2>3, <2>10
<1> QED
  BY <1>4 DEF Unreachable, R

\* ... and in a scope without a try every other task is reported: validation finds
\* all that no edge of the graph leads to (validate_reachability).
THEOREM AllUnreachableReported ==
    ASSUME NEW Task, NEW s \in Seq(Task), s # <<>>, \A i \in DOMAIN s : s[i].kind # "try",
           NEW C \in SUBSET DOMAIN s, 1 \in C, \A i \in C : Edges(s, i) \cap DOMAIN s \subseteq C
    PROVE  DOMAIN s \ C \subseteq Unreachable(s)
<1>1. Len(s) \in Nat
  OBVIOUS
<1>2. Grow(s, C) = C
  BY DEF Grow
<1>3. Reachable(s) \subseteq C
  BY <1>1, <1>2, ReachableLeast
<1> QED
  BY <1>3 DEF Unreachable

=============================================================================
