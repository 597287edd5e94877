------------------------------ MODULE Catalogs ------------------------------
(* How a definition's use.catalogs are imported before it is compiled:      *)
(* Runtime::resolve_definition, with the resolvers of catalog.rs.           *)
EXTENDS Naturals, Sequences, FiniteSets

CONSTANTS
    Endpoints,    \* where catalogs may be found
    Components,   \* the names of components
    Own           \* the origin of what the definition declares itself

\* Assumed of the constants by the theorems.
EndpointsFit == IsFiniteSet(Endpoints) /\ Own \notin Endpoints

\* A catalog as parse_catalog_document decodes it: whether there is one, the
\* components it gives and the catalogs it declares in its turn.
Catalog == [found : BOOLEAN, gives : SUBSET Components, catalogs : SUBSET Endpoints]

VARIABLES
    resolver,  \* whether the runtime has a catalog resolver
    web,       \* what the resolver finds at each endpoint
    denied,    \* the endpoints that the network policy keeps it from
    declared,  \* the definition's own use: components and catalogs
    queue,     \* the catalogs to import, the last one first
    visited,   \* the endpoints that have been looked at
    merged,    \* the origins of each component so far: the last one wins
    result     \* "none", then "unchanged", "resolved" or "failed"

vars == <<resolver, web, denied, declared, queue, visited, merged, result>>

RangeOf(s) == {s[i] : i \in 1 .. Len(s)}

\* The orders in which a map of catalogs may be walked.
Orders(S) == {s \in [1 .. Cardinality(S) -> S] : RangeOf(s) = S}

Init ==
    /\ resolver \in BOOLEAN
    /\ web \in [Endpoints -> Catalog]
    /\ denied \in SUBSET Endpoints
    /\ declared \in [gives : SUBSET Components, catalogs : SUBSET Endpoints]
    /\ queue \in Orders(declared.catalogs)
    /\ visited = {}
    /\ merged = [c \in Components |-> IF c \in declared.gives THEN <<Own>> ELSE <<>>]
    /\ result = "none"

Top  == queue[Len(queue)]
Rest == SubSeq(queue, 1, Len(queue) - 1)

merge_components(dst, origin, gives) ==
    [c \in Components |-> IF c \in gives THEN Append(dst[c], origin) ELSE dst[c]]

\* Without catalogs or without a resolver the definition stays what it is.
Unchanged ==
    /\ result = "none" /\ (declared.catalogs = {} \/ ~resolver)
    /\ result' = "unchanged"
    /\ UNCHANGED <<resolver, web, denied, declared, queue, visited, merged>>

Resolving == result = "none" /\ declared.catalogs # {} /\ resolver

\* Mutant: a catalog met again ends the import.
SkipAll ==
    /\ Resolving /\ queue # <<>> /\ Top \in visited
    /\ queue' = <<>>
    /\ UNCHANGED <<resolver, web, denied, declared, visited, merged, result>>

\* The endpoint of a cycle or of a diamond has been imported already.
Skip ==
    /\ Resolving /\ queue # <<>> /\ Top \in visited
    /\ queue' = Rest
    /\ UNCHANGED <<resolver, web, denied, declared, visited, merged, result>>

Import ==
    /\ Resolving /\ queue # <<>> /\ Top \notin visited
    /\ Top \notin denied /\ web[Top].found
    /\ visited' = visited \cup {Top}
    /\ \E nested \in Orders(web[Top].catalogs) : queue' = Rest \o nested
    /\ merged' = merge_components(merged, Top, web[Top].gives)
    /\ UNCHANGED <<resolver, web, denied, declared, result>>

\* A catalog that is denied, missing or no catalog: nothing is registered.
Fail ==
    /\ Resolving /\ queue # <<>> /\ Top \notin visited
    /\ Top \in denied \/ ~web[Top].found
    /\ visited' = visited \cup {Top}
    /\ result' = "failed"
    /\ UNCHANGED <<resolver, web, denied, declared, queue, merged>>

Finish ==
    /\ Resolving /\ queue = <<>>
    /\ result' = "resolved"
    /\ UNCHANGED <<resolver, web, denied, declared, queue, visited, merged>>

Next == Unchanged \/ Skip \/ Import \/ Fail \/ Finish

Fairness == WF_vars(Next)
Spec == Init /\ [][Next]_vars /\ Fairness

-----------------------------------------------------------------------------
\* A set of endpoints that holds what the definition declares, and with each
\* of its catalogs those that the catalog declares.
Closed(S) == declared.catalogs \subseteq S /\ \A e \in S : web[e].catalogs \subseteq S

\* A resolved definition has imported just the catalogs that it can reach, each
\* of them once, and so every component any of them gives: cycles and diamonds
\* cost nothing and lose nothing (resolve_definition's queue and visited set).
EverythingImported ==
    result = "resolved" =>
        /\ Closed(visited) /\ \A S \in SUBSET Endpoints : Closed(S) => visited \subseteq S
        /\ visited \cap denied = {} /\ \A e \in visited : web[e].found
        /\ \A c \in Components :
              /\ RangeOf(merged[c]) = {e \in visited : c \in web[e].gives}
                                      \cup (IF c \in declared.gives THEN {Own} ELSE {})
              /\ \A i, j \in 1 .. Len(merged[c]) : merged[c][i] = merged[c][j] => i = j

\* Importing ends, whatever catalogs declare each other (resolve_definition's loop).
ResolutionEnds == <>(result # "none")

=============================================================================
