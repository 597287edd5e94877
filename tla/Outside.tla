------------------------------ MODULE Outside -------------------------------
(* What the runtime reaches outside itself, one `part` at a time: a part's  *)
(* machine runs and the variables of the others keep a value of no interest. *)
EXTENDS Naturals, Sequences, FiniteSets

VARIABLES part,
    resolver, web, denied, declared, queue, visited, merged, resolved,       \* Catalogs
    call, fault, attempt, at, wire, answer, stream, got, result,             \* Calls
    job, parent, child, stdin, fed, read, made, stdout, taken, outcome,      \* Processes
    backend, request, holder, pipe, sent, row, log, acked, up                \* Stores

CONSTANTS
    Endpoints, Components, Own,           \* Catalogs
    Calls, Answers, Attempts, MaxEvents,  \* Calls
    Pipe, Amounts, Allowed, Known,        \* Processes
    Backends, Writers, None, MaxWrites    \* Stores

Cat  == INSTANCE Catalogs WITH result <- resolved
Call == INSTANCE Calls
Proc == INSTANCE Processes
Stor == INSTANCE Stores

\* Assumed of the constants: what the parts assume.
ASSUME ConstantsFit == Cat!EndpointsFit /\ Call!CallsInShape /\ Proc!Sizes /\ Stor!NoneWrites

\* A part that is off has ended before it has begun.
CatOff  == /\ resolver = FALSE /\ web = [e \in Endpoints |-> [found |-> FALSE, gives |-> {}, catalogs |-> {}]]
           /\ denied = {} /\ declared = [gives |-> {}, catalogs |-> {}]
           /\ queue = <<>> /\ visited = {} /\ merged = [c \in Components |-> <<>>] /\ resolved = "unchanged"
CallOff == /\ call = [function |-> "http", inline |-> TRUE, by |-> "http", count |-> 1, redirect |-> FALSE,
                      timed |-> FALSE, retried |-> FALSE]
           /\ fault = Call!NoFault /\ attempt = 1 /\ at = 1
           /\ wire = [n \in 1 .. Attempts |-> "none"] /\ answer = [n \in 1 .. Attempts |-> Call!NoAnswer]
           /\ stream = [state |-> "none", ready |-> 0, others |-> 0] /\ got = 0
           /\ result = Call!Failed("timeout", 408)
ProcOff == /\ job = [kind |-> "shell", language |-> "sh", piped |-> FALSE, input |-> 0, before |-> 0,
                     makes |-> 0, quits |-> FALSE, awaits |-> FALSE, timed |-> FALSE]
           /\ parent = "end" /\ child = "none" /\ stdin = [holds |-> 0, open |-> FALSE]
           /\ fed = 0 /\ read = 0 /\ made = 0 /\ stdout = 0 /\ taken = 0 /\ outcome = "input"
StorOff == /\ backend = "sqlite" /\ request = [w \in Writers |-> Stor!Idle] /\ holder = None
           /\ pipe = <<>> /\ sent = MaxWrites /\ row = 0 /\ log = <<>> /\ acked = {} /\ up = FALSE

catVars  == <<resolver, web, denied, declared, queue, visited, merged, resolved>>
callVars == <<call, fault, attempt, at, wire, answer, stream, got, result>>
procVars == <<job, parent, child, stdin, fed, read, made, stdout, taken, outcome>>
storVars == <<backend, request, holder, pipe, sent, row, log, acked, up>>
vars == <<part, catVars, callVars, procVars, storVars>>

Init == \/ part = "catalogs"  /\ Cat!Init /\ CallOff /\ ProcOff /\ StorOff
        \/ part = "calls"     /\ CatOff /\ Call!Init /\ ProcOff /\ StorOff
        \/ part = "processes" /\ CatOff /\ CallOff /\ Proc!Init /\ StorOff
        \/ part = "stores"    /\ CatOff /\ CallOff /\ ProcOff /\ Stor!Init

Next == /\ UNCHANGED part
        /\ \/ part = "catalogs"  /\ Cat!Next /\ UNCHANGED <<callVars, procVars, storVars>>
           \/ part = "calls"     /\ Call!Next /\ UNCHANGED <<catVars, procVars, storVars>>
           \/ part = "processes" /\ Proc!Next /\ UNCHANGED <<catVars, callVars, storVars>>
           \/ part = "stores"    /\ Stor!Next /\ UNCHANGED <<catVars, callVars, procVars>>

\* The fairness of a part that is off asks for nothing: none of its actions that
\* are fair is ever enabled there.
Spec == Init /\ [][Next]_vars /\ Cat!Fairness /\ Call!Fairness /\ Proc!Fairness /\ Stor!Fairness

\* A resolved definition has all that its catalogs give (resolve_definition).
EverythingImported == Cat!EverythingImported

\* A call's outcome tells what it did outside (the invokers of service.rs).
AnswerBehindResult == Call!AnswerBehindResult

\* A run's result is all of its program's output (TokioProcessRunner::run).
OutputWhole == Proc!OutputWhole

\* Acknowledged writes stay, in their order (the ExecutionStore of each backend).
WritesKept == Stor!WritesKept

\* Whatever is asked of the outside comes to an end, with the timeouts that this
\* takes: imports, calls, runs and requests to the store (resolve_definition,
\* with_timeout, TokioProcessRunner::run, the stores' mutexes).
OutsideEnds == Cat!ResolutionEnds /\ Call!CallEnds /\ Proc!RunReturns /\ Stor!RequestsServed

=============================================================================
