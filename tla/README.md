# A verification of ows-runtime-rust

TLA+ models of the workflow runtime under `src/`, the configurations that
model-check them, and proofs about them. Paths below are relative to
`src/crates/`.

## 1. Inventory

| component | where | state | operations | what must hold |
|---|---|---|---|---|
| Runtime facade | `ows-runtime/src/runtime.rs` | registered workflows, expression cache, task order | register, execute, run, resume, cancel | a cancelled execution returns; a resume continues where the store stands |
| Engine, top level | `ows-runtime/src/engine.rs` | `ExecContext`, the stored `ExecutionRecord` | `execute_with`, `exec_scope`, `persist_*` | the checkpoint is consistent, progress is kept, a terminal record is final |
| Engine, scopes and extensions | `engine.rs`, `tasks.rs` (`do`, `for`, `switch`, extensions) | `ended`, `scope_exited`, `apply_extensions`, loop variables | `exec_scope`, `run_extension_scope`, `task_for` | directives end what they name; flags do not leak |
| Fork | `tasks.rs` (`task_fork`, `run_branch`), `engine.rs` (`exec_task`) | the context shared by the branches, the join set | spawn, join, abort | exports of branches are not lost; the first result or error wins; losers stop |
| Try and retry | `tasks.rs` (`task_try`, `compute_delay`, `catch_matches`) | attempt counter, error variable | attempt, catch, wait, handle | bounded attempts, the error reaches the handler, a cancellation stops it |
| Events | `ows-runtime-events/src/lib.rs`, `tasks.rs` (`listen`, `emit`) | subscribers and their queues, correlation groups | publish, subscribe, consume | no event missed after the subscription; strategies complete |
| Schedules | `ows-runtime/src/schedule.rs`, `ows-runtime-scheduler` | one loop per trigger, the shared cancellation, the trigger count | `start_schedules`, `run_schedule`, `fire`, `cancel`, `join` | cancelled loops finish and fire no more |
| Stores | `ows-runtime-core/src/store.rs`, `ows-runtime-stores` | records, event log, one connection behind a mutex | create, load, update, append_event, events | an acknowledged write stays and is not overtaken; a dropped request blocks nobody |
| Compiler and validator | `ows-runtime/src/compile.rs`, `ows-runtime-dsl` | none (pure) | normalise, validate, compile | what compiles refers to what exists; no reported task is reachable |
| Services | `ows-runtime/src/service.rs`, `grpc.rs`, `process.rs` | one call or process at a time, its pipes | HTTP, OpenAPI, gRPC, AsyncAPI, A2A, MCP, processes | the outcome is that of this attempt's request; pipes are drained |
| Catalogs | `runtime.rs` (`resolve_definition`, `merge_components`), `catalog.rs` | the queue of catalogs to visit, those visited, the merged components | resolve, merge | everything that some catalog gives is there, nothing from a denied one; the search ends |
| Expressions | `ows-runtime-expressions` | none (pure; the cache is the facade's) | lex, parse, cut templates, evaluate | precedence and brackets; streams, orders, indices and texts as jq has them |
| Core types | `ows-runtime-core` | - | errors, policy, clock, secrets, ids | - |
| Observability | `ows-runtime-observability`, `-otel` | counters, histograms, exporter queues | lifecycle events, OTLP encoding | both protocols say the same; events and samples are counted once; an id says what its event is of |
| CLI, testing | `ows-runtime-cli`, `ows-runtime-testing` | - | run, validate, conformance | - |

How they interact: the facade spawns one tokio task per execution, which drives
the engine and shares with the handle a `Cancellation` (a flag and a `Notify`);
the engine calls the task implementations, which call back into `exec_scope`
for composite tasks and share the `ExecContext`; fork clones it, the context
value and the `ended` flag staying shared behind an `Arc`. The engine writes the
store after every top-level task, ignoring its failures; `Runtime::resume` reads
it and drives the engine again. Schedules call `Runtime::run`. `listen` and
event schedules subscribe to the broker that `emit` publishes to.

What is hard: dropped futures (cancellation, timeouts, fork losers), crashes
between the writes, concurrent resumes, the context shared by branches,
notifications that reach only those who already listen, and flags that survive
the scope they were set in. `PROJECT.json` lists each at its line.

## 2. Plan

1. `Workflow`, `Execution`, `DurableExecution`: the durable execution, end to
   end, with its proofs (`ExecutionProofs`). **Done.**
2. `ForkJoin`: branches, their shared context, competition, errors, and the
   abort of losers; what an export may lose (`ForkJoinProofs`). **Done.**
3. `Schedules`: trigger loops, cancellation, `join` (`SchedulesProofs`). **Done.**
4. `Listening`: subscription, strategies, correlation, `until`
   (`ListeningProofs`). **Done** for one subscription.
5. `Scopes`: nested scopes, `for`, `try` and its retries, extensions, and the
   flags they share (`ScopesProofs`), and `Walk`, the abstraction by which
   `Execution` takes a task body for one step. **Done.** Open: the lengths of the
   retry delays.
6. `ExpressionSyntax`, `ExpressionEval`, `ScopeFlow`, `Definitions`, `Requests`,
   `Telemetry` and their laws: the pure algorithms, each against a reference
   definition or laws that determine it (`MCAlgorithms`); the flow of a scope, which
   needs no recursion over trees, proved as well (`DefinitionProofs`). **Done.**
7. `Catalogs`, `Calls`, `Processes`, `Stores`: what reaches outside, with the
   answers, losses and delays of the other side (`Outside`), and the proofs
   `DefinitionProofs`, `StoresProofs`, `OutsideProofs`. **Done.**
8. Open: the `foreach` of a `listen`; the laws of histograms and addresses as
   theorems, as far as they recur over positions only; update paths and regular
   expressions of the expression language, should the code gain them.

## 3. Modules

`Workflow` is the compiled workflow (`ir.rs`): the tasks of the top-level scope,
the directives each may produce, and which of them may fail, export, be skipped,
meet an `end` inside or time out. A value is identified with the trace of the
steps that computed it, so that "the right input" and "the right context" can be
said of the record without modelling JSON.

`Execution` models one execution id: the record and event log in the store, the
`Cancellation`, and one RUNNER per call of the engine on this id, the first from
`Runtime::execute`, the others from `Runtime::resume`. The steps of a runner are
the await points of `execute_with` (`pc` names the next one). `RunWithCancel`
is the first poll of `run_with_cancel`; `DropCancelled` and `DropTimedOut` are
its select and its timeout, `Crash` the loss of the process or of the future of
`resume`. `TaskTimeout` is the `tokio::time::timeout` around `exec_task`.
Store writes may fail (`Save`, `AppendEvent`), which the engine logs and ignores.

`DurableExecution` is the promise to whoever reads the store: progress moves
forward along the workflow with the context that belongs to it, then one
terminal phase. `Execution` implements it (`RefinesDurable`).

`Walk` is the promise of `exec_scope` to its caller: one task at a time, in the
order its directives name, none behind an `end` or a cancellation, one outcome.
It is what `Execution` and `Scopes` have in common. `Scopes` implements it with
everything that is nested in a task hidden in `phase = "busy"` (`RefinesWalk`: a
step of the nested scopes is a stutter, or an `end` met inside). `Execution` takes
only steps of it while a run is in the scope (`WalksTheScope`, a property of steps
and not of behaviours, since a resume puts a run in the middle of the scope and a
drop takes it away): the one step of its task bodies is the summary of a visit
that `Scopes` has in full.

`MCExecution` has the small programs of the configurations.

`ForkJoin` is one `fork` task: the parent (`task_fork`), its branches, each with
the critical sections of `exec_task` as steps (`pc`), and the mutex and the value
of the shared context. A branch exports after a second critical section, and may
fail, panic or block. What its guard computes is left out. A branch is one task: the
tasks of a composite branch export on their own, and what they exported stays when
the branch fails later (`engine.rs:669`).
`fork.kind` chooses between awaiting all and competing. An aborted branch may go
on until the runtime drops its future: `abort` does not wait.

`Schedules` is the set of loops of `start_schedules`, one per schedule of its
constant: `every`, `after`, `cron` and `on`. A cancellation is two steps, the
flag (`StoreFlag`) and the wake-up of whoever listens by then (`NotifyWaiters`).
`Check`, `Arm` and `Wake` are the three places of `sleep_or_cancel` between which
it may fall. `Fire` and `EndRun` start and end an execution of the workflow.

`Listening` is one `listen` task and its subscription to the broker. An event is
its type and the values of its correlation keys; the broker's channel is an
unbounded FIFO (`Publish`); `Receive` is one round of `gather_listen_events`,
with the strategy (`AcceptOne`, `AcceptAll`), the group of first-seen values
(`Matches`, `Commit`), and both kinds of `until`. An `until` expression is
represented by the number of consumed events it waits for. An expression that
fails ends the task as a cancellation does (`Drop`).

`Scopes` is what happens inside a task: the calls of `exec_scope`, `exec_task`,
`task_for`, `task_try` and `run_extension_scope` are a stack of frames (`stack`),
each at its next step (`at`) with its index, iteration or attempt (`n`), and
`signal` is what the last call returned. They share the mutable fields of one
`ExecContext`: `ended`, `exited` (`scope_exited`), `applies`
(`apply_extensions`) and `names` (the keys of `loop_vars`). `Timeout` is the
`tokio::time::timeout` around a task: it drops the frames above the scope,
together with the code that restores the context there. A `set`, `call`, `fork`,
`listen`, ... is a task without scopes, which ends, fails, hangs or notices a
cancellation; the `foreach` body of a `listen` is left out. The drop of the whole
run by a cancellation is `Execution`'s (`DropCancelled`).

`Catalogs` is one call of `resolve_definition`: a queue of endpoints, each fetched
once, refused by the policy, or unreadable, and merged name by name
(`merge_components`). The order in which a map's entries are visited is any order,
as a `HashMap`'s is, so that which of two catalogs wins is left open, and so that
imported components override the definition's own.

`Calls` is a `call` task in a try. Each built-in function is the list of its steps
in the order of its code (`Steps`); one of them may fail because of the arguments
(`fault`). The request is on the wire until the target performs it or it is lost,
also after the call gave up. `answer` is kept per attempt, as a client gives an
answer to its own request alone; that a target performs the requests of two attempts
is possible, and nothing forbids it.

`Processes` is `TokioProcessRunner::run`: the parent writes all of the input, then
reads the output; child and parent share two pipes of limited size. `Drop` of the
future kills the child. The pipe of the child's errors fills during the write just as
that of its output does, so that `makes` stands for the greater of the two.

`Stores` has the three durable backends under writers whose futures may be dropped
at any await. A statement that was sent stays on the connection (`pipe`, a FIFO)
and is applied whoever still waits for it; a connection that broke is not opened
again. Statements are numbered as they are sent.

`ExpressionSyntax` translates `lexer.rs`, `parser.rs` and the templates of
`engine.rs`; `ExpressionEval` translates `eval.rs`. Texts are sequences of
characters, numbers are fractions, trees are tuples named as in `ast.rs`.
`ExpressionLaws` has a reference printer (what is parsed, printed and parsed again
is the same tree), the loss-free cut of templates, and the equations of the
evaluator. `ScopeFlow` has where the tasks of one scope lead, as
`validate_reachability` draws it (`Edges`, `Unreachable`) and as the engine goes
(`Goes`); `Definitions` is normalisation, validation and compilation of a definition
(`ows-runtime-dsl`, `compile.rs`); `DefinitionLaws` relates them to the engine's way
through a scope. `Requests` fills in addresses and finds operations
and channels (`service.rs`); `Telemetry` is the `LifecycleEmitter` with the
encoders of both protocols, counters and histograms.

`MCForkJoin`, `MCSchedules`, `MCListening`, `MCScopes` and `MCOutside` give the
instances. `MCAlgorithms` has one behaviour per input, a `job` of one of the
algorithms; `Outside` puts `Catalogs`, `Calls`, `Processes` and `Stores` beside
each other, one `part` of the four per behaviour. The models meet
at small interfaces: a nested scope is a task body of `Execution` by way of `Walk`,
a fork or a listen is one that ends, fails or blocks, `Fire` is an `Execution`,
`Publish` is an `emit`.

## 4. Runs

| run | question | result |
|---|---|---|
| `safety` | what the store and the callers may see when nobody resumes an active execution; does the record implement `DurableExecution`, do runs walk the scope as `Walk` says, and does an interrupted execution that is resumed reach its end | holds |
| `concurrent` | is the checkpoint consistent when two runs write it at once, and does a cancelled execution return | holds |
| `fork` | joining, racing, failing and dropped forks: who returns what, and who still writes afterwards | holds |
| `loops` | what a schedule loop may still start after a cancellation, and that it stops | holds |
| `listen` | which events a listen consumes, that they agree, and that none is missed | holds |
| `scopes` | which flags, counters and variables survive which way out of nested scopes, does the outermost implement `Walk`, and do they return | holds |
| `algorithms` | do the pure algorithms satisfy their laws | holds |
| `outside` | do imports, calls, processes and store requests tell the truth about the other side, and do they end | holds |
| `ended` | does an `end` complete the workflow when a resume follows it | violated |
| `exports` | does the context keep the exports of finished branches | violated |
| `joined` | does `join` return after a cancellation | violated |
| `switched` | do the extensions apply to every task outside of their own scopes | violated |

Bounds of `Execution`. Three tasks give a goto forward, a goto back, an unknown
target, an exit and an end; `MaxSteps = 2` lets a loop be taken once and its
second round end (one step is enough for `concurrent`). Two crashes and one drop
are enough for a resume of a resume; one lost write is enough to put a run two
tasks ahead of its checkpoint and to lose the terminal record. `ended` needs two tasks,
a crash and a resume. Larger instances
(three runners, two failures, two crashes) gave nothing else.

Bounds of the others. Three branches: two may meet inside the mutex while a third
reads past it, and a race has two losers. One loop of each kind, `MaxEvents = 2`
(one event that matches the filters and one that does not wait at once), `MaxLate = 2` (one start more
than the one that is allowed). Four events for listens of at most three filters:
one for each, and one that is not wanted. `Scopes` has a loop of two items around
a try with two retries around an extended call and an inner loop; the call has two
extensions, one with a nested scope that may hang and with `when` on the other.
Each task may fail, be skipped, exit its scope or end the workflow, two have
timeouts, one jumps forward and to a task of another scope. `MaxLate = 3` counts
one more body than `FewLate` allows.

`outside` has two endpoints that may declare each other and themselves, two
attempts, three events of others, pipes of two with amounts of 0, 1, 3 and 5
(empty, fitting, and two that do not fit), two writers and three statements. Of a
`Stores` behaviour only the first three statements are seen; the theorem has no
such bound. `algorithms` has lines of at most three characters of ten next to five
second lines, all token sequences of at most five of nine operators or eight
brackets, every nest of two infix operators, texts of at most five characters with
templates, eleven expressions in all triples on fourteen values, all scopes of
three tasks with directives (35 kinds of task), trees of two levels with every way
to be wrong, addresses of at most four parts, documents of at most three
operations, and samples at each side of a histogram's bounds. Values of parameters may
themselves be a name in braces, and so may the server's url.

Fairness. The engine's own steps are weakly fair: tokio polls a woken task. A
task body is not (a `listen` may wait forever), unless a timeout covers it
(`TaskTimeout`). The select of `run_with_cancel` is fair once it was notified.
`ReachesTerminal` also assumes a caller that resumes (`Resumed`), with timeouts
on all tasks, a store that works, and one of the runs that is not interrupted.
`ForkJoin`: the branches and the parent are polled (weak fairness), an aborted
branch is dropped at last, but only the bodies of `Finite` branches end.
`Schedules`: loops are polled, sleeps end, and executions end except those of the
`Endless` workflow; nobody need cancel or publish. `Listening`: the task is
polled when its channel has an event; nobody need publish, cancel or close.
`Scopes`: the interpreter is polled, sleeps and the bodies of `Finite` tasks end,
and timeouts come; nobody need cancel, and no jump goes back (`Returns`).
`Catalogs`: the loop goes on. `Calls`: the caller is polled and a timer fires;
targets and brokers need never answer, so only calls with a timeout end.
`Processes`: the runner is polled, the program runs on, a timeout fires; runs
without one end unless both pipes fill up (`RunReturns`). `Stores`: the database
goes on, and a request is served at last if it could be again and again: tokio's
mutex is first come, first served.

Mutants. Operators marked *Mutant* stand before the definition they would
replace; each is a plausible slip (a dropped guard, a stale value) that the named
property catches.

## 5. Findings

1. `exports`: every task of a branch reads the context and writes it back in two
   critical sections, so a task that exports nothing undoes another's export.
2. `joined`: the event loop learns of a cancellation from the notification
   alone; cancelled while it executes, it waits for ever, and so does `join`.
3. `switched`: the timeout of an extended task may drop `run_extension_scope`
   before it switches the extensions on again; when a `try` catches the timeout,
   the rest of the workflow runs without extensions.
4. `ended`: the flag that an `end` in an inner scope sets is not in the checkpoint of
   the enclosing task; a crash between this checkpoint and the terminal record, and
   the resume starts the task behind an `end`. Within one run none starts
   (`EndHonoured`), and that property is silent about what lies in front of a resume.

Observed while modelling, and in the models as the code has it:

- Interruption: on cancel or workflow timeout the engine future is dropped before
  `persist_terminal`, so the record stays `running` (`runtime.rs:587`). A handle's
  execution id is not the record's (`runtime.rs:339`, `engine.rs:187`). A resume has
  neither handle nor timeout.
- Definitions: a skipped task follows its own `then` (`engine.rs:519`), where the
  comment of `validate.rs:241` lets it fall through; the targets of switch cases
  are not validated; branches of a fork are validated as one sequential scope; a
  `fork` in a `listen`'s `foreach` keeps a missing `compete`; a schedule's `on.all`
  and objects as `output.as` or `input.from` are dropped; `attempt_duration` and
  `retry_duration` are compiled and not read.
- Expressions: the scan for the end of a `${ }` block does not skip strings, since
  the inner loop starts at the opening quote and stops there
  (`expressions/src/engine.rs:92`): braces in strings count. A word operator behind
  a path that begins with a dot and ends in a name is read as part of that path
  (`parser.rs:210`).
- Calls: the path parameters of an OpenAPI call are replaced one after the other
  in the order of a hash map (`service.rs:152`), in the server's url too, so that a
  value with the name of another parameter in braces is replaced or not, from run to
  run; `RequestsBuilt` has what holds: the address is that of a replacement at once if
  no value names a parameter that is replaced behind it. Arguments are interpolated
  twice; an OpenAPI call sends no body, where the
  comment of `service.rs:39` has body parameters; an HTTP call that accepts 3xx never
  follows one; JSON-RPC errors become communication errors with the status 200;
  the clients have no timeout; a subscription whose broker goes away succeeds with
  fewer events. A `run` with `await: false` starts nothing. Killing a container run
  kills the command line client alone.
- Stores: connections are not opened again once broken. A checkpoint of a dropped
  future cannot be applied behind a later terminal write, as `WritesKept` shows.
- Telemetry: all executions of a workflow share one trace id; the retries of a task
  have one id with different attempts (`ows-runtime-observability/src/lib.rs:298`), as
  have the rounds of a task in a loop, and two changes into one status; a task named
  `status` shares ids with them; only the start and end of a workflow are
  emitted by the engine; the gRPC spans lack the event's subject.

## 6. Proofs

Every invariant and action property of the passing runs is a theorem for all
values of the constants, but those of `algorithms`; `PROJECT.json` lists them.
A proof assumes what the module assumes of its constants, and what is named here.

`ExecutionProofs`, for runs that may be concurrent: `TypeCorrect`;
`CheckpointPath` (invariant `PathInv`: the record and every run that can still
save one stand on a path of the workflow); `ContextRestored` (`ContextInv`, the
same for the context); `EndsHonoured` (`EndInv`: what a run met since it started is
an `end` only at the last step, and then its flag is set and it is in no body; what it
met before a resume is in `base`, and not spoken of).

The others of `ExecutionProofs` assume `Exclusive`: callers resume only what no
run drives. `SoloInv` adds that one run is active at most (`Solo`), that a terminal
record leaves it one event to append (`Closed`), and that it is in front of the
record (`Behind`) but not far (`Near`). `NextSolo` shows it inductive over the eight
shapes a step can have (`StepShape`), from which follow `ReworkBounded`,
`TerminalFinal`, `NoRework` and `Durability` (the refinement). Without the assumption
they are false: `resume` checks the phase once and takes no lease. `TellInv` counts
what is told: terminal events, with one that is about to be appended, are no more
than a terminal record and the writes that the store lost (`EventsPaid`); with a
store that loses nothing, an event and an outcome say what the record says
(`EventsTrue`); and a completion is announced once more only behind a crash, a drop
or a lost write (`AnnouncedOnce`). From it follow `EventsMatch` and `OkStored`.

`ScopeWalked` (`WalksTheScope`) holds of concurrent runs as well. `StepTop` sorts the
steps of a run in the scope into seven edges, one per way through it, and
`EdgeWalks` finds the step of `Walk` for each; `TopInv` is what they need of the state
(no outcome before the scope is left, and a body only of a task that exists).

`ForkJoinProofs`: `ForkTypes`; `ExportsDone` (invariant `ExportInv`: what is
in the context, or was read from it by a branch, are exports of branches that are
done, and a branch writes these and its own); `JoinsAll` (`OrderInv`: each finished
branch is in the order of completion once; `JoinInv`, with the counting lemma
`CoversAll`: a parent that took as many results as there are branches has one of
each);
`ReturnIsQuiet` (`RaceInv`: a race returns only after all its losers are gone).

`ListeningProofs`: `TypeCorrect`, `OneGroupFound`, `NoneInVain`, `FirstTaken`,
`AgreementStays`, for all filters, keys and strategies. `ListenInv` says that a
filter which counts as matched has a consumed event that settles it, in the one
group there is (`SettledInv`), and what an `until` and a `one` have consumed
(`DoneInv`, `FirstInv`). The scan of an event over the filters (`Scan`) is a
recursive function of their number: `ScanFinds` proves what it returns, by the
least filter at which that would be wrong (`LeastNat`).

`SchedulesProofs`: `OneLateAtMost`. `FlagInv` says that behind the flag a loop
which started late is not again in front of its check: it is `Leaving`, or will
meet the flag first.

`ScopesProofs`: `ScopeTypes`, `NeverInside`, `AttemptsLimited`, for every workflow
that satisfies the assumptions on its shape. `StackInv` types the frames (`Sound`:
an index is inside its scope, an attempt inside its limit) and says of a frame that
called another one where it can be (`Waiting`); `ExtInv` says that inside an
extension scope the extensions are off, and that no frame above it selected any.
`StepHasShape` reduces every step to five shapes of the stack (return, go on, call,
cut, keep), over which `ShapeInv` shows the invariant inductive. `StepHasEdge` says
in addition which call each shape is of, and from it come the other three:

- `LateLimited` (`FewLate`). `LateInv` counts what may still start: behind an
  `end`, a body that is on its way (`Ahead`) or the extended task below an extension
  scope (`Held`) can be the only late one; behind a cancellation the one on its way;
  behind both, two at most.
- `ExitsOwn` (`ExitIsOwn`). `ExitInv`: the flag of an exit was set since an
  extension scope started, so that no body is left out for the exit of another.
- `VariablesStay` (`LoopVariables`), for definitions that are trees (`Nested`: every
  scope lies deeper than its task, the extensions' scopes beside the workflow) and
  whose loops use names of their own (`OwnNames`). The second is needed: a loop that
  ends removes its names whoever else set them. `NestInv`: of two calls in one part
  of the definition the inner one is of something deeper, so that no loop is
  inside itself. TLC evaluates both hypotheses for the program of `scopes`
  (`ProgramIsNested`).

`WalkKept` is the refinement `RefinesWalk`. The bottom frame of the stack is that of
the main scope as long as there is one, and no call returns a cancellation that was
not asked for (`MainInv`). A step replaces the top frame, puts one above it or takes
it away (`StepIsOneCall`), and a timeout drops frames down to a scope. So a step above
the bottom frame is a stutter of the walk or an `end` met inside (`InsideWalked`, with
`FlagsMove`), one of the bottom frame alone is the action of `Walk` that has its name
(`AloneWalked`), and its timeout a failure.

`DefinitionProofs`: two searches that end when nothing new is found.

- `AllImported`, for every finite set of endpoints. `CatalogInv` says that what is in
  the queue or visited is reachable, that the queue with the visited ones is closed
  under what the visited ones declare, and that the merged components are those of
  the visited ones; when the queue is empty the last of the two closures is the set
  itself.
- `NoneReportedOnTheWay`, for scopes of every length: no task on a way of the engine
  is reported as unreachable. Behind `n` rounds of the search there are more than `n`
  positions or nothing is left to find (`SearchFills`), so that as many rounds as
  there are tasks are closed under the edges (`ReachableClosed`); and every directive
  a task may end with is drawn (`DirectiveDrawn`). The hypothesis `Sequential` says
  what the code relies on: only switches have cases, and each case has a `then`, as
  `switch.then.required` demands of a valid definition. Without it a switch with a
  `then` of its own and a case that has none goes on to the next task, which the
  graph does not have: such a definition has an issue already.
- `AllUnreachableReported`: in a scope without a `try`, whatever lies outside any set
  that has the entry and is closed under the edges is reported.

`NoneReportedOnTheWay` is the first part of `FlowSound` for every scope; the second,
that in a valid scope the engine is sent to an unknown task by a switch only, is
model-checked.

`StoresProofs`: `WritesStay`, for every set of writers. `OrderInv`: the numbers on
the connection ascend and lie above all that were applied; `WaitInv`: while the
connection is up, the statement of a request that waits is on it or applied;
`AckInv`: what was acknowledged is applied. `Acknowledge` needs the second, every
write needs the first, and a break may only cut the newest statements off.

`OutsideProofs` has the invariants of processes and calls, and the theorems of the
four parts beside each other (`Parts`: a part has its invariant while it runs and
stands still while it is off; `SameCatalogs` and `SameStores` bring in the two
invariants above).

- `WholeOutput`, for every size of the pipes and all amounts: the counts of the two
  ends of each pipe differ by what it holds, and a parent that collects has written
  the child's input (`PipeInv`, `RunnerInv`).
- `OutcomeTells`, for all calls of the seven functions, all answers and any number of
  attempts. `StepOrder` proves what the lists of steps have in common, whatever the
  function: preparations first, then a request whose answer is the next step, an
  event to publish, or a subscription whose events are the next step. With
  `FlightInv` (an attempt that runs has a request outside only where it waits for
  the answer, a subscription only where it consumes, and later attempts have
  nothing), the request that an outcome speaks of is its own attempt's.
- `ImportsComplete` and `WritesLast`, from `CatalogInv` and `StoreInv`.

Model-checked only: liveness under fairness (`CancelReturns`, `ReachesTerminal`,
`ForkEnds`, `FinishesWhenFulfilled`, `TimersStop`, `Returns`,
`OutsideEnds`), which is beyond the prover; and the laws of the pure algorithms but the
reachability of a scope, since it cannot reason about their `RECURSIVE` operators. `ListeningProofs` and `DefinitionProofs` show how a recursive function can be proved
about where its argument is a number; the algorithms recur over trees and texts.

## 7. Not modelled

See the components and their notes in `PROJECT.json`. The transports, the JSON
and protobuf encodings, the exporters' HTTP and gRPC clients and the CLI are pure
I/O with no state TLC could explore; the cron parser is an external crate, of which
`Schedules` takes any answer; the virtual clock and the test doubles serve the
tests alone. A `listen`'s `foreach` body is a scope like those of `Scopes`. The
broker never removes a subscriber (`ows-runtime-events/src/lib.rs:174`): this is a
leak, which a bounded model cannot tell from a slow reader.
