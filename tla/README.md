# Formal models of Apex Exec

TLA+ models of the interpreter that runs Salesforce Apex locally: its parser and
type checker, the control of its evaluator, its record database and query engine,
its DML engine with triggers and partial success, its asynchronous queue, lazy
class initialization, the parallel test runner, the incremental project compiler,
the CI result cache and the gate that joins CI with an org. TLC checks each model
on small instances; TLAPS proves the safety properties of every state machine
among them, from the local database and the DML engine to the test runner and the
hybrid gate, for every value of the constants.

    tlc -config LocalDatabase.cfg MCLocalDatabase.tla     # one of the runs below
    tlapm LocalDatabase_proofs.tla                         # a proof module of section 4

## 1. The system

Apex Exec compiles a project of Apex classes and triggers (lexer, parser,
semantic analysis) to a typed HIR and interprets it on one native stack. The
interpreter talks to a `PlatformHost`; `RecordingHost` implements it over a
`LocalDatabase`. Around the interpreter are a test runner, a CI driver, a hybrid
(local and org) validator, a REPL, a language server and a debugger.

| Component | Source under `src/src` | State | Operations | What is hard |
|---|---|---|---|---|
| Local database | `platform/database.rs`, `storage.rs`, `sobject.rs` | live records, recycle bin, Id sequences, per-call copies | insert, update, upsert, delete, undelete of rows; preparation of rows; snapshot, restore; SOQL, SOSL | rows that fail inside a call that succeeds, Ids drawn beside a recycle bin, unique values freed and taken again, hydration of exactly what clauses read |
| Host | `runtime/host.rs` | database, checkpoints, statement counters, retry baselines, test window | begin, commit, rollback of units; dml, soql, sosl; retry reset | nesting: every path must give back what it took |
| DML engine, query binding | `runtime/database.rs`, `store.rs` | SObject images, trigger depth, read-only set, pending groups, outcomes | all-or-none and partial statements, trigger phases, attempts, retries; queries to requests, rows to values | triggers re-enter the engine and throw anywhere |
| Asynchronous runtime | `runtime/asynchronous.rs`, `context.rs` | FIFO queue, running job, execution context, events | submit future, queueable, batch, scheduled and event work; drain | a drain runs code that submits and drains |
| Class initialization | `runtime.rs`, `class_initialization.rs` | a state per class, the initialization stack | ensure, initialize, fail | cycles, depth, failures caught half way up |
| Interpreter | `runtime.rs`, `numeric.rs`, `intrinsics.rs`, ... | call stack, scopes, registers, heap, iteration depths | expressions, statements, calls, constructors | every outcome has to put back what its frame changed |
| Value graphs | `runtime/value_graph.rs` | active and visited identities, budgets | equality, hash, text, JSON | cyclic values |
| Test runner | `test_runner.rs`, `test_runner/*` | claim counter, result list | claim, run, push, sort, report | threads |
| SQLite storage | `platform/sqlite.rs` | tables, savepoints, schema version | read, write, migrate | nested savepoints, additive migration |
| Schema and metadata | `platform/schema.rs`, `metadata.rs` | catalog | lookup | - |
| Security and sharing | `platform/security.rs`, `runtime/security.rs`, `project/security.rs` | profiles, permission sets, shares | decisions | merging denials with DML outcomes |
| Parser | `lexer.rs`, `parser*`, `ast*` | the cursor | parse | lookahead |
| Semantic analysis | `semantic*`, `hir*` | class and signature tables | check, lower | contracts checked class by class, overloads, reachability, queries |
| Project compiler | `project.rs`, `project/*` | units by path, the last program with its fingerprints and graph, the next source identity | discover, compile, reuse, parse, link | what a fingerprint leaves out, what a failed compilation leaves behind |
| CI | `ci.rs` | sealed manifest, artifacts by key, temporary files | seal, verify, select, run, publish, replay | processes that race, die and see edits; what a key leaves out |
| Hybrid validation | `hybrid.rs`, `hybrid/metadata.rs` | the run in progress, sealed snapshots, reports | live run, replay | success on partial, old or foreign evidence |
| Oracle, enterprise runner | `oracle.rs`, `enterprise/*` | - | run external tools | I/O |
| Editors, debugger, REPL | `lsp.rs`, `dap.rs`, `debugger.rs`, `repl.rs`, `runtime/instrumentation.rs` | documents, trace, session source | edit, step, evaluate | bounds, replay |

How they interact: the interpreter calls the DML engine for every DML statement;
the engine prepares rows against the host's database, opens units of work on the
host, runs trigger bodies on the interpreter (which may issue DML again) and
writes rows through the host. `Test.stopTest` calls the drain of the
asynchronous runtime from any Apex code, a trigger or a job included; each job is
a unit of work on the host. Any access to a class member first runs class
initialization, which runs Apex code. Queries go from the parser through the
checker, which fixes their static type, to the binding of the runtime, which
makes a request, and to the database, which answers it; the runtime makes the
value of that type. The test runner gives each case a host of its own, so that
threads share only the compiled program, the claim counter and the result list.
CI compiles with the project compiler and selects tests over its dependency
graph; hybrid validation runs CI and puts its result beside the org's.

## 2. The modules

State machines:

| Module | Models | State | Actions |
|---|---|---|---|
| `LocalDatabase` | `LocalDatabase::execute_dml` and the units of work of `RecordingHost` | `db`, `checkpoints`, `op`, `work`, `outcomes` | `BeginDml` `ExecuteRow` `CommitDml` `FailDml` `BeginUnit` `CommitUnit` `RollbackUnit` |
| `UnitsOfWork` | what the checkpoints promise: nested units, each with a private copy | `copies` | `Work` `Begin` `Commit` `Rollback` |
| `DmlEngine` | `execute_dml` down to the host, with triggers as free Apex code | `db`, `checkpoints`, `image`, `readOnly`, `depth`, `stack`, `queries`, `baselines` | code: `SetField` `RunQuery` `IssueDml` `FinishEntry`; statement: `Preflight` `ChooseGroup` `BeginAttempt` `Write` `HostFails` `SettleAtomic` `SettlePartial` `RetrySurvivors` `FailAttempt` `CompleteStatement` `FailStatement`; triggers: `SkipTriggers` `EnterTriggers` `NextTrigger` `ReturnFromTrigger` `ThrowInTrigger` |
| `AsyncRuntime` | queue, drains, jobs, contexts | `queue`, `nextId`, `current`, `context`, `stack`, `db`, `checkpoints`, `events` | code: `Submit` `WriteRecord` `EnterScope` `LeaveScope` `BeginStatement` `EndStatement` `EndEntry`; drain: `StopTest` `StartJob` `ExceedDrain` `EndDrain` `CompleteJob` `FailJob` |
| `ClassInitialization` | `ensure_class_initialized`, `initialize_one_class` | `state`, `active`, `control`, `thrown` | `Access` `PassReadyClass` `RaiseAtAccess` `StartInitializer` `FinishInitializer` `FailInitializer` `CompleteAccess` |
| `Interpreter` | the control of statements, calls, constructors, `System.runAs`, `try`, loops and assignments | `stack`, `signal`, `registers`, `length`, `iterating` | `Enter...` for each kind of frame, `Signal`, `Resize`, and one leaving action per kind and outcome: `LeaveLoop` `NextElement` `LeaveForEach` `Catch` `EndTryPart` `LeaveFinally` `LeaveRunAs` `LeaveCall` `Assign` `Delegate` `EndArguments` `BeginFields` `EndFields` `ConstructorBody` `EndConstruction` `FailConstruction` |
| `TestRunner` | the worker pool of `run_internal` | `next`, `claim`, `executed`, `report` | `Claim` `Push` `Report` |
| `ProjectCompiler` | `ProjectCompiler::compile` driven by the language server's refreshes | `disk`, `pc`, `units`, `nextSourceId`, `last`, `compilation`, `answered` | edits: `Write` `Remove` `EditObjects` `EditSecurity`; refreshes: `FailToRead` `ReuseProgram` `FailToParse` `FailToLink` `Compile`; `Exit` |
| `EnterpriseCi` | `ci manifest` and `ci run` as racing processes | `disk`, `manifest`, `cache`, `temporary`, `worker`, `returned` | `Seal` `Begin` `Hit` `Miss` `CompileAndTest` `CreateTemporary` `FinishTemporary` `Publish` `Return` `Stop` `Edit` |
| `HybridValidation` | `hybrid::run` live and from a snapshot | `disk`, `org`, `environment`, `clock`, `manifest`, `cache`, `snapshots`, `run`, `report` | `Seal` `BeginLive` `BeginReplay` `CaptureInventory` `Compile` `ReuseResult` `Execute` `Retrieve` `RetrieveAgain` `DryRun` `Replay` `Stop`; around a run: `Edit` `ChangeOrg` `Upgrade` `Remake` `Tick` |

Operators, without state of their own:

| Module | Models | Used by |
|---|---|---|
| `Records` | the effect of one row on a database: `execute_*_row`, `validate_and_write`, `assign_generated_id`, `prepare_dml_row` | `LocalDatabase`, `DmlEngine` |
| `ProjectSources` | what discovery, metadata and the security fixture read; the dependency graph; a compilation from nothing | `ProjectCompiler`, `EnterpriseCi` |
| `Dependents` | the reverse closure of a dependency graph (`project/dependency.rs`) | `ProjectSources`, `HybridValidation` |
| `ClassHierarchy` | the contracts of classes and interfaces, access, dispatch, applicability and ranking of overloads (`semantic.rs`, `semantic/overload.rs`) | `Typing`, `MCLanguage` |
| `Typing` | the types the checker gives to operators, literals, casts, assignments and `Math`, and the values the evaluator computes for them (`semantic.rs`, `runtime.rs`, `runtime/numeric.rs`) | `Intrinsics` |
| `Intrinsics` | the methods of lists, sets, maps and strings, constructors of collections and list indexes: their signatures and what they do to the collections of a store (`semantic/intrinsics.rs`, `runtime/intrinsics.rs`, `runtime.rs`) | `MCLanguage`, `MCIntrinsics` |
| `Statements` | the completion analysis of method bodies and the ways the evaluator leaves them (`semantic/flow.rs`, `runtime.rs`) | `MCLanguage` |
| `Queries` | the execution of SOQL and SOSL requests (`platform/database.rs`) | `QueryPlans` |
| `QueryPlans` | which queries the checker accepts with which type, the request made of one and the value made of its rows, dynamic queries (`semantic/queries.rs`, `runtime/database.rs`) | `MCQueryPlans` |
| `ValueGraphs` | equality, text and JSON of values that may be cyclic (`runtime/value_graph.rs`) | `MCValueGraphs` |
| `Parser` | the grammar, by recursive descent with its lookaheads (`parser.rs`, `parser/`) | `MCParser` |

`LocalDatabase` and `DmlEngine` both extend `Records`: the row rules are written
once and driven row by row in the one and by whole groups, inside attempts, in
the other. `ProjectCompiler` and `EnterpriseCi` both extend `ProjectSources`: the
one compares its incremental result with the compilation from nothing that the
other takes for what a run compiles.

The operators of the second table are checked in one frame, `Subjects`: a
behaviour chooses an algorithm and an input (`subject`) and takes one step, which
gives what the code computes (`outcome`). `MCLanguage`, `MCIntrinsics`, `MCQueries`,
`MCQueryPlans`, `MCValueGraphs` and `MCParser` define the inputs and the
references the outcomes are compared with, `MCAlgorithms` puts them together, and
its constant `Topics` says which take part. The other `MC*` modules are instances
of the state machines; `MCInterpreter` runs class initialization and the frames
of the interpreter, `MCDmlEngine` two scenarios of the DML engine, in one run
each. The modules named `..._proofs` hold the theorems (section 4).

Conventions. A database is the record `[live, bin, sequence]`, the three fields
of `DatabaseSnapshot`. An Id is an object and a number: `RecordId::generate`
prints a key prefix that is unique in a schema and the number. The
interpreter's recursion is an explicit `stack` of frames, one per Rust call that
holds state across Apex code. Apex code itself is any sequence of the effects
the model knows: where a step of code is enabled it may happen or not, and an
exception that reaches code may be caught (the code goes on) or not (the frame
is left by its throwing action). Fields and variables marked "for properties"
are history: no guard reads them.

### Abstractions

- Values are model values with a case folding (`Fold`); number, date and text
  formats are not modelled. A field is absent from an SObject, null, or a value.
- Elements of a collection are numbers, words and null; how collections inside
  collections compare is `ValueGraphs`' part. A frozen collection is one that is
  iterated or belongs to a trigger: both refuse a change with `FinalException`.
  A text is a sequence of characters, of which one has two cases, one is white
  space and one takes two UTF-16 units.
- Reasons for which a whole DML call fails (`DatabaseError`, such as an unknown
  object) are one action, `FailDml` or `HostFails`, enabled at any row.
- The security checks that deny rows between preparation and write are not
  modelled: `prepare_dml` in `RecordingHost` also returns denials, which the
  engine treats exactly as it treats a failed preflight. Queries start from the
  set of rows the caller may see (`visible`).
- A batch job's `start`, `execute` and `finish` are one unit of work in the code
  and the code of one job in the model; so are the deliveries of a platform event.
- `begin_unit` and `commit_unit` cannot fail in `RecordingHost` with the
  in-memory storage; the error branches of their callers are left out.
- The interpreter runs a test's setup methods and the test itself one after the
  other; a model run is one entry.
- In `Interpreter` values are left out but for the lengths of lists, and a
  register holds the position of the frame that set it. Calls of methods and of
  top-level functions are told apart by what they replace (functions keep receiver,
  class and context of their caller); which of them an expression makes is free. In
  `Typing` a Decimal is
  known to be zero or not, and widths are `Width` and `LongWidth`. In
  `ClassHierarchy` a program has the declarations of one signature: methods of
  other names or parameters never meet in those rules.
- In `Queries` a string is a sequence of letters with a case, a day has
  `DayLength` moments, and the calendar is the table `MonthStart` (external,
  chrono). In `QueryPlans` the right side of an `IN` is all literals or one bind,
  and a child relationship is named by its reference field.
- In `Parser` tokens are strings and the lexer is left out; a tree is its
  construct, its words and its parts.
- In `ValueGraphs` a collection of at most two entries stands for all sizes;
  fields and elements come in the order the code visits them.
- A hash is the value hashed. A source text is a model value whose `Shape` says
  what the parser and the checker find in it: whether it parses, the types it
  names and needs, its SObjects, the profiles that accept it, its tests.
- The origin of a profile, which a fingerprint and a compilation both carry, is
  left out. Nothing is edited while `ProjectCompiler` compiles; `EnterpriseCi`
  and `HybridValidation` allow an edit between any two readings of a run.
- What a CI run observes is a function of the project it compiled and of its
  selection, so a result carries that project; the digest of the sealed inputs
  is one project chosen for all that agree on them. Policy and reports, which
  read the result only, are left out.
- In `HybridValidation` a project and an org are functions from paths to
  versions, a CI result is numbered when it is made, and `ci::run` is two actions
  (`ReuseResult`, `Execute`): `EnterpriseCi` models its inside. `Rank` is the
  order of paths, in which the first class file of a component is found.

## 3. What is checked

Each run checks one instance; `PROJECT.json` names for each property a mutated
definition under which the same run fails.

| Run | Instance | Question |
|---|---|---|
| `LocalDatabase` | one object, a field both required and unique, two spellings of one value, Ids 1 and 2 of the sequence plus a fixture record or none, two nested units, calls of one row | Do validity, disjoint Ids, harmless failures and retained recycled records survive every order of operations, failures, commits and rollbacks, and do the snapshots implement `UnitsOfWork`? |
| `DmlStatements` | scenario "statements": three SObjects (new, or holding the stored record's Id), requests of 1 to 3 rows and one with a null row, insert triggers before and after, 4 steps of Apex code, trigger depth 2. Scenario "upserts": external-Id upserts, deletes and undeletes over three stored records of which two share the key, two update triggers, SObjects that triggers write, a host that may refuse | Does the host's nesting follow the interpreter's on every path, is a failed statement without trace, are reported outcomes true, do failed rows keep their state, does an upsert write the record it found before its triggers ran? |
| `AsyncJobs` | three jobs, drain bound 2, two users, two sharing modes, 4 frames to call from | Start order, dropped jobs, context, units, rollback of failed jobs; does every pending job run? |
| `TestRunnerPool` | three workers, five cases | Once each, a deterministic report, termination |
| `CompilerSessions` | two classes and a trigger, six texts of which one does not parse, two profiles, an object in metadata or not, a fixture that may be malformed, four edits | Is every incremental compilation the one from nothing, are source identities stable, are all changes reported as invalidated? |
| `CiRuns` | four classes and a trigger, two processes, two shards, two change lists, three projects, one edit, three runs | Are artifacts whole, are replays exact, do the affected tests run once over the shards? |
| `HybridRuns` | a folder of two classes and a sidecar, a test of the first and a trigger on the second, an object, a layout and a file of no component; two states of the project, one without the second class, three of the org, two environments, three change lists, two runs over one snapshot, clocks one apart | Does readiness rest on both lanes and on fresh evidence about this candidate, does unchanged metadata agree, does evidence cover what the selection follows from a change? |
| `InterpreterFrames` | class initialization over a hierarchy of three, a class apart and one more, budget 3; every nesting of four frames over two lists | Bases first, only ready classes seen; registers, iterated lists, finally blocks, field initializers |
| `Algorithms` | all inputs of the topics below | The pure algorithms against what their results mean |
| `CiStaleReplay`, `InterpreterStalePlace`, `ReleaseTexts` | see section 5 | Statements of the documentation that the code does not meet |

The topics of `Algorithms`:

| Topic | Inputs | Reference |
|---|---|---|
| `hierarchy` | every declaration of one method over three classes and two interfaces; overload sets of two or three signatures of two parameters | on every class an object may have, a call accepted by the checker finds one body of its declaration; the overload chosen is applicable and below all others (`CallsReachTheirDeclaration`) |
| `typing` | every operator, cast, test and assignment over leaves at the edges of 3-bit Integers and 5-bit Longs, and over such expressions; method bodies up to four statements deep | values have their static type, arithmetic is that of the integers at its width (`AcceptedExpressionsKeepTheirType`); accepted bodies return or throw (`AcceptedMethodsReturn`) |
| `methods` | every method and constructor on lists, sets and maps of up to three elements of mixed widths, with arguments of any type and the receiver itself among them; every method of `String` on texts of up to three characters | sequences, sets and functions of meanings, texts as their UTF-16 units; collections keep elements of their type, once each, and change only by a call that returns and while nothing iterates over them (`AcceptedExpressionsKeepTheirType`) |
| `queries` | conditions, orders, windows, groups, counts, children and searches over databases of five records, two of them each other's parent; all relative dates around the ends of weeks, months and years | the denotation of a query: paths followed record by record through the database, periods counted by unit (`QueriesMatchReference`) |
| `plans` | good and bad queries, static, null-aware and dynamic, with the types that may be wanted of them | the value has the promised type, its records the promised objects, its groups satisfy HAVING as written (`AcceptedQueriesAnswerTheirType`) |
| `sources` | trees of every construct, nested two deep | the text written from a tree by the documented precedences reads back as the tree (`ParsesWhatIsWritten`) |
| `values` | graphs of three nodes and of two sets or maps of lists | bisimilarity, the greatest fixed point (`EqualityIsBisimilarity`); the unfolding of a value with its true cycles (`OnlyCyclesAreMarked`) |

The constant `Divergences` names inputs on which the code is known to break its
rules (section 5). It is empty in the runs; a value such as `{"having"}` shows
the counterexample.

### Bounds, and why they are enough

- Two numbers of a sequence and one fixture record let an Id be drawn, deleted,
  skipped and met again by an undelete; unique values collide between any two.
  Two nested units are the least in which committing or rolling back the inner
  one can disturb the outer. The proofs remove these bounds.
- Three rows, three attempts: a partial insert with a before-trigger that writes
  fields reaches the third attempt with surviving rows, and nested statements
  (depth 2) run whole retry loops inside an attempt. Four steps of code allow a
  statement whose trigger writes, queries and issues another statement.
- A drain bound of 2 with three jobs: the bound is reached inside a drain, after
  it, and in a drain nested in a job. Four calling frames are an entry, a drain,
  its job, and one more drain, statement or scope, whose own job may run.
- Depth 3 with a lineage of three classes and two others: the budget is reached by
  inheritance, by access and by both.
- Four frames are a loop or try with a call below it, in it another and an
  outcome that passes through all of them; a constructor's frame adds the steps
  of its delegation. `MaxFrames` bounds only the frames entered by choice. A
  chain of `this(...)` is followed once.
- Three CI runs are a run, a replay of it, and a run of the other shard or one
  that races the first; one edit falls before, between or after their readings.
  The chain service, caller, caller's test makes the closure of a change longer
  than one edge, and a test apart from it must not run.
- Two hybrid runs are a live one and a replay of its snapshot; two changes of the
  surroundings fall between any two steps of the live run, or between the runs,
  and the clock passes the maximum age. One change list names both classes of a
  folder, of which the second is deleted in one state of the project.
- Two classes and a trigger are the least with a chain of two dependencies; four
  edits make a compilation, a failure, an edit under the failure and a recovery.
- Five records, of which an account is its own grandparent, have every length of
  path, several rows of one group, and ties in every order. Three value nodes
  have cycles of every length to three and one shared node.
- Collections of two or three elements over two numbers of either width and null
  hold every match and mismatch of an argument, at the front and at the end; texts
  of three characters, two of them wide, have positions inside a pair on either
  side of a bound, and overlapping occurrences.
- `MaxEdits`, `MaxRuns`, `MaxChanges`, `MaxClock`, `MaxSnapshots`, `MaxId`,
  `MaxSequence`, `MaxCheckpoints`, `MaxRows`, `MaxFuel`, `MaxJobs`, `MaxFrames`,
  `MaxLength` and `Writers` bound the exploration and stand for nothing in the
  code; `MaxDrain`, `MaxAttempts`, `MaxTriggerDepth`, `MaxDepth` and `MaxAge` are
  constants of the code or its options, smaller in the instances.

### Fairness

Two modules assume some. In `TestRunner` each worker's steps and the report are
weakly fair. Workers are scoped native threads that the system schedules; a case ends
because the interpreter has loop and recursion budgets or because it is the
user's test that does not; the caller blocks in `thread::scope`.

In `AsyncRuntime` the steps of a drain itself (`DrainStep`: start the next job, drop
it at the bound, return) are weakly fair: they are one loop of the interpreter's
thread, which nothing in it waits for. No fairness is assumed of Apex code, because
the interpreter has no statement budget and a job may loop for ever. `PendingJobsRun`
therefore has a premise, `CodeComesBack`: while drains run, control keeps coming back
to one. Under it every job that is pending while a drain runs is started, also one that
was submitted by a failed job or left behind by a nested drain that threw, unless a
full drain drops it or the last drain goes by throwing. It is violated when a drain
returns before the queue is empty.

The other modules state safety only: what Apex code, a user at an editor or an org
does next is up to them, so that nothing promises a next step.

## 4. What is proved

`LocalDatabase_proofs`, for every schema, fixture set, value folding and bound:

| Theorem | States | Needs |
|---|---|---|
| `TypeCorrect` | `TypeOK` | the declared assumptions |
| `RecordsStayValid` | `LiveRecordsAreValid` | fixtures are valid (`FixturesAreValid`) |
| `IdsStayDisjoint` | `IdsAreDrawn` and `LiveAndRecycledAreDisjoint` | fixture Ids are numbered 0 (`FixturesAreForeign`) |
| `FailedRowsAreHarmless` | `FailedRowsLeaveNoRecord` | the declared assumptions |
| `RecycledRecordsAreKept` | `RecycledRecordsAreRetained` | `FixturesAreForeign` |
| `SnapshotsImplementUnits` | `ImplementsUnitsOfWork` | the declared assumptions |

The argument. A lemma per row operation says what it leaves: its table is typed,
valid, disjoint from the bin, drawn from its sequence. An invariant about "the
database" is not inductive on its own, since a rollback brings back another one;
each invariant is therefore stated of `Views`, that is of the committed database,
the working copy and every checkpoint. One lemma (`ViewsStep`) shows that every
step but a row leaves no view that was not there before, so that the row
lemmas are all that remains. Disjointness alone is not inductive either:
`assign_generated_id` looks at live records only, and what keeps a fresh Id out
of the recycle bin is that every Id in use is at most the last number drawn
(`IdsAreDrawn`), also after rollbacks, because bin, records and sequences are
restored together.

Validation does not run on fixtures in `load_fixture`, and nothing keeps a
fixture from naming an Id that the sequence prints later: the two assumptions
are what the code needs of its configuration. Without `FixturesAreForeign`,
`RecycledRecordsAreRetained` fails: fixture record number 1 is deleted, an insert
draws number 1 (it is not live), and deleting the new record overwrites the
recycled one, although `docs/COMPATIBILITY.md:83` says that deleted records
retain their fields and Ids.

`DmlEngine_proofs`, for every schema, every set of SObjects, any number of triggers
of each operation and phase, and any nesting of statements:

| Theorem | States |
|---|---|
| `DmlEngineIsStructured` | the inductive invariant `DmlStructure` |
| `DmlEngineKeepsHostInStep` | `HostFollowsStack` |
| `FailedStatementsAreUndone` | `FailedStatementsLeaveNoTrace` (of every step) |
| `UpsertsStayAimed` | the inductive invariant `DmlAims` |
| `UpsertsAlwaysWriteTheirMatches` | `UpsertsWriteTheirMatches` (of every step) |
| `OriginalsStayKept` | the inductive invariant `DmlKeeping` |
| `FailedRowsAlwaysKeepTheirState` | `FailedRowsKeepTheirState` (of every step) |
| `WrittenRowsStayKnown` | the inductive invariant `DmlTruth` |
| `OutcomesAreAlwaysTrue` | `OutcomesAreTrue` (of every step) |

The argument has four layers.

1. `DmlStructure` says how frames may stand on each other and that what the host
   holds is what they add up to: a checkpoint for the entry, for each statement
   and for each open attempt, found at its place by counting below the frame
   (`CheckpointsFollow`); a count of statements for each open retry scope
   (`BaselinesFollow`); the trigger depth and the read-only SObjects. A frame is
   put on, taken off or changed at the top, and one lemma for each of these
   (`Pushing`, `Popping`, `Becoming`) says what that does to the sums. A rollback
   therefore restores the database its statement or attempt began with, which is
   `FailedStatementsLeaveNoTrace`. The rows of one write are a fold; `AllRowsRun`
   carries a fact from row to row by induction over the length of the request.
2. `DmlKeeping`: a frame above a statement is about SObjects of its open group, or
   about such as any code can reach, so what runs inside an attempt leaves the
   other rows alone. Of a row not yet written the statement has its original in
   place or, while it is in an open attempt, in what that attempt holds for its
   undoing.
3. `DmlTruth`: an outcome is reported several rollbacks before the statement
   returns, and the SObject whose Id makes it true is shared with triggers and
   nested statements that are themselves undone. So the invariant is not about the
   present database. Ids are never forgotten from one checkpoint to the next
   (`IdsGrow`); a row already reported is in the database the statement falls back
   to when its attempt is undone, and a row written in this attempt in the one it
   is working on (`WrittenRowsAreKnown`); and a statement further up that will put
   SObjects back, from its originals, its attempt or its prepared rows, puts back
   the Ids they have (`WrittenRowsAreRemembered`).

4. `DmlAims`: the record of an external-Id upsert is found in preparation, against
   the database its statement began on, and written after triggers and nested
   statements have changed the SObjects, the values matched and the database, and
   perhaps after attempts that were undone. The invariant says of each row of such a
   statement what record it was about (`AimsOf`), and that its SObject carries that
   Id or, if it was about none, no Id, from preparation to write: code can change
   the fields of an SObject only, a nested statement gives an Id only to an SObject
   that inserts (`DmlTruth` says which), and rollbacks restore images together with
   the database. That the record written then existed before the write, or did not,
   is what insert and update check (`RowIsOnTarget`).

The second, third and fourth were checked by TLC on the instance of `DmlStatements`
before they were proved. All need the declared assumptions only.

`Interpreter_proofs`, first part, class initialization, for every acyclic
hierarchy, every use of classes by initializers, every depth budget:

| Theorem | States |
|---|---|
| `AccessesGoBaseFirst` | the inductive invariant `ClassInvariant`, with `TypeOK` |
| `BasesAlwaysComeFirst` | `BasesComeFirst` |
| `AccessesAlwaysSeeReadyClasses` | `AccessesSeeReadyClasses` |

The argument. Neither property is inductive: both speak of `state` only, and what
an initializer's end does to `state` is right because of who waits for it. The
invariant says that accesses and initializers alternate on the stack, that
`active` lists the classes of the initializers and holds exactly the classes
whose state is `initializing`, and that each access has passed a prefix of its
lineage of which every class is initialized or is the one whose code makes the
access. `ClassesAssumption` says of a lineage that its prefixes are the lineages
of the bases, which is what `lineage_base_first` computes.

`AsyncRuntime_proofs`, for every set of users and sharing modes, every drain bound
and any number of jobs and nested frames:

| Theorem | States |
|---|---|
| `AsyncStateFollowsStack` | the inductive invariant `AsyncInvariant` |
| `JobsAlwaysStartInOrder` | `JobsStartOnceInSubmissionOrder` |
| `ContextAlwaysFollowsStack` | `ContextAndUnitsFollowStack` |
| `OnlyFullDrainsDropJobs` | `JobsAreDroppedByFullDrainsOnly` |
| `FailedJobsAreUndone` | `FailedJobsLeaveNoEffect` (of every step) |

The argument. Starts are in order because a job that ever started has a smaller
number than every pending one (`QueueIsOrdered`). What is installed has to be said
of every prefix of the stack, since that is what code that ends goes back to: a
frame has saved what the frame below asks for (`IsNested`), and the checkpoint of
a job, found by counting the units below it, is the database the job started on
(`CheckpointsFollowStack`), so that restoring the last one undoes that job and no
more. The bound on dropped jobs is not inductive alone, because drains nest and
each counts for itself: `DropsAreAccounted` adds what the open drains have started
to what the full ones have, so that no start is counted for two drains.

`Interpreter_proofs`, second part, for every set of lists, every nesting and every
outcome:

| Theorem | States |
|---|---|
| `ControlFollowsStack` | the inductive invariant `ControlInvariant` |
| `RegistersAlwaysFollowStack` | `RegistersFollowStack` |
| `FinallyBlocksAlwaysRunOnce` | `FinallyBlocksRunOnce` |
| `IteratedListsStayStable` | `IteratedListsAreStable` |
| `FieldsAlwaysInitializeBaseFirst` | `FieldsInitializeBaseFirst` |

The argument. A frame that ends puts back what it saved, so the properties hold
after it only if what it saved is what the frames below it amount to. The
invariant makes registers, iteration counts and open `finally` blocks functions of
the stack (`RegistersOf`, `IterationsOf`, `DueOf`) and requires of each frame that
it is sound about the frames below it (`IsSound`): a call and a constructor have
saved the registers of the stack below (of which a function's return puts back the
scopes, a method's also the owner, and the call stack is popped), `runAs` its user, a loop the length of its
list, and a constructor has run exactly the initializers that its step, its class
and the constructor waiting for it call for. Every action takes a frame off, puts
one on or changes the top one; one lemma for each says what that does to the
functions, and the seventeen actions follow.

`Dependents_proofs`, for every finite graph:

| Theorem | States |
|---|---|
| `ClosureIsLeast` | `DependentClosure` is the least set that has the changed files and, with a file, all its dependents |

The argument. A round that adds no file is followed by none that does, and one
that adds a file makes the set larger; so as many rounds as the graph has files
are enough. `ProjectCompiler`, `EnterpriseCi` and `HybridValidation` rest on it.

`ProjectCompiler_proofs`, for every project, every draft and any number of edits:

| Theorem | States |
|---|---|
| `CachesStayFresh` | the inductive invariant `CompilerInvariant` |
| `AlwaysServesFreshCompilation` | `ServesFreshCompilation` |
| `IdentitiesStayStable` | `IdentitiesAreStable` (of every step) |
| `InvalidationAlwaysCoversChanges` | `InvalidationCoversChanges` (of every step) |

The argument. What is served is fresh because what is kept is: each cached unit
parses, and the last compilation is the one from nothing of the sources its
fingerprints record, even if later compilations failed and dropped some units
(`LastIsFresh`). Invalidation compares two graphs: a file whose dependency paths
were cut or made by the change is in the closure of the changed files in the old
or in the new graph, by `ClosureIsLeast`. `CompilerAssumption` says of `None` that
it is not a compilation.

`EnterpriseCi_proofs`, for every set of projects, number of processes and shards,
and any number of runs and edits (the bounds are constants of any size):

| Theorem | States |
|---|---|
| `ResultsStayExact` | the inductive invariant `CiInvariant` |
| `PublishedArtifactsAreWhole` | `ArtifactsAreWhole` |
| `ReplaysStayExact` | `ReplaysAreExact` |
| `AffectedTestsAlwaysRunOnce` | `AffectedTestsRunOnce` |

The argument. All follow from `CiInvariant`: a result is `Exact` when it is made,
that is, it is what executing the project it came from gives with the options of
its key, and that project has the sealed inputs unless an edit came in between.
Every later step copies the result, to the temporary file, the cache and the
replaying run, and the invariant is stated of each of those places.
`ReplaysAreExact` speaks of what was returned only and is not inductive: it needs
what lies in the cache, which needs what the processes hold. For
`AffectedTestsRunOnce` the results of a group of shards are exact for one project,
so they are the shards of one selection, which are disjoint and together all of
it; and by `ClosureIsLeast` the selection has every test that reaches a change.

The same module has the test runner that executes a shard, for any set of cases
and number of threads:

| Theorem | States |
|---|---|
| `RunnerCasesRunOnce` | the inductive invariant `RunnerInvariant` |
| `ReportsAreDeterministic` | `ReportIsDeterministic` |

The argument. Every case is ahead of the counter, running in one thread or pushed
once, and a thread ends only with the counter past the last case; so what the
report sorts is each case once. `Sorted` is the ordered rearrangement of what it
is given, and that there is one is shown by induction over the size of the set.

`HybridValidation_proofs`, for every project, org, dependency graph and number of
runs, changes and snapshots:

| Theorem | States |
|---|---|
| `EvidenceIsAboutTheCandidate` | the inductive invariant `HybridInvariant` |
| `ReadyReportsAreAlwaysBacked` | `ReadyReportsAreBacked` |
| `UnchangedMetadataAlwaysAgrees` | `UnchangedMetadataAgrees` |
| `EvidenceAlwaysCoversTheChange` | `EvidenceCoversTheChange` |

The argument. The properties speak of the last report, whose evidence was gathered
over many steps of perhaps two runs. The invariant says what each part is about as
soon as it is there: a cached result of its manifest, a snapshot of the project it
was sealed with and of the org it saw, and of a run, phase by phase, that what it
has computed is about the inputs it verified, unless the project was edited
meanwhile, which the run records. A replay keeps that its snapshot was recent when
it began. `EvidenceCoversTheChange` is one fact of the selection
(`AffectedCovers`) and one of the test selection (`SelectionCovers`), both by
`ClosureIsLeast`, carried through the run into the snapshot. `HybridAssumption` says
that sources, triggers and sidecars are paths, that `Uses` relates sources and that
no two paths have one rank; how paths make up components is free.

Only model-checked:

- `RunnerReturns` and `PendingJobsRun` are liveness under fairness, which the prover
  has no rules for.
- The algorithms of `Algorithms`: `CallsReachTheirDeclaration`,
  `AcceptedMethodsReturn`, `AcceptedExpressionsKeepTheirType`,
  `QueriesMatchReference`, `AcceptedQueriesAnswerTheirType`, `ParsesWhatIsWritten`,
  `EqualityIsBisimilarity` and `OnlyCyclesAreMarked`. They are recursive over
  syntax, values and queries; what they compute for every input needs induction
  over that data, and the prover has no backend for it in a module with recursive
  operators. (`DependentClosure` is a recursive function; its induction is over
  the set of rounds, as `SetInduction` states it, and so within reach.)
- The disagreements of section 5, which are counterexamples.

## 5. Disagreements with the documentation

With a run:

- `CiStaleReplay`: ADR 0018 says that input verification detects drift before a
  stale result can pass, ADR 0030 that security fixtures and local schema become
  cache inputs; the inputs sealed by `collect_inputs` are the project file and
  the package roots, so that a change below `.apex-exec` goes unseen and an old
  result is replayed.
- `InterpreterStalePlace`: an invalid list position is to raise `ListException`;
  `xs[1] = clearAndGet(xs)` checks the position first and writes last, past the
  end of the list, and the process panics.
- `ReleaseTexts`: the identity of a value is left inside a `debug_assert!`, so a
  build without debug assertions takes every second occurrence of a value for a
  cycle.

Without a run of their own; the names are those of `Divergences`:

- `literals`: `(Integer) 3000000000` is accepted and evaluates to a value outside
  Integer (`semantic.rs:5405`, `runtime.rs:1358`; `docs/COMPATIBILITY.md:739`).
- `abs`: `Math.abs` of the least Integer is computed at 64 bits and returned as an
  Integer outside its range (`runtime/intrinsics.rs:158`;
  `docs/COMPATIBILITY.md:27`).
- `interfaces`: an abstract class may declare an interface's method with another
  return type or less access (`semantic.rs:5348`; `docs/COMPATIBILITY.md:197`).
- `statics`: a static method hides an instance method of its base, and the other
  way round, unnoticed (`semantic.rs:1086`, `:1499`;
  `docs/specifications/execution-semantics.md:89`).
- `runAs`: `break` inside a `System.runAs` block of a loop passes the reachability
  analysis, and a value-returning method falls off its end (`semantic/flow.rs`,
  `runtime.rs:3040`; `docs/specifications/type-system.md:163`).
- `cyclicSets`: equality of sets that contain themselves depends on which of them
  is on the left (`runtime/value_graph.rs:965`).
- `searches`: a search hydrates the fields it returns, not those its conditions
  read, and takes the time for 0 (`platform/database.rs:571`;
  `docs/COMPATIBILITY.md:306`).
- `having`: HAVING on a grouped field that is not selected reads null
  (`platform/database.rs:1666`; `docs/COMPATIBILITY.md:305`), and `COUNT()` alone
  ignores its HAVING (`platform/database.rs:498`).
- `retagged`: the list of a dynamic query takes the type of its context whatever
  its records are (`runtime/database.rs:200`).
- `topLevelDml`: `insert build();` at top level is taken for a method declaration
  (`parser.rs:98`).

In the model, and left out by the property: the bundled catalog gives `ApexClass`
mixed content (`hybrid/metadata_catalog.json:571`), so that all files of a folder
below `classes/` are one component (`hybrid/metadata.rs:362`), and of a changed
component `select_affected_components` takes the first `.cls` file as the changed
source (`hybrid.rs:1168`), whichever of them changed (`FirstClass`). The components
that depend on the others are left out, although ADR 0019 says (line 40) that unknown
dependency effects cannot silently omit components or tests.
`EvidenceCoversTheChange` therefore promises the dependents of a class that is the
first of its component; without that condition `HybridRuns` finds, in the first live
run, a change to both classes of the folder whose evidence lacks the trigger that
uses the second. The tests are selected by the graph of all sources and are complete.

Outside the model: Apex code may assign the `Id` field of an SObject
(`write_sobject_field`, `runtime.rs:2301`, treats it as any other), and `SetField`
writes the others only. With a before-update trigger that assigns another record's
Id, an upsert writes that record, so that `UpsertsWriteTheirMatches` and
`OutcomesAreTrue` hold of code that leaves Ids to the database. No document of the
repository speaks of that case.

Also: aggregate rows ignore NULLS FIRST and LAST and are keyed by name, so that
two results of one name overwrite each other (`platform/database.rs:1714`, `:1737`);
the order of an aggregate query is not checked to be grouped; an empty result of
a static query is a list of SObject (`runtime/database.rs:1586`); a cast of an
Integer to Decimal always raises (`runtime.rs:3190`;
`docs/specifications/type-system.md:187`); ADR 0027 promises structured row
failures when a trigger throws in a partial request, but on the third attempt of
a group the request throws (`runtime/database.rs:639`), and says an external-Id
upsert updates its match, but an SObject that carries another record's Id
redirects the update there (`platform/database.rs:1154`); the drain bound of
`docs/COMPATIBILITY.md:479` is a bound of each drain, and jobs may start drains;
the depth budget of class initialization is 64 in `docs/ARCHITECTURE.md:143` and
32 in the code; one SObject in two rows of a partial insert shares the state that
ADR 0027 says failed rows keep, so `FailedRowsKeepTheirState` is stated
of rows whose SObject no other row has and no trigger reaches by other ways.

## 6. Not modelled

- SQLite storage: it is not on the path of the interpreter. Schema and metadata:
  tables that do not change once read. Security: lookups in fixtures.
- Oracle comparison, the enterprise runner and the command line: sequences of I/O.
- The methods of the platform classes, of `System` and of exceptions,
  `String.valueOf` and `String.join` (`semantic/intrinsics.rs` from line 714,
  `runtime/platform_intrinsics.rs`): small independent functions, for which tests
  say as much. `Math.random` takes a number of the host.
- The lexer; hashing of values; argument cloning into jobs (`clone_async_value`);
  `Database.*` DML options and result objects; the test window of the counters.
- Of the project compiler, `compile_source_subset` and the readers of JSON and XML;
  of the language server, everything but the refresh of the compiler; debug
  sessions and the REPL.
- A test that reaches a changed class only through a trigger has no dependency
  edge in the code either; the model follows the code and says nothing about it.
- A reference to an SObject that was inserted in a unit of work that was rolled
  back, held elsewhere than in the request, keeps an Id that may be drawn again.

## 7. Plan

Every module of the plan is in place, and every safety property of the state
machines (`LocalDatabase`, `DmlEngine`, `ClassInitialization`, `AsyncRuntime`,
`TestRunner`, `Interpreter`, `ProjectCompiler`, `EnterpriseCi` and
`HybridValidation`) is a theorem. What is only model-checked stays so for the
reasons given in section 4. The model would grow next where section 6 says that it
ends: the lexer, the platform classes, DML options and result objects, and the
Oracle comparison.
