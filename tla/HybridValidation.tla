-------------------------- MODULE HybridValidation --------------------------
(***************************************************************************)
(* Hybrid validation (src/hybrid.rs, src/hybrid/metadata.rs): one run      *)
(* joins the local lane, hermetic CI, with the Salesforce lane, two        *)
(* retrievals of the org's metadata and a check-only deployment.  A live   *)
(* run seals what it saw into a snapshot; a replay, without any org,       *)
(* reports from a snapshot that must be about the same candidate, the same *)
(* request, the same environment, and recent.  Between any two steps of a  *)
(* run the project may be edited, the org changed, the command line tool   *)
(* upgraded or the CI artifact made again.                                 *)
(*                                                                         *)
(* A project is a function from the paths it has to the versions of their  *)
(* contents; the org is one too.  EnterpriseCi models the inside of ci::run*)
(***************************************************************************)
EXTENDS Dependents, Integers, Functions

CONSTANTS
    None,
    Paths,          \* all paths of interest
    Owner,          \* the component a path is part of, or None (classify)
    Sources,        \* the paths of Apex sources
    Triggers,       \* those that declare no class
    Sidecars,       \* the paths that give a class its profile
    Uses,           \* the sources each source refers to
    TestsOf,        \* the tests each source declares
    Category,       \* of each component: "code", "schema" or "configuration"
    TypeOf,         \* the metadata type of each component
    Rank,           \* the place of each path in the order of paths
    Projects, Orgs, \* the states the project and the org may be changed to
    Original,       \* the one the project starts from
    Environments,   \* API and tool versions and the maximum age asked for
    ChangeLists,
    MaxAge, MaxSkew, Lags,
    MaxChanges, MaxClock, MaxRuns, MaxSnapshots   \* bounds of the exploration

Components == {Owner[f] : f \in Paths} \ {None}

ASSUME HybridAssumption ==
    /\ Sources \subseteq Paths /\ Sidecars \subseteq Paths /\ Triggers \subseteq Sources
    /\ IsFiniteSet(Sources)
    /\ \A project \in Projects \cup {Original} : DOMAIN project \subseteq Paths
    /\ Rank \in [Paths -> Nat] /\ \A f, g \in Paths : Rank[f] = Rank[g] => f = g
    /\ Uses \in [Sources -> SUBSET Sources]
    /\ Category \in [Components -> {"code", "schema", "configuration"}]
    /\ MaxAge \in Nat \ {0} /\ MaxSkew \in Nat /\ Lags \subseteq Nat

VARIABLES
    disk, org, environment, clock,
    manifest,   \* the sealed inputs and the changed paths, or None
    cache,      \* the CI result each manifest would replay
    snapshots,
    run,        \* the run in progress
    report,     \* the last report
    made, changes, runs   \* the number of CI results; bounds

vars == <<disk, org, environment, clock, manifest, cache, snapshots, run, report,
          made, changes, runs>>

Idle == [pc |-> "idle"]

Init ==
    /\ disk = Original /\ org \in Orgs
    /\ environment = CHOOSE e \in Environments : TRUE
    /\ clock = 0 /\ manifest = None /\ cache = <<>> /\ snapshots = {}
    /\ run = Idle /\ report = None
    /\ made = 0 /\ changes = 0 /\ runs = 0

-----------------------------------------------------------------------------
(* Inventories and selections                                              *)

\* The files below the package roots whose component the catalog knows.
Classified(p) == {f \in DOMAIN p : Owner[f] # None}

\* capture: the components and the parts of each, which its digest stands for.
Inventory(p) ==
    [c \in {Owner[f] : f \in Classified(p)} |->
        Restrict(p, {f \in Classified(p) : Owner[f] = c})]

ProfilesOf(p) == Restrict(p, Sidecars \cap DOMAIN p)

Compiled(p) == Sources \cap DOMAIN p

CompiledClasses(p) == Compiled(p) \ Triggers

\* The sources that depend on some of the given ones.
DependentsOf(sources, of) ==
    DependentClosure(of, [f \in sources |-> Uses[f] \cap sources])

\* The components some changed path is part of.
DirectlyChanged(inventory, changed) ==
    {c \in DOMAIN inventory : DOMAIN inventory[c] \cap changed # {}}

\* The file that stands for a component in the dependency graph: the first class file
\* it has.  A folder below classes is one component with all the classes in it.
FirstClass(inventory, c) ==
    LET classes == DOMAIN inventory[c] \cap (Sources \ Triggers)
    IN  {f \in classes : \A g \in classes : Rank[f] <= Rank[g]}

\* Changes the dependency graph says nothing about: unknown or deleted paths, and
\* components that are no class, or one whose first file is not compiled.
\* Mutant: metadata is taken as known.
OnlyUnknownPaths(inventory, compiled, changed) ==
    \E f \in changed : \A c \in DOMAIN inventory : f \notin DOMAIN inventory[c]
IsConservative(inventory, compiled, changed) ==
    \/ \E f \in changed : \A c \in DOMAIN inventory : f \notin DOMAIN inventory[c]
    \/ \E c \in DirectlyChanged(inventory, changed) :
           TypeOf[c] # "ApexClass" \/ FirstClass(inventory, c) \cap compiled = {}

\* select_affected_components
Affected(inventory, compiled, changed) ==
    IF changed = {}
    THEN [mode |-> "All", components |-> DOMAIN inventory, direct |-> {}]
    ELSE LET direct == DirectlyChanged(inventory, changed)
             firsts == UNION {FirstClass(inventory, c) : c \in direct}
             reached == DependentsOf(compiled, firsts)
         IN  IF IsConservative(inventory, compiled, changed)
             THEN [mode |-> "ConservativeAll", components |-> DOMAIN inventory,
                   direct |-> direct]
             ELSE [mode |-> "Impacted", direct |-> direct,
                   components |-> direct \cup DirectlyChanged(inventory, reached)]

\* The tests ci::run selects for the changed paths.
SelectedTests(p, changed) ==
    LET impacted == IF changed # {} /\ changed \subseteq CompiledClasses(p)
                    THEN DependentsOf(Compiled(p), changed) ELSE Compiled(p)
    IN  UNION {TestsOf[f] : f \in impacted}

\* What is asked of the org: each component of the project that is no code,
\* configuration by its whole type, and the affected components.
InScope(local, affected) ==
    {c \in Components :
        \/ c \in affected.components
        \/ c \in DOMAIN local /\ Category[c] = "schema"
        \/ \E d \in DOMAIN local : Category[d] = "configuration" /\ TypeOf[c] = TypeOf[d]}

Retrieved(local, affected) ==
    Restrict(org, {f \in Classified(org) : Owner[f] \in InScope(local, affected)})

Request(r) ==
    [changed |-> manifest.changed, mode |-> r.affected.mode,
     components |-> Restrict(r.local, r.affected.components), tests |-> r.ci.selected]

-----------------------------------------------------------------------------
(* Reports                                                                 *)

NonCode(inventory) == {c \in DOMAIN inventory : Category[c] # "code"}

\* detect_drift.  Mutant: what the org lacks is no drift.
MismatchesOnly(local, remote, direct) ==
    {c \in NonCode(local) \ direct : c \in DOMAIN remote /\ remote[c] # local[c]}
Drift(local, remote, direct) ==
    {c \in NonCode(local) \ direct : c \notin DOMAIN remote \/ remote[c] # local[c]}

\* compare_tests: the selected tests the two sides disagree about.
Disagreements(ci, org_tests) ==
    {t \in ci.selected :
        (IF t \in DOMAIN ci.outcome THEN ci.outcome[t] ELSE "missing") #
        (IF t \in DOMAIN org_tests THEN org_tests[t] ELSE "missing")}

\* The four blockers.
IsReady(r, s) ==
    /\ r.ci.success
    /\ s.success
    /\ Drift(r.local, s.inventory, r.affected.direct) = {}
    /\ Disagreements(r.ci, s.tests) = {}

Report(r, s) ==
    [replayed |-> r.mode = "replay", ready |-> IsReady(r, s), snapshot |-> s,
     ci |-> r.ci, project |-> r.verified, changed |-> manifest.changed, at |-> r.at,
     environment |-> r.environment, raced |-> r.raced \/ s.raced]

-----------------------------------------------------------------------------
(* The steps of a run                                                      *)

\* Changes to the surroundings of a run are bounded.
Change == changes < MaxChanges /\ changes' = changes + 1

\* ci manifest
Seal(changed) ==
    /\ run = Idle /\ runs < MaxRuns
    /\ IF manifest = None THEN UNCHANGED changes ELSE Change
    /\ manifest' = [inputs |-> disk, changed |-> changed]
    /\ manifest' # manifest
    /\ UNCHANGED <<disk, org, environment, clock, cache, snapshots, run, report,
                   made, runs>>

\* validate_capture_age: the clocks of two machines differ.  Mutant: any age.
AnyAge(s, now) == s.captured <= now + MaxSkew
IsRecent(s, now) ==
    /\ s.captured <= now + MaxSkew
    /\ s.captured > now \/ now - s.captured <= MaxAge

Started(mode, snapshot, now) ==
    [pc |-> "verified", mode |-> mode, snapshot |-> snapshot, now |-> now, at |-> clock,
     environment |-> environment, verified |-> disk, raced |-> FALSE,
     local |-> None, affected |-> None, profiles |-> None, ci |-> None,
     remote |-> None, seen |-> None]

\* validate_run_options, verify_inputs, and for a replay the snapshot, its
\* environment (target, org, versions, age asked for) and its age.
BeginLive(lag) ==
    /\ run = Idle /\ runs < MaxRuns /\ lag <= clock
    /\ Cardinality(snapshots) < MaxSnapshots
    /\ manifest # None /\ manifest.inputs = disk
    /\ run' = Started("live", None, clock - lag)
    /\ runs' = runs + 1 /\ report' = None
    /\ UNCHANGED <<disk, org, environment, clock, manifest, cache, snapshots, made, changes>>

BeginReplay(s, lag) ==
    /\ run = Idle /\ runs < MaxRuns /\ lag <= clock
    /\ manifest # None /\ manifest.inputs = disk
    /\ s.environment = environment /\ IsRecent(s, clock - lag)
    /\ run' = Started("replay", s, clock - lag)
    /\ runs' = runs + 1 /\ report' = None
    /\ UNCHANGED <<disk, org, environment, clock, manifest, cache, snapshots, made, changes>>

Advance(r) ==
    /\ run' = r
    /\ UNCHANGED <<disk, org, environment, clock, manifest, snapshots, report, changes, runs>>

CaptureInventory ==
    /\ run.pc = "verified"
    /\ Advance([run EXCEPT !.local = Inventory(disk), !.pc = "inventoried"])
    /\ UNCHANGED <<cache, made>>

\* project::compile and select_affected_components
Compile ==
    /\ run.pc = "inventoried"
    /\ Advance([run EXCEPT !.affected = Affected(run.local, Compiled(disk), manifest.changed),
                           !.profiles = ProfilesOf(disk), !.pc = "compiled"])
    /\ UNCHANGED <<cache, made>>

\* ci::run verifies the inputs again and finds a result of this manifest.
ReuseResult ==
    /\ run.pc = "compiled" /\ manifest.inputs = disk
    /\ manifest \in DOMAIN cache
    /\ Advance([run EXCEPT !.ci = cache[manifest], !.pc = "evaluated"])
    /\ UNCHANGED <<cache, made>>

\* Durations are part of a result, so no two executions have the same digest.
\* The outcomes are those of TestRunner; the policy may refuse passing tests.
Result(outcome, success) ==
    [number |-> made, selected |-> DOMAIN outcome, outcome |-> outcome, success |-> success]

\* A result takes the place of one the manifest had.
Put(m, result) == [n \in DOMAIN cache \cup {m} |-> IF n = m THEN result ELSE cache[n]]

Outcomes(tests) == [tests -> {"pass", "fail"}]

\* Without a result a live run makes one; a replay ends in an error.
Execute(outcome, success) ==
    /\ run.pc = "compiled" /\ manifest.inputs = disk
    /\ run.mode = "live" /\ manifest \notin DOMAIN cache
    /\ success => \A t \in DOMAIN outcome : outcome[t] = "pass"
    /\ cache' = Put(manifest, Result(outcome, success))
    /\ made' = made + 1
    /\ Advance([run EXCEPT !.ci = Result(outcome, success), !.pc = "evaluated"])

\* The two retrievals must normalise identically; otherwise the run ends in an
\* error, see Stop.
Retrieve ==
    /\ run.pc = "evaluated" /\ run.mode = "live"
    /\ Advance([run EXCEPT !.remote = Inventory(Retrieved(run.local, run.affected)),
                           !.seen = org, !.pc = "retrieved"])
    /\ UNCHANGED <<cache, made>>

RetrieveAgain ==
    /\ run.pc = "retrieved"
    /\ Inventory(Retrieved(run.local, run.affected)) = run.remote
    /\ Advance([run EXCEPT !.pc = "confirmed"])
    /\ UNCHANGED <<cache, made>>

\* The check-only deployment of the affected components as they are on the disk now,
\* with the selected tests; what the org answers is its own affair.  A failure is
\* evidence too.
Evidence(tests, success) ==
    [candidate |-> [manifest |-> manifest, number |-> run.ci.number],
     request |-> Request(run), profiles |-> run.profiles,
     environment |-> run.environment, captured |-> run.now,
     inventory |-> run.remote, success |-> success, tests |-> tests,
     at |-> run.at, project |-> run.verified, seen |-> run.seen, raced |-> run.raced]

DryRun(tests, success) ==
    /\ run.pc = "confirmed"
    /\ snapshots' = snapshots \cup {Evidence(tests, success)}
    /\ report' = Report(run, Evidence(tests, success))
    /\ run' = Idle
    /\ UNCHANGED <<disk, org, environment, clock, manifest, cache, made, changes, runs>>

\* validate_candidate_binding
IsBound(r, s) ==
    /\ s.candidate = [manifest |-> manifest, number |-> r.ci.number]
    /\ s.profiles = r.profiles
    /\ s.request = Request(r)

Replay ==
    /\ run.pc = "evaluated" /\ run.mode = "replay"
    /\ IsBound(run, run.snapshot)
    /\ report' = Report(run, run.snapshot)
    /\ run' = Idle
    /\ UNCHANGED <<disk, org, environment, clock, manifest, cache, snapshots,
                   made, changes, runs>>

\* An error: inputs that changed, no artifact to replay, evidence that is not
\* bound, retrievals that differ, a failing tool; or the process dies.
Stop ==
    /\ run # Idle
    /\ run' = Idle
    /\ UNCHANGED <<disk, org, environment, clock, manifest, cache, snapshots, report,
                   made, changes, runs>>

-----------------------------------------------------------------------------
(* The environment.  The clock, the tools, the artifact and, but for a live *)
(* run, the org are read by one step of a run: their changes under a run    *)
(* are those before or after it.                                            *)

Edit(project) ==
    /\ Change /\ project # disk
    /\ disk' = project
    /\ run' = IF run = Idle THEN Idle ELSE [run EXCEPT !.raced = TRUE]
    /\ UNCHANGED <<org, environment, clock, manifest, cache, snapshots, report, made, runs>>

ChangeOrg(contents) ==
    /\ run # Idle /\ run.mode = "live"
    /\ Change /\ contents # org
    /\ org' = contents
    /\ UNCHANGED <<disk, environment, clock, manifest, cache, snapshots, run, report,
                   made, runs>>

Upgrade(e) ==
    /\ run = Idle /\ Change /\ e # environment
    /\ environment' = e
    /\ UNCHANGED <<disk, org, clock, manifest, cache, snapshots, run, report, made, runs>>

\* Another process removes the artifact and makes it anew.
Remake(outcome, success) ==
    /\ run = Idle /\ Change /\ manifest # None /\ manifest.inputs = disk
    /\ success => \A t \in DOMAIN outcome : outcome[t] = "pass"
    /\ cache' = Put(manifest, Result(outcome, success))
    /\ made' = made + 1
    /\ UNCHANGED <<disk, org, environment, clock, manifest, snapshots, run, report, runs>>

Tick ==
    /\ run = Idle /\ clock < MaxClock
    /\ clock' = clock + 1
    /\ UNCHANGED <<disk, org, environment, manifest, cache, snapshots, run, report,
                   made, changes, runs>>

Next ==
    \/ \E changed \in ChangeLists : Seal(changed)
    \/ \E lag \in Lags : BeginLive(lag)
    \/ \E lag \in Lags, s \in snapshots : BeginReplay(s, lag)
    \/ run # Idle /\
        \/ CaptureInventory \/ Compile \/ ReuseResult
        \/ \E success \in BOOLEAN :
            \E outcome \in Outcomes(SelectedTests(disk, manifest.changed)) :
                Execute(outcome, success)
        \/ Retrieve \/ RetrieveAgain
        \/ run.pc = "confirmed" /\ \E success \in BOOLEAN, ran \in SUBSET run.ci.selected :
            \E tests \in Outcomes(ran) : DryRun(tests, success)
        \/ Replay \/ Stop
    \/ \E project \in Projects : Edit(project)
    \/ \E contents \in Orgs : ChangeOrg(contents)
    \/ \E e \in Environments : Upgrade(e)
    \/ manifest # None /\ \E success \in BOOLEAN :
        \E outcome \in Outcomes(SelectedTests(disk, manifest.changed)) : Remake(outcome, success)
    \/ Tick

Spec == Init /\ [][Next]_vars

-----------------------------------------------------------------------------
(* Properties                                                              *)

\* A ready report rests on both lanes: every selected test passed locally and in
\* the org, in a live run on the same project, change, CI result and
\* environment, that is not older than the maximum age and the clocks' difference.
ReadyReportsAreBacked ==
    report # None /\ report.ready =>
        LET s == report.snapshot
        IN  /\ s \in snapshots /\ s.success
            /\ s.project = report.project /\ s.request.changed = report.changed
            /\ s.candidate.number = report.ci.number /\ s.environment = report.environment
            /\ report.replayed =>
                \E slack \in Lags \cup {0} : report.at - s.at <= MaxAge + slack
            /\ \A t \in SelectedTests(report.project, report.changed) :
                /\ report.ci.outcome[t] = "pass"
                /\ t \in DOMAIN s.tests /\ s.tests[t] = "pass"

\* A ready report means that schema and configuration which nobody said to have
\* changed were in the org, when it was read, as they are in the project (no edit
\* raced the runs).
UnchangedMetadataAgrees ==
    report # None /\ report.ready /\ ~report.raced =>
        LET local == Inventory(report.project)
            remote == Inventory(report.snapshot.seen)
        IN  \A c \in NonCode(local) :
                \/ \E f \in report.changed : Owner[f] = c
                \/ c \in DOMAIN remote /\ remote[c] = local[c]

\* A source depends on another: it is in each set that has the other and the users of
\* what it has.
Reaches(p, f, g) ==
    \A part \in SUBSET Compiled(p) :
        /\ g \in part
        /\ \A h \in Compiled(p) : Uses[h] \cap part # {} => h \in part
        => f \in part

\* The evidence of any report, a live or a replayed one, is about the tests that
\* depend on a changed source, and about the components that are changed or depend on
\* a changed class that is the first of its component; about all tests if anything
\* but classes has changed, and about all components if nothing is said to have
\* changed, or something no component or no class component has.
EvidenceCoversTheChange ==
    report # None /\ ~report.raced =>
        LET p == report.project
            changed == report.changed
            inventory == Inventory(p)
            components == DOMAIN report.snapshot.request.components
            Covers(f) == f \in Classified(p) => Owner[f] \in components
        IN  /\ \A f \in changed : Covers(f)
            /\ \A f \in Compiled(p), g \in changed \cap Compiled(p) :
                \/ /\ TestsOf[f] \subseteq report.ci.selected
                   /\ g \in FirstClass(inventory, Owner[g]) => Covers(f)
                \/ ~Reaches(p, f, g)
            /\ ~(changed \subseteq CompiledClasses(p)) =>
                UNION {TestsOf[f] : f \in Compiled(p)} \subseteq report.ci.selected
            /\ (changed = {} \/ \E f \in changed :
                    f \in Classified(p) => TypeOf[Owner[f]] # "ApexClass") =>
                DOMAIN inventory \subseteq components

=============================================================================
