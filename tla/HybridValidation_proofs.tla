------------------------ MODULE HybridValidation_proofs ------------------------
(***************************************************************************)
(* What holds of HybridValidation for every project, org, dependency graph *)
(* and number of runs, changes and snapshots.  The evidence a report rests *)
(* on is gathered over many steps of perhaps two runs; the invariant says  *)
(* what each part of it is about as soon as it is there, in the run, in    *)
(* the cache and in the snapshots, and that the clock of the snapshot was  *)
(* within the age asked for when the run began.                            *)
(***************************************************************************)
EXTENDS HybridValidation, Dependents_proofs

\* The result of hermetic CI for a manifest.
IsResult(ci, m) ==
    /\ ci.selected = SelectedTests(m.inputs, m.changed)
    /\ DOMAIN ci.outcome = ci.selected
    /\ ci.success => \A t \in ci.selected : ci.outcome[t] = "pass"

\* What an inventory of a retrieval has of a component is all the org had of it.
AgreesWith(inventory, contents) ==
    \A c \in DOMAIN inventory :
        c \in DOMAIN Inventory(contents) /\ inventory[c] = Inventory(contents)[c]

\* A snapshot is about the project its candidate was sealed from.
IsSnapshot(s) ==
    /\ s.project = s.candidate.manifest.inputs
    /\ s.at \in Nat /\ s.captured \in Int /\ s.captured <= s.at
    /\ AgreesWith(s.inventory, s.seen)

\* A run that replays has a snapshot of its environment that is recent enough.
ReplaysRecentSnapshot(r) ==
    /\ r.snapshot \in snapshots
    /\ r.snapshot.environment = r.environment
    /\ \E lag \in Lags : r.at - r.snapshot.at <= MaxAge + lag

Phases == {"verified", "inventoried", "compiled", "evaluated", "retrieved", "confirmed"}

RunFields == {"pc", "mode", "snapshot", "now", "at", "environment", "verified", "raced",
              "local", "affected", "profiles", "ci", "remote", "seen"}

IsRun(r) ==
    /\ DOMAIN r = RunFields
    /\ r.pc \in Phases /\ r.mode \in {"live", "replay"} /\ r.raced \in BOOLEAN

\* Each part of a run is about the sealed inputs it has verified, or the project
\* has been edited meanwhile.
RunIsSound(r) ==
    /\ IsRun(r)
    /\ manifest # None /\ r.verified = manifest.inputs /\ DOMAIN r.verified \subseteq Paths
    /\ r.at \in Nat /\ r.now \in Int /\ r.now <= r.at
    /\ r.mode = "replay" => ReplaysRecentSnapshot(r)
    /\ ~r.raced =>
        /\ disk = r.verified
        /\ r.pc # "verified" => r.local = Inventory(r.verified)
        /\ r.pc \notin {"verified", "inventoried"} =>
               r.affected = Affected(Inventory(r.verified), Compiled(r.verified), manifest.changed)
    /\ r.pc \in {"evaluated", "retrieved", "confirmed"} => IsResult(r.ci, manifest)
    /\ r.pc \in {"retrieved", "confirmed"} => r.mode = "live" /\ AgreesWith(r.remote, r.seen)

HybridInvariant ==
    /\ clock \in Nat /\ DOMAIN disk \subseteq Paths
    /\ \A m \in DOMAIN cache : IsResult(cache[m], m)
    /\ \A s \in snapshots : IsSnapshot(s)
    /\ run # Idle => RunIsSound(run)
    /\ ReadyReportsAreBacked
    /\ UnchangedMetadataAgrees
    /\ EvidenceCoversTheChange

-----------------------------------------------------------------------------
(* Inventories and selections                                              *)

\* A file of a component's inventory is one of its files.
LEMMA InventoryFiles ==
    ASSUME NEW p
    PROVE  /\ \A c : c \in DOMAIN Inventory(p) <=> \E f \in Classified(p) : Owner[f] = c
           /\ \A c \in DOMAIN Inventory(p) : \A f :
                  f \in DOMAIN Inventory(p)[c] <=> f \in Classified(p) /\ Owner[f] = c
<1>1. \A c : c \in DOMAIN Inventory(p) <=> \E f \in Classified(p) : Owner[f] = c
  BY DEF Inventory
<1>2. \A c \in DOMAIN Inventory(p) :
          DOMAIN Inventory(p)[c] = {f \in Classified(p) : Owner[f] = c}
  BY DEF Inventory, Restrict
<1> QED
  BY <1>1, <1>2

LEMMA RetrievalAgrees ==
    ASSUME NEW contents, NEW scope
    PROVE  AgreesWith(Inventory(Restrict(contents, {f \in Classified(contents) : Owner[f] \in scope})),
                      contents)
<1> DEFINE kept == {f \in Classified(contents) : Owner[f] \in scope}
           some == Restrict(contents, kept)
<1>1. DOMAIN some = kept /\ \A f \in kept : some[f] = contents[f]
  BY DEF Restrict
<1> HIDE DEF some
<1>2. Classified(some) = kept
  BY <1>1 DEF Classified
<1>3. ASSUME NEW c \in DOMAIN Inventory(some)
      PROVE  c \in DOMAIN Inventory(contents) /\ Inventory(some)[c] = Inventory(contents)[c]
  <2>1. c \in {Owner[f] : f \in kept}
    BY <1>2, <1>3, InventoryFiles
  <2>2. c \in scope /\ c \in {Owner[f] : f \in Classified(contents)}
    BY <2>1
  <2>3. {f \in kept : Owner[f] = c} = {f \in Classified(contents) : Owner[f] = c}
    BY <2>2
  <2>4. Inventory(some)[c] = [f \in {f \in kept : Owner[f] = c} |-> some[f]]
    BY <1>2, <2>1 DEF Inventory, Restrict
  <2>5. Inventory(contents)[c] = [f \in {f \in Classified(contents) : Owner[f] = c} |-> contents[f]]
    BY <2>2 DEF Inventory, Restrict
  <2>6. Inventory(some)[c] = Inventory(contents)[c]
    BY <1>1, <2>3, <2>4, <2>5
  <2> QED
    BY <2>2, <2>6, InventoryFiles
<1> QED
  BY <1>3 DEF AgreesWith, some

\* What reaches a source of some set is among its dependents.
LEMMA ReachersDepend ==
    ASSUME NEW p, NEW of, NEW f \in Compiled(p), NEW g \in of \cap Compiled(p), Reaches(p, f, g)
    PROVE  f \in DependentsOf(Compiled(p), of)
<1> DEFINE graph == [h \in Compiled(p) |-> Uses[h] \cap Compiled(p)]
           D == DependentClosure(of, graph)
           part == D \cap Compiled(p)
<1>1. IsFiniteSet(DOMAIN graph)
  <2>1. Compiled(p) \in SUBSET Sources
    BY DEF Compiled
  <2> QED
    BY <2>1, HybridAssumption, FS_Subset
<1> HIDE DEF graph
<1>2. of \subseteq D /\ IsClosed(D, graph)
  BY <1>1, ClosureIsLeast
<1> HIDE DEF D
<1>3. ASSUME NEW h \in Compiled(p), Uses[h] \cap part # {}
      PROVE  h \in part
  <2>1. h \in DOMAIN graph /\ graph[h] \cap D # {}
    BY <1>3 DEF graph
  <2> QED
    BY <1>2, <2>1 DEF IsClosed
<1>4. f \in part
  <2>1. part \in SUBSET Compiled(p) /\ g \in part
    BY <1>2
  <2> HIDE DEF part
  <2> QED
    BY <1>3, <2>1 DEF Reaches
<1> QED
  BY <1>4 DEF DependentsOf, graph, D

\* The affected components are those that are changed, those of every source that
\* reaches a changed one that is the first of its component, and all of them if the
\* dependency graph says nothing about the change.
LEMMA AffectedCovers ==
    ASSUME NEW p, NEW changed
    PROVE  LET inventory == Inventory(p)
               components == Affected(inventory, Compiled(p), changed).components
           IN  /\ \A f \in changed \cap Classified(p) : Owner[f] \in components
               /\ \A f \in Compiled(p) \cap Classified(p), g \in changed \cap Compiled(p) :
                      Reaches(p, f, g) /\ g \in FirstClass(inventory, Owner[g]) =>
                          Owner[f] \in components
               /\ (changed = {} \/ \E f \in changed :
                       f \in Classified(p) => TypeOf[Owner[f]] # "ApexClass") =>
                      DOMAIN inventory \subseteq components
<1> DEFINE inventory == Inventory(p)
           direct == DirectlyChanged(inventory, changed)
           firsts == UNION {FirstClass(inventory, c) : c \in direct}
           reached == DependentsOf(Compiled(p), firsts)
           conservative == IsConservative(inventory, Compiled(p), changed)
           components == Affected(inventory, Compiled(p), changed).components
<1>1. changed = {} \/ conservative => components = DOMAIN inventory
  BY DEF Affected
<1>2. changed # {} /\ ~conservative => components = direct \cup DirectlyChanged(inventory, reached)
  BY DEF Affected
<1>3. \A f \in Classified(p) : Owner[f] \in DOMAIN inventory /\ f \in DOMAIN inventory[Owner[f]]
  BY InventoryFiles
<1>4. \A f \in changed \cap Classified(p) : Owner[f] \in direct
  BY <1>3 DEF DirectlyChanged
<1>5. ASSUME NEW f \in changed \cap Classified(p) PROVE Owner[f] \in components
  BY <1>1, <1>2, <1>3, <1>4
<1>6. ASSUME NEW f \in Compiled(p) \cap Classified(p), NEW g \in changed \cap Compiled(p),
             Reaches(p, f, g), g \in FirstClass(inventory, Owner[g])
      PROVE  Owner[f] \in components
  <2>1. CASE conservative
    BY <1>1, <1>3, <2>1
  <2>2. CASE ~conservative
    <3>1. PICK c \in DOMAIN inventory : g \in DOMAIN inventory[c]
      BY <2>2 DEF IsConservative
    <3>2. Owner[g] \in direct
      BY <1>4, <3>1, InventoryFiles
    <3>3. g \in firsts
      BY <1>6, <3>2
    <3> HIDE DEF firsts
    <3>4. f \in reached
      BY <1>6, <3>3, ReachersDepend
    <3> HIDE DEF reached
    <3>5. Owner[f] \in DirectlyChanged(inventory, reached)
      BY <1>3, <3>4 DEF DirectlyChanged
    <3>6. changed # {}
      OBVIOUS
    <3> QED
      BY <1>2, <2>2, <3>5, <3>6
  <2> QED
    BY <2>1, <2>2
<1>7. ASSUME NEW f \in changed, f \in Classified(p) => TypeOf[Owner[f]] # "ApexClass"
      PROVE  conservative
  <2>1. CASE f \in Classified(p)
    BY <1>4, <1>7, <2>1 DEF IsConservative
  <2>2. CASE f \notin Classified(p)
    BY <2>2, InventoryFiles DEF IsConservative
  <2> QED
    BY <2>1, <2>2
<1> HIDE DEF conservative
<1> QED
  BY <1>1, <1>5, <1>6, <1>7

LEMMA SelectionCovers ==
    ASSUME NEW p, NEW changed
    PROVE  /\ \A f \in Compiled(p), g \in changed \cap Compiled(p) :
                  Reaches(p, f, g) => TestsOf[f] \subseteq SelectedTests(p, changed)
           /\ ~(changed \subseteq CompiledClasses(p)) =>
                  UNION {TestsOf[f] : f \in Compiled(p)} \subseteq SelectedTests(p, changed)
<1> DEFINE impacted == IF changed # {} /\ changed \subseteq CompiledClasses(p)
                       THEN DependentsOf(Compiled(p), changed) ELSE Compiled(p)
<1>1. SelectedTests(p, changed) = UNION {TestsOf[f] : f \in impacted}
  BY DEF SelectedTests
<1>2. ASSUME NEW f \in Compiled(p), NEW g \in changed \cap Compiled(p), Reaches(p, f, g)
      PROVE  f \in impacted
  BY <1>2, ReachersDepend
<1>3. ~(changed \subseteq CompiledClasses(p)) => impacted = Compiled(p)
  OBVIOUS
<1> HIDE DEF impacted
<1> QED
  BY <1>1, <1>2, <1>3

-----------------------------------------------------------------------------
(* Reports                                                                 *)

\* A report from evidence about what the run has verified is a good one,
\* whether the run has just gathered the evidence or found it in a snapshot.
LEMMA ReportsAreSound ==
    ASSUME RunIsSound(run), run.pc \notin {"verified", "inventoried"}, IsResult(run.ci, manifest),
           NEW s, IsSnapshot(s), s \in snapshots',
           s.project = run.verified, s.request = Request(run),
           s.candidate.number = run.ci.number, s.environment = run.environment,
           run.mode = "replay" => \E lag \in Lags : run.at - s.at <= MaxAge + lag,
           report' = Report(run, s)
    PROVE  ReadyReportsAreBacked' /\ UnchangedMetadataAgrees' /\ EvidenceCoversTheChange'
<1> DEFINE r == report'
<1>1. /\ r.replayed = (run.mode = "replay") /\ r.snapshot = s /\ r.ci = run.ci
      /\ r.project = run.verified /\ r.changed = manifest.changed /\ r.at = run.at
      /\ r.environment = run.environment
      /\ r.ready = IsReady(run, s) /\ r.raced = (run.raced \/ s.raced)
  BY DEF Report
<1>2. run.verified = manifest.inputs /\ DOMAIN run.verified \subseteq Paths /\ run.raced \in BOOLEAN
  BY DEF RunIsSound, IsRun
<1> HIDE DEF r
<1>3. ASSUME r.ready
      PROVE  /\ run.ci.success /\ s.success
             /\ Drift(run.local, s.inventory, run.affected.direct) = {}
             /\ Disagreements(run.ci, s.tests) = {}
  BY <1>1, <1>3 DEF IsReady
<1>4. ASSUME r.ready, NEW t \in SelectedTests(r.project, r.changed)
      PROVE  r.ci.outcome[t] = "pass" /\ t \in DOMAIN s.tests /\ s.tests[t] = "pass"
  <2>1. t \in run.ci.selected /\ t \in DOMAIN run.ci.outcome /\ run.ci.outcome[t] = "pass"
    BY <1>1, <1>2, <1>3, <1>4 DEF IsResult
  <2>2. ~((IF t \in DOMAIN run.ci.outcome THEN run.ci.outcome[t] ELSE "missing") #
          (IF t \in DOMAIN s.tests THEN s.tests[t] ELSE "missing"))
    BY <1>3, <1>4, <2>1 DEF Disagreements
  <2>3. t \in DOMAIN s.tests
    BY <2>1, <2>2
  <2> QED
    BY <1>1, <2>1, <2>2, <2>3
<1>5. ReadyReportsAreBacked'
  <2>1. s.request.changed = manifest.changed
    BY DEF Request
  <2>2. r.replayed => \E slack \in Lags \cup {0} : r.at - s.at <= MaxAge + slack
    BY <1>1
  <2>3. r.ready =>
          /\ s \in snapshots' /\ s.success
          /\ s.project = r.project /\ s.request.changed = r.changed
          /\ s.candidate.number = r.ci.number /\ s.environment = r.environment
    BY <1>1, <1>3, <2>1
  <2> QED
    BY <1>1, <1>4, <2>2, <2>3 DEF ReadyReportsAreBacked, r
<1>6. ~r.raced =>
          run.affected = Affected(Inventory(r.project), Compiled(r.project), r.changed)
          /\ run.local = Inventory(r.project)
  BY <1>1, <1>2 DEF RunIsSound, IsRun
<1>7. ASSUME r.ready, ~r.raced, NEW c \in NonCode(Inventory(r.project))
      PROVE  \/ \E f \in r.changed : Owner[f] = c
             \/ /\ c \in DOMAIN Inventory(s.seen)
                /\ Inventory(s.seen)[c] = Inventory(r.project)[c]
  <2>1. c \notin Drift(run.local, s.inventory, run.affected.direct) /\ run.local = Inventory(r.project)
    BY <1>3, <1>6, <1>7
  <2>2. CASE c \in run.affected.direct
    <3>1. c \in DirectlyChanged(run.local, r.changed)
      BY <1>6, <1>7, <2>1, <2>2 DEF Affected
    <3>2. \E f \in r.changed : f \in DOMAIN Inventory(r.project)[c]
      BY <2>1, <3>1 DEF DirectlyChanged
    <3>3. c \in DOMAIN Inventory(r.project)
      BY DEF NonCode
    <3> QED
      BY <3>2, <3>3, InventoryFiles
  <2>3. CASE c \notin run.affected.direct
    <3>1. c \in DOMAIN s.inventory /\ s.inventory[c] = Inventory(r.project)[c]
      BY <2>1, <2>3 DEF Drift
    <3> QED
      BY <3>1 DEF IsSnapshot, AgreesWith
  <2> QED
    BY <2>2, <2>3
<1>8. UnchangedMetadataAgrees'
  BY <1>1, <1>7 DEF UnchangedMetadataAgrees, r
<1>9. ASSUME ~r.raced
      PROVE  DOMAIN s.request.components =
                 Affected(Inventory(r.project), Compiled(r.project), r.changed).components
  BY <1>6, <1>9 DEF Request, Restrict
<1>10. r.ci.selected = SelectedTests(r.project, r.changed)
  BY <1>1, <1>2 DEF IsResult
<1>11. EvidenceCoversTheChange'
  <2> DEFINE p == r.project
             changed == r.changed
             inventory == Inventory(p)
             components == DOMAIN r.snapshot.request.components
             Covers(f) == f \in Classified(p) => Owner[f] \in components
  <2> SUFFICES ASSUME ~r.raced
               PROVE  /\ \A f \in changed : Covers(f)
                      /\ \A f \in Compiled(p), g \in changed \cap Compiled(p) :
                            \/ /\ TestsOf[f] \subseteq r.ci.selected
                               /\ g \in FirstClass(inventory, Owner[g]) => Covers(f)
                            \/ ~Reaches(p, f, g)
                      /\ ~(changed \subseteq CompiledClasses(p)) =>
                            UNION {TestsOf[f] : f \in Compiled(p)} \subseteq r.ci.selected
                      /\ (changed = {} \/ \E f \in changed :
                              f \in Classified(p) => TypeOf[Owner[f]] # "ApexClass") =>
                            DOMAIN inventory \subseteq components
    BY DEF EvidenceCoversTheChange, r
  <2>1. components = Affected(inventory, Compiled(p), changed).components
    BY <1>1, <1>9
  <2> HIDE DEF components
  <2>2. /\ \A f \in changed : Covers(f)
        /\ (changed = {} \/ \E f \in changed :
                f \in Classified(p) => TypeOf[Owner[f]] # "ApexClass") =>
              DOMAIN inventory \subseteq components
    BY <2>1, AffectedCovers
  <2>3. ASSUME NEW f \in Compiled(p), NEW g \in changed \cap Compiled(p), Reaches(p, f, g)
        PROVE  /\ TestsOf[f] \subseteq r.ci.selected
               /\ g \in FirstClass(inventory, Owner[g]) => Covers(f)
    <3>1. TestsOf[f] \subseteq r.ci.selected
      BY <1>10, <2>3, SelectionCovers
    <3>2. g \in FirstClass(inventory, Owner[g]) => Covers(f)
      BY <2>1, <2>3, AffectedCovers
    <3> QED
      BY <3>1, <3>2
  <2>4. ~(changed \subseteq CompiledClasses(p)) =>
            UNION {TestsOf[f] : f \in Compiled(p)} \subseteq r.ci.selected
    BY <1>10, SelectionCovers
  <2> QED
    BY <2>2, <2>3, <2>4
<1> QED
  BY <1>5, <1>8, <1>11

\* Snapshots are never removed, and a report that stays stays true.
LEMMA ReportKept ==
    ASSUME HybridInvariant, report' = report \/ report' = None, snapshots \subseteq snapshots'
    PROVE  ReadyReportsAreBacked' /\ UnchangedMetadataAgrees' /\ EvidenceCoversTheChange'
<1>1. ReadyReportsAreBacked /\ UnchangedMetadataAgrees /\ EvidenceCoversTheChange
  BY DEF HybridInvariant
<1>2. ReadyReportsAreBacked'
  BY <1>1 DEF ReadyReportsAreBacked
<1>3. UnchangedMetadataAgrees'
  BY <1>1 DEF UnchangedMetadataAgrees
<1>4. EvidenceCoversTheChange'
  BY <1>1 DEF EvidenceCoversTheChange
<1> QED
  BY <1>2, <1>3, <1>4

-----------------------------------------------------------------------------
(* The steps                                                               *)

\* An idle run is not in one of the phases.
LEMMA IdleHasNoPhase ==
    \A r : IsRun(r) => r # Idle /\ r.pc # "idle"
BY DEF IsRun, Idle, Phases

LEMMA InitSound == Init => HybridInvariant
BY HybridAssumption DEF Init, HybridInvariant, ReadyReportsAreBacked, UnchangedMetadataAgrees,
                        EvidenceCoversTheChange

\* A run that goes on without touching the snapshots, the manifest or the disk
\* answers for itself.
LEMMA AdvanceSound ==
    ASSUME HybridInvariant, run # Idle, NEW r, Advance(r), RunIsSound(r),
           \A m \in DOMAIN cache' : IsResult(cache'[m], m)
    PROVE  HybridInvariant'
<1>1. RunIsSound(run)'
  BY DEF Advance, RunIsSound, ReplaysRecentSnapshot
<1>2. ReadyReportsAreBacked' /\ UnchangedMetadataAgrees' /\ EvidenceCoversTheChange'
  BY ReportKept DEF Advance
<1> QED
  BY <1>1, <1>2 DEF HybridInvariant, Advance

LEMMA CaptureInventorySound ==
    ASSUME HybridInvariant, run # Idle, CaptureInventory
    PROVE  HybridInvariant'
<1> DEFINE r == [run EXCEPT !.local = Inventory(disk), !.pc = "inventoried"]
<1>1. RunIsSound(run) /\ run.pc = "verified"
  BY DEF HybridInvariant, CaptureInventory
<1>2. /\ IsRun(r)
      /\ r.pc = "inventoried" /\ r.mode = run.mode /\ r.snapshot = run.snapshot
      /\ r.now = run.now /\ r.at = run.at /\ r.environment = run.environment
      /\ r.verified = run.verified /\ r.raced = run.raced /\ r.local = Inventory(disk)
      /\ r.affected = run.affected /\ r.profiles = run.profiles /\ r.ci = run.ci
      /\ r.remote = run.remote /\ r.seen = run.seen
  BY <1>1 DEF RunIsSound, IsRun, RunFields, Phases
<1>3. Advance(r) /\ cache' = cache
  BY DEF CaptureInventory
<1> HIDE DEF r
<1>4. RunIsSound(r)
  BY <1>1, <1>2 DEF RunIsSound, IsRun, Phases, ReplaysRecentSnapshot
<1> QED
  BY <1>3, <1>4, AdvanceSound DEF HybridInvariant

LEMMA CompileSound ==
    ASSUME HybridInvariant, run # Idle, Compile
    PROVE  HybridInvariant'
<1> DEFINE affected == Affected(run.local, Compiled(disk), manifest.changed)
           r == [run EXCEPT !.affected = affected, !.profiles = ProfilesOf(disk), !.pc = "compiled"]
<1>1. RunIsSound(run) /\ run.pc = "inventoried"
  BY DEF HybridInvariant, Compile
<1>2. ~run.raced => affected = Affected(Inventory(run.verified), Compiled(run.verified),
                                        manifest.changed)
  BY <1>1 DEF RunIsSound
<1>3. Advance(r) /\ cache' = cache
  BY DEF Compile
<1> HIDE DEF affected
<1>4. /\ IsRun(r)
      /\ r.pc = "compiled" /\ r.mode = run.mode /\ r.snapshot = run.snapshot
      /\ r.now = run.now /\ r.at = run.at /\ r.environment = run.environment
      /\ r.verified = run.verified /\ r.raced = run.raced /\ r.local = run.local
      /\ r.affected = affected /\ r.profiles = ProfilesOf(disk) /\ r.ci = run.ci
      /\ r.remote = run.remote /\ r.seen = run.seen
  BY <1>1 DEF RunIsSound, IsRun, RunFields, Phases
<1> HIDE DEF r
<1>5. RunIsSound(r)
  BY <1>1, <1>2, <1>4 DEF RunIsSound, IsRun, Phases, ReplaysRecentSnapshot
<1> QED
  BY <1>3, <1>5, AdvanceSound DEF HybridInvariant

\* A result that is found or made is one of the verified manifest.
LEMMA EvaluatedSound ==
    ASSUME HybridInvariant, run # Idle, run.pc = "compiled", NEW ci, IsResult(ci, manifest),
           Advance([run EXCEPT !.ci = ci, !.pc = "evaluated"]),
           \A m \in DOMAIN cache' : IsResult(cache'[m], m)
    PROVE  HybridInvariant'
<1> DEFINE r == [run EXCEPT !.ci = ci, !.pc = "evaluated"]
<1>1. RunIsSound(run) /\ Advance(r)
  BY DEF HybridInvariant
<1>2. /\ IsRun(r)
      /\ r.pc = "evaluated" /\ r.mode = run.mode /\ r.snapshot = run.snapshot
      /\ r.now = run.now /\ r.at = run.at /\ r.environment = run.environment
      /\ r.verified = run.verified /\ r.raced = run.raced /\ r.local = run.local
      /\ r.affected = run.affected /\ r.profiles = run.profiles /\ r.ci = ci
      /\ r.remote = run.remote /\ r.seen = run.seen
  BY <1>1 DEF RunIsSound, IsRun, RunFields, Phases
<1> HIDE DEF r
<1>3. RunIsSound(r)
  BY <1>1, <1>2 DEF RunIsSound, IsRun, Phases, ReplaysRecentSnapshot
<1> QED
  BY <1>1, <1>3, AdvanceSound

LEMMA MadeResult ==
    ASSUME HybridInvariant, manifest.inputs = disk,
           NEW outcome \in Outcomes(SelectedTests(disk, manifest.changed)), NEW success \in BOOLEAN,
           success => \A t \in DOMAIN outcome : outcome[t] = "pass"
    PROVE  /\ IsResult(Result(outcome, success), manifest)
           /\ cache' = Put(manifest, Result(outcome, success)) =>
                  \A m \in DOMAIN cache' : IsResult(cache'[m], m)
<1>1. IsResult(Result(outcome, success), manifest)
  BY DEF Result, IsResult, Outcomes
<1>2. \A m \in DOMAIN cache : IsResult(cache[m], m)
  BY DEF HybridInvariant
<1> DEFINE made1 == Result(outcome, success)
<1> HIDE DEF made1
<1>3. cache' = Put(manifest, made1) /\ IsResult(made1, manifest) =>
          \A m \in DOMAIN cache' : IsResult(cache'[m], m)
  BY <1>2 DEF Put
<1> QED
  BY <1>1, <1>3 DEF made1

LEMMA RetrieveSound ==
    ASSUME HybridInvariant, run # Idle, Retrieve
    PROVE  HybridInvariant'
<1> DEFINE remote == Inventory(Retrieved(run.local, run.affected))
           r == [run EXCEPT !.remote = remote, !.seen = org, !.pc = "retrieved"]
<1>1. RunIsSound(run) /\ run.pc = "evaluated" /\ run.mode = "live"
  BY DEF HybridInvariant, Retrieve
<1>2. AgreesWith(remote, org)
  BY RetrievalAgrees DEF Retrieved
<1>3. Advance(r) /\ cache' = cache
  BY DEF Retrieve
<1> HIDE DEF remote
<1>4. /\ IsRun(r)
      /\ r.pc = "retrieved" /\ r.mode = run.mode /\ r.snapshot = run.snapshot
      /\ r.now = run.now /\ r.at = run.at /\ r.environment = run.environment
      /\ r.verified = run.verified /\ r.raced = run.raced /\ r.local = run.local
      /\ r.affected = run.affected /\ r.profiles = run.profiles /\ r.ci = run.ci
      /\ r.remote = remote /\ r.seen = org
  BY <1>1 DEF RunIsSound, IsRun, RunFields, Phases
<1> HIDE DEF r
<1>5. RunIsSound(r)
  BY <1>1, <1>2, <1>4 DEF RunIsSound, IsRun, Phases, ReplaysRecentSnapshot
<1> QED
  BY <1>3, <1>5, AdvanceSound DEF HybridInvariant

LEMMA RetrieveAgainSound ==
    ASSUME HybridInvariant, run # Idle, RetrieveAgain
    PROVE  HybridInvariant'
<1> DEFINE r == [run EXCEPT !.pc = "confirmed"]
<1>1. RunIsSound(run) /\ run.pc = "retrieved"
  BY DEF HybridInvariant, RetrieveAgain
<1>2. /\ IsRun(r)
      /\ r.pc = "confirmed" /\ r.mode = run.mode /\ r.snapshot = run.snapshot
      /\ r.now = run.now /\ r.at = run.at /\ r.environment = run.environment
      /\ r.verified = run.verified /\ r.raced = run.raced /\ r.local = run.local
      /\ r.affected = run.affected /\ r.ci = run.ci /\ r.remote = run.remote
      /\ r.seen = run.seen
  BY <1>1 DEF RunIsSound, IsRun, RunFields, Phases
<1>3. Advance(r) /\ cache' = cache
  BY DEF RetrieveAgain
<1> HIDE DEF r
<1>4. RunIsSound(r)
  BY <1>1, <1>2 DEF RunIsSound, IsRun, Phases, ReplaysRecentSnapshot
<1> QED
  BY <1>3, <1>4, AdvanceSound DEF HybridInvariant

\* A run starts on the sealed project, and replays a snapshot of its environment
\* whose age on the two clocks is within the one asked for.
LEMMA BeginSound ==
    ASSUME HybridInvariant, NEW mode \in {"live", "replay"}, NEW s, NEW lag \in Lags,
           lag <= clock, manifest # None, manifest.inputs = disk,
           run' = Started(mode, s, clock - lag), report' = None,
           mode = "replay" => s \in snapshots /\ s.environment = environment
                              /\ IsRecent(s, clock - lag),
           UNCHANGED <<disk, environment, clock, manifest, cache, snapshots>>
    PROVE  HybridInvariant'
<1>1. clock \in Nat /\ lag \in Nat /\ MaxAge \in Nat /\ DOMAIN disk \subseteq Paths
  BY HybridAssumption DEF HybridInvariant
<1>2. mode = "replay" => clock - s.at <= MaxAge + lag
  <2> SUFFICES ASSUME mode = "replay" PROVE clock - s.at <= MaxAge + lag
    OBVIOUS
  <2>1. s.at \in Nat /\ s.captured \in Int /\ s.captured <= s.at
    BY DEF HybridInvariant, IsSnapshot
  <2>2. s.captured > clock - lag \/ (clock - lag) - s.captured <= MaxAge
    BY DEF IsRecent
  <2> QED
    BY <1>1, <2>1, <2>2
<1>3. RunIsSound(run)'
  <2>1. IsRun(run')
    BY DEF Started, IsRun, RunFields, Phases
  <2>2. /\ run'.pc = "verified" /\ run'.mode = mode /\ run'.snapshot = s
        /\ run'.now = clock - lag /\ run'.at = clock /\ run'.environment = environment
        /\ run'.verified = disk
    BY DEF Started
  <2>3. mode = "replay" => ReplaysRecentSnapshot(run)'
    BY <1>2, <2>2 DEF ReplaysRecentSnapshot
  <2>4. clock - lag \in Int /\ clock - lag <= clock
    BY <1>1
  <2> QED
    BY <1>1, <2>1, <2>2, <2>3, <2>4 DEF RunIsSound
<1>4. ReadyReportsAreBacked' /\ UnchangedMetadataAgrees' /\ EvidenceCoversTheChange'
  BY ReportKept
<1> QED
  BY <1>3, <1>4 DEF HybridInvariant

\* The evidence of a live run is about what it has verified.
LEMMA DryRunSound ==
    ASSUME HybridInvariant, run # Idle, NEW tests, NEW success \in BOOLEAN, DryRun(tests, success)
    PROVE  HybridInvariant'
<1> DEFINE s == Evidence(tests, success)
<1>1. RunIsSound(run) /\ run.pc = "confirmed" /\ run.mode = "live" /\ IsResult(run.ci, manifest)
  BY DEF HybridInvariant, DryRun, RunIsSound
<1>2. /\ snapshots' = snapshots \cup {s} /\ report' = Report(run, s) /\ run' = Idle
      /\ UNCHANGED <<disk, clock, cache>>
  BY DEF DryRun
<1>3. /\ s.candidate.manifest = manifest /\ s.candidate.number = run.ci.number
      /\ s.request = Request(run) /\ s.environment = run.environment
      /\ s.captured = run.now /\ s.inventory = run.remote /\ s.at = run.at
      /\ s.project = run.verified /\ s.seen = run.seen
  BY DEF Evidence
<1> HIDE DEF s
<1>4. IsSnapshot(s)
  BY <1>1, <1>3 DEF IsSnapshot, RunIsSound
<1>5. ReadyReportsAreBacked' /\ UnchangedMetadataAgrees' /\ EvidenceCoversTheChange'
  BY <1>1, <1>2, <1>3, <1>4, ReportsAreSound
<1> QED
  BY <1>2, <1>4, <1>5 DEF HybridInvariant

\* A snapshot that is bound to the candidate is about what the replay has verified.
LEMMA ReplaySound ==
    ASSUME HybridInvariant, run # Idle, Replay
    PROVE  HybridInvariant'
<1> DEFINE s == run.snapshot
<1>1. RunIsSound(run) /\ run.pc = "evaluated" /\ run.mode = "replay" /\ IsResult(run.ci, manifest)
  BY DEF HybridInvariant, Replay, RunIsSound
<1>2. /\ IsBound(run, s) /\ report' = Report(run, s) /\ run' = Idle
      /\ UNCHANGED <<disk, clock, cache, snapshots>>
  BY DEF Replay
<1>3. /\ s \in snapshots /\ s.environment = run.environment
      /\ \E lag \in Lags : run.at - s.at <= MaxAge + lag
  BY <1>1 DEF RunIsSound, ReplaysRecentSnapshot
<1>4. IsSnapshot(s)
  BY <1>3 DEF HybridInvariant
<1>5. /\ s.candidate.manifest = manifest /\ s.candidate.number = run.ci.number
      /\ s.request = Request(run)
  BY <1>2 DEF IsBound
<1>6. s.project = run.verified
  BY <1>1, <1>4, <1>5 DEF IsSnapshot, RunIsSound
<1> HIDE DEF s
<1>7. ReadyReportsAreBacked' /\ UnchangedMetadataAgrees' /\ EvidenceCoversTheChange'
  BY <1>1, <1>2, <1>3, <1>4, <1>5, <1>6, ReportsAreSound
<1> QED
  BY <1>2, <1>7 DEF HybridInvariant

\* An edit during a run is remembered.
LEMMA EditSound ==
    ASSUME HybridInvariant, NEW project \in Projects, Edit(project)
    PROVE  HybridInvariant'
<1>1. DOMAIN disk' \subseteq Paths
  BY HybridAssumption DEF Edit
<1>2. run' # Idle => RunIsSound(run)'
  <2> SUFFICES ASSUME run' # Idle PROVE RunIsSound(run)'
    OBVIOUS
  <2>1. RunIsSound(run) /\ run' = [run EXCEPT !.raced = TRUE]
    BY DEF Edit, HybridInvariant
  <2>2. /\ IsRun(run') /\ run'.raced
        /\ run'.pc = run.pc /\ run'.mode = run.mode /\ run'.snapshot = run.snapshot
        /\ run'.now = run.now /\ run'.at = run.at /\ run'.environment = run.environment
        /\ run'.verified = run.verified /\ run'.ci = run.ci /\ run'.remote = run.remote
        /\ run'.seen = run.seen
    BY <2>1 DEF RunIsSound, IsRun, RunFields, Phases
  <2>3. UNCHANGED <<manifest, snapshots>>
    BY DEF Edit
  <2> QED
    BY <2>1, <2>2, <2>3 DEF RunIsSound, ReplaysRecentSnapshot
<1>3. ReadyReportsAreBacked' /\ UnchangedMetadataAgrees' /\ EvidenceCoversTheChange'
  BY ReportKept DEF Edit
<1> QED
  BY <1>1, <1>2, <1>3 DEF HybridInvariant, Edit

\* Steps around a run, or with none, that change nothing a run relies on.
LEMMA SurroundingsSound ==
    ASSUME HybridInvariant, UNCHANGED <<disk, snapshots>>, clock' \in Nat,
           report' = report, run' = Idle \/ (run' = run /\ manifest' = manifest),
           \A m \in DOMAIN cache' : IsResult(cache'[m], m)
    PROVE  HybridInvariant'
<1>1. run' # Idle => RunIsSound(run)'
  BY DEF HybridInvariant, RunIsSound, ReplaysRecentSnapshot
<1>2. ReadyReportsAreBacked' /\ UnchangedMetadataAgrees' /\ EvidenceCoversTheChange'
  BY ReportKept
<1> QED
  BY <1>1, <1>2 DEF HybridInvariant

LEMMA NextSound ==
    ASSUME HybridInvariant, [Next]_vars
    PROVE  HybridInvariant'
<1>1. \A m \in DOMAIN cache : IsResult(cache[m], m)
  BY DEF HybridInvariant
<1>2. ASSUME NEW changed \in ChangeLists, Seal(changed) PROVE HybridInvariant'
  BY <1>1, <1>2, SurroundingsSound DEF Seal, HybridInvariant
<1>3. ASSUME NEW lag \in Lags, BeginLive(lag) PROVE HybridInvariant'
  BY <1>3, BeginSound DEF BeginLive
<1>4. ASSUME NEW lag \in Lags, NEW s \in snapshots, BeginReplay(s, lag) PROVE HybridInvariant'
  BY <1>4, BeginSound DEF BeginReplay
<1>5. ASSUME run # Idle, ReuseResult PROVE HybridInvariant'
  BY <1>1, <1>5, EvaluatedSound DEF ReuseResult
<1>6. ASSUME run # Idle, NEW success \in BOOLEAN,
             NEW outcome \in Outcomes(SelectedTests(disk, manifest.changed)),
             Execute(outcome, success)
      PROVE  HybridInvariant'
  BY <1>6, MadeResult, EvaluatedSound DEF Execute
<1>7. ASSUME NEW success \in BOOLEAN,
             NEW outcome \in Outcomes(SelectedTests(disk, manifest.changed)),
             Remake(outcome, success)
      PROVE  HybridInvariant'
  BY <1>7, MadeResult, SurroundingsSound DEF Remake, HybridInvariant
<1>8. CASE Tick \/ Stop
  BY <1>1, <1>8, SurroundingsSound DEF Tick, Stop, HybridInvariant
<1>9. ASSUME NEW contents \in Orgs, ChangeOrg(contents) PROVE HybridInvariant'
  BY <1>1, <1>9, SurroundingsSound DEF ChangeOrg, HybridInvariant
<1>10. ASSUME NEW e \in Environments, Upgrade(e) PROVE HybridInvariant'
  BY <1>1, <1>10, SurroundingsSound DEF Upgrade, HybridInvariant
<1>11. CASE UNCHANGED vars
  BY <1>1, <1>11, SurroundingsSound DEF vars, HybridInvariant
<1> QED
  BY <1>2, <1>3, <1>4, <1>5, <1>6, <1>7, <1>8, <1>9, <1>10, <1>11, CaptureInventorySound,
     CompileSound, RetrieveSound, RetrieveAgainSound, DryRunSound, ReplaySound, EditSound
  DEF Next

\* Everything a hybrid run holds is about the inputs it has verified.
THEOREM EvidenceIsAboutTheCandidate == Spec => []HybridInvariant
<1>1. Init => HybridInvariant
  BY InitSound
<1>2. HybridInvariant /\ [Next]_vars => HybridInvariant'
  BY NextSound
<1> QED
  BY <1>1, <1>2, PTL DEF Spec

\* A ready report rests on both lanes: all selected tests passed locally and in
\* the org, in a live run on the same project, change, CI result and
\* environment, recent enough: what validate_candidate_binding,
\* validate_replay_environment and validate_capture_age are for.
THEOREM ReadyReportsAreAlwaysBacked == Spec => []ReadyReportsAreBacked
<1>1. HybridInvariant => ReadyReportsAreBacked
  BY DEF HybridInvariant
<1> QED
  BY <1>1, EvidenceIsAboutTheCandidate, PTL

\* A ready report means that schema and configuration nobody said to have
\* changed were in the org as they are in the project: what detect_drift is for.
THEOREM UnchangedMetadataAlwaysAgrees == Spec => []UnchangedMetadataAgrees
<1>1. HybridInvariant => UnchangedMetadataAgrees
  BY DEF HybridInvariant
<1> QED
  BY <1>1, EvidenceIsAboutTheCandidate, PTL

\* The evidence of a report covers every component and test that depends on a
\* changed class, and all of them after any other change, for every dependency
\* graph: ADR 0019's "unknown dependency effects cannot silently omit".
THEOREM EvidenceAlwaysCoversTheChange == Spec => []EvidenceCoversTheChange
<1>1. HybridInvariant => EvidenceCoversTheChange
  BY DEF HybridInvariant
<1> QED
  BY <1>1, EvidenceIsAboutTheCandidate, PTL

=============================================================================
