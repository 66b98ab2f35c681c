------------------------ MODULE EnterpriseCi_proofs ------------------------
(***************************************************************************)
(* What holds of EnterpriseCi for every project, number of processes,      *)
(* shards and change lists, and any number of runs and edits.  A result is *)
(* exact from the moment it is made; the steps after that copy it, and the *)
(* invariant follows the copies: worker, temporary file, cache, replay.    *)
(* The second part is about TestRunner, which runs the tests of a shard.   *)
(***************************************************************************)
EXTENDS EnterpriseCi, TestRunner, Dependents_proofs

Phases == {"idle", "verified", "missed", "executed", "writing", "written", "stored"}
Modes == {"cache", "no-cache", "replay"}
Indices == 0 .. Shards - 1
Lists == ChangeLists \cup {{}}

Keys == [inputs: Projects \cup {None}, changed: Lists, index: Indices,
         profiles: {ProfilesOf(p) : p \in Projects}]

\* What a run may have executed.
Selections == UNION {{Executed[p][changed][index] : changed \in Lists, index \in Indices} :
                         p \in Projects}

Results == [key: Keys \cup {None}, compiled: {Compiled[p] : p \in Projects},
            selected: Selections,
            project: Projects, raced: BOOLEAN]

Artifacts == [whole: BOOLEAN, result: Results \cup {None}]

WorkerStates ==
    [pc: Phases, inputs: Projects \cup {None}, changed: Lists, index: Indices, mode: Modes,
     verified: Projects \cup {None}, raced: BOOLEAN, key: Keys \cup {None},
     result: Results \cup {None}]

CiTypes ==
    /\ disk \in Projects /\ manifest \in Projects \cup {None}
    /\ worker \in [Workers -> WorkerStates]
    /\ temporary \in [Workers -> Artifacts \cup {None}]

\* A result is what executing the project it came from gives with the options
\* of its key, says whether that compiled, and that project has the sealed
\* inputs unless it was edited.
Exact(result) ==
    /\ result.project \in Projects /\ result.compiled = Compiled[result.project]
    /\ result.selected = Executed[result.project][result.key.changed][result.key.index]
    /\ ~result.raced => Digest[result.project] = result.key.inputs

\* A key asks for the inputs and the options of a run.
Asks(key, r) == key.inputs = r.inputs /\ key.changed = r.changed /\ key.index = r.index

HasKey == {"missed", "executed", "writing", "written", "stored"}
HasResult == {"executed", "writing", "written", "stored"}

WorkerIsExact(w) ==
    /\ worker[w].pc # "idle" => worker[w].changed \in ChangeLists
    /\ worker[w].pc # "idle" /\ ~worker[w].raced => Digest[disk] = worker[w].inputs
    /\ worker[w].pc \in HasKey => Asks(worker[w].key, worker[w])
    /\ worker[w].pc \in HasResult =>
           worker[w].result.key = worker[w].key /\ Exact(worker[w].result)

\* A process publishes what it has written, and has written its result.
TemporaryIsExact(w) ==
    /\ worker[w].pc \in {"writing", "written"} =>
           temporary[w] \in Artifacts /\ temporary[w].result = worker[w].result
    /\ worker[w].pc = "written" => temporary[w].whole

CacheIsExact ==
    \A key \in DOMAIN cache :
        cache[key].whole /\ cache[key].result.key = key /\ Exact(cache[key].result)

ReturnsAreExact ==
    \A r \in returned :
        /\ r.changed \in ChangeLists /\ r.index \in Indices
        /\ Asks(r.result.key, r) /\ Exact(r.result)

CiInvariant ==
    /\ CiTypes
    /\ \A w \in Workers : WorkerIsExact(w) /\ TemporaryIsExact(w)
    /\ CacheIsExact
    /\ ReturnsAreExact

-----------------------------------------------------------------------------

\* An idle process is a process.
LEMMA IdleType == Idle \in WorkerStates /\ Idle.pc = "idle"
BY CiAssumption DEF Idle, WorkerStates, Phases, Modes, Indices, Lists

\* cache_key gives a key that asks for what the run asks for.
LEMMA KeyAsks ==
    ASSUME NEW w \in Workers, CiTypes
    PROVE  KeyOf(w) \in Keys /\ Asks(KeyOf(w), worker[w])
BY DEF CiTypes, KeyOf, Keys, Asks, WorkerStates

\* A step of one process that leaves the project, the cache, the temporary
\* files and the returned results alone has to answer for that process only.
LEMMA OneWorker ==
    ASSUME CiInvariant, NEW w \in Workers, NEW after \in WorkerStates,
           worker' = [worker EXCEPT ![w] = after],
           UNCHANGED <<disk, manifest>>, CacheIsExact', ReturnsAreExact',
           temporary' \in [Workers -> Artifacts \cup {None}],
           \A v \in Workers \ {w} : temporary'[v] = temporary[v],
           WorkerIsExact(w)', TemporaryIsExact(w)'
    PROVE  CiInvariant'
<1>1. CiTypes'
  BY DEF CiInvariant, CiTypes
<1>2. \A v \in Workers \ {w} : worker'[v] = worker[v]
  BY DEF CiInvariant, CiTypes
<1>3. \A v \in Workers \ {w} : WorkerIsExact(v)' /\ TemporaryIsExact(v)'
  BY <1>2 DEF CiInvariant, WorkerIsExact, TemporaryIsExact
<1> QED
  BY <1>1, <1>3 DEF CiInvariant

\* Nothing is known of the initial state but the project.
LEMMA InitExact == Init => CiInvariant
<1> SUFFICES ASSUME Init PROVE CiInvariant
  OBVIOUS
<1>1. CiTypes
  BY IdleType, CiAssumption DEF Init, CiTypes
<1>2. \A w \in Workers : WorkerIsExact(w) /\ TemporaryIsExact(w)
  BY IdleType DEF Init, WorkerIsExact, TemporaryIsExact, HasKey, HasResult
<1>3. CacheIsExact /\ ReturnsAreExact
  BY DEF Init, CacheIsExact, ReturnsAreExact
<1> QED
  BY <1>1, <1>2, <1>3 DEF CiInvariant

\* Whatever a process was doing, it may fall idle.
LEMMA FallIdle ==
    ASSUME CiInvariant, NEW w \in Workers, worker' = [worker EXCEPT ![w] = Idle],
           UNCHANGED <<disk, manifest, cache, temporary>>, ReturnsAreExact'
    PROVE  CiInvariant'
<1>1. worker'[w] = Idle /\ Idle \in WorkerStates /\ Idle.pc = "idle"
  BY IdleType DEF CiInvariant, CiTypes
<1>2. WorkerIsExact(w)' /\ TemporaryIsExact(w)'
  BY <1>1 DEF WorkerIsExact, TemporaryIsExact, HasKey, HasResult
<1>3. CacheIsExact'
  BY DEF CiInvariant, CacheIsExact
<1> QED
  BY <1>1, <1>2, <1>3, OneWorker DEF CiInvariant, CiTypes

\* Sealing concerns runs to come.
LEMMA SealStep == ASSUME CiInvariant, Seal PROVE CiInvariant'
<1>1. Digest[disk] \in Projects
  BY DEF CiInvariant, CiTypes, Digest
<1>2. CiTypes'
  BY <1>1 DEF CiInvariant, CiTypes, Seal
<1>3. \A w \in Workers : WorkerIsExact(w)' /\ TemporaryIsExact(w)'
  BY DEF CiInvariant, Seal, WorkerIsExact, TemporaryIsExact
<1>4. CacheIsExact' /\ ReturnsAreExact'
  BY DEF CiInvariant, Seal, CacheIsExact, ReturnsAreExact
<1> QED
  BY <1>2, <1>3, <1>4 DEF CiInvariant

\* A run starts from verified inputs.
LEMMA BeginStep ==
    ASSUME CiInvariant, NEW w \in Workers, NEW index \in Indices, NEW changed \in ChangeLists,
           NEW mode \in Modes, Begin(w, index, changed, mode)
    PROVE  CiInvariant'
<1> DEFINE after == [Idle EXCEPT !.pc = "verified", !.inputs = manifest, !.verified = disk,
                                !.changed = changed, !.index = index, !.mode = mode]
<1>1. /\ after \in WorkerStates /\ after.pc = "verified" /\ after.inputs = manifest
      /\ after.changed = changed
  BY IdleType DEF CiInvariant, CiTypes, WorkerStates, Phases, Lists
<1>2. worker' = [worker EXCEPT ![w] = after] /\ worker'[w] = after /\ Digest[disk] = manifest
  BY DEF Begin, CiInvariant, CiTypes
<1>3. WorkerIsExact(w)' /\ TemporaryIsExact(w)'
  BY <1>1, <1>2 DEF Begin, WorkerIsExact, TemporaryIsExact, HasKey, HasResult
<1>4. CacheIsExact' /\ ReturnsAreExact'
  BY DEF CiInvariant, Begin, CacheIsExact, ReturnsAreExact
<1> QED
  BY <1>1, <1>2, <1>3, <1>4, OneWorker DEF Begin, CiInvariant, CiTypes

\* The result under a key answers every run that computes the key.
LEMMA HitStep == ASSUME CiInvariant, NEW w \in Workers, Hit(w) PROVE CiInvariant'
<1> DEFINE found == cache[KeyOf(w)].result
           answer == Returned(w, found, TRUE)
<1>1. found.key = KeyOf(w) /\ Exact(found) /\ Asks(KeyOf(w), worker[w])
  BY KeyAsks DEF Hit, CiInvariant, CacheIsExact
<1>2. Asks(answer.result.key, answer) /\ Exact(answer.result)
  BY <1>1 DEF Returned, Asks
<1>3. answer.changed \in ChangeLists /\ answer.index \in Indices
  BY DEF Returned, Hit, CiInvariant, CiTypes, WorkerIsExact, WorkerStates
<1>4. returned' = returned \cup {answer}
  BY DEF Hit
<1> HIDE DEF answer
<1>5. ReturnsAreExact'
  BY <1>2, <1>3, <1>4 DEF CiInvariant, ReturnsAreExact
<1> QED
  BY <1>5, FallIdle DEF Hit

\* A run keeps the key it looked for.
LEMMA MissStep == ASSUME CiInvariant, NEW w \in Workers, Miss(w) PROVE CiInvariant'
<1> DEFINE after == [worker[w] EXCEPT !.pc = "missed", !.key = KeyOf(w)]
<1>1. worker[w] \in WorkerStates /\ KeyOf(w) \in Keys /\ Asks(KeyOf(w), worker[w])
  BY KeyAsks DEF CiInvariant, CiTypes
<1>2. after \in WorkerStates
  BY <1>1 DEF WorkerStates, Phases
<1>3. worker' = [worker EXCEPT ![w] = after] /\ worker'[w] = after
  BY DEF Miss, CiInvariant, CiTypes
<1>4. /\ after.pc = "missed" /\ after.key = KeyOf(w) /\ after.raced = worker[w].raced
      /\ after.inputs = worker[w].inputs
      /\ after.changed = worker[w].changed /\ after.index = worker[w].index
  BY <1>1 DEF WorkerStates
<1>5. worker[w].changed \in ChangeLists /\ (~worker[w].raced => Digest[disk] = worker[w].inputs)
  BY DEF Miss, CiInvariant, WorkerIsExact
<1>6. WorkerIsExact(w)' /\ TemporaryIsExact(w)'
  BY <1>1, <1>3, <1>4, <1>5 DEF Miss, WorkerIsExact, TemporaryIsExact, HasResult, Asks
<1>7. CacheIsExact' /\ ReturnsAreExact'
  BY DEF CiInvariant, Miss, CacheIsExact, ReturnsAreExact
<1> QED
  BY <1>2, <1>3, <1>6, <1>7, OneWorker DEF Miss, CiInvariant, CiTypes

\* The result is exact when it is made: the project compiled is the one that
\* was verified unless it was edited in between.
LEMMA CompileStep == ASSUME CiInvariant, NEW w \in Workers, CompileAndTest(w) PROVE CiInvariant'
<1> DEFINE made == [key |-> worker[w].key, compiled |-> Compiled[disk],
                    selected |-> Executed[disk][worker[w].changed][worker[w].index],
                    project |-> disk, raced |-> worker[w].raced]
           phase == IF worker[w].mode = "no-cache" THEN "stored" ELSE "executed"
           after == [worker[w] EXCEPT !.pc = phase, !.result = made]
<1>1. /\ worker[w] \in WorkerStates /\ worker[w].pc = "missed" /\ disk \in Projects
      /\ Asks(worker[w].key, worker[w]) /\ worker[w].changed \in ChangeLists
      /\ ~worker[w].raced => Digest[disk] = worker[w].inputs
  BY DEF CompileAndTest, CiInvariant, CiTypes, WorkerIsExact, HasKey
<1>2. made \in Results
  <2>1. /\ worker[w].key \in Keys \cup {None} /\ worker[w].raced \in BOOLEAN
        /\ worker[w].changed \in Lists /\ worker[w].index \in Indices
    BY <1>1 DEF WorkerStates
  <2>2. Compiled[disk] \in {Compiled[p] : p \in Projects}
    BY <1>1
  <2>3. Executed[disk][worker[w].changed][worker[w].index] \in Selections
    BY <1>1, <2>1 DEF Selections
  <2> QED
    BY <1>1, <2>1, <2>2, <2>3 DEF Results
<1>3. made.key = worker[w].key /\ Exact(made)
  BY <1>1 DEF Exact, Asks
<1>4. after \in WorkerStates
  BY <1>1, <1>2 DEF WorkerStates, Phases
<1>5. /\ after.pc \in {"stored", "executed"} /\ after.result = made /\ after.key = worker[w].key
      /\ after.raced = worker[w].raced /\ after.inputs = worker[w].inputs
      /\ after.changed = worker[w].changed /\ after.index = worker[w].index
  BY <1>1 DEF WorkerStates
<1>6. worker' = [worker EXCEPT ![w] = after] /\ worker'[w] = after
  BY DEF CompileAndTest, CiInvariant, CiTypes
<1>7. WorkerIsExact(w)'
  <2>1. Asks(after.key, after)
    BY <1>1, <1>5 DEF Asks
  <2>2. after.result.key = after.key /\ Exact(after.result)
    BY <1>3, <1>5
  <2> HIDE DEF after, made
  <2> QED
    BY <1>1, <1>5, <1>6, <2>1, <2>2 DEF CompileAndTest, WorkerIsExact
<1>8. TemporaryIsExact(w)'
  BY <1>5, <1>6 DEF TemporaryIsExact
<1>9. CacheIsExact' /\ ReturnsAreExact'
  BY DEF CiInvariant, CompileAndTest, CacheIsExact, ReturnsAreExact
<1> QED
  BY <1>4, <1>6, <1>7, <1>8, <1>9, OneWorker DEF CompileAndTest, CiInvariant, CiTypes

\* A process that has a result moves on with it: to another phase, with its
\* temporary file as that phase wants it.
LEMMA MoveOn ==
    ASSUME CiInvariant, NEW w \in Workers, NEW phase \in HasResult, worker[w].pc \in HasResult,
           worker' = [worker EXCEPT ![w].pc = phase], UNCHANGED <<disk, manifest, returned>>,
           NEW file \in Artifacts \cup {None},
           temporary' = [temporary EXCEPT ![w] = file],
           phase \in {"writing", "written"} => file \in Artifacts /\ file.result = worker[w].result,
           phase = "written" => file.whole,
           CacheIsExact'
    PROVE  CiInvariant'
<1> DEFINE after == [worker[w] EXCEPT !.pc = phase]
<1>1. worker[w] \in WorkerStates /\ WorkerIsExact(w)
  BY DEF CiInvariant, CiTypes
<1>2. after \in WorkerStates
  BY <1>1 DEF WorkerStates, Phases, HasResult
<1>3. /\ after.pc = phase /\ after.result = worker[w].result /\ after.key = worker[w].key
      /\ after.raced = worker[w].raced /\ after.inputs = worker[w].inputs
      /\ after.changed = worker[w].changed /\ after.index = worker[w].index
  BY <1>1 DEF WorkerStates
<1>4. worker' = [worker EXCEPT ![w] = after] /\ worker'[w] = after
  BY DEF CiInvariant, CiTypes
<1>5. WorkerIsExact(w)'
  <2>1. Asks(after.key, after) /\ after.result.key = after.key /\ Exact(after.result)
    BY <1>1, <1>3 DEF WorkerIsExact, Asks, HasKey, HasResult
  <2>2. after.changed \in ChangeLists /\ (~after.raced => Digest[disk] = after.inputs)
    BY <1>1, <1>3 DEF WorkerIsExact, HasResult
  <2> HIDE DEF after
  <2> QED
    BY <1>4, <2>1, <2>2 DEF WorkerIsExact
<1>6. temporary'[w] = file /\ \A v \in Workers \ {w} : temporary'[v] = temporary[v]
  BY DEF CiInvariant, CiTypes
<1>7. TemporaryIsExact(w)'
  BY <1>3, <1>4, <1>6 DEF TemporaryIsExact
<1>8. ReturnsAreExact'
  BY DEF CiInvariant, ReturnsAreExact
<1>9. temporary' \in [Workers -> Artifacts \cup {None}]
  BY DEF CiInvariant, CiTypes
<1> QED
  BY <1>2, <1>4, <1>5, <1>6, <1>7, <1>8, <1>9, OneWorker

\* The temporary file gets the result of its process.
LEMMA WriteSteps ==
    ASSUME CiInvariant, NEW w \in Workers, CreateTemporary(w) \/ FinishTemporary(w)
    PROVE  CiInvariant'
<1>1. worker[w] \in WorkerStates /\ CacheIsExact' /\ TemporaryIsExact(w)
  BY DEF CiInvariant, CiTypes, CacheIsExact, CreateTemporary, FinishTemporary
<1>2. CASE CreateTemporary(w)
  <2>1. [whole |-> FALSE, result |-> worker[w].result] \in Artifacts
    BY <1>1 DEF WorkerStates, Artifacts
  <2> QED
    BY <1>1, <1>2, <2>1, MoveOn DEF CreateTemporary, HasResult
<1>3. CASE FinishTemporary(w)
  <2> DEFINE file == [temporary[w] EXCEPT !.whole = TRUE]
  <2>1. temporary[w].result = worker[w].result
    BY <1>1, <1>3 DEF FinishTemporary, TemporaryIsExact
  <2>2. temporary[w] \in Artifacts
    BY <1>1, <1>3 DEF FinishTemporary, TemporaryIsExact
  <2>3. file \in Artifacts /\ file.whole /\ file.result = worker[w].result
    BY <2>1, <2>2 DEF Artifacts
  <2>4. temporary' = [temporary EXCEPT ![w] = file]
    BY <1>3 DEF FinishTemporary, CiInvariant, CiTypes
  <2> QED
    BY <1>1, <1>3, <2>3, <2>4, MoveOn DEF FinishTemporary, HasResult
<1> QED
  BY <1>2, <1>3

\* Renaming publishes a complete artifact under the key it was made for.
LEMMA PublishStep == ASSUME CiInvariant, NEW w \in Workers, Publish(w) PROVE CiInvariant'
<1>1. /\ worker[w].pc = "written" /\ WorkerIsExact(w) /\ TemporaryIsExact(w)
      /\ cache' = Put(cache, worker[w].key, temporary[w])
  BY DEF CiInvariant, Publish
<1>2. /\ temporary[w].whole /\ temporary[w].result = worker[w].result
      /\ worker[w].result.key = worker[w].key /\ Exact(worker[w].result)
  BY <1>1 DEF WorkerIsExact, TemporaryIsExact, HasResult
<1>3. CacheIsExact'
  <2> SUFFICES ASSUME NEW key \in DOMAIN cache'
               PROVE  cache'[key].whole /\ cache'[key].result.key = key /\ Exact(cache'[key].result)
    BY DEF CacheIsExact, Exact, Publish
  <2>1. CASE key = worker[w].key
    BY <1>1, <1>2, <2>1 DEF Put
  <2>2. CASE key # worker[w].key
    BY <1>1, <2>2 DEF Put, CiInvariant, CacheIsExact
  <2> QED
    BY <2>1, <2>2
<1> QED
  BY <1>1, <1>3, MoveOn DEF Publish, HasResult

\* A run returns the result it made.
LEMMA ReturnStep == ASSUME CiInvariant, NEW w \in Workers, Return(w) PROVE CiInvariant'
<1> DEFINE answer == Returned(w, worker[w].result, FALSE)
<1>1. /\ worker[w] \in WorkerStates /\ WorkerIsExact(w) /\ worker[w].pc = "stored"
      /\ returned' = returned \cup {answer}
  BY DEF Return, CiInvariant, CiTypes
<1>2. /\ answer.changed \in ChangeLists /\ answer.index \in Indices
      /\ Asks(answer.result.key, answer) /\ Exact(answer.result)
  BY <1>1 DEF Returned, WorkerIsExact, WorkerStates, HasKey, HasResult, Asks
<1> HIDE DEF answer
<1>3. ReturnsAreExact'
  BY <1>1, <1>2 DEF CiInvariant, ReturnsAreExact
<1> QED
  BY <1>3, FallIdle DEF Return

\* A process that dies leaves at most a temporary file.
LEMMA StopStep == ASSUME CiInvariant, NEW w \in Workers, Stop(w) PROVE CiInvariant'
<1>1. ReturnsAreExact'
  BY DEF Stop, CiInvariant, ReturnsAreExact
<1> QED
  BY <1>1, FallIdle DEF Stop

\* An edit marks the runs under way.
LEMMA EditStep == ASSUME CiInvariant, NEW project \in Projects, Edit(project) PROVE CiInvariant'
<1>1. \A w \in Workers :
        worker'[w] = IF worker[w] = Idle THEN Idle ELSE [worker[w] EXCEPT !.raced = TRUE]
  BY DEF Edit
<1>2. ASSUME NEW w \in Workers
      PROVE  worker'[w] \in WorkerStates /\ WorkerIsExact(w)' /\ TemporaryIsExact(w)'
  <2>1. worker[w] \in WorkerStates /\ WorkerIsExact(w) /\ TemporaryIsExact(w)
    BY DEF CiInvariant, CiTypes
  <2>2. CASE worker[w] = Idle
    BY <1>1, <2>2, IdleType DEF WorkerIsExact, TemporaryIsExact, HasKey, HasResult
  <2>3. CASE worker[w] # Idle
    <3> DEFINE after == [worker[w] EXCEPT !.raced = TRUE]
    <3>1. after \in WorkerStates /\ after.raced
      BY <2>1 DEF WorkerStates
    <3>2. /\ after.pc = worker[w].pc /\ after.result = worker[w].result
          /\ after.key = worker[w].key /\ after.inputs = worker[w].inputs
          /\ after.changed = worker[w].changed /\ after.index = worker[w].index
      BY <2>1 DEF WorkerStates
    <3>3. worker'[w] = after
      BY <1>1, <2>3
    <3>4. Asks(worker[w].key, worker[w]) => Asks(after.key, after)
      BY <3>2 DEF Asks
    <3> HIDE DEF after
    <3>5. WorkerIsExact(w)'
      BY <2>1, <3>1, <3>2, <3>3, <3>4 DEF WorkerIsExact
    <3>6. TemporaryIsExact(w)'
      BY <2>1, <3>2, <3>3 DEF Edit, TemporaryIsExact
    <3> QED
      BY <3>1, <3>3, <3>5, <3>6
  <2> QED
    BY <2>2, <2>3
<1>3. CiTypes'
  BY <1>2 DEF Edit, CiInvariant, CiTypes
<1>4. CacheIsExact' /\ ReturnsAreExact'
  BY DEF Edit, CiInvariant, CacheIsExact, ReturnsAreExact
<1> QED
  BY <1>2, <1>3, <1>4 DEF CiInvariant

\* The invariant looks at the state of the specification only.
LEMMA Stutter == ASSUME CiInvariant, UNCHANGED vars PROVE CiInvariant'
BY DEF vars, CiInvariant, CiTypes, WorkerIsExact, TemporaryIsExact, CacheIsExact, ReturnsAreExact

\* Results stay exact wherever they are copied to.
THEOREM ResultsStayExact == Spec => []CiInvariant
<1>1. ASSUME CiInvariant, [Next]_vars PROVE CiInvariant'
  <2>1. CASE UNCHANGED vars
    BY <1>1, <2>1, Stutter
  <2>2. CASE Seal
    BY <1>1, <2>2, SealStep
  <2>3. ASSUME NEW w \in Workers, NEW index \in 0 .. Shards - 1, NEW changed \in ChangeLists,
               NEW mode \in {"cache", "no-cache", "replay"}, Begin(w, index, changed, mode)
        PROVE  CiInvariant'
    BY <1>1, <2>3, BeginStep DEF Indices, Modes
  <2>4. ASSUME NEW w \in Workers,
               \/ Hit(w) \/ Miss(w) \/ CompileAndTest(w) \/ CreateTemporary(w)
               \/ FinishTemporary(w) \/ Publish(w) \/ Return(w) \/ Stop(w)
        PROVE  CiInvariant'
    BY <1>1, <2>4, HitStep, MissStep, CompileStep, WriteSteps, PublishStep, ReturnStep, StopStep
  <2>5. CASE \E project \in Projects : Edit(project)
    BY <1>1, <2>5, EditStep
  <2> QED
    BY <1>1, <2>1, <2>2, <2>3, <2>4, <2>5 DEF Next, Terminated
<1> QED
  BY <1>1, InitExact, PTL DEF Spec

-----------------------------------------------------------------------------

\* store_artifact: whatever processes race or die, and however the project is
\* edited, a published artifact is complete and lies under its own key.
THEOREM PublishedArtifactsAreWhole == Spec => []ArtifactsAreWhole
<1>1. CiInvariant => ArtifactsAreWhole
  BY DEF CiInvariant, CacheIsExact, ArtifactsAreWhole
<1> QED
  BY <1>1, ResultsStayExact, PTL

\* cache_key and load_artifact: a replay returns what executing the verified
\* sources with the options of the replaying run gives.
THEOREM ReplaysStayExact == Spec => []ReplaysAreExact
<1>1. CiInvariant => ReplaysAreExact
  BY DEF CiInvariant, ReturnsAreExact, ReplaysAreExact, Exact, Asks
<1> QED
  BY <1>1, ResultsStayExact, PTL

-----------------------------------------------------------------------------
(* Selections and shards                                                   *)

\* Two projects with one digest have the same sources.
LEMMA DigestTellsSources ==
    ASSUME NEW p \in Projects
    PROVE  Digest[p] \in Projects /\ Content[Digest[p]].sources = Content[p].sources
<1>1. Digest[p] \in Projects /\ Sealed(Digest[p]) = Sealed(p)
  BY DEF Digest
<1> QED
  BY <1>1 DEF Sealed

\* Tests are numbered by naturals, so that those before one can be counted.
LEMMA TestsAreNumbered ==
    ASSUME NEW p \in Projects, NEW d \in Descriptors(Content[p].sources)
    PROVE  d[1] \in Nat /\ d[2] \in DOMAIN Content[p].sources
<1> DEFINE sources == Content[p].sources
<1>1. IsPartial(sources, Source)
  BY CiAssumption DEF IsDisk
<1>2. PICK f \in DOMAIN sources \cap Classes : d \in {<<test, f>> : test \in Shape[sources[f].text].tests}
  BY DEF Descriptors
<1>3. PICK test \in Shape[sources[f].text].tests : d = <<test, f>>
  BY <1>2
<1>4. Shape[sources[f].text].tests \subseteq Nat
  BY <1>1, <1>2, SourcesAssumption DEF IsPartial, Source, TextShape
<1> QED
  BY <1>2, <1>3, <1>4

\* The closure has everything that cannot be told apart from the change.
LEMMA ImpactedIsAffected ==
    ASSUME NEW p \in Projects, NEW changed, NEW f \in DOMAIN Content[p].sources,
           ~Unaffected(Content[p].sources, f, changed)
    PROVE  f \in Impacted(Content[p].sources, changed)
<1> DEFINE sources == Content[p].sources
           graph == DependencyGraph(sources)
           impacted == Impacted(sources, changed)
           apart == DOMAIN sources \ impacted
<1>1. IsFiniteSet(DOMAIN sources)
  <2>1. DOMAIN sources \in SUBSET Files
    BY CiAssumption DEF IsDisk, IsPartial
  <2> QED
    BY <2>1, SourcesAssumption, FS_Subset
<1>2. DOMAIN graph = DOMAIN sources /\ \A g \in DOMAIN sources : graph[g] \subseteq DOMAIN sources
  BY DEF DependencyGraph
<1>3. changed \subseteq impacted /\ IsClosed(impacted, graph)
  BY <1>1, <1>2, ClosureIsLeast DEF Impacted
<1> HIDE DEF sources, graph, impacted
<1>4. \A g \in apart : graph[g] \subseteq apart
  BY <1>2, <1>3 DEF IsClosed
<1>5. f \in apart => Unaffected(sources, f, changed)
  <2>1. apart \in SUBSET DOMAIN sources /\ apart \cap changed = {}
    BY <1>3
  <2> HIDE DEF apart
  <2> QED
    BY <1>4, <2>1 DEF Unaffected, graph
<1> QED
  BY <1>5 DEF sources, impacted

\* Every test that depends on a change is selected.
LEMMA AffectedAreSelected ==
    ASSUME NEW p \in Projects, NEW changed \in ChangeLists
    PROVE  AffectedTests[p][changed] \subseteq Select(Content[p].sources, changed)
<1> DEFINE sources == Content[p].sources
           all == changed = {} \/ Unproven(sources, changed) # {}
<1>1. AffectedTests[p][changed] =
          {d[1] : d \in {e \in Descriptors(sources) :
              \/ changed = {} \/ Unproven(sources, changed) # {}
              \/ ~Unaffected(sources, e[2], changed)}}
  BY DEF AffectedTests
<1>2. ASSUME NEW d \in Descriptors(sources), all \/ ~Unaffected(sources, d[2], changed)
      PROVE  d[1] \in Select(sources, changed)
  <2>1. CASE all
    BY <2>1 DEF Select, AllTests
  <2>2. CASE ~all
    <3>1. d[2] \in Impacted(sources, changed)
      BY <1>2, <2>2, TestsAreNumbered, ImpactedIsAffected
    <3>2. Select(sources, changed) =
              {e[1] : e \in {g \in Descriptors(sources) : g[2] \in Impacted(sources, changed)}}
      BY <2>2 DEF Select
    <3> QED
      BY <3>1, <3>2
  <2> QED
    BY <2>1, <2>2
<1> QED
  BY <1>1, <1>2

\* A selected test falls to one of the shards.
LEMMA TestsHaveAShard ==
    ASSUME NEW p \in Projects, NEW changed, NEW test \in Select(Content[p].sources, changed)
    PROVE  \E index \in Indices : test \in ShardOf(Select(Content[p].sources, changed), index)
<1> DEFINE selected == Select(Content[p].sources, changed)
           before == {s \in selected : s < test}
<1>1. \A s \in selected : s \in Nat
  BY TestsAreNumbered DEF Select, AllTests
<1> HIDE DEF selected
<1>2. before \in SUBSET (0 .. test) /\ 0 \in Int /\ test \in Int
  BY <1>1 DEF selected
<1>3. Cardinality(before) \in Nat
  BY <1>2, FS_Interval, FS_Subset, FS_CardinalityType
<1>4. Cardinality(before) % Shards \in Indices
  BY <1>3, CiAssumption DEF Indices
<1> QED
  BY <1>4 DEF ShardOf, selected

\* Selection and sharding of ci::run: when every shard of a change has returned,
\* each test that depends on it ran in one, and no test in two; for every
\* dependency graph, number of shards, and mixture of replays and executions.
THEOREM AffectedTestsAlwaysRunOnce == Spec => []AffectedTestsRunOnce
<1>1. CiInvariant => AffectedTestsRunOnce
  <2> SUFFICES ASSUME CiInvariant, NEW r \in returned
               PROVE  LET group == {s \in returned :
                                       /\ s.inputs = r.inputs /\ s.changed = r.changed
                                       /\ s.result.compiled /\ ~s.result.raced}
                      IN  /\ \A s, t \in group : s.index # t.index =>
                                 s.result.selected \cap t.result.selected = {}
                          /\ {s.index : s \in group} = 0 .. Shards - 1 =>
                                 AffectedTests[r.inputs][r.changed] \subseteq
                                     UNION {s.result.selected : s \in group}
    BY DEF AffectedTestsRunOnce
  <2> DEFINE group == {s \in returned : /\ s.inputs = r.inputs /\ s.changed = r.changed
                                        /\ s.result.compiled /\ ~s.result.raced}
             selected == Select(Content[r.inputs].sources, r.changed)
  <2>1. ASSUME NEW s \in group
        PROVE  /\ r.inputs \in Projects /\ r.changed \in ChangeLists
               /\ s.result.selected = ShardOf(selected, s.index)
    <3> DEFINE q == s.result.project
    <3>1. /\ r.changed \in ChangeLists /\ s.index \in Indices /\ q \in Projects
          /\ Compiled[q] /\ s.result.selected = Executed[q][r.changed][s.index]
          /\ Digest[q] = r.inputs
      BY DEF CiInvariant, ReturnsAreExact, Exact, Asks
    <3>2. r.inputs \in Projects /\ Content[q].sources = Content[r.inputs].sources
      BY <3>1, DigestTellsSources
    <3> HIDE DEF q
    <3>3. Compiles(Content[q])
      BY <3>1 DEF Compiled
    <3>4. Executed[q][r.changed][s.index] = ShardOf(Select(Content[q].sources, r.changed), s.index)
      BY <3>1, <3>3 DEF Executed, Indices
    <3> QED
      BY <3>1, <3>2, <3>4
  <2>2. ASSUME NEW s \in group, NEW t \in group, s.index # t.index
        PROVE  s.result.selected \cap t.result.selected = {}
    <3>1. s.result.selected = ShardOf(selected, s.index) /\ t.result.selected = ShardOf(selected, t.index)
      BY <2>1
    <3> QED
      BY <2>2, <3>1 DEF ShardOf
  <2>3. ASSUME {s.index : s \in group} = Indices
        PROVE  AffectedTests[r.inputs][r.changed] \subseteq UNION {s.result.selected : s \in group}
    <3>1. 0 \in Indices
      BY CiAssumption DEF Indices
    <3>2. PICK s0 \in group : s0.index = 0
      BY <2>3, <3>1
    <3>3. r.inputs \in Projects /\ r.changed \in ChangeLists
      BY <2>1, <3>2
    <3> SUFFICES ASSUME NEW test \in AffectedTests[r.inputs][r.changed]
                 PROVE  \E s \in group : test \in s.result.selected
      OBVIOUS
    <3>4. test \in selected
      BY <3>3, AffectedAreSelected
    <3>5. PICK index \in Indices : test \in ShardOf(selected, index)
      BY <3>3, <3>4, TestsHaveAShard
    <3>6. PICK s \in group : s.index = index
      BY <2>3, <3>5
    <3> QED
      BY <2>1, <3>5, <3>6
  <2> HIDE DEF group
  <2> QED
    BY <2>2, <2>3 DEF group, Indices
<1> QED
  BY <1>1, ResultsStayExact, PTL

-----------------------------------------------------------------------------

(***************************************************************************)
(* The runner of a shard's tests.  At every moment the cases below the     *)
(* counter are those that run and those that have been pushed, each once;  *)
(* when all threads have ended the counter is past the last case, so the   *)
(* results are the cases in some order, and a rearrangement of them in     *)
(* ascending order exists and is what is reported.                         *)
(***************************************************************************)

RunnerTypes ==
    /\ next \in Nat \ {0}
    /\ claim \in [Threads -> DOMAIN Cases \cup {Free, Ended}]
    /\ executed \in Seq(Nat)

\* The case k is pushed.
IsPushed(k) == \E i \in DOMAIN executed : executed[i] = Cases[k]

\* Every case is ahead of the counter, running in one thread, or pushed once.
CasesRunOnce ==
    /\ \A v, w \in Threads : claim[v] = claim[w] /\ claim[v] \in DOMAIN Cases => v = w
    /\ \A w \in Threads : claim[w] \in DOMAIN Cases => claim[w] < next
    /\ \A w \in Threads : claim[w] = Ended => next \notin DOMAIN Cases
    /\ \A i \in DOMAIN executed : \E k \in DOMAIN Cases : executed[i] = Cases[k]
    /\ \A i, j \in DOMAIN executed : executed[i] = executed[j] => i = j
    /\ \A k \in DOMAIN Cases :
           IsPushed(k) <=> k < next /\ \A w \in Threads : claim[w] # k

\* What sorting the results of all cases gives.
IsSortedReport(s) ==
    /\ DOMAIN s = DOMAIN Cases
    /\ {s[i] : i \in DOMAIN s} = {Cases[i] : i \in DOMAIN Cases}
    /\ \A i, j \in DOMAIN s : i < j => s[i] < s[j]

RunnerInvariant ==
    /\ RunnerTypes
    /\ CasesRunOnce
    /\ report # <<>> => IsSortedReport(report)

-----------------------------------------------------------------------------
(* Sorting                                                                 *)

IsAscending(s, n, S) ==
    /\ s \in [1..n -> S]
    /\ {s[i] : i \in 1..n} = S
    /\ \A i, j \in 1..n : i < j => s[i] < s[j]

LEMMA LeastExists ==
    ASSUME NEW S, S \subseteq Nat, S # {}
    PROVE  \E m \in S : \A x \in S : m <= x
<1>1. PICK m \in S : \A y \in S : ~(<<y, m>> \in Less)
  BY LessIsWellFounded, WFMin
<1>2. \A y \in S : ~(y < m)
  BY <1>1, LessIsLess
<1> QED
  BY <1>2

\* A finite set of numbers can be listed in ascending order: its least number,
\* then the others.
LEMMA AscendingExists ==
    ASSUME NEW N \in Nat
    PROVE  \A S : S \subseteq Nat /\ IsFiniteSet(S) /\ Cardinality(S) = N => \E s : IsAscending(s, N, S)
<1> DEFINE Listed(n) == \A S : S \subseteq Nat /\ IsFiniteSet(S) /\ Cardinality(S) = n => \E s : IsAscending(s, n, S)
           T == {n \in 0..N : Listed(n)}
<1>1. 0 \in T
  <2> SUFFICES Listed(0)
    OBVIOUS
  <2> TAKE S
  <2> HAVE S \subseteq Nat /\ IsFiniteSet(S) /\ Cardinality(S) = 0
  <2>1. S = {}
    BY FS_EmptySet
  <2>2. IsAscending([i \in 1..0 |-> i], 0, S)
    BY <2>1 DEF IsAscending
  <2> QED
    BY <2>2
<1>2. ASSUME NEW n \in 0..(N - 1), n \in T
      PROVE  n + 1 \in T
  <2> SUFFICES Listed(n + 1)
    OBVIOUS
  <2> TAKE S
  <2> HAVE S \subseteq Nat /\ IsFiniteSet(S) /\ Cardinality(S) = n + 1
  <2>1. S # {}
    BY FS_EmptySet
  <2>2. PICK m \in S : \A x \in S : m <= x
    BY <2>1, LeastExists
  <2>3. S \ {m} \subseteq Nat /\ IsFiniteSet(S \ {m}) /\ Cardinality(S \ {m}) = n
    <3>1. IsFiniteSet(S \ {m}) /\ Cardinality(S \ {m}) = Cardinality(S) - 1
      BY <2>2, FS_RemoveElement
    <3> QED
      BY <3>1
  <2>4. PICK s : IsAscending(s, n, S \ {m})
    BY <1>2, <2>3
  <2>5. /\ s \in [1..n -> S \ {m}] /\ {s[i] : i \in 1..n} = S \ {m}
        /\ \A i, j \in 1..n : i < j => s[i] < s[j]
    BY <2>4 DEF IsAscending
  <2> DEFINE t == [i \in 1..(n + 1) |-> IF i = 1 THEN m ELSE s[i - 1]]
  <2>6. t[1] = m /\ \A i \in 2..(n + 1) : t[i] = s[i - 1] /\ i - 1 \in 1..n
    OBVIOUS
  <2>7. \A i \in 1..n : i + 1 \in 2..(n + 1) /\ (i + 1) - 1 = i
    OBVIOUS
  <2>8. t \in [1..(n + 1) -> S]
    BY <2>5, <2>6
  <2> HIDE DEF t
  <2>9. {t[i] : i \in 1..(n + 1)} = S
    <3>1. ASSUME NEW x \in S \ {m} PROVE \E i \in 1..(n + 1) : t[i] = x
      <4>1. PICK i \in 1..n : s[i] = x
        BY <2>5
      <4> QED
        BY <4>1, <2>6, <2>7
    <3>2. 1 \in 1..(n + 1) /\ t[1] = m
      BY <2>6
    <3>3. \A i \in 1..(n + 1) : t[i] \in S
      BY <2>8
    <3> QED
      BY <3>1, <3>2, <3>3, <2>2
  <2>10. \A x \in S \ {m} : m < x
    BY <2>2
  <2>11. ASSUME NEW i \in 1..(n + 1), NEW j \in 1..(n + 1), i < j
         PROVE  t[i] < t[j]
    <3>1. j \in 2..(n + 1)
      BY <2>11
    <3>2. t[j] = s[j - 1] /\ j - 1 \in 1..n /\ t[j] \in S \ {m}
      BY <3>1, <2>5, <2>6
    <3>3. CASE i = 1
      BY <3>2, <3>3, <2>6, <2>10
    <3>4. CASE i # 1
      <4>1. i \in 2..(n + 1) /\ i - 1 < j - 1
        BY <3>4, <2>11
      <4> QED
        BY <4>1, <3>2, <2>5, <2>6
    <3> QED
      BY <3>3, <3>4
  <2> QED
    BY <2>8, <2>9, <2>11 DEF IsAscending
<1>3. N \in 0..N
  OBVIOUS
<1> HIDE DEF T
<1>4. 0..N \subseteq T
  BY <1>1, <1>2, SetInduction
<1> QED
  BY <1>3, <1>4 DEF T

\* A list without repetitions has as many elements as positions.
LEMMA InjectiveListsCount ==
    ASSUME NEW list, NEW n \in Nat, NEW S, DOMAIN list = 1..n,
           \A i, j \in 1..n : list[i] = list[j] => i = j,
           {list[i] : i \in 1..n} = S
    PROVE  IsFiniteSet(S) /\ Cardinality(S) = n
<1> DEFINE b == [i \in 1..n |-> list[i]]
<1>1. b \in [1..n -> S] /\ \A i \in 1..n : b[i] = list[i]
  OBVIOUS
<1> HIDE DEF b
<1>2. b \in Injection(1..n, S) /\ b \in Surjection(1..n, S)
  BY <1>1 DEF Injection, Surjection, IsInjective
<1>3. IsFiniteSet(1..n) /\ Cardinality(1..n) = n
  BY FS_Interval
<1>4. b \in Bijection(1..n, S)
  BY <1>2 DEF Bijection
<1> QED
  BY <1>3, <1>4, FS_Bijection DEF ExistsBijection

\* Distinct results that are the cases, in whatever order, are as many as the
\* cases, and are sorted into the report.
LEMMA SortingIsDeterministic ==
    ASSUME NEW results \in Seq(Nat),
           \A i, j \in DOMAIN results : results[i] = results[j] => i = j,
           {results[i] : i \in DOMAIN results} = {Cases[i] : i \in DOMAIN Cases}
    PROVE  IsSortedReport(Sorted(results))
<1> DEFINE D == DOMAIN results
           S == {results[i] : i \in D}
           n == Len(results)
<1>1. D = 1..n /\ n \in Nat /\ S \subseteq Nat /\ results \in [1..n -> Nat]
  OBVIOUS
<1>2. /\ DOMAIN Cases = 1..Len(Cases) /\ Len(Cases) \in Nat /\ Cases \in [1..Len(Cases) -> Nat]
      /\ \A i, j \in DOMAIN Cases : Cases[i] = Cases[j] => i = j
  BY RunnerAssumption
<1>3. IsFiniteSet(S) /\ Cardinality(S) = n
  BY <1>1, InjectiveListsCount
<1>4. n = Len(Cases)
  BY <1>2, <1>3, InjectiveListsCount
<1> HIDE DEF D, S, n
<1>5. PICK s : IsAscending(s, n, S)
  BY <1>1, <1>3, AscendingExists
<1>6. /\ s \in [D -> S] /\ {s[i] : i \in D} = S
      /\ \A i, j \in D : i < j => s[i] < s[j]
  BY <1>1, <1>5 DEF IsAscending
<1> DEFINE p == [i \in D |-> CHOOSE j \in D : results[j] = s[i]]
<1>7. \A i \in D : p[i] \in D /\ results[p[i]] = s[i]
  <2>1. \A i \in D : \E j \in D : results[j] = s[i]
    BY <1>6 DEF S
  <2> QED
    BY <2>1
<1>8. \A i, j \in D : s[i] = s[j] => i = j
  <2>1. \A i, j \in D : i < j \/ j < i \/ i = j
    BY <1>1
  <2>2. \A i \in D : s[i] \in Nat
    BY <1>1, <1>6
  <2>3. \A i, j \in D : s[i] = s[j] => ~(i < j) /\ ~(j < i)
    BY <2>2, <1>6
  <2> QED
    BY <2>1, <2>3
<1>9. DOMAIN p = D /\ p = [i \in D |-> p[i]]
  OBVIOUS
<1> HIDE DEF p
<1>10. /\ p \in [D -> D] /\ \A i, j \in D : p[i] = p[j] => i = j
       /\ s = [i \in D |-> results[p[i]]]
  BY <1>6, <1>7, <1>8, <1>9
<1>11. s \in Rearrangements(results)
  BY <1>10 DEF Rearrangements, D
<1>12. \A i, j \in DOMAIN s : i < j => s[i] <= s[j]
  <2>1. DOMAIN s = D /\ \A i \in D : s[i] \in Nat
    BY <1>1, <1>6
  <2> QED
    BY <2>1, <1>6
<1> DEFINE r == Sorted(results)
<1>13. r \in Rearrangements(results) /\ \A i, j \in DOMAIN r : i < j => r[i] <= r[j]
  BY <1>11, <1>12 DEF Sorted
<1> HIDE DEF r
<1>14. PICK q \in [D -> D] : /\ r = [i \in D |-> results[q[i]]]
                              /\ \A i, j \in D : q[i] = q[j] => i = j
  BY <1>13 DEF Rearrangements, D
<1>15. DOMAIN r = D /\ \A i \in D : q[i] \in D /\ r[i] = results[q[i]] /\ r[i] \in Nat
  BY <1>1, <1>14
<1>16. \A x \in D : \E i \in D : q[i] = x
  <2>1. q \in Injection(D, D)
    BY <1>14 DEF Injection, IsInjective
  <2>2. IsFiniteSet(D)
    BY <1>1, FS_Interval
  <2>3. q \in Surjection(D, D)
    BY <2>1, <2>2, FS_SameCardinalityBij, FS_Injection DEF Bijection
  <2> QED
    BY <2>3 DEF Surjection
<1>17. {r[i] : i \in D} = S
  <2>1. \A i \in D : r[i] \in S
    BY <1>15 DEF S
  <2>2. ASSUME NEW x \in S PROVE \E i \in D : r[i] = x
    <3>1. PICK j \in D : results[j] = x
      BY DEF S
    <3>2. PICK i \in D : q[i] = j
      BY <1>16
    <3> QED
      BY <1>15, <3>1, <3>2
  <2> QED
    BY <2>1, <2>2
<1>18. \A i, j \in D : i < j => r[i] < r[j]
  <2> SUFFICES ASSUME NEW i \in D, NEW j \in D, i < j PROVE r[i] < r[j]
    OBVIOUS
  <2>1. r[i] <= r[j]
    BY <1>13, <1>15
  <2>2. q[i] # q[j]
    <3>1. i # j
      BY <1>1
    <3> QED
      BY <3>1, <1>14
  <2>3. r[i] # r[j]
    BY <2>2, <1>15 DEF D
  <2> QED
    BY <2>1, <2>3, <1>15
<1> QED
  BY <1>1, <1>2, <1>4, <1>15, <1>17, <1>18 DEF IsSortedReport, r, D, S

-----------------------------------------------------------------------------
(* The steps                                                               *)

LEMMA RunnerStarts == RunnerInit => RunnerInvariant
<1> SUFFICES ASSUME RunnerInit PROVE RunnerInvariant
  OBVIOUS
<1>1. RunnerTypes
  BY DEF RunnerInit, RunnerTypes, Free
<1>2. \A w \in Threads : claim[w] = 0 /\ claim[w] # Ended
  BY DEF RunnerInit, Free, Ended
<1>3. DOMAIN Cases = 1..Len(Cases) /\ Len(Cases) \in Nat
  BY RunnerAssumption
<1>4. 0 \notin DOMAIN Cases /\ executed = <<>> /\ next = 1 /\ report = <<>>
  BY <1>3 DEF RunnerInit
<1>5. CasesRunOnce
  BY <1>2, <1>3, <1>4 DEF CasesRunOnce, IsPushed
<1> QED
  BY <1>1, <1>4, <1>5 DEF RunnerInvariant

LEMMA CaseNumbers ==
    /\ DOMAIN Cases = 1..Len(Cases) /\ Len(Cases) \in Nat
    /\ Free \notin DOMAIN Cases /\ Ended \notin DOMAIN Cases /\ Free # Ended
    /\ \A k \in DOMAIN Cases : k \in Nat /\ Cases[k] \in Nat
    /\ \A i, j \in DOMAIN Cases : Cases[i] = Cases[j] => i = j
BY RunnerAssumption DEF Free, Ended

LEMMA ClaimKeeps ==
    ASSUME RunnerInvariant, NEW w \in Threads, Claim(w)
    PROVE  RunnerInvariant'
<1> DEFINE taken == IF next \in DOMAIN Cases THEN next ELSE Ended
<1>1. /\ RunnerTypes /\ CasesRunOnce /\ claim[w] = Free
      /\ next' = next + 1 /\ claim' = [claim EXCEPT ![w] = taken]
      /\ executed' = executed /\ report' = report
  BY DEF RunnerInvariant, Claim, FetchAdd
<1>2. taken \in DOMAIN Cases \cup {Free, Ended}
  OBVIOUS
<1>3. claim'[w] = taken /\ \A v \in Threads : v # w => claim'[v] = claim[v]
  BY <1>1 DEF RunnerTypes
<1>4. RunnerTypes'
  BY <1>1, <1>2 DEF RunnerTypes
<1>5. \A v \in Threads : claim[v] \in DOMAIN Cases => claim[v] < next
  BY <1>1 DEF CasesRunOnce
<1>6. next \in Nat /\ \A k \in DOMAIN Cases : k < next + 1 <=> k < next \/ k = next
  BY <1>1, CaseNumbers DEF RunnerTypes
<1>7. \A u, v \in Threads : claim'[u] = claim'[v] /\ claim'[u] \in DOMAIN Cases => u = v
  <2> SUFFICES ASSUME NEW u \in Threads, NEW v \in Threads,
                      claim'[u] = claim'[v], claim'[u] \in DOMAIN Cases, u # v
               PROVE  FALSE
    OBVIOUS
  <2>1. CASE u # w /\ v # w
    BY <2>1, <1>1, <1>3 DEF CasesRunOnce
  <2>2. CASE u = w
    BY <2>2, <1>3, <1>5, <1>6, CaseNumbers
  <2>3. CASE v = w
    BY <2>3, <1>3, <1>5, <1>6, CaseNumbers
  <2> QED
    BY <2>1, <2>2, <2>3
<1>8. \A v \in Threads : claim'[v] \in DOMAIN Cases => claim'[v] < next'
  BY <1>1, <1>3, <1>5, <1>6, CaseNumbers
<1>9. \A v \in Threads : claim'[v] = Ended => next' \notin DOMAIN Cases
  <2>1. next \notin DOMAIN Cases => next' \notin DOMAIN Cases
    BY <1>1, <1>6, CaseNumbers DEF RunnerTypes
  <2>2. \A v \in Threads : claim'[v] = Ended => next \notin DOMAIN Cases
    BY <1>1, <1>3, CaseNumbers DEF CasesRunOnce
  <2> QED
    BY <2>1, <2>2
<1>10. ASSUME NEW k \in DOMAIN Cases
       PROVE  IsPushed(k)' <=> k < next' /\ \A v \in Threads : claim'[v] # k
  <2>1. IsPushed(k)' <=> IsPushed(k)
    BY <1>1 DEF IsPushed
  <2>2. IsPushed(k) <=> k < next /\ \A v \in Threads : claim[v] # k
    BY <1>1 DEF CasesRunOnce
  <2>3. CASE k = next
    <3>1. claim'[w] = k /\ ~(k < next)
      BY <2>3, <1>3, <1>6
    <3> QED
      BY <3>1, <2>1, <2>2
  <2>4. CASE k # next
    <3>1. claim[w] # k /\ claim'[w] # k
      BY <2>4, <1>1, <1>3, CaseNumbers
    <3>2. (\A v \in Threads : claim'[v] # k) <=> (\A v \in Threads : claim[v] # k)
      BY <3>1, <1>3
    <3> QED
      BY <3>2, <2>1, <2>2, <2>4, <1>1, <1>6
  <2> QED
    BY <2>3, <2>4
<1>11. CasesRunOnce'
  <2>1. /\ \A i \in DOMAIN executed' : \E k \in DOMAIN Cases : executed'[i] = Cases[k]
        /\ \A i, j \in DOMAIN executed' : executed'[i] = executed'[j] => i = j
    BY <1>1 DEF CasesRunOnce
  <2> QED
    BY <2>1, <1>7, <1>8, <1>9, <1>10 DEF CasesRunOnce
<1> QED
  BY <1>1, <1>4, <1>11 DEF RunnerInvariant, IsSortedReport

LEMMA PushKeeps ==
    ASSUME RunnerInvariant, NEW w \in Threads, Push(w)
    PROVE  RunnerInvariant'
<1> DEFINE c == claim[w]
           n == Len(executed)
<1>1. /\ RunnerTypes /\ CasesRunOnce /\ c \in DOMAIN Cases
      /\ next' = next /\ claim' = [claim EXCEPT ![w] = Free]
      /\ executed' = Append(executed, Cases[c]) /\ report' = report
  BY DEF RunnerInvariant, Push
<1>2. claim'[w] = Free /\ \A v \in Threads : v # w => claim'[v] = claim[v]
  BY <1>1 DEF RunnerTypes
<1>3. /\ executed \in Seq(Nat) /\ n \in Nat /\ DOMAIN executed = 1..n /\ DOMAIN executed' = 1..(n + 1)
      /\ \A i \in 1..n : executed'[i] = executed[i]
      /\ executed'[n + 1] = Cases[c]
      /\ executed' \in Seq(Nat)
  BY <1>1, CaseNumbers DEF RunnerTypes
<1>4. RunnerTypes'
  BY <1>1, <1>3 DEF RunnerTypes
<1>5. ~IsPushed(c) /\ c < next
  BY <1>1 DEF CasesRunOnce
<1>6. \A i \in 1..(n + 1) : i \in 1..n \/ i = n + 1
  BY <1>3
<1>7. \A i \in 1..n : executed[i] # Cases[c]
  BY <1>3, <1>5 DEF IsPushed
<1>8. \A i \in DOMAIN executed' : \E k \in DOMAIN Cases : executed'[i] = Cases[k]
  BY <1>1, <1>3, <1>6 DEF CasesRunOnce
<1>9. \A i, j \in DOMAIN executed' : executed'[i] = executed'[j] => i = j
  <2>1. \A i, j \in 1..n : executed[i] = executed[j] => i = j
    BY <1>1, <1>3 DEF CasesRunOnce
  <2> QED
    BY <2>1, <1>3, <1>6, <1>7
<1>10. ASSUME NEW k \in DOMAIN Cases
       PROVE  IsPushed(k)' <=> k < next' /\ \A v \in Threads : claim'[v] # k
  <2>1. IsPushed(k) <=> k < next /\ \A v \in Threads : claim[v] # k
    BY <1>1 DEF CasesRunOnce
  <2>2. IsPushed(k)' <=> IsPushed(k) \/ k = c
    <3>1. IsPushed(k)' <=> \E i \in 1..(n + 1) : executed'[i] = Cases[k]
      BY <1>3 DEF IsPushed
    <3>2. IsPushed(k) <=> \E i \in 1..n : executed'[i] = Cases[k]
      BY <1>3 DEF IsPushed
    <3>3. executed'[n + 1] = Cases[k] <=> k = c
      BY <1>1, <1>3, CaseNumbers
    <3>4. n + 1 \in 1..(n + 1) /\ 1..n \subseteq 1..(n + 1)
      BY <1>3
    <3> QED
      BY <3>1, <3>2, <3>3, <3>4, <1>6
  <2>3. CASE k = c
    <3>1. \A v \in Threads : claim'[v] # k
      BY <2>3, <1>1, <1>2, CaseNumbers DEF CasesRunOnce
    <3> QED
      BY <3>1, <2>2, <2>3, <1>1, <1>5
  <2>4. CASE k # c
    <3>1. (\A v \in Threads : claim'[v] # k) <=> (\A v \in Threads : claim[v] # k)
      BY <2>4, <1>2, CaseNumbers
    <3> QED
      BY <3>1, <2>1, <2>2, <2>4, <1>1
  <2> QED
    BY <2>3, <2>4
<1>11. CasesRunOnce'
  <2>1. \A u, v \in Threads : claim'[u] = claim'[v] /\ claim'[u] \in DOMAIN Cases => u = v
    BY <1>1, <1>2, CaseNumbers DEF CasesRunOnce
  <2>2. \A v \in Threads : claim'[v] \in DOMAIN Cases => claim'[v] < next'
    BY <1>1, <1>2, CaseNumbers DEF CasesRunOnce
  <2>3. \A v \in Threads : claim'[v] = Ended => next' \notin DOMAIN Cases
    BY <1>1, <1>2, CaseNumbers DEF CasesRunOnce
  <2> QED
    BY <2>1, <2>2, <2>3, <1>8, <1>9, <1>10 DEF CasesRunOnce
<1> QED
  BY <1>1, <1>4, <1>11 DEF RunnerInvariant, IsSortedReport

LEMMA ReportKeeps ==
    ASSUME RunnerInvariant, Report
    PROVE  RunnerInvariant'
<1>1. /\ RunnerTypes /\ CasesRunOnce /\ \A w \in Threads : claim[w] = Ended
      /\ report' = Sorted(executed) /\ UNCHANGED <<next, claim, executed>>
  BY DEF RunnerInvariant, Report
<1>2. PICK w \in Threads : TRUE
  BY RunnerAssumption
<1>3. next \notin DOMAIN Cases /\ next \in Nat \ {0}
  BY <1>1, <1>2 DEF CasesRunOnce, RunnerTypes
<1>4. \A k \in DOMAIN Cases : IsPushed(k)
  <2>1. \A k \in DOMAIN Cases : k < next /\ \A v \in Threads : claim[v] # k
    BY <1>1, <1>3, CaseNumbers
  <2> QED
    BY <2>1, <1>1 DEF CasesRunOnce
<1>5. {executed[i] : i \in DOMAIN executed} = {Cases[i] : i \in DOMAIN Cases}
  BY <1>1, <1>4 DEF CasesRunOnce, IsPushed
<1>6. IsSortedReport(Sorted(executed))
  BY <1>1, <1>5, SortingIsDeterministic DEF CasesRunOnce, RunnerTypes
<1>7. IsSortedReport(report)'
  BY <1>1, <1>6 DEF IsSortedReport
<1>8. RunnerTypes' /\ CasesRunOnce'
  BY <1>1 DEF RunnerTypes, CasesRunOnce, IsPushed
<1> QED
  BY <1>7, <1>8 DEF RunnerInvariant

\* The cases below the counter are running or pushed, each once, and a report
\* has them all in order.
THEOREM RunnerCasesRunOnce == RunnerSpec => []RunnerInvariant
<1>1. RunnerInvariant /\ [RunnerNext]_runnerVars => RunnerInvariant'
  <2> SUFFICES ASSUME RunnerInvariant, [RunnerNext]_runnerVars PROVE RunnerInvariant'
    OBVIOUS
  <2>1. CASE UNCHANGED runnerVars
    <3>1. next' = next /\ claim' = claim /\ executed' = executed /\ report' = report
      BY <2>1 DEF runnerVars
    <3>2. RunnerTypes'
      BY <3>1 DEF RunnerInvariant, RunnerTypes
    <3>3. \A k \in DOMAIN Cases : IsPushed(k)' <=> IsPushed(k)
      BY <3>1 DEF IsPushed
    <3>4. CasesRunOnce'
      BY <3>1, <3>3 DEF RunnerInvariant, CasesRunOnce
    <3>5. (report # <<>> => IsSortedReport(report))'
      BY <3>1 DEF RunnerInvariant, IsSortedReport
    <3> QED
      BY <3>2, <3>4, <3>5 DEF RunnerInvariant
  <2>2. CASE \E w \in Threads : Claim(w) \/ Push(w)
    BY <2>2, ClaimKeeps, PushKeeps
  <2>3. CASE Report
    BY <2>3, ReportKeeps
  <2> QED
    BY <2>1, <2>2, <2>3 DEF RunnerNext, Finished
<1> QED
  BY <1>1, RunnerStarts, PTL DEF RunnerSpec

\* The report of the test runner does not depend on which thread claims which
\* case, nor on the order in which they finish.
THEOREM ReportsAreDeterministic == RunnerSpec => []ReportIsDeterministic
<1>1. RunnerInvariant => ReportIsDeterministic
  BY DEF RunnerInvariant, CasesRunOnce, IsSortedReport, ReportIsDeterministic
<1> QED
  BY <1>1, RunnerCasesRunOnce, PTL

=============================================================================
