---------------------------- MODULE EnterpriseCi ----------------------------
(***************************************************************************)
(* Hermetic CI (src/ci.rs): a manifest seals the inputs of a project; each *)
(* run verifies the seal, looks for a result under a key derived from the  *)
(* manifest, and otherwise compiles, selects the impacted tests of its     *)
(* shard, runs them, and publishes the result by writing a temporary file  *)
(* and renaming it.  Runs are processes that share the project and the     *)
(* cache directory and may die at any point; the project may be edited at  *)
(* any point.                                                              *)
(*                                                                         *)
(* What a run observes (test outcomes, coverage, policy) is a function of  *)
(* the project it compiled, its selection and the manifest's policy; a     *)
(* result therefore carries the project it came from.  TestRunner models   *)
(* the execution of the tests.                                             *)
(***************************************************************************)
EXTENDS ProjectSources

CONSTANTS
    Projects,     \* the states the project may be edited to
    Content,      \* what each of them puts on the disk
    Original,     \* the one it starts from
    Workers,
    Shards,       \* the total of the shards
    ChangeLists,  \* the sets of changed paths a run may be given
    MaxEdits,     \* bound of the exploration
    MaxRuns       \* bound of the exploration

ASSUME CiAssumption ==
    /\ Shards \in Nat \ {0} /\ MaxEdits \in Nat /\ MaxRuns \in Nat
    /\ Original \in Projects
    /\ \A p \in Projects : IsDisk(Content[p])

VARIABLES
    disk,        \* the project as it is
    manifest,    \* the digest of the sealed inputs, or None
    cache,       \* the published artifacts, by key
    temporary,   \* each process's temporary file
    worker,
    returned,    \* for properties: what the runs returned
    runs, edits  \* bounds

vars == <<disk, manifest, cache, temporary, worker, returned, runs, edits>>

\* collect_inputs: the project configuration and everything below the package
\* roots, but nothing of .apex-exec.
Sealed(p) == [sources |-> Content[p].sources, objects |-> Content[p].objects]

\* The digest of the inputs: one project stands for all that agree on them.
Digest == [p \in Projects |-> CHOOSE q \in Projects : Sealed(q) = Sealed(p)]

ProfilesOf(p) == [f \in DOMAIN Content[p].sources |-> Content[p].sources[f].profile]

Idle ==
    [pc |-> "idle", inputs |-> None, changed |-> {}, index |-> 0, mode |-> "cache",
     verified |-> None, raced |-> FALSE, key |-> None, result |-> None]

Put(map, k, value) == [x \in DOMAIN map \cup {k} |-> IF x = k THEN value ELSE map[x]]

Init ==
    /\ disk = Original
    /\ manifest = None
    /\ cache = <<>>
    /\ temporary = [w \in Workers |-> None]
    /\ worker = [w \in Workers |-> Idle]
    /\ returned = {}
    /\ runs = 0 /\ edits = 0

-----------------------------------------------------------------------------
(* Selection                                                               *)

\* The tests of the test classes, by rank of qualified name, with their paths.
Descriptors(sources) ==
    UNION {{<<test, f>> : test \in Shape[sources[f].text].tests} :
                f \in DOMAIN sources \cap Classes}

AllTests(sources) == {d[1] : d \in Descriptors(sources)}

\* The metadata, triggers, deleted and unknown files among the changed ones.
Unproven(sources, changed) == changed \ (Classes \cap DOMAIN sources)

\* Mutant: the changed files and those that refer to them.
DirectlyImpacted(sources, changed) ==
    changed \cup {f \in DOMAIN sources : DependencyGraph(sources)[f] \cap changed # {}}
Impacted(sources, changed) == DependentClosure(changed, DependencyGraph(sources))

\* All tests if nothing is said to have changed or anything is unproven.
Select(sources, changed) ==
    IF changed = {} \/ Unproven(sources, changed) # {}
    THEN AllTests(sources)
    ELSE {d[1] : d \in {e \in Descriptors(sources) : e[2] \in Impacted(sources, changed)}}

\* The tests whose position among the selected ones falls to the shard.
ShardOf(selected, index) ==
    {test \in selected : Cardinality({s \in selected : s < test}) % Shards = index}

\* What a run executes, for each project, change and shard.
Executed ==
    [p \in Projects |-> [changed \in ChangeLists |-> [index \in 0 .. Shards - 1 |->
        IF Compiles(Content[p])
        THEN ShardOf(Select(Content[p].sources, changed), index)
        ELSE {}]]]

Compiled == [p \in Projects |-> Compiles(Content[p])]

\* cache_key: the manifest with the effective shard, and the profiles of the
\* project as they are now.  Mutant: without the changed files.
KeyWithoutChanges(w) ==
    [inputs |-> worker[w].inputs, changed |-> {}, index |-> worker[w].index,
     profiles |-> ProfilesOf(disk)]
KeyOf(w) ==
    [inputs |-> worker[w].inputs, changed |-> worker[w].changed, index |-> worker[w].index,
     profiles |-> ProfilesOf(disk)]

-----------------------------------------------------------------------------
(* The steps of a run                                                      *)

\* ci manifest: seal the project as it is.
Seal ==
    /\ Content[disk].sources # <<>>
    /\ manifest' = Digest[disk]
    /\ UNCHANGED <<disk, cache, temporary, worker, returned, runs, edits>>

\* ci run with a shard, a list of changed files, and --no-cache or --replay;
\* verify_inputs accepts the project.
Begin(w, index, changed, mode) ==
    /\ worker[w] = Idle /\ runs < MaxRuns
    /\ manifest # None /\ Digest[disk] = manifest
    /\ worker' = [worker EXCEPT ![w] =
                    [Idle EXCEPT !.pc = "verified", !.inputs = manifest, !.verified = disk,
                                 !.changed = changed, !.index = index, !.mode = mode]]
    /\ runs' = runs + 1
    /\ UNCHANGED <<disk, manifest, cache, temporary, returned, edits>>

Returned(w, result, hit) ==
    [inputs |-> worker[w].inputs, changed |-> worker[w].changed, index |-> worker[w].index,
     verified |-> worker[w].verified, hit |-> hit, result |-> result]

\* load_artifact accepts the artifact, which is returned.
Hit(w) ==
    /\ worker[w].pc = "verified" /\ worker[w].mode # "no-cache"
    /\ Content[disk].sources # <<>>
    /\ KeyOf(w) \in DOMAIN cache
    /\ cache[KeyOf(w)].whole /\ cache[KeyOf(w)].result.key = KeyOf(w)
    /\ returned' = returned \cup {Returned(w, cache[KeyOf(w)].result, TRUE)}
    /\ worker' = [worker EXCEPT ![w] = Idle]
    /\ UNCHANGED <<disk, manifest, cache, temporary, runs, edits>>

\* --replay ends here with an error, see Stop.
Miss(w) ==
    /\ worker[w].pc = "verified" /\ worker[w].mode # "replay"
    /\ Content[disk].sources # <<>>
    /\ worker[w].mode = "cache" => KeyOf(w) \notin DOMAIN cache
    /\ worker' = [worker EXCEPT ![w].pc = "missed", ![w].key = KeyOf(w)]
    /\ UNCHANGED <<disk, manifest, cache, temporary, returned, runs, edits>>

\* The project is compiled as it is now, the tests of the shard run and the policy
\* applies; a failed compilation is a result as well.
CompileAndTest(w) ==
    /\ worker[w].pc = "missed"
    /\ worker' = [worker EXCEPT
                    ![w].pc = IF worker[w].mode = "no-cache" THEN "stored" ELSE "executed",
                    ![w].result = [key |-> worker[w].key, compiled |-> Compiled[disk],
                                   selected |-> Executed[disk][worker[w].changed][worker[w].index],
                                   project |-> disk, raced |-> worker[w].raced]]
    /\ UNCHANGED <<disk, manifest, cache, temporary, returned, runs, edits>>

\* fs::write creates the temporary file, and later has written it.
\* Mutant: the artifact is written in place.
CreateArtifact(w) ==
    /\ worker[w].pc = "executed"
    /\ temporary' = [temporary EXCEPT ![w] = [whole |-> FALSE, result |-> worker[w].result]]
    /\ cache' = Put(cache, worker[w].key, [whole |-> FALSE, result |-> worker[w].result])
    /\ worker' = [worker EXCEPT ![w].pc = "writing"]
    /\ UNCHANGED <<disk, manifest, returned, runs, edits>>

CreateTemporary(w) ==
    /\ worker[w].pc = "executed"
    /\ temporary' = [temporary EXCEPT ![w] = [whole |-> FALSE, result |-> worker[w].result]]
    /\ worker' = [worker EXCEPT ![w].pc = "writing"]
    /\ UNCHANGED <<disk, manifest, cache, returned, runs, edits>>

FinishTemporary(w) ==
    /\ worker[w].pc = "writing"
    /\ temporary' = [temporary EXCEPT ![w].whole = TRUE]
    /\ worker' = [worker EXCEPT ![w].pc = "written"]
    /\ UNCHANGED <<disk, manifest, cache, returned, runs, edits>>

\* The rename replaces what another process may have published.
Publish(w) ==
    /\ worker[w].pc = "written"
    /\ cache' = Put(cache, worker[w].key, temporary[w])
    /\ temporary' = [temporary EXCEPT ![w] = None]
    /\ worker' = [worker EXCEPT ![w].pc = "stored"]
    /\ UNCHANGED <<disk, manifest, returned, runs, edits>>

\* The reports are written and the result is returned.
Return(w) ==
    /\ worker[w].pc = "stored"
    /\ returned' = returned \cup {Returned(w, worker[w].result, FALSE)}
    /\ worker' = [worker EXCEPT ![w] = Idle]
    /\ UNCHANGED <<disk, manifest, cache, temporary, runs, edits>>

\* The process dies or returns an error: a replay without an artifact, an
\* artifact that is refused, a failed read or write.  Files stay as they are.
Stop(w) ==
    /\ worker[w] # Idle
    /\ worker' = [worker EXCEPT ![w] = Idle]
    /\ UNCHANGED <<disk, manifest, cache, temporary, returned, runs, edits>>

\* A file, metadata or a fixture is edited, possibly under a run.
Edit(project) ==
    /\ edits < MaxEdits /\ project # disk
    /\ disk' = project
    /\ worker' = [w \in Workers |->
                    IF worker[w] = Idle THEN Idle ELSE [worker[w] EXCEPT !.raced = TRUE]]
    /\ edits' = edits + 1
    /\ UNCHANGED <<manifest, cache, temporary, returned, runs>>

Terminated == runs = MaxRuns /\ (\A w \in Workers : worker[w] = Idle) /\ UNCHANGED vars

Next ==
    \/ Seal
    \/ \E w \in Workers :
        \/ \E index \in 0 .. Shards - 1, changed \in ChangeLists,
              mode \in {"cache", "no-cache", "replay"} : Begin(w, index, changed, mode)
        \/ Hit(w) \/ Miss(w) \/ CompileAndTest(w)
        \/ CreateTemporary(w) \/ FinishTemporary(w) \/ Publish(w)
        \/ Return(w) \/ Stop(w)
    \/ \E project \in Projects : Edit(project)
    \/ Terminated

Spec == Init /\ [][Next]_vars

-----------------------------------------------------------------------------
(* Properties                                                              *)

\* Whatever processes race or die, a published artifact is complete and lies
\* under its own key.
ArtifactsAreWhole ==
    \A key \in DOMAIN cache : cache[key].whole /\ cache[key].result.key = key

\* A replayed result is the one that executing the verified sources with the
\* options of this very run gives, unless it was made by a run during which the
\* project was edited.
ReplaysAreExact ==
    \A r \in returned : r.hit /\ ~r.result.raced =>
        /\ Digest[r.result.project] = r.inputs
        /\ r.result.selected = Executed[r.result.project][r.changed][r.index]

\* A file is unaffected if what it depends on can be told apart from the change.
Unaffected(sources, f, changed) ==
    \E apart \in SUBSET DOMAIN sources :
        /\ f \in apart /\ apart \cap changed = {}
        /\ \A g \in apart : DependencyGraph(sources)[g] \subseteq apart

AffectedTests ==
    [p \in Projects |-> [changed \in ChangeLists |->
        {d[1] : d \in {e \in Descriptors(Content[p].sources) :
            \/ changed = {} \/ Unproven(Content[p].sources, changed) # {}
            \/ ~Unaffected(Content[p].sources, e[2], changed)}}]]

\* When every shard of a change has returned, from cache or by execution, each
\* test that depends on a changed class, and each test at all if anything but
\* known classes changed, ran in one shard; and no test ran in two.
AffectedTestsRunOnce ==
    \A r \in returned :
        LET group == {s \in returned : /\ s.inputs = r.inputs /\ s.changed = r.changed
                                       /\ s.result.compiled /\ ~s.result.raced}
        IN  /\ \A s, t \in group : s.index # t.index => s.result.selected \cap t.result.selected = {}
            /\ {s.index : s \in group} = 0 .. Shards - 1 =>
                   AffectedTests[r.inputs][r.changed] \subseteq UNION {s.result.selected : s \in group}

\* ADR 0018: "Exact input verification detects drift before a stale result can
\* pass": a replayed result comes from the project that was verified.
ReplaysMatchTheProject ==
    \A r \in returned : r.hit /\ ~r.result.raced => r.result.project = r.verified

=============================================================================
