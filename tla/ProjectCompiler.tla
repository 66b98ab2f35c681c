--------------------------- MODULE ProjectCompiler --------------------------
(***************************************************************************)
(* The incremental compiler (src/project.rs, ProjectCompiler) in the hands *)
(* of its long-lived user, the language server (src/lsp.rs).  The files of *)
(* the project are edited behind the server's back; a save makes it        *)
(* recompile, reusing parsed units by the hash of their text and the whole *)
(* checked program when nothing it read has changed.                       *)
(*                                                                         *)
(* A hash is the value hashed.                                             *)
(***************************************************************************)
EXTENDS ProjectSources

CONSTANTS
    Start,      \* the disks the server may be started on
    Drafts,     \* the sources that may be written to each path
    MaxEdits,   \* bound of the exploration
    MaxId       \* bound of the exploration

PartialMaps(range) == UNION {[domain -> range] : domain \in SUBSET Files}

\* For each file of the program the text and profile checked and the SourceId of
\* its spans; what else was read; and what the last refresh did.
Compilations ==
    [program: PartialMaps([text: Texts, profile: Profiles, id: Nat]),
     graph: PartialMaps(SUBSET Classes), schema: SUBSET Objects, security: Securities,
     parsed: SUBSET Files, reused: SUBSET Files, invalidated: SUBSET Files]

ASSUME CompilerAssumption ==
    /\ \A started \in Start : IsDisk(started)
    /\ Drafts \in [Files -> SUBSET Source]
    /\ None \notin Compilations

VARIABLES
    disk,
    units,          \* CachedUnit per path: the text it was parsed from and its SourceId
    nextSourceId,
    last,           \* the last_* fields, set by a successful compilation
    compilation,    \* the server's: None after a failure
    answered,       \* for properties: the disk of the last refresh
    edits           \* bound

vars == <<disk, units, nextSourceId, last, compilation, answered, edits>>

Init ==
    /\ disk \in Start
    /\ units = <<>>
    /\ nextSourceId = 1
    /\ last = [fingerprints |-> <<>>, compilation |-> None]
    /\ compilation = None
    /\ answered = None
    /\ edits = 0

-----------------------------------------------------------------------------
(* The last successful compilation                                         *)

LastGraph == IF last.compilation = None THEN <<>> ELSE last.compilation.graph

\* source_fingerprint hashes text and profile; mutant: source_hash.
TextsOnly(sources) == [f \in DOMAIN sources |-> sources[f].text]
Fingerprints(sources) == sources

\* Everything read equals what the last successful compilation read.
Unchanged ==
    /\ last.compilation # None
    /\ Fingerprints(disk.sources) = last.fingerprints
    /\ Schema(disk) = last.compilation.schema
    /\ disk.security = last.compilation.security

\* The previous compilation, reported as reused.
CachedCompilation ==
    [last.compilation EXCEPT !.parsed = {}, !.reused = DOMAIN disk.sources,
                             !.invalidated = {}]

Rewritten ==
    {f \in DOMAIN disk.sources :
        \/ f \notin DOMAIN last.fingerprints
        \/ last.fingerprints[f] # Fingerprints(disk.sources)[f]}

\* Changed, new and removed files.
Changed == Rewritten \cup (DOMAIN last.fingerprints \ DOMAIN disk.sources)

\* Mutant: the dependents of the old graph only.
InvalidatedBefore == DependentClosure(Changed, LastGraph)

\* Their dependents, as they were and as they are.
Invalidated ==
    DependentClosure(Changed, LastGraph)
        \cup DependentClosure(Changed, DependencyGraph(disk.sources))

-----------------------------------------------------------------------------
(* Parsing: in path order, up to the first file that does not parse        *)

Stale(f) == f \notin DOMAIN units \/ units[f].text # disk.sources[f].text

ToParse == {f \in DOMAIN disk.sources : Stale(f)}
Broken == {f \in ToParse : ~Shape[disk.sources[f].text].parses}
Reached == {f \in ToParse : \A b \in Broken : Order[f] <= Order[b]}
Parsed == Reached \ Broken

\* A slip: a new identity for every parse.
NewIdentity(f) == nextSourceId + Cardinality({g \in Reached : Order[g] < Order[f]})

\* A cached path keeps its identity; new ones are numbered in path order.
Identity(f) ==
    IF f \in DOMAIN units
    THEN units[f].id
    ELSE nextSourceId + Cardinality({g \in Reached \ DOMAIN units : Order[g] < Order[f]})

ParsedUnits ==
    [f \in DOMAIN units \cup Parsed |->
        IF f \in Parsed
        THEN [text |-> disk.sources[f].text, id |-> Identity(f)]
        ELSE units[f]]

Retained == [f \in DOMAIN disk.sources |-> ParsedUnits[f]]

\* What the checker is given: the cached syntax trees under the profiles read.
Linked ==
    [program |-> [f \in DOMAIN disk.sources |->
                    [text |-> ParsedUnits[f].text, profile |-> disk.sources[f].profile,
                     id |-> ParsedUnits[f].id]],
     graph |-> DependencyGraph([f \in DOMAIN disk.sources |-> ParsedUnits[f]]),
     schema |-> Schema(disk), security |-> disk.security,
     parsed |-> Parsed, reused |-> DOMAIN disk.sources \ Parsed,
     invalidated |-> Invalidated]

-----------------------------------------------------------------------------
(* Refresh: what initialize and didSave do                                 *)

Refresh == answered' = disk /\ UNCHANGED <<disk, edits>>

\* discover, import_metadata or security::load fails: nothing is touched.
FailToRead ==
    /\ ~IsReadable(disk)
    /\ compilation' = None
    /\ UNCHANGED <<units, nextSourceId, last>>
    /\ Refresh

ReuseProgram ==
    /\ IsReadable(disk) /\ Unchanged
    /\ compilation' = CachedCompilation
    /\ UNCHANGED <<units, nextSourceId, last>>
    /\ Refresh

Parse ==
    /\ IsReadable(disk) /\ ~Unchanged
    /\ nextSourceId + Cardinality(Reached) <= MaxId
    /\ nextSourceId' = nextSourceId + Cardinality(Reached \ DOMAIN units)

\* The units parsed before the broken file stay; nothing is dropped.
FailToParse ==
    /\ Parse
    /\ Broken # {}
    /\ units' = ParsedUnits
    /\ compilation' = None
    /\ UNCHANGED last
    /\ Refresh

\* The units are current, the last_* fields are not touched.
FailToLink ==
    /\ Parse
    /\ Broken = {} /\ ~Links(Linked.program, Schema(disk))
    /\ units' = Retained
    /\ compilation' = None
    /\ UNCHANGED last
    /\ Refresh

Compile ==
    /\ Parse
    /\ Broken = {} /\ Links(Linked.program, Schema(disk))
    /\ units' = Retained
    /\ compilation' = Linked
    /\ last' = [fingerprints |-> Fingerprints(disk.sources), compilation |-> Linked]
    /\ Refresh

-----------------------------------------------------------------------------
(* The editor: a file is written, created or removed, or a fixture is      *)

Edit(changed) ==
    /\ edits < MaxEdits
    /\ changed # disk
    /\ disk' = changed
    /\ edits' = edits + 1
    /\ UNCHANGED <<units, nextSourceId, last, compilation, answered>>

Write(f, source) ==
    Edit([disk EXCEPT !.sources =
            [g \in DOMAIN disk.sources \cup {f} |->
                IF g = f THEN source ELSE disk.sources[g]]])

Remove(f) ==
    /\ f \in DOMAIN disk.sources
    /\ Edit([disk EXCEPT !.sources =
                [g \in DOMAIN disk.sources \ {f} |-> disk.sources[g]]])

EditObjects(objects, local) ==
    Edit([disk EXCEPT !.objects = objects, !.local = local])

EditSecurity(security) == Edit([disk EXCEPT !.security = security])

\* The session ends, at the latest when the identities of the bound run out.
Exit ==
    /\ nextSourceId + Cardinality(Reached) > MaxId
    /\ UNCHANGED vars

Next ==
    \/ FailToRead \/ ReuseProgram
    \/ FailToParse \/ FailToLink \/ Compile
    \/ \E f \in Files : \E source \in Drafts[f] : Write(f, source)
    \/ \E f \in Files : Remove(f)
    \/ \E objects, local \in SUBSET Objects : EditObjects(objects, local)
    \/ \E security \in Securities \cup {Malformed} : EditSecurity(security)
    \/ Exit

Spec == Init /\ [][Next]_vars

-----------------------------------------------------------------------------
(* Properties                                                              *)

\* Whatever was reused, after whichever failures, the server has what a
\* compilation from nothing gives: none if the project does not compile, else
\* the program, dependencies, schema and policy that are on the disk it read.
ServesFreshCompilation ==
    answered # None =>
        /\ compilation # None <=> Compiles(answered)
        /\ compilation # None =>
            /\ DOMAIN compilation.program = DOMAIN answered.sources
            /\ \A f \in DOMAIN answered.sources :
                   /\ compilation.program[f].text = answered.sources[f].text
                   /\ compilation.program[f].profile = answered.sources[f].profile
            /\ compilation.graph = DependencyGraph(answered.sources)
            /\ compilation.schema = Schema(answered)
            /\ compilation.security = answered.security

\* Spans of different files differ: no two units, and no two files of a program
\* that is still in use, have one SourceId, and none will be given again.
AreDistinct ==
    LET inUse == {units} \cup {c.program : c \in {last.compilation, compilation} \ {None}}
    IN  \A old, new \in inUse : \A f \in DOMAIN old, g \in DOMAIN new :
            /\ old[f].id < nextSourceId
            /\ old[f].id = new[g].id => f = g

\* A cached path keeps its SourceId when it is parsed again, also across
\* compilations that fail (ADR 0009), and never one that another file has.
IdentitiesAreStable ==
    [][ /\ AreDistinct'
        /\ \A f \in DOMAIN units \cap DOMAIN units' : units'[f].id = units[f].id ]_vars

\* A file's view is what can have a bearing on its checked program: itself and
\* the files it reaches.
View(c, f) ==
    LET reached == {g \in DOMAIN c.program : f \in DependentClosure({g}, c.graph)}
    IN  [g \in reached |-> [text |-> c.program[g].text, profile |-> c.program[g].profile]]

\* A file that is not reported as invalidated was part of the last successful
\* compilation and has the view it had there, whatever happened in between.
InvalidationCoversChanges ==
    [][ compilation' # None /\ compilation' # compilation /\ last.compilation # None =>
            \A f \in DOMAIN compilation'.program \ compilation'.invalidated :
                /\ f \in DOMAIN last.compilation.program
                /\ View(compilation', f) = View(last.compilation, f) ]_vars

=============================================================================
