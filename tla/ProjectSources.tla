--------------------------- MODULE ProjectSources ---------------------------
(***************************************************************************)
(* An SFDX project as the compiler sees it: what project::discover,        *)
(* import_metadata and security::load read from the disk, the dependency   *)
(* graph (src/project/dependency.rs) and the outcome of a compilation from *)
(* nothing (project::compile).                                             *)
(*                                                                         *)
(* A text stands for the contents of a source file; Shape says what the    *)
(* parser and the checker find in it.                                      *)
(***************************************************************************)
EXTENDS Dependents

CONSTANTS
    Classes,    \* paths of .cls files; the path stands for the type it declares
    Triggers,   \* paths of .trigger files, which declare no type
    Order,      \* the position of each path in the sorted list of paths
    Texts,
    Shape,      \* what a text holds, see TextShape
    Profiles,   \* compatibility profiles
    Objects,    \* SObjects that metadata may declare
    Securities, \* contents of the security fixture
    Malformed,  \* those that security::load refuses
    None

Files == Classes \cup Triggers

TextShape ==
    [parses: BOOLEAN,             \* as one top-level declaration named like the file
     names: SUBSET Classes,       \* the names DependencyCollector records
     needs: SUBSET Classes,       \* those that have to be types of the project
     objects: SUBSET Objects,     \* the SObjects it uses
     profiles: SUBSET Profiles,   \* the profiles that accept it
     tests: SUBSET Nat]           \* the ranks of its test methods by qualified name

ASSUME SourcesAssumption ==
    /\ Classes \cap Triggers = {} /\ IsFiniteSet(Files)
    /\ Order \in [Files -> Nat]
    /\ \A f, g \in Files : Order[f] = Order[g] => f = g
    /\ Shape \in [Texts -> TextShape]

Source == [text: Texts, profile: Profiles]
\* A function on some of the files.
IsPartial(map, range) == DOMAIN map \subseteq Files /\ map \in [DOMAIN map -> range]

\* The disk: Apex files with the profile of their sidecar or of the project,
\* objects in the package roots, objects in .apex-exec/schema, the fixture.
IsDisk(disk) ==
    /\ disk = [sources |-> disk.sources, objects |-> disk.objects,
               local |-> disk.local, security |-> disk.security]
    /\ IsPartial(disk.sources, Source)
    /\ disk.objects \subseteq Objects /\ disk.local \subseteq Objects
    /\ disk.security \in Securities \cup {Malformed}

Schema(disk) == disk.objects \cup disk.local

-----------------------------------------------------------------------------
(* Dependencies                                                            *)

\* Every file with the files that declare the names it refers to.
DependencyGraph(sources) ==
    [f \in DOMAIN sources |->
        ((Shape[sources[f].text].names \cap DOMAIN sources) \cap Classes) \ {f}]

-----------------------------------------------------------------------------
(* Compilation from nothing                                                *)

Parses(sources) == \A f \in DOMAIN sources : Shape[sources[f].text].parses

\* check_with_schema_and_profiles accepts the merged program.
Links(sources, schema) ==
    \A f \in DOMAIN sources :
        LET shape == Shape[sources[f].text]
        IN  /\ shape.needs \subseteq DOMAIN sources
            /\ shape.objects \subseteq schema
            /\ sources[f].profile \in shape.profiles

\* discover refuses a project without sources, and security::load a fixture.
IsReadable(disk) == disk.sources # <<>> /\ disk.security # Malformed

Compiles(disk) ==
    /\ IsReadable(disk)
    /\ Parses(disk.sources)
    /\ Links(disk.sources, Schema(disk))

=============================================================================
