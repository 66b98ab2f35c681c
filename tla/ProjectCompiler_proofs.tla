------------------------ MODULE ProjectCompiler_proofs -------------------------
(***************************************************************************)
(* What holds of ProjectCompiler for every project, every reference among  *)
(* its files, and any number of edits, failures and compilations.  What    *)
(* the compiler keeps is true of the text it was made from: a unit parses, *)
(* and the last compilation is a fresh one of the last fingerprints.  The  *)
(* rest compares texts.                                                    *)
(***************************************************************************)
EXTENDS ProjectCompiler, Dependents_proofs

Units == [text: Texts, id: Nat]

UnitsParse ==
    /\ IsPartial(units, Units)
    /\ \A f \in DOMAIN units : Shape[units[f].text].parses

\* A compilation of some sources.
IsOf(c, sources) ==
    /\ c \in Compilations
    /\ DOMAIN c.program = DOMAIN sources
    /\ \A f \in DOMAIN sources :
           c.program[f].text = sources[f].text /\ c.program[f].profile = sources[f].profile
    /\ c.graph = DependencyGraph(sources)

LastIsFresh ==
    /\ last = [fingerprints |-> last.fingerprints, compilation |-> last.compilation]
    /\ last.compilation = None => last.fingerprints = <<>>
    /\ last.compilation # None =>
        /\ IsPartial(last.fingerprints, Source) /\ last.fingerprints # <<>>
        /\ IsOf(last.compilation, last.fingerprints)
        /\ Parses(last.fingerprints)
        /\ Links(last.fingerprints, last.compilation.schema)
        /\ last.compilation.security # Malformed

CompilerInvariant ==
    /\ IsDisk(disk) /\ nextSourceId \in Nat
    /\ UnitsParse
    /\ LastIsFresh
    /\ compilation # None => compilation \in Compilations
    /\ AreDistinct
    /\ ServesFreshCompilation

-----------------------------------------------------------------------------
(* Sets of files                                                           *)

LEMMA FilesAreFinite == ASSUME NEW S, S \subseteq Files PROVE IsFiniteSet(S)
BY SourcesAssumption, FS_Subset

LEMMA PartialMapsHaveAll ==
    ASSUME NEW range, NEW map, IsPartial(map, range)
    PROVE  map \in PartialMaps(range)
BY DEF PartialMaps, IsPartial

LEMMA PartialMapsArePartial ==
    ASSUME NEW range, NEW map \in PartialMaps(range)
    PROVE  IsPartial(map, range)
BY DEF PartialMaps, IsPartial

LEMMA ClosureStaysInFiles ==
    ASSUME NEW changed, changed \subseteq Files, NEW graph, DOMAIN graph \subseteq Files
    PROVE  DependentClosure(changed, graph) \subseteq Files
BY FilesAreFinite, ClosureIsLeast DEF IsClosed

LEMMA GraphIsPartial ==
    ASSUME NEW sources, DOMAIN sources \subseteq Files
    PROVE  IsPartial(DependencyGraph(sources), SUBSET Classes)
BY DEF IsPartial, DependencyGraph

LEMMA SourcesArePartial ==
    ASSUME CompilerInvariant
    PROVE  /\ DOMAIN disk.sources \subseteq Files
           /\ \A f \in DOMAIN disk.sources :
                  disk.sources[f] \in Source /\ disk.sources[f].text \in Texts
                  /\ disk.sources[f].profile \in Profiles
<1>1. IsPartial(disk.sources, Source)
  BY DEF CompilerInvariant, IsDisk
<1> QED
  BY <1>1 DEF IsPartial, Source

-----------------------------------------------------------------------------
(* Numbering                                                               *)

New == Reached \ DOMAIN units

\* The new files get the next identities, one each.
LEMMA NewIdentitiesAreDistinct ==
    ASSUME CompilerInvariant
    PROVE  /\ Cardinality(New) \in Nat
           /\ \A f \in New : /\ Identity(f) \in Nat /\ nextSourceId <= Identity(f)
                             /\ Identity(f) < nextSourceId + Cardinality(New)
           /\ \A f, g \in New : Identity(f) = Identity(g) => f = g
<1> DEFINE before(f) == {g \in New : Order[g] < Order[f]}
<1>1. New \subseteq Files /\ IsFiniteSet(New)
  BY SourcesArePartial, FilesAreFinite DEF New, Reached, ToParse
<1>2. nextSourceId \in Nat /\ Cardinality(New) \in Nat
  BY <1>1, FS_CardinalityType DEF CompilerInvariant
<1>3. \A f \in New : Order[f] \in Nat
  BY <1>1, SourcesAssumption
<1>4. \A f \in New : Identity(f) = nextSourceId + Cardinality(before(f))
  BY DEF Identity, New
<1>5. ASSUME NEW f \in New
      PROVE  Cardinality(before(f)) \in Nat /\ Cardinality(before(f)) < Cardinality(New)
  <2>1. before(f) \in SUBSET New /\ f \in New /\ f \notin before(f)
    BY <1>3
  <2> HIDE DEF before
  <2>2. before(f) # New
    BY <2>1
  <2>3. IsFiniteSet(before(f)) /\ Cardinality(before(f)) <= Cardinality(New)
        /\ (Cardinality(before(f)) = Cardinality(New) => before(f) = New)
    BY <1>1, <2>1, FS_Subset
  <2>4. Cardinality(before(f)) \in Nat
    BY <2>3, FS_CardinalityType
  <2> QED
    BY <1>2, <2>2, <2>3, <2>4
<1>6. ASSUME NEW f \in New, NEW g \in New, Order[f] < Order[g]
      PROVE  Cardinality(before(f)) < Cardinality(before(g))
  <2>1. before(f) \in SUBSET before(g) /\ f \in before(g) /\ f \notin before(f)
    BY <1>3, <1>6
  <2>2. IsFiniteSet(before(g))
    BY <1>1, FS_Subset
  <2>3. Cardinality(before(f)) \in Nat /\ Cardinality(before(g)) \in Nat
    BY <1>5
  <2> HIDE DEF before
  <2>4. before(f) # before(g)
    BY <2>1
  <2>5. Cardinality(before(f)) <= Cardinality(before(g))
        /\ (Cardinality(before(f)) = Cardinality(before(g)) => before(f) = before(g))
    BY <2>1, <2>2, FS_Subset
  <2> QED
    BY <2>3, <2>4, <2>5
<1> HIDE DEF before
<1>7. ASSUME NEW f \in New, NEW g \in New, Identity(f) = Identity(g) PROVE f = g
  <2>1. Cardinality(before(f)) = Cardinality(before(g))
    BY <1>2, <1>4, <1>5, <1>7
  <2>2. ~(Order[f] < Order[g]) /\ ~(Order[g] < Order[f])
    BY <1>5, <1>6, <2>1
  <2>3. Order[f] = Order[g]
    BY <1>3, <2>2
  <2> QED
    BY <1>1, <2>3, SourcesAssumption
<1> QED
  BY <1>2, <1>4, <1>5, <1>7

\* A parsed unit has its old identity or a new one.
LEMMA UnitIdentities ==
    ASSUME CompilerInvariant, NEW f \in DOMAIN ParsedUnits
    PROVE  /\ ParsedUnits[f] \in Units /\ Shape[ParsedUnits[f].text].parses
           /\ \/ f \in DOMAIN units /\ ParsedUnits[f].id = units[f].id
              \/ f \in New /\ ParsedUnits[f].id = Identity(f)
<1>1. IsPartial(units, Units) /\ \A g \in DOMAIN units : Shape[units[g].text].parses
  BY DEF CompilerInvariant, UnitsParse
<1>2. CASE f \in Parsed
  <2>1. f \in ToParse /\ f \in Reached /\ f \notin Broken
    BY <1>2 DEF Parsed, Reached
  <2>2. f \in DOMAIN disk.sources /\ Shape[disk.sources[f].text].parses
    BY <2>1 DEF ToParse, Broken
  <2>3. ParsedUnits[f] = [text |-> disk.sources[f].text, id |-> Identity(f)]
    BY <1>2 DEF ParsedUnits
  <2>4. CASE f \in DOMAIN units
    <3>1. Identity(f) = units[f].id /\ units[f].id \in Nat
      BY <1>1, <2>4 DEF Identity, IsPartial, Units
    <3> QED
      BY <2>2, <2>3, <2>4, <3>1, SourcesArePartial DEF Units
  <2>5. CASE f \notin DOMAIN units
    <3>1. f \in New /\ Identity(f) \in Nat
      BY <2>1, <2>5, NewIdentitiesAreDistinct DEF New
    <3> QED
      BY <2>2, <2>3, <3>1, SourcesArePartial DEF Units
  <2> QED
    BY <2>4, <2>5
<1>3. CASE f \notin Parsed
  <2>1. f \in DOMAIN units /\ ParsedUnits[f] = units[f]
    BY <1>3 DEF ParsedUnits
  <2> QED
    BY <1>1, <2>1 DEF IsPartial
<1> QED
  BY <1>2, <1>3

\* A file that is used under an identity.
InUse == {units} \cup {c.program : c \in {last.compilation, compilation} \ {None}}
HasIdentity(maps, f, id) == \E map \in maps : f \in DOMAIN map /\ map[f].id = id

LEMMA DistinctMeansDistinct ==
    AreDistinct <=> \A f, id : HasIdentity(InUse, f, id) =>
                        /\ id < nextSourceId
                        /\ \A g : HasIdentity(InUse, g, id) => f = g
<1>1. AreDistinct <=>
          \A old, new \in InUse : \A f \in DOMAIN old, g \in DOMAIN new :
              old[f].id < nextSourceId /\ (old[f].id = new[g].id => f = g)
  BY DEF AreDistinct, InUse
<1> QED
  BY <1>1 DEF HasIdentity

LEMMA IdentitiesAreNaturals ==
    ASSUME CompilerInvariant, NEW f, NEW id, HasIdentity(InUse, f, id)
    PROVE  id \in Nat
<1>1. PICK map \in InUse : f \in DOMAIN map /\ map[f].id = id
  BY DEF HasIdentity
<1>2. CASE map = units
  BY <1>1, <1>2 DEF CompilerInvariant, UnitsParse, IsPartial, Units
<1>3. ASSUME NEW c \in {last.compilation, compilation} \ {None}, map = c.program PROVE id \in Nat
  <2>1. c \in Compilations
    BY DEF CompilerInvariant, LastIsFresh, IsOf
  <2>2. map \in PartialMaps([text: Texts, profile: Profiles, id: Nat])
    BY <1>3, <2>1 DEF Compilations
  <2>3. map[f] \in [text: Texts, profile: Profiles, id: Nat]
    BY <1>1, <2>2, PartialMapsArePartial DEF IsPartial
  <2> QED
    BY <1>1, <2>3
<1> QED
  BY <1>1, <1>2, <1>3 DEF InUse

\* Identities stay distinct whatever of the old and the parsed units is kept.
LEMMA StaysDistinct ==
    ASSUME CompilerInvariant, nextSourceId' = nextSourceId + Cardinality(New),
           \A f, id : HasIdentity(InUse', f, id) =>
               HasIdentity(InUse, f, id) \/ (f \in New /\ id = Identity(f))
    PROVE  AreDistinct'
<1>1. \A f, id : HasIdentity(InUse, f, id) =>
          /\ id \in Nat /\ id < nextSourceId
          /\ \A g : HasIdentity(InUse, g, id) => f = g
  BY DistinctMeansDistinct, IdentitiesAreNaturals DEF CompilerInvariant
<1>2. nextSourceId \in Nat /\ Cardinality(New) \in Nat
  BY NewIdentitiesAreDistinct DEF CompilerInvariant
<1>3. ASSUME NEW f, NEW id, HasIdentity(InUse', f, id)
      PROVE  id < nextSourceId' /\ \A g : HasIdentity(InUse', g, id) => f = g
  <2>1. CASE HasIdentity(InUse, f, id)
    <3>1. id \in Nat /\ id < nextSourceId
      BY <1>1, <2>1
    <3>2. \A g \in New : id # Identity(g)
      BY <1>2, <3>1, NewIdentitiesAreDistinct
    <3> QED
      BY <1>1, <1>2, <2>1, <3>1, <3>2
  <2>2. CASE f \in New /\ id = Identity(f)
    <3>1. id \in Nat /\ nextSourceId <= id /\ id < nextSourceId'
      BY <2>2, NewIdentitiesAreDistinct
    <3>2. \A g : ~HasIdentity(InUse, g, id)
      BY <1>1, <1>2, <3>1
    <3> QED
      BY <2>2, <3>1, <3>2, NewIdentitiesAreDistinct
  <2> QED
    BY <1>3, <2>1, <2>2
<1>4. (\A f, id : HasIdentity(InUse, f, id) =>
          /\ id < nextSourceId
          /\ \A g : HasIdentity(InUse, g, id) => f = g)'
  BY <1>3
<1> QED
  BY <1>4, DistinctMeansDistinct, PTL

-----------------------------------------------------------------------------
(* Compilations                                                            *)

\* Links looks at texts and profiles only.
LEMMA LinksIsAboutSources ==
    ASSUME NEW a, NEW b, NEW schema, DOMAIN a = DOMAIN b,
           \A f \in DOMAIN b : a[f].text = b[f].text /\ a[f].profile = b[f].profile
    PROVE  Links(a, schema) <=> Links(b, schema)
BY DEF Links

LEMMA GraphIsAboutTexts ==
    ASSUME NEW a, NEW b, DOMAIN a = DOMAIN b, \A f \in DOMAIN b : a[f].text = b[f].text
    PROVE  DependencyGraph(a) = DependencyGraph(b)
BY DEF DependencyGraph

\* When no file is broken, every file of the project has a unit of its text.
LEMMA AllUnitsAreCurrent ==
    ASSUME CompilerInvariant, Broken = {}
    PROVE  /\ DOMAIN disk.sources \subseteq DOMAIN ParsedUnits
           /\ \A f \in DOMAIN disk.sources : ParsedUnits[f].text = disk.sources[f].text
           /\ Parses(disk.sources)
<1>1. Parsed = ToParse
  BY DEF Parsed, Reached
<1>2. ASSUME NEW f \in DOMAIN disk.sources
      PROVE  f \in DOMAIN ParsedUnits /\ ParsedUnits[f].text = disk.sources[f].text
  <2>1. CASE f \in ToParse
    BY <1>1, <2>1 DEF ParsedUnits
  <2>2. CASE f \notin ToParse
    <3>1. f \in DOMAIN units /\ units[f].text = disk.sources[f].text
      BY <2>2 DEF ToParse, Stale
    <3> QED
      BY <1>1, <2>2, <3>1 DEF ParsedUnits
  <2> QED
    BY <2>1, <2>2
<1>3. Parses(disk.sources)
  BY <1>2, UnitIdentities DEF Parses
<1> QED
  BY <1>2, <1>3

\* A broken file is one that a compilation from nothing does not get past.
LEMMA BrokenFilesDoNotParse == Broken # {} => ~Parses(disk.sources)
BY DEF Broken, ToParse, Parses

\* What is linked is a compilation of the sources on the disk.
LEMMA LinkedIsFresh ==
    ASSUME CompilerInvariant, IsReadable(disk), Broken = {}
    PROVE  /\ IsOf(Linked, disk.sources)
           /\ Linked.schema = Schema(disk) /\ Linked.security = disk.security
           /\ \A f \in DOMAIN disk.sources : Linked.program[f].id = ParsedUnits[f].id
           /\ Linked.invalidated = Invalidated
<1> DEFINE sources == disk.sources
           program == [f \in DOMAIN sources |->
                          [text |-> ParsedUnits[f].text, profile |-> sources[f].profile,
                           id |-> ParsedUnits[f].id]]
           kept == [f \in DOMAIN sources |-> ParsedUnits[f]]
           graph == DependencyGraph(kept)
<1>1. Linked = [program |-> program, graph |-> graph, schema |-> Schema(disk),
                security |-> disk.security, parsed |-> Parsed,
                reused |-> DOMAIN sources \ Parsed, invalidated |-> Invalidated]
  BY DEF Linked
<1>2. /\ DOMAIN sources \subseteq Files /\ DOMAIN sources \subseteq DOMAIN ParsedUnits
      /\ \A f \in DOMAIN sources : /\ ParsedUnits[f].text = sources[f].text
                                   /\ ParsedUnits[f] \in Units
                                   /\ sources[f].profile \in Profiles
  BY AllUnitsAreCurrent, UnitIdentities, SourcesArePartial
<1>3. program \in PartialMaps([text: Texts, profile: Profiles, id: Nat])
  <2>1. \A f \in DOMAIN sources : program[f] \in [text: Texts, profile: Profiles, id: Nat]
    BY <1>2 DEF Units
  <2>2. IsPartial(program, [text: Texts, profile: Profiles, id: Nat])
    BY <1>2, <2>1 DEF IsPartial
  <2> QED
    BY <2>2, PartialMapsHaveAll
<1>4. graph = DependencyGraph(sources)
  BY <1>2, GraphIsAboutTexts
<1>5. graph \in PartialMaps(SUBSET Classes)
  BY <1>2, <1>4, GraphIsPartial, PartialMapsHaveAll
<1>6. Schema(disk) \in SUBSET Objects /\ disk.security \in Securities
  BY DEF CompilerInvariant, IsDisk, Schema, IsReadable
<1>7. Parsed \in SUBSET Files /\ DOMAIN sources \ Parsed \in SUBSET Files
  BY <1>2 DEF Parsed, Reached, ToParse
<1>8. Invalidated \in SUBSET Files
  <2>1. DOMAIN DependencyGraph(sources) \subseteq Files
    BY <1>2 DEF DependencyGraph
  <2>2. DOMAIN LastGraph \subseteq Files /\ DOMAIN last.fingerprints \subseteq Files
    <3>1. CASE last.compilation = None
      BY <3>1 DEF CompilerInvariant, LastIsFresh, LastGraph
    <3>2. CASE last.compilation # None
      BY <3>2 DEF CompilerInvariant, LastIsFresh, LastGraph, IsOf, IsPartial, DependencyGraph
    <3> QED
      BY <3>1, <3>2
  <2>3. Changed \subseteq Files
    BY <1>2, <2>2 DEF Changed, Rewritten
  <2> QED
    BY <2>1, <2>2, <2>3, ClosureStaysInFiles DEF Invalidated
<1> HIDE DEF program, graph
<1>9. Linked \in Compilations
  BY <1>1, <1>3, <1>5, <1>6, <1>7, <1>8 DEF Compilations
<1>10. DOMAIN program = DOMAIN sources /\ \A f \in DOMAIN sources :
           /\ program[f].text = sources[f].text /\ program[f].profile = sources[f].profile
           /\ program[f].id = ParsedUnits[f].id
  BY <1>2 DEF program
<1> QED
  BY <1>1, <1>4, <1>9, <1>10 DEF IsOf

-----------------------------------------------------------------------------
(* The steps                                                               *)

LEMMA InitHolds == Init => CompilerInvariant
<1> SUFFICES ASSUME Init PROVE CompilerInvariant
  OBVIOUS
<1>1. IsDisk(disk) /\ nextSourceId \in Nat /\ compilation = None /\ answered = None
      /\ units = <<>> /\ last.compilation = None
  BY CompilerAssumption DEF Init
<1>2. UnitsParse /\ LastIsFresh /\ ServesFreshCompilation
  BY <1>1 DEF Init, UnitsParse, LastIsFresh, ServesFreshCompilation, IsPartial
<1>3. AreDistinct
  BY <1>1 DEF AreDistinct
<1> QED
  BY <1>1, <1>2, <1>3 DEF CompilerInvariant

\* A refresh that ends without a compilation.
LEMMA ServesNone ==
    ASSUME Refresh, ~Compiles(disk), compilation' = None
    PROVE  ServesFreshCompilation'
BY DEF ServesFreshCompilation, Refresh

\* A refresh that serves a compilation of what is on the disk.
LEMMA ServesWhatIsThere ==
    ASSUME Refresh, Compiles(disk), IsOf(compilation', disk.sources),
           compilation'.schema = Schema(disk), compilation'.security = disk.security
    PROVE  ServesFreshCompilation'
<1>1. compilation' # None
  BY CompilerAssumption DEF IsOf
<1> QED
  BY <1>1 DEF ServesFreshCompilation, Refresh, IsOf

LEMMA FailToReadStep == ASSUME CompilerInvariant, FailToRead PROVE CompilerInvariant'
<1>1. ~Compiles(disk) /\ Refresh /\ compilation' = None
  BY DEF FailToRead, Compiles
<1>2. AreDistinct'
  BY DEF CompilerInvariant, AreDistinct, FailToRead
<1> QED
  BY <1>1, <1>2, ServesNone
  DEF CompilerInvariant, FailToRead, Refresh, UnitsParse, LastIsFresh

\* The last compilation is served again for the same fingerprints.
LEMMA CachedIsFresh ==
    ASSUME CompilerInvariant, IsReadable(disk), Unchanged
    PROVE  /\ Compiles(disk) /\ last.compilation # None
           /\ IsOf(CachedCompilation, disk.sources)
           /\ CachedCompilation.program = last.compilation.program
           /\ CachedCompilation.graph = last.compilation.graph
           /\ CachedCompilation.schema = Schema(disk)
           /\ CachedCompilation.security = disk.security
<1>1. /\ last.compilation # None /\ disk.sources = last.fingerprints
      /\ Schema(disk) = last.compilation.schema /\ disk.security = last.compilation.security
  BY DEF Unchanged, Fingerprints
<1>2. /\ IsOf(last.compilation, disk.sources) /\ Parses(disk.sources)
      /\ Links(disk.sources, Schema(disk))
  BY <1>1 DEF CompilerInvariant, LastIsFresh
<1>3. Compiles(disk)
  BY <1>2 DEF Compiles
<1>4. last.compilation \in Compilations
  BY <1>2 DEF IsOf
<1>5. DOMAIN disk.sources \in SUBSET Files /\ {} \in SUBSET Files
  BY SourcesArePartial
<1>6. /\ CachedCompilation \in Compilations
      /\ CachedCompilation.program = last.compilation.program
      /\ CachedCompilation.graph = last.compilation.graph
      /\ CachedCompilation.schema = last.compilation.schema
      /\ CachedCompilation.security = last.compilation.security
  BY <1>4, <1>5 DEF CachedCompilation, Compilations
<1> QED
  BY <1>1, <1>2, <1>3, <1>6 DEF IsOf

LEMMA ReuseProgramStep == ASSUME CompilerInvariant, ReuseProgram PROVE CompilerInvariant'
<1>1. /\ IsReadable(disk) /\ Unchanged /\ compilation' = CachedCompilation /\ Refresh
      /\ UNCHANGED <<units, nextSourceId, last>>
  BY DEF ReuseProgram
<1>2. /\ Compiles(disk) /\ last.compilation # None
      /\ IsOf(compilation', disk.sources)
      /\ compilation'.program = last.compilation.program
      /\ compilation'.schema = Schema(disk) /\ compilation'.security = disk.security
  BY <1>1, CachedIsFresh
<1>3. ServesFreshCompilation'
  BY <1>1, <1>2, ServesWhatIsThere
<1>4. AreDistinct'
  <2>1. InUse' \subseteq InUse
    BY <1>1, <1>2 DEF InUse
  <2>2. \A f, id : HasIdentity(InUse', f, id) => HasIdentity(InUse, f, id)
    BY <2>1 DEF HasIdentity
  <2>3. (\A f, id : HasIdentity(InUse, f, id) =>
            /\ id < nextSourceId
            /\ \A g : HasIdentity(InUse, g, id) => f = g)'
    BY <1>1, <2>2, DistinctMeansDistinct DEF CompilerInvariant
  <2> QED
    BY <2>3, DistinctMeansDistinct, PTL
<1> QED
  BY <1>1, <1>2, <1>3, <1>4 DEF CompilerInvariant, Refresh, UnitsParse, LastIsFresh, IsOf

\* The units that are kept, and the program linked from them, are in order.
LEMMA KeptUnits ==
    ASSUME CompilerInvariant, Parse, Refresh,
           DOMAIN units' \subseteq DOMAIN ParsedUnits,
           units' = [f \in DOMAIN units' |-> ParsedUnits[f]],
           \/ last' = last /\ compilation' = None
           \/ /\ IsReadable(disk) /\ Broken = {}
              /\ last'.compilation = Linked /\ compilation' = Linked
    PROVE  /\ IsDisk(disk)' /\ nextSourceId' \in Nat
           /\ UnitsParse' /\ AreDistinct'
<1>1. nextSourceId' = nextSourceId + Cardinality(New) /\ disk' = disk
  BY DEF Parse, New, Refresh
<1>2. IsDisk(disk)' /\ nextSourceId' \in Nat
  BY <1>1, NewIdentitiesAreDistinct DEF CompilerInvariant
<1>3. DOMAIN ParsedUnits \subseteq Files
  BY SourcesArePartial
  DEF ParsedUnits, Parsed, Reached, ToParse, CompilerInvariant, UnitsParse, IsPartial
<1>4. \A f \in DOMAIN units' : units'[f] = ParsedUnits[f]
  OBVIOUS
<1>5. UnitsParse'
  BY <1>3, <1>4, UnitIdentities DEF UnitsParse, IsPartial
<1>6. ASSUME NEW f, NEW id, HasIdentity(InUse', f, id)
      PROVE  HasIdentity(InUse, f, id) \/ (f \in New /\ id = Identity(f))
  <2>1. ASSUME f \in DOMAIN ParsedUnits, id = ParsedUnits[f].id
        PROVE  HasIdentity(InUse, f, id) \/ (f \in New /\ id = Identity(f))
    BY <2>1, UnitIdentities DEF HasIdentity, InUse
  <2>2. PICK map \in InUse' : f \in DOMAIN map /\ map[f].id = id
    BY <1>6 DEF HasIdentity
  <2>3. \/ map = units'
        \/ map = Linked.program /\ IsReadable(disk) /\ Broken = {}
        \/ map \in InUse
    BY <2>2 DEF InUse
  <2>4. CASE map = units'
    BY <1>4, <2>1, <2>2, <2>4
  <2>5. CASE map = Linked.program /\ IsReadable(disk) /\ Broken = {}
    <3>1. f \in DOMAIN disk.sources /\ map[f].id = ParsedUnits[f].id
      BY <2>2, <2>5, LinkedIsFresh DEF IsOf
    <3> QED
      BY <2>1, <2>2, <3>1, <2>5, AllUnitsAreCurrent
  <2>6. CASE map \in InUse
    BY <2>2, <2>6 DEF HasIdentity
  <2> QED
    BY <2>3, <2>4, <2>5, <2>6
<1>7. AreDistinct'
  BY <1>1, <1>6, StaysDistinct
<1> QED
  BY <1>2, <1>5, <1>7

LEMMA FailToParseStep == ASSUME CompilerInvariant, FailToParse PROVE CompilerInvariant'
<1>1. /\ Parse /\ Refresh /\ units' = ParsedUnits /\ compilation' = None /\ last' = last
      /\ Broken # {}
  BY DEF FailToParse
<1>2. ParsedUnits = [f \in DOMAIN ParsedUnits |-> ParsedUnits[f]]
  BY DEF ParsedUnits
<1>3. ServesFreshCompilation'
  BY <1>1, BrokenFilesDoNotParse, ServesNone DEF Compiles
<1>4. IsDisk(disk)' /\ nextSourceId' \in Nat /\ UnitsParse' /\ AreDistinct'
  BY <1>1, <1>2, KeptUnits
<1> QED
  BY <1>1, <1>3, <1>4 DEF CompilerInvariant, LastIsFresh

LEMMA FailToLinkStep == ASSUME CompilerInvariant, FailToLink PROVE CompilerInvariant'
<1>1. /\ Parse /\ Refresh /\ units' = Retained /\ compilation' = None /\ last' = last
      /\ IsReadable(disk) /\ Broken = {} /\ ~Links(Linked.program, Schema(disk))
  BY DEF FailToLink, Parse
<1>2. DOMAIN Retained \subseteq DOMAIN ParsedUnits
      /\ Retained = [f \in DOMAIN Retained |-> ParsedUnits[f]]
  BY <1>1, AllUnitsAreCurrent DEF Retained
<1>3. ~Links(disk.sources, Schema(disk))
  BY <1>1, LinkedIsFresh, LinksIsAboutSources DEF IsOf
<1>4. ServesFreshCompilation'
  BY <1>1, <1>3, ServesNone DEF Compiles
<1>5. IsDisk(disk)' /\ nextSourceId' \in Nat /\ UnitsParse' /\ AreDistinct'
  BY <1>1, <1>2, KeptUnits
<1> QED
  BY <1>1, <1>4, <1>5 DEF CompilerInvariant, LastIsFresh

LEMMA CompileStep == ASSUME CompilerInvariant, Compile PROVE CompilerInvariant'
<1>1. /\ Parse /\ Refresh /\ units' = Retained /\ compilation' = Linked
      /\ last' = [fingerprints |-> disk.sources, compilation |-> Linked]
      /\ IsReadable(disk) /\ Broken = {} /\ Links(Linked.program, Schema(disk))
  BY DEF Compile, Parse, Fingerprints
<1>2. DOMAIN Retained \subseteq DOMAIN ParsedUnits
      /\ Retained = [f \in DOMAIN Retained |-> ParsedUnits[f]]
  BY <1>1, AllUnitsAreCurrent DEF Retained
<1>3. /\ IsOf(Linked, disk.sources)
      /\ Linked.schema = Schema(disk) /\ Linked.security = disk.security
  BY <1>1, LinkedIsFresh
<1>4. Links(disk.sources, Schema(disk)) /\ Parses(disk.sources)
  BY <1>1, <1>3, LinksIsAboutSources, AllUnitsAreCurrent DEF IsOf
<1>5. ServesFreshCompilation'
  BY <1>1, <1>3, <1>4, ServesWhatIsThere DEF Compiles
<1>6. IsDisk(disk)' /\ nextSourceId' \in Nat /\ UnitsParse' /\ AreDistinct'
  BY <1>1, <1>2, KeptUnits
<1>7. Linked \in Compilations /\ Linked # None
  BY <1>3, CompilerAssumption DEF IsOf
<1>8. LastIsFresh'
  <2>1. last'.fingerprints = disk.sources /\ last'.compilation = Linked
    BY <1>1
  <2>2. disk.sources # <<>> /\ disk.security # Malformed
    BY <1>1 DEF IsReadable
  <2>3. IsPartial(disk.sources, Source)
    BY DEF CompilerInvariant, IsDisk
  <2> HIDE DEF Linked
  <2> QED
    BY <1>1, <1>3, <1>4, <1>7, <2>1, <2>2, <2>3 DEF LastIsFresh
<1> QED
  BY <1>1, <1>5, <1>6, <1>7, <1>8 DEF CompilerInvariant

\* Edits change the disk only.
LEMMA EditStep ==
    ASSUME CompilerInvariant, NEW changed, IsDisk(changed), Edit(changed)
    PROVE  CompilerInvariant'
<1>1. AreDistinct' /\ ServesFreshCompilation'
  BY DEF CompilerInvariant, Edit, AreDistinct, ServesFreshCompilation
<1> QED
  BY <1>1 DEF CompilerInvariant, Edit, UnitsParse, LastIsFresh

LEMMA EditedDisks ==
    ASSUME CompilerInvariant
    PROVE  /\ \A sources : IsPartial(sources, Source) => IsDisk([disk EXCEPT !.sources = sources])
           /\ \A objects, local \in SUBSET Objects :
                  IsDisk([disk EXCEPT !.objects = objects, !.local = local])
           /\ \A security \in Securities \cup {Malformed} :
                  IsDisk([disk EXCEPT !.security = security])
<1>1. disk = [sources |-> disk.sources, objects |-> disk.objects,
              local |-> disk.local, security |-> disk.security]
      /\ IsPartial(disk.sources, Source) /\ disk.objects \subseteq Objects
      /\ disk.local \subseteq Objects /\ disk.security \in Securities \cup {Malformed}
  BY DEF CompilerInvariant, IsDisk
<1>2. ASSUME NEW sources, IsPartial(sources, Source)
      PROVE  IsDisk([disk EXCEPT !.sources = sources])
  BY <1>1, <1>2 DEF IsDisk
<1>3. ASSUME NEW objects \in SUBSET Objects, NEW local \in SUBSET Objects
      PROVE  IsDisk([disk EXCEPT !.objects = objects, !.local = local])
  <2> DEFINE some == [disk EXCEPT !.objects = objects]
             all == [some EXCEPT !.local = local]
  <2>1. some = [sources |-> disk.sources, objects |-> objects,
                local |-> disk.local, security |-> disk.security]
    BY <1>1
  <2> HIDE DEF some
  <2>2. all = [sources |-> disk.sources, objects |-> objects,
               local |-> local, security |-> disk.security]
    BY <2>1
  <2> HIDE DEF all
  <2>3. IsDisk(all)
    BY <1>1, <2>2 DEF IsDisk
  <2> QED
    BY <2>3 DEF all, some
<1>4. ASSUME NEW security \in Securities \cup {Malformed}
      PROVE  IsDisk([disk EXCEPT !.security = security])
  BY <1>1 DEF IsDisk
<1> QED
  BY <1>2, <1>3, <1>4

LEMMA EditSteps ==
    ASSUME CompilerInvariant,
           \/ \E f \in Files : \E source \in Drafts[f] : Write(f, source)
           \/ \E f \in Files : Remove(f)
           \/ \E objects, local \in SUBSET Objects : EditObjects(objects, local)
           \/ \E security \in Securities \cup {Malformed} : EditSecurity(security)
    PROVE  CompilerInvariant'
<1>1. IsPartial(disk.sources, Source)
  BY DEF CompilerInvariant, IsDisk
<1>2. ASSUME NEW f \in Files, NEW source \in Drafts[f], Write(f, source) PROVE CompilerInvariant'
  <2> DEFINE sources == [g \in DOMAIN disk.sources \cup {f} |->
                            IF g = f THEN source ELSE disk.sources[g]]
  <2>1. IsPartial(sources, Source)
    BY <1>1, CompilerAssumption DEF IsPartial
  <2>2. Edit([disk EXCEPT !.sources = sources])
    BY <1>2 DEF Write
  <2> HIDE DEF sources
  <2> QED
    BY <2>1, <2>2, EditedDisks, EditStep
<1>3. ASSUME NEW f \in Files, Remove(f) PROVE CompilerInvariant'
  <2> DEFINE sources == [g \in DOMAIN disk.sources \ {f} |-> disk.sources[g]]
  <2>1. IsPartial(sources, Source)
    BY <1>1 DEF IsPartial
  <2>2. Edit([disk EXCEPT !.sources = sources])
    BY <1>3 DEF Remove
  <2> HIDE DEF sources
  <2> QED
    BY <2>1, <2>2, EditedDisks, EditStep
<1>4. ASSUME NEW objects \in SUBSET Objects, NEW local \in SUBSET Objects,
             EditObjects(objects, local)
      PROVE  CompilerInvariant'
  BY <1>4, EditedDisks, EditStep DEF EditObjects
<1>5. ASSUME NEW security \in Securities \cup {Malformed}, EditSecurity(security)
      PROVE  CompilerInvariant'
  BY <1>5, EditedDisks, EditStep DEF EditSecurity
<1> QED
  BY <1>2, <1>3, <1>4, <1>5

LEMMA Stutter == ASSUME CompilerInvariant, UNCHANGED vars PROVE CompilerInvariant'
BY DEF vars, CompilerInvariant, UnitsParse, LastIsFresh, AreDistinct, ServesFreshCompilation

\* What the compiler keeps stays true of the texts it was made from.
THEOREM CachesStayFresh == Spec => []CompilerInvariant
<1>1. CompilerInvariant /\ [Next]_vars => CompilerInvariant'
  BY FailToReadStep, ReuseProgramStep, FailToParseStep, FailToLinkStep, CompileStep, EditSteps,
     Stutter DEF Next, Exit
<1> QED
  BY <1>1, InitHolds, PTL DEF Spec

\* Whatever was reused, after whichever failures and edits, the server has what a
\* compilation from nothing gives (compile_internal and its early return).
THEOREM AlwaysServesFreshCompilation == Spec => []ServesFreshCompilation
<1>1. CompilerInvariant => ServesFreshCompilation
  BY DEF CompilerInvariant
<1> QED
  BY <1>1, CachesStayFresh, PTL

-----------------------------------------------------------------------------
(* Identities                                                              *)

LEMMA CachedPathsKeepTheirIdentity ==
    ASSUME CompilerInvariant, [Next]_vars, NEW f \in DOMAIN units \cap DOMAIN units'
    PROVE  units'[f].id = units[f].id
<1>1. f \in DOMAIN ParsedUnits /\ f \notin New
  BY DEF ParsedUnits, New
<1>2. ParsedUnits[f].id = units[f].id
  BY <1>1, UnitIdentities
<1>3. CASE FailToParse
  BY <1>2, <1>3 DEF FailToParse
<1>4. CASE FailToLink \/ Compile
  BY <1>2, <1>4 DEF FailToLink, Compile, Retained
<1>5. CASE UNCHANGED units
  BY <1>5
<1> QED
  BY <1>3, <1>4, <1>5
  DEF Next, vars, FailToRead, ReuseProgram, Edit, Write, Remove, EditObjects, EditSecurity, Exit

\* ADR 0009: a path that stays cached keeps its SourceId through every
\* compilation, failed ones included, and no two files in use share one.
THEOREM IdentitiesStayStable == Spec => IdentitiesAreStable
<1>1. CompilerInvariant /\ CompilerInvariant' /\ [Next]_vars =>
          [ /\ AreDistinct'
            /\ \A f \in DOMAIN units \cap DOMAIN units' : units'[f].id = units[f].id ]_vars
  BY CachedPathsKeepTheirIdentity DEF CompilerInvariant
<1> QED
  BY <1>1, CachesStayFresh, PTL DEF Spec, IdentitiesAreStable

-----------------------------------------------------------------------------
(* Invalidation                                                            *)

\* Where two graphs agree on all that is left outside of a set, and nothing
\* outside of it refers into it, they have the same closures but for that set.
LEMMA ClosuresAgree ==
    ASSUME NEW G, NEW H, IsFiniteSet(DOMAIN G), IsFiniteSet(DOMAIN H), NEW inside,
           \A a \in DOMAIN H \ inside : a \in DOMAIN G /\ G[a] = H[a] /\ H[a] \cap inside = {},
           NEW f, f \notin inside, NEW changed, f \in DependentClosure(changed, H)
    PROVE  f \in DependentClosure(changed, G)
<1> DEFINE D == DependentClosure(changed, G)
<1>1. changed \subseteq D /\ IsClosed(D, G)
  BY ClosureIsLeast
<1> HIDE DEF D
<1>2. IsClosed(D \cup inside, H)
  <2> SUFFICES ASSUME NEW a \in DOMAIN H, H[a] \cap (D \cup inside) # {}
               PROVE  a \in D \cup inside
    BY DEF IsClosed
  <2>1. CASE a \notin inside
    <3>1. a \in DOMAIN G /\ G[a] \cap D # {}
      BY <2>1
    <3> QED
      BY <1>1, <3>1 DEF IsClosed
  <2> QED
    BY <2>1
<1>3. changed \subseteq D \cup inside
  BY <1>1
<1>4. DependentClosure(changed, H) \subseteq D \cup inside
  BY <1>2, <1>3, ClosureIsLeast
<1> QED
  BY <1>4 DEF D

\* A file that is not invalidated is unchanged, depends on what it did, and on
\* nothing that is invalidated.
LEMMA ValidFilesAreUnchanged ==
    ASSUME CompilerInvariant, last.compilation # None
    PROVE  LET old == DependencyGraph(last.fingerprints)
               now == DependencyGraph(disk.sources)
           IN  /\ IsFiniteSet(DOMAIN old) /\ IsFiniteSet(DOMAIN now)
               /\ Changed \subseteq Invalidated
               /\ \A g \in Changed : DependentClosure({g}, now) \subseteq Invalidated
               /\ \A g \in Changed : DependentClosure({g}, old) \subseteq Invalidated
               /\ \A a \in DOMAIN now \ Invalidated :
                      a \in DOMAIN old /\ old[a] = now[a] /\ now[a] \cap Invalidated = {}
               /\ \A a \in DOMAIN old \ Invalidated : a \in DOMAIN now
<1> DEFINE before == last.fingerprints
           sources == disk.sources
           old == DependencyGraph(before)
           now == DependencyGraph(sources)
           byOld == DependentClosure(Changed, old)
           byNow == DependentClosure(Changed, now)
<1>1. DOMAIN before \subseteq Files /\ DOMAIN sources \subseteq Files /\ LastGraph = old
  BY DEF CompilerInvariant, LastIsFresh, LastGraph, IsOf, IsPartial, IsDisk
<1>2. DOMAIN old = DOMAIN before /\ DOMAIN now = DOMAIN sources
  BY DEF DependencyGraph
<1>3. IsFiniteSet(DOMAIN old) /\ IsFiniteSet(DOMAIN now)
  BY <1>1, <1>2, FilesAreFinite
<1>4. Invalidated = byOld \cup byNow
  BY <1>1 DEF Invalidated
<1>5. /\ Changed \subseteq byOld /\ IsClosed(byOld, old)
      /\ Changed \subseteq byNow /\ IsClosed(byNow, now)
  BY <1>3, ClosureIsLeast
<1>6. ASSUME NEW g \in Changed
      PROVE  DependentClosure({g}, now) \subseteq byNow /\ DependentClosure({g}, old) \subseteq byOld
  <2>1. {g} \subseteq byNow /\ {g} \subseteq byOld
    BY <1>5
  <2> HIDE DEF byNow, byOld
  <2> QED
    BY <1>3, <1>5, <2>1, ClosureIsLeast
<1> HIDE DEF byNow, byOld
<1>7. \A g : g \notin Changed /\ (g \in DOMAIN sources \/ g \in DOMAIN before) =>
          g \in DOMAIN sources /\ g \in DOMAIN before /\ before[g] = sources[g]
  BY DEF Changed, Rewritten, Fingerprints
<1>8. ASSUME NEW a \in DOMAIN now \ Invalidated
      PROVE  a \in DOMAIN old /\ old[a] = now[a] /\ now[a] \cap Invalidated = {}
  <2> DEFINE names == Shape[sources[a].text].names
  <2>1. a \notin byOld /\ a \notin byNow /\ a \notin Changed
    BY <1>4, <1>5, <1>8
  <2>2. a \in DOMAIN sources /\ a \in DOMAIN before /\ before[a] = sources[a]
    BY <1>2, <1>7, <1>8, <2>1
  <2>3. /\ now[a] = ((names \cap DOMAIN sources) \cap Classes) \ {a}
        /\ old[a] = ((names \cap DOMAIN before) \cap Classes) \ {a}
    BY <2>2 DEF DependencyGraph
  <2>4. now[a] \cap byNow = {} /\ old[a] \cap byOld = {}
    BY <1>2, <1>5, <2>1, <2>2 DEF IsClosed
  <2> HIDE DEF now, old, names
  <2>5. \A g \in now[a] : g \in old[a]
    <3> TAKE g \in now[a]
    <3>1. g \notin Changed /\ g \in DOMAIN sources
      BY <1>5, <2>3, <2>4
    <3> QED
      BY <1>7, <2>3, <3>1
  <2>6. \A g \in old[a] : g \in now[a]
    <3> TAKE g \in old[a]
    <3>1. g \notin Changed /\ g \in DOMAIN before
      BY <1>5, <2>3, <2>4
    <3> QED
      BY <1>7, <2>3, <3>1
  <2>7. old[a] = now[a]
    BY <2>5, <2>6
  <2> QED
    BY <1>2, <1>4, <2>2, <2>4, <2>7
<1>9. \A a \in DOMAIN old \ Invalidated : a \in DOMAIN now
  BY <1>2, <1>4, <1>5, <1>7
<1> QED
  BY <1>3, <1>4, <1>5, <1>6, <1>8, <1>9

\* What a file that is not invalidated reaches is what it reached.
LEMMA ValidFilesReachTheSame ==
    ASSUME CompilerInvariant, last.compilation # None, NEW f, f \notin Invalidated, NEW g
    PROVE  f \in DependentClosure({g}, DependencyGraph(last.fingerprints)) <=>
               f \in DependentClosure({g}, DependencyGraph(disk.sources))
<1> DEFINE old == DependencyGraph(last.fingerprints)
           now == DependencyGraph(disk.sources)
<1>1. /\ IsFiniteSet(DOMAIN old) /\ IsFiniteSet(DOMAIN now)
      /\ \A a \in DOMAIN now \ Invalidated :
             a \in DOMAIN old /\ old[a] = now[a] /\ now[a] \cap Invalidated = {}
      /\ \A a \in DOMAIN old \ Invalidated : a \in DOMAIN now
  BY ValidFilesAreUnchanged
<1> HIDE DEF old, now
<1>2. f \in DependentClosure({g}, now) => f \in DependentClosure({g}, old)
  BY <1>1, ClosuresAgree
<1>3. f \in DependentClosure({g}, old) => f \in DependentClosure({g}, now)
  BY <1>1, ClosuresAgree
<1> QED
  BY <1>2, <1>3 DEF old, now

LEMMA ValidFilesKeepTheirView ==
    ASSUME CompilerInvariant, [Next]_vars, compilation' # None, compilation' # compilation,
           last.compilation # None, NEW f \in DOMAIN compilation'.program \ compilation'.invalidated
    PROVE  f \in DOMAIN last.compilation.program
           /\ View(compilation', f) = View(last.compilation, f)
<1>1. CASE ReuseProgram
  BY <1>1, CachedIsFresh DEF ReuseProgram, View
<1>2. CASE Compile
  <2> DEFINE before == last.fingerprints
             old == DependencyGraph(before)
             now == DependencyGraph(disk.sources)
             reached == {g \in DOMAIN Linked.program : f \in DependentClosure({g}, now)}
  <2>1. /\ compilation' = Linked /\ IsOf(Linked, disk.sources)
        /\ Linked.invalidated = Invalidated
    BY <1>2, LinkedIsFresh DEF Compile, Parse
  <2>2. IsOf(last.compilation, before)
    BY DEF CompilerInvariant, LastIsFresh
  <2>3. f \notin Invalidated /\ f \in DOMAIN disk.sources
    BY <2>1 DEF IsOf
  <2>4. \A g : f \in DependentClosure({g}, old) <=> f \in DependentClosure({g}, now)
    BY <2>3, ValidFilesReachTheSame
  <2>5. \A g \in Changed : f \notin DependentClosure({g}, now)
    BY <2>3, ValidFilesAreUnchanged
  <2>6. \A g : g \notin Changed /\ (g \in DOMAIN disk.sources \/ g \in DOMAIN before) =>
            g \in DOMAIN disk.sources /\ g \in DOMAIN before /\ before[g] = disk.sources[g]
    BY DEF Changed, Rewritten, Fingerprints
  <2>7. f \notin Changed
    BY <2>3, ValidFilesAreUnchanged
  <2>8. f \in DOMAIN last.compilation.program
    BY <2>2, <2>3, <2>6, <2>7 DEF IsOf
  <2> HIDE DEF old, now
  <2>9. reached = {g \in DOMAIN last.compilation.program : f \in DependentClosure({g}, old)}
    BY <2>1, <2>2, <2>4, <2>5, <2>6 DEF IsOf
  <2>10. \A g \in reached :
            /\ Linked.program[g].text = last.compilation.program[g].text
            /\ Linked.program[g].profile = last.compilation.program[g].profile
    BY <2>1, <2>2, <2>5, <2>6 DEF IsOf
  <2>11. Linked.graph = now /\ last.compilation.graph = old
    BY <2>1, <2>2 DEF IsOf, now, old
  <2>12. View(Linked, f) =
             [g \in reached |-> [text |-> Linked.program[g].text,
                                 profile |-> Linked.program[g].profile]]
    BY <2>11 DEF View
  <2>13. View(last.compilation, f) =
             [g \in reached |-> [text |-> last.compilation.program[g].text,
                                 profile |-> last.compilation.program[g].profile]]
    BY <2>9, <2>11 DEF View
  <2> HIDE DEF reached
  <2>14. View(Linked, f) = View(last.compilation, f)
    BY <2>10, <2>12, <2>13
  <2> QED
    BY <2>1, <2>8, <2>14
<1> QED
  BY <1>1, <1>2
  DEF Next, vars, FailToRead, FailToParse, FailToLink, Edit, Write, Remove, EditObjects,
      EditSecurity, Exit

\* What the incremental compiler does not report as invalidated is as the last
\* successful compilation had it, and so is all that it reaches, for every
\* dependency graph, whatever failed in between.
THEOREM InvalidationAlwaysCoversChanges == Spec => InvalidationCoversChanges
<1>1. CompilerInvariant /\ [Next]_vars =>
          [ compilation' # None /\ compilation' # compilation /\ last.compilation # None =>
                \A f \in DOMAIN compilation'.program \ compilation'.invalidated :
                    /\ f \in DOMAIN last.compilation.program
                    /\ View(compilation', f) = View(last.compilation, f) ]_vars
  BY ValidFilesKeepTheirView
<1> QED
  BY <1>1, CachesStayFresh, PTL DEF Spec, InvalidationCoversChanges

=============================================================================
