CONSTANTS
    Base = Base
    Sub = Sub
    Leaf = Leaf
    Other = Other
    Last = Last
    Classes <- FiveClasses
    Lineage <- FiveLineages
    Uses <- AllUses
    EntryUses <- FiveClasses
    Throwing <- FiveClasses
    MaxDepth = 3
    Lists = {"l1", "l2"}
    MaxLength = 1
    MaxFrames = 4
SPECIFICATION MCSpec
INVARIANTS BasesComeFirst AccessesSeeReadyClasses RegistersFollowStack IteratedListsAreStable FinallyBlocksRunOnce FieldsInitializeBaseFirst
