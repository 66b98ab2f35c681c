CONSTANTS
    account = account
    contact = contact
    name = name
    key = key
    lower = lower
    upper = upper
    Null = Null
    Objects = {account}
    Fields = {key}
    RequiredFields = {key}
    UniqueFields = {key}
    Values = {lower, upper}
    Fold <- MCFold
    MaxSequence = 2
    Fixtures <- ForeignFixture
    MaxCheckpoints = 2
    MaxRows = 1
SPECIFICATION Spec
INVARIANTS LiveRecordsAreValid LiveAndRecycledAreDisjoint
PROPERTIES FailedRowsLeaveNoRecord RecycledRecordsAreRetained ImplementsUnitsOfWork
