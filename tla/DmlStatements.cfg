CONSTANTS
    account = account
    key = key
    red = red
    blue = blue
    first = first
    second = second
    third = third
    left = left
    right = right
    Null = Null
    Objects = {account}
    object = account
    Fields = {key}
    RequiredFields = {}
    UniqueFields = {key}
    Values = {red, blue}
    Fold <- MCFold
    MaxSequence = 12
    MaxAttempts = 3
    Handles = {first, second, third}
    Globals = {}
    InitialImages <- NewOrStored
    Fixture <- StoredRed
    Requests <- MixedRows
    RequestOps = {"insert", "update", "delete"}
    ExternalId = key
    TriggerCount <- InsertTriggers
    HostMayFail = FALSE
    MaxTriggerDepth = 2
    MaxFuel = 4
SPECIFICATION MCSpec
INVARIANTS HostFollowsStack
PROPERTIES FailedStatementsLeaveNoTrace OutcomesAreTrue FailedRowsKeepTheirState 
