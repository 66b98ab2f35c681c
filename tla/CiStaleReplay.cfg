CONSTANTS
    service = service
    caller = caller
    callerTest = callerTest
    otherTest = otherTest
    trigger = trigger
    w1 = w1
    w2 = w2
    current = current
    account = account
    open = open
    closed = closed
    sealed = sealed
    broken = broken
    secured = secured
    plain = plain
    usesAccount = usesAccount
    onService = onService
    onCaller = onCaller
    alone = alone
    fires = fires
    None = None
    Malformed = Malformed
    Classes = {service, caller, callerTest, otherTest}
    Triggers = {trigger}
    Order <- Positions
    Texts = {plain, usesAccount, onService, onCaller, alone, fires}
    Shape <- Shapes
    Profiles = {current}
    Objects = {account}
    Securities = {open, closed}
    Workers = {w1, w2}
    Shards = 2
    ChangeLists <- Changes
    Projects = {sealed, broken, secured}
    Content <- Contents
    Original = sealed
    MaxEdits = 1
    MaxRuns = 3
SPECIFICATION Spec
SYMMETRY Symmetry
INVARIANTS ReplaysMatchTheProject
