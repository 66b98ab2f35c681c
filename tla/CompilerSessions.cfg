CONSTANTS
    a = a
    b = b
    t = t
    old = old
    new = new
    account = account
    open = open
    needsB = needsB
    mentionsB = mentionsB
    plain = plain
    usesAccount = usesAccount
    broken = broken
    onA = onA
    None = None
    Malformed = Malformed
    Classes = {a, b}
    Triggers = {t}
    Order <- Positions
    Texts = {needsB, mentionsB, plain, usesAccount, broken, onA}
    Shape <- Shapes
    Profiles = {old, new}
    Objects = {account}
    Securities = {open}
    Start <- Started
    Drafts <- Written
    MaxEdits = 4
    MaxId = 7
SPECIFICATION Spec
INVARIANTS ServesFreshCompilation
PROPERTIES IdentitiesAreStable InvalidationCoversChanges
