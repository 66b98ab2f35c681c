SPECIFICATION Spec
CONSTANTS
    Topics = {"values"}
    Divergences = {}
    Builds = {"release"}
    Strings = {"text"}
    None = None
    References <- MCReferences
    Fields <- MCFields
    DayLength = 2
    MonthStart <- MCMonthStart
    A = A
    B = B
    C = C
    I = I
    J = J
    Classes = {A, B, C, I, J}
    NoClass = NoClass
    NoMethod = NoMethod
    Names <- MCNames
    Builtins = {"Integer", "String", "Exception"}
    Constructed = {"Exception"}
INVARIANTS
    OnlyCyclesAreMarked
CHECK_DEADLOCK FALSE
