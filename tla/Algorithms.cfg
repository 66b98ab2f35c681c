SPECIFICATION Spec
CONSTANTS
    Topics = {"hierarchy", "typing", "methods", "queries", "plans", "sources", "values"}
    Divergences = {}
    Builds = {"debug"}
    Strings = {"text"}
    None = None
    References <- MCReferences
    Fields <- MCFields
    DayLength = 2
    MonthStart <- MCMonthStart
    A = A
    B = B
    C = C
    I = I
    J = J
    Classes = {A, B, C, I, J}
    NoClass = NoClass
    NoMethod = NoMethod
    Names <- MCNames
    Builtins = {"Integer", "String", "Exception"}
    Constructed = {"Exception"}
INVARIANTS
    CallsReachTheirDeclaration
    AcceptedExpressionsKeepTheirType
    AcceptedMethodsReturn
    QueriesMatchReference
    AcceptedQueriesAnswerTheirType
    ParsesWhatIsWritten
    EqualityIsBisimilarity
    OnlyCyclesAreMarked
CHECK_DEADLOCK FALSE
