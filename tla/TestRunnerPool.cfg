CONSTANTS
    w1 = w1
    w2 = w2
    w3 = w3
    Threads = {w1, w2, w3}
    Cases <- FiveCases
SPECIFICATION RunnerSpec
INVARIANTS ReportIsDeterministic
PROPERTIES RunnerReturns
