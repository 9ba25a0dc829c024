\* One tenant, two workers, one start request; a call that throws, and a
\* triggered step, a lost answer of the queue, or a crash or lost lock.
SPECIFICATION FairSpec
CONSTANTS
    w1 = w1
    w2 = w2
    caller = caller
    Workers <- TwoWorkers
    Callers <- OneCaller
    Jobs <- ThreeJobs
    NoId = NoId
    Requests <- Reruns
    Attempts = 2
    MaxStalled = 1
    Limit <- TwoStarts
    MaxExtra = 1
INVARIANTS
    TypeOK
    NoStepSkipped
    OneAtATime
PROPERTIES
    LegalMoves
    WorkIsLeft
CHECK_DEADLOCK FALSE
