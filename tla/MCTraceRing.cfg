CONSTANTS
    CLOCK_TRACE_CAP = 3
    Chunk = 2
    Page = 2
    Second = 1000
    Steps <- MCSteps
    LongestStep = 1000
    Streams = {TRUE, FALSE}
    AllocOutcomes = {TRUE, FALSE}
    MaxTime = 4200
    MaxStarts = 2
SPECIFICATION MCSpec
INVARIANTS TypeOK RingHoldsNewestRun OneOrTwoEachSecond FetchIsWhole
PROPERTY StoppedIsFrozen
CHECK_DEADLOCK FALSE
