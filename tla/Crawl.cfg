\* Two jobs, the second also on request; two workers, two attempts, one upset.
CONSTANTS
    Jobs = {1, 2}
    Windows = {1}
    Workers = {w1, w2}
    MaxAttempts = 2
    Nobody = Nobody
    Dead = Dead
    OnRequest = {2}
    MaxInserts = 2
    MaxUpsets = 1
    Policy <- MCPolicy

SPECIFICATION CrawlSpec

SYMMETRY Alike

INVARIANTS
    CrawlTypeOK
    OneWorkerEach
    RetriesFormChains
    StoppedByFailure

PROPERTIES
    FinishedIsFinal

\* Every execution may be finished with no other left to make.
CHECK_DEADLOCK FALSE
