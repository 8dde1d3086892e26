\* Two jobs, one window, one worker, no upsets.
CONSTANTS
    Jobs = {1, 2}
    Windows = {1}
    Workers = {w1}
    MaxAttempts = 2
    Nobody = Nobody
    Dead = Dead
    OnRequest = {}
    MaxInserts = 2
    MaxUpsets = 0
    Policy <- MCPolicy

SPECIFICATION CrawlSpec

PROPERTIES
    StopPolicyHolds

\* Every execution may be finished with no other left to make.
CHECK_DEADLOCK FALSE
