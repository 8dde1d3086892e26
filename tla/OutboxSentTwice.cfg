\* One row, two requests at a time.
CONSTANTS
    result = result
    reminder = reminder
    Notes = {result}
    Mandatory = {result}
    Runs = {b1, b2}
    MaxRetries = 2
    BatchSize = 2
    Throttle = 2
    MaxRequests = 2

SPECIFICATION OutboxSpec

INVARIANTS
    ProcessedByOne

CHECK_DEADLOCK FALSE
