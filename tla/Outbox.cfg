\* A mandatory and an optional row, two requests at a time, a window of one mail.
CONSTANTS
    result = result
    reminder = reminder
    Notes = {result, reminder}
    Mandatory = {result}
    Runs = {b1, b2}
    MaxRetries = 2
    BatchSize = 2
    Throttle = 1
    MaxRequests = 2

SPECIFICATION OutboxSpec

INVARIANTS
    OutboxTypeOK
    SentWasDelivered
    ThrottleHolds

PROPERTIES
    RequestsEnd

\* All rows recorded, all requests made: the system may rest.
CHECK_DEADLOCK FALSE
