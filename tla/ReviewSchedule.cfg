\* Two requests that change cadences, levels and employees, or publish, at the same time.
CONSTANTS
    l1 = l1
    l2 = l2
    c1 = c1
    c2 = c2
    Null = Null
    Employees = {e1, e2}
    Levels = {l1, l2}
    Cadences = {c1, c2}
    Intervals = {1, 2}
    Requests = {r1, r2}
    Starts <- MCStarts
    MaxRequests = 2

SPECIFICATION ScheduleSpec

SYMMETRY Exchange

INVARIANTS
    ScheduleTypeOK
    DueIsCurrent

PROPERTIES
    BaseIsPublished

\* Every request may have ended with none left to make.
CHECK_DEADLOCK FALSE
