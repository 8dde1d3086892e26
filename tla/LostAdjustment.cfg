\* One evaluation adjusted by two operators.
CONSTANTS
    batch = batch
    m1 = m1
    m2 = m2
    m3 = m3
    ind1 = ind1
    ind2 = ind2
    im1 = im1
    jm1 = jm1
    bm1 = bm1
    bm2 = bm2
    NoScore = NoScore
    Cycles = {batch}
    Individual = {}
    Evaluations = {bm1}
    Employees = {m1}
    Scores = {1}
    Requests = {}
    Sessions = {s1}
    first = s1
    Operators = {o1, o2}
    MaxAdjustments = 2
    CycleOf <- MCCycleOf
    EmployeeOf <- MCEmployeeOf
    SessionCycle <- MCSessionCycle
    SessionScope <- MCSessionScope
    RowsInScope <- MCRowsInScope

SPECIFICATION CalibrationSpec

INVARIANTS
    NoLostAdjustment

\* Every evaluation may end up locked with nothing left to do.
CHECK_DEADLOCK FALSE
