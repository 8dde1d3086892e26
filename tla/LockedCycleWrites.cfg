\* One evaluation of a batch cycle, one request.
CONSTANTS
    batch = batch
    ind1 = ind1
    ind2 = ind2
    m1 = m1
    m2 = m2
    bm1 = bm1
    bm2 = bm2
    im1 = im1
    jm1 = jm1
    NoScore = NoScore
    Cycles = {batch}
    Individual = {}
    Evaluations = {bm1}
    Employees = {m1}
    Scores = {1, 2}
    Requests = {r1}
    CycleOf <- MCCycleOf
    EmployeeOf <- MCEmployeeOf

SPECIFICATION Spec

PROPERTIES
    LockedCycleBlocksWrites

\* Every evaluation may end up locked with nothing left to do.
CHECK_DEADLOCK FALSE
