\* Two sessions of one scope finalized at the same time, or two individual cycles of one employee.
CONSTANTS
    batch = batch
    m1 = m1
    m2 = m2
    m3 = m3
    ind1 = ind1
    ind2 = ind2
    im1 = im1
    jm1 = jm1
    bm1 = bm1
    bm2 = bm2
    NoScore = NoScore
    Cycles = {batch, ind1, ind2}
    Individual = {ind1, ind2}
    Evaluations = {bm1, bm2, im1, jm1}
    Employees = {m1, m2, m3}
    Scores = {1}
    Requests = {r1}
    Sessions = {s1, s2}
    first = s1
    Operators = {o1, o2}
    MaxAdjustments = 1
    CycleOf <- MCCycleOf
    EmployeeOf <- MCEmployeeOf
    SessionCycle <- MCSessionCycle
    SessionScope <- MCSessionScope
    RowsInScope <- MCRowsInScope

SPECIFICATION CalibrationSpec

SYMMETRY Exchange

CONSTRAINT OneRaceAtATime

INVARIANTS
    TypeOK
    CalibrationTypeOK
    StampsAgree
    OneActiveIndividual
    LockCoversCycle
    ReviewCompletedOnce
    FinalizedScopeIsClosed

PROPERTIES
    LockIsFinal
    ImplementsLifecycle

\* Every evaluation may end up locked with nothing left to do.
CHECK_DEADLOCK FALSE
