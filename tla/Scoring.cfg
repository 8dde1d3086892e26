\* Two rows of one subject, two scorers, two attempts, two requests, one mishap.
CONSTANTS
    t1 = t1
    t2 = t2
    Tasks = {t1, t2}
    Subject <- MCSubject
    Scorers = {w1, w2}
    Calls = {q1}
    MaxAttempts = 2
    Answers <- MCAnswers
    MaxCalls = 2
    MaxMishaps = 1

SPECIFICATION ScoringSpec

INVARIANTS
    ScoringTypeOK
    OneScorer
    SourcesAgree
    AttemptsAccounted
    AppliedWasApproved

PROPERTIES
    TasksSettle

\* Every task may be scored with nothing left to ask.
CHECK_DEADLOCK FALSE
