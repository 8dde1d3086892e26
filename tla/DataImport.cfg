\* Two of three imports, two requests or stagings, one fault.
CONSTANTS
    manual = manual
    crawled = crawled
    later = later
    m1 = m1
    c1 = c1
    c2 = c2
    d1 = d1
    k1 = k1
    Imports = {manual, crawled, later}
    Crawled = {crawled, later}
    Records = {m1, c1, c2, d1}
    k2 = k2
    Subjects = {k1, k2}
    Handlers = {h1, h2}
    ImportOf <- MCImportOf
    SubjectOf <- MCSubjectOf
    SourceOf <- MCSourceOf
    MaxImports = 2
    MaxFaults = 1
    MaxCalls = 3

SPECIFICATION DataSpec

SYMMETRY AlikeHandlers

CONSTRAINT SharedClosesLate

INVARIANTS
    DataImportTypeOK
    ReviewedBeforeApplied
    OneApplier
    AppliedWasWritten
    ReadyIsResolved

PROPERTIES
    AppliedIsFinal

\* Every import may be finished with no request left to make.
CHECK_DEADLOCK FALSE
