\* Two uploads of one file, two confirmations of what they insert, one mishap.
CONSTANTS
    Uploads = {u1, u2}
    Confirmations = {c1, c2}
    RowNos = {1, 2, 3}
    Items = {i1, i2}
    i1 = i1
    i2 = i2
    file = file
    key = key
    NoKey = NoKey
    FileOf <- MCFileOf
    KeyOf <- MCKeyOf
    ItemOf <- MCItemOf
    ImportBatch = 1
    MaxMishaps = 1

SPECIFICATION CsvSpec

CONSTRAINT UploadsFirst

INVARIANTS
    CsvTypeOK
    OneJobPerFile
    ImportedWasWritten
    ItemWrittenByOneRow
    OneBatchLeavesNone

PROPERTIES
    ImportsEnd

\* Every upload may be over with nothing left to confirm.
CHECK_DEADLOCK FALSE
