CONSTANTS
    IntLimit = 4
    Data = {d}
    Threads = {t1, t2}
    MaxId = 2
    Faults = {}
    ErrorCodes = {1}
    NoRow = NoRow
    Writes = {"delete_job", "pause_job"}
    CallIds = {1}
    Scans = {}
    d = d
    t1 = t1
    t2 = t2
    Calls <- MCCalls
SYMMETRY Symmetry
SPECIFICATION Spec
INVARIANT RowsAffectedIsOwn
