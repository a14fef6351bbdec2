CONSTANTS
    IntLimit = 4
    Data = {d}
    Threads = {t1, t2}
    MaxId = 3
    Faults = {"prepare", "read"}
    ErrorCodes = {1}
    NoRow = NoRow
    Writes = {"delete_job", "pause_job", "resume_job", "update_next_run_time"}
    CallIds = {2}
    Scans = {"select_all_jobs", "select_due_jobs"}
    d = d
    t1 = t1
    t2 = t2
    Calls <- MCCalls
SYMMETRY Symmetry
SPECIFICATION Spec
INVARIANT ScanConsistent
INVARIANT ScanInvariant
PROPERTY ImplementsJobStore
