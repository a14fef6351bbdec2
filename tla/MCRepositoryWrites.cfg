CONSTANTS
    IntLimit = 4
    Data = {d}
    Threads = {t1, t2}
    MaxId = 2
    Faults = {"prepare", "busy", "commit", "read"}
    ErrorCodes = {1}
    NoRow = NoRow
    Writes = {"update_job_status", "delete_job", "update_job", "pause_job", "resume_job", "update_next_run_time", "increment_retry_count", "reset_retry_count", "get_job_by_id"}
    CallIds = {1}
    Scans = {}
    d = d
    t1 = t1
    t2 = t2
    Calls <- MCCalls
SYMMETRY Symmetry
SPECIFICATION Spec
INVARIANT TypeOK
INVARIANT RepliesExactWhenAlone
INVARIANT ReturnedIdNotOlder
INVARIANT RetryBounded
INVARIANT ConnectionInvariant
PROPERTY ImplementsJobStore
PROPERTY IdsNeverReused
