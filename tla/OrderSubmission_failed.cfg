CONSTANTS
    Requests = {r1, r2}
    Revisions = {v1}
    Reports = {p1}
    None = None
    AuditReadMayFail = FALSE
SYMMETRY Symmetry
SPECIFICATION Spec
INVARIANTS FailedMeansNotPlaced
CHECK_DEADLOCK FALSE
