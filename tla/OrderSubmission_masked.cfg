CONSTANTS
    Requests = {r1, r2, r3}
    Revisions = {v1}
    Reports = {p1}
    None = None
    AuditReadMayFail = FALSE
SYMMETRY Symmetry
SPECIFICATION Spec
PROPERTIES RecordedOrderDisablesSubmit
CHECK_DEADLOCK FALSE
