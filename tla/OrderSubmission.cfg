\* Two handlers that overlap, an intent that is repriced, a review that comes and goes.
SPECIFICATION Spec
CONSTANTS
    Requests = {r1, r2}
    Revisions = {v1, v2}
    Reports = {p1}
    None = None
    AuditReadMayFail = TRUE
INVARIANTS TypeOK OneOrderPerIntent IntentRecordedFirst OrderAuthorised HistoryIsTrue
PROPERTIES ImplementsLifecycle EveryRequestReturns
CHECK_DEADLOCK FALSE
