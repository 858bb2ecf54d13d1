\* Ingest by two programs side by side: one message of a foreign sender, one whose
\* article asks for a login, one that a run may set aside; two faults.
SPECIFICATION FairSpec
CONSTANTS
    Crews <- MCCrews
    Mails = {1, 2, 3}
    Allowed = {1, 3}
    Telling = {1, 3}
    Unsteady = {3}
    Gated = {1}
    MaxMessages = 2
    UnseenOnly = TRUE
    MarkSeen = TRUE
    MaxFaults = 2
INVARIANTS TypeOK SeenWasStored RecordedWasStored SerialWritersKeepRows
 
