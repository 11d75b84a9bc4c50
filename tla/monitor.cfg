SPECIFICATION FairSpec
CONSTANTS
    work = work
    lost = lost
    note = note
    NoRequest = NoRequest
    Requests <- MCRequests
    Informational <- MCInformational
    Offline <- MCOffline
    MaxCrashes = 2
INVARIANTS
    TypeOK
    DoneIsAcknowledged
PROPERTIES
    Contract
    Answered
    NotesConsumed
