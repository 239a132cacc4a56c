SPECIFICATION Spec
CONSTANTS
    None = None
    r1 = r1
    r2 = r2
    r3 = r3
    Req <- MCReq
    NamesFor <- MCNamesFor
    Scenarios <- MCScenarios
    SnapshotFiles <- MCSnapshotFiles
    SessionTtl = 2
    TokenTtl = 1
    MaxClock = 2
    MaxAttempts = 2
    Window = 1
    Unparsed = {"x1"}
INVARIANTS
    ATypeOK
    OneTimeUnlessOverlapping
    GuessesBounded
    LoggedOutStaysOut
    AnsweredIsAudited
    AclTakesEffect
    RestoreComplete
    QuietBackupValid
CHECK_DEADLOCK FALSE
