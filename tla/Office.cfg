SPECIFICATION OfficeSpec
CONSTANTS
    Mfs = {"m1", "m2"}
    FirmNames = {"X", "Y"}
    FirmForms = {f1}
    MaxFirms = 3
    MaxFirmOps = 2
    MaxFileRows = 2
    Editors = {e1, e2}
    Migrations = {m1, m2}
    DocTypes = {"BC", "BL"}
    Origins = {"T1", "T2"}
    MaxArchives = 2
    MaxEdits = 3
    LastDay = 1
    MigrationFiles <- MCMigrationFiles
    Writers = {w1, w2}
    Actions = {a}
    MaxMeetings = 3
    MaxMeetingOps = 4
    WatchedDis = {d1, d2}
    OpenStatuses = {"s"}
    JobRuns = {r1, r2}
    LastMorning = 1
    MaxMoves = 1
    MaxJobFaults = 1
INVARIANTS
    
    
    MeetingsInv
    StagnationInv

    
CHECK_DEADLOCK FALSE
