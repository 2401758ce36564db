SPECIFICATION ServicesSpec
CONSTANTS
    GrantCalls <- MCGrantCalls
    GrantFlows = {g1}
    MaxTokens = 2
    MaxGrantFaults = 1
    Uploads = {u1, u2}
    Attaches = {a1}
    MaxFolders = 4
    MaxDriveFaults = 1
    BackupRuns = {b1, b2}
    Retention = 1
    MaxBackupFaults = 2
    PlannedMeetings = {p1, p2}
    ReminderRuns = {r1, r2, r3}
    DiscordDisabled = FALSE
    LastMinute = 2
    MaxRunFaults = 2
INVARIANTS
    GrantInv
    
    BackupInv
    
PROPERTIES
    DriveHeals
    
CHECK_DEADLOCK FALSE
