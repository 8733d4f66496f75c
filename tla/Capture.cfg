SPECIFICATION Spec
CONSTANTS
    Sources <- MCSources
    FilesOf <- MCFilesOf
    IsDir = {"schemas"}
    MaxCommits = 3
    MaxCaptures = 2
INVARIANTS
    WholeCaptureIsExplained
    ReplayIsHonest
CHECK_DEADLOCK FALSE
