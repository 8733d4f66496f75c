SPECIFICATION FairSpec
CONSTANTS
    Texts <- MCTexts
    Genesis <- MCGenesis
    SeverityOf <- MCSeverityOf
    MaxCommits = 3
    MaxFailures = 1
    MaxDecisions = 2
    MaxForced = 1
INVARIANTS
    TypeOK
    PullsDoNotQueue
    LouderWaits
    MainTellsItsChanges
PROPERTIES
    RoutineArrives
