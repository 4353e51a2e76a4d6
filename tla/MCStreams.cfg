CONSTANTS
    MaxRound = 3
    RosterAt <- MCRosterAt
    MaxFaults = 2
    MaxCrashes = 1
    MaxRestarts = 1
    EventsPerFile = 2
    MaxEvents = 3
    MaxFlushes = 2
SPECIFICATION Spec
  
PROPERTY MirrorCatchesUp
\* A stopped node and an idle mirror.
CHECK_DEADLOCK FALSE
