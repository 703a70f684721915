SPECIFICATION FairSpec
CONSTANTS
  MaxChanges = 4
  MaxFailures = 1
  MaxCleanups = 1
INVARIANT PendingSafe
PROPERTIES DiskNeverRollsBack ChangesReachDisk
CHECK_DEADLOCK FALSE
