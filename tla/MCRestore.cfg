SPECIFICATION Spec
CONSTANTS
  Restorers = {"r1", "r2"}
  Servers = {"s1"}
  Backups = {"b1"}
  Turn <- MCTurn
  Rollbacks <- MCRollbacks
  Sources <- MCSources
  Snapshots <- MCSnapshots
  Created <- MCCreated
  MaxBytes = 1
  None = None
CHECK_DEADLOCK FALSE
INVARIANTS PublishedWhole BackupWhole
PROPERTIES OriginalKept AllOrNothing LockRespected CommandsEnd
