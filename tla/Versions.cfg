SPECIFICATION Spec
CONSTANTS
  MaxWrites = 3
  InitStatus = "Unset"
  Statuses = {"Enabled", "Suspended"}
  Requests <- AllButSuspended
  MaxFailures = 2
  NoFile = NoFile
INVARIANTS StoredMatchesContract NoVersionLost OldVersionReadStable
\* the bound on writes ends a behaviour
CHECK_DEADLOCK FALSE
