SPECIFICATION Spec
CONSTANTS
  Slots <- MCSlots
  Keys <- MCKeys
  Inputs <- MCChosen
  Worlds <- MCWorlds
  Limit = 2
  MaxVid = 4
  Chosen = {"wide", "attributes", "copies", "settings", "emptying", "owners"}
INVARIANT LockKept
PROPERTIES RightVersion BucketLife RequestsEnd
CHECK_DEADLOCK FALSE
