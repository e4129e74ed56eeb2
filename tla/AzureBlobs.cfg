SPECIFICATION Spec
CONSTANTS
  Slots <- MCSlots
  Keys <- MCKeys
  Uploads <- MCUploads
  PartNumbers <- MCParts
  Inputs <- MCChosen
  Worlds <- MCWorlds
  Chosen = {"wide", "settings", "sealed", "two", "retries", "plain", "locks", "copies", "lifecycle", "aborts"}
INVARIANT UploadsWhole
PROPERTIES MetadataKept AbortSpares
CHECK_DEADLOCK FALSE
