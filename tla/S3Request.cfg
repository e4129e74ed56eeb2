SPECIFICATION Spec
CONSTANTS
  Slots <- MCSlots
  Keys <- MCKeys
  Inputs <- MCInputs
  Worlds <- MCWorlds
  Mixes = {"wide", "race", "locks"}
PROPERTIES Authorized LockKept RetentionKept
CHECK_DEADLOCK FALSE
