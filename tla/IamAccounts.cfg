SPECIFICATION Spec
CONSTANTS
  Gateways <- MCGateways
  Slots <- MCSlots
  GatewayOf <- MCGatewayOf
  Keys <- MCKeys
  Root = "root"
  Sessions <- MCSessions
  Inputs <- MCChosen
  Worlds <- MCWorlds
  Chosen = {"changes", "lookups", "lists", "roots", "opens", "remote", "ipa", "single"}
INVARIANTS ChangesHold ServedCurrent ResolvesRight
CHECK_DEADLOCK FALSE
