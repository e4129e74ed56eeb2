SPECIFICATION Spec
CONSTANTS
  Servers <- MCServers
  Slots <- MCSlots
  Fold <- MCFold
  Order <- MCOrder
  Size <- MCSize
  Generated <- MCGenerated
  Documents <- MCDocuments
  Trusts <- MCTrusts
  Shared <- MCShared
  Mixes <- MCMixes
  MaxKeys = 2
  MaxTags = 1
  MaxPolicySize = 2
  MaxProviders = 2
  MaxClients = 1
  MaxSessions = 2
  JwksTTL = 2
  JwksRefresh = 1
  Chosen = {"wide", "wideRoot", "wideSession", "tagged", "keys", "keysElsewhere", "moves", "roles", "roleAgain", "list", "migrate", "sealed", "web"}
INVARIANTS StoreConsistent ListComplete
PROPERTIES CredentialsCurrent WritesAuthorized
CHECK_DEADLOCK FALSE
