SPECIFICATION Spec
CONSTANTS
  alice = alice
  bob = bob
  admin = admin
  i1 = i1
  i2 = i2
  i3 = i3
  g1 = g1
  g2 = g2
  k1 = k1
  k2 = k2
  s1 = s1
  s2 = s2
  s3 = s3
  Users = {alice, bob}
  Roles = {admin}
  Providers = {i1, i2, i3}
  Seed <- MCSeed
  Renames <- MCRenames
  Names = {k1, k2}
  MaxKeys = 1
  MaxClients = 1
  MaxTags = 1
  MaxBytes = 1
  MaxProviders = 1
  MaxCASRetries = 2
  Calls = {g1, g2}
  MaxRequests = 3
  MaxFaults = 1
  Sessions = {s1, s2, s3}
  MaxSessions = 1
  NoDoc = NoDoc
  Refused = Refused
SYMMETRY Symmetry
INVARIANTS UserNotLost AccessKept LimitsKept
PROPERTY NoLostUpdate
\* the bound on requests ends a behaviour
CHECK_DEADLOCK FALSE
