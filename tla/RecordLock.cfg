CONSTANTS
  c1 = c1
  c2 = c2
  c3 = c3
  c4 = c4
  c5 = c5
  p1 = p1
  p2 = p2
  bucket = bucket
  object = object
  byte = byte
  Nobody = Nobody
  Clients <- MCClients
  Procs = {p1, p2}
  Keys = {bucket, object}
  Locals = {bucket, byte}
  ProcOf <- MCProcOf
  KeyOf <- MCKeyOf
  LocalOf <- MCLocalOf
  Leases <- MCLeases
  Enforced = TRUE
  Faults = TRUE
SPECIFICATION FairSpec
INVARIANT MutualExclusion
PROPERTIES ImplementsExclusiveLock CallsReturn
\* calls end
CHECK_DEADLOCK FALSE
