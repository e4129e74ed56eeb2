CONSTANTS
  c1 = c1
  c2 = c2
  c3 = c3
  c4 = c4
  p1 = p1
  p2 = p2
  p3 = p3
  p4 = p4
  h1 = h1
  h2 = h2
  Nobody = Nobody
  Clients <- MCClients
  Procs <- MCProcs
  Hosts <- MCHosts
  Pids <- MCPids
  ProcOf <- MCProcOf
  HostOf <- MCHostOf
  PidOf <- MCPidOf
  Waiters <- MCWaiters
  Faults <- MCFaults
SPECIFICATION FairSpec
INVARIANT MutualExclusion
PROPERTIES RecoversOnlyDeadLocal ImplementsExclusiveLock WaitersProgress
CHECK_DEADLOCK FALSE
