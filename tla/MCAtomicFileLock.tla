------------------------- MODULE MCAtomicFileLock -------------------------
(* Four acquire calls in three processes: two processes on one host, one of  *)
(* them with two goroutines, and one process on another host.  A fourth      *)
(* process reuses the PID of p1 once p1 is dead.                             *)
EXTENDS AtomicFileLock, Naturals, TLC

CONSTANTS c1, c2, c3, c4, p1, p2, p3, p4, h1, h2

MCClients == {c1, c2, c3, c4}
MCProcs == {p1, p2, p3, p4}
MCHosts == {h1, h2}
MCPids == 1..2
MCProcOf == (c1 :> p1) @@ (c2 :> p2) @@ (c3 :> p2) @@ (c4 :> p3)
MCHostOf == (p1 :> h1) @@ (p2 :> h1) @@ (p3 :> h2) @@ (p4 :> h1)
MCPidOf == (p1 :> 1) @@ (p2 :> 2) @@ (p3 :> 1) @@ (p4 :> 1)
MCWaiters == {c2}
MCFaults == (c1 :> {"persist", "io", "cancel"}) @@ (c2 :> {"io"})
              @@ (c3 :> {}) @@ (c4 :> {})
============================================================================
