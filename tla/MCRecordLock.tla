---------------------------- MODULE MCRecordLock ----------------------------
(* Two processes.  c1 and c2 want the lease of one bucket, each in a process   *)
(* of its own; c3, c4 and c5 want the mutation lock of one object, c3 and c4   *)
(* in the same process.                                                        *)
EXTENDS RecordLock, TLC

CONSTANTS c1, c2, c3, c4, c5, p1, p2, bucket, object, byte

MCLeases == {c1, c2}
MCClients == MCLeases \cup {c3, c4, c5}
MCProcOf == (c1 :> p1) @@ (c2 :> p2) @@ (c3 :> p1) @@ (c4 :> p1) @@ (c5 :> p2)
MCKeyOf == [c \in MCClients |-> IF c \in MCLeases THEN bucket ELSE object]
MCLocalOf == (bucket :> bucket) @@ (object :> byte)
=============================================================================
