--------------------------- MODULE ExclusiveLock ---------------------------
(***************************************************************************)
(* What the gateway's object and bucket locks promise their callers: a     *)
(* client enters the critical section only when no other is inside, and    *)
(* leaves it by closing its lease or by the death of its process.  Both    *)
(* lock mechanisms of backend/posix (lock files created with O_EXCL, and   *)
(* fcntl record locks behind a process-local lock) are shown to implement  *)
(* this specification.                                                     *)
(***************************************************************************)
CONSTANTS Clients,  \* one client is one call of the acquire function
          KeyOf     \* the lock a client wants

VARIABLE holders    \* the clients inside their critical sections

ExInit == holders = {}

\* The acquire function returns a lease to c.
ExAcquire(c) == /\ \A d \in holders : KeyOf[d] # KeyOf[c]
                /\ holders' = holders \cup {c}

\* Leases are closed, or the process that holds them dies.
ExRelease == holders' \subseteq holders

ExNext == ExRelease \/ \E c \in Clients : ExAcquire(c)

ExSpec == ExInit /\ [][ExNext]_holders
=============================================================================
