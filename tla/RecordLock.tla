----------------------------- MODULE RecordLock -----------------------------
(***************************************************************************)
(* The fcntl locks of backend/posix/lifecycle_lease_unix.go: the bucket    *)
(* lease of AcquireLifecycleLease and the per-object lock of               *)
(* acquireObjectMutationLock.  A record lock belongs to a process, so a    *)
(* second goroutine of the process always gets it and closing any of the   *)
(* process's descriptors of the file drops it.  Both functions therefore   *)
(* put a process-local lock in front: an entry of lifecycleLocalLeases per *)
(* lock path, or one of 256 channels chosen by a byte of the key's digest, *)
(* which unrelated keys may share.                                         *)
(*                                                                         *)
(* One element of Clients is one call.  A nested call that carries         *)
(* ctxKeyObjectMutationHeld returns at once and is no client here.         *)
(***************************************************************************)
CONSTANTS Clients, Procs, Keys, Locals,
          ProcOf,   \* the process a client runs in
          KeyOf,    \* the lock file it wants
          LocalOf,  \* the process-local lock in front of a lock file
          Leases,   \* the calls of AcquireLifecycleLease; the others are calls of
                    \* acquireObjectMutationLock
          Enforced, \* TRUE: the file system enforces record locks between processes
          Faults,   \* TRUE: opens may fail and contexts may be cancelled
          Nobody

ASSUME RecordLockAssumption == /\ Nobody \notin Clients /\ Nobody \notin Procs
                               /\ ProcOf \in [Clients -> Procs]
                               /\ KeyOf \in [Clients -> Keys]
                               /\ LocalOf \in [Keys -> Locals]
                               /\ Leases \subseteq Clients
                               /\ {Enforced, Faults} \subseteq BOOLEAN

VARIABLES record,  \* lock file -> the processes the kernel granted the lock to
          local,   \* <<process, local lock>> -> the client that has it
          probe,   \* process -> outcome of the lifecycleLeaseProbe, run once
          pc

vars == <<record, local, probe, pc>>

Labels == {"idle", "local", "open", "setlk", "held", "giveBack", "done",
           "unavailable", "dead"}

TypeOK == /\ record \in [Keys -> SUBSET Procs]
          /\ local \in [Procs \X Locals -> Clients \cup {Nobody}]
          /\ probe \in [Procs -> {"none", "contended", "failed"}]
          /\ pc \in [Clients -> Labels]

Init == /\ record = [k \in Keys |-> {}]
        /\ local = [x \in Procs \X Locals |-> Nobody]
        /\ probe = [p \in Procs |-> "none"]
        /\ pc = [c \in Clients |-> "idle"]

LocalAt(c) == <<ProcOf[c], LocalOf[KeyOf[c]]>>
Goto(c, l) == pc' = [pc EXCEPT ![c] = l]

Call(c) == /\ pc[c] = "idle"
           /\ Goto(c, "local")
           /\ UNCHANGED <<record, local, probe>>

\* Mutant: no process-local lock.
TakeLocalUnchecked(c) == /\ pc[c] = "local"
                         /\ local' = [local EXCEPT ![LocalAt(c)] = c]
                         /\ Goto(c, "open")
                         /\ UNCHANGED <<record, probe>>

\* Receive from the channel, or LoadOrStore finds no entry.
TakeLocal(c) == /\ pc[c] = "local"
                /\ local[LocalAt(c)] = Nobody
                /\ local' = [local EXCEPT ![LocalAt(c)] = c]
                /\ Goto(c, "open")
                /\ UNCHANGED <<record, probe>>

\* LoadOrStore finds an entry (lease), or ctx ends while the channel is empty.
LocalBusy(c) == /\ pc[c] = "local"
                /\ IF c \in Leases THEN local[LocalAt(c)] # Nobody ELSE Faults
                /\ Goto(c, "unavailable")
                /\ UNCHANGED <<record, local, probe>>

\* verifyLifecycleRecordLocks, once per process and only for leases: a second
\* process must be refused the lock.  Then the lock file is opened.
Probes(c) == c \in Leases /\ probe[ProcOf[c]] = "none"
Open(c) ==
  /\ pc[c] = "open"
  /\ probe' = IF Probes(c)
              THEN [probe EXCEPT ![ProcOf[c]] = IF Enforced THEN "contended" ELSE "failed"]
              ELSE probe
  /\ Goto(c, IF c \in Leases /\ probe'[ProcOf[c]] = "failed" THEN "giveBack" ELSE "setlk")
  /\ UNCHANGED <<record, local>>

\* The file cannot be opened, or the probe itself breaks down: a probe that failed
\* once, for whatever reason, refuses the leases of this process for good.
OpenFails(c) ==
  /\ Faults /\ pc[c] = "open"
  /\ \E outcome \in {"failed"} \cup (IF Enforced THEN {"contended"} ELSE {}) :
       probe' = IF Probes(c) THEN [probe EXCEPT ![ProcOf[c]] = outcome] ELSE probe
  /\ Goto(c, "giveBack")
  /\ UNCHANGED <<record, local>>

\* The kernel's answer to F_SETLK: granted unless another process has the lock.
Granted(c) == ~Enforced \/ record[KeyOf[c]] \subseteq {ProcOf[c]}

SetLk(c) == /\ pc[c] = "setlk"
            /\ Granted(c)
            /\ record' = [record EXCEPT ![KeyOf[c]] = @ \cup {ProcOf[c]}]
            /\ Goto(c, "held")
            /\ UNCHANGED <<local, probe>>

\* Mutant: a waiter gives the channel back between two tries.
GiveUpUnlocksLocal(c) == /\ pc[c] = "setlk"
                         /\ ~Granted(c)
                         /\ local' = [local EXCEPT ![LocalAt(c)] = Nobody]
                         /\ UNCHANGED <<record, probe, pc>>

\* A refused lease, or a mutation lock whose ctx ends between two tries, closes
\* its descriptor; a refused mutation lock otherwise tries again in 25 ms.
GiveUp(c) == /\ pc[c] = "setlk"
             /\ IF c \in Leases THEN ~Granted(c) ELSE Faults
             /\ record' = [record EXCEPT ![KeyOf[c]] = @ \ {ProcOf[c]}]
             /\ Goto(c, "giveBack")
             /\ UNCHANGED <<local, probe>>

\* F_UNLCK and file.Close(): the process has no record lock on the file any more.
Unlock(c) == /\ pc[c] = "held"
             /\ record' = [record EXCEPT ![KeyOf[c]] = @ \ {ProcOf[c]}]
             /\ Goto(c, "giveBack")
             /\ UNCHANGED <<local, probe>>

\* Mutant: an early return forgets the local lock.
GiveBackLeaks(c) == /\ pc[c] = "giveBack"
                    /\ Goto(c, "done")
                    /\ UNCHANGED <<record, local, probe>>

\* Send to the channel, or delete the entry: the last thing on every path out.
GiveBack(c) == /\ pc[c] = "giveBack"
               /\ local' = [local EXCEPT ![LocalAt(c)] = Nobody]
               /\ Goto(c, "done")
               /\ UNCHANGED <<record, probe>>

\* The kernel drops the record locks of a dead process, its memory is gone.
Crash(p) == /\ \E c \in Clients : ProcOf[c] = p /\ pc[c] # "dead"
            /\ record' = [k \in Keys |-> record[k] \ {p}]
            /\ local' = [x \in Procs \X Locals |-> IF x[1] = p THEN Nobody ELSE local[x]]
            /\ pc' = [c \in Clients |-> IF ProcOf[c] = p THEN "dead" ELSE pc[c]]
            /\ UNCHANGED probe

Step(c) == \/ Call(c) \/ TakeLocal(c) \/ Open(c) \/ SetLk(c) \/ Unlock(c) \/ GiveBack(c)

Next == \/ \E c \in Clients : Step(c) \/ LocalBusy(c) \/ OpenFails(c) \/ GiveUp(c)
        \/ \E p \in Procs : Crash(p)

Spec == Init /\ [][Next]_vars

\* Runnable goroutines run; blocked receivers of a channel are served in order,
\* and a waiting client polls the record lock every 25 ms, so it meets it free.
FairSpec == /\ Spec
            /\ \A c \in Clients : WF_vars(Step(c))
            /\ \A c \in Clients \ Leases : SF_vars(TakeLocal(c)) /\ SF_vars(SetLk(c))

----------------------------------------------------------------------------
\* No two clients hold the lock of one file, be they goroutines of one process
\* or of two; a file system that does not enforce record locks gives no lease.
MutualExclusion == \A c, d \in Clients :
                     /\ pc[c] = "held" /\ pc[d] = "held" /\ KeyOf[c] = KeyOf[d]
                     => c = d

\* Every call returns: no path out of the functions keeps the local lock.
CallsReturn == \A c \in Clients :
                 (pc[c] = "local") ~> (pc[c] \in {"done", "unavailable", "dead"})

Holders == {c \in Clients : pc[c] = "held"}

Lock == INSTANCE ExclusiveLock WITH holders <- Holders

\* Record lock and local lock together are an exclusive lock per lock file.
ImplementsExclusiveLock == Lock!ExSpec

----------------------------------------------------------------------------
(* The inductive invariant: a client past TakeLocal has the local lock, a
   holder's process has the record lock, and record locks exclude processes. *)
LocalHeld == \A c \in Clients :
               pc[c] \in {"open", "setlk", "held", "giveBack"} => local[LocalAt(c)] = c
RecordHeld == \A c \in Clients : pc[c] = "held" => ProcOf[c] \in record[KeyOf[c]]
RecordExcludes == Enforced => \A k \in Keys : \A p, q \in record[k] : p = q
FailsClosed == ~Enforced => /\ \A p \in Procs : probe[p] # "contended"
                            /\ \A c \in Leases : pc[c] \notin {"setlk", "held"}
IInv == TypeOK /\ LocalHeld /\ RecordHeld /\ RecordExcludes /\ FailsClosed
=============================================================================
