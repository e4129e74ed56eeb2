--------------------------- MODULE AtomicFileLock ---------------------------
(***************************************************************************)
(* The lock files of backend/posix/atomic_lock_unix.go.  A lock is a file  *)
(* created with O_CREATE|O_EXCL whose body names its owner (hostname, boot *)
(* ID, PID, nonce).  A contender that finds the file may remove it only    *)
(* when the body names a process of its own host and boot that no longer   *)
(* exists; the decision is serialised per host by withLocalRecoveryLock.   *)
(*                                                                         *)
(* One element of Clients is one call of acquireAtomicFileLock: it has one *)
(* nonce, it creates the file at most once, so it also names the inode it  *)
(* created.  HostOf gives a process its hostname and boot ID as one value: *)
(* the code compares both and treats a difference in either alike.         *)
(***************************************************************************)
EXTENDS FiniteSets

CONSTANTS Clients, Procs, Hosts, Pids,
          ProcOf,   \* the process a client runs in
          HostOf,   \* the (hostname, boot ID) pair of a process
          PidOf,    \* the PID of a process; PIDs are reused after a death
          Waiters,  \* the clients that call with wait = true
          Faults,   \* client -> what may befall its call: "persist", "io", "cancel"
          Nobody

ASSUME ClientsAssumption == /\ Nobody \notin Clients
                            /\ ProcOf \in [Clients -> Procs]
                            /\ HostOf \in [Procs -> Hosts]
                            /\ PidOf \in [Procs -> Pids]
                            /\ Waiters \subseteq Clients

VARIABLES owner,    \* the client whose inode is at the lock path, or Nobody
          written,  \* the clients whose whole body is in their inode
          guard,    \* host -> the client inside withLocalRecoveryLock
          seen,     \* client -> the owner it read from the lock file
          pc,       \* client -> where it is
          proc      \* process -> unborn, alive or dead

vars == <<owner, written, guard, seen, pc, proc>>

Host(c) == HostOf[ProcOf[c]]

Final == {"idle", "done", "held-by-other", "error", "unlinked", "dead"}
InGuard == {"readOwner", "judge", "claim", "readOwn", "release"}
Holding == {"held", "closeGuard", "readOwn", "release"}
PCs == Final \cup InGuard \cup Holding
         \cup {"create", "write", "sync", "unlink", "recoverGuard"}

TypeOK == /\ owner \in Clients \cup {Nobody}
          /\ written \subseteq Clients
          /\ guard \in [Hosts -> Clients \cup {Nobody}]
          /\ seen \in [Clients -> Clients \cup {Nobody}]
          /\ pc \in [Clients -> PCs]
          /\ proc \in [Procs -> {"unborn", "alive", "dead"}]

Init == /\ owner = Nobody
        /\ written = {}
        /\ guard = [h \in Hosts |-> Nobody]
        /\ seen = [c \in Clients |-> Nobody]
        /\ pc = [c \in Clients |-> "idle"]
        /\ proc = [p \in Procs |-> "unborn"]

At(c, l) == pc[c] = l
Goto(c, l) == pc' = [pc EXCEPT ![c] = l]
DropGuard(c) == guard' = [guard EXCEPT ![Host(c)] = Nobody]

----------------------------------------------------------------------------
(* acquireAtomicFileLockWithOwner *)

Call(c) == /\ At(c, "idle") /\ proc[ProcOf[c]] = "alive"
           /\ Goto(c, "create")
           /\ UNCHANGED <<owner, written, guard, seen, proc>>

\* os.OpenFile(path, O_CREATE|O_EXCL|O_WRONLY): succeeds on an absent path only.
Create(c) == /\ At(c, "create")
             /\ IF owner = Nobody THEN owner' = c /\ Goto(c, "write")
                                  ELSE owner' = owner /\ Goto(c, "recoverGuard")
             /\ UNCHANGED <<written, guard, seen, proc>>

\* file.Write(body): the bytes go to the inode, whatever is at the path by now.
WriteBody(c) == /\ At(c, "write")
                /\ written' = written \cup {c}
                /\ Goto(c, "sync")
                /\ UNCHANGED <<owner, guard, seen, proc>>

\* file.Sync() and file.Close() succeed: the lease is handed out.
SyncBody(c) == /\ At(c, "sync")
               /\ Goto(c, "held")
               /\ UNCHANGED <<owner, written, guard, seen, proc>>

\* Write, Sync or Close fails: the body may or may not be in the file.
PersistFails(c) == /\ "persist" \in Faults[c]
                   /\ pc[c] \in {"write", "sync"}
                   /\ Goto(c, "unlink")
                   /\ UNCHANGED <<owner, written, guard, seen, proc>>

\* os.Remove(path) on that error path: no guard, no ownership check.  The call
\* returns the error; that it got here is remembered for Exposed below.
RemoveUnpersisted(c) == /\ At(c, "unlink")
                        /\ owner' = Nobody
                        /\ Goto(c, "unlinked")
                        /\ UNCHANGED <<written, guard, seen, proc>>

\* ctx is done at the top of the loop, in the sleep or while waiting for the guard.
Cancel(c) == /\ "cancel" \in Faults[c]
             /\ pc[c] \in {"create", "recoverGuard"}
             /\ Goto(c, "error")
             /\ UNCHANGED <<owner, written, guard, seen, proc>>

----------------------------------------------------------------------------
(* withLocalRecoveryLock: a channel of the process and an fcntl lock of the
   host; both are gone when the process dies. *)

\* Mutant: recovery runs without the guard.
EnterGuardUnguarded(c) ==
  /\ pc[c] \in {"recoverGuard", "closeGuard"}
  /\ guard' = [guard EXCEPT ![Host(c)] = c]
  /\ Goto(c, IF At(c, "closeGuard") THEN "readOwn" ELSE "readOwner")
  /\ UNCHANGED <<owner, written, seen, proc>>

EnterGuard(c) == /\ pc[c] \in {"recoverGuard", "closeGuard"}
                 /\ guard[Host(c)] = Nobody
                 /\ guard' = [guard EXCEPT ![Host(c)] = c]
                 /\ Goto(c, IF At(c, "closeGuard") THEN "readOwn" ELSE "readOwner")
                 /\ UNCHANGED <<owner, written, seen, proc>>

\* Opening or locking the guard file, reading or renaming the lock file fails.
GuardFails(c) == /\ "io" \in Faults[c]
                 /\ pc[c] \in InGuard \cup {"recoverGuard", "closeGuard"}
                 /\ IF pc[c] \in InGuard THEN DropGuard(c) ELSE guard' = guard
                 /\ Goto(c, "error")
                 /\ UNCHANGED <<owner, written, seen, proc>>

(* recoverLocalAtomicFileLock *)

\* The caller sleeps and tries again when it waits, else gets errAtomicLockHeld.
NotRecovered(c) == /\ DropGuard(c)
                   /\ Goto(c, IF c \in Waiters THEN "create" ELSE "held-by-other")

ReadOwner(c) == /\ At(c, "readOwner")
                /\ \/ /\ owner = Nobody
                      /\ DropGuard(c) /\ Goto(c, "create")
                      /\ seen' = seen
                   \/ /\ owner # Nobody /\ owner \notin written
                      /\ NotRecovered(c)
                      /\ seen' = seen
                   \/ /\ owner \in written
                      /\ seen' = [seen EXCEPT ![c] = owner]
                      /\ Goto(c, "judge")
                      /\ guard' = guard
                /\ UNCHANGED <<owner, written, proc>>

\* kill(pid, 0) on host h: any live process of that PID counts.
ProcessAlive(h, pid) == \E p \in Procs : /\ HostOf[p] = h /\ PidOf[p] = pid
                                         /\ proc[p] = "alive"

\* Mutants: any absent PID counts, also that of another host; the PID is not
\* looked at; only the caller's own stale file counts.
RecoverableAnyHost(c) == ~ProcessAlive(Host(c), PidOf[ProcOf[seen[c]]])
RecoverableWhileAlive(c) == Host(seen[c]) = Host(c)
RecoverableOwn(c) == seen[c] = c

Recoverable(c) == /\ Host(seen[c]) = Host(c)
                  /\ ~ProcessAlive(Host(c), PidOf[ProcOf[seen[c]]])

Judge(c) == /\ At(c, "judge")
            /\ IF Recoverable(c) THEN Goto(c, "claim") /\ guard' = guard
                                 ELSE NotRecovered(c)
            /\ UNCHANGED <<owner, written, seen, proc>>

\* Rename to the recovery tombstone, then remove it: whatever is at the path goes.
Claim(c) == /\ At(c, "claim")
            /\ owner' = Nobody
            /\ DropGuard(c) /\ Goto(c, "create")
            /\ UNCHANGED <<written, seen, proc>>

----------------------------------------------------------------------------
(* atomicFileLease.Close, once per lease *)

Close(c) == /\ At(c, "held")
            /\ Goto(c, "closeGuard")
            /\ UNCHANGED <<owner, written, guard, seen, proc>>

\* The body must be this lease's own, nonce included; else release is refused.
ReadOwn(c) == /\ At(c, "readOwn")
              /\ IF owner = c THEN Goto(c, "release") /\ guard' = guard
                              ELSE Goto(c, "error") /\ DropGuard(c)
              /\ UNCHANGED <<owner, written, seen, proc>>

Release(c) == /\ At(c, "release")
              /\ owner' = Nobody
              /\ DropGuard(c) /\ Goto(c, "done")
              /\ UNCHANGED <<written, seen, proc>>

----------------------------------------------------------------------------
(* Processes: external to the code; a PID is reused only after its owner died. *)

StartProcess(p) == /\ proc[p] = "unborn"
                   /\ ~ProcessAlive(HostOf[p], PidOf[p])
                   /\ proc' = [proc EXCEPT ![p] = "alive"]
                   /\ UNCHANGED <<owner, written, guard, seen, pc>>

\* A crash stops the clients of the process and drops its guard; files stay.
Crash(p) == /\ proc[p] = "alive"
            /\ proc' = [proc EXCEPT ![p] = "dead"]
            /\ pc' = [c \in Clients |-> IF ProcOf[c] = p /\ pc[c] # "unlinked"
                                       THEN "dead" ELSE pc[c]]
            /\ guard' = [h \in Hosts |->
                           IF guard[h] # Nobody /\ ProcOf[guard[h]] = p
                           THEN Nobody ELSE guard[h]]
            /\ UNCHANGED <<owner, written, seen>>

Step(c) == \/ Call(c) \/ Create(c) \/ WriteBody(c) \/ SyncBody(c)
           \/ RemoveUnpersisted(c) \/ EnterGuard(c) \/ ReadOwner(c) \/ Judge(c)
           \/ Claim(c) \/ Close(c) \/ ReadOwn(c) \/ Release(c)

Next == \/ \E c \in Clients : Step(c) \/ PersistFails(c) \/ GuardFails(c) \/ Cancel(c)
        \/ \E p \in Procs : StartProcess(p) \/ Crash(p)

Spec == Init /\ [][Next]_vars

\* A goroutine of a live process that can run does run; the callers' critical
\* sections are finite.  A client polling for the guard gets it in the end: the
\* others hold it for one read and one rename and sleep 25 ms between two tries.
\* Crashes and failures are not promised.
FairSpec == Spec /\ \A c \in Clients : WF_vars(Step(c)) /\ SF_vars(EnterGuard(c))

----------------------------------------------------------------------------
\* The one way out of the promises below: a call removed the lock path after its
\* own body could not be persisted, and its process has died since.  Whoever had
\* read that body takes away the lock file of the next owner.
Exposed == \E c \in Clients : pc[c] = "unlinked" /\ proc[ProcOf[c]] = "dead"

\* No two clients are between the return of acquireAtomicFileLock and the rename
\* that releases the lock file, and the file of a client that has not closed its
\* lease stays in place, whatever recovery, release or error path another takes.
MutualExclusion ==
  ~Exposed => \A c \in Clients : pc[c] \in Holding =>
                 owner = c /\ \A d \in Clients : pc[d] \in Holding => c = d

\* recoverLocalAtomicFileLock takes away the file of dead processes only, and
\* never one created on another host or before a reboot.
RecoversOnlyDeadLocal ==
  [][\A c \in Clients :
       ~Exposed /\ pc[c] = "claim" /\ pc'[c] = "create" /\ owner # Nobody
       => Host(owner) = Host(c) /\ proc[ProcOf[owner]] = "dead"]_vars

\* The lock file no client of this host can ever get past: its owner died
\* before the body was complete, or elsewhere, or its PID is in use again, or
\* its release failed.
Stuck(h) == /\ owner # Nobody
            /\ pc[owner] \in {"dead", "error"}
            /\ \/ owner \notin written \/ Host(owner) # h
               \/ ProcessAlive(h, PidOf[ProcOf[owner]])

\* A client that waits gets the lock or an error, or meets a lock file that
\* only an operator may remove: a dead owner of this host does not block it.
WaitersProgress ==
  \A c \in Waiters : At(c, "create") ~>
     (pc[c] \in Holding \cup {"error", "unlinked", "dead"} \/ Stuck(Host(c)))

(* The inductive invariant behind these. *)

\* From the O_EXCL create to the release, or to the removal of a file that could
\* not be persisted, the file at the path is the client's.
CreatorOwnsFile == \A c \in Clients :
                     pc[c] \in Holding \cup {"write", "sync", "unlink"} => owner = c

\* A client is inside the recovery guard of its host exactly when the guard says so.
GuardHeld == \A c \in Clients : pc[c] \in InGuard <=> guard[Host(c)] = c

\* A process that has not started or has died has no client under way, and only
\* started processes have written a body.
ProcsAgree == /\ \A c \in Clients : pc[c] \notin Final => proc[ProcOf[c]] = "alive"
              /\ \A c \in written : proc[ProcOf[c]] # "unborn"

\* What a recovering client read is still true: while it holds the guard no
\* other client of the host can take the lock file away, and those of other
\* hosts refuse.  Only the owner itself may have unlinked it.
SeenStays == \A c \in Clients : pc[c] \in {"judge", "claim"} =>
               /\ seen[c] \in written
               /\ Host(seen[c]) = Host(c) =>
                    owner = seen[c] \/ pc[seen[c]] = "unlinked"

ClaimsDead == \A c \in Clients : pc[c] = "claim" =>
                Host(seen[c]) = Host(c) /\ proc[ProcOf[seen[c]]] = "dead"

IInv == /\ TypeOK
        /\ ~Exposed => /\ CreatorOwnsFile /\ GuardHeld /\ ProcsAgree
                       /\ SeenStays /\ ClaimsDead

\* The clients a caller of the lock sees inside the critical section, as long as
\* the lock keeps its promises.
Holders == IF Exposed THEN {} ELSE {c \in Clients : pc[c] \in Holding}

\* One lock path, so every client wants the same lock.
Lock == INSTANCE ExclusiveLock WITH holders <- Holders,
                                    KeyOf <- [c \in Clients |-> Nobody]
\* The lock files implement an exclusive lock with crash release, until Exposed.
ImplementsExclusiveLock == Lock!ExSpec
=============================================================================
