----------------------- MODULE AtomicFileLockProofs -----------------------
(***************************************************************************)
(* For every set of clients, processes, hosts and PIDs, and whatever       *)
(* crashes, PID reuse, cancellation and I/O errors happen: the lock files  *)
(* of AtomicFileLock exclude each other and implement ExclusiveLock until  *)
(* a process dies in which an acquire had failed to persist its body.      *)
(***************************************************************************)
EXTENDS AtomicFileLock, TLAPS

\* The invariant holds before any process has started.
LEMMA InitIInv == Init => IInv
BY ClientsAssumption DEF Init, IInv, TypeOK, CreatorOwnsFile, GuardHeld, ProcsAgree,
   SeenStays, ClaimsDead, PCs, Final, InGuard, Holding, Host

\* A call that removed an unpersisted file has returned, and the dead stay dead.
LEMMA ExposedStays == TypeOK /\ [Next]_vars /\ Exposed => Exposed'
<1> SUFFICES ASSUME TypeOK, [Next]_vars,
                    NEW d \in Clients, pc[d] = "unlinked", proc[ProcOf[d]] = "dead"
             PROVE  pc'[d] = "unlinked" /\ proc'[ProcOf[d]] = "dead"
  BY DEF Exposed
<1> USE DEF TypeOK, Goto, At, NotRecovered, InGuard, Holding
<1>1. ASSUME NEW c \in Clients,
             Step(c) \/ PersistFails(c) \/ GuardFails(c) \/ Cancel(c)
      PROVE  pc'[d] = "unlinked" /\ proc'[ProcOf[d]] = "dead"
  BY <1>1 DEF Step, Call, Create, WriteBody, SyncBody, RemoveUnpersisted, EnterGuard,
     ReadOwner, Judge, Claim, Close, ReadOwn, Release, PersistFails, GuardFails, Cancel
<1>2. ASSUME NEW p \in Procs, StartProcess(p) \/ Crash(p)
      PROVE  pc'[d] = "unlinked" /\ proc'[ProcOf[d]] = "dead"
  BY <1>2, ClientsAssumption DEF StartProcess, Crash
<1> QED
  BY <1>1, <1>2 DEF Next, vars

\* Every step of a client, every start and every crash preserves the invariant.
LEMMA NextIInv == IInv /\ [Next]_vars => IInv'
<1> SUFFICES ASSUME IInv, [Next]_vars PROVE IInv'
  OBVIOUS
<1> DEFINE Good == CreatorOwnsFile /\ GuardHeld /\ ProcsAgree /\ SeenStays /\ ClaimsDead
<1>a. TypeOK'
  <2> USE DEF IInv, TypeOK, PCs, Final, InGuard, Holding, Goto, DropGuard, NotRecovered, Host
  <2>1. ASSUME NEW c \in Clients, Step(c) PROVE TypeOK'
    BY <2>1, ClientsAssumption DEF Step, Call, Create, WriteBody, SyncBody,
       RemoveUnpersisted, EnterGuard, ReadOwner, Judge, Claim, Close, ReadOwn, Release
  <2>2. ASSUME NEW c \in Clients, PersistFails(c) \/ GuardFails(c) \/ Cancel(c) PROVE TypeOK'
    BY <2>2, ClientsAssumption DEF PersistFails, GuardFails, Cancel
  <2>3. ASSUME NEW p \in Procs, StartProcess(p) \/ Crash(p) PROVE TypeOK'
    BY <2>3 DEF StartProcess, Crash
  <2> QED
    BY <2>1, <2>2, <2>3 DEF Next, vars
<1>b. SUFFICES ASSUME ~Exposed', ~Exposed, Good PROVE Good'
  BY <1>a, ExposedStays DEF IInv
<1> USE <1>b, ClientsAssumption DEF IInv, TypeOK, CreatorOwnsFile, GuardHeld, ProcsAgree,
        SeenStays, ClaimsDead, PCs, Final, InGuard, Holding, Host, At, Goto, DropGuard
<1>1. ASSUME NEW c \in Clients, Call(c) PROVE Good'
  BY <1>1 DEF Call
<1>2. ASSUME NEW c \in Clients, Create(c) PROVE Good'
  BY <1>2 DEF Create
<1>3. ASSUME NEW c \in Clients, WriteBody(c) PROVE Good'
  BY <1>3 DEF WriteBody
<1>4. ASSUME NEW c \in Clients, SyncBody(c) PROVE Good'
  BY <1>4 DEF SyncBody
<1>5. ASSUME NEW c \in Clients, PersistFails(c) PROVE Good'
  BY <1>5 DEF PersistFails
<1>6. ASSUME NEW c \in Clients, RemoveUnpersisted(c) PROVE Good'
  BY <1>6 DEF RemoveUnpersisted
<1>7. ASSUME NEW c \in Clients, EnterGuard(c) PROVE Good'
  BY <1>7 DEF EnterGuard
<1>8. ASSUME NEW c \in Clients, ReadOwner(c) PROVE Good'
  BY <1>8 DEF ReadOwner, NotRecovered
<1>9. ASSUME NEW c \in Clients, Judge(c) PROVE Good'
  BY <1>9 DEF Judge, NotRecovered, Recoverable, ProcessAlive
<1>10. ASSUME NEW c \in Clients, Claim(c) PROVE Good'
  BY <1>10 DEF Claim, Exposed
<1>11. ASSUME NEW c \in Clients, Close(c) PROVE Good'
  BY <1>11 DEF Close
<1>12. ASSUME NEW c \in Clients, ReadOwn(c) PROVE Good'
  BY <1>12 DEF ReadOwn
<1>13. ASSUME NEW c \in Clients, Release(c) PROVE Good'
  BY <1>13 DEF Release
<1>14. ASSUME NEW c \in Clients, GuardFails(c) PROVE Good'
  BY <1>14 DEF GuardFails
<1>15. ASSUME NEW c \in Clients, Cancel(c) PROVE Good'
  BY <1>15 DEF Cancel
<1>16. ASSUME NEW p \in Procs, StartProcess(p) PROVE Good'
  BY <1>16 DEF StartProcess
<1>17. ASSUME NEW p \in Procs, Crash(p) PROVE Good'
  BY <1>17 DEF Crash, Exposed
<1>18. ASSUME UNCHANGED vars PROVE Good'
  BY <1>18 DEF vars
<1> HIDE DEF Good
<1> QED
  BY <1>1, <1>2, <1>3, <1>4, <1>5, <1>6, <1>7, <1>8, <1>9, <1>10, <1>11, <1>12, <1>13, <1>14, <1>15, <1>16, <1>17, <1>18 DEF Next, Step

\* IInv holds in every reachable state.
THEOREM InductiveInvariant == Spec => []IInv
<1>1. IInv /\ [Next]_vars => IInv'
  BY NextIInv
<1> QED
  BY InitIInv, <1>1, PTL DEF Spec

\* Two calls of acquireAtomicFileLock never hold a lease on the same path at once,
\* and the lock file of a lease that is not closed stays in place.
THEOREM LockExcludes == Spec => []MutualExclusion
<1>1. IInv => MutualExclusion
  BY DEF IInv, CreatorOwnsFile, MutualExclusion
<1> QED
  BY <1>1, InductiveInvariant, PTL

\* recoverLocalAtomicFileLock removes only lock files whose owner is a dead
\* process of the same host and boot.
THEOREM RecoveryIsSafe == Spec => RecoversOnlyDeadLocal
<1>1. IInv => \A c \in Clients :
                ~Exposed /\ pc[c] = "claim" /\ pc'[c] = "create" /\ owner # Nobody
                 => Host(owner) = Host(c) /\ proc[ProcOf[owner]] = "dead"
  BY DEF IInv, SeenStays, ClaimsDead, Exposed, TypeOK
<1> QED
  BY <1>1, InductiveInvariant, PTL DEF RecoversOnlyDeadLocal

\* The lock files implement ExclusiveLock: a client enters the critical section
\* when its acquire call returns, and then nobody else is inside.
THEOREM Refinement == Spec => ImplementsExclusiveLock
<1>1. Init => Lock!ExInit
  BY DEF Init, Lock!ExInit, Holders, Holding
<1>2. ASSUME IInv, IInv', [Next]_vars PROVE [Lock!ExNext]_Holders
  <2>1. CASE Exposed'
    BY <2>1 DEF Holders, Lock!ExNext, Lock!ExRelease
  <2>2. CASE ~Exposed'
    <3>0. ~Exposed
      BY <1>2, <2>2, ExposedStays DEF IInv
    <3>1. ASSUME NEW d \in Clients, pc'[d] \in Holding, pc[d] \notin Holding
          PROVE  pc[d] = "sync"
      <4>1. ASSUME NEW c \in Clients,
                   Step(c) \/ PersistFails(c) \/ GuardFails(c) \/ Cancel(c)
            PROVE  pc[d] = "sync"
        BY <1>2, <3>1, <4>1 DEF IInv, TypeOK, Step, Call, Create, WriteBody, SyncBody,
           PersistFails, RemoveUnpersisted, EnterGuard, ReadOwner, Judge, Claim, Close,
           ReadOwn, Release, GuardFails, Cancel, NotRecovered, Goto, At, Holding
      <4>2. ASSUME NEW p \in Procs, StartProcess(p) \/ Crash(p) PROVE pc[d] = "sync"
        BY <1>2, <3>1, <4>2 DEF StartProcess, Crash, Holding
      <4> QED
        BY <1>2, <3>1, <4>1, <4>2 DEF Next, vars
    <3>2. ASSUME NEW d \in Holders', d \notin Holders PROVE Lock!ExAcquire(d)
      <4>0. d \in Clients /\ pc'[d] \in Holding /\ pc[d] = "sync"
        BY <2>2, <3>0, <3>1, <3>2 DEF Holders
      <4>1. owner = d
        BY <1>2, <3>0, <4>0 DEF IInv, CreatorOwnsFile
      <4>2. Holders = {}
        BY <1>2, <3>0, <3>2, <4>1 DEF IInv, CreatorOwnsFile, Holders
      <4>3. Holders' = {d}
        BY <1>2, <2>2, <3>2 DEF IInv, CreatorOwnsFile, Holders
      <4> QED
        BY <4>2, <4>3 DEF Lock!ExAcquire
    <3>3. CASE Holders' \subseteq Holders
      BY <3>3 DEF Lock!ExNext, Lock!ExRelease
    <3> QED
      BY <3>0, <2>2, <3>2, <3>3 DEF Lock!ExNext, Holders
  <2> QED
    BY <2>1, <2>2
<1> QED
  BY <1>1, <1>2, InductiveInvariant, PTL DEF Spec, ImplementsExclusiveLock, Lock!ExSpec
============================================================================
