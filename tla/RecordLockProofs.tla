-------------------------- MODULE RecordLockProofs --------------------------
(***************************************************************************)
(* RecordLock for every set of clients, processes and lock files and every *)
(* way of sharing local locks: exclusion holds when the file system        *)
(* enforces record locks, and for leases also when it does not, because    *)
(* the self-test then refuses them.                                        *)
(***************************************************************************)
EXTENDS RecordLock, TLAPS

\* The invariant holds initially.
LEMMA InitIInv == Init => IInv
BY RecordLockAssumption DEF Init, IInv, TypeOK, LocalHeld, RecordHeld, RecordExcludes,
   FailsClosed, Labels

\* Every step preserves the invariant.
LEMMA NextIInv == IInv /\ [Next]_vars => IInv'
<1> SUFFICES ASSUME IInv, [Next]_vars PROVE IInv'
  OBVIOUS
<1> USE RecordLockAssumption DEF IInv, TypeOK, LocalHeld, RecordHeld, RecordExcludes,
        FailsClosed, Labels, LocalAt, Goto
<1>1. ASSUME NEW c \in Clients, Call(c) PROVE IInv'
  BY <1>1 DEF Call
<1>2. ASSUME NEW c \in Clients, TakeLocal(c) PROVE IInv'
  BY <1>2 DEF TakeLocal
<1>3. ASSUME NEW c \in Clients, LocalBusy(c) PROVE IInv'
  BY <1>3 DEF LocalBusy
<1>4. ASSUME NEW c \in Clients, Open(c) PROVE IInv'
  BY <1>4 DEF Open, Probes
<1>5. ASSUME NEW c \in Clients, OpenFails(c) PROVE IInv'
  BY <1>5 DEF OpenFails, Probes
<1>6. ASSUME NEW c \in Clients, SetLk(c) PROVE IInv'
  BY <1>6 DEF SetLk, Granted
<1>7. ASSUME NEW c \in Clients, GiveUp(c) PROVE IInv'
  <2>1. \A d \in Clients : ProcOf[d] = ProcOf[c] /\ KeyOf[d] = KeyOf[c] => pc[d] # "held"
    BY <1>7 DEF GiveUp
  <2>2. RecordHeld'
    BY <1>7, <2>1 DEF GiveUp
  <2>3. RecordExcludes'
    BY <1>7 DEF GiveUp
  <2> QED
    BY <1>7, <2>2, <2>3 DEF GiveUp
<1>8. ASSUME NEW c \in Clients, Unlock(c) PROVE IInv'
  <2>1. \A d \in Clients \ {c} :
          ProcOf[d] = ProcOf[c] /\ KeyOf[d] = KeyOf[c] => pc[d] # "held"
    BY <1>8 DEF Unlock
  <2>2. RecordHeld'
    BY <1>8, <2>1 DEF Unlock
  <2>3. RecordExcludes'
    BY <1>8 DEF Unlock
  <2> QED
    BY <1>8, <2>2, <2>3 DEF Unlock
<1>9. ASSUME NEW c \in Clients, GiveBack(c) PROVE IInv'
  BY <1>9 DEF GiveBack
<1>10. ASSUME NEW p \in Procs, Crash(p) PROVE IInv'
  BY <1>10 DEF Crash
<1>11. ASSUME UNCHANGED vars PROVE IInv'
  BY <1>11 DEF vars
<1> HIDE DEF IInv
<1> QED
  BY <1>1, <1>2, <1>3, <1>4, <1>5, <1>6, <1>7, <1>8, <1>9, <1>10, <1>11 DEF Next, Step

\* IInv holds in every reachable state.
THEOREM InductiveInvariant == Spec => []IInv
BY InitIInv, NextIInv, PTL DEF Spec

\* Two holders of one lock file are in one process, as record locks exclude
\* processes, and so they are one client, as they share a local lock.
LEMMA HoldersDiffer ==
  ASSUME Enforced \/ Leases = Clients, IInv, NEW c \in Clients, NEW d \in Clients,
         pc[c] = "held", pc[d] = "held", KeyOf[c] = KeyOf[d]
  PROVE  c = d
<1>1. Enforced
  BY RecordLockAssumption DEF IInv, FailsClosed
<1>2. ProcOf[c] = ProcOf[d]
  BY <1>1, RecordLockAssumption DEF IInv, RecordHeld, RecordExcludes
<1>3. LocalAt(c) = LocalAt(d)
  BY <1>2 DEF LocalAt
<1> QED
  BY <1>3 DEF IInv, LocalHeld

\* No two calls hold the lock of one file at once.
THEOREM LockExcludes == ASSUME Enforced \/ Leases = Clients PROVE Spec => []MutualExclusion
<1>1. IInv => MutualExclusion
  BY HoldersDiffer DEF MutualExclusion
<1> QED
  BY <1>1, InductiveInvariant, PTL

\* The record locks behind local locks implement ExclusiveLock.
THEOREM Refinement == ASSUME Enforced \/ Leases = Clients PROVE Spec => ImplementsExclusiveLock
<1>1. Init => Lock!ExInit
  BY DEF Init, Lock!ExInit, Holders
<1>2. ASSUME IInv, MutualExclusion', [Next]_vars PROVE [Lock!ExNext]_Holders
  <2> USE DEF Holders
  <2>1. ASSUME NEW c \in Clients, SetLk(c) PROVE Lock!ExAcquire(c)
    <3>1. Holders' = Holders \cup {c}
      BY <1>2, <2>1 DEF IInv, TypeOK, SetLk, Goto
    <3>2. \A d \in Clients : pc'[d] = "held" /\ KeyOf[d] = KeyOf[c] => d = c
      BY <1>2, <3>1 DEF MutualExclusion
    <3>3. \A d \in Clients : pc[d] = "held" => d # c /\ pc'[d] = "held"
      BY <1>2, <2>1 DEF IInv, TypeOK, SetLk, Goto
    <3> QED
      BY <3>1, <3>2, <3>3 DEF Lock!ExAcquire
  <2>2. ASSUME NEW c \in Clients,
               \/ Call(c) \/ TakeLocal(c) \/ Open(c) \/ Unlock(c) \/ GiveBack(c)
               \/ LocalBusy(c) \/ OpenFails(c) \/ GiveUp(c)
        PROVE  Lock!ExRelease
    BY <1>2, <2>2 DEF IInv, TypeOK, Lock!ExRelease, Call, TakeLocal, Open, Unlock, GiveBack,
       LocalBusy, OpenFails, GiveUp, Goto
  <2>3. ASSUME NEW p \in Procs, Crash(p) PROVE Lock!ExRelease
    BY <2>3 DEF Crash, Lock!ExRelease
  <2>4. CASE UNCHANGED vars
    BY <2>4 DEF vars
  <2> QED
    BY <1>2, <2>1, <2>2, <2>3, <2>4 DEF Next, Step, Lock!ExNext
<1> QED
  BY <1>1, <1>2, InductiveInvariant, LockExcludes, PTL DEF Spec, ImplementsExclusiveLock, Lock!ExSpec
=============================================================================
