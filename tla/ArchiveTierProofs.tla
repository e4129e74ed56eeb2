-------------------------- MODULE ArchiveTierProofs --------------------------
(* ArchiveTier for every number of writes, periods, crashes and tiers, until  *)
(* ReconcileLifecycle changes a file whose manifest it did not load.          *)
EXTENDS ArchiveTier, TLAPS

\* lifecycleStateToken of any file is a token.
LEMMA TokenType == ASSUME NEW f \in Files PROVE Token(f) \in Tokens
  BY DEF Token, Tokens, Files, ClassOf, Manifests, Writes

\* The initial state, without the object, satisfies the invariant.
LEMMA InitIInv == Init => IInv
<1> SUFFICES ASSUME Init PROVE IInv
  OBVIOUS
<1>1. Intact
  BY ArchiveAssumption, NoneAssumption
  DEF Init, Intact, TypeOK, FileIntact, LockAgrees, ReconcileCurrent, TransitionCurrent,
      RestoreCurrent, NoClient, NoScan, ReconcileSteps, TransitionSteps, DeleteSteps
<1>2. overtaken \in BOOLEAN
  BY Zenon DEF Init
<1> QED BY <1>1, <1>2 DEF IInv

\* scanBucket may stop anywhere, if it gives the mutation lock back.
LEMMA EndScanKeeps ==
  ASSUME Intact, EndScan, UNCHANGED <<live, tier, now, writes, client>>,
         crashes' \in 0..MaxCrashes, lock' = IF lock = "scan" THEN "free" ELSE lock
  PROVE  Intact'
  BY ArchiveAssumption, NoneAssumption
  DEF EndScan, NoScan, Intact, TypeOK, FileIntact, LockAgrees, ReconcileCurrent, TransitionCurrent, RestoreCurrent,
        ReconcileSteps, TransitionSteps, DeleteSteps, Restored, Files, Manifests, Writes

\* Every step of a request, of the clock and of a scan preserves the invariant,
\* if it is not one that ReconcileLifecycle takes on a file it did not load.
LEMMA StepIntact == ASSUME ~overtaken, ~overtaken', Intact, [Next]_vars PROVE Intact'
<1> USE ArchiveAssumption, NoneAssumption
    DEF Intact, TypeOK, FileIntact, LockAgrees, ReconcileCurrent, TransitionCurrent, RestoreCurrent,
        ReconcileSteps, TransitionSteps, DeleteSteps, Restored, Files, Manifests, Writes
<1>1. CASE PutObject
  BY <1>1 DEF PutObject, ClientMay, NoClient
<1>2. CASE DeleteObject
  <2>1. CASE live.man = None
    BY <1>2, <2>1 DEF DeleteObject, ClientMay, NoClient
  <2>2. CASE live.man # None
    <3>1. client' = [NoClient EXCEPT !.step = "unarchive", !.man = live.man]
      BY <1>2, <2>2 DEF DeleteObject
    <3>2. client' = [step |-> "unarchive", man |-> live.man, bytes |-> 0]
      BY <3>1 DEF NoClient
    <3>3. live' = None /\ lock' = "client" /\ lock = "free"
      BY <1>2, <2>2 DEF DeleteObject, ClientMay
    <3>4. live.man \in Manifests /\ scan' = scan /\ tier' = tier /\ now' = now
          /\ writes' = writes /\ crashes' = crashes
      BY <1>2, <2>2 DEF DeleteObject
    <3> QED BY <3>2, <3>3, <3>4
  <2> QED BY <2>1, <2>2
<1>3. CASE RemoveArchivedManifest
  BY <1>3 DEF RemoveArchivedManifest, NoClient
<1>4. CASE RestoreOpen
  BY <1>4 DEF RestoreOpen, ClientMay, NoClient
<1>5. CASE RestorePublish
  <2>1. live \in Files /\ client.man \in Manifests /\ client.bytes = live.w
    BY <1>5 DEF RestorePublish
  <2>2. live' = [w |-> live.w, bytes |-> client.bytes, mtime |-> 0, man |-> client.man]
    BY <1>5, <2>1 DEF RestorePublish
  <2>3. client' = [step |-> "retime", man |-> client.man, bytes |-> client.bytes]
    BY <1>5 DEF RestorePublish
  <2>4. UNCHANGED <<tier, now, writes, crashes, lock, scan>> /\ client.step = "copy"
    BY <1>5 DEF RestorePublish
  <2> QED BY <2>1, <2>2, <2>3, <2>4
<1>6. CASE RestoreRetime
  BY <1>6 DEF RestoreRetime, NoClient
<1>7. CASE ClientFails
  BY <1>7 DEF ClientFails, NoClient
<1>8. CASE Tick
  BY <1>8 DEF Tick
<1>9. CASE StartScan
  BY <1>9 DEF StartScan, NoScan, NoClient, Step
<1>10. CASE ReconcileLoad
  <2>1. UNCHANGED <<live, tier, now, writes, crashes, lock, client>> /\ scan.step = "load"
    BY <1>10 DEF ReconcileLoad
  <2>2. CASE live = None \/ live.man = None \/ Restored(live.man)
    <3>1. scan' = [scan EXCEPT !.step = "list"]
      BY <1>10, <2>2 DEF ReconcileLoad, Step
    <3> QED BY <2>1, <3>1
  <2>3. CASE live # None /\ live.man # None /\ ~Restored(live.man)
    <3>1. scan' = [scan EXCEPT !.man = live.man, !.step = "size"]
      BY <1>10, <2>3 DEF ReconcileLoad
    <3>2. scan' = [step |-> "size", man |-> live.man, target |-> scan.target, token |-> scan.token,
                   bytes |-> scan.bytes, mtime |-> scan.mtime]
      BY <3>1
    <3>3. live.man \in Manifests
      BY <2>3
    <3> QED BY <2>1, <2>3, <3>2, <3>3
  <2> QED BY <2>2, <2>3
<1>26. CASE ReconcileSize
  <2>1. CASE EndScan
    BY <1>26, <2>1, EndScanKeeps DEF ReconcileSize
  <2>2. CASE ~EndScan
    <3>1. PICK s \in {"times", "verify"} : scan' = [scan EXCEPT !.step = s]
      BY <1>26, <2>2 DEF ReconcileSize, Step
    <3> QED BY <1>26, <3>1 DEF ReconcileSize
  <2> QED BY <2>1, <2>2
<1>11. CASE ReconcileVerify
  <2>1. CASE EndScan
    BY <1>11, <2>1, EndScanKeeps DEF ReconcileVerify
  <2>2. CASE ~EndScan
    BY <1>11, <2>2 DEF ReconcileVerify, Step
  <2> QED BY <2>1, <2>2
<1>12. CASE ReconcileRelease /\ ~Stale
  <2>1. CASE live = None
    BY <1>12, <2>1, EndScanKeeps DEF ReconcileRelease, KeepAllButFile
  <2>2. CASE live # None
    <3>1. live \in Files /\ live.man \in Manifests /\ scan.man = live.man
      BY <1>12, <2>2 DEF ReconcileRelease, Stale
    <3>2. live' = [live EXCEPT !.bytes = 0, !.mtime = 0]
      BY <1>12, <2>2 DEF ReconcileRelease
    <3>3. live' = [w |-> live.w, bytes |-> 0, mtime |-> 0, man |-> live.man]
      BY <3>1, <3>2
    <3>4. scan' = [scan EXCEPT !.step = "times"] /\ scan.step = "release" /\ ~Restored(live.man)
      BY <1>12, <2>2, <3>1 DEF ReconcileRelease, Step
    <3>5. UNCHANGED <<tier, now, writes, crashes, lock, client>>
      BY <1>12 DEF ReconcileRelease, KeepAllButFile
    <3> QED BY <3>1, <3>3, <3>4, <3>5
  <2> QED BY <2>1, <2>2
<1>13. CASE ReconcileTimes
  <2>1. CASE live = None
    BY <1>13, <2>1, EndScanKeeps DEF ReconcileTimes, KeepAllButFile
  <2>2. CASE live # None
    <3>1. live \in Files /\ scan.man \in Manifests /\ scan.step = "times"
      BY <1>13, <2>2 DEF ReconcileTimes
    <3>2. live' = [w |-> live.w, bytes |-> live.bytes, mtime |-> scan.man.mtime, man |-> live.man]
      BY <1>13, <2>2, <3>1 DEF ReconcileTimes
    <3>3. PICK s \in {"list", "expire"} : scan' = [scan EXCEPT !.step = s]
      BY <1>13, <2>2 DEF ReconcileTimes, Step
    <3>4. UNCHANGED <<tier, now, writes, crashes, lock, client>>
      BY <1>13 DEF ReconcileTimes, KeepAllButFile
    <3> QED BY <3>1, <3>2, <3>3, <3>4
  <2> QED BY <2>1, <2>2
<1>14. CASE ReconcileExpire /\ ~Stale
  <2>1. CASE live = None
    BY <1>14, <2>1, EndScanKeeps DEF ReconcileExpire, KeepAllButFile
  <2>2. CASE live # None
    <3>1. live \in Files /\ live.man \in Manifests /\ scan.man = live.man /\ scan.step = "expire"
      BY <1>14, <2>2 DEF ReconcileExpire, Stale
    <3> DEFINE n == [class |-> live.man.class, of |-> live.man.of, mtime |-> live.man.mtime, until |-> 0]
    <3>2. live' = [w |-> live.w, bytes |-> live.bytes, mtime |-> live.mtime, man |-> n]
      BY <1>14, <2>2, <3>1 DEF ReconcileExpire
    <3>3. scan' = [scan EXCEPT !.step = "list"]
      BY <1>14, <2>2 DEF ReconcileExpire, Step
    <3>4. UNCHANGED <<tier, now, writes, crashes, lock, client>>
      BY <1>14 DEF ReconcileExpire, KeepAllButFile
    <3> QED BY <3>1, <3>2, <3>3, <3>4
  <2> QED BY <2>1, <2>2
<1>15. CASE ListAndEvaluate
  <2>1. UNCHANGED <<live, tier, now, writes, crashes, lock, client>> /\ scan.step = "list"
    BY <1>15 DEF ListAndEvaluate
  <2>2. lock # "scan"
    BY <2>1
  <2>3. CASE EndScan
    BY <2>1, <2>2, <2>3, EndScanKeeps
  <2>4. CASE live # None /\ scan' = [NoScan EXCEPT !.step = "delete", !.token = Token(live)]
    <3>1. scan' = [step |-> "delete", man |-> None, target |-> None, token |-> Token(live),
                   bytes |-> 0, mtime |-> 0]
      BY <2>4 DEF NoScan
    <3> QED BY <2>1, <2>2, <2>4, <3>1, TokenType
  <2>5. ASSUME live # None, NEW c \in Tiers, <<ClassOf(live), c>> \in Colder,
               scan' = [NoScan EXCEPT !.step = "begin", !.target = c, !.token = Token(live)]
        PROVE  Intact'
    <3>1. scan' = [step |-> "begin", man |-> None, target |-> c, token |-> Token(live),
                   bytes |-> 0, mtime |-> 0]
      BY <2>5 DEF NoScan
    <3>2. Token(live).class = ClassOf(live) /\ ClassOf(live) # c
      BY <2>5 DEF Token
    <3> QED BY <2>1, <2>2, <2>5, <3>1, <3>2, TokenType
  <2> QED BY <1>15, <2>3, <2>4, <2>5 DEF ListAndEvaluate
<1>16. CASE ExpireCurrent
  <2>1. UNCHANGED <<tier, now, writes, crashes, client>> /\ scan.step = "delete" /\ lock = "free"
    BY <1>16 DEF ExpireCurrent
  <2>2. CASE live = None \/ Token(live) # scan.token
    BY <1>16, <2>1, <2>2, EndScanKeeps DEF ExpireCurrent
  <2>3. CASE live # None /\ Token(live) = scan.token
    <3>1. live' = None
      BY <1>16, <2>3 DEF ExpireCurrent
    <3>2. CASE live.man = None
      BY <1>16, <2>1, <2>3, <3>1, <3>2 DEF ExpireCurrent, EndScan, NoScan
    <3>3. CASE live.man # None
      <4>1. lock' = "scan" /\ scan' = [scan EXCEPT !.step = "unarchive", !.man = live.man]
        BY <1>16, <2>3, <3>3 DEF ExpireCurrent
      <4>2. scan' = [step |-> "unarchive", man |-> live.man, target |-> scan.target,
                     token |-> scan.token, bytes |-> scan.bytes, mtime |-> scan.mtime]
        BY <4>1
      <4> QED BY <2>1, <2>3, <3>1, <3>3, <4>1, <4>2
    <3> QED BY <3>2, <3>3
  <2> QED BY <2>2, <2>3
<1>17. CASE ExpireArchived
  BY <1>17 DEF ExpireArchived, EndScan, NoScan
<1>18. CASE TransitionBegin
  <2>1. UNCHANGED <<live, tier, now, writes, crashes, client>> /\ scan.step = "begin" /\ lock = "free"
    BY <1>18 DEF TransitionBegin
  <2>2. CASE EndScan /\ lock' = lock
    BY <2>1, <2>2, EndScanKeeps
  <2>3. CASE ~(EndScan /\ lock' = lock)
    <3>1. lock' = "scan" /\ live \in Files /\ Token(live) = scan.token
      BY <1>18, <2>3 DEF TransitionBegin
    <3> DEFINE b == IF live.man = None THEN live.bytes ELSE tier[live.man.class]
               t == IF live.man = None THEN live.mtime ELSE live.man.mtime
    <3>2. scan' = [scan EXCEPT !.step = "copy", !.man = live.man, !.bytes = b, !.mtime = t]
      BY <1>18, <2>3 DEF TransitionBegin
    <3>3. b = live.w /\ b \in 0..MaxWrites /\ t \in 0..MaxWrites
      BY <3>1
    <3>4. scan.target # ClassOf(live)
      BY <2>1, <3>1 DEF Token
    <3> HIDE DEF b, t
    <3>5. scan' = [step |-> "copy", man |-> live.man, target |-> scan.target,
                   token |-> scan.token, bytes |-> b, mtime |-> t]
      BY <3>2
    <3>6. live.man \in Manifests \cup {None} /\ live # None
      BY <3>1
    <3> QED BY <2>1, <3>1, <3>5, <3>3, <3>4, <3>6
  <2> QED BY <2>2, <2>3
<1>19. CASE TransitionCopy
  BY <1>19 DEF TransitionCopy, Step, ClassOf
<1>20. CASE TransitionPublish
  BY <1>20 DEF TransitionPublish, Step, EndScan, NoScan, Token, ClassOf
<1>21. CASE TransitionTruncate
  <2>1. live \in Files /\ live.man \in Manifests /\ live.man.until = 0 /\ scan.step = "truncate"
    BY <1>21 DEF TransitionTruncate
  <2>2. live' = [w |-> live.w, bytes |-> 0, mtime |-> 0, man |-> live.man]
    BY <1>21, <2>1 DEF TransitionTruncate
  <2>3. scan' = [scan EXCEPT !.step = "retime"] /\ UNCHANGED <<tier, now, writes, crashes, lock, client>>
    BY <1>21 DEF TransitionTruncate, Step, KeepAllButFile
  <2> QED BY <2>1, <2>2, <2>3
<1>22. CASE TransitionRetime
  BY <1>22 DEF TransitionRetime, Step, KeepAllButFile
<1>23. CASE TransitionDropPrevious
  BY <1>23 DEF TransitionDropPrevious, EndScan, NoScan
<1>24. CASE ScanFails
  BY <1>24, EndScanKeeps DEF ScanFails
<1>25. CASE UNCHANGED vars
  BY <1>25 DEF vars
<1> QED BY <1>1, <1>2, <1>3, <1>4, <1>5, <1>6, <1>7, <1>8, <1>9, <1>10, <1>11, <1>12, <1>13,
           <1>14, <1>15, <1>16, <1>17, <1>18, <1>19, <1>20, <1>21, <1>22, <1>23, <1>24, <1>25, <1>26
        DEF Next, Client, Scan, Reconcile, Transition

\* The inductive invariant: what every step of a transition, a restore or a
\* reconciliation was told by the step before it is still true.
THEOREM Invariance == Spec => []IInv
  <1>1. IInv /\ [Next]_vars => IInv'
    <2> SUFFICES ASSUME IInv, [Next]_vars PROVE IInv'
      OBVIOUS
    <2>1. overtaken' \in BOOLEAN /\ (overtaken => overtaken')
      BY DEF IInv, Next, Scan, vars
    <2>2. ASSUME ~overtaken' PROVE Intact'
      BY <2>1, <2>2, StepIntact DEF IInv
    <2> QED BY <2>1, <2>2 DEF IInv
  <1> QED BY InitIInv, <1>1, PTL DEF Spec

\* Transitions, restores and reconciliations that crash at any of their steps
\* leave the object's bytes in its file or whole in the tier its manifest names.
THEOREM BytesAreKept == Spec => []NoBytesLost
  <1>1. IInv => NoBytesLost
    BY NoneAssumption DEF IInv, Intact, FileIntact, NoBytesLost
  <1> QED BY Invariance, <1>1, PTL

\* What GET serves from the file is the object, never the stub of an archived one.
THEOREM ServedIsTheObject == Spec => []ServedFromFile
  <1>1. IInv => ServedFromFile
    BY DEF IInv, Intact, FileIntact, ServedFromFile
  <1> QED BY Invariance, <1>1, PTL
==============================================================================
