----------------------------- MODULE ArchiveTier -----------------------------
(***************************************************************************)
(* The archive tiers of backend/posix/archive.go for one object of a bucket *)
(* without versioning, and the scan of internal/lifecycle/coordinator.go    *)
(* that drives them.  A transition copies the bytes to the tier, stores the *)
(* manifest attribute and truncates the file to a stub; RestoreObject puts  *)
(* a copy of the bytes back until a date; ReconcileLifecycle finishes what  *)
(* was interrupted and expires restores.  Transition, restore, PutObject    *)
(* and DeleteObject hold the object's mutation lock, ReconcileLifecycle     *)
(* does not.  Attributes are extended attributes of the file.              *)
(*                                                                         *)
(* The number of a write stands for its bytes, their hash, the ETag and the *)
(* modification time; 0 is no bytes, and a time that is not the write's.    *)
(***************************************************************************)
EXTENDS Naturals

CONSTANTS MaxWrites,   \* bound on PutObject calls
          MaxNow,      \* bound on the clock, in restore periods
          MaxCrashes,  \* bound on failed or interrupted requests and scans
          Tiers,       \* the configured storage classes, from warm to cold
          Colder,      \* the transitions Evaluate may ask for: pairs of classes
          None

Writes == 1..MaxWrites

ASSUME ArchiveAssumption == /\ {MaxWrites, MaxNow, MaxCrashes} \subseteq Nat
                            /\ Colder \subseteq (Tiers \cup {None}) \X Tiers
                            /\ \A x \in Colder : x[1] # x[2]

VARIABLES live,    \* the file at the object's path, or None
          tier,    \* storage class -> bytes at the object's archive path
          now,
          writes,
          crashes,
          lock,    \* holder of the mutation lock: "free", "client" or "scan"
          client,  \* the client request that holds the lock
          scan,    \* the coordinator's scan of the bucket
          overtaken \* history: ReconcileLifecycle has changed a file whose manifest
                    \* was no longer the one it had loaded

vars == <<live, tier, now, writes, crashes, lock, client, scan, overtaken>>

\* of: SHA256 of the archived bytes; mtime: LastModified; until: RestoredUntil, 0 if nil.
Manifests == [class : Tiers, of : 0..MaxWrites, mtime : 0..MaxWrites, until : 0..MaxNow + 1]
Files == [w : Writes, bytes : 0..MaxWrites, mtime : 0..MaxWrites, man : Manifests \cup {None}]

Tokens == [etag : Writes, size : 0..MaxWrites, mtime : 0..MaxWrites, class : Tiers \cup {None}]

ASSUME NoneAssumption == None \notin Files \cup Manifests \cup Tokens \cup Tiers

NoClient == [step |-> "idle", man |-> None, bytes |-> 0]
NoScan == [step |-> "idle", man |-> None, target |-> None, token |-> None, bytes |-> 0, mtime |-> 0]

ReconcileSteps == {"load", "size", "verify", "release", "times", "expire"}
DeleteSteps == {"delete", "unarchive"}
TransitionSteps == {"begin", "copy", "publish", "truncate", "retime", "dropPrevious"}

\* What lifecycleStateToken hashes: ETag, size, LastModified, storage class.
ClassOf(f) == IF f.man = None THEN None ELSE f.man.class
Token(f) == [etag |-> f.w, size |-> IF f.man = None THEN f.bytes ELSE f.w,
             mtime |-> f.mtime, class |-> ClassOf(f)]

TypeOK ==
  /\ live \in Files \cup {None}
  /\ tier \in [Tiers -> 0..MaxWrites]
  /\ now \in 0..MaxNow /\ writes \in 0..MaxWrites /\ crashes \in 0..MaxCrashes
  /\ lock \in {"free", "client", "scan"}
  /\ client \in [step : {"idle", "unarchive", "copy", "retime"},
                 man : Manifests \cup {None}, bytes : 0..MaxWrites]
  /\ scan \in [step : {"idle", "list"} \cup ReconcileSteps \cup TransitionSteps \cup DeleteSteps,
               man : Manifests \cup {None}, target : Tiers \cup {None},
               token : Tokens \cup {None}, bytes : 0..MaxWrites, mtime : 0..MaxWrites]

Init == /\ live = None
        /\ tier = [c \in Tiers |-> 0]
        /\ now = 0 /\ writes = 0 /\ crashes = 0
        /\ lock = "free"
        /\ client = NoClient
        /\ scan = NoScan
        /\ overtaken = FALSE

Restored(man) == man.until # 0 /\ now < man.until

----------------------------------------------------------------------------
(* Client requests *)

ClientMay == client = NoClient /\ lock = "free"

\* The new file has no manifest; the archive copy of the old one is left alone.
PutObject == /\ ClientMay /\ writes < MaxWrites
             /\ writes' = writes + 1
             /\ live' = [w |-> writes', bytes |-> writes', mtime |-> writes', man |-> None]
             /\ UNCHANGED <<tier, now, crashes, lock, client, scan>>

\* os.Remove(objpath); then removeArchivedManifest when there was a manifest.
DeleteObject == /\ ClientMay /\ live # None
                /\ live' = None
                /\ IF live.man = None
                   THEN lock' = lock /\ client' = client
                   ELSE /\ lock' = "client"
                        /\ client' = [NoClient EXCEPT !.step = "unarchive", !.man = live.man]
                /\ UNCHANGED <<tier, now, writes, crashes, scan>>

RemoveArchivedManifest == /\ client.step = "unarchive"
                          /\ tier' = [tier EXCEPT ![client.man.class] = 0]
                          /\ lock' = "free" /\ client' = NoClient
                          /\ UNCHANGED <<live, now, writes, crashes, scan>>

\* RestoreObject: the manifest is read and the archived bytes are opened.
RestoreOpen == /\ ClientMay /\ live # None /\ now < MaxNow
               /\ live.man # None
               /\ tier[live.man.class] # 0
               /\ lock' = "client"
               /\ client' = [step |-> "copy", bytes |-> tier[live.man.class],
                             man |-> [live.man EXCEPT !.until = now + 1]]
               /\ UNCHANGED <<live, tier, now, writes, crashes, scan>>

\* Mutant: the manifest is marked restored, but the copy is not renamed.
RestorePublishNothing ==
  /\ client.step = "copy"
  /\ live' = [live EXCEPT !.man = client.man, !.mtime = 0]
  /\ client' = [client EXCEPT !.step = "retime"]
  /\ UNCHANGED <<tier, now, writes, crashes, lock, scan>>

\* A temporary file gets the bytes, whose hash must match, the file's attributes
\* and the manifest, and is renamed into place.
RestorePublish ==
  /\ client.step = "copy" /\ live # None
  /\ client.bytes = client.man.of
  /\ live' = [live EXCEPT !.bytes = client.bytes, !.man = client.man, !.mtime = 0]
  /\ client' = [client EXCEPT !.step = "retime"]
  /\ UNCHANGED <<tier, now, writes, crashes, lock, scan>>

RestoreRetime == /\ client.step = "retime"
                 /\ live' = IF live = None THEN None ELSE [live EXCEPT !.mtime = client.man.mtime]
                 /\ lock' = "free" /\ client' = NoClient
                 /\ UNCHANGED <<tier, now, writes, crashes, scan>>

\* An error return (a wrong checksum among them) or the death of the gateway.
ClientFails == /\ client.step # "idle"
               /\ \/ crashes < MaxCrashes /\ crashes' = crashes + 1
                  \/ client.step = "copy" /\ client.bytes # client.man.of /\ crashes' = crashes
               /\ lock' = "free" /\ client' = NoClient
               /\ UNCHANGED <<live, tier, now, writes, scan>>

Tick == /\ now < MaxNow
        /\ now' = now + 1
        /\ UNCHANGED <<live, tier, writes, crashes, lock, client, scan>>

----------------------------------------------------------------------------
(* scanBucket: ReconcileLifecycle, then the page of candidates, Evaluate and
   ApplyLifecycleAction. *)

Step(s) == scan' = [scan EXCEPT !.step = s]
EndScan == scan' = NoScan
KeepAllButFile == UNCHANGED <<tier, now, writes, crashes, lock, client>>

StartScan == /\ scan = NoScan
             /\ Step("load")
             /\ UNCHANGED <<live, tier, now, writes, crashes, lock, client>>

\* reconcileLifecycleArchives looks for a manifest whose restore is over.
ReconcileLoad ==
  /\ scan.step = "load"
  /\ IF live = None \/ live.man = None \/ Restored(live.man)
     THEN Step("list")
     ELSE scan' = [scan EXCEPT !.man = live.man, !.step = "size"]
  /\ UNCHANGED <<live, tier, now, writes, crashes, lock, client>>

\* entry.Info(): the file at the path by now, or an error if there is none.
ReconcileSize ==
  /\ scan.step = "size"
  /\ IF live = None THEN EndScan ELSE Step(IF live.bytes = 0 THEN "times" ELSE "verify")
  /\ UNCHANGED <<live, tier, now, writes, crashes, lock, client>>

\* verifyArchivedData; an error ends the scan of the bucket.
ReconcileVerify == /\ scan.step = "verify"
                   /\ IF tier[scan.man.class] = scan.man.of THEN Step("release") ELSE EndScan
                   /\ UNCHANGED <<live, tier, now, writes, crashes, lock, client>>

\* os.Truncate(path, 0): whatever file is at the path by now.
ReconcileRelease == /\ scan.step = "release"
                    /\ IF live = None THEN EndScan /\ live' = live
                       ELSE Step("times") /\ live' = [live EXCEPT !.bytes = 0, !.mtime = 0]
                    /\ KeepAllButFile

\* os.Chtimes(path, manifest.LastModified)
ReconcileTimes ==
  /\ scan.step = "times"
  /\ IF live = None THEN EndScan /\ live' = live
     ELSE /\ Step(IF scan.man.until = 0 THEN "list" ELSE "expire")
          /\ live' = [live EXCEPT !.mtime = scan.man.mtime]
  /\ KeepAllButFile

\* Mutant: the manifest is stored as it was loaded, RestoredUntil and all.
ReconcileExpireNothing ==
  /\ scan.step = "expire"
  /\ IF live = None THEN EndScan /\ live' = live
     ELSE Step("list") /\ live' = [live EXCEPT !.man = scan.man]
  /\ KeepAllButFile

\* The manifest that was loaded is stored without RestoredUntil.
ReconcileExpire ==
  /\ scan.step = "expire"
  /\ IF live = None THEN EndScan /\ live' = live
     ELSE Step("list") /\ live' = [live EXCEPT !.man = [scan.man EXCEPT !.until = 0]]
  /\ KeepAllButFile

\* ListLifecycleCandidates and Evaluate: nothing, an expiration, or a transition
\* to a colder class.
ListAndEvaluate ==
  /\ scan.step = "list"
  /\ \/ EndScan
     \/ /\ live # None
        /\ scan' = [NoScan EXCEPT !.step = "delete", !.token = Token(live)]
     \/ /\ live # None
        /\ \E c \in Tiers : /\ <<ClassOf(live), c>> \in Colder
                            /\ scan' = [NoScan EXCEPT !.step = "begin", !.target = c, !.token = Token(live)]
  /\ UNCHANGED <<live, tier, now, writes, crashes, lock, client>>

\* ApplyLifecycleAction: DeleteObject, if the object is still the one evaluated.
ExpireCurrent ==
  /\ scan.step = "delete" /\ lock = "free"
  /\ IF live = None \/ Token(live) # scan.token
     THEN EndScan /\ UNCHANGED <<live, lock>>
     ELSE /\ live' = None
          /\ IF live.man = None
             THEN lock' = lock /\ EndScan
             ELSE lock' = "scan" /\ scan' = [scan EXCEPT !.step = "unarchive", !.man = live.man]
  /\ UNCHANGED <<tier, now, writes, crashes, client>>

ExpireArchived == /\ scan.step = "unarchive"
                  /\ tier' = [tier EXCEPT ![scan.man.class] = 0]
                  /\ lock' = "free" /\ EndScan
                  /\ UNCHANGED <<live, now, writes, crashes, client>>

(* TransitionLifecycleObjectGuarded *)

\* Under the lock, the state token must be the one evaluated.  The source is
\* the file, or the archived bytes when the object already is in a tier.
TransitionBegin ==
  /\ scan.step = "begin" /\ lock = "free"
  /\ IF /\ live # None
        /\ Token(live) = scan.token
        /\ live.man # None => tier[live.man.class] # 0
     THEN /\ lock' = "scan"
          /\ scan' = [scan EXCEPT !.step = "copy", !.man = live.man,
                        !.bytes = IF live.man = None THEN live.bytes ELSE tier[live.man.class],
                        !.mtime = IF live.man = None THEN live.mtime ELSE live.man.mtime]
     ELSE lock' = lock /\ EndScan
  /\ UNCHANGED <<live, tier, now, writes, crashes, client>>

\* copyFileToArchive and the manifest file beside it.
TransitionCopy == /\ scan.step = "copy"
                  /\ tier' = [tier EXCEPT ![scan.target] = scan.bytes]
                  /\ Step("publish")
                  /\ UNCHANGED <<live, now, writes, crashes, lock, client>>

\* The file and its token must still be the same; then storeArchiveManifest.
TransitionPublish ==
  /\ scan.step = "publish"
  /\ IF live # None /\ Token(live) = scan.token
     THEN /\ live' = [live EXCEPT !.man = [class |-> scan.target, of |-> scan.bytes,
                                           mtime |-> scan.mtime, until |-> 0]]
          /\ Step("truncate")
          /\ UNCHANGED <<tier, lock>>
     ELSE /\ tier' = [tier EXCEPT ![scan.target] = 0]
          /\ EndScan
          /\ lock' = "free"
          /\ live' = live
  /\ UNCHANGED <<now, writes, crashes, client>>

\* os.Truncate(sourcePath, 0), then os.Chtimes
TransitionTruncate == /\ scan.step = "truncate"
                      /\ live' = [live EXCEPT !.bytes = 0, !.mtime = 0]
                      /\ Step("retime")
                      /\ KeepAllButFile

TransitionRetime == /\ scan.step = "retime"
                    /\ live' = [live EXCEPT !.mtime = scan.mtime]
                    /\ Step("dropPrevious")
                    /\ KeepAllButFile

\* Mutant: the new archive path is removed instead of the previous one.
TransitionDropTarget ==
  /\ scan.step = "dropPrevious"
  /\ tier' = IF scan.man = None THEN tier ELSE [tier EXCEPT ![scan.target] = 0]
  /\ lock' = "free" /\ EndScan
  /\ UNCHANGED <<live, now, writes, crashes, client>>

\* The copy in the previous tier goes last.
TransitionDropPrevious ==
  /\ scan.step = "dropPrevious"
  /\ tier' = IF scan.man = None THEN tier ELSE [tier EXCEPT ![scan.man.class] = 0]
  /\ lock' = "free" /\ EndScan
  /\ UNCHANGED <<live, now, writes, crashes, client>>

\* The scan fails or its process dies; the next interval starts a new one.
ScanFails == /\ scan # NoScan /\ crashes < MaxCrashes
             /\ crashes' = crashes + 1
             /\ EndScan
             /\ lock' = IF lock = "scan" THEN "free" ELSE lock
             /\ UNCHANGED <<live, tier, now, writes, client>>

----------------------------------------------------------------------------
Client == \/ PutObject \/ DeleteObject \/ RemoveArchivedManifest
          \/ RestoreOpen \/ RestorePublish \/ RestoreRetime \/ ClientFails

Reconcile == \/ ReconcileLoad \/ ReconcileSize \/ ReconcileVerify \/ ReconcileRelease
             \/ ReconcileTimes \/ ReconcileExpire

Transition == \/ TransitionBegin \/ TransitionCopy \/ TransitionPublish
              \/ TransitionTruncate \/ TransitionRetime \/ TransitionDropPrevious

\* The steps of ReconcileLifecycle that change a file, when a client has put
\* another file or another manifest at the path since it loaded the manifest.
Stale == /\ scan.step \in {"release", "times", "expire"}
         /\ live # None /\ live.man # scan.man

Scan == \/ Reconcile /\ overtaken' = (overtaken \/ Stale)
        \/ /\ StartScan \/ ListAndEvaluate \/ ExpireCurrent \/ ExpireArchived \/ Transition
           /\ UNCHANGED overtaken

Next == \/ Scan
        \/ (Client \/ Tick \/ ScanFails) /\ UNCHANGED overtaken

Spec == Init /\ [][Next]_vars

\* The coordinator scans at every interval, a request that was started ends and
\* time passes.  No client need call anything.
FairSpec == /\ Spec
            /\ WF_vars(Scan) /\ WF_vars(Tick /\ UNCHANGED overtaken)
            /\ WF_vars(/\ RemoveArchivedManifest \/ RestorePublish \/ RestoreRetime \/ ClientFails
                       /\ UNCHANGED overtaken)

----------------------------------------------------------------------------
\* The bytes of the object are in its file or, whole, where its manifest points:
\* no crash of a transition, of a restore or of a reconciliation loses them, also
\* when clients run while ReconcileLifecycle does, until it changes a file whose
\* manifest it did not load.
NoBytesLost ==
  live # None /\ ~overtaken =>
    \/ live.bytes = live.w
    \/ live.man # None /\ live.man.of = live.w /\ tier[live.man.class] = live.w

\* An object that GET would serve, as it has no manifest or a current restore,
\* has its bytes in its file (under the same condition).
ServedFromFile ==
  live # None /\ (live.man = None \/ Restored(live.man)) /\ ~overtaken =>
    live.bytes = live.w

\* An interrupted transition or an expired restore is finished by some later
\* scan: the archived object becomes a stub with its old modification time.
Settled == \/ live = None \/ live.man = None
           \/ Restored(live.man)
           \/ live.bytes = 0 /\ live.mtime = live.w /\ live.man.until = 0
ArchiveSettles == []<>(Settled \/ overtaken)

(* The inductive invariant behind NoBytesLost and ServedFromFile. *)

\* An archived object's bytes are in its tier whether or not its file has them.
FileIntact ==
  live # None =>
    /\ live.bytes \in {0, live.w}
    /\ live.man = None => live.bytes = live.w
    /\ live.man # None => live.man.of = live.w /\ tier[live.man.class] = live.w
    /\ live.man # None /\ Restored(live.man) => live.bytes = live.w

LockAgrees == /\ lock = "client" <=> client.step # "idle"
              /\ lock = "scan" <=> scan.step \in (TransitionSteps \cup DeleteSteps) \ {"begin", "delete"}

\* The restore that ReconcileLifecycle found expired stays expired; the manifest
\* itself may have been replaced.
ReconcileCurrent ==
  scan.step \in ReconcileSteps \ {"load"} => scan.man # None /\ ~Restored(scan.man)

\* Between two steps of a transition nobody has changed file or archive.
TransitionCurrent ==
  /\ scan.step \in TransitionSteps => scan.target \in Tiers
  /\ scan.step = "begin" => scan.token # None /\ scan.token.class # scan.target
  /\ scan.step \in {"copy", "publish"} =>
       live # None /\ live.man = scan.man /\ scan.bytes = live.w /\ scan.target # ClassOf(live)
  /\ scan.step = "publish" => tier[scan.target] = live.w
  /\ scan.step \in {"truncate", "retime", "dropPrevious"} =>
       /\ live # None
       /\ live.man # None
       /\ live.man.class = scan.target
       /\ live.man.until = 0
  /\ scan.step \in {"truncate", "retime", "dropPrevious"} /\ scan.man # None => scan.man.class # scan.target
  /\ scan.step = "unarchive" => live = None /\ scan.man # None

\* Between two steps of a restore neither has anybody.
RestoreCurrent ==
  /\ client.step = "unarchive" => live = None /\ client.man # None
  /\ client.step = "copy" =>
       /\ live # None /\ live.man # None /\ client.man # None
       /\ client.man.class = live.man.class /\ client.man.of = live.w
  /\ client.step = "retime" => client.man # None

Intact == /\ TypeOK /\ FileIntact /\ LockAgrees
          /\ ReconcileCurrent /\ TransitionCurrent /\ RestoreCurrent

IInv == overtaken \in BOOLEAN /\ (~overtaken => Intact)
=============================================================================
