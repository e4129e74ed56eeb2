--------------------------- MODULE ObjectVersions ---------------------------
(***************************************************************************)
(* The versions of one object key in backend/posix/posix.go: the live file *)
(* in the bucket, the older versions in the versioning directory, and the  *)
(* requests that move files between them: PutObject, the end of            *)
(* CompleteMultipartUpload, DeleteObject with and without a version ID,    *)
(* PutBucketVersioning, and GetObject, which takes no lock.                *)
(*                                                                         *)
(* Writers of a key exclude each other (ExclusiveLock), so at most one is  *)
(* under way; every file-system effect of it is a step, and between two    *)
(* steps it may fail or its process may die: the files stay as they are.   *)
(* Attributes are extended attributes: a file linked into place brings its *)
(* own, and attributes set on a path change the file that is there.        *)
(*                                                                         *)
(* Null stands for a file without version-id attribute and for the name    *)
(* "null" in the versioning directory; other version IDs are ULIDs, which  *)
(* sort by creation, so the number of the write serves as the ID it makes. *)
(***************************************************************************)
EXTENDS Naturals, FiniteSets, FiniteSetsExt

CONSTANTS MaxWrites,    \* bound on the writes of a behaviour
          InitStatus,   \* versioning status of the bucket at first
          Statuses,     \* statuses PutBucketVersioning may set
          Requests,     \* status -> the requests that are made in it
          MaxFailures,  \* bound on the writers that fail or die between two steps
          NoFile

Null == 0
Stamps == 1..MaxWrites
Vids == {Null} \cup Stamps

AllStatuses == {"Unset", "Enabled", "Suspended"}
Writers == {"put", "complete", "delete", "deleteVersion"}

ASSUME VersionsAssumption ==
  /\ {MaxWrites, MaxFailures} \subseteq Nat
  /\ InitStatus \in AllStatuses
  /\ Statuses \subseteq {"Enabled", "Suspended"}
  /\ Requests \in [AllStatuses -> SUBSET (Writers \cup {"get"})]

\* at: the write whose bytes these are; etag: the write whose ETag attribute is
\* set, 0 when there is none; full: FALSE once the file is truncated.
File == [vid : Vids, at : Vids, etag : Vids, marker : BOOLEAN, full : BOOLEAN]

\* A path without a file is told apart from every file.
ASSUME NoFileAssumption == NoFile \notin File

VARIABLES status,   \* the bucket's versioning attribute
          live,     \* the file at bucket/key
          vdir,     \* version ID -> file in the versioning directory
          writes,   \* number of writes so far
          op,       \* the writer that holds the object's mutation lock
          failures, \* the writers that have failed half way
          emptied,  \* history: one was a delete that had truncated the live file
          contract, \* the versions S3 promises: set of [vid, at, marker]
          get       \* one GetObject

vars == <<status, live, vdir, writes, op, failures, emptied, contract, get>>

Idle == [kind |-> "none", step |-> "idle", st |-> "Unset", v |-> Null]
Steps == {"idle", "preserve", "dropNull", "dropId", "link", "truncate", "clear",
          "mark", "stamp", "remove", "promote", "attrs", "unlink"}
NoGet == [pc |-> "idle", want |-> Null, inVdir |-> FALSE, etag |-> 0,
          body |-> 0, full |-> FALSE, onLive |-> FALSE]

\* The versions S3 may promise, and the states of a writer and of a GET.
Promises == [vid : Vids, at : Vids, marker : BOOLEAN]
OpRecords == [kind : Writers \cup {"none"}, step : Steps, st : AllStatuses, v : Vids]
GetRecords == [pc : {"idle", "stat", "etag", "open", "body", "done", "error"}, want : Vids,
               inVdir : BOOLEAN, etag : Vids, body : Vids, full : BOOLEAN, onLive : BOOLEAN]

TypeOK ==
  /\ status \in AllStatuses
  /\ live \in File \cup {NoFile}
  /\ vdir \in [Vids -> File \cup {NoFile}]
  /\ writes \in 0..MaxWrites
  /\ op \in OpRecords
  /\ failures \in 0..MaxFailures /\ emptied \in BOOLEAN
  /\ contract \in SUBSET Promises
  /\ get \in GetRecords

Init == /\ status = InitStatus
        /\ live = NoFile
        /\ vdir = [v \in Vids |-> NoFile]
        /\ writes = 0
        /\ op = Idle
        /\ failures = 0 /\ emptied = FALSE
        /\ contract = {}
        /\ get = NoGet

----------------------------------------------------------------------------
At(kinds, step) == op.kind \in kinds /\ op.step = step
Goto(step) == op' = [op EXCEPT !.step = step]
Finish == op' = Idle

NewVid == IF op.st = "Enabled" THEN writes + 1 ELSE Null

\* What S3 promises of a write: a new version, which replaces the null version
\* unless versioning is enabled.
Promise(marker) ==
  {x \in contract : x.vid # NewVid} \cup {[vid |-> NewVid, at |-> writes + 1, marker |-> marker]}

\* An open descriptor keeps the inode it was opened on when the path changes.
Unlinked(g) == [g EXCEPT !.onLive = FALSE]

\* Mutant: the entry is linked before the bytes are copied.
CreateObjVersionEmpty == vdir' = [vdir EXCEPT ![live.vid] = [live EXCEPT !.full = FALSE]]

\* createObjVersion: data and attributes are copied to a temporary file, which
\* is linked to the name of the live file's version ID.
CreateObjVersion == vdir' = [vdir EXCEPT ![live.vid] = live]

----------------------------------------------------------------------------
(* PutBucketVersioning takes no object lock: a request uses what it has read. *)
PutBucketVersioning(s) == /\ s # status
                          /\ status' = s
                          /\ UNCHANGED <<live, vdir, writes, op, failures, emptied, contract, get>>

(* PutObjectWithPostFunc, and CompleteMultipartUpload from os.Stat(objname) on *)
StartWrite(kind) == /\ kind \in Requests[status] /\ op = Idle /\ writes < MaxWrites
                    /\ op' = [kind |-> kind, step |-> "preserve", st |-> status, v |-> Null]
                    /\ UNCHANGED <<status, live, vdir, writes, failures, emptied, contract, get>>

\* Mutant: the version is kept only while versioning is enabled.
PutPreserveEnabledOnly == /\ At({"put"}, "preserve")
                          /\ IF live # NoFile /\ op.st = "Enabled"
                             THEN CreateObjVersion ELSE vdir' = vdir
                          /\ Goto("dropNull")
                          /\ UNCHANGED <<status, live, writes, failures, emptied, contract, get>>

\* The live file becomes a version, except a null version that a suspended
\* bucket is about to replace.
PutPreserve == /\ At({"put"}, "preserve")
               /\ IF /\ live # NoFile /\ op.st # "Unset"
                     /\ ~(op.st = "Suspended" /\ live.vid = Null)
                  THEN CreateObjVersion ELSE vdir' = vdir
               /\ Goto("dropNull")
               /\ UNCHANGED <<status, live, writes, failures, emptied, contract, get>>

\* deleteNullVersionIdObject
PutDropNull == /\ At({"put"}, "dropNull")
               /\ vdir' = IF op.st = "Suspended" THEN [vdir EXCEPT ![Null] = NoFile] ELSE vdir
               /\ Goto("dropId")
               /\ UNCHANGED <<status, live, writes, failures, emptied, contract, get>>

\* DeleteAttribute(versionIdKey) on the path: the old live file loses its ID.
PutDropId == /\ At({"put"}, "dropId")
             /\ live' = IF op.st = "Suspended" /\ live # NoFile
                        THEN [live EXCEPT !.vid = Null] ELSE live
             /\ Goto("link")
             /\ UNCHANGED <<status, vdir, writes, failures, emptied, contract, get>>

\* CompleteMultipartUpload looks at vEnabled only.
CompletePreserve == /\ At({"complete"}, "preserve")
                    /\ IF live # NoFile /\ op.st = "Enabled"
                       THEN CreateObjVersion ELSE vdir' = vdir
                    /\ Goto("link")
                    /\ UNCHANGED <<status, live, writes, failures, emptied, contract, get>>

\* f.link(): the temporary file with all its attributes replaces the live file.
Link == /\ At({"put", "complete"}, "link")
        /\ live' = [vid |-> NewVid, at |-> writes + 1, etag |-> writes + 1,
                    marker |-> FALSE, full |-> TRUE]
        /\ writes' = writes + 1
        /\ contract' = Promise(FALSE)
        /\ get' = Unlinked(get)
        /\ Finish
        /\ UNCHANGED <<status, vdir, failures, emptied>>

----------------------------------------------------------------------------
(* DeleteObject without a version ID, or with any in a bucket that was never
   versioned: there the ID is ignored. *)
StartDelete ==
  /\ "delete" \in Requests[status] /\ op = Idle /\ live # NoFile /\ writes < MaxWrites
  /\ op' = [kind |-> "delete", step |-> IF status = "Unset" THEN "remove" ELSE "preserve",
            st |-> status, v |-> Null]
  /\ UNCHANGED <<status, live, vdir, writes, failures, emptied, contract, get>>

DeletePreserve == /\ At({"delete"}, "preserve")
                  /\ IF op.st = "Enabled" \/ live.vid # Null
                     THEN CreateObjVersion ELSE vdir' = vdir
                  /\ Goto("truncate")
                  /\ UNCHANGED <<status, live, writes, failures, emptied, contract, get>>

\* os.Truncate(objpath, 0) empties the inode, whoever has it open.
DeleteTruncate == /\ At({"delete"}, "truncate")
                  /\ live' = [live EXCEPT !.full = FALSE]
                  /\ get' = IF get.onLive THEN [get EXCEPT !.full = FALSE] ELSE get
                  /\ Goto("clear")
                  /\ UNCHANGED <<status, vdir, writes, failures, emptied, contract>>

\* clearObjectAttributes, its removals in one step: with the version ID still there
\* a failure between two of them is one of this step, without it one of the next.
DeleteClear == /\ At({"delete"}, "clear")
               /\ live' = [live EXCEPT !.vid = Null, !.etag = 0, !.marker = FALSE]
               /\ Goto("mark")
               /\ UNCHANGED <<status, vdir, writes, failures, emptied, contract, get>>

DeleteMark == /\ At({"delete"}, "mark")
              /\ live' = [live EXCEPT !.marker = TRUE]
              /\ Goto("stamp")
              /\ UNCHANGED <<status, vdir, writes, failures, emptied, contract, get>>

\* The marker gets a fresh version ID, or none in a suspended bucket.
DeleteStamp == /\ At({"delete"}, "stamp")
               /\ live' = [live EXCEPT !.vid = NewVid, !.at = writes + 1]
               /\ writes' = writes + 1
               /\ contract' = Promise(TRUE)
               /\ Finish
               /\ UNCHANGED <<status, vdir, failures, emptied, get>>

\* The bucket was never versioned: os.Remove(objpath).
DeleteRemove == /\ At({"delete"}, "remove")
                /\ live' = NoFile
                /\ contract' = {x \in contract : x.vid # Null}
                /\ get' = Unlinked(get)
                /\ Finish
                /\ UNCHANGED <<status, vdir, writes, failures, emptied>>

----------------------------------------------------------------------------
(* DeleteObject with version ID v, which the key has or had.  When there is no
   live file the request succeeds without looking any further. *)
Assigned == {Null} \cup {v \in Stamps : v <= writes}

StartDeleteVersion(v) ==
  /\ "deleteVersion" \in Requests[status] /\ op = Idle
  /\ v \in Assigned
  /\ live # NoFile /\ status # "Unset"
  /\ op' = [kind |-> "deleteVersion", step |-> IF live.vid = v THEN "remove" ELSE "unlink",
            st |-> status, v |-> v]
  /\ UNCHANGED <<status, live, vdir, writes, failures, emptied, contract, get>>

DropPromise(v) == contract' = {x \in contract : x.vid # v}

\* An older version: os.Remove in the versioning directory.
DeleteOldVersion == /\ At({"deleteVersion"}, "unlink")
                    /\ vdir' = [vdir EXCEPT ![op.v] = NoFile]
                    /\ DropPromise(op.v)
                    /\ Finish
                    /\ UNCHANGED <<status, live, writes, failures, emptied, get>>

Entries == {v \in Vids : vdir[v] # NoFile}

\* The current version: os.Remove(objpath), then the directory is read.
DeleteCurrent == /\ At({"deleteVersion"}, "remove")
                 /\ live' = NoFile
                 /\ DropPromise(op.v)
                 /\ get' = Unlinked(get)
                 /\ IF Entries = {} THEN Finish ELSE Goto("promote")
                 /\ UNCHANGED <<status, vdir, writes, failures, emptied>>

\* ents[len(ents)-1]: os.ReadDir sorts by name, and "null" sorts after every ULID.
Source == IF Null \in Entries THEN Null ELSE Max(Entries)

\* The bytes of the entry are linked into place, without attributes,
Promote == /\ At({"deleteVersion"}, "promote")
           /\ live' = [vid |-> Null, at |-> vdir[Source].at, etag |-> 0,
                       marker |-> FALSE, full |-> vdir[Source].full]
           /\ Goto("attrs")
           /\ UNCHANGED <<status, vdir, writes, failures, emptied, contract, get>>

\* then its attributes are copied one by one (each one that the file lacks),
Attributes == {"vid", "etag", "marker"}
PromoteAttr == /\ At({"deleteVersion"}, "attrs")
               /\ \E a \in Attributes :
                    /\ live[a] # vdir[Source][a]
                    /\ live' = [live EXCEPT ![a] = vdir[Source][a]]
               /\ UNCHANGED <<status, vdir, writes, op, failures, emptied, contract, get>>

\* Mutant: the entry is removed as soon as its bytes are in place.
PromoteUnlinkEarly == /\ At({"deleteVersion"}, "attrs")
                      /\ vdir' = [vdir EXCEPT ![Source] = NoFile]
                      /\ Finish
                      /\ UNCHANGED <<status, live, writes, failures, emptied, contract, get>>

\* and last the entry is removed.
PromoteUnlink == /\ At({"deleteVersion"}, "attrs")
                 /\ \A a \in Attributes : live[a] = vdir[Source][a]
                 /\ vdir' = [vdir EXCEPT ![Source] = NoFile]
                 /\ Finish
                 /\ UNCHANGED <<status, live, writes, failures, emptied, contract, get>>

\* An error return or a crash between two steps: nothing is undone, and the
\* mutation lock is released or recovered.
Fail == /\ op # Idle /\ failures < MaxFailures
        /\ Finish
        /\ failures' = failures + 1
        /\ emptied' = (emptied \/ At({"delete"}, "clear"))
        /\ UNCHANGED <<status, live, vdir, writes, contract, get>>

----------------------------------------------------------------------------
(* GetObject.  Every step looks the file up by its path again. *)

\* A version ID other than the live file's selects the versioning directory; a
\* GET without one goes the way of a GET that names the live file's.
GetResolve(want) ==
  /\ "get" \in Requests[status] /\ get.pc = "idle" /\ live # NoFile
  /\ get' = [get EXCEPT !.pc = "stat", !.want = want,
                        !.inVdir = want # live.vid]
  /\ UNCHANGED <<status, live, vdir, writes, op, failures, emptied, contract>>

GetPath == IF get.inVdir THEN vdir[get.want] ELSE live

\* os.Stat and isObjDeleteMarker
GetStat == /\ get.pc = "stat"
           /\ get' = [get EXCEPT !.pc = IF GetPath = NoFile \/ GetPath.marker THEN "error" ELSE "etag"]
           /\ UNCHANGED <<status, live, vdir, writes, op, failures, emptied, contract>>

\* The ETag attribute; the default ETag when the file or the attribute is gone.
GetEtag == /\ get.pc = "etag"
           /\ get' = [get EXCEPT !.pc = "open", !.etag = IF GetPath = NoFile THEN 0 ELSE GetPath.etag]
           /\ UNCHANGED <<status, live, vdir, writes, op, failures, emptied, contract>>

\* openForRead: from here on the body is read from the inode.
GetOpen == /\ get.pc = "open"
           /\ get' = IF GetPath = NoFile THEN [get EXCEPT !.pc = "error"]
                     ELSE [get EXCEPT !.pc = "body", !.body = GetPath.at,
                                      !.full = GetPath.full, !.onLive = ~get.inVdir]
           /\ UNCHANGED <<status, live, vdir, writes, op, failures, emptied, contract>>

\* The body is sent; what the descriptor held at that time is the answer.
GetSend == /\ get.pc = "body"
           /\ get' = [get EXCEPT !.pc = "done", !.onLive = FALSE]
           /\ UNCHANGED <<status, live, vdir, writes, op, failures, emptied, contract>>

\* The next GET.
GetAgain == /\ get.pc \in {"done", "error"}
            /\ get' = NoGet
            /\ UNCHANGED <<status, live, vdir, writes, op, failures, emptied, contract>>

----------------------------------------------------------------------------
Write == \/ \E k \in {"put", "complete"} : StartWrite(k)
         \/ PutPreserve \/ PutDropNull \/ PutDropId \/ CompletePreserve \/ Link

Delete == \/ StartDelete \/ DeletePreserve \/ DeleteTruncate \/ DeleteClear
          \/ DeleteMark \/ DeleteStamp \/ DeleteRemove

DeleteVersion == \/ \E v \in Vids : StartDeleteVersion(v)
                 \/ DeleteOldVersion \/ DeleteCurrent
                 \/ Promote \/ PromoteAttr \/ PromoteUnlink

Get == \/ \E want \in Vids : GetResolve(want)
       \/ GetStat \/ GetEtag \/ GetOpen \/ GetSend \/ GetAgain

Next == \/ \E s \in Statuses : PutBucketVersioning(s)
        \/ Write \/ Delete \/ DeleteVersion \/ Fail \/ Get

Spec == Init /\ [][Next]_vars

----------------------------------------------------------------------------
Versions == {f \in {live} \cup {vdir[v] : v \in Vids} : f # NoFile}

\* Between requests the live file and the versioning directory hold exactly the
\* versions the requests so far promise, each once and under its own name,
\* whichever files PutObject, CompleteMultipartUpload and DeleteObject moved
\* (as long as no request failed half way).  A key whose live file is gone has no
\* version left: the live file is how GET and DELETE find the others.
StoredMatchesContract ==
  op = Idle /\ failures = 0 =>
    /\ {[vid |-> f.vid, at |-> f.at, marker |-> f.marker] : f \in Versions} = contract
    /\ \A v \in Entries : vdir[v].vid = v /\ (live # NoFile => v # live.vid)
    /\ live = NoFile => Entries = {}

\* A version that no request deleted is stored in full at every moment, also
\* while a request moves it and after a request that failed at any of its steps,
\* but for a delete that stops between the truncation and clearObjectAttributes.
NoVersionLost ==
  ~emptied => \A x \in contract : (x.vid # Null /\ ~x.marker) =>
    \E f \in Versions : f.vid = x.vid /\ f.at = x.at /\ f.full

\* A GET of an older version answers with that version's own bytes, in full and
\* with their ETag or the default one, though writers move files while it runs;
\* so it does after failures, under the same condition, if the version still exists.
OldVersionReadStable ==
  /\ get.pc = "done" /\ get.inVdir /\ get.want # Null
  /\ \/ failures = 0
     \/ ~emptied /\ [vid |-> get.want, at |-> get.want, marker |-> FALSE] \in contract
  => get.body = get.want /\ get.etag \in {get.want, 0} /\ get.full

----------------------------------------------------------------------------
(* The inductive invariant, in parts: what holds of every bucket, what keeps the
   versions (KeepInv), and what the files are while no
   request has failed (FilesInv). *)

\* What a writer knows at each of its steps.
OpFits ==
  /\ op.kind = "none" => op = Idle
  /\ op.kind = "put" => op.step \in {"preserve", "dropNull", "dropId", "link"}
  /\ op.kind = "complete" => op.step \in {"preserve", "link"}
  /\ op.kind = "delete" =>
       op.step \in {"preserve", "truncate", "clear", "mark", "stamp", "remove"}
  /\ op.kind = "deleteVersion" => op.step \in {"unlink", "remove", "promote", "attrs"}
  /\ op.kind \in {"put", "complete", "delete"} => writes < MaxWrites
  /\ op.kind = "delete" => live # NoFile /\ (op.step = "remove" <=> op.st = "Unset")
  /\ At({"delete"}, "mark") \/ At({"delete"}, "stamp") => live.vid = Null /\ live.etag = 0
  /\ At({"delete"}, "stamp") => live.marker
  /\ At({"deleteVersion"}, "unlink") => live # NoFile /\ live.vid # op.v
  /\ At({"deleteVersion"}, "remove") => live # NoFile /\ live.vid = op.v
  /\ At({"deleteVersion"}, "promote") => live = NoFile /\ Entries # {}
  /\ At({"deleteVersion"}, "attrs") =>
       /\ live # NoFile /\ Entries # {}
       /\ live.at = vdir[Source].at /\ live.full = vdir[Source].full
       /\ live.vid \in {Null, Source} /\ live.etag \in {0, vdir[Source].etag}

\* A bucket that was never versioned has null versions only.
NeverVersioned ==
  /\ status = "Unset" => op.st = "Unset"
  /\ status = "Unset" \/ (op # Idle /\ op.st = "Unset") =>
       /\ Entries = {}
       /\ live # NoFile => live.vid = Null
       /\ \A x \in contract : x.vid = Null

\* A file with a version ID is of the write that made the ID.
Genuine(f) == /\ f.vid <= writes
              /\ f.vid # Null => f.at = f.vid /\ f.etag \in {f.vid, 0}
FilesNamed == /\ live # NoFile => Genuine(live)
              /\ \A v \in Entries : vdir[v].vid = v /\ Genuine(vdir[v])

PromisesNamed ==
  /\ \A x \in contract : x.vid <= writes /\ (x.vid # Null => x.at = x.vid)
  /\ \A x, y \in contract : x.vid = y.vid => x = y

BaseInv == TypeOK /\ OpFits /\ NeverVersioned /\ FilesNamed /\ PromisesNamed

\* Before the live file goes it has an entry, if it has a version ID.
Replacing == \/ At({"put", "complete"}, "link") \/ At({"put"}, "dropNull") \/ At({"put"}, "dropId")
             \/ At({"delete"}, "truncate") \/ At({"delete"}, "clear")
Preserved == /\ op.kind = "complete" => op.st # "Suspended"
             /\ Replacing /\ live # NoFile /\ live.vid # Null => vdir[live.vid] # NoFile

Object(v) == [vid |-> v, at |-> v, marker |-> FALSE]
DeleteMarker(v) == [vid |-> v, at |-> v, marker |-> TRUE]

\* A promised object has a file, and every file of it is whole, but for the live
\* one that a delete has just truncated.
ObjectsWhole == ~emptied => \A v \in Stamps : Object(v) \in contract =>
  /\ vdir[v] # NoFile \/ (live # NoFile /\ live.vid = v)
  /\ vdir[v] # NoFile => vdir[v].full
  /\ live # NoFile /\ live.vid = v /\ ~At({"delete"}, "clear") => live.full

KeepInv == Preserved /\ ObjectsWhole

Promised(f) == [vid |-> f.vid, at |-> f.at, marker |-> f.marker]
EntryOf(x) == vdir[x.vid] # NoFile /\ Promised(vdir[x.vid]) = x

\* What the files are at each step of a writer while none has failed.
EntriesPromised == failures = 0 => \A v \in Entries : Promised(vdir[v]) \in contract
StoredSettled ==
  failures = 0 /\ (op = Idle \/ op.step \in {"preserve", "remove", "unlink"}) =>
    /\ live # NoFile => Promised(live) \in contract /\ live.vid \notin Entries
    /\ \A x \in contract : (live # NoFile /\ Promised(live) = x) \/ EntryOf(x)
    /\ live = NoFile => Entries = {}
StoredReplacing ==
  /\ failures = 0
  /\ op.kind \in {"put", "complete", "delete"} /\ op.step \notin {"preserve", "remove"}
  => /\ \A x \in contract : x.vid # Null \/ op.st = "Enabled" => EntryOf(x)
     /\ op.st # "Enabled" /\ op.step # "dropNull" => vdir[Null] = NoFile
StoredPromoting ==
  failures = 0 /\ op.kind = "deleteVersion" /\ op.step \in {"promote", "attrs"} =>
    \A x \in contract : EntryOf(x)

\* A delete of a suspended bucket is none of the requests, and a truncated file is
\* left by a failure only.
Harmless == /\ op.kind = "delete" => op.st # "Suspended"
            /\ emptied => failures > 0

\* What a GET of an older version has seen.
GetFits ==
  /\ get.onLive => ~get.inVdir /\ get.pc = "body"
  /\ get.inVdir /\ get.want # Null =>
       /\ get.pc \in {"open", "body", "done"} => get.etag \in {get.want, 0}
       /\ get.pc \in {"body", "done"} =>
            /\ get.body = get.want /\ get.want <= writes
            /\ failures = 0 \/ (~emptied /\ Object(get.want) \in contract) => get.full
       /\ get.pc \in {"etag", "open"} /\ failures = 0 =>
            /\ get.want <= writes
            /\ DeleteMarker(get.want) \notin contract

FilesInv == Harmless /\ EntriesPromised /\ StoredSettled /\ StoredReplacing /\ StoredPromoting

IInv == BaseInv /\ KeepInv /\ FilesInv /\ GetFits
=============================================================================
