------------------------------ MODULE PosixTree ------------------------------
(***************************************************************************)
(* The operations of PosixOps on one bucket: its directory, its version    *)
(* directory and their attributes, kept as extended attributes of the      *)
(* files (src/backend/meta/xattr.go) or in a directory of their own, where *)
(* the path of the object finds them (src/backend/meta/sidecar.go).        *)
(*                                                                         *)
(* A step is a system call, or an attribute access, of one request.  The   *)
(* contents a request s writes, and the attributes it stores, are all      *)
(* called s.  Archived and encrypted objects are left to ArchiveTier.      *)
(***************************************************************************)
EXTENDS PosixOps, FiniteSets, FiniteSetsExt

CONSTANTS
  Slots,          \* requests; what request s writes is called s
  Keys,           \* the keys, a sequence of two
  Inputs,         \* Inputs[m][s]: what request s may ask for, in a mix m of clients
  Worlds,         \* Worlds[m]: states of the bucket to begin with
  Limit,          \* operations that may run at once (Concurrency)
  MaxVid          \* bound: version IDs are 1 .. MaxVid, in the order they were made

VARIABLES
  mode,           \* the mix of clients, and where attributes are kept
  bucket,         \* the directory: is it there, its attributes, those of the sidecar
  tree,           \* tree[<<k, v>>]: number of the file there, 0 for none
  files,          \* files[i]: bytes and extended attributes of file i
  side,           \* side[<<k, v>>]: attributes of that path in the sidecar
  lastVid,        \* the newest version ID
  free,           \* slots left
  owner,          \* owner[k]: request that holds the mutation lock of k, None for none
  req,            \* req[s]: request s
  held            \* versions that a legal hold was acknowledged for (history variable)

vars == <<mode, bucket, tree, files, side, lastVid, free, owner, req, held>>

AllKeys == {Keys[i] : i \in DOMAIN Keys}
Paths == AllKeys \X (Live .. MaxVid)
None == "none"                          \* no such attribute
ObjectAttrs == {"vid", "etag", "meta", "tags", "sums", "hold", "retention", "marker"}
BucketAttrs == {"acl", "ownership", "encryption", "tags", "versioning", "lock", "policy",
                "cors", "website"}
\* A file without a version ID is the null version.
NoAttrs == [a \in ObjectAttrs |-> IF a = "vid" THEN Null ELSE None]
NoBucketAttrs == [a \in BucketAttrs |-> None]

Idle ==
  [status |-> "idle", in |-> [op |-> None], todo |-> <<>>, k |-> Keys[1], v |-> Unnamed,
   path |-> <<Keys[1], Live>>, file |-> 0, tmp |-> 0, vers |-> None, got |-> NoAttrs,
   slots |-> 0, kept |-> "no", over |-> {}, hit |-> {}, seen |-> <<>>, met |-> {}]

\* One type invariant: slots and locks are accounted for and the tree names files.
TypeOK ==
  /\ \A s \in Slots : req[s].status \in {"idle", "run", "ok", "error"}
  /\ free + MapThenSumSet(LAMBDA s : req[s].slots, Slots) = Limit
  /\ \A k \in AllKeys : owner[k] \in {None} \cup {s \in Slots : req[s].status = "run"}
  /\ \A p \in Paths : tree[p] \in 0 .. Len(files)
  /\ bucket.there \in BOOLEAN /\ lastVid \in 0 .. MaxVid

Init ==
  \E m \in DOMAIN Inputs : \E w \in Worlds[m] :
    /\ mode = [sidecar |-> w.sidecar, mix |-> m]
    /\ bucket = w.bucket /\ tree = w.tree /\ files = w.files /\ side = w.side
    /\ lastVid = w.lastVid /\ free = Limit
    /\ owner = [k \in AllKeys |-> None] /\ held = w.held
    /\ req = [s \in Slots |-> Idle]

-----------------------------------------------------------------------------
(* Attributes (src/backend/meta) *)

\* RetrieveAttribute by path, and of an open file: the sidecar ignores the file.
AtPath(p) == IF mode.sidecar THEN side[p] ELSE IF tree[p] = 0 THEN NoAttrs ELSE files[tree[p]].at
AtFile(i, p) == IF mode.sidecar THEN side[p] ELSE files[i].at
\* An extended attribute needs its file; the sidecar makes its directory.
Reachable(p) == mode.sidecar \/ tree[p] # 0
StoreAttribute(p, attribute, value) ==
  IF mode.sidecar
  THEN /\ side' = [side EXCEPT ![p][attribute] = value]
       /\ UNCHANGED files
  ELSE /\ files' = [files EXCEPT ![tree[p]].at[attribute] = value]
       /\ UNCHANGED side

-----------------------------------------------------------------------------
(* How a request goes on *)

At(s, what) ==
  /\ req[s].status = "run"
  /\ req[s].todo # <<>>
  /\ Head(req[s].todo).do = what
Step(s) == Head(req[s].todo)
Disk == <<bucket, tree, files, side, lastVid>>
Held == <<free, owner>>

GoOn(s, change) == req' = [req EXCEPT ![s] = [change EXCEPT !.todo = Tail(@)]]
Advance(s, change) == GoOn(s, change) /\ UNCHANGED <<mode, Disk, Held, held>>

\* `over` has the keys whose file a request had begun to replace when it gave
\* up: its locks were removed, and a copy that has them was "kept", or not yet
\* ("stripped").
GivenUp(s) ==
  req[s].over \cup IF req[s].kept = "no" THEN {} ELSE {<<req[s].k, req[s].kept>>}

\* The request ends and gives back what it holds; what the properties speak of
\* is remembered.
End(s, how) ==
  /\ req' = [req EXCEPT ![s] = [Idle EXCEPT !.status = how, !.in = req[s].in, !.met = req[s].met,
                                            !.over = GivenUp(s)]]
  /\ free' = free + req[s].slots
  /\ owner' = [k \in AllKeys |-> IF owner[k] = s THEN None ELSE owner[k]]
  /\ held' = IF how = "ok" THEN held \cup req[s].hit ELSE held

\* A step fails: the request ends, except that DeleteObjects goes to its next key.
Return(s) ==
  LET next == {i \in DOMAIN req[s].todo : req[s].todo[i].do = "NextKey"}
  IN  IF next = {} THEN <<>> ELSE SubSeq(req[s].todo, Max(next), Len(req[s].todo))
Stop(s) ==
  IF Return(s) = <<>> THEN End(s, "error")
  ELSE /\ req' = [req EXCEPT ![s].todo = Return(s), ![s].over = GivenUp(s), ![s].kept = "no"]
       /\ UNCHANGED <<Held, held>>
Fail(s) == Stop(s) /\ UNCHANGED <<mode, Disk>>

\* `seen` is what the bucket was like, and `met` the operations that ran at the
\* same time; the properties speak of them.
Versions == {<<p[1], AtPath(p).vid, files[tree[p]].data>> : p \in {p \in Paths : tree[p] # 0}}
Called(in) == IF in.op = "DeleteObject" /\ Names(in) THEN "DeleteVersion" ELSE in.op
Start(s) ==
  /\ req[s].status = "idle"
  /\ \E in \in Inputs[mode.mix][s] :
       req' = [t \in Slots |->
         IF t = s
         THEN [Idle EXCEPT !.status = "run", !.in = in, !.todo = ProgramOf(in), !.k = in.k,
                           !.v = in.v, !.path = <<in.k, Live>>,
                           !.seen = [at |-> bucket.at, versions |-> Versions],
                           !.met = {Called(req[u].in) : u \in {u \in Slots : req[u].status = "run"}}]
         ELSE IF req[t].status = "run" THEN [req[t] EXCEPT !.met = @ \cup {Called(in)}]
         ELSE req[t]]
  /\ UNCHANGED <<mode, Disk, Held, held>>

Finish(s) ==
  /\ req[s].status = "run" /\ req[s].todo = <<>>
  /\ End(s, "ok")
  /\ UNCHANGED <<mode, Disk>>

-----------------------------------------------------------------------------
(* Slots and locks *)

Slot(s) ==
  /\ At(s, "Slot")
  /\ free > 0
  /\ GoOn(s, [req[s] EXCEPT !.slots = @ + 1])
  /\ free' = free - 1
  /\ UNCHANGED <<mode, Disk, owner, held>>
\* The inner operation returns and releases its slot.
EndInner(s) ==
  /\ At(s, "EndInner")
  /\ GoOn(s, [req[s] EXCEPT !.slots = @ - 1])
  /\ free' = free + 1
  /\ UNCHANGED <<mode, Disk, owner, held>>

Lock(s) ==
  /\ At(s, "Lock")
  /\ owner[req[s].k] = None
  /\ owner' = [owner EXCEPT ![req[s].k] = s]
  /\ GoOn(s, req[s])
  /\ UNCHANGED <<mode, Disk, free, held>>

\* DeleteObject returned: its lock is free, the next key is next.
NextKey(s) ==
  /\ At(s, "NextKey")
  /\ owner' = [k \in AllKeys |-> IF owner[k] = s THEN None ELSE owner[k]]
  /\ GoOn(s, [req[s] EXCEPT !.k = Keys[2], !.path = <<Keys[2], Live>>])
  /\ UNCHANGED <<mode, Disk, free, held>>

-----------------------------------------------------------------------------
(* The bucket *)

Rule(s, what, holds) == At(s, what) /\ IF holds THEN Advance(s, req[s]) ELSE Fail(s)
Occupied(places) == \E p \in Paths : p[2] \in places /\ tree[p] # 0

CheckBucket(s) == Rule(s, "StatBucket", bucket.there)
\* isBucketEmpty: first the version directory, then the bucket.
CheckNoVersions(s) == Rule(s, "NoVersions", ~Occupied(Null .. MaxVid))
CheckNoObjects(s) == Rule(s, "NoObjects", bucket.there /\ ~Occupied({Live}))
\* PutBucketVersioning(Suspended) and PutObjectLockConfiguration each look at
\* the attribute of the other; the object operations look at the lock.
CheckNoLockConfig(s) == Rule(s, "NoLockConfig", bucket.there /\ bucket.at["lock"] # "on")
CheckVersioning(s) == Rule(s, "NeedsVersioning", bucket.there /\ bucket.at["versioning"] = "on")
CheckVersioningOn(s) == Rule(s, "VersioningOn", bucket.at["versioning"] = "on")
CheckLockConfig(s) == Rule(s, "NeedsLockConfig", bucket.at["lock"] = "on")

\* os.Mkdir tells who was first; the other learns whose the bucket is.
Mkdir(s) ==
  /\ At(s, "Mkdir")
  /\ IF bucket.there THEN Fail(s)
     ELSE /\ bucket' = [bucket EXCEPT !.there = TRUE]
          /\ GoOn(s, req[s])
          /\ UNCHANGED <<mode, tree, files, side, lastVid, Held, held>>

ReadBucket(s) ==
  /\ At(s, "ReadBucket")
  /\ IF bucket.at[Step(s).attr] = None /\ Step(s).attr \notin {"acl", "versioning"}
     THEN Fail(s) ELSE Advance(s, req[s])

\* Storing may fail, and fails on an extended attribute of a directory that is gone.
ChangeBucket(s, what, value) ==
  /\ At(s, what)
  /\ \/ Fail(s)
     \/ /\ bucket.there \/ mode.sidecar
        /\ bucket' = [bucket EXCEPT !.at[Step(s).attr] = value]
        /\ GoOn(s, req[s])
        /\ UNCHANGED <<mode, tree, files, side, lastVid, Held, held>>
StoreBucket(s) == ChangeBucket(s, "StoreBucket", Step(s).value)
RemoveBucket(s) == ChangeBucket(s, "RemoveBucket", None)

\* DeleteBucket: os.RemoveAll removes the files that are in the directory by
\* then, and then the directory, unless one was linked meanwhile; then the
\* attributes of the sidecar and the version directory go.
Without(places) == [p \in Paths |-> IF p[2] \in places THEN 0 ELSE tree[p]]
RemoveFiles(s) ==
  /\ At(s, "RemoveFiles")
  /\ \/ Fail(s)
     \/ /\ tree' = Without({Live})
        /\ GoOn(s, req[s])
        /\ UNCHANGED <<mode, bucket, files, side, lastVid, Held, held>>
RemoveDirectory(s) ==
  /\ At(s, "RemoveDirectory")
  /\ \/ Fail(s)
     \/ /\ ~Occupied({Live})
        /\ bucket' = [there |-> FALSE, at |-> IF mode.sidecar THEN bucket.at ELSE NoBucketAttrs]
        /\ GoOn(s, req[s])
        /\ UNCHANGED <<mode, tree, files, side, lastVid, Held, held>>
DeleteAttributes(s) ==
  /\ At(s, "DeleteAttributes")
  /\ \/ Advance(s, req[s])               \* an error is logged
     \/ /\ mode.sidecar
        /\ bucket' = [bucket EXCEPT !.at = NoBucketAttrs]
        /\ side' = [p \in Paths |-> IF p[2] = Live THEN NoAttrs ELSE side[p]]
        /\ GoOn(s, req[s])
        /\ UNCHANGED <<mode, tree, files, lastVid, Held, held>>
RemoveVersions(s) ==
  /\ At(s, "RemoveVersions")
  /\ \/ Fail(s)
     \/ /\ tree' = Without(Null .. MaxVid)
        /\ (GoOn(s, req[s]) /\ UNCHANGED <<Held, held>>) \/ Stop(s)
        /\ UNCHANGED <<mode, bucket, files, side, lastVid>>

-----------------------------------------------------------------------------
(* Finding a version, reading *)

\* Which path a named version is looked for at, by the live file's version ID.
\* A live file without one is the version "null" to GetObject, and no version
\* to the others; HeadObject goes into the version directory twice.
Place(k, v, rule) ==
  LET live == AtPath(<<k, Live>>).vid
      matches == IF live = Null THEN rule = "null" /\ v = Null ELSE live = v
  IN  IF matches THEN <<k, Live>> ELSE <<k, v>>
Nowhere(rule, k) == rule = "twice" /\ AtPath(<<k, Live>>).vid = Null
ResolveVersion(s) ==
  /\ At(s, "Resolve")
  /\ LET k == req[s].path[1] IN
     IF ~Reachable(<<k, Live>>) \/ Nowhere(Step(s).rule, k) THEN Fail(s)
     ELSE Advance(s, [req[s] EXCEPT !.path = Place(k, req[s].v, Step(s).rule)])

CheckObject(s) == Rule(s, "StatObject", tree[<<req[s].path[1], Live>>] # 0)
CheckPath(s) == Rule(s, "StatPath", tree[req[s].path] # 0)
\* ensureNotDeleteMarker looks for the file first.
CheckMarker(s) ==
  Rule(s, "NotMarker", tree[req[s].path] # 0 /\ AtPath(req[s].path).marker = None)
CheckReadable(s) ==
  Rule(s, "Readable", Reachable(req[s].path) /\ AtPath(req[s].path).marker = None)

\* An ETag or metadata that cannot be read is left out; a hold or a retention
\* that is not there is an error.
ReadPathAttr(s) ==
  /\ At(s, "ReadPath")
  /\ LET a == Step(s).attr
         value == AtPath(req[s].path)[a]
     IN  IF \/ ~Reachable(req[s].path) /\ a \notin {"etag", "meta"}
            \/ a \in {"hold", "retention"} /\ value = None
         THEN Fail(s) ELSE Advance(s, [req[s] EXCEPT !.got[a] = value])
ReadFileAttr(s) ==
  /\ At(s, "ReadFile")
  /\ Advance(s, [req[s] EXCEPT !.got[Step(s).attr] =
                   AtFile(req[s].file, req[s].path)[Step(s).attr]])
Open(s) ==
  /\ At(s, "Open")
  /\ IF tree[req[s].path] = 0 THEN Fail(s)
     ELSE Advance(s, [req[s] EXCEPT !.file = tree[req[s].path]])

\* HeadObject asks for hold and retention of the path it has resolved: below
\* the version directory there is no lock configuration, and it leaves them out.
LockStatus(s) ==
  /\ At(s, "LockStatus")
  /\ LET shown == req[s].path[2] = Live /\ bucket.at["lock"] = "on"
         at == AtPath(req[s].path)
     IN  Advance(s, IF shown THEN [req[s] EXCEPT !.got.hold = at.hold,
                                                 !.got.retention = at.retention]
                    ELSE req[s])

-----------------------------------------------------------------------------
(* Attributes of a file *)

\* The version a legal hold was stored for is remembered; it counts once the
\* request is acknowledged.
StorePathAttr(s) ==
  /\ At(s, "StorePath")
  /\ \/ Fail(s)
     \/ /\ Reachable(req[s].path)
        /\ StoreAttribute(req[s].path, Step(s).attr, s)
        /\ GoOn(s, [req[s] EXCEPT
             !.hit = IF Step(s).attr = "hold" /\ AtPath(req[s].path).vid # Null
                     THEN @ \cup {<<req[s].path[1], AtPath(req[s].path).vid>>} ELSE @])
        /\ UNCHANGED <<mode, bucket, tree, lastVid, Held, held>>
RemovePathAttr(s) ==
  /\ At(s, "RemovePath")
  /\ \/ Step(s).checked /\ Fail(s)
     \/ /\ Reachable(req[s].path)
        /\ StoreAttribute(req[s].path, Step(s).attr, None)
        /\ GoOn(s, [req[s] EXCEPT !.kept = IF Step(s) = RemovePath("hold", TRUE)
                                           THEN "stripped" ELSE @])
        /\ UNCHANGED <<mode, bucket, tree, lastVid, Held, held>>
     \/ ~Step(s).checked /\ ~Reachable(req[s].path) /\ Advance(s, req[s])

-----------------------------------------------------------------------------
(* Writing an object, under its lock *)

LiveOf(s) == <<req[s].k, Live>>
NewFile(data, at) == Append(files, [data |-> data, at |-> at])
Fresh == Len(files) + 1

\* EvaluateObjectPutPreconditions
Precondition(s) == At(s, "Precondition") /\ (Fail(s) \/ Advance(s, req[s]))
Status(s) ==
  /\ At(s, "Status")
  /\ IF bucket.there THEN Advance(s, [req[s] EXCEPT !.vers = bucket.at["versioning"]])
     ELSE Fail(s)

\* createObjVersion: a copy of the live file and its attributes, which a
\* suspended bucket keeps only if the file has a version ID.  Where metadata is
\* found by path the locks would pass to the new version: they are removed.
MustKeep(s, p) ==
  /\ req[s].vers # None
  /\ tree[p] # 0
  /\ req[s].vers = "off" => AtPath(p).vid # Null
KeepVersion(s) ==
  LET p == LiveOf(s)
      to == <<req[s].k, AtPath(p).vid>>
  IN
  /\ At(s, "KeepVersion")
  /\ IF ~MustKeep(s, p) THEN Advance(s, req[s])
     ELSE \/ Fail(s)
          \/ /\ files' = NewFile(files[tree[p]].data, AtPath(p))
             /\ tree' = [tree EXCEPT ![to] = Fresh]
             /\ side' = [side EXCEPT ![to] = AtPath(p)]
             /\ req' = [req EXCEPT ![s].todo = Unprotect \o Tail(@), ![s].kept = "kept"]
             /\ UNCHANGED <<mode, bucket, lastVid, Held, held>>

\* backend.MkdirAll of a directory object, which may be there.
MkdirAll(s) ==
  /\ At(s, "MkdirAll")
  /\ \/ Fail(s)
     \/ /\ bucket' = [bucket EXCEPT !.there = TRUE]
        /\ IF tree[LiveOf(s)] # 0 THEN UNCHANGED <<files, tree>>
           ELSE files' = NewFile(None, NoAttrs) /\ tree' = [tree EXCEPT ![LiveOf(s)] = Fresh]
        /\ GoOn(s, req[s])
        /\ UNCHANGED <<mode, side, lastVid, Held, held>>

\* The temporary file, whose directory is made again if the bucket is gone, and
\* the body, which may end early or not match its digest.  A copy reads the
\* bytes of the file it has open.
Body(s) ==
  /\ At(s, "Body")
  /\ \/ Fail(s)
     \/ /\ bucket' = [bucket EXCEPT !.there = TRUE]
        /\ files' = NewFile(IF req[s].file = 0 THEN s ELSE files[req[s].file].data, NoAttrs)
        /\ GoOn(s, [req[s] EXCEPT !.tmp = Fresh])
        /\ UNCHANGED <<mode, tree, side, lastVid, Held, held>>

\* deleteNullVersionIdObject, and the live file loses its version ID.
NullVersion(s) ==
  /\ At(s, "NullVersion")
  /\ IF req[s].vers # "off" THEN Advance(s, req[s])
     ELSE /\ tree' = [tree EXCEPT ![<<req[s].k, Null>>] = 0]
          /\ side' = [side EXCEPT ![<<req[s].k, Null>>] = NoAttrs, ![LiveOf(s)].vid = Null]
          /\ files' = IF tree[LiveOf(s)] = 0 THEN files
                      ELSE [files EXCEPT ![tree[LiveOf(s)]].at.vid = Null]
          /\ GoOn(s, req[s])
          /\ UNCHANGED <<mode, bucket, lastVid, Held, held>>

storeObjectMetaProperties(at, meta) == [at EXCEPT !.meta = meta]
\* The attributes of the new file: on the file itself, or already at the path.
FileAttributes(s) ==
  LET data == files[req[s].tmp].data
      vid == IF req[s].vers = "on" THEN lastVid + 1 ELSE Null
      meta == IF req[s].file = 0 \/ "meta" \in req[s].in.with THEN s ELSE req[s].got.meta
      Described(at) ==
        [storeObjectMetaProperties(at, meta) EXCEPT
           !.etag = data, !.sums = data, !.vid = IF req[s].vers = "on" THEN vid ELSE at.vid]
  IN
  /\ At(s, "FileAttributes")
  /\ vid <= MaxVid
  /\ \/ Fail(s)
     \/ /\ IF mode.sidecar
           THEN side' = [side EXCEPT ![LiveOf(s)] = Described(@)] /\ UNCHANGED files
           ELSE files' = [files EXCEPT ![req[s].tmp].at = Described(@)] /\ UNCHANGED side
        /\ lastVid' = IF vid = Null THEN lastVid ELSE vid
        /\ GoOn(s, req[s])
        /\ UNCHANGED <<mode, bucket, tree, Held, held>>

\* link() makes the directory again that DeleteBucket has removed, without its
\* attributes.
Link(s) ==
  /\ bucket' = [bucket EXCEPT !.there = TRUE]
  /\ tree' = [tree EXCEPT ![LiveOf(s)] = req[s].tmp]
\* EEXIST is taken for success: nothing was linked and the rest is not done.
LinkFile(s) ==
  /\ At(s, "LinkFile")
  /\ \/ Fail(s)
     \/ /\ Link(s)
        /\ GoOn(s, [req[s] EXCEPT !.kept = "no"])
        /\ UNCHANGED <<mode, files, side, lastVid, Held, held>>
     \/ /\ tree[LiveOf(s)] # 0
        /\ req' = [req EXCEPT ![s].todo = SelectSeq(@, LAMBDA step : step.do = "CopyTags"),
                              ![s].over = GivenUp(s), ![s].kept = "no"]
        /\ UNCHANGED <<mode, Disk, Held, held>>

-----------------------------------------------------------------------------
(* Deleting an object, under its lock *)

\* What is deleted: nothing (which is success), the object, the current version
\* or another one.
DeleteWhere(s) ==
  LET p == LiveOf(s)
      v == req[s].v
      vid == AtPath(p).vid
      absent == tree[p] = 0 /\ (v = Unnamed \/ vid = Null)
      steps == IF absent THEN <<>>
               ELSE IF req[s].vers = None THEN RemoveOne
               ELSE IF v = Unnamed THEN MarkDeleted(req[s].vers = "on" \/ vid # Null)
               ELSE IF v = vid THEN RemoveCurrent ELSE RemoveOne
      kept == req[s].vers # None /\ v \notin {Unnamed, vid}
  IN
  /\ At(s, "DeleteWhere")
  /\ req' = [req EXCEPT ![s].todo = steps \o Tail(@),
                        ![s].path = IF kept THEN <<req[s].k, v>> ELSE p]
  /\ UNCHANGED <<mode, Disk, Held, held>>

\* createObjVersion: a copy of the file and its attributes, which the sidecar
\* already keeps at the path of the version; then the locks of the live file
\* go (RemovePathAttr); then the copy is linked.
CopyVersion(s) ==
  LET p == LiveOf(s)
      to == <<req[s].k, AtPath(p).vid>>
  IN
  /\ At(s, "CopyVersion")
  /\ \/ Fail(s)
     \/ /\ tree[p] # 0
        /\ files' = NewFile(files[tree[p]].data, AtPath(p))
        /\ side' = IF mode.sidecar THEN [side EXCEPT ![to] = AtPath(p)] ELSE side
        /\ GoOn(s, [req[s] EXCEPT !.tmp = Fresh, !.v = to[2]])
        /\ UNCHANGED <<mode, bucket, tree, lastVid, Held, held>>
LinkVersion(s) ==
  /\ At(s, "LinkVersion")
  /\ \/ Fail(s)
     \/ /\ tree' = [tree EXCEPT ![<<req[s].k, req[s].v>>] = req[s].tmp]
        /\ GoOn(s, [req[s] EXCEPT !.kept = "kept", !.v = Unnamed])
        /\ UNCHANGED <<mode, bucket, files, side, lastVid, Held, held>>

Truncate(s) ==
  /\ At(s, "Truncate")
  /\ \/ Fail(s)
     \/ /\ tree[LiveOf(s)] # 0
        /\ files' = [files EXCEPT ![tree[LiveOf(s)]].data = None]
        /\ GoOn(s, req[s])
        /\ UNCHANGED <<mode, bucket, tree, side, lastVid, Held, held>>

\* All attributes of the live file at once.
StoreAttributes(s, at) ==
  /\ Reachable(LiveOf(s))
  /\ IF mode.sidecar
     THEN side' = [side EXCEPT ![LiveOf(s)] = at] /\ UNCHANGED files
     ELSE files' = [files EXCEPT ![tree[LiveOf(s)]].at = at] /\ UNCHANGED side
  /\ UNCHANGED <<mode, bucket, tree, lastVid>>
\* clearObjectAttributes may fail after some: with or without the version ID.
ClearAttributes(s) ==
  LET at == AtPath(LiveOf(s)) IN
  /\ At(s, "ClearAttributes")
  /\ \/ Fail(s)
     \/ \E left \in {[NoAttrs EXCEPT !.vid = at.vid], [at EXCEPT !.vid = Null]} :
          StoreAttributes(s, left) /\ Stop(s)
     \/ /\ StoreAttributes(s, NoAttrs)
        /\ GoOn(s, [req[s] EXCEPT !.kept = "no"])
        /\ UNCHANGED <<Held, held>>

\* The version ID of the delete marker.
StoreVid(s) ==
  LET vid == IF req[s].vers = "on" THEN lastVid + 1 ELSE Null IN
  /\ At(s, "StoreVid")
  /\ vid <= MaxVid
  /\ \/ Fail(s)
     \/ /\ Reachable(LiveOf(s))
        /\ StoreAttribute(LiveOf(s), "vid", vid)
        /\ lastVid' = IF vid = Null THEN lastVid ELSE vid
        /\ GoOn(s, req[s])
        /\ UNCHANGED <<mode, bucket, tree, Held, held>>

\* os.Remove of the file; a version that is named is deleted now.
RemoveFile(s) ==
  LET p == req[s].path IN
  /\ At(s, "RemoveFile")
  /\ \/ Fail(s)
     \/ /\ tree[p] # 0
        /\ tree' = [tree EXCEPT ![p] = 0]
        /\ held' = held \ {<<p[1], req[s].v>>}
        /\ GoOn(s, req[s])
        /\ UNCHANGED <<mode, bucket, files, side, lastVid, Held>>
\* Its attributes in the sidecar; an error counts only where the bucket never
\* had versions.
DropAttributes(s) ==
  /\ At(s, "DropAttributes")
  /\ \/ req[s].vers = None /\ Fail(s)
     \/ /\ side' = [side EXCEPT ![req[s].path] = NoAttrs]
        /\ GoOn(s, req[s])
        /\ UNCHANGED <<mode, bucket, tree, files, lastVid, Held, held>>

\* The kept version whose name sorts last ("null" sorts after every ID) is
\* copied, linked, and gets its attributes one by one: some without the locks
\* or without the version ID.
Kept(k) == {v \in Null .. MaxVid : tree[<<k, v>>] # 0}
LastByName(k) == IF Null \in Kept(k) THEN Null ELSE Max(Kept(k))
Promoted(s) == <<req[s].k, req[s].v>>
PromoteCopy(s) ==
  LET v == LastByName(req[s].k) IN
  /\ At(s, "PromoteCopy")
  /\ IF Kept(req[s].k) = {}
     THEN /\ req' = [req EXCEPT ![s].todo = Return(s)]
          /\ UNCHANGED <<mode, Disk, Held, held>>
     ELSE \/ Fail(s)
          \/ /\ files' = NewFile(files[tree[<<req[s].k, v>>]].data, NoAttrs)
             /\ bucket' = [bucket EXCEPT !.there = TRUE]
             /\ GoOn(s, [req[s] EXCEPT !.tmp = Fresh, !.v = v])
             /\ UNCHANGED <<mode, tree, side, lastVid, Held, held>>
PromoteLink(s) ==
  /\ At(s, "PromoteLink")
  /\ \/ Fail(s)
     \/ /\ Link(s)
        /\ GoOn(s, req[s])
        /\ UNCHANGED <<mode, files, side, lastVid, Held, held>>
PromoteAttributes(s) ==
  LET from == AtPath(Promoted(s))
      But(late) == [a \in ObjectAttrs |-> IF a \in late THEN NoAttrs[a] ELSE from[a]]
  IN
  /\ At(s, "PromoteAttributes")
  /\ \/ Fail(s)
     \/ /\ Reachable(Promoted(s))
        /\ \E late \in {{"hold", "retention"}, {"vid"}} : StoreAttributes(s, But(late))
        /\ GoOn(s, [req[s] EXCEPT !.kept = "kept"])
        /\ UNCHANGED <<Held, held>>
PromoteRest(s) ==
  /\ At(s, "PromoteRest")
  /\ \/ Fail(s)
     \/ /\ Reachable(Promoted(s))
        /\ StoreAttributes(s, AtPath(Promoted(s)))
        /\ GoOn(s, [req[s] EXCEPT !.kept = "no"])
        /\ UNCHANGED <<Held, held>>
RemovePromoted(s) ==
  /\ At(s, "RemovePromoted")
  /\ \/ Fail(s)
     \/ /\ tree[Promoted(s)] # 0
        /\ tree' = [tree EXCEPT ![Promoted(s)] = 0]
        /\ side' = [side EXCEPT ![Promoted(s)] = NoAttrs]
        /\ GoOn(s, req[s])
        /\ UNCHANGED <<mode, bucket, files, lastVid, Held, held>>

-----------------------------------------------------------------------------
(* Copying *)

\* The owner of the source bucket may not be the one the client expects.
Source(s) ==
  /\ At(s, "Source")
  /\ \/ Fail(s)
     \/ Advance(s, [req[s] EXCEPT !.path = <<req[s].in.from.k, Live>>, !.v = req[s].in.from.v])
\* CopySourceIfMatch and the size were checked; onto itself only the metadata
\* may be replaced.
CopyWhere(s) ==
  /\ At(s, "CopyWhere")
  /\ \/ Fail(s)
     \/ /\ req[s].path = LiveOf(s) => "meta" \in req[s].in.with
        /\ req' = [req EXCEPT ![s].todo =
             (IF req[s].path = LiveOf(s) THEN CopyInPlace(req[s].in)
              ELSE CopyElsewhere(req[s].in)) \o Tail(@)]
        /\ UNCHANGED <<mode, Disk, Held, held>>
Destination(s) ==
  /\ At(s, "Destination")
  /\ Advance(s, [req[s] EXCEPT !.path = LiveOf(s)])
\* The source's tags, read before, are stored after the new object is visible.
CopyTags(s) ==
  /\ At(s, "CopyTags")
  /\ \/ Fail(s)
     \/ req[s].got.tags = None /\ Advance(s, req[s])
     \/ /\ req[s].got.tags # None /\ Reachable(LiveOf(s))
        /\ StoreAttribute(LiveOf(s), "tags", req[s].got.tags)
        /\ GoOn(s, req[s])
        /\ UNCHANGED <<mode, bucket, tree, lastVid, Held, held>>

-----------------------------------------------------------------------------
Buckets(s) ==
  \/ CheckBucket(s) \/ CheckNoVersions(s) \/ CheckNoObjects(s) \/ CheckNoLockConfig(s)
  \/ CheckVersioning(s) \/ CheckVersioningOn(s) \/ CheckLockConfig(s) \/ Mkdir(s)
  \/ ReadBucket(s) \/ StoreBucket(s) \/ RemoveBucket(s) \/ RemoveFiles(s)
  \/ RemoveDirectory(s) \/ DeleteAttributes(s) \/ RemoveVersions(s)
Reads(s) ==
  \/ ResolveVersion(s) \/ CheckObject(s) \/ CheckPath(s) \/ CheckMarker(s) \/ CheckReadable(s)
  \/ ReadPathAttr(s) \/ ReadFileAttr(s) \/ Open(s) \/ LockStatus(s)
Writes(s) ==
  \/ StorePathAttr(s) \/ RemovePathAttr(s) \/ Precondition(s) \/ Status(s) \/ KeepVersion(s)
  \/ MkdirAll(s) \/ Body(s) \/ NullVersion(s) \/ FileAttributes(s) \/ LinkFile(s)
  \/ Source(s) \/ CopyWhere(s) \/ Destination(s) \/ CopyTags(s)
Deletes(s) ==
  \/ DeleteWhere(s) \/ CopyVersion(s) \/ LinkVersion(s) \/ Truncate(s) \/ ClearAttributes(s)
  \/ StoreVid(s) \/ RemoveFile(s) \/ DropAttributes(s) \/ PromoteCopy(s) \/ PromoteLink(s)
  \/ PromoteAttributes(s) \/ PromoteRest(s) \/ RemovePromoted(s)
Request(s) ==
  /\ req[s].status = "run"
  /\ \/ Finish(s) \/ Slot(s) \/ EndInner(s) \/ Lock(s) \/ NextKey(s)
     \/ Buckets(s) \/ Reads(s) \/ Writes(s) \/ Deletes(s)

Next == \E s \in Slots : Start(s) \/ Request(s)
\* A request that has begun is a goroutine that goes on.
Spec == Init /\ [][Next]_vars /\ \A s \in Slots : WF_vars(Request(s))

-----------------------------------------------------------------------------
(* Properties *)

\* The step that answers the request, which it has carried out.
Succeeds(s, op) == req[s].in.op = op /\ req[s].status = "run" /\ req'[s].status = "ok"

\* A tag, hold or retention that a request addresses to a version is stored
\* with that version and no other, whatever is written, deleted or promoted
\* between the lookup and the write (PutObjectTagging, PutObjectLegalHold and
\* PutObjectRetention resolve the path under the object's mutation lock).
VersionAddressed ==
  \A s \in Slots :
    /\ At(s, "StorePath") \/ At(s, "RemovePath")
    /\ Names(req[s].in)
    /\ <<files, side>>' # <<files, side>>
    /\ req'[s] # req[s]
    => AtPath(req[s].path).vid = req[s].in.v

\* A copy that names a version reads the file of that version.  One that names
\* the current version looked for it at the object's path before it waited for
\* the lock of the destination (CopyObject, posix.go 6128-6139): with a writer of
\* that key at the same time it may read the file that is there by then.
WritersOfKey == {"PutObject", "CopyObject", "DeleteObject", "DeleteObjects", "DeleteVersion"}
CopyIsNamed ==
  \A s \in Slots :
    /\ At(s, "Open") /\ req[s].in.op = "CopyObject" /\ req[s].in.from.v # Unnamed
    /\ req'[s].file # req[s].file
    /\ req[s].path[2] = Live => req[s].met \cap WritersOfKey = {}
    => AtPath(req[s].path).vid = req[s].in.from.v

\* An acknowledged copy has the bytes of the very file whose ETag its
\* conditions were checked against (CopyObject reads both from one open file),
\* unless that file was emptied by a delete marker meanwhile, or had no ETag yet:
\* a promoted version is linked before it has its attributes (posix.go 5041).
\* The sidecar keeps the ETag at the path, which a writer may be about to change
\* or have changed; it is left out.
CopyIsOne ==
  \A s \in Slots :
    /\ Succeeds(s, "CopyObject")
    /\ req[s].tmp # 0 /\ ~mode.sidecar
    /\ req[s].got.etag # None /\ files[req[s].tmp].data # None
    => files[req[s].tmp].data = req[s].got.etag

\* Who is told that he created a bucket owns it, and it has the ownership and
\* the object lock that he asked for: of several concurrent CreateBucket calls
\* only one goes on after mkdir.  Deletes and settings that ran at the same
\* time are left out: a bucket that is deleted while it is created may be
\* created again, and gets the attributes of both.
Others == {"DeleteBucket", "PutBucketAcl", "ChangeBucketOwner", "PutBucketOwnershipControls",
           "DeleteBucketOwnershipControls", "PutBucketVersioning"}
CreatedComplete ==
  \A s \in Slots :
    /\ Succeeds(s, "CreateBucket")
    /\ \A t \in Slots : req[t].in.op = "CreateBucket" => req[t].met \cap Others = {}
    => /\ bucket.there /\ bucket.at["acl"] = s /\ bucket.at["ownership"] = s
       /\ "lock" \in req[s].in.with =>
            bucket.at["lock"] = "on" /\ bucket.at["versioning"] = "on"

\* Versioning is not suspended by a request that began when the bucket had an
\* object lock configuration (PutBucketVersioning reads it before it stores).
SuspendRefused ==
  \A s \in Slots :
    /\ Succeeds(s, "PutBucketVersioning")
    /\ "suspend" \in req[s].in.with /\ "DeleteBucket" \notin req[s].met
    => req[s].seen.at["lock"] # "on"

\* DeleteBucket removes no version that was stored before it began, whatever
\* is written and deleted beside it (isBucketEmpty looks at both directories
\* before RemoveAll).  A DELETE that names a version is the exception: once the
\* version directory was found empty a PUT may keep a version in it, and the
\* DELETE removes the object's file (posix.go 4978) before the kept version is
\* linked in its place (5041); a bucket looked at in between has no objects.
DeleteSpares ==
  \A s \in Slots :
    /\ At(s, "RemoveFiles") \/ At(s, "RemoveVersions")
    /\ req'[s] # req[s]
    /\ "DeleteVersion" \notin req[s].met
    => Versions \cap req[s].seen.versions \subseteq Versions'

\* The file where requests that name the version find its locks.
Served(k, v) == AtPath(Place(k, v, "default")).hold # None
Stored(k, v) == {p \in Paths : p[1] = k /\ tree[p] # 0 /\ AtPath(p).vid = v}
FailedOver(k) == \E s \in Slots : \E x \in req[s].over : x[1] = k
Stripped(k) ==
  \E s \in Slots : <<k, "stripped">> \in req[s].over \/ (req[s].k = k /\ req[s].kept = "stripped")

\* A version whose legal hold was acknowledged has it until the version is
\* deleted: at every moment in some file of the version, and between writes in
\* the one that is looked at.  There are two exceptions.  A DELETE without a
\* version takes the hold off the live file (createObjVersion, posix.go
\* 1168-1175) before it links the copy that has it (1177): in between, and for
\* good if the link fails, no file has it.  And a PUT, DELETE or promotion that
\* fails once it has kept a copy leaves a live file without the hold, which is
\* the one looked at (4475-4483, 4889-4902, 5055-5075).
LockKept ==
  \A h \in held :
    Stored(h[1], h[2]) # {} =>
      /\ Stripped(h[1]) \/ \E p \in Stored(h[1], h[2]) : AtPath(p).hold # None
      /\ owner[h[1]] = None /\ tree[<<h[1], Live>>] # 0 /\ ~FailedOver(h[1])
           => Served(h[1], h[2])

\* Every slot is the only one of a request that waits for a second:
\* ChangeBucketOwner takes it while it holds the first.
SlotsExhausted ==
  free = 0 /\ \A s \in Slots : req[s].slots > 0 => req[s].slots = 1 /\ At(s, "Slot")

\* Every request that begins comes to an end: nobody waits for a slot or a lock
\* for ever, unless the slots were all taken by requests that need two.
RequestsEnd ==
  \A s \in Slots : (req[s].status = "run") ~> (req[s].status \in {"ok", "error"} \/ SlotsExhausted)

\* Requests that set attributes change the version they name and no other, and a
\* copy reads the version it names, all of it from one file, within what
\* CopyIsNamed and CopyIsOne say of the current version and of the sidecar.
RightVersion == [][CopyIsOne /\ CopyIsNamed /\ VersionAddressed]_vars

\* A bucket is created whole, keeps its versions while it is locked and goes only
\* when it is empty: CreatedComplete, SuspendRefused and DeleteSpares.
BucketLife == [][CreatedComplete /\ SuspendRefused /\ DeleteSpares]_vars
=============================================================================
