------------------------------ MODULE PosixOps ------------------------------
(***************************************************************************)
(* The operations of the POSIX backend on buckets, and on the attributes   *)
(* of objects, each as the sequence of the system calls and attribute      *)
(* accesses it makes (src/backend/posix/posix.go).  A step that fails ends *)
(* the operation.  PosixTree says what a step reads and changes; between   *)
(* two steps other requests take theirs.                                   *)
(*                                                                         *)
(* `r` is the request: r.v, the version it names (Unnamed for none); r.k   *)
(* its key; r.from, the key and the version a copy reads; r.with, the      *)
(* parts the caller asks for besides (tags, a hold, a retention, a lock    *)
(* for the bucket, REPLACE for the metadata or the tags of a copy...).     *)
(***************************************************************************)
EXTENDS Integers, Sequences

Unnamed == -2                  \* the request names no version
Live == -1                     \* the place of a key in the bucket's directory
Null == 0                      \* the version called "null"

Do(what) == [do |-> what]
\* acquireActionSlot.  An operation called from another one skips it.
acquireActionSlot == Do("Slot")
\* os.Stat(bucket), which every operation begins with.
StatBucket == Do("StatBucket")
acquireObjectMutationLock == Do("Lock")
Begin == <<acquireActionSlot, StatBucket>>

(* An attribute of the bucket. *)
Read(attr) == [do |-> "ReadBucket", attr |-> attr]
Store(attr, value) == [do |-> "StoreBucket", attr |-> attr, value |-> value]
Remove(attr) == [do |-> "RemoveBucket", attr |-> attr]

(* An attribute of a file: of the path the request has resolved, or of the  *)
(* file it has open.                                                        *)
ReadPath(attr) == [do |-> "ReadPath", attr |-> attr]
ReadFile(attr) == [do |-> "ReadFile", attr |-> attr]
StorePath(attr) == [do |-> "StorePath", attr |-> attr]
\* `checked`: an error other than a missing attribute ends the operation.
RemovePath(attr, checked) == [do |-> "RemovePath", attr |-> attr, checked |-> checked]
\* Where the version is: `rule` says what a live file without a version ID is
\* taken for (PosixTree!Place).
Resolve(rule) == [do |-> "Resolve", rule |-> rule]

If(condition, steps) == IF condition THEN steps ELSE <<>>
Names(r) == r.v # Unnamed

-----------------------------------------------------------------------------
(* Buckets *)

\* The parts after `mkdir`.  PutBucketVersioning is called without a slot.
CreateBucket(r) ==
  <<acquireActionSlot, Do("Mkdir"), Store("acl", r.id), Store("ownership", r.id)>>
  \o If("encryption" \in r.with, <<Store("encryption", "default")>>)
  \o If("tags" \in r.with, <<Store("tags", r.id)>>)
  \o If("lock" \in r.with,
        <<StatBucket, Store("versioning", "on"), Store("lock", "on")>>)
HeadBucket == Begin
\* Mutant: the versions are not looked for.
OnlyObjects == <<Do("NoObjects")>>
isBucketEmpty == <<Do("NoVersions"), Do("NoObjects")>>
DeleteBucket ==
  <<acquireActionSlot>> \o isBucketEmpty
  \o <<Do("RemoveFiles"), Do("RemoveDirectory"), Do("DeleteAttributes"), Do("RemoveVersions")>>

PutBucketOwnershipControls(r) == Begin \o <<Store("ownership", r.id)>>
GetBucketOwnershipControls == Begin \o <<Read("ownership")>>
DeleteBucketOwnershipControls == Begin \o <<Remove("ownership")>>

GetBucketVersioning == Begin \o <<Read("versioning")>>
\* Suspending reads the lock configuration first.
PutBucketVersioning(r) ==
  Begin \o If("suspend" \in r.with, <<Do("NoLockConfig")>>)
  \o <<Store("versioning", IF "suspend" \in r.with THEN "off" ELSE "on")>>
PutObjectLockConfiguration(r) ==
  Begin \o <<Do("NeedsVersioning"), Store("lock", "on")>>
GetObjectLockConfiguration == Begin \o <<Read("lock")>>

PutBucketAcl(r) == Begin \o <<Store("acl", r.id)>>
GetBucketAcl == Begin \o <<Read("acl")>>
PutBucketTagging(r) == Begin \o <<Store("tags", r.id)>>
GetBucketTagging == Begin \o <<Read("tags")>>
DeleteBucketTagging == Begin \o <<Remove("tags")>>
PutBucketPolicy(r) == Begin \o <<Store("policy", r.id)>>
GetBucketPolicy == Begin \o <<Read("policy")>>
DeleteBucketPolicy == Begin \o <<Remove("policy")>>
PutBucketCors(r) == Begin \o <<Store("cors", r.id)>>
GetBucketCors == Begin \o <<Read("cors")>>
DeleteBucketCors == Begin \o <<Remove("cors")>>
PutBucketWebsite(r) == Begin \o <<Store("website", r.id)>>
GetBucketWebsite == Begin \o <<Read("website")>>
DeleteBucketWebsite == Begin \o <<Remove("website")>>

\* Mutant: the slot of the first call is not given back.
NoRelease(r) == PutBucketAcl(r) \o DeleteBucketPolicy
\* UpdateBucketACLOwner calls PutBucketAcl and DeleteBucketPolicy with the
\* context it was given: each takes a slot of its own besides the one held.
UpdateBucketACLOwner(r) == PutBucketAcl(r) \o <<Do("EndInner")>> \o DeleteBucketPolicy
ChangeBucketOwner(r) == <<acquireActionSlot>> \o UpdateBucketACLOwner(r)

-----------------------------------------------------------------------------
(* Attributes of objects *)

\* doesBucketAndObjectExist and isBucketObjectLockEnabled.
doesBucketAndObjectExist == <<StatBucket, Do("StatObject")>>
isBucketObjectLockEnabled == Do("NeedsLockConfig")
\* The path of the version, or the live one, which must be there.
ResolveOrStat(r) == IF Names(r) THEN <<Resolve("default")>> ELSE <<Do("StatObject")>>
ensureNotDeleteMarker == Do("NotMarker")

GetObjectTagging(r) == Begin \o ResolveOrStat(r) \o <<ensureNotDeleteMarker, ReadPath("tags")>>
PutObjectTagging(r) ==
  Begin \o <<acquireObjectMutationLock>> \o ResolveOrStat(r)
  \o <<ensureNotDeleteMarker, StorePath("tags")>>
DeleteObjectTagging(r) ==
  Begin \o <<acquireObjectMutationLock>> \o ResolveOrStat(r)
  \o <<ensureNotDeleteMarker, RemovePath("tags", TRUE)>>

GetLock(r, attr) ==
  doesBucketAndObjectExist \o <<isBucketObjectLockEnabled>>
  \o If(Names(r), <<Resolve("default")>>) \o <<ensureNotDeleteMarker, ReadPath(attr)>>
PutLock(r, attr) ==
  doesBucketAndObjectExist \o <<isBucketObjectLockEnabled, acquireObjectMutationLock>>
  \o If(Names(r), <<Resolve("default")>>) \o <<ensureNotDeleteMarker, StorePath(attr)>>
GetObjectLegalHold(r) == <<acquireActionSlot>> \o GetLock(r, "hold")
PutObjectLegalHold(r) == <<acquireActionSlot>> \o PutLock(r, "hold")
GetObjectRetention(r) == <<acquireActionSlot>> \o GetLock(r, "retention")
PutObjectRetention(r) == <<acquireActionSlot>> \o PutLock(r, "retention")

-----------------------------------------------------------------------------
(* Reading objects: no lock *)

GetFind(r) ==
  Begin \o If(Names(r), <<Resolve("null")>>) \o <<Do("StatPath"), Do("Readable")>>
\* The conditions and the range of the request may not be met.
GetDescribe(r) ==
  <<ReadPath("etag"), Do("Precondition")>> \o If(~Names(r), <<ReadPath("vid")>>)
GetBody == <<Do("Open"), Do("Precondition"), ReadFile("meta"), ReadPath("tags"), ReadFile("sums")>>
\* The ETag is read by path and the body from the file that is opened later.
GetObject(r) == GetFind(r) \o GetDescribe(r) \o GetBody
loadObjectMetaProperties(file) == IF file THEN ReadFile("meta") ELSE ReadPath("meta")
HeadFind(r) ==
  <<StatBucket>> \o If(Names(r), <<Resolve("twice")>>)
  \o <<Do("StatPath"), Do("Readable")>> \o If(~Names(r), <<ReadPath("vid")>>)
HeadDescribe ==
  <<loadObjectMetaProperties(FALSE), ReadPath("etag"), Do("Precondition"), Do("Open")>>
HeadAnswer == <<Do("Precondition"), Do("LockStatus"), ReadPath("sums"), ReadPath("tags")>>
Head_(r) == HeadFind(r) \o HeadDescribe \o HeadAnswer
HeadObject(r) == <<acquireActionSlot>> \o Head_(r)
GetObjectAttributes(r) == <<acquireActionSlot>> \o Head_(r)

-----------------------------------------------------------------------------
(* Writing objects *)

\* A key that ends in "/": a directory, whose attributes are stored in place and
\* of which no version is kept.
PutDirectory(r) ==
  <<Do("Precondition"), Do("MkdirAll"), StorePath("meta")>>
  \o If("tags" \in r.with, <<ensureNotDeleteMarker, StorePath("tags")>>)
  \o <<StorePath("etag"), StorePath("sums")>>
\* Mutant: the live file's locks go before a version of it is kept.
UnprotectFirst(r) ==
  <<Do("Precondition"), Do("Status"), RemovePath("hold", FALSE), Do("KeepVersion"), Do("Body"),
    Do("NullVersion"), Do("FileAttributes"), Do("LinkFile")>>
\* The part of PutObject after the bucket was found.  It is the whole of it
\* when a copy, which holds the lock of the destination, calls it.
Put_(r) ==
  <<Do("Precondition"), Do("Status"), Do("KeepVersion"), Do("Body"), Do("NullVersion"),
    Do("FileAttributes"), Do("LinkFile")>>
  \o If("tags" \in r.with, <<ensureNotDeleteMarker, StorePath("tags")>>)
  \o If("hold" \in r.with, <<isBucketObjectLockEnabled, ensureNotDeleteMarker, StorePath("hold")>>)
  \o If("retention" \in r.with,
        <<isBucketObjectLockEnabled, ensureNotDeleteMarker, StorePath("retention")>>)
\* The live file's locks are removed once a version of it is kept, before the
\* body of the new one is read; errors are ignored.
Unprotect == <<RemovePath("hold", FALSE), RemovePath("retention", FALSE)>>
PutObject(r) ==
  Begin \o <<acquireObjectMutationLock>>
  \o IF "dir" \in r.with THEN PutDirectory(r) ELSE Put_(r)

Delete_ == <<StatBucket, acquireObjectMutationLock, Do("Status"), Do("DeleteWhere")>>
DeleteObject(r) == <<acquireActionSlot>> \o Delete_
\* One DeleteObject after the other under one slot; each takes the lock.
DeleteObjects(r) == <<acquireActionSlot>> \o Delete_ \o <<Do("NextKey")>> \o Delete_
\* createObjVersion(removeAttributes): the live file loses its locks before the
\* copy that has them is linked into the version directory.
createObjVersion ==
  <<Do("CopyVersion"), RemovePath("hold", TRUE), RemovePath("retention", TRUE), Do("LinkVersion")>>
\* Without a version: the live file, kept as a version, becomes a delete marker
\* in place.
MarkDeleted(keep) ==
  <<Do("Precondition")>> \o If(keep, createObjVersion)
  \o <<Do("Truncate"), Do("ClearAttributes"), StorePath("marker"), Do("StoreVid")>>
\* The current version: the file goes, then the kept version whose name sorts
\* last is copied to its place, then its attributes.
RemoveCurrent ==
  <<Do("Precondition"), Do("RemoveFile"), Do("PromoteCopy"), Do("PromoteLink"),
    Do("ClearAttributes"), Do("PromoteAttributes"), Do("PromoteRest"), Do("RemovePromoted")>>
\* A kept version, or the object of a bucket that never had versions.
RemoveOne == <<Do("Precondition"), Do("RemoveFile"), Do("DropAttributes")>>

\* Mutant: the ETag comes from the path too.
EtagByPath(r) ==
  Begin \o <<Do("Source")>>
  \o If(r.from.v # Unnamed, <<Do("VersioningOn"), Resolve("default")>>)
  \o <<StatBucket, acquireObjectMutationLock>> \o If(r.from.v = Unnamed, <<ReadPath("vid")>>)
  \o <<ReadPath("etag"), Do("Open"), Do("CopyWhere")>>
\* The source is resolved before the lock of the destination is waited for.
\* Its bytes, ETag, version ID and checksums come from the file that is opened,
\* its metadata and tags from the path.
CopyObject(r) ==
  Begin \o <<Do("Source")>>
  \o If(r.from.v # Unnamed, <<Do("VersioningOn"), Resolve("default")>>)
  \o <<StatBucket, acquireObjectMutationLock, Do("Open")>>
  \o If(r.from.v = Unnamed, <<ReadFile("vid")>>) \o <<ReadFile("etag"), Do("CopyWhere")>>
\* Onto itself: only the attributes change.
CopyInPlace(r) ==
  <<RemovePath("meta", TRUE), ReadPath("sums"), ReadPath("etag"), ReadPath("vid"), StorePath("meta")>>
  \o If("tags" \in r.with, <<Do("StatObject"), ensureNotDeleteMarker, StorePath("tags")>>)
CopyElsewhere(r) ==
  <<ReadFile("sums")>> \o If("meta" \notin r.with, <<ReadPath("meta")>>)
  \o If("tags" \notin r.with, <<ReadPath("tags")>>) \o <<Do("Destination"), StatBucket>> \o Put_(r)
  \o If("tags" \notin r.with, <<Do("CopyTags")>>)

ProgramOf(r) ==
  CASE r.op = "CreateBucket" -> CreateBucket(r)
    [] r.op = "HeadBucket" -> HeadBucket
    [] r.op = "DeleteBucket" -> DeleteBucket
    [] r.op = "PutBucketOwnershipControls" -> PutBucketOwnershipControls(r)
    [] r.op = "GetBucketOwnershipControls" -> GetBucketOwnershipControls
    [] r.op = "DeleteBucketOwnershipControls" -> DeleteBucketOwnershipControls
    [] r.op = "GetBucketVersioning" -> GetBucketVersioning
    [] r.op = "PutBucketVersioning" -> PutBucketVersioning(r)
    [] r.op = "PutObjectLockConfiguration" -> PutObjectLockConfiguration(r)
    [] r.op = "GetObjectLockConfiguration" -> GetObjectLockConfiguration
    [] r.op = "PutBucketAcl" -> PutBucketAcl(r)
    [] r.op = "GetBucketAcl" -> GetBucketAcl
    [] r.op = "PutBucketTagging" -> PutBucketTagging(r)
    [] r.op = "GetBucketTagging" -> GetBucketTagging
    [] r.op = "DeleteBucketTagging" -> DeleteBucketTagging
    [] r.op = "PutBucketPolicy" -> PutBucketPolicy(r)
    [] r.op = "GetBucketPolicy" -> GetBucketPolicy
    [] r.op = "DeleteBucketPolicy" -> DeleteBucketPolicy
    [] r.op = "PutBucketCors" -> PutBucketCors(r)
    [] r.op = "GetBucketCors" -> GetBucketCors
    [] r.op = "DeleteBucketCors" -> DeleteBucketCors
    [] r.op = "PutBucketWebsite" -> PutBucketWebsite(r)
    [] r.op = "GetBucketWebsite" -> GetBucketWebsite
    [] r.op = "DeleteBucketWebsite" -> DeleteBucketWebsite
    [] r.op = "ChangeBucketOwner" -> ChangeBucketOwner(r)
    [] r.op = "GetObjectTagging" -> GetObjectTagging(r)
    [] r.op = "PutObjectTagging" -> PutObjectTagging(r)
    [] r.op = "DeleteObjectTagging" -> DeleteObjectTagging(r)
    [] r.op = "GetObjectLegalHold" -> GetObjectLegalHold(r)
    [] r.op = "PutObjectLegalHold" -> PutObjectLegalHold(r)
    [] r.op = "GetObjectRetention" -> GetObjectRetention(r)
    [] r.op = "PutObjectRetention" -> PutObjectRetention(r)
    [] r.op = "GetObject" -> GetObject(r)
    [] r.op = "HeadObject" -> HeadObject(r)
    [] r.op = "GetObjectAttributes" -> GetObjectAttributes(r)
    [] r.op = "PutObject" -> PutObject(r)
    [] r.op = "DeleteObject" -> DeleteObject(r)
    [] r.op = "DeleteObjects" -> DeleteObjects(r)
    [] r.op = "CopyObject" -> CopyObject(r)
=============================================================================
