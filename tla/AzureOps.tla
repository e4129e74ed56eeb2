------------------------------ MODULE AzureOps ------------------------------
(***************************************************************************)
(* The operations of the Azure backend, each as the sequence of the calls  *)
(* it makes to the blob service (src/backend/azure).  A bucket is a        *)
(* container, whose metadata holds the bucket's settings; an object is a   *)
(* blob, whose metadata holds its locks.  AzureBlobs says what a call      *)
(* reads and changes.                                                      *)
(*                                                                         *)
(* `r` is the request: r.k its key, r.from the key a copy reads, r.u and   *)
(* r.n an upload and a part number, r.parts the parts a completion lists,  *)
(* r.cond a condition, and r.with what else the caller asks for.           *)
(***************************************************************************)
EXTENDS Integers, Sequences

CONSTANT PartNumbers           \* the part numbers of an upload, a sequence

None == "none"

(* Blobs: an object; createMetaTmpPath, the marker of an upload, in the      *)
(* prefix for temporary blobs; azureMultipartPartPath, a part of an          *)
(* encrypted upload.                                                         *)
Obj(k) == <<"object", k>>
createMetaTmpPath(u) == <<"upload", u>>
azureMultipartPartPath(u, n) == <<"part", u, n>>

Do(what) == [do |-> what]
\* GetProperties of a blob; `missing` is what the caller does about a 404.
Props(b, missing) == [do |-> "Props", b |-> b, missing |-> missing]
\* SetMetadata: all of the metadata is replaced, on no condition.
SetMeta(b, kind) == [do |-> "SetMeta", b |-> b, kind |-> kind]
Upload(b, kind) == [do |-> "Upload", b |-> b, kind |-> kind]
Delete(b, missing) == [do |-> "Delete", b |-> b, missing |-> missing, match |-> FALSE]
DeleteIfMatch(b) == [do |-> "Delete", b |-> b, missing |-> "fail", match |-> TRUE]
GetTags(b) == [do |-> "GetTags", b |-> b, missing |-> "fail"]
\* Tags that cannot be read are taken for none.
TryTags(b) == [do |-> "GetTags", b |-> b, missing |-> "go"]
SetTags(b, from) == [do |-> "SetTags", b |-> b, from |-> from]
Open(b) == [do |-> "Open", b |-> b]
\* DownloadStream; `all`: its metadata is used too.
Download(b, all) == [do |-> "Download", b |-> b, all |-> all]
\* A local decision: the request goes on, or ends.
Check(what) == [do |-> "Check", what |-> what]
\* A local decision between two ways to go on.
Either(what, yes, no) == [do |-> "Either", what |-> what, yes |-> yes, no |-> no]
If(condition, steps) == IF condition THEN steps ELSE <<>>

-----------------------------------------------------------------------------
(* Settings of a bucket: a read of all the metadata of the container, and a  *)
(* write of all of it.                                                       *)

ContainerProps == Do("ContainerProps")
SetContainer(attr, value, base) ==
  [do |-> "SetContainer", attr |-> attr, value |-> value, base |-> base]
getContainerMetaData(attr) == <<ContainerProps, [do |-> "Need", attr |-> attr]>>
setContainerMetaData(attr, value) == <<ContainerProps, SetContainer(attr, value, "read")>>
deleteContainerMetaData(attr) == <<ContainerProps, SetContainer(attr, None, "read")>>

\* One call makes the container with its metadata.  A container that is there
\* has its owner read, for the answer.
CreateBucket(r) == <<Do("CreateContainer")>>
HeadBucket == <<ContainerProps>>
\* Blobs under the prefix for temporary blobs do not count.
DeleteBucket == <<Do("NoObjects"), Do("DeleteContainer")>>

PutBucketOwnershipControls(r) == setContainerMetaData("ownership", r.id)
GetBucketOwnershipControls == getContainerMetaData("ownership")
DeleteBucketOwnershipControls == deleteContainerMetaData("ownership")
PutBucketTagging(r) == IF "delete" \in r.with THEN deleteContainerMetaData("tags")
                       ELSE setContainerMetaData("tags", r.id)
GetBucketTagging == getContainerMetaData("tags")
DeleteBucketTagging(r) == PutBucketTagging([r EXCEPT !.with = {"delete"}])
PutBucketAcl(r) == setContainerMetaData("acl", r.id)
GetBucketAcl == <<ContainerProps>>
\* An empty policy or CORS configuration removes the setting.
PutBucketPolicy(r) == setContainerMetaData("policy", r.id)
GetBucketPolicy == getContainerMetaData("policy")
DeleteBucketPolicy == deleteContainerMetaData("policy")
PutBucketCors(r) == setContainerMetaData("cors", r.id)
GetBucketCors == getContainerMetaData("cors")
DeleteBucketCors == deleteContainerMetaData("cors")
PutBucketWebsite(r) == setContainerMetaData("website", r.id)
GetBucketWebsite == getContainerMetaData("website")
DeleteBucketWebsite == deleteContainerMetaData("website")
PutObjectLockConfiguration(r) == setContainerMetaData("lock", r.id)
GetObjectLockConfiguration == getContainerMetaData("lock")
PutBucketEncryption(r) == setContainerMetaData("encryption", r.id)
GetBucketEncryption == <<ContainerProps>>
\* Deleting the configuration stores the default one.
DeleteBucketEncryption == setContainerMetaData("encryption", "default")
PutBucketLifecycleConfiguration(r) == setContainerMetaData("lifecycle", r.id)
GetBucketLifecycleConfiguration == getContainerMetaData("lifecycle")
DeleteBucketLifecycleConfiguration == deleteContainerMetaData("lifecycle")
\* UpdateBucketACLOwner: the ACL, then the policy.
ChangeBucketOwner(r) == PutBucketAcl(r) \o DeleteBucketPolicy

-----------------------------------------------------------------------------
(* Locks and tags of an object *)

isBucketObjectLockEnabled == getContainerMetaData("lock")
PutObjectRetention(r) ==
  isBucketObjectLockEnabled \o <<Props(Obj(r.k), "fail"), SetMeta(Obj(r.k), "retention")>>
PutObjectLegalHold(r) ==
  isBucketObjectLockEnabled \o <<Props(Obj(r.k), "fail"), SetMeta(Obj(r.k), "hold")>>
GetObjectRetention(r) == <<Props(Obj(r.k), "fail")>> \o isBucketObjectLockEnabled \o <<Check("retention")>>
GetObjectLegalHold(r) == <<Props(Obj(r.k), "fail")>> \o isBucketObjectLockEnabled \o <<Check("hold")>>
PutObjectTagging(r) == <<SetTags(Obj(r.k), "request")>>
GetObjectTagging(r) == <<GetTags(Obj(r.k))>>
DeleteObjectTagging(r) == <<SetTags(Obj(r.k), "none")>>
Locks(r) ==
  If("hold" \in r.with, PutObjectLegalHold(r)) \o If("retention" \in r.with, PutObjectRetention(r))

-----------------------------------------------------------------------------
(* Objects *)

\* The conditions, and the header of an encrypted object, are looked at first.
HeadObject(r, k) == <<Props(Obj(k), "fail"), Check("read"), Open(Obj(k))>>
\* The body is another call, on no condition.
GetObject(r, k) == HeadObject(r, k) \o <<Download(Obj(k), FALSE)>>
GetObjectAttributes(r) == HeadObject(r, r.k)

\* The conditions of a write are looked at in a HeadObject of their own.
HeadIfThere(k) == <<Props(Obj(k), "go"), Either("object found", <<Open(Obj(k))>>, <<>>)>>
evaluateWritePreconditions(r) == If(r.cond # None, HeadIfThere(r.k) \o <<Check("write")>>)
PutObject(r) == evaluateWritePreconditions(r) \o <<Upload(Obj(r.k), "body")>> \o Locks(r)
DeleteObject(r) ==
  If(r.cond # None, HeadIfThere(r.k) \o <<Check("delete")>>) \o <<Delete(Obj(r.k), "go")>>
\* One key after the other, whatever comes of each.
DeleteObjects(r) ==
  DeleteObject(r) \o <<Do("NextKey")>> \o DeleteObject([r EXCEPT !.k = r.from])
ListObjects(r) == <<Do("ListBlobs")>>

-----------------------------------------------------------------------------
(* Copies *)

copyTags(r) == If("tags" \notin r.with, <<GetTags(Obj(r.from)), SetTags(Obj(r.k), "read")>>)
\* The source is read through its envelope and written as a new object.
copyObjectWithEnvelope(r) ==
  GetObject(r, r.from) \o If("tags" \notin r.with, <<GetTags(Obj(r.from))>>)
  \o <<Upload(Obj(r.k), "envelope")>> \o Locks(r)
  \o If("tags" \notin r.with, <<SetTags(Obj(r.k), "read")>>)
\* An object copied to itself has its headers and its metadata replaced: the
\* locks kept there are not among the new ones.
copyInPlace(r) ==
  <<Props(Obj(r.k), "fail"), Do("SetHeaders"), SetMeta(Obj(r.k), "request")>> \o Locks(r)
  \o If("tags" \in r.with, <<SetTags(Obj(r.k), "request")>>)
copyByDownload(r) ==
  <<Download(Obj(r.from), TRUE), Upload(Obj(r.k), "download")>> \o Locks(r) \o copyTags(r)
\* A copy that the service does not start is made by download.
StartCopy(r) == [do |-> "StartCopy", fallback |-> copyByDownload(r)]
\* Mutant: empty metadata is left to the service.
NotCleared(r) ==
  <<StartCopy(r), Do("WaitForCopy")>> \o If("meta" \in r.with, <<Do("SetHeaders")>>)
  \o copyTags(r) \o Locks(r)
\* No metadata in the call makes the service copy the source's: where the
\* source's were left out the copy is cleared, where the client gave none it is not.
serverSideCopyObject(r) ==
  <<StartCopy(r), Do("WaitForCopy"),
    Either("empty metadata", <<SetMeta(Obj(r.k), "clear")>>, <<>>)>>
  \o If("meta" \in r.with, <<Do("SetHeaders")>>) \o copyTags(r) \o Locks(r)
CopyObject(r) ==
  <<Check("copy to itself")>> \o If("owner" \in r.with, <<ContainerProps>>)
  \o HeadObject(r, r.from)
  \o <<Either("envelope", copyObjectWithEnvelope(r),
         IF r.from = r.k THEN copyInPlace(r)
         ELSE <<Props(Obj(r.from), "fail"),
                Either("service copies", serverSideCopyObject(r), copyByDownload(r))>>)>>

-----------------------------------------------------------------------------
(* Multipart uploads.  The blocks of a plain upload are staged on the object *)
(* itself, the parts of an encrypted one are blobs of their own.             *)

CreateMultipartUpload(r) ==
  If({"hold", "retention"} \cap r.with # {}, isBucketObjectLockEnabled)
  \o <<Upload(createMetaTmpPath(r.u), "marker")>>
checkIfMpExists(r) == <<Props(createMetaTmpPath(r.u), "fail")>>
multipartEncryptionState(r) == <<Props(createMetaTmpPath(r.u), "fail")>>
trackZeroBytePart(r) ==
  <<Props(createMetaTmpPath(r.u), "fail"), SetMeta(createMetaTmpPath(r.u), "zero")>>
\* Mutant: the path of a part does not have the ID of its upload.
UnscopedPart(r) == <<Upload(azureMultipartPartPath("sealed", r.n), "part")>>
uploadEncryptedPart(r) == <<Upload(azureMultipartPartPath(r.u, r.n), "part")>>
UploadPart(r) ==
  checkIfMpExists(r) \o multipartEncryptionState(r)
  \o <<Either("encrypted upload", uploadEncryptedPart(r),
              IF "zero" \in r.with THEN trackZeroBytePart(r) ELSE <<Do("StageBlock")>>)>>
UploadPartCopy(r) ==
  checkIfMpExists(r) \o multipartEncryptionState(r)
  \o <<Either("encrypted upload", GetObject(r, r.from) \o uploadEncryptedPart(r), <<Do("StageFromURL")>>)>>
listEncryptedParts(r) == <<Do("ListParts")>>
ListParts(r) ==
  checkIfMpExists(r) \o multipartEncryptionState(r)
  \o <<Either("encrypted upload", listEncryptedParts(r),
              <<Do("BlockList"), Props(createMetaTmpPath(r.u), "go")>>)>>
ListMultipartUploads(r) == <<Do("ListBlobs")>>

\* The parts that were listed, and the marker last: the upload stays known
\* until all of it is gone.
CleanParts(r) ==
  [i \in DOMAIN PartNumbers |->
     [do |-> "CleanPart", b |-> azureMultipartPartPath(r.u, PartNumbers[i]), n |-> PartNumbers[i]]]
cleanupEncryptedMultipart(r) == CleanParts(r) \o <<Delete(createMetaTmpPath(r.u), "go")>>

\* Mutant: an abort that does not find the marker goes on to the object.
AnyMarker(r) ==
  multipartEncryptionState(r)
  \o <<Either("encrypted upload", listEncryptedParts(r) \o cleanupEncryptedMultipart(r),
              <<Delete(createMetaTmpPath(r.u), "go"), Delete(Obj(r.k), "go")>>)>>
\* A plain upload is aborted by deleting its marker, then the blob of the object.
AbortMultipartUpload(r) ==
  If("initiated" \in r.with, <<Props(createMetaTmpPath(r.u), "fail"), Check("initiated")>>)
  \o multipartEncryptionState(r)
  \o <<Either("encrypted upload", listEncryptedParts(r) \o cleanupEncryptedMultipart(r),
              <<Delete(createMetaTmpPath(r.u), "fail"), Delete(Obj(r.k), "go")>>)>>

writeEncryptedAzureParts(r) ==
  [i \in DOMAIN r.parts |->
     [do |-> "ReadPart", b |-> azureMultipartPartPath(r.u, r.parts[i]), n |-> r.parts[i]]]
completeEncryptedMultipart(r) ==
  listEncryptedParts(r) \o <<Check("encrypted parts"), Check("object size")>>
  \o writeEncryptedAzureParts(r)
  \o <<Upload(Obj(r.k), "complete")>> \o cleanupEncryptedMultipart(r)
resumeCompletedEncryptedMultipart(r) == listEncryptedParts(r) \o cleanupEncryptedMultipart(r)
\* The marker is read again, for its empty parts only.
getZeroByteParts(r) == <<[do |-> "ZeroParts", b |-> createMetaTmpPath(r.u)]>>
completePlain(r) ==
  <<Do("BlockList")>> \o getZeroByteParts(r)
  \o <<Check("blocks"), Check("block sizes"), Check("object size"), Do("Commit"),
    Delete(createMetaTmpPath(r.u), "fail")>>
\* A completion of an upload whose marker is gone is a success if the object
\* says that it came from that upload.
CompleteMultipartUpload(r) ==
  evaluateWritePreconditions(r)
  \o <<Props(createMetaTmpPath(r.u), "go"),
       Either("upload found",
         <<GetTags(createMetaTmpPath(r.u)),
           Either("encrypted upload",
             <<Props(Obj(r.k), "go"),
               Either("from this upload", resumeCompletedEncryptedMultipart(r),
                      completeEncryptedMultipart(r))>>,
             completePlain(r))>>,
         <<Props(Obj(r.k), "fail"), Check("from this upload")>>)>>

-----------------------------------------------------------------------------
(* Lifecycle: a scan of one object, or of one upload, by a worker that has   *)
(* the lease of the bucket.                                                  *)

AcquireLifecycleLease == Do("Acquire")
activeLifecycleLease == Check("lease")
Close == Do("Release")
\* What is known of the object goes into the state token of the candidate; the
\* retention is not looked at where there is a hold.
Note(to, what) == [do |-> "Note", to |-> to, what |-> what]
lifecycleObjectCandidate(r, to) ==
  HeadObject(r, r.k)
  \o <<Note(to, "object"), TryTags(Obj(r.k)), Props(Obj(r.k), "fail"), ContainerProps, Note(to, "hold"),
       Either("held", <<>>, <<Props(Obj(r.k), "fail"), ContainerProps, Note(to, "retention")>>)>>
\* Found in the listing of uploads; its token is made of the time it was created.
findLifecycleUpload(r, to) ==
  <<Do("ListBlobs"), Props(createMetaTmpPath(r.u), "fail"), Note(to, "upload")>>
ApplyLifecycleDelete(r) ==
  <<activeLifecycleLease>> \o lifecycleObjectCandidate(r, "again")
  \o <<Check("same candidate"), activeLifecycleLease, DeleteIfMatch(Obj(r.k))>>
ApplyLifecycleAbort(r) ==
  <<activeLifecycleLease>> \o findLifecycleUpload(r, "again")
  \o <<Check("same candidate"), activeLifecycleLease>>
  \o AbortMultipartUpload([r EXCEPT !.with = @ \cup {"initiated"}])
LifecycleDelete(r) ==
  <<AcquireLifecycleLease>> \o lifecycleObjectCandidate(r, "first") \o ApplyLifecycleDelete(r) \o <<Close>>
LifecycleAbort(r) ==
  <<AcquireLifecycleLease>> \o findLifecycleUpload(r, "first") \o ApplyLifecycleAbort(r) \o <<Close>>

-----------------------------------------------------------------------------
ProgramOf(r) ==
  CASE r.op = "CreateBucket" -> CreateBucket(r)
    [] r.op = "HeadBucket" -> HeadBucket
    [] r.op = "DeleteBucket" -> DeleteBucket
    [] r.op = "PutBucketOwnershipControls" -> PutBucketOwnershipControls(r)
    [] r.op = "GetBucketOwnershipControls" -> GetBucketOwnershipControls
    [] r.op = "DeleteBucketOwnershipControls" -> DeleteBucketOwnershipControls
    [] r.op = "PutBucketTagging" -> PutBucketTagging(r)
    [] r.op = "GetBucketTagging" -> GetBucketTagging
    [] r.op = "DeleteBucketTagging" -> DeleteBucketTagging(r)
    [] r.op = "PutBucketAcl" -> PutBucketAcl(r)
    [] r.op = "GetBucketAcl" -> GetBucketAcl
    [] r.op = "PutBucketPolicy" -> PutBucketPolicy(r)
    [] r.op = "GetBucketPolicy" -> GetBucketPolicy
    [] r.op = "DeleteBucketPolicy" -> DeleteBucketPolicy
    [] r.op = "PutBucketCors" -> PutBucketCors(r)
    [] r.op = "GetBucketCors" -> GetBucketCors
    [] r.op = "DeleteBucketCors" -> DeleteBucketCors
    [] r.op = "PutBucketWebsite" -> PutBucketWebsite(r)
    [] r.op = "GetBucketWebsite" -> GetBucketWebsite
    [] r.op = "DeleteBucketWebsite" -> DeleteBucketWebsite
    [] r.op = "PutObjectLockConfiguration" -> PutObjectLockConfiguration(r)
    [] r.op = "GetObjectLockConfiguration" -> GetObjectLockConfiguration
    [] r.op = "PutBucketEncryption" -> PutBucketEncryption(r)
    [] r.op = "GetBucketEncryption" -> GetBucketEncryption
    [] r.op = "DeleteBucketEncryption" -> DeleteBucketEncryption
    [] r.op = "PutBucketLifecycleConfiguration" -> PutBucketLifecycleConfiguration(r)
    [] r.op = "GetBucketLifecycleConfiguration" -> GetBucketLifecycleConfiguration
    [] r.op = "DeleteBucketLifecycleConfiguration" -> DeleteBucketLifecycleConfiguration
    [] r.op = "ChangeBucketOwner" -> ChangeBucketOwner(r)
    [] r.op = "PutObjectRetention" -> PutObjectRetention(r)
    [] r.op = "PutObjectLegalHold" -> PutObjectLegalHold(r)
    [] r.op = "GetObjectRetention" -> GetObjectRetention(r)
    [] r.op = "GetObjectLegalHold" -> GetObjectLegalHold(r)
    [] r.op = "PutObjectTagging" -> PutObjectTagging(r)
    [] r.op = "GetObjectTagging" -> GetObjectTagging(r)
    [] r.op = "DeleteObjectTagging" -> DeleteObjectTagging(r)
    [] r.op = "HeadObject" -> HeadObject(r, r.k)
    [] r.op = "GetObject" -> GetObject(r, r.k)
    [] r.op = "GetObjectAttributes" -> GetObjectAttributes(r)
    [] r.op = "PutObject" -> PutObject(r)
    [] r.op = "DeleteObject" -> DeleteObject(r)
    [] r.op = "DeleteObjects" -> DeleteObjects(r)
    [] r.op = "ListObjects" -> ListObjects(r)
    [] r.op = "CopyObject" -> CopyObject(r)
    [] r.op = "CreateMultipartUpload" -> CreateMultipartUpload(r)
    [] r.op = "UploadPart" -> UploadPart(r)
    [] r.op = "UploadPartCopy" -> UploadPartCopy(r)
    [] r.op = "ListParts" -> ListParts(r)
    [] r.op = "ListMultipartUploads" -> ListMultipartUploads(r)
    [] r.op = "AbortMultipartUpload" -> AbortMultipartUpload(r)
    [] r.op = "CompleteMultipartUpload" -> CompleteMultipartUpload(r)
    [] r.op = "LifecycleDelete" -> LifecycleDelete(r)
    [] r.op = "LifecycleAbort" -> LifecycleAbort(r)
=============================================================================
