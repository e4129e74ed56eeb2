----------------------------- MODULE S3Handlers -----------------------------
(***************************************************************************)
(* The controllers of the S3 API and of the admin API                      *)
(* (src/s3api/controllers), each as the sequence of the checks and backend *)
(* calls that it makes, in their order.  A step that fails ends the        *)
(* request.  S3Request says what each step reads and does; between two     *)
(* steps other requests take theirs.                                       *)
(*                                                                         *)
(* `r` is the request: r.version, it names a version; r.bypass, it asks to *)
(* bypass governance retention; r.headers, the optional headers it sends.  *)
(***************************************************************************)
EXTENDS Naturals, Sequences

\* verifyAccess for `actions` on the object or the bucket.  `pub`: the handler
\* tells it that the request was let through as public.
Authorize(perm, on, actions, pub) ==
  [do |-> "Authorize", perm |-> perm, on |-> on, actions |-> actions, pub |-> pub]
\* The request is well-formed in what the handler parses here.
Valid == [do |-> "Valid"]
\* CheckObjectAccess.
CheckObjectAccess(bypass, overwrite) ==
  [do |-> "LoadLock", bypass |-> bypass, overwrite |-> overwrite]
\* resolveWriteEncryption: the request's encryption or the bucket's default.
ResolveEncryption == [do |-> "Encrypt"]
\* Destination and, for other than administrators, source of a copy.
CopyAccess(actions, pub) == [do |-> "Copy", actions |-> actions, pub |-> pub]
Do(what) == [do |-> what]
Call(name) == [do |-> "Call", name |-> name]

BucketStep(perm, action) == Authorize(perm, "bucket", {action}, TRUE)
ObjectStep(perm, action) == Authorize(perm, "object", {action}, TRUE)

\* The action for a version where the request names one.
OfVersion(r, action, versionAction) == IF r.version THEN versionAction ELSE action

\* PutObject and what its headers ask for besides.
WriteActions(r) ==
  {"PutObject"} \cup
  {CASE h = "tagging" -> "PutObjectTagging"
     [] h = "legalhold" -> "PutObjectLegalHold"
     [] h = "retention" -> "PutObjectRetention" : h \in r.headers}

BypassModeForRequest(r) == IF r.bypass THEN "requested" ELSE "none"

-----------------------------------------------------------------------------
(* Buckets *)

ListBuckets == <<Do("ListAll"), Valid, Call("Read")>>

CreateBucket == <<Do("MayCreate"), Valid, Do("Resolve"), Call("CreateBucket")>>

HeadBucket == <<BucketStep("READ", "ListBucket"), Call("Read")>>
GetBucketLocation == <<BucketStep("READ", "GetBucketLocation"), Call("Read")>>
DeleteBucket == <<BucketStep("WRITE", "DeleteBucket"), Call("DeleteBucket")>>

ListObjects == <<BucketStep("READ", "ListBucket"), Valid, Call("Read")>>
ListObjectsV2 == <<BucketStep("READ", "ListBucket"), Valid, Call("Read")>>
ListObjectVersions == <<BucketStep("READ", "ListBucketVersions"), Valid, Call("Read")>>
ListMultipartUploads ==
  <<BucketStep("READ", "ListBucketMultipartUploads"), Valid, Call("Read")>>

GetBucketTagging == <<BucketStep("READ", "GetBucketTagging"), Call("Read")>>
PutBucketTagging == <<BucketStep("WRITE", "PutBucketTagging"), Valid, Call("PutBucketTagging")>>
DeleteBucketTagging == <<BucketStep("WRITE", "PutBucketTagging"), Call("DeleteBucketTagging")>>

GetBucketOwnershipControls ==
  <<BucketStep("READ", "GetBucketOwnershipControls"), Call("Read")>>
PutBucketOwnershipControls ==
  <<Authorize("WRITE", "bucket", {"PutBucketOwnershipControls"}, FALSE), Valid,
    Call("PutBucketOwnershipControls")>>
DeleteBucketOwnershipControls ==
  <<Authorize("WRITE", "bucket", {"PutBucketOwnershipControls"}, FALSE),
    Call("DeleteBucketOwnershipControls")>>

GetBucketVersioning ==
  <<BucketStep("READ", "GetBucketVersioning"), Do("Owner"), Call("Read")>>
PutBucketVersioning ==
  <<BucketStep("WRITE", "PutBucketVersioning"), Valid, Call("PutBucketVersioning")>>

GetObjectLockConfiguration ==
  <<BucketStep("READ", "GetBucketObjectLockConfiguration"), Call("Read")>>
PutObjectLockConfiguration ==
  <<BucketStep("WRITE", "PutBucketObjectLockConfiguration"), Valid,
    Call("PutObjectLockConfiguration")>>

GetBucketCors == <<BucketStep("READ", "GetBucketCors"), Call("Read")>>
PutBucketCors == <<BucketStep("WRITE", "PutBucketCors"), Valid, Call("PutBucketCors")>>
DeleteBucketCors == <<BucketStep("WRITE", "PutBucketCors"), Call("DeleteBucketCors")>>
CORSOptions == <<Valid, Call("Read"), Valid>>

GetBucketWebsite == <<BucketStep("READ", "GetBucketWebsite"), Call("Read")>>
PutBucketWebsite == <<BucketStep("WRITE", "PutBucketWebsite"), Valid, Call("PutBucketWebsite")>>
DeleteBucketWebsite == <<BucketStep("WRITE", "DeleteBucketWebsite"), Call("DeleteBucketWebsite")>>

GetBucketPolicy == <<BucketStep("READ", "GetBucketPolicy"), Call("Read")>>
GetBucketPolicyStatus == <<BucketStep("READ", "GetBucketPolicyStatus"), Call("Read")>>
PutBucketPolicy ==
  <<Authorize("WRITE", "bucket", {"PutBucketPolicy"}, FALSE), Valid, Call("PutBucketPolicy")>>
DeleteBucketPolicy ==
  <<Authorize("WRITE", "bucket", {"DeleteBucketPolicy"}, FALSE), Call("DeleteBucketPolicy")>>

GetBucketAcl == <<BucketStep("READ_ACP", "GetBucketAcl"), Call("Read")>>
PutBucketAcl ==
  <<Authorize("WRITE_ACP", "bucket", {"PutBucketAcl"}, FALSE), Do("AclsUsed"), Valid,
    Do("Ownership"), Valid, Do("Resolve"), Call("PutBucketAcl")>>

authorizeEncryption(perm, action) == BucketStep(perm, action)
GetBucketEncryption ==
  <<authorizeEncryption("READ", "GetEncryptionConfiguration"), Call("Read")>>
PutBucketEncryption ==
  <<authorizeEncryption("WRITE", "PutEncryptionConfiguration"), Valid,
    Call("PutEncryptionConfiguration")>>
DeleteBucketEncryption ==
  <<authorizeEncryption("WRITE", "PutEncryptionConfiguration"),
    Call("DeleteEncryptionConfiguration")>>

authorizeLifecycle(perm, action) == BucketStep(perm, action)
GetBucketLifecycleConfiguration ==
  <<authorizeLifecycle("READ", "GetLifecycleConfiguration"), Call("Read")>>
PutBucketLifecycleConfiguration ==
  <<authorizeLifecycle("WRITE", "PutLifecycleConfiguration"), Valid,
    Call("PutLifecycleConfiguration")>>
DeleteBucketLifecycle ==
  <<authorizeLifecycle("WRITE", "PutLifecycleConfiguration"),
    Call("DeleteLifecycleConfiguration")>>

-----------------------------------------------------------------------------
(* Objects *)

GetObject(r) ==
  <<Do("NoOverrides"), ObjectStep("READ", OfVersion(r, "GetObject", "GetObjectVersion")),
    Valid, Call("Read")>>
HeadObject(r) ==
  <<Do("NoOverrides"), ObjectStep("READ", OfVersion(r, "GetObject", "GetObjectVersion")),
    Valid, Call("Read")>>
GetObjectAttributes(r) ==
  <<ObjectStep("READ", OfVersion(r, "GetObjectAttributes", "GetObjectVersionAttributes")),
    Valid, Call("Read")>>
GetObjectAcl == <<ObjectStep("READ_ACP", "GetObjectAcl"), Call("Read")>>
PutObjectAcl ==
  <<Authorize("WRITE", "object", {"PutObjectAcl"}, FALSE), Call("PutObjectAcl")>>
SelectObjectContent == <<ObjectStep("READ", "GetObject"), Valid, Call("Read")>>
RestoreObject == <<ObjectStep("WRITE", "RestoreObject"), Valid, Call("RestoreObject")>>

GetObjectTagging(r) ==
  <<ObjectStep("READ", OfVersion(r, "GetObjectTagging", "GetObjectVersionTagging")),
    Call("Read")>>
PutObjectTagging(r) ==
  <<ObjectStep("WRITE", OfVersion(r, "PutObjectTagging", "PutObjectVersionTagging")),
    Valid, Call("PutObjectTagging")>>
DeleteObjectTagging(r) ==
  <<ObjectStep("WRITE", OfVersion(r, "DeleteObjectTagging", "DeleteObjectVersionTagging")),
    Call("DeleteObjectTagging")>>

GetObjectRetention == <<ObjectStep("READ", "GetObjectRetention"), Call("Read")>>
PutObjectRetention ==
  <<ObjectStep("WRITE", "PutObjectRetention"), Valid, Do("Retain"), Call("PutObjectRetention")>>
GetObjectLegalHold == <<ObjectStep("READ", "GetObjectLegalHold"), Call("Read")>>
PutObjectLegalHold ==
  <<ObjectStep("WRITE", "PutObjectLegalHold"), Valid, Call("PutObjectLegalHold")>>

PutObject(r) ==
  <<Authorize("WRITE", "object", WriteActions(r), TRUE), Valid,
    CheckObjectAccess("overwrite", TRUE), Valid, ResolveEncryption, Call("PutObject")>>
\* The access is that to the bucket: the form's key is no part of it.
POSTObject ==
  <<Authorize("WRITE", "bucket", {"PutObject"}, TRUE), ResolveEncryption, Valid,
    Call("PutObject")>>
CopyObject(r) ==
  <<Valid, CopyAccess(WriteActions(r), FALSE), Valid, ResolveEncryption,
    CheckObjectAccess("overwrite", TRUE), Call("CopyObject")>>
DeleteObject(r) ==
  <<ObjectStep("WRITE", OfVersion(r, "DeleteObject", "DeleteObjectVersion")),
    CheckObjectAccess(BypassModeForRequest(r), FALSE), Call("DeleteObject")>>
DeleteObjects(r) ==
  <<Valid, Do("Objects"), CheckObjectAccess(BypassModeForRequest(r), FALSE),
    Call("DeleteObjects")>>

CreateMultipartUpload(r) ==
  <<Authorize("WRITE", "object", WriteActions(r), FALSE), Valid, ResolveEncryption,
    Call("CreateMultipartUpload")>>
UploadPart == <<ObjectStep("WRITE", "PutObject"), Valid, Call("UploadPart")>>
UploadPartCopy ==
  <<Valid, CopyAccess({"PutObject"}, TRUE), Valid, Call("UploadPart")>>
ListParts == <<ObjectStep("READ", "ListMultipartUploadParts"), Valid, Call("Read")>>
AbortMultipartUpload ==
  <<ObjectStep("WRITE", "AbortMultipartUpload"), Call("AbortMultipartUpload")>>
CompleteMultipartUpload ==
  <<ObjectStep("WRITE", "PutObject"), Valid, CheckObjectAccess("overwrite", TRUE),
    Call("CompleteMultipartUpload")>>

-----------------------------------------------------------------------------
(* Administration *)

CreateUser == <<Valid, Call("CreateUser")>>
UpdateUser == <<Valid, Call("UpdateUser")>>
DeleteUser == <<Valid, Call("DeleteUser")>>
ListUsers == <<Call("Read")>>
AdminListBuckets == <<Call("Read")>>
ChangeBucketOwner ==
  <<Do("OwnersVary"), Do("Resolve"), Call("PutBucketOwner"), Call("DeleteBucketPolicy")>>
AdminCreateBucket == <<Valid, Do("Resolve")>> \o CreateBucket

HandleErrorRoute == <<Do("Refuse")>>

-----------------------------------------------------------------------------
\* The controllers whose answer names an event for the notification service.
Events ==
  {"PutObject", "POSTObject", "CopyObject", "CompleteMultipartUpload", "DeleteObject",
   "DeleteObjects", "PutObjectTagging", "DeleteObjectTagging", "PutObjectAcl",
   "RestoreObject"}

Controller(name, r) ==
  CASE name = "ListBuckets" -> ListBuckets
    [] name = "CreateBucket" -> CreateBucket
    [] name = "HeadBucket" -> HeadBucket
    [] name = "GetBucketLocation" -> GetBucketLocation
    [] name = "DeleteBucket" -> DeleteBucket
    [] name = "ListObjects" -> ListObjects
    [] name = "ListObjectsV2" -> ListObjectsV2
    [] name = "ListObjectVersions" -> ListObjectVersions
    [] name = "ListMultipartUploads" -> ListMultipartUploads
    [] name = "GetBucketTagging" -> GetBucketTagging
    [] name = "PutBucketTagging" -> PutBucketTagging
    [] name = "DeleteBucketTagging" -> DeleteBucketTagging
    [] name = "GetBucketOwnershipControls" -> GetBucketOwnershipControls
    [] name = "PutBucketOwnershipControls" -> PutBucketOwnershipControls
    [] name = "DeleteBucketOwnershipControls" -> DeleteBucketOwnershipControls
    [] name = "GetBucketVersioning" -> GetBucketVersioning
    [] name = "PutBucketVersioning" -> PutBucketVersioning
    [] name = "GetObjectLockConfiguration" -> GetObjectLockConfiguration
    [] name = "PutObjectLockConfiguration" -> PutObjectLockConfiguration
    [] name = "GetBucketCors" -> GetBucketCors
    [] name = "PutBucketCors" -> PutBucketCors
    [] name = "DeleteBucketCors" -> DeleteBucketCors
    [] name = "CORSOptions" -> CORSOptions
    [] name = "GetBucketWebsite" -> GetBucketWebsite
    [] name = "PutBucketWebsite" -> PutBucketWebsite
    [] name = "DeleteBucketWebsite" -> DeleteBucketWebsite
    [] name = "GetBucketPolicy" -> GetBucketPolicy
    [] name = "GetBucketPolicyStatus" -> GetBucketPolicyStatus
    [] name = "PutBucketPolicy" -> PutBucketPolicy
    [] name = "DeleteBucketPolicy" -> DeleteBucketPolicy
    [] name = "GetBucketAcl" -> GetBucketAcl
    [] name = "PutBucketAcl" -> PutBucketAcl
    [] name = "GetBucketEncryption" -> GetBucketEncryption
    [] name = "PutBucketEncryption" -> PutBucketEncryption
    [] name = "DeleteBucketEncryption" -> DeleteBucketEncryption
    [] name = "GetBucketLifecycleConfiguration" -> GetBucketLifecycleConfiguration
    [] name = "PutBucketLifecycleConfiguration" -> PutBucketLifecycleConfiguration
    [] name = "DeleteBucketLifecycle" -> DeleteBucketLifecycle
    [] name = "GetObject" -> GetObject(r)
    [] name = "HeadObject" -> HeadObject(r)
    [] name = "GetObjectAttributes" -> GetObjectAttributes(r)
    [] name = "GetObjectAcl" -> GetObjectAcl
    [] name = "PutObjectAcl" -> PutObjectAcl
    [] name = "SelectObjectContent" -> SelectObjectContent
    [] name = "RestoreObject" -> RestoreObject
    [] name = "GetObjectTagging" -> GetObjectTagging(r)
    [] name = "PutObjectTagging" -> PutObjectTagging(r)
    [] name = "DeleteObjectTagging" -> DeleteObjectTagging(r)
    [] name = "GetObjectRetention" -> GetObjectRetention
    [] name = "PutObjectRetention" -> PutObjectRetention
    [] name = "GetObjectLegalHold" -> GetObjectLegalHold
    [] name = "PutObjectLegalHold" -> PutObjectLegalHold
    [] name = "PutObject" -> PutObject(r)
    [] name = "POSTObject" -> POSTObject
    [] name = "CopyObject" -> CopyObject(r)
    [] name = "DeleteObject" -> DeleteObject(r)
    [] name = "DeleteObjects" -> DeleteObjects(r)
    [] name = "CreateMultipartUpload" -> CreateMultipartUpload(r)
    [] name = "UploadPart" -> UploadPart
    [] name = "UploadPartCopy" -> UploadPartCopy
    [] name = "ListParts" -> ListParts
    [] name = "AbortMultipartUpload" -> AbortMultipartUpload
    [] name = "CompleteMultipartUpload" -> CompleteMultipartUpload
    [] name = "CreateUser" -> CreateUser
    [] name = "UpdateUser" -> UpdateUser
    [] name = "DeleteUser" -> DeleteUser
    [] name = "ListUsers" -> ListUsers
    [] name = "AdminListBuckets" -> AdminListBuckets
    [] name = "ChangeBucketOwner" -> ChangeBucketOwner
    [] name = "AdminCreateBucket" -> AdminCreateBucket
    [] OTHER -> HandleErrorRoute
=============================================================================
