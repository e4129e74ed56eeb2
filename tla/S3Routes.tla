------------------------------ MODULE S3Routes ------------------------------
(***************************************************************************)
(* The routes of the S3 API (src/s3api/router.go): which controller serves *)
(* a request, and the action and permission under which an anonymous       *)
(* request for it is let through.  Fiber tries the routes of a path and    *)
(* method in the order of their registration; a route whose query          *)
(* arguments or header do not match is skipped.  A request's `args` are    *)
(* the query arguments the routes look at, "copy-source" standing for the  *)
(* X-Amz-Copy-Source header.                                               *)
(***************************************************************************)
EXTENDS Naturals, Sequences

\* `acl`: whether ParseAcl is among the route's handlers; `auth`: whether the
\* route authenticates at all.
Row(args, controller, action, perm) ==
  [args |-> args, controller |-> controller, action |-> action, perm |-> perm,
   acl |-> TRUE, auth |-> "user"]
NoAclRow(args, controller, action, perm) ==
  [Row(args, controller, action, perm) EXCEPT !.acl = FALSE]
NotImplemented(args, action, perm) == Row(args, "HandleErrorRoute", action, perm)
ErrorRow(args) ==
  [Row(args, "HandleErrorRoute", "none", "READ") EXCEPT !.acl = FALSE, !.auth = "none"]
AdminRow(path, controller) ==
  [Row({path}, controller, "none", "WRITE") EXCEPT !.acl = FALSE, !.auth = "admin"]

PutAttributeRoutes == <<
  Row({"tagging"}, "PutBucketTagging", "PutBucketTagging", "WRITE"),
  Row({"ownershipControls"}, "PutBucketOwnershipControls", "PutBucketOwnershipControls", "WRITE"),
  Row({"versioning"}, "PutBucketVersioning", "PutBucketVersioning", "WRITE"),
  Row({"object-lock"}, "PutObjectLockConfiguration", "PutBucketObjectLockConfiguration", "WRITE"),
  Row({"cors"}, "PutBucketCors", "PutBucketCors", "WRITE"),
  Row({"policy"}, "PutBucketPolicy", "PutBucketPolicy", "WRITE"),
  Row({"acl"}, "PutBucketAcl", "PutBucketAcl", "WRITE_ACP"),
  NotImplemented({"analytics"}, "PutAnalyticsConfiguration", "WRITE"),
  Row({"encryption"}, "PutBucketEncryption", "PutEncryptionConfiguration", "WRITE"),
  NotImplemented({"intelligent-tiering"}, "PutIntelligentTieringConfiguration", "WRITE"),
  NotImplemented({"inventory"}, "PutInventoryConfiguration", "WRITE") >>

PutOtherRoutes == <<
  Row({"lifecycle"}, "PutBucketLifecycleConfiguration", "PutLifecycleConfiguration", "WRITE"),
  NotImplemented({"logging"}, "PutBucketLogging", "WRITE"),
  NotImplemented({"requestPayment"}, "PutBucketRequestPayment", "WRITE"),
  NotImplemented({"metrics"}, "PutMetricsConfiguration", "WRITE"),
  NotImplemented({"replication"}, "PutReplicationConfiguration", "WRITE"),
  NotImplemented({"publicAccessBlock"}, "PutBucketPublicAccessBlock", "WRITE"),
  NotImplemented({"notification"}, "PutBucketNotification", "WRITE"),
  NotImplemented({"accelerate"}, "PutAccelerateConfiguration", "WRITE"),
  Row({"website"}, "PutBucketWebsite", "PutBucketWebsite", "WRITE"),
  NoAclRow({}, "CreateBucket", "CreateBucket", "WRITE") >>

BucketHead == <<
  ErrorRow({"copy-source"}),
  Row({}, "HeadBucket", "ListBucket", "READ") >>

DeleteAttributeRoutes == <<
  ErrorRow({"copy-source"}),
  Row({"tagging"}, "DeleteBucketTagging", "PutBucketTagging", "WRITE"),
  Row({"ownershipControls"}, "DeleteBucketOwnershipControls", "PutBucketOwnershipControls", "WRITE"),
  Row({"policy"}, "DeleteBucketPolicy", "PutBucketPolicy", "WRITE"),
  Row({"cors"}, "DeleteBucketCors", "PutBucketCors", "WRITE"),
  NotImplemented({"analytics"}, "PutAnalyticsConfiguration", "WRITE"),
  Row({"encryption"}, "DeleteBucketEncryption", "PutEncryptionConfiguration", "WRITE"),
  NotImplemented({"intelligent-tiering"}, "PutIntelligentTieringConfiguration", "WRITE"),
  NotImplemented({"inventory"}, "PutInventoryConfiguration", "WRITE") >>

DeleteOtherRoutes == <<
  Row({"lifecycle"}, "DeleteBucketLifecycle", "PutLifecycleConfiguration", "WRITE"),
  NotImplemented({"metrics"}, "PutMetricsConfiguration", "WRITE"),
  NotImplemented({"replication"}, "PutReplicationConfiguration", "WRITE"),
  NotImplemented({"publicAccessBlock"}, "PutBucketPublicAccessBlock", "WRITE"),
  Row({"website"}, "DeleteBucketWebsite", "DeleteBucketWebsite", "WRITE"),
  Row({}, "DeleteBucket", "DeleteBucket", "WRITE") >>

GetAttributeRoutes == <<
  ErrorRow({"copy-source"}),
  Row({"location"}, "GetBucketLocation", "GetBucketLocation", "READ"),
  Row({"tagging"}, "GetBucketTagging", "GetBucketTagging", "READ"),
  Row({"ownershipControls"}, "GetBucketOwnershipControls", "GetBucketOwnershipControls", "READ"),
  Row({"versioning"}, "GetBucketVersioning", "GetBucketVersioning", "READ"),
  Row({"policy"}, "GetBucketPolicy", "GetBucketPolicy", "READ"),
  Row({"cors"}, "GetBucketCors", "GetBucketCors", "READ"),
  Row({"object-lock"}, "GetObjectLockConfiguration", "GetBucketObjectLockConfiguration", "READ"),
  Row({"acl"}, "GetBucketAcl", "GetBucketAcl", "READ_ACP"),
  Row({"uploads"}, "ListMultipartUploads", "ListBucketMultipartUploads", "READ") >>

GetOtherRoutes == <<
  Row({"versions"}, "ListObjectVersions", "ListBucketVersions", "READ"),
  Row({"policyStatus"}, "GetBucketPolicyStatus", "GetBucketPolicyStatus", "READ"),
  NotImplemented({"analytics", "id"}, "GetAnalyticsConfiguration", "READ"),
  NotImplemented({"analytics"}, "GetAnalyticsConfiguration", "READ"),
  Row({"encryption"}, "GetBucketEncryption", "GetEncryptionConfiguration", "READ"),
  NotImplemented({"id", "intelligent-tiering"}, "GetIntelligentTieringConfiguration", "READ"),
  NotImplemented({"intelligent-tiering"}, "GetIntelligentTieringConfiguration", "READ"),
  NotImplemented({"id", "inventory"}, "GetInventoryConfiguration", "READ"),
  NotImplemented({"inventory"}, "GetInventoryConfiguration", "READ"),
  Row({"lifecycle"}, "GetBucketLifecycleConfiguration", "GetLifecycleConfiguration", "READ"),
  NotImplemented({"logging"}, "GetBucketLogging", "READ") >>

GetLastRoutes == <<
  NotImplemented({"requestPayment"}, "GetBucketRequestPayment", "READ"),
  NotImplemented({"id", "metrics"}, "GetMetricsConfiguration", "READ"),
  NotImplemented({"metrics"}, "GetMetricsConfiguration", "READ"),
  NotImplemented({"replication"}, "GetReplicationConfiguration", "READ"),
  NotImplemented({"publicAccessBlock"}, "GetBucketPublicAccessBlock", "READ"),
  NotImplemented({"notification"}, "GetBucketNotification", "READ"),
  NotImplemented({"accelerate"}, "GetAccelerateConfiguration", "READ"),
  Row({"website"}, "GetBucketWebsite", "GetBucketWebsite", "READ"),
  Row({"list-type=2"}, "ListObjectsV2", "ListBucket", "READ"),
  Row({}, "ListObjects", "ListBucket", "READ") >>

BucketPost == <<
  ErrorRow({"copy-source", "uploadId"}),
  Row({"delete"}, "DeleteObjects", "DeleteObject", "WRITE"),
  Row({}, "POSTObject", "PutObject", "WRITE") >>

ObjectHead == <<
  ErrorRow({"copy-source"}),
  Row({}, "HeadObject", "GetObject", "READ") >>

ObjectGet == <<
  ErrorRow({"uploads"}),
  ErrorRow({"versions"}),
  ErrorRow({"copy-source"}),
  Row({"tagging"}, "GetObjectTagging", "GetObjectTagging", "READ"),
  Row({"retention"}, "GetObjectRetention", "GetObjectRetention", "READ"),
  Row({"legal-hold"}, "GetObjectLegalHold", "GetObjectLegalHold", "READ"),
  Row({"acl"}, "GetObjectAcl", "GetObjectAcl", "READ_ACP"),
  Row({"attributes"}, "GetObjectAttributes", "GetObjectAttributes", "READ"),
  Row({"uploadId"}, "ListParts", "ListMultipartUploadParts", "READ"),
  Row({}, "GetObject", "GetObject", "READ") >>

ObjectDelete == <<
  ErrorRow({"copy-source"}),
  Row({"tagging"}, "DeleteObjectTagging", "DeleteObjectTagging", "WRITE"),
  Row({"uploadId"}, "AbortMultipartUpload", "AbortMultipartUpload", "WRITE"),
  Row({}, "DeleteObject", "DeleteObject", "WRITE") >>

ObjectPost == <<
  ErrorRow({"copy-source", "uploadId"}),
  Row({"restore"}, "RestoreObject", "RestoreObject", "WRITE"),
  Row({"select", "select-type=2"}, "SelectObjectContent", "GetObject", "READ"),
  Row({"uploadId"}, "CompleteMultipartUpload", "PutObject", "WRITE"),
  Row({"uploads"}, "CreateMultipartUpload", "PutObject", "WRITE") >>

ObjectPut == <<
  Row({"tagging"}, "PutObjectTagging", "PutObjectTagging", "WRITE"),
  Row({"retention"}, "PutObjectRetention", "PutObjectRetention", "WRITE"),
  Row({"legal-hold"}, "PutObjectLegalHold", "PutObjectLegalHold", "WRITE"),
  Row({"acl"}, "PutObjectAcl", "PutObjectAcl", "WRITE_ACP"),
  Row({"copy-source", "partNumber", "uploadId"}, "UploadPartCopy", "PutObject", "WRITE"),
  Row({"partNumber", "uploadId"}, "UploadPart", "PutObject", "WRITE"),
  ErrorRow({"partNumber"}),
  ErrorRow({"uploadId"}),
  Row({"copy-source"}, "CopyObject", "PutObject", "WRITE"),
  Row({}, "PutObject", "PutObject", "WRITE") >>

ServiceGet == <<
  ErrorRow({"copy-source"}),
  NoAclRow({}, "ListBuckets", "ListAllMyBuckets", "READ") >>

AdminPatch == <<
  AdminRow("CreateUser", "CreateUser"),
  AdminRow("DeleteUser", "DeleteUser"),
  AdminRow("UpdateUser", "UpdateUser"),
  AdminRow("ListUsers", "ListUsers"),
  AdminRow("ChangeBucketOwner", "ChangeBucketOwner"),
  AdminRow("ListBuckets", "AdminListBuckets"),
  AdminRow("CreateBucket", "AdminCreateBucket") >>

Preflight == <<
  [Row({}, "CORSOptions", "none", "READ") EXCEPT !.auth = "none"] >>

\* What no route matches: MethodNotAllowed.
Unmatched == ErrorRow({})

Rows(level, method) ==
  CASE method = "OPTIONS" -> Preflight
    [] method = "PATCH" -> AdminPatch
    [] level = "service" -> ServiceGet
    [] level = "bucket" /\ method = "PUT" -> PutAttributeRoutes \o PutOtherRoutes
    [] level = "bucket" /\ method = "HEAD" -> BucketHead
    [] level = "bucket" /\ method = "DELETE" -> DeleteAttributeRoutes \o DeleteOtherRoutes
    [] level = "bucket" /\ method = "GET" -> GetAttributeRoutes \o GetOtherRoutes \o GetLastRoutes
    [] level = "bucket" /\ method = "POST" -> BucketPost
    [] level = "object" /\ method = "HEAD" -> ObjectHead
    [] level = "object" /\ method = "GET" -> ObjectGet
    [] level = "object" /\ method = "DELETE" -> ObjectDelete
    [] level = "object" /\ method = "POST" -> ObjectPost
    [] OTHER -> ObjectPut

\* The first row that the request matches.
Dispatch(level, method, args) ==
  LET rows  == Rows(level, method)
      match == {i \in DOMAIN rows : rows[i].args \subseteq args}
  IN  IF match = {} THEN Unmatched
      ELSE rows[CHOOSE i \in match : \A j \in match : i <= j]
=============================================================================
