---------------------------- MODULE MCAzureBlobs ----------------------------
(***************************************************************************)
(* A container with two keys, an upload of encrypted parts and two plain   *)
(* ones.  In the mix "wide" one request, of any kind, runs alone; in the   *)
(* others two or three run whose calls matter to each other.               *)
(***************************************************************************)
EXTENDS AzureBlobs, TLC

CONSTANT Chosen      \* mixes of clients to begin with

MCSlots == {"r1", "r2", "r3"}
MCKeys == {"k1", "k2"}
MCUploads == {"sealed", "plain", "other"}
MCParts == <<1, 2>>

Ask(s, op, with) ==
  [id |-> s, op |-> op, k |-> "k1", from |-> "k2", u |-> "sealed", n |-> 1, parts |-> <<1, 2>>,
   cond |-> None, with |-> with]
Of(in, u) == [in EXCEPT !.u = u]
OfBucket == {"HeadBucket", "DeleteBucket", "PutBucketOwnershipControls", "GetBucketOwnershipControls",
  "DeleteBucketOwnershipControls", "PutBucketTagging", "GetBucketTagging", "DeleteBucketTagging",
  "PutBucketAcl", "GetBucketAcl", "PutBucketPolicy", "GetBucketPolicy", "DeleteBucketPolicy",
  "PutBucketCors", "GetBucketCors", "DeleteBucketCors", "PutBucketWebsite", "GetBucketWebsite",
  "DeleteBucketWebsite", "PutObjectLockConfiguration", "GetObjectLockConfiguration",
  "PutBucketEncryption", "GetBucketEncryption", "DeleteBucketEncryption",
  "PutBucketLifecycleConfiguration", "GetBucketLifecycleConfiguration",
  "DeleteBucketLifecycleConfiguration", "ChangeBucketOwner", "ListObjects", "ListMultipartUploads"}
OfObject == {"PutObjectRetention", "PutObjectLegalHold", "GetObjectRetention", "GetObjectLegalHold",
  "PutObjectTagging", "GetObjectTagging", "DeleteObjectTagging", "HeadObject", "GetObject",
  "GetObjectAttributes", "PutObject", "DeleteObject", "DeleteObjects", "LifecycleDelete"}
OfUpload == {"UploadPart", "UploadPartCopy", "ListParts", "AbortMultipartUpload",
  "CompleteMultipartUpload", "LifecycleAbort"}
Copies(s) ==
  {[Ask(s, "CopyObject", w) EXCEPT !.from = k] : k \in MCKeys,
     w \in {{}, {"meta"}, {"tags"}, {"meta", "redirect", "tags"}, {"hold", "retention"}, {"encrypt"},
            {"owner", "meta", "encrypt"}, {"meta", "bare"}, {"meta", "bare", "redirect"}}}

Wide(s) ==
  {Ask(s, op, {}) : op \in OfBucket \cup OfObject}
  \cup {Of(Ask(s, op, {}), u) : op \in OfUpload, u \in MCUploads}
  \cup {[Ask(s, op, {}) EXCEPT !.cond = c] : op \in {"PutObject", "DeleteObject", "GetObject"}, c \in {"same", "absent"}}
  \cup {Ask(s, "PutObject", w) : w \in {{"hold", "retention"}, {"encrypt", "tags", "redirect"}}}
  \cup {Of(Ask(s, "CreateMultipartUpload", w), "other") : w \in {{}, {"encrypt"}, {"hold", "retention"}}}
  \cup {Of(Ask(s, "UploadPart", {"zero"}), "plain")}
  \cup {Ask(s, "CreateBucket", w) : w \in {{}, {"lock", "tags", "encryption"}}}
  \cup Copies(s)
Quiet == [s \in MCSlots |-> {}]
Completes(s, u) == Of(Ask(s, "CompleteMultipartUpload", {}), u)
MCInputs ==
  [wide |-> [Quiet EXCEPT !["r1"] = Wide("r1")],
   settings |-> [Quiet EXCEPT
     !["r1"] = {Ask("r1", op, {}) : op \in {"PutBucketPolicy", "CreateBucket", "ChangeBucketOwner"}},
     !["r2"] = {Ask("r2", op, {}) : op \in {"PutObjectLockConfiguration", "DeleteBucketCors", "DeleteBucket"}}],
   sealed |-> [Quiet EXCEPT
     !["r1"] = {Completes("r1", "sealed")},
     !["r2"] = {Completes("r2", "sealed"), Ask("r2", "AbortMultipartUpload", {}),
                Ask("r2", "PutObject", {})} \cup
               {[Ask("r2", "UploadPart", w) EXCEPT !.n = 2] : w \in {{}, {"short"}}}],
   two |-> [Quiet EXCEPT !["r1"] = {Completes("r1", "sealed")},
                         !["r2"] = {Of(Ask("r2", "UploadPart", {}), "other")}],
   retries |-> [s \in MCSlots |->
     {IF s = "r3" THEN Ask(s, "AbortMultipartUpload", {}) ELSE Completes(s, "sealed")}],
   plain |-> [Quiet EXCEPT
     !["r1"] = {Of(Ask("r1", "UploadPart", {}), u) : u \in {"plain", "other"}},
     !["r2"] = {[Of(Ask("r2", "UploadPart", w), "plain") EXCEPT !.n = 2] : w \in {{}, {"zero"}}},
     !["r3"] = {Completes("r3", "plain")}],
   aborts |-> [Quiet EXCEPT
     !["r1"] = {Of(Ask("r1", "UploadPart", {}), "plain"), Completes("r1", "plain")},
     !["r2"] = {Of(Ask("r2", op, {}), "plain") : op \in {"AbortMultipartUpload", "LifecycleAbort"}},
     !["r3"] = {Completes("r3", "plain")}],
   locks |-> [Quiet EXCEPT
     !["r1"] = {Ask("r1", "PutObjectLegalHold", {})},
     !["r2"] = {Ask("r2", op, {}) : op \in {"PutObjectRetention", "PutObject"}}],
   copies |-> [Quiet EXCEPT
     !["r1"] = {Ask("r1", "CopyObject", w) : w \in {{}, {"encrypt"}}},
     !["r2"] = {[Ask("r2", "PutObject", w) EXCEPT !.k = "k2"] : w \in {{}, {"encrypt"}}}],
   lifecycle |-> [Quiet EXCEPT
     !["r1"] = {Ask("r1", "LifecycleDelete", {})},
     !["r2"] = {Ask("r2", op, {}) : op \in {"LifecycleDelete", "PutObject", "PutObjectLegalHold"}}]]
MCChosen == [m \in Chosen |-> MCInputs[m]]

-----------------------------------------------------------------------------
(* Containers to begin with *)

Stored(w, sealed, meta) ==
  [NoBlob EXCEPT !.there = TRUE, !.etag = 1, !.data = <<Chunk(w, None, 0)>>, !.sealed = sealed,
                 !.meta = [meta EXCEPT !.enc = sealed # <<>>], !.tags = w]
User(w) == [NoMeta EXCEPT !.user = w]
Marker(u) == [NoBlob EXCEPT !.there = TRUE, !.etag = 1, !.meta = [User(u) EXCEPT !.state = u = "sealed"]]
Part(n) ==
  [NoBlob EXCEPT !.there = TRUE, !.etag = 1, !.data = <<Chunk("w", "sealed", n)>>, !.sealed = <<"sealed", n>>,
                 !.meta = [NoMeta EXCEPT !.enc = TRUE]]
Owned == [NoSettings EXCEPT !["acl"] = "owner", !["ownership"] = "owner", !["cors"] = "owner",
                            !["policy"] = "owner", !["lock"] = "owner"]
World(settings, objects, uploads) ==
  [container |-> [there |-> TRUE, meta |-> settings],
   blob |-> [b \in Names |->
     IF b \in DOMAIN objects THEN objects[b]
     ELSE IF b[1] = "upload" /\ b[2] \in uploads THEN Marker(b[2])
     ELSE IF b[1] = "part" /\ b[2] = "sealed" /\ "sealed" \in uploads THEN Part(b[3])
     ELSE NoBlob]]
NoObjects == [b \in {} |-> NoBlob]
Plain == Obj("k1") :> Stored("a", <<>>, User("a")) @@ Obj("k2") :> Stored("b", <<>>, [User("b") EXCEPT !.redirect = "b"])
\* An object with nothing but a redirect, an encrypted one, a locked one.
Bare == Obj("k1") :> Stored("a", <<>>, User("a")) @@ Obj("k2") :> Stored("b", <<>>, [NoMeta EXCEPT !.redirect = "b"])
Encrypted == Obj("k1") :> Stored("a", <<>>, User("a")) @@ Obj("k2") :> Stored("b", Obj("k2"), User("b"))
Locked_ == Obj("k1") :> Stored("a", <<>>, [User("a") EXCEPT !.hold = "a", !.retention = "a"])
           @@ Obj("k2") :> Stored("b", <<>>, User("b"))
Staged(w) == [w EXCEPT !.blob[Obj("k1")].staged = {Chunk("w", "plain", 1), Chunk("w", "plain", 2)}]
Absent == [World(NoSettings, NoObjects, {}) EXCEPT !.container.there = FALSE]
MCWorlds ==
  [wide |-> {Absent, World(Owned, NoObjects, {}), World(NoSettings, Plain, {}), World(Owned, Plain, {"sealed", "plain"}),
             World(Owned, Bare, {}), World(Owned, Encrypted, {}), World(Owned, Locked_, {}),
             Staged(World(Owned, Plain, {"plain"})), Staged(World(Owned, NoObjects, {"plain"}))},
   settings |-> {World(Owned, NoObjects, {}), Absent},
   sealed |-> {World(Owned, Plain, {"sealed"})}, two |-> {[World(Owned, Plain, {"sealed", "other"}) EXCEPT
              !.blob[createMetaTmpPath("other")].meta.state = TRUE]},
   retries |-> {World(Owned, NoObjects, {"sealed"})},
   plain |-> {World(Owned, NoObjects, {"plain", "other"})}, aborts |-> {Staged(World(Owned, Plain, {"plain"}))},
   locks |-> {World(Owned, Plain, {})}, copies |-> {World(Owned, Plain, {}), World(Owned, Bare, {})},
   lifecycle |-> {World(Owned, Plain, {})}]
=============================================================================
