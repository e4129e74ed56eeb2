---------------------------- MODULE MCPosixTree ----------------------------
(***************************************************************************)
(* One bucket with two keys.  In the mix "wide" one request, of any kind,  *)
(* runs alone; in the others two or three run whose steps matter to each   *)
(* other.                                                                  *)
(***************************************************************************)
EXTENDS PosixTree, TLC

CONSTANT Chosen      \* mixes of clients to begin with

MCSlots == {"r1", "r2", "r3"}
MCKeys == <<"k1", "k2">>

In(s, op, v, with) ==
  [id |-> s, op |-> op, k |-> "k1", v |-> v, from |-> [k |-> "k2", v |-> Unnamed], with |-> with]
OfBucket == {"HeadBucket", "DeleteBucket", "PutBucketOwnershipControls",
  "GetBucketOwnershipControls", "DeleteBucketOwnershipControls", "GetBucketVersioning",
  "GetObjectLockConfiguration", "PutBucketAcl", "GetBucketAcl", "PutBucketTagging",
  "GetBucketTagging", "DeleteBucketTagging", "PutBucketPolicy", "GetBucketPolicy",
  "DeleteBucketPolicy", "PutBucketCors", "GetBucketCors", "DeleteBucketCors",
  "PutBucketWebsite", "GetBucketWebsite", "DeleteBucketWebsite", "ChangeBucketOwner"}
OfVersion == {"GetObjectTagging", "PutObjectTagging", "DeleteObjectTagging",
  "GetObjectLegalHold", "PutObjectLegalHold", "GetObjectRetention", "PutObjectRetention",
  "GetObject", "HeadObject", "GetObjectAttributes", "DeleteObject"}
Copies(s, ks, withs) ==
  {[In(s, "CopyObject", Unnamed, w) EXCEPT !.from = [k |-> k, v |-> v]] :
     k \in ks, v \in {Unnamed, 1, 2}, w \in withs}
Attributes(s, vs) ==
  {In(s, op, v, {}) : v \in vs,
     op \in {"PutObjectTagging", "DeleteObjectTagging", "PutObjectLegalHold", "PutObjectRetention"}}
Writers(s) ==
  {In(s, "PutObject", Unnamed, {}), In(s, "DeleteObject", Unnamed, {}), In(s, "DeleteObject", 2, {})}
Create(s, with) == In(s, "CreateBucket", Unnamed, with)

Wide(s) ==
  {In(s, op, Unnamed, {}) : op \in OfBucket \cup {"DeleteObjects"}}
  \cup {In(s, op, v, {}) : op \in OfVersion, v \in {Unnamed, Null, 1, 2}}
  \cup {In(s, "PutObject", Unnamed, w) : w \in {{}, {"tags", "hold", "retention"}, {"dir", "tags"}}}
  \cup Copies(s, {"k1", "k2"}, SUBSET {"meta", "tags"})
  \cup {Create(s, w) : w \in {{}, {"encryption", "tags", "lock"}}}
Quiet == [s \in MCSlots |-> {}]
MCInputs ==
  [wide |-> [Quiet EXCEPT !["r1"] = Wide("r1")],
   attributes |-> [Quiet EXCEPT !["r1"] = Attributes("r1", {1, 2}), !["r2"] = Writers("r2")],
   copies |-> [Quiet EXCEPT !["r1"] = Copies("r1", {"k2"}, {{}, {"meta"}}),
                            !["r2"] = {[in EXCEPT !.k = "k2"] : in \in Writers("r2")}],
   settings |-> [Quiet EXCEPT
     !["r1"] = {In("r1", "PutBucketVersioning", Unnamed, {"suspend"}), Create("r1", {"lock"})},
     !["r2"] = {In("r2", "PutObjectLockConfiguration", Unnamed, {}), Create("r2", {}),
                In("r2", "ChangeBucketOwner", Unnamed, {})},
     !["r3"] = {In("r3", "DeleteBucket", Unnamed, {})}],
   emptying |-> [Quiet EXCEPT !["r1"] = {In("r1", "DeleteBucket", Unnamed, {})},
                              !["r2"] = {In("r2", "PutObject", Unnamed, {})},
                              !["r3"] = {In("r3", "DeleteObject", v, {}) : v \in {Unnamed, 2, 3}}],
   owners |-> [Quiet EXCEPT !["r1"] = {In("r1", "ChangeBucketOwner", Unnamed, {})},
                            !["r2"] = {In("r2", "ChangeBucketOwner", Unnamed, {})}]]
MCChosen == [m \in Chosen |-> MCInputs[m]]

-----------------------------------------------------------------------------
(* Buckets to begin with *)

Attr(vid, x, hold) ==
  [NoAttrs EXCEPT !.vid = vid, !.etag = x, !.meta = x, !.sums = x, !.tags = x, !.hold = hold]
\* The files, each at its place.
World(where, there, at, fs, held0) ==
  [sidecar |-> where,
   bucket |-> [there |-> there, at |-> at],
   tree |-> [p \in Paths |-> IF \E i \in DOMAIN fs : fs[i].p = p
                             THEN CHOOSE i \in DOMAIN fs : fs[i].p = p ELSE 0],
   files |-> [i \in DOMAIN fs |-> [data |-> fs[i].at.etag, at |-> fs[i].at]],
   side |-> [p \in Paths |-> IF where /\ \E i \in DOMAIN fs : fs[i].p = p
                             THEN fs[CHOOSE i \in DOMAIN fs : fs[i].p = p].at ELSE NoAttrs],
   lastVid |-> IF at["versioning"] = None THEN 0 ELSE 2, held |-> held0]
Owned == [NoBucketAttrs EXCEPT !["acl"] = "owner", !["ownership"] = "owner"]
File(k, v, at) == [p |-> <<k, v>>, at |-> at]
Plain(where) ==
  World(where, TRUE, Owned, <<File("k1", Live, Attr(Null, "a", None)),
                              File("k2", Live, Attr(Null, "b", None))>>, {})
Versioned(where) ==
  World(where, TRUE, [Owned EXCEPT !["versioning"] = "on", !["lock"] = "on"],
        <<File("k1", Live, Attr(2, "a", "x")), File("k1", 1, Attr(1, "c", None)),
          File("k2", Live, Attr(2, "b", None)), File("k2", 1, Attr(1, "d", None))>>, {<<"k1", 2>>})
Suspended(where) ==
  World(where, TRUE, [Owned EXCEPT !["versioning"] = "off"],
        <<File("k1", Live, Attr(2, "a", None)), File("k1", Null, Attr(Null, "c", None)),
          File("k2", Live, Attr(Null, "b", None))>>, {})
\* A bucket whose last object was deleted by a crash; one with a single version;
\* one without objects; none.
OnlyVersions(where) ==
  World(where, TRUE, [Owned EXCEPT !["versioning"] = "on"],
        <<File("k1", 1, Attr(1, "c", None))>>, {})
Single(where) ==
  World(where, TRUE, [Owned EXCEPT !["versioning"] = "on"],
        <<File("k1", Live, Attr(2, "a", None))>>, {})
Empty(where) == World(where, TRUE, [Owned EXCEPT !["versioning"] = "on"], <<>>, {})
Absent(where) == World(where, FALSE, NoBucketAttrs, <<>>, {})
All == UNION {{Plain(b), Versioned(b), Suspended(b), OnlyVersions(b), Empty(b), Absent(b)} :
                b \in BOOLEAN}
MCWorlds ==
  [wide |-> All, attributes |-> {Versioned(b) : b \in BOOLEAN},
   copies |-> {Plain(FALSE), Plain(TRUE), Versioned(FALSE), Suspended(FALSE)},
   settings |-> {Empty(FALSE), Absent(FALSE)},
   emptying |-> {Empty(FALSE), Single(FALSE), Single(TRUE)}, owners |-> {Plain(FALSE)}]
=============================================================================
