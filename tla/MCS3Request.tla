----------------------------- MODULE MCS3Request -----------------------------
(***************************************************************************)
(* Up to three requests on one bucket with two objects.  In the mix "wide" *)
(* the first is any request that a route knows, alone; in "race" it is one *)
(* whose checks and effect another request can come between; in "locks"    *)
(* two others change the lock of the object between its checks.            *)
(***************************************************************************)
EXTENDS S3Request, TLC

CONSTANT Mixes       \* mixes of clients to begin with

MCSlots == {"s1", "s2", "s3"}
MCKeys == <<"k1", "k2">>

NoArg == [policy |-> {}, grants |-> {}, lock |-> Unlocked, user |-> "bob", names |-> {}]
Input(level, method, args, user) ==
  [level |-> level, method |-> method, args |-> args, user |-> user, key |-> "k1",
   source |-> "k2", version |-> FALSE, bypass |-> FALSE, headers |-> {}, arg |-> NoArg]

Paths ==
  {<<"service", "GET">>, <<"service", "PATCH">>} \cup
  ({"bucket"} \X {"PUT", "HEAD", "DELETE", "GET", "POST", "OPTIONS"}) \cup
  ({"object"} \X {"PUT", "HEAD", "DELETE", "GET", "POST"})
RowArgs(p) == {Rows(p[1], p[2])[i].args : i \in DOMAIN Rows(p[1], p[2])}
People == {"alice", "bob", "carol", "anonymous"}

\* Every row by its own arguments and, for the versions, headers and options
\* that its handler looks at, with these.
Plain == UNION {{Input(p[1], p[2], a, u) : a \in RowArgs(p), u \in People} : p \in Paths}
Varied ==
  {[in EXCEPT !.version = v, !.bypass = b, !.headers = h] :
     in \in {Input("object", m, {}, u) : m \in {"PUT", "DELETE", "GET"}, u \in People}
            \cup {Input("bucket", "POST", {"delete"}, u) : u \in People},
     v \in BOOLEAN, b \in BOOLEAN, h \in {{}, {"retention", "legalhold"}}}
Wide == Plain \cup Varied

Lock(mode, until, hold) == [mode |-> mode, until |-> until, hold |-> hold]
Retention(u, mode, until, bypass) ==
  [Input("object", "PUT", {"retention"}, u) EXCEPT
     !.arg.lock = Lock(mode, until, FALSE), !.bypass = bypass]
Hold(u, on) ==
  [Input("object", "PUT", {"legal-hold"}, u) EXCEPT !.arg.lock = Lock("none", 0, on)]

DenyBob == Statement("Deny", {"bob"}, {"PutObject", "DeleteObject", "GetObject"},
                     {"k1", "k2"}, "holds")
Racing ==
  {Input("object", m, {}, u) : m \in {"PUT", "DELETE"}, u \in {"bob", "anonymous"}}
  \cup {Input("object", "PUT", {"copy-source"}, "bob"),
        Input("object", "POST", {"uploadId"}, "bob"),
        Input("bucket", "POST", {}, "bob"),
        Input("bucket", "POST", {"delete"}, "bob"),
        Input("bucket", "PUT", {"tagging"}, "bob"),
        [Input("bucket", "PUT", {"acl"}, "alice") EXCEPT !.arg.grants = {Grant("bob", "READ")}],
        [Input("object", "DELETE", {}, "bob") EXCEPT !.bypass = TRUE, !.version = TRUE]}
  \cup {Retention("bob", "GOVERNANCE", 1, b) : b \in BOOLEAN}
  \cup {Retention("bob", "COMPLIANCE", t, FALSE) : t \in 1 .. 2}
Others ==
  {[Input("bucket", "PUT", {"policy"}, "root") EXCEPT !.arg.policy = {DenyBob}],
   Input("bucket", "DELETE", {"policy"}, "root"),
   [Input("bucket", "PUT", {"acl"}, "root") EXCEPT !.arg.grants = {}],
   [Input("service", "PATCH", {"ChangeBucketOwner"}, "root") EXCEPT
      !.arg.user = "bob", !.arg.names = {"bob"}],
   Input("service", "PATCH", {"DeleteUser"}, "root"),
   Input("service", "PATCH", {"UpdateUser"}, "carol"),
   Hold("root", TRUE), Hold("root", FALSE),
   Retention("root", "COMPLIANCE", 2, FALSE), Retention("root", "GOVERNANCE", 1, TRUE),
   Input("object", "DELETE", {}, "root"), Input("bucket", "PUT", {"versioning"}, "root"),
   [Input("object", "DELETE", {}, "root") EXCEPT !.version = TRUE]}

\* Two changes of the locks between the checks of a third request.
Locked ==
  {[Input("object", "DELETE", {}, "bob") EXCEPT !.bypass = b, !.version = v] :
     b \in BOOLEAN, v \in BOOLEAN}
  \cup {Input("object", "PUT", {}, "bob"), Retention("bob", "COMPLIANCE", 1, FALSE),
        Retention("bob", "GOVERNANCE", 1, TRUE),
        [Input("bucket", "POST", {"delete"}, "bob") EXCEPT !.version = TRUE]}
PutLocked == [Input("object", "PUT", {}, "root") EXCEPT !.headers = {"retention", "legalhold"}]
Locking == {Hold("root", FALSE), PutLocked, Input("bucket", "PUT", {"versioning"}, "root")}
LockingToo == {Retention("root", "COMPLIANCE", 2, FALSE), Hold("root", TRUE)}

MCInputs ==
  [wide |-> [s1 |-> Wide, s2 |-> {}, s3 |-> {}],
   race |-> [s1 |-> Racing, s2 |-> Others, s3 |-> {}],
   locks |-> [s1 |-> Locked, s2 |-> Locking, s3 |-> LockingToo]]

-----------------------------------------------------------------------------
ObjectActions ==
  {"PutObject", "DeleteObject", "DeleteObjectVersion", "GetObject", "PutObjectRetention",
   "PutObjectTagging", "PutObjectLegalHold"}
AllowBob(targets) == Statement("Allow", {"bob"}, ObjectActions, targets, "holds")

Plainly == [readonly |-> FALSE, disableACL |-> FALSE, mix |-> "wide",
            iam |-> [evaluator |-> FALSE, identity |-> [u \in People |-> {}],
                     session |-> [u \in People |-> {}]]]
AliceOwns == [owner |-> "alice", grants |-> {Grant("alice", "FULL_CONTROL"), Grant("bob", "WRITE")}]
OneVersion(lock, null) ==
  [cur |-> "old", null |-> null,
   locks |-> [v \in Versions |-> IF v = "old" THEN lock ELSE Absent]]
World(c, policy, acl, versioning, lockcfg, lock1) ==
  [cfg |-> c,
   bkt |-> [exists |-> TRUE, policy |-> policy, acl |-> acl, enforced |-> FALSE,
            versioning |-> versioning, lock |-> lockcfg, conf |-> {}],
   obj |-> [k \in AllKeys |->
              OneVersion(IF k = "k1" THEN lock1 ELSE Unlocked,
                         IF versioning = "" THEN "old" ELSE "none")],
   role |-> [u \in People \cup {"root"} |->
              IF u \in {"root", "carol"} THEN "admin" ELSE "user"]]
LockOn(default) == [enabled |-> TRUE, default |-> default]
LockOff == [enabled |-> FALSE, default |-> "none"]

AllWorlds == {
  \* no policy, ACL only, no versioning, an object under governance
  World(Plainly, {}, AliceOwns, "", LockOn("none"), Lock("GOVERNANCE", 1, FALSE)),
  \* a policy that denies one of two keys, and bypass for bob; hold
  World(Plainly, {AllowBob({"k1", "k2", BucketItself}),
                  Statement("Deny", {"bob"}, {"DeleteObject"}, {"k2"}, "holds"),
                  Statement("Allow", {"bob"}, {"BypassGovernanceRetention"}, {"k1"}, "holds")},
        AliceOwns, "", LockOn("none"), Lock("none", 0, TRUE)),
  \* versions, public statements, a condition that cannot be evaluated
  World(Plainly, {Statement("Allow", {Everyone}, {"GetObject", "PutObject", "DeleteObject"},
                            {"k1"}, "holds"),
                  Statement("Deny", {Everyone}, {"PutObject"}, {"k2"}, "broken"),
                  Statement("Allow", {"bob"}, ObjectActions, {"k1", "k2"}, "holds")},
        AliceOwns, "Enabled", LockOn("none"), Lock("COMPLIANCE", 1, FALSE)),
  \* identity policies with a session policy; default retention
  World([Plainly EXCEPT !.iam.evaluator = TRUE,
           !.iam.identity["bob"] = {Statement("Allow", {Everyone},
              ObjectActions \cup {"BypassGovernanceRetention", "CreateBucket"},
              {"k1", "k2", BucketItself}, "holds")},
           !.iam.session["alice"] = {Statement("Allow", {Everyone}, {"GetObject"}, {"k1"}, "holds")}],
        {}, AliceOwns, "", LockOn("GOVERNANCE"), Unlocked),
  \* a read-only gateway, a public ACL
  World([Plainly EXCEPT !.readonly = TRUE], {},
        [AliceOwns EXCEPT !.grants = @ \cup {Grant(Everyone, "WRITE")}], "Enabled", LockOff, Unlocked),
  \* ACLs disabled, expired retention, public grants in the ACL
  World([Plainly EXCEPT !.disableACL = TRUE], {},
        [AliceOwns EXCEPT !.grants = @ \cup {Grant(Everyone, "WRITE"), Grant(Everyone, "READ")}],
        "Enabled", LockOff, Unlocked),
  \* expired retention under default retention
  World(Plainly, {}, [AliceOwns EXCEPT !.grants = @ \cup {Grant("bob", "FULL_CONTROL")}], "",
        LockOn("COMPLIANCE"), Lock("GOVERNANCE", 0, TRUE)) }

MCWorlds == {[w EXCEPT !.cfg.mix = m] : w \in AllWorlds, m \in Mixes}
=============================================================================
