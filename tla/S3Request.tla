------------------------------ MODULE S3Request ------------------------------
(***************************************************************************)
(* Requests to the S3 API of one gateway, from the route to the answer.    *)
(* Several requests run at once; each is a program (S3Handlers) whose      *)
(* steps read or change the shared state one at a time.  A request works   *)
(* on snapshots: the account as the signature check read it, the bucket    *)
(* ACL as ParseAcl read it, while the bucket policy and the locks of an    *)
(* object are read in the handler, before the backend call that acts on    *)
(* them (src/s3api/controllers/base.go, src/s3api/middlewares, src/auth).  *)
(*                                                                         *)
(* The backend is seen through its interface: a call is one step, and may  *)
(* fail without an effect.                                                 *)
(***************************************************************************)
EXTENDS AccessRules, S3Routes, S3Handlers, FiniteSetsExt

CONSTANTS
  Slots,          \* requests; a version that request s writes is called s
  Keys,           \* objects of the bucket, a sequence: the order of a batch
  Inputs,         \* Inputs[m][s]: what request s may ask for, in a mix m of clients
  Worlds          \* states of the gateway and the bucket to begin with

VARIABLES
  cfg,            \* options of the gateway and its IAM service
  bkt,            \* attributes of the bucket
  obj,            \* obj[k]: versions of object k and their locks
  role,           \* role[u]: role of account u, "gone" when there is none
  req,            \* req[s]: request s
  hist            \* every state of <<bkt, obj, role>> so far (history variable)

vars == <<cfg, bkt, obj, role, req, hist>>

AllKeys == {Keys[i] : i \in DOMAIN Keys}
Versions == {"old"} \cup Slots
Absent == [mode |-> "absent", until |-> 0, hold |-> FALSE]
Locks == [mode : {"none", "GOVERNANCE", "COMPLIANCE"}, until : Nat, hold : BOOLEAN]
Objects ==
  [cur : Versions \cup {"marker", "none"}, null : Versions \cup {"none"},
   locks : [Versions -> Locks \cup {Absent}]]

ASSUME KeysAssumption == Keys \in Seq(AllKeys)
ASSUME InputsAssumption ==
  \A m \in DOMAIN Inputs, s \in Slots : \A in \in Inputs[m][s] :
    in.key \in AllKeys /\ in.version \in BOOLEAN /\ in.arg.lock \in Locks
ASSUME WorldsAssumption ==
  \A w \in Worlds : w.cfg.mix \in DOMAIN Inputs /\ w.obj \in [AllKeys -> Objects]
Nobody == [access |-> "", role |-> "user", root |-> FALSE, public |-> TRUE]

Idle ==
  [status |-> "idle", in |-> <<>>, todo |-> <<>>, row |-> Unmatched, acc |-> Nobody,
   acl |-> [owner |-> "", grants |-> {}], lock |-> [applies |-> FALSE],
   refused |-> {}, since |-> 0, event |-> FALSE]

\* One type invariant: the snapshots and the programs are well-formed.
TypeOK ==
  /\ DOMAIN req = Slots
  /\ \A s \in Slots :
       /\ req[s].status \in {"idle", "run", "ok", "error"}
       /\ req[s].refused \subseteq AllKeys
       /\ req[s].since \in 0 .. Len(hist)
       /\ req[s].status # "run" => req[s].todo = <<>>
  /\ \A k \in AllKeys :
       /\ obj[k].cur \in Versions \cup {"marker", "none"}
       /\ obj[k].cur \in Versions => obj[k].locks[obj[k].cur] # Absent
  /\ hist[Len(hist)] = [bkt |-> bkt, obj |-> obj, role |-> role]

Init ==
  \E w \in Worlds :
    /\ cfg = w.cfg /\ bkt = w.bkt /\ obj = w.obj /\ role = w.role
    /\ hist = <<[bkt |-> w.bkt, obj |-> w.obj, role |-> w.role]>>
    /\ req = [s \in Slots |-> Idle]

-----------------------------------------------------------------------------
(* How a request goes on *)

At(s, what) ==
  /\ req[s].status = "run"
  /\ req[s].todo # <<>>
  /\ Head(req[s].todo).do = what

Step(s) == Head(req[s].todo)
Shared == <<cfg, bkt, obj, role, hist>>

\* The step succeeds; `change` is what it leaves in the request.
Advance(s, change) ==
  /\ req' = [req EXCEPT ![s] = [change EXCEPT !.todo = Tail(@)]]
  /\ UNCHANGED Shared

\* The step succeeds and is followed by `more` before the rest.
AdvanceBy(s, more) ==
  /\ req' = [req EXCEPT ![s].todo = more \o Tail(@)]
  /\ UNCHANGED Shared

\* ProcessController on an error: it is logged and answered, no event is sent.
Fail(s) ==
  /\ req' = [req EXCEPT ![s].status = "error", ![s].todo = <<>>]
  /\ UNCHANGED Shared

Gate(s, allowed) == IF allowed THEN Advance(s, req[s]) ELSE Fail(s)

\* ProcessController without an error: the event, if there is one, and the answer.
ProcessController(s) ==
  /\ req[s].status = "run" /\ req[s].todo = <<>>
  /\ req' = [req EXCEPT ![s].status = "ok",
                        ![s].event = req[s].row.controller \in Events]
  /\ UNCHANGED Shared

\* ProcessHandlers: the handlers of the route, then its controller.
ProcessHandlers(row, in) ==
  LET acl == IF row.acl THEN <<Do("ParseAcl")>> ELSE <<>>
  IN  (IF row.auth = "admin" THEN <<Do("Signature"), Do("IsAdmin")>>
       ELSE IF row.auth = "none" THEN IF row.acl THEN <<Do("Valid")>> ELSE <<>>
       ELSE IF row.controller = "POSTObject" THEN <<Do("Valid"), Do("Signature"), Do("Public")>>
       ELSE <<Do("Valid"), Do("Public"), Do("Signature"), Do("Valid")>>)
      \o acl \o Controller(row.controller, in)

Begin(s) ==
  /\ req[s].status = "idle"
  /\ \E in \in Inputs[cfg.mix][s] :
       LET row == Dispatch(in.level, in.method, in.args)
       IN  req' = [req EXCEPT ![s] = [Idle EXCEPT
                     !.status = "run", !.in = in, !.row = row, !.since = Len(hist),
                     !.todo = ProcessHandlers(row, in)]]
  /\ UNCHANGED Shared

-----------------------------------------------------------------------------
(* Middlewares *)

\* What the handler parses here may be malformed.
Validate(s) == At(s, "Valid") /\ (Advance(s, req[s]) \/ Fail(s))

\* These are refused for every anonymous request.
NeverAnonymous ==
  {"ListBuckets", "GetBucketOwnershipControls", "PutBucketOwnershipControls",
   "DeleteBucketOwnershipControls", "PutBucketAcl", "PutObjectAcl",
   "SelectObjectContent", "CreateBucket", "CopyObject", "CreateMultipartUpload",
   "UploadPartCopy", "DeleteObjects"}

Target(in, on) == IF on = "object" /\ in.level = "object" THEN in.key ELSE BucketItself

AuthorizePublicBucketAccess(s) ==
  /\ At(s, "Public")
  /\ LET r == req[s]
     IN  IF r.in.user # "anonymous" THEN Advance(s, r)
         ELSE Gate(s, /\ r.row.controller \notin NeverAnonymous
                      /\ bkt.exists
                      /\ VerifyPublicAccess(bkt.policy, bkt.acl, r.row.action, r.row.perm,
                                            Target(r.in, "object")))

\* The account is read once; a bad date, signature or region is an error.
\* An anonymous request comes here only when Public has let it through, or
\* with a form that has no authentication fields.
VerifyV4Signature(s) ==
  /\ At(s, "Signature")
  /\ LET u == req[s].in.user
     IN  \/ u = "anonymous" /\ Advance(s, req[s])
         \/ /\ u # "anonymous" /\ role[u] # "gone"
            /\ Advance(s, [req[s] EXCEPT !.acc = [access |-> u, role |-> role[u],
                                                  root |-> u = "root", public |-> FALSE]])
         \/ u # "anonymous" /\ Fail(s)

IsAdmin(s) == At(s, "IsAdmin") /\ Gate(s, req[s].acc.role = "admin")

\* The ACL that every later check of the request uses.
ParseAcl(s) ==
  /\ At(s, "ParseAcl")
  /\ IF bkt.exists THEN Advance(s, [req[s] EXCEPT !.acl = bkt.acl]) \/ Fail(s)
     ELSE Fail(s)

-----------------------------------------------------------------------------
(* Access control of the controllers *)

Account(r, pub) == [r.acc EXCEPT !.public = @ /\ pub]

MayDo(r, perm, on, actions, pub) ==
  /\ verifyAccessGates(cfg.readonly, perm)
  /\ bkt.exists
  /\ VerifyAccess(bkt.policy, r.acl, cfg.iam, Account(r, pub), perm, actions,
                  Target(r.in, on), cfg.disableACL)

verifyAccess(s) ==
  /\ At(s, "Authorize")
  /\ Gate(s, MayDo(req[s], Step(s).perm, Step(s).on, Step(s).actions, Step(s).pub))

\* The destination first; then, but for administrators, the source.
VerifyObjectCopyAccess(s) ==
  /\ At(s, "Copy")
  /\ LET r == req[s]
     IN  IF ~ MayDo(r, "WRITE", "object", Step(s).actions, Step(s).pub) THEN Fail(s)
         ELSE IF r.acc.root \/ r.acc.role = "admin" THEN Advance(s, r)
         ELSE AdvanceBy(s, <<Do("Source")>>)

\* The source's ACL and policy are read now; readonly is not passed on.
VerifySource(s) ==
  /\ At(s, "Source")
  /\ Gate(s, /\ bkt.exists
             /\ VerifyAccess(bkt.policy, bkt.acl, cfg.iam, Account(req[s], FALSE), "READ",
                             {"GetObject"}, req[s].in.source, cfg.disableACL))

\* VerifyObjectsAccess up to the locks: the keys of the batch it refuses.
VerifyObjectsAccess(s) ==
  /\ At(s, "Objects")
  /\ LET r      == req[s]
         action == IF r.in.version THEN "DeleteObjectVersion" ELSE "DeleteObject"
         errs   == objectsAccessErrors(bkt.policy, r.acl, cfg.iam, r.acc, "WRITE",
                                       {action}, Keys, cfg.disableACL)
     IN  IF ~ verifyAccessGates(cfg.readonly, "WRITE") \/ ~ bkt.exists THEN Fail(s)
         ELSE Advance(s, [r EXCEPT !.refused =
                IF authorizationApplies(r.acc) THEN {Keys[i] : i \in errs} ELSE {}])

OtherChecks(s) ==
  LET r == req[s]
  IN  \/ At(s, "ListAll")    /\ Gate(s, VerifyListAllMyBucketsAccess(cfg.iam, r.acc))
      \/ At(s, "MayCreate")  /\ Gate(s, ~ cfg.readonly /\ VerifyCreateBucketAccess(cfg.iam, r.acc))
      \/ At(s, "Owner")      /\ Gate(s, IsAdminOrOwner(r.acc, r.acl))
      \/ At(s, "AclsUsed")   /\ Gate(s, ~ cfg.disableACL)
      \/ At(s, "Ownership")  /\ Gate(s, ~ bkt.enforced)
      \/ At(s, "Resolve")    /\ Gate(s, \A u \in r.in.arg.names : role[u] # "gone")
      \/ At(s, "OwnersVary") /\ Gate(s, ~ cfg.iam.evaluator)
      \/ At(s, "NoOverrides") /\ (Advance(s, r) \/ (r.acc.public /\ Fail(s)))
      \/ At(s, "Encrypt")    /\ (Advance(s, r) \/ Fail(s))
      \/ At(s, "Refuse")     /\ Fail(s)

-----------------------------------------------------------------------------
(* Object locks *)

Batch(r) == r.row.controller = "DeleteObjects"
Checked(r) == IF Batch(r) THEN Keys ELSE <<r.in.key>>

\* An object that may not be touched: the batch goes on without it.
RefuseKey(s, key) ==
  IF Batch(req[s]) THEN Advance(s, [req[s] EXCEPT !.refused = @ \cup {key}]) ELSE Fail(s)

\* What GetObjectRetention and GetObjectLegalHold find; Absent: NoSuchKey, or
\* MethodNotAllowed for a delete marker.
StoredLock(o, version) ==
  LET v == IF version THEN "old" ELSE o.cur
  IN  IF v \in Versions THEN o.locks[v] ELSE Absent

\* The checks of one object: of the version that the request names, unless it
\* is an overwrite.
CheckOf(do, key, bypass, named) == [do |-> do, key |-> key, bypass |-> bypass, named |-> named]

\* The reads of loadObjectLockState in one step: an enabled lock pins the versioning
\* of the bucket, so that what is read after it agrees; an overwrite that has read
\* the versioning before the lock was enabled can only be checked more.
LoadLockState(s) ==
  /\ At(s, "LoadLock")
  /\ LET r  == req[s]
         st == loadObjectLockState(bkt.versioning, bkt.lock, Step(s).overwrite)
         keys == Checked(r)
     IN  /\ req' = [req EXCEPT ![s].lock = st,
              ![s].todo = (IF st.applies /\ ~ (st.enabled /\ (~ r.in.version \/ Step(s).overwrite))
                           THEN [i \in DOMAIN keys |-> CheckOf("CheckRetention", keys[i], Step(s).bypass,
                                                               r.in.version /\ ~ Step(s).overwrite)]
                           ELSE <<>>) \o Tail(@)]
         /\ UNCHANGED Shared

\* `pub`: the decision is told that the request was let through as public;
\* `hold`: the legal hold is looked at next.
Bypass(key, bypass, named, pub, hold) ==
  [do |-> "Bypass", key |-> key, bypass |-> bypass, named |-> named, pub |-> pub, hold |-> hold]
HoldOf(step) == CheckOf("CheckHold", step.key, step.bypass, step.named)

\* A key of the batch that was refused before is not looked at.
CheckRetentionStep(s) ==
  /\ At(s, "CheckRetention")
  /\ LET lock == StoredLock(obj[Step(s).key], Step(s).named)
         says == IF lock = Absent THEN "free" ELSE checkRetention(lock, Step(s).bypass)
     IN  IF Batch(req[s]) /\ Step(s).key \in req[s].refused THEN Advance(s, req[s])
         ELSE CASE says = "free" -> Advance(s, req[s])
                [] says = "locked" -> RefuseKey(s, Step(s).key)
                [] says = "hold" -> AdvanceBy(s, <<HoldOf(Step(s))>>)
                [] OTHER -> AdvanceBy(s, <<Bypass(Step(s).key, Step(s).bypass, Step(s).named, TRUE, TRUE)>>)

CheckHoldStep(s) ==
  /\ At(s, "CheckHold")
  /\ LET lock == StoredLock(obj[Step(s).key], Step(s).named)
         says == IF lock = Absent THEN "free" ELSE checkHold(lock, req[s].lock, Step(s).bypass)
     IN  CASE says = "free" -> Advance(s, req[s])
           [] says = "locked" -> RefuseKey(s, Step(s).key)
           [] OTHER -> AdvanceBy(s, <<Bypass(Step(s).key, Step(s).bypass, Step(s).named, TRUE, FALSE)>>)

\* The policy is read again, for the permission to bypass governance.
BypassStep(s) ==
  /\ At(s, "Bypass")
  /\ IF verifyBypassGovernancePermission(bkt.policy, cfg.iam, Account(req[s], Step(s).pub),
                                         Step(s).key, Step(s).bypass)
     THEN AdvanceBy(s, IF Step(s).hold THEN <<HoldOf(Step(s))>> ELSE <<>>) ELSE RefuseKey(s, Step(s).key)

RetentionPutAllowed(s) ==
  /\ At(s, "Retain")
  /\ LET r    == req[s]
         lock == StoredLock(obj[r.in.key], r.in.version)
         says == IF lock = Absent THEN "locked"
                 ELSE IsObjectLockRetentionPutAllowed(lock, r.in.arg.lock, r.in.bypass)
     IN  CASE says = "free" -> Advance(s, r)
           [] says = "locked" -> Fail(s)
           [] OTHER -> AdvanceBy(s, <<Bypass(r.in.key, "requested", r.in.version, FALSE, FALSE)>>)

-----------------------------------------------------------------------------
(* The backend, as its interface promises *)

Written(o, s, lock, versioning) ==
  [cur |-> s,
   null |-> IF versioning = "Enabled" THEN o.null ELSE s,
   locks |-> [v \in Versions |->
                IF v = s THEN lock
                ELSE IF versioning # "Enabled" /\ v = o.null THEN Absent ELSE o.locks[v]]]

Without(o, v) ==
  LET locks == [o.locks EXCEPT ![v] = Absent]
      left  == {x \in Versions : locks[x] # Absent}
  IN  [o EXCEPT !.locks = locks,
                !.cur = IF @ # v THEN @ ELSE IF left = {} THEN "none" ELSE CHOOSE x \in left : TRUE,
                !.null = IF @ = v THEN "none" ELSE @]

Deleted(o, version, versioning) ==
  LET rest == IF o.null = "none" THEN o ELSE Without(o, o.null)
  IN  IF version THEN IF o.locks["old"] = Absent THEN o ELSE Without(o, "old")
      ELSE IF versioning = "Enabled" THEN [o EXCEPT !.cur = "marker"]
      ELSE [rest EXCEPT !.cur = IF versioning = "" THEN "none" ELSE "marker"]

HeaderLock(in) ==
  [mode |-> IF "retention" \in in.headers THEN "GOVERNANCE" ELSE "none",
   until |-> IF "retention" \in in.headers THEN 1 ELSE 0,
   hold |-> "legalhold" \in in.headers]

\* The version a request for a lock means, when there is one.
LockTarget(r) == IF r.in.version THEN "old" ELSE obj[r.in.key].cur
Lockable(r) ==
  /\ bkt.lock.enabled
  /\ LockTarget(r) \in Versions
  /\ obj[r.in.key].locks[LockTarget(r)] # Absent

ConfigCalls ==
  {"PutBucketTagging", "DeleteBucketTagging", "PutBucketCors", "DeleteBucketCors",
   "PutBucketWebsite", "DeleteBucketWebsite", "PutEncryptionConfiguration",
   "DeleteEncryptionConfiguration", "PutLifecycleConfiguration",
   "DeleteLifecycleConfiguration", "PutObjectTagging", "DeleteObjectTagging",
   "PutObjectAcl", "RestoreObject", "CreateMultipartUpload", "UploadPart",
   "AbortMultipartUpload", "PutBucketOwnershipControls", "DeleteBucketOwnershipControls",
   "CreateBucket"}

\* The attributes of the bucket after a call; unchanged when it refuses.
BucketAfter(name, r) ==
  CASE name = "PutBucketPolicy" -> [bkt EXCEPT !.policy = r.in.arg.policy]
    [] name = "DeleteBucketPolicy" -> [bkt EXCEPT !.policy = {}]
    [] name = "PutBucketAcl" -> [bkt EXCEPT !.acl = UpdateACL(r.acl, r.in.arg.grants)]
    [] name = "PutBucketOwner" ->
         [bkt EXCEPT !.acl = UpdateACL([owner |-> r.in.arg.user, grants |-> {}], {})]
    [] name = "PutBucketVersioning" ->
         IF bkt.versioning = "" \/ bkt.lock.enabled THEN bkt
         ELSE [bkt EXCEPT !.versioning = IF @ = "Enabled" THEN "Suspended" ELSE "Enabled"]
    [] name = "PutObjectLockConfiguration" ->
         IF bkt.lock.enabled THEN [bkt EXCEPT !.lock.default = r.in.arg.lock.mode] ELSE bkt
    [] name = "DeleteBucket" ->
         [bkt EXCEPT !.exists =
            \E k \in AllKeys : \/ obj[k].cur # "none"
                               \/ \E v \in Versions : obj[k].locks[v] # Absent]
    [] name \in ConfigCalls -> [bkt EXCEPT !.conf = @ \cup {name}]
    [] OTHER -> bkt

ObjectsAfter(name, s, r) ==
  LET k == r.in.key
      v == LockTarget(r)
  IN CASE name \in {"PutObject", "CopyObject", "CompleteMultipartUpload"} ->
            [obj EXCEPT ![k] = Written(@, s, HeaderLock(r.in), bkt.versioning)]
       [] name = "DeleteObject" ->
            [obj EXCEPT ![k] = Deleted(@, r.in.version, bkt.versioning)]
       [] name = "DeleteObjects" ->
            [x \in AllKeys |-> IF x \in r.refused THEN obj[x]
                               ELSE Deleted(obj[x], r.in.version, bkt.versioning)]
       [] name = "PutObjectRetention" /\ Lockable(r) ->
            [obj EXCEPT ![k].locks[v] = [r.in.arg.lock EXCEPT !.hold = obj[k].locks[v].hold]]
       [] name = "PutObjectLegalHold" /\ Lockable(r) ->
            [obj EXCEPT ![k].locks[v].hold = r.in.arg.lock.hold]
       [] OTHER -> obj

RolesAfter(name, r) ==
  CASE name = "CreateUser" -> [role EXCEPT ![r.in.arg.user] = IF @ = "gone" THEN "user" ELSE @]
    [] name = "UpdateUser" -> [role EXCEPT ![r.in.arg.user] = IF @ = "gone" THEN @ ELSE "userplus"]
    [] name = "DeleteUser" -> [role EXCEPT ![r.in.arg.user] = "gone"]
    [] OTHER -> role

AdminCalls == {"CreateUser", "UpdateUser", "DeleteUser", "CreateBucket"}

CallBackend(s) ==
  /\ At(s, "Call")
  /\ \/ Fail(s)
     \/ LET r == req[s]
            name == Step(s).name
        IN  /\ bkt.exists \/ name \in AdminCalls
            /\ bkt' = BucketAfter(name, r)
            /\ obj' = ObjectsAfter(name, s, r)
            /\ role' = RolesAfter(name, r)
            /\ hist' = IF <<bkt, obj, role>>' = <<bkt, obj, role>> THEN hist
                       ELSE Append(hist, [bkt |-> bkt', obj |-> obj', role |-> role'])
            /\ req' = [req EXCEPT ![s].todo = Tail(@)]
            /\ UNCHANGED cfg

-----------------------------------------------------------------------------
RequestStep(s) ==
  \/ Begin(s) \/ Validate(s) \/ AuthorizePublicBucketAccess(s)
  \/ VerifyV4Signature(s) \/ IsAdmin(s) \/ ParseAcl(s) \/ verifyAccess(s)
  \/ VerifyObjectCopyAccess(s) \/ VerifySource(s) \/ VerifyObjectsAccess(s)
  \/ OtherChecks(s) \/ LoadLockState(s) \/ CheckRetentionStep(s) \/ CheckHoldStep(s)
  \/ BypassStep(s) \/ RetentionPutAllowed(s) \/ CallBackend(s) \/ ProcessController(s)
Next == \E s \in Slots : RequestStep(s)

Spec == Init /\ [][Next]_vars

-----------------------------------------------------------------------------
(* Properties.  A request takes time: what it does must have been allowed  *)
(* by a policy, an ACL, an account and a lock that were in force at some   *)
(* instant between its beginning and the backend call.                     *)

Seen(s) == {hist[i] : i \in req[s].since .. Len(hist)}
Serves(s) == At(s, "Call") /\ Len(req'[s].todo) < Len(req[s].todo) /\ req'[s].status = "run"

Concerns(st, u, a, t) ==
  /\ u \in st.who \/ Everyone \in st.who
  /\ a \in st.actions /\ t \in st.targets /\ st.cond # "fails"
Denies(policy, u, a, t) ==
  \E st \in policy : Concerns(st, u, a, t) /\ (st.effect = "Deny" \/ st.cond = "broken")
Allows(policy, u, a, t) ==
  \E st \in policy : Concerns(st, u, a, t) /\ st.effect = "Allow"
AclAllows(acl, u, perm) ==
  \/ acl.owner = u
  \/ ~ cfg.disableACL /\ {Grant(u, perm), Grant(u, "FULL_CONTROL"), Grant(Everyone, perm)}
                            \cap acl.grants # {}

\* The S3 action a request needs, whatever its handler asks for.
Needs(r) ==
  LET c == r.row.controller
  IN  CASE c = "DeleteBucketPolicy" -> {"DeleteBucketPolicy"}
        [] c \in {"DeleteObject", "DeleteObjects"} /\ r.in.version -> {"DeleteObjectVersion"}
        [] c = "PutObjectTagging" /\ r.in.version -> {"PutObjectVersionTagging"}
        [] c = "DeleteObjectTagging" /\ r.in.version -> {"DeleteObjectVersionTagging"}
        [] c \in {"PutObject", "CopyObject", "CreateMultipartUpload"} -> WriteActions(r.in)
        [] OTHER -> {r.row.action}

\* A named user may do `actions` under this policy and ACL.
Permits(policy, acl, u, perm, actions, t) ==
  LET own == cfg.iam.evaluator /\ \A a \in actions : Allows(cfg.iam.identity[u], Everyone, a, t)
      ses == IF cfg.iam.evaluator THEN cfg.iam.session[u] ELSE {}
  IN  /\ \A a \in actions : ~ Denies(policy, u, a, t)
      /\ cfg.iam.evaluator => \A a \in actions : ~ Denies(cfg.iam.identity[u], Everyone, a, t)
      /\ ses # {} => \A a \in actions : Allows(ses, Everyone, a, t) /\ ~ Denies(ses, Everyone, a, t)
      /\ \/ own
         \/ policy # {} /\ \A a \in actions : Allows(policy, u, a, t)
         \/ policy = {} /\ AclAllows(acl, u, perm)

PublicPermits(policy, acl, action, perm, t) ==
  /\ ~ Denies(policy, Everyone, action, t)
  /\ \/ Allows(policy, Everyone, action, t)
     \/ action \in publicACLAllowedActions /\ Grant(Everyone, perm) \in acl.grants

Entitled(s, t) ==
  LET r == req[s]
      u == r.in.user
  IN  \E p, a, i \in Seen(s) :
        IF u = "anonymous" THEN PublicPermits(p.bkt.policy, a.bkt.acl, r.row.action, r.row.perm, t)
        ELSE IF r.row.auth = "admin" THEN i.role[u] = "admin"
        ELSE \/ i.role[u] = "admin"
             \/ r.row.controller = "CreateBucket"
             \/ Permits(p.bkt.policy, a.bkt.acl, u,
                        IF r.row.controller = "PutObjectAcl" THEN "WRITE" ELSE r.row.perm,
                        Needs(r), t)

\* A batch that holds a key the policy denies: DeleteObjects deletes that key too.
BatchHasDenied(s) ==
  Batch(req[s]) /\ \E h \in Seen(s), k \in AllKeys, a \in Needs(req[s]) :
                      Denies(h.bkt.policy, req[s].in.user, a, k)

\* What a request changes in the bucket, its objects or the accounts, its user
\* was entitled to change, whichever route and controller served it.
AuthorizedChange ==
  \A s \in Slots : Serves(s) =>
    /\ (bkt' # bkt \/ role' # role) =>
         Entitled(s, IF req[s].in.level = "object" THEN req[s].in.key ELSE BucketItself)
    /\ \A k \in AllKeys : obj'[k] # obj[k] =>
         \/ Entitled(s, IF req[s].row.controller = "POSTObject" THEN BucketItself ELSE k)
         \/ BatchHasDenied(s)

\* A copy is made only for one who may read its source.
CopySourceReadable ==
  \A s \in Slots :
    Serves(s) /\ req[s].row.controller \in {"CopyObject", "UploadPartCopy"} =>
      \E p, a, i \in Seen(s) :
        \/ i.role[req[s].in.user] = "admin"
        \/ Permits(p.bkt.policy, a.bkt.acl, req[s].in.user, "READ", {"GetObject"},
                   req[s].in.source)

\* No request does what its user was not entitled to, on what it writes and on
\* what it copies from: AuthorizedChange and CopySourceReadable.
Authorized == [][AuthorizedChange /\ CopySourceReadable]_vars

Overwrites(r) == r.row.controller \in {"PutObject", "CopyObject", "CompleteMultipartUpload"}
Names(r) == r.in.version /\ ~ Overwrites(r)
Mode(r) == IF Overwrites(r) THEN "overwrite" ELSE BypassModeForRequest(r.in)
\* The request may override governance retention of key k.
MayBypass(s, k) ==
  /\ Mode(req[s]) # "none"
  /\ \E p \in Seen(s) : verifyBypassGovernancePermission(
       p.bkt.policy, cfg.iam, Account(req[s], TRUE), k, Mode(req[s]))

\* The lock of version v of key k lets request s remove it: the configuration of
\* the bucket as it stood in c, the retention in h and the legal hold in g.  What
\* is not the version that the request means is not looked at.
LetsGo(c, h, g, s, k, v) ==
  LET lock == h.obj[k].locks[v]
  IN  \/ ~ c.bkt.lock.enabled
      \/ c.bkt.versioning = "Enabled" /\ ~ Names(req[s])
      \/ lock = Absent \/ (~ Names(req[s]) /\ h.obj[k].cur # v)
      \/ lock.mode # "none" /\ lock.until = 0
      \/ /\ lock.mode = "none" \/ (lock.mode # "COMPLIANCE" /\ MayBypass(s, k))
         /\ ~ g.obj[k].locks[v].hold
         /\ \/ c.bkt.lock.default = "none"
            \/ c.bkt.lock.default # "COMPLIANCE" /\ MayBypass(s, k)

\* A version is removed or overwritten only if nothing that protects it did so all
\* through the request: neither the retention of the bucket, nor its own, nor its
\* legal hold.  They are read one after the other (object_lock.go:479), so that a
\* version may go which was protected by one or the other at every instant.  The
\* form upload checks no lock.
LockKept ==
  [][\A s \in Slots, k \in AllKeys, v \in Versions :
       Serves(s) /\ obj[k].locks[v] # Absent /\ obj'[k].locks[v] = Absent =>
         \/ req[s].row.controller = "POSTObject"
         \/ \E c, h, g \in Seen(s) : LetsGo(c, h, g, s, k, v)]_vars

\* Retention `new` may take the place of `old`.
MayReplace(s, old, new) ==
  \/ old.mode = "none"
  \/ old.mode = new.mode /\ new.until >= old.until
  \/ /\ old.mode # "COMPLIANCE" /\ req[s].in.bypass
     /\ \E p \in Seen(s) : verifyBypassGovernancePermission(
          p.bkt.policy, cfg.iam, Account(req[s], FALSE), req[s].in.key, "requested")

\* What the theorems rest on.  History and programs are sequences; what a request
\* has seen ends with what is.
IsSeq(q) == q \in Seq(Range(q))
Recorded ==
  /\ IsSeq(hist) /\ hist # <<>>
  /\ hist[Len(hist)] = [bkt |-> bkt, obj |-> obj, role |-> role]
  /\ cfg.mix \in DOMAIN Inputs /\ obj \in [AllKeys -> Objects]
  /\ req = [s \in Slots |-> req[s]]
  /\ \A s \in Slots :
       /\ DOMAIN Idle \subseteq DOMAIN req[s] /\ IsSeq(req[s].todo)
       /\ req[s].status # "idle" =>
            /\ req[s].since \in 1 .. Len(hist)
            /\ req[s].in \in Inputs[cfg.mix][s]

\* A request for a retention: its program comes to the check and the call; then
\* the stored retention has been compared, and the call is all that is left.
BeforeRetain(q) ==
  /\ Len(q) >= 2
  /\ q[Len(q) - 1] = Do("Retain") /\ q[Len(q)] = Call("PutObjectRetention")
  /\ \A i \in 1 .. Len(q) - 2 :
       q[i].do \in {"Valid", "Public", "Signature", "IsAdmin", "ParseAcl", "Authorize"}
Meant(h, s) == StoredLock(h.obj[req[s].in.key], req[s].in.version)
RetentionStage(s) ==
  LET q == req[s].todo
      put == Call("PutObjectRetention")
  IN  \/ BeforeRetain(q)
      \/ /\ q = <<Bypass(req[s].in.key, "requested", req[s].in.version, FALSE, FALSE), put>>
         /\ \E h \in Seen(s) : Meant(h, s).mode # "COMPLIANCE" /\ req[s].in.bypass
      \/ q = <<put>> /\ \E h \in Seen(s) : MayReplace(s, Meant(h, s), req[s].in.arg.lock)
      \/ q = <<>>
RetentionInv ==
  \A s \in Slots :
    req[s].status = "run" /\ req[s].row.controller = "PutObjectRetention" => RetentionStage(s)

\* A request that removes or overwrites: before the lock configuration is read;
\* then checks of objects are left, and every object that none is left of has
\* been refused or found free.
Removers == {"PutObject", "CopyObject", "CompleteMultipartUpload", "DeleteObject", "DeleteObjects"}
Late(step, c) == step.do \in {"Valid", "Encrypt"} \/ step = Call(c)
BeforeLock(r) ==
  \E j \in 1 .. Len(r.todo) :
    /\ \A i \in 1 .. j - 1 :
         r.todo[i].do \in {"Valid", "Public", "Signature", "IsAdmin", "ParseAcl", "Authorize",
                          "Copy", "Source", "Objects", "Encrypt"}
    /\ r.todo[j] = CheckObjectAccess(Mode(r), Overwrites(r))
    /\ \A i \in j + 1 .. Len(r.todo) : Late(r.todo[i], r.row.controller)
Stored(h, s, k) == StoredLock(h.obj[k], Names(req[s]))
RetentionPassed(s, k) ==
  \E h \in Seen(s) : \/ Stored(h, s, k).mode = "none"
                     \/ Stored(h, s, k).mode # "COMPLIANCE" /\ MayBypass(s, k)
Pending(s, step) ==
  LET r == req[s] IN
  \E k \in AllKeys :
    \/ step = CheckOf("CheckRetention", k, Mode(r), Names(r))
    \/ step = CheckOf("CheckHold", k, Mode(r), Names(r)) /\ RetentionPassed(s, k)
    \/ /\ step = Bypass(k, Mode(r), Names(r), TRUE, TRUE)
       /\ Mode(r) # "none" /\ \E h \in Seen(s) : Stored(h, s, k).mode # "COMPLIANCE"
    \/ /\ step = Bypass(k, Mode(r), Names(r), TRUE, FALSE)
       /\ Mode(r) # "none" /\ RetentionPassed(s, k) /\ r.lock.default # "COMPLIANCE"
       /\ \E g \in Seen(s) : ~ Stored(g, s, k).hold
Free(s, k) ==
  \A v \in Versions : (Names(req[s]) => v = "old") => \E c, h, g \in Seen(s) : LetsGo(c, h, g, s, k, v)
Targets(r) == IF Batch(r) THEN AllKeys \ r.refused ELSE {r.in.key}
AfterLock(s) ==
  LET r == req[s]
      q == r.todo
  IN  /\ \E c \in Seen(s) : r.lock.default = c.bkt.lock.default
      /\ \E n \in 0 .. Len(q) :
           /\ \A i \in 1 .. n : Pending(s, q[i])
           /\ \A i \in n + 1 .. Len(q) : Late(q[i], r.row.controller)
           /\ \A k \in Targets(r) : Free(s, k) \/ \E i \in 1 .. n : q[i].key = k
\* The other programs call nothing that removes.
Harmless(q) ==
  \A i \in DOMAIN q :
    /\ q[i].do = "Call" => q[i].name \notin Removers
    /\ q[i].do \notin {"LoadLock", "CheckRetention", "CheckHold"}
    /\ q[i].do = "Bypass" => ~ q[i].hold
LockInv ==
  \A s \in Slots :
    req[s].status = "run" =>
      /\ req[s].row.controller \in Removers => BeforeLock(req[s]) \/ AfterLock(s)
      /\ req[s].row.controller \notin Removers \cup {"POSTObject"} => Harmless(req[s].todo)

\* A retention is weakened only from a state in which it could be: compliance
\* never, governance by who may bypass it.  What a request without a version means
\* is the current one when the check looks (object_lock.go:185): a version that
\* becomes current between the check and the backend call is not protected.
RetentionKept ==
  [][\A s \in Slots, k \in AllKeys, v \in Versions :
       LET new == obj'[k].locks[v]
       IN  Serves(s) /\ req[s].row.controller = "PutObjectRetention"
             /\ obj[k].locks[v] \notin {new, Absent} =>
             \E h \in Seen(s) : \/ MayReplace(s, h.obj[k].locks[v], new)
                                \/ ~ req[s].in.version /\ h.obj[k].cur # v]_vars

=============================================================================
