----------------------------- MODULE AccessRules -----------------------------
(***************************************************************************)
(* The rules by which the gateway answers "may this account do this?":     *)
(* bucket policies, bucket ACLs, identity and session policies, public     *)
(* access and object locks (src/auth).  Every operator is a function of    *)
(* what the code has read when it decides; S3Request says when it reads.   *)
(*                                                                         *)
(* A policy is a set of statements, {} when there is none: a document      *)
(* without a statement is refused when it is put.  A statement names its   *)
(* principals ("*" is everyone), its actions, the targets its resources    *)
(* match (a key, or BucketItself) and what evaluating its condition gives: *)
(* "holds", "fails", or "broken" when the condition cannot be evaluated.   *)
(***************************************************************************)
EXTENDS Naturals, FiniteSets

Everyone == "*"
BucketItself == "bucket"
Statement(effect, who, actions, targets, cond) ==
  [effect |-> effect, who |-> who, actions |-> actions,
   targets |-> targets, cond |-> cond]

Decisions == {"Allow", "Deny", "NoMatch"}

-----------------------------------------------------------------------------
(* Policies *)

Outcome(found) ==
  IF \E s \in found : s.cond = "broken" \/ (s.cond = "holds" /\ s.effect = "Deny")
    THEN "Deny"
  ELSE IF \E s \in found : s.cond = "holds" THEN "Allow" ELSE "NoMatch"

decisionFor(policy, access, action, target) ==
  Outcome({s \in policy : /\ {access, Everyone} \cap s.who # {}
                          /\ action \in s.actions
                          /\ target \in s.targets})

publicDecisionFor(policy, action, target) ==
  Outcome({s \in policy : /\ Everyone \in s.who
                          /\ action \in s.actions
                          /\ target \in s.targets})

\* One decision for all the actions of a request: the weakest.
verifyBucketPolicy(policy, access, actions, target) ==
  LET each == {decisionFor(policy, access, a, target) : a \in actions}
  IN  IF "Deny" \in each THEN "Deny"
      ELSE IF "NoMatch" \in each \/ actions = {} THEN "NoMatch" ELSE "Allow"

\* The same for the answers of a PolicyEvaluator; its policies have no principal.
aggregateActionDecisions(policy, actions, target) ==
  LET each == {decisionFor(policy, Everyone, a, target) : a \in actions}
  IN  IF "Deny" \in each THEN "Deny"
      ELSE IF "NoMatch" \in each THEN "NoMatch" ELSE "Allow"

-----------------------------------------------------------------------------
(* Bucket ACLs: an owner and the permissions of grantees. *)

Grant(who, perm) == [who |-> who, perm |-> perm]

verifyACL(acl, access, perm, disableACL) ==
  IF disableACL THEN acl.owner = access
  ELSE \/ Grant(access, perm) \in acl.grants
       \/ Grant(access, "FULL_CONTROL") \in acl.grants
       \/ Grant(Everyone, perm) \in acl.grants

VerifyPublicBucketACL(acl, perm) == Grant(Everyone, perm) \in acl.grants

UpdateACL(acl, granted) ==
  [acl EXCEPT !.grants = granted \cup {Grant(acl.owner, "FULL_CONTROL")}]

-----------------------------------------------------------------------------
(* Access control.  `iam.evaluator` says whether the IAM service evaluates *)
(* identity policies; `acc` is the account the signature resolved to.      *)

verifyAccessGates(readonly, perm) ==
  ~ (readonly /\ perm \in {"WRITE", "WRITE_ACP"})

authorizationApplies(acc) ==
  ~ acc.public /\ ~ acc.root /\ acc.role # "admin"

\* Mutant: an ACL that grants is enough beside a policy.
AclBesidePolicy(policy, acl, acc, perm, actions, target, disableACL) ==
  IF verifyACL(acl, acc.access, perm, disableACL) THEN "Allow"
  ELSE verifyBucketPolicy(policy, acc.access, actions, target)

\* The bucket policy decides alone where there is one; else the ACL does.
verifyResourceAccess(policy, acl, acc, perm, actions, target, disableACL) ==
  IF policy # {} THEN verifyBucketPolicy(policy, acc.access, actions, target)
  ELSE IF verifyACL(acl, acc.access, perm, disableACL) THEN "Allow" ELSE "NoMatch"

\* Identity and session policies on top of the resource's decision.
Granted(resource, iam, acc, actions, target) ==
  IF ~ iam.evaluator THEN resource = "Allow"
  ELSE LET identity == aggregateActionDecisions(iam.identity[acc.access], actions, target)
           session  == aggregateActionDecisions(iam.session[acc.access], actions, target)
           limited  == iam.session[acc.access] # {}
       IN  /\ identity # "Deny"
           /\ limited => session = "Allow"
           /\ resource = "Allow" \/ identity = "Allow"

\* The first key that the bucket policy denies is the only one refused.
objectsAccessErrors(policy, acl, iam, acc, perm, actions, keys, disableACL) ==
  LET resource(k) ==
        verifyResourceAccess(policy, acl, acc, perm, actions, k, disableACL)
      denied == {i \in DOMAIN keys : resource(keys[i]) = "Deny"}
  IN  IF denied # {} THEN {CHOOSE i \in denied : \A j \in denied : i <= j}
      ELSE {i \in DOMAIN keys :
              ~ Granted(resource(keys[i]), iam, acc, actions, keys[i])}

VerifyAccess(policy, acl, iam, acc, perm, actions, target, disableACL) ==
  authorizationApplies(acc) =>
    objectsAccessErrors(policy, acl, iam, acc, perm, actions, <<target>>, disableACL) = {}

verifyIdentityOnlyAccess(iam, acc, action) ==
  /\ aggregateActionDecisions(iam.identity[acc.access], {action}, BucketItself) = "Allow"
  /\ iam.session[acc.access] # {} =>
       aggregateActionDecisions(iam.session[acc.access], {action}, BucketItself) = "Allow"

VerifyCreateBucketAccess(iam, acc) ==
  \/ acc.root \/ acc.role = "admin"
  \/ ~ iam.evaluator /\ acc.role = "userplus"
  \/ iam.evaluator /\ verifyIdentityOnlyAccess(iam, acc, "CreateBucket")

VerifyListAllMyBucketsAccess(iam, acc) ==
  \/ acc.root \/ acc.role = "admin"
  \/ ~ iam.evaluator
  \/ verifyIdentityOnlyAccess(iam, acc, "ListAllMyBuckets")

IsAdminOrOwner(acc, acl) ==
  acc.access = acl.owner \/ acc.root \/ acc.role = "admin"

publicACLAllowedActions ==
  {"ListBucket", "PutObject", "ListBucketMultipartUploads", "DeleteObject",
   "ListBucketVersions", "GetObject", "GetObjectAttributes", "GetObjectAcl"}

VerifyPublicAccess(policy, acl, action, perm, target) ==
  LET decision == publicDecisionFor(policy, action, target)
  IN  CASE decision = "Deny"  -> FALSE
        [] decision = "Allow" ->
             action \notin {"GetBucketPolicy", "PutBucketPolicy", "DeleteBucketPolicy"}
        [] OTHER -> /\ action \in publicACLAllowedActions
                    /\ VerifyPublicBucketACL(acl, perm)

-----------------------------------------------------------------------------
(* Object locks.  A lock is [mode, until, hold]: mode "none" when the      *)
(* object has no retention of its own; `until` is compared with the clock, *)
(* 0 when it has passed.                                                   *)

Unlocked == [mode |-> "none", until |-> 0, hold |-> FALSE]

loadObjectLockState(versioning, config, isOverwrite) ==
  [applies  |-> config.enabled /\ ~ (isOverwrite /\ versioning = "Enabled"),
   default  |-> config.default,
   enabled  |-> versioning = "Enabled"]

\* What the object's retention says: "free" ends the check, "locked" refuses,
\* "bypass" asks for the permission, "hold" goes on to the legal hold.
checkRetention(lock, bypass) ==
  IF lock.mode = "none" THEN "hold"
  ELSE IF lock.until = 0 THEN "free"
  ELSE IF lock.mode # "COMPLIANCE" /\ bypass # "none" THEN "bypass" ELSE "locked"

\* Mutant: the default retention of the bucket is forgotten.
HoldOnly(lock, state, bypass) == IF lock.hold THEN "locked" ELSE "free"

\* After the legal hold: the default retention of the bucket.
checkHold(lock, state, bypass) ==
  IF lock.hold THEN "locked"
  ELSE IF state.default = "none" THEN "free"
  ELSE IF state.default # "COMPLIANCE" /\ bypass # "none" THEN "bypass" ELSE "locked"

verifyBypassGovernancePermission(policy, iam, acc, key, mode) ==
  LET action   == {"BypassGovernanceRetention"}
      resource == verifyBucketPolicy(policy, acc.access, action, key)
  IN  IF mode = "requested" /\ acc.role = "admin" THEN TRUE
      ELSE IF acc.public THEN publicDecisionFor(policy, "BypassGovernanceRetention", key) = "Allow"
      ELSE IF resource = "Deny" THEN FALSE
      ELSE IF ~ iam.evaluator \/ acc.role = "admin" THEN resource = "Allow"
      ELSE Granted(resource, iam, acc, action, key)

\* Mutant: a later date is taken for an extension whatever the mode.
ExtensionByDate(lock, new, bypass) ==
  IF lock.mode = "none" \/ new.until >= lock.until THEN "free"
  ELSE IF lock.mode = "COMPLIANCE" \/ ~ bypass THEN "locked" ELSE "bypass"

\* Of a new retention against the stored one: "free", "locked" or "bypass".
IsObjectLockRetentionPutAllowed(lock, new, bypass) ==
  IF lock.mode = "none" \/ (new.mode = lock.mode /\ new.until >= lock.until) THEN "free"
  ELSE IF lock.mode # "COMPLIANCE" /\ bypass THEN "bypass" ELSE "locked"
=============================================================================
