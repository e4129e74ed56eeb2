---------------------------- MODULE IamPolicies ----------------------------
(***************************************************************************)
(* Policy documents of the IAM service: what makes one valid, and what it  *)
(* decides (src/iamapi/policy, src/internal/condition).                    *)
(*                                                                         *)
(* An ARN is a tuple <<kind, path, name>>, an action a pair                *)
(* <<vendor, name>>; a pattern is one of these with "*" for a wildcard, or *)
(* Star.  A document that is not JSON, or repeats a key, has json = FALSE. *)
(***************************************************************************)
EXTENDS Naturals, Sequences, FiniteSets, SequencesExt

CONSTANT Fold(_)     \* a name in lower case

Star == <<"*">>
NoArn == <<"">>      \* the resource of a request for something unknown

\* GlobMatch on the tuples that stand for actions and ARNs.
Glob(pattern, s) ==
  \/ pattern = Star
  \/ /\ Len(pattern) = Len(s)
     /\ \A i \in DOMAIN s : pattern[i] \in {"*", s[i]}

MatchAny(patterns, s) == \E p \in patterns : Glob(p, s)

-----------------------------------------------------------------------------
(* Conditions: a set of [base, qualifier, ifExists, key, expected] *)

Exact == {"StringEquals", "StringNotEquals", "BinaryEquals", "Bool"}
Folded == {"StringEqualsIgnoreCase", "StringNotEqualsIgnoreCase"}
Like == {"StringLike", "StringNotLike", "ArnEquals", "ArnLike", "ArnNotEquals",
         "ArnNotLike"}
Negated == {"StringNotEquals", "StringNotEqualsIgnoreCase", "StringNotLike",
            "ArnNotEquals", "ArnNotLike"}
conditionRegistry == Exact \cup Folded \cup Like

compare(base, expected, actual) ==
  CASE base \in Exact -> expected = actual
    [] base \in Folded -> Fold(expected) = Fold(actual)
    [] base \in Like -> expected \in {"*", actual}

\* A block with an operator that is not known does not parse.
ShapeValid(block) == \A c \in block : c.base \in conditionRegistry \cup {"Null"}

aggregate(c, actual) ==
  LET negate == c.base \in Negated
      matchesAny(a) == \E e \in c.expected : compare(c.base, e, a)
  IN  IF c.qualifier = "ForAllValues" \/ (c.qualifier = "" /\ negate)
      THEN \A a \in actual : matchesAny(a) # negate
      ELSE \E a \in actual : matchesAny(a) # negate

evaluateNull(c, present) ==
  IF present THEN "false" \in c.expected ELSE "true" \in c.expected

evaluateConditionKey(c, ctx) ==
  LET present == c.key \in DOMAIN ctx
  IN  CASE c.base = "Null" -> evaluateNull(c, present)
        [] c.base # "Null" /\ present -> aggregate(c, ctx[c.key])
        [] OTHER -> \/ c.qualifier = "ForAllValues"
                    \/ c.base \in Negated
                    \/ c.ifExists

Evaluate(block, ctx) ==
  [ok |-> ShapeValid(block),
   matched |-> ShapeValid(block) /\ \A c \in block : evaluateConditionKey(c, ctx)]

-----------------------------------------------------------------------------
(* Documents *)

\* The statement every field of which is left out.
EmptyStatement ==
  [sid |-> "", effect |-> "", action |-> {}, notAction |-> {}, resource |-> {},
   notResource |-> {}, principal |-> "none", federated |-> {}, cond |-> {}]

validateActionVendor(a) == a = Star \/ (Len(a) = 2 /\ a[1] # "")
validateResourceARN(r) == r = Star \/ Len(r) = 3

validStatement(s) ==
  /\ s.effect \in {"Allow", "Deny"}
  /\ s.principal = "none"
  /\ ShapeValid(s.cond)
  /\ (s.action = {}) # (s.notAction = {})
  /\ \A a \in s.action \cup s.notAction : validateActionVendor(a)
  /\ (s.resource = {}) # (s.notResource = {})
  /\ \A r \in s.resource \cup s.notResource : validateResourceARN(r)

\* What both kinds of documents are checked for.
validOutline(doc) ==
  /\ doc.json
  /\ doc.version \in {"", "2008-10-17", "2012-10-17"}
  /\ doc.stmts # <<>>
  /\ \A i, j \in DOMAIN doc.stmts :
       i # j => doc.stmts[i].sid = "" \/ doc.stmts[i].sid # doc.stmts[j].sid

Valid(doc) == validOutline(doc) /\ \A i \in DOMAIN doc.stmts : validStatement(doc.stmts[i])

\* A provider that many tenants share: a condition must tie it to one of them.
conditionScopesClaim(block, key) ==
  /\ ShapeValid(block)
  /\ \E c \in block :
       /\ c.base \in {"StringEquals", "StringLike", "StringEqualsIgnoreCase"}
       /\ c.key = key
       /\ c.expected \ {"", "*"} # {}

\* The parameter maps the URL of a shared provider to the claim it needs.
validateSharedProviderTenancy(s, shared) ==
  \A url \in s.federated \cap DOMAIN shared : conditionScopesClaim(s.cond, shared[url])

validTrustStatement(s, shared) ==
  /\ s.effect \in {"Allow", "Deny"}
  /\ s.principal = "object"
  /\ validateSharedProviderTenancy(s, shared)
  /\ ShapeValid(s.cond)
  /\ (s.action = {}) # (s.notAction = {})
  /\ \A a \in s.action \cup s.notAction : a # Star /\ a[1] = "sts"
  /\ s.resource = {} /\ s.notResource = {}

ValidTrust(doc, shared) ==
  validOutline(doc) /\ \A i \in DOMAIN doc.stmts : validTrustStatement(doc.stmts[i], shared)

-----------------------------------------------------------------------------
(* Decisions *)

statementCoversAction(s, action) ==
  IF s.action # {} THEN MatchAny(s.action, action)
  ELSE s.notAction # {} /\ ~MatchAny(s.notAction, action)

statementCoversResource(s, resource) ==
  IF s.resource # {} THEN MatchAny(s.resource, resource)
  ELSE s.notResource # {} /\ ~MatchAny(s.notResource, resource)

\* A document that does not parse or validate any more denies everything, and
\* so does a matching statement whose condition cannot be evaluated.
EvaluateIdentityPolicies(docs, action, resource, ctx) ==
  LET Covering(doc) == {doc.stmts[i] : i \in {j \in DOMAIN doc.stmts :
                          /\ statementCoversAction(doc.stmts[j], action)
                          /\ statementCoversResource(doc.stmts[j], resource)}}
      Denies(s) == ~Evaluate(s.cond, ctx).ok
                   \/ (s.effect = "Deny" /\ Evaluate(s.cond, ctx).matched)
      Allows(s) == s.effect = "Allow" /\ Evaluate(s.cond, ctx).matched
  IN  CASE \E d \in docs : ~Valid(d) \/ \E s \in Covering(d) : Denies(s) -> "Deny"
        [] \A d \in docs : Valid(d) /\ ~\E s \in Covering(d) : Denies(s) ->
             IF \E d \in docs : \E s \in Covering(d) : Allows(s) THEN "Allow" ELSE "NoMatch"

\* The identity's own decision and that of its session policy, if it has one.
AuthorizeSplit(identity, action, resource, ctx) ==
  [own |-> EvaluateIdentityPolicies(identity.docs, action, resource, ctx),
   session |-> IF identity.sessionPolicy = {} THEN "none"
               ELSE EvaluateIdentityPolicies(identity.sessionPolicy, action, resource, ctx)]

\* A session policy only ever narrows.
Authorize(identity, action, resource, ctx) ==
  LET d == AuthorizeSplit(identity, action, resource, ctx)
  IN  CASE d.own = "Deny" -> "Deny"
        [] d.own # "Deny" /\ d.session = "none" -> d.own
        [] d.own # "Deny" /\ d.session = "Deny" -> "Deny"
        [] d.own = "Allow" /\ d.session = "Allow" -> "Allow"
        [] OTHER -> "NoMatch"

\* The trust document of a role for a token of `issuer`; `known` are the URLs of
\* the providers that the lookups found.
EvaluateWebIdentityTrust(doc, shared, known, issuer, ctx) ==
  LET stmts == {doc.stmts[i] : i \in {j \in DOMAIN doc.stmts :
                  statementCoversAction(doc.stmts[j], <<"sts", "AssumeRoleWithWebIdentity">>)}}
      principals == UNION {s.federated : s \in stmts} \cap known
      applies == {s \in stmts : issuer \in s.federated \cap known}
      Matched(s) == Evaluate(s.cond, ctx).matched
  IN  CASE ~ValidTrust(doc, shared) -> "NoPrincipal"
        [] ValidTrust(doc, shared) /\ \E s \in applies :
             ~Evaluate(s.cond, ctx).ok \/ (s.effect = "Deny" /\ Matched(s)) -> "ExplicitlyDenied"
        [] OTHER ->
             CASE \E s \in applies : s.effect = "Allow" /\ Matched(s) -> "Allowed"
               [] \A s \in applies : ~(s.effect = "Allow" /\ Matched(s)) ->
                    IF applies # {} THEN "ConditionFailed"
                    ELSE IF principals # {} THEN "NoIssuerMatch" ELSE "NoPrincipal"
=============================================================================
