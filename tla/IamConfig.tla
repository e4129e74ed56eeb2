----------------------------- MODULE IamConfig -----------------------------
(***************************************************************************)
(* The document that the internal IAM store keeps in one file, and what    *)
(* every operation of the store makes of it                                *)
(* (src/iamapi/storage/internal.go, common.go).                            *)
(*                                                                         *)
(* An operation takes the document as read and answers Done(document) or   *)
(* Refused(why); only Done is written back.  Maps are functions.           *)
(***************************************************************************)
EXTENDS IamPolicies, Functions

CONSTANTS
  Order,               \* every name, in the order that lists are sorted by
  Size,                \* Size[d]: length of policy document d
  MaxKeys,             \* MaxAccessKeysPerUser
  MaxTags,             \* MaxTagsPerResource
  MaxPolicySize,       \* MaxInlinePolicyBytesPerUser, ...PerRole
  MaxProviders,        \* MaxOIDCProvidersPerAccount
  MaxClients,          \* MaxClientIDsPerOIDCProvider
  MaxSessions          \* MaxActiveSessionsPerRole

EmptyMap == [x \in {} |-> x]
Over(f, g) == [x \in DOMAIN f \cup DOMAIN g |-> IF x \in DOMAIN f THEN f[x] ELSE g[x]]
Put(f, k, v) == [x \in DOMAIN f \cup {k} |-> IF x = k THEN v ELSE f[x]]
Delete(f, S) == Restrict(f, DOMAIN f \ S)

defaultIAMConfig ==
  [users |-> EmptyMap, keyIndex |-> EmptyMap, userIndex |-> EmptyMap,
   roles |-> EmptyMap, roleIndex |-> EmptyMap, providers |-> EmptyMap,
   sessions |-> EmptyMap]

\* A file of a version without the name indexes gets them when it is read.
normalizeIAMConfig(conf) ==
  LET Index(entities, index) ==
        Over(index, [k \in {Fold(n) : n \in DOMAIN entities} |->
                       CHOOSE n \in DOMAIN entities : Fold(n) = k])
  IN  [conf EXCEPT !.userIndex = Index(conf.users, @),
                   !.roleIndex = Index(conf.roles, @)]

Done(conf) == [ok |-> TRUE, conf |-> conf, why |-> ""]
Refused(why) == [ok |-> FALSE, conf |-> defaultIAMConfig, why |-> why]

\* lookupUser and lookupRole: the name as it is stored, or "".
lookupUser(conf, name) ==
  IF Fold(name) \in DOMAIN conf.userIndex /\ conf.userIndex[Fold(name)] \in DOMAIN conf.users
  THEN conf.userIndex[Fold(name)] ELSE ""

lookupRole(conf, name) ==
  IF Fold(name) \in DOMAIN conf.roleIndex /\ conf.roleIndex[Fold(name)] \in DOMAIN conf.roles
  THEN conf.roleIndex[Fold(name)] ELSE ""

\* Where a name is in the order of lists, and the last name of a page.
Position(n) == CHOOSE i \in DOMAIN Order : Order[i] = n
LastOf(page) == CHOOSE n \in page : \A m \in page : Position(m) <= Position(n)

\* What is left of a list after the marker; a marker that is not on it leaves
\* nothing.
AfterMarker(S, marker) ==
  {n \in S : marker = "" \/ (marker \in S /\ Position(n) > Position(marker))}

\* The first `max` names of a list, or all.
FirstOf(rest, max) ==
  {n \in rest : max > 0 => Cardinality({m \in rest : Position(m) <= Position(n)}) <= max}

\* Mutant: the marker is the first name of the next page.
PageSkips(S, marker, max) ==
  LET rest == AfterMarker(S, marker)
      page == FirstOf(rest, max)
  IN  [names |-> page, truncated |-> page # rest,
       marker |-> IF page = rest THEN "" ELSE LastOf(FirstOf(rest, max + 1))]

\* One page of a sorted list: its names, and where the next one goes on.
Page(S, marker, max) ==
  LET rest == AfterMarker(S, marker)
      page == FirstOf(rest, max)
  IN  [names |-> page, truncated |-> page # rest,
       marker |-> IF page = rest THEN "" ELSE LastOf(page)]

-----------------------------------------------------------------------------
(* Tags.  Keys of users and roles are compared without case, those of
   providers exactly: `keyCase` is "fold" or "exact". *)

Same(keyCase, a, b) == IF keyCase = "fold" THEN Fold(a) = Fold(b) ELSE a = b

mergeTags(tags, new, keyCase) ==
  LET kept == Delete(tags, {k \in DOMAIN tags : \E n \in DOMAIN new : Same(keyCase, k, n)})
      merged == Over(new, kept)
  IN  IF Cardinality(DOMAIN merged) > MaxTags
      THEN Refused("TagLimitExceeded") ELSE [ok |-> TRUE, tags |-> merged]

removeTags(tags, keys, keyCase) ==
  [ok |-> TRUE, tags |-> Delete(tags, {k \in DOMAIN tags : \E n \in keys : Same(keyCase, k, n)})]

-----------------------------------------------------------------------------
(* Users *)

CreateUser(conf, name, user) ==
  IF Fold(name) \in DOMAIN conf.userIndex THEN Refused("EntityAlreadyExists")
  ELSE IF \E n \in DOMAIN conf.users : conf.users[n].id = user.id
  THEN Refused("UserIDAlreadyExists")
  ELSE Done([conf EXCEPT !.users = Put(@, name, user),
                         !.userIndex = Put(@, Fold(name), name)])

DeleteUser(conf, name) ==
  LET n == lookupUser(conf, name)
  IN  IF n = "" THEN Refused("NoSuchEntity")
      ELSE IF conf.users[n].policies # EmptyMap \/ conf.users[n].keys # EmptyMap
      THEN Refused("DeleteConflict")
      ELSE Done([conf EXCEPT !.users = Delete(@, {n}), !.userIndex = Delete(@, {Fold(n)})])

\* The users, or roles, under a path.
Under(entities, prefix) == {n \in DOMAIN entities : prefix \in {"/", entities[n].path}}

ListUsers(conf, prefix, marker, max) == Page(Under(conf.users, prefix), marker, max)

\* Mutant: the keys of a renamed user still lead to the old name.
UpdateUserOnly(conf, name, newName, newPath, newArn) ==
  LET n == lookupUser(conf, name)
      final == IF newName = "" THEN n ELSE newName
      user == [conf.users[n] EXCEPT !.path = IF newPath = "" THEN @ ELSE newPath, !.arn = newArn]
  IN  IF n = "" THEN Refused("NoSuchEntity")
      ELSE IF Fold(final) # Fold(n) /\ Fold(final) \in DOMAIN conf.userIndex
      THEN Refused("EntityAlreadyExists")
      ELSE Done([conf EXCEPT !.users = Put(Delete(@, {n}), final, user),
                             !.userIndex = Put(Delete(@, {Fold(n)}), Fold(final), final)])

\* The caller has built the new ARN; path and name are changed if given.
UpdateUser(conf, name, newName, newPath, newArn) ==
  LET n == lookupUser(conf, name)
      final == IF newName = "" THEN n ELSE newName
      user == [conf.users[n] EXCEPT !.path = IF newPath = "" THEN @ ELSE newPath,
                                    !.arn = newArn]
      moved == IF final = n THEN conf
               ELSE [conf EXCEPT
                       !.users = Delete(@, {n}), !.userIndex = Delete(@, {Fold(n)}),
                       !.keyIndex = Over([k \in DOMAIN user.keys |-> final], @)]
  IN  IF n = "" THEN Refused("NoSuchEntity")
      ELSE IF Fold(final) # Fold(n) /\ Fold(final) \in DOMAIN conf.userIndex
      THEN Refused("EntityAlreadyExists")
      ELSE Done([moved EXCEPT !.users = Put(@, final, user),
                              !.userIndex = Put(@, Fold(final), final)])

\* What the operations on the parts of a user share: the user must exist, and
\* is replaced by what was made of it unless that was refused.
UserOf(conf, name) == conf.users[lookupUser(conf, name)]
ChangeUser(conf, name, r) ==
  IF lookupUser(conf, name) = "" THEN Refused("NoSuchEntity")
  ELSE IF r.ok THEN Done([conf EXCEPT !.users[lookupUser(conf, name)] = r.to])
  ELSE Refused(r.why)

To(entity) == [ok |-> TRUE, to |-> entity, why |-> ""]
Tagged(entity, r) == IF r.ok THEN To([entity EXCEPT !.tags = r.tags]) ELSE r

updateUserTags(conf, name, r) == ChangeUser(conf, name, Tagged(UserOf(conf, name), r))

TagUser(conf, name, new) ==
  updateUserTags(conf, name, mergeTags(UserOf(conf, name).tags, new, "fold"))

UntagUser(conf, name, keys) ==
  updateUserTags(conf, name, removeTags(UserOf(conf, name).tags, keys, "fold"))

ListUserTags(conf, name, marker, max) ==
  Page(DOMAIN conf.users[lookupUser(conf, name)].tags, marker, max)

-----------------------------------------------------------------------------
(* Access keys *)

CreateAccessKey(conf, name, id) ==
  LET n == lookupUser(conf, name)
  IN  IF n = "" THEN Refused("NoSuchEntity")
      ELSE IF Cardinality(DOMAIN conf.users[n].keys) >= MaxKeys
      THEN Refused("LimitExceeded")
      ELSE IF id \in DOMAIN conf.keyIndex THEN Refused("AccessKeyIDAlreadyExists")
      ELSE Done([conf EXCEPT !.users[n].keys = Put(@, id, "Active"),
                             !.keyIndex = Put(@, id, n)])

UpdateAccessKey(conf, name, id, status) ==
  LET user == UserOf(conf, name)
  IN  ChangeUser(conf, name,
        IF id \in DOMAIN user.keys THEN To([user EXCEPT !.keys[id] = status])
        ELSE Refused("NoSuchEntity"))

DeleteAccessKey(conf, name, id) ==
  LET n == lookupUser(conf, name)
  IN  IF n = "" \/ id \notin DOMAIN conf.users[n].keys THEN Refused("NoSuchEntity")
      ELSE Done([conf EXCEPT !.users[n].keys = Delete(@, {id}), !.users[n].used = @ \ {id},
                             !.keyIndex = Delete(@, {id})])

\* The user that the index names, if that user has the key.
ownerOf(conf, id) ==
  IF id \in DOMAIN conf.keyIndex /\ conf.keyIndex[id] \in DOMAIN conf.users
     /\ id \in DOMAIN conf.users[conf.keyIndex[id]].keys
  THEN conf.keyIndex[id] ELSE ""

GetAccessKeyLastUsed(conf, id) ==
  LET n == ownerOf(conf, id) IN n # "" /\ id \in conf.users[n].used

RecordAccessKeyUsage(conf, id) ==
  IF ownerOf(conf, id) = "" THEN Refused("NoSuchEntity")
  ELSE Done([conf EXCEPT !.users[ownerOf(conf, id)].used = @ \cup {id}])

ListAccessKeys(conf, name, marker, max) ==
  Page(DOMAIN conf.users[lookupUser(conf, name)].keys, marker, max)

-----------------------------------------------------------------------------
(* Inline policies of users *)

Total(policies) ==
  SumFunction([p \in DOMAIN policies |-> Size[policies[p]]])

\* A policy replaces the one of its name; the limit is on all of them together.
WithPolicy(entity, p, doc) ==
  IF Total(Put(entity.policies, p, doc)) > MaxPolicySize THEN Refused("LimitExceeded")
  ELSE To([entity EXCEPT !.policies = Put(@, p, doc)])

WithoutPolicy(entity, p) ==
  IF p \in DOMAIN entity.policies THEN To([entity EXCEPT !.policies = Delete(@, {p})])
  ELSE Refused("NoSuchEntity")

PutUserPolicy(conf, name, p, doc) ==
  ChangeUser(conf, name, WithPolicy(UserOf(conf, name), p, doc))

GetUserPolicy(conf, name, p) ==
  LET n == lookupUser(conf, name) IN n # "" /\ p \in DOMAIN conf.users[n].policies

DeleteUserPolicy(conf, name, p) ==
  ChangeUser(conf, name, WithoutPolicy(UserOf(conf, name), p))

ListUserPolicies(conf, name, marker, max) ==
  Page(DOMAIN conf.users[lookupUser(conf, name)].policies, marker, max)

-----------------------------------------------------------------------------
(* Roles *)

CreateRole(conf, name, role) ==
  IF Fold(name) \in DOMAIN conf.roleIndex THEN Refused("EntityAlreadyExists")
  ELSE IF \E n \in DOMAIN conf.roles : conf.roles[n].id = role.id
  THEN Refused("RoleIDAlreadyExists")
  ELSE Done([conf EXCEPT !.roles = Put(@, name, role),
                         !.roleIndex = Put(@, Fold(name), name)])

ListRoles(conf, prefix, marker, max) == Page(Under(conf.roles, prefix), marker, max)

\* Sessions of the role stay in the document; they resolve without a role.
DeleteRole(conf, name) ==
  LET n == lookupRole(conf, name)
  IN  IF n = "" THEN Refused("NoSuchEntity")
      ELSE IF conf.roles[n].policies # EmptyMap THEN Refused("DeleteConflict")
      ELSE Done([conf EXCEPT !.roles = Delete(@, {n}), !.roleIndex = Delete(@, {Fold(n)})])

RoleOf(conf, name) == conf.roles[lookupRole(conf, name)]
ChangeRole(conf, name, r) ==
  IF lookupRole(conf, name) = "" THEN Refused("NoSuchEntity")
  ELSE IF r.ok THEN Done([conf EXCEPT !.roles[lookupRole(conf, name)] = r.to])
  ELSE Refused(r.why)

UpdateAssumeRolePolicy(conf, name, doc) ==
  ChangeRole(conf, name, To([RoleOf(conf, name) EXCEPT !.trust = doc]))

updateRoleTags(conf, name, r) == ChangeRole(conf, name, Tagged(RoleOf(conf, name), r))

TagRole(conf, name, new) ==
  updateRoleTags(conf, name, mergeTags(RoleOf(conf, name).tags, new, "fold"))

UntagRole(conf, name, keys) ==
  updateRoleTags(conf, name, removeTags(RoleOf(conf, name).tags, keys, "fold"))

ListRoleTags(conf, name, marker, max) ==
  Page(DOMAIN conf.roles[lookupRole(conf, name)].tags, marker, max)

PutRolePolicy(conf, name, p, doc) ==
  ChangeRole(conf, name, WithPolicy(RoleOf(conf, name), p, doc))

GetRolePolicy(conf, name, p) ==
  LET n == lookupRole(conf, name) IN n # "" /\ p \in DOMAIN conf.roles[n].policies

DeleteRolePolicy(conf, name, p) ==
  ChangeRole(conf, name, WithoutPolicy(RoleOf(conf, name), p))

ListRolePolicies(conf, name, marker, max) ==
  Page(DOMAIN conf.roles[lookupRole(conf, name)].policies, marker, max)

-----------------------------------------------------------------------------
(* OpenID Connect providers, by URL *)

CreateOIDCProvider(conf, url, provider) ==
  IF url \in DOMAIN conf.providers THEN Refused("EntityAlreadyExists")
  ELSE IF Cardinality(DOMAIN conf.providers) >= MaxProviders THEN Refused("LimitExceeded")
  ELSE Done([conf EXCEPT !.providers = Put(@, url, provider)])

ListOIDCProviders(conf) == Page(DOMAIN conf.providers, "", 0)

ChangeProvider(conf, url, r) ==
  IF url \notin DOMAIN conf.providers THEN Refused("NoSuchEntity")
  ELSE IF r.ok THEN Done([conf EXCEPT !.providers[url] = r.to])
  ELSE Refused(r.why)

DeleteOIDCProvider(conf, url) ==
  IF url \notin DOMAIN conf.providers THEN Refused("NoSuchEntity")
  ELSE Done([conf EXCEPT !.providers = Delete(@, {url})])

\* Adding a client twice, or removing one that is not there, changes nothing.
AddClientIDToOIDCProvider(conf, url, client) ==
  LET p == conf.providers[url]
  IN  ChangeProvider(conf, url,
        IF client \in p.clients THEN To(p)
        ELSE IF Cardinality(p.clients) >= MaxClients THEN Refused("LimitExceeded")
        ELSE To([p EXCEPT !.clients = @ \cup {client}]))

RemoveClientIDFromOIDCProvider(conf, url, client) ==
  ChangeProvider(conf, url, To([conf.providers[url] EXCEPT !.clients = @ \ {client}]))

UpdateOIDCProviderThumbprint(conf, url, thumb) ==
  ChangeProvider(conf, url, To([conf.providers[url] EXCEPT !.thumb = thumb]))

updateOIDCProviderTags(conf, url, r) == ChangeProvider(conf, url, Tagged(conf.providers[url], r))

TagOIDCProvider(conf, url, new) ==
  updateOIDCProviderTags(conf, url, mergeTags(conf.providers[url].tags, new, "exact"))

UntagOIDCProvider(conf, url, keys) ==
  updateOIDCProviderTags(conf, url, removeTags(conf.providers[url].tags, keys, "exact"))

ListOIDCProviderTags(conf, url, marker, max) ==
  Page(DOMAIN conf.providers[url].tags, marker, max)

-----------------------------------------------------------------------------
(* Sessions, by their temporary access key *)

activeSessionCountForRole(conf, arn) ==
  Cardinality({s \in DOMAIN conf.sessions : conf.sessions[s].arn = arn})

pruneExpiredSessions(conf, now) ==
  [conf EXCEPT !.sessions = Delete(@, {s \in DOMAIN @ : @[s].expires <= now})]

CreateSession(conf, id, session, now) ==
  LET pruned == pruneExpiredSessions(conf, now)
  IN  IF activeSessionCountForRole(pruned, session.arn) >= MaxSessions
      THEN Refused("Throttling")
      ELSE Done([pruned EXCEPT !.sessions = Put(@, id, session)])

\* GetSession: only a session that has not expired is found.
SessionFound(conf, id, now) ==
  id \in DOMAIN conf.sessions /\ conf.sessions[id].expires > now

-----------------------------------------------------------------------------
(* What holds of every document: the part of the inductive invariant of
   IamApiProofs that is about the store file *)

Names == {Order[i] : i \in DOMAIN Order} \ {""}

ASSUME ConfigAssumption ==
  /\ {MaxKeys, MaxClients, MaxSessions} \subseteq Nat /\ Order \in Seq(STRING)
  /\ \A n \in Names : Fold(Fold(n)) = Fold(n)

\* Names differ in more than case, and what is in the index is right.
NamesSound(entities, index) ==
  /\ DOMAIN entities \subseteq Names
  /\ \A m, n \in DOMAIN entities : Fold(m) = Fold(n) => m = n
  /\ \A i \in DOMAIN index : index[i] \in DOMAIN entities /\ Fold(index[i]) = i

\* Every access key is in the index, with its user, and nothing else.
KeysSound(conf) ==
  /\ \A n \in DOMAIN conf.users : \A k \in DOMAIN conf.users[n].keys :
       k \in DOMAIN conf.keyIndex /\ conf.keyIndex[k] = n
  /\ \A k \in DOMAIN conf.keyIndex :
       conf.keyIndex[k] \in DOMAIN conf.users /\ k \in DOMAIN conf.users[conf.keyIndex[k]].keys

UserSound(u) == /\ {"id", "path", "arn", "keys", "used", "policies", "tags"} \subseteq DOMAIN u
                /\ IsFiniteSet(DOMAIN u.keys) /\ Cardinality(DOMAIN u.keys) <= MaxKeys
RoleSound(r) == {"arn", "trust", "policies", "tags"} \subseteq DOMAIN r
ProviderSound(p) == /\ {"clients", "thumb", "tags"} \subseteq DOMAIN p
                    /\ IsFiniteSet(p.clients) /\ Cardinality(p.clients) <= MaxClients
SessionsSound(sessions) ==
  /\ IsFiniteSet(DOMAIN sessions)
  /\ \A t \in DOMAIN sessions :
       Cardinality({u \in DOMAIN sessions : sessions[u].arn = sessions[t].arn}) <= MaxSessions

Sound(conf) ==
  /\ DOMAIN defaultIAMConfig \subseteq DOMAIN conf
  /\ NamesSound(conf.users, conf.userIndex) /\ NamesSound(conf.roles, conf.roleIndex)
  /\ KeysSound(conf)
  /\ \A n \in DOMAIN conf.users : UserSound(conf.users[n])
  /\ \A m, n \in DOMAIN conf.users : conf.users[m].id = conf.users[n].id => m = n
  /\ \A n \in DOMAIN conf.roles : RoleSound(conf.roles[n])
  /\ \A p \in DOMAIN conf.providers : ProviderSound(conf.providers[p])
  /\ SessionsSound(conf.sessions)

\* A document as it is in memory: the name indexes are complete.
Whole(conf) == /\ Sound(conf)
               /\ \A n \in DOMAIN conf.users : Fold(n) \in DOMAIN conf.userIndex
               /\ \A n \in DOMAIN conf.roles : Fold(n) \in DOMAIN conf.roleIndex
=============================================================================
