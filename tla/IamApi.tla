------------------------------- MODULE IamApi -------------------------------
(***************************************************************************)
(* Servers of the IAM API that share one store file.                       *)
(*                                                                         *)
(* A server reads the file through a cache that lives one second; a write  *)
(* reads the file, applies one operation (IamConfig) and renames the new   *)
(* file over the old one, under a lock of that server alone                *)
(* (src/internal/iamstore/engine.go).  A request (IamHandlers) is          *)
(* authenticated and authorised from the same file, read by read           *)
(* (src/iamapi/internal/iammiddleware, iamutil), and one by an access key  *)
(* writes the file itself: the time the key was last used.                 *)
(*                                                                         *)
(* One unit of time is longer than the second of the cache and the eight   *)
(* seconds a fetch of signing keys may take.  The backup file is written   *)
(* and never read by a server; it is left out.  Identifiers are random:    *)
(* Generated[s] are the ones request s draws, in that order.               *)
(***************************************************************************)
EXTENDS IamConfig, IamHandlers

CONSTANTS
  Servers, Slots,
  Documents,           \* Documents[d]: identity policy named d
  Trusts,              \* Trusts[d]: trust policy named d
  Shared,              \* claims that shared providers must be tied to
  Generated,           \* Generated[s]: identifiers that request s draws
  Mixes,               \* Mixes[m]: the world and the clients it starts with
  JwksTTL, JwksRefresh \* jwksCacheTTL, jwksMinForcedRefreshInterval

\* What a client may ask for: names are not empty, and the controller of
\* CreateOpenIDConnectProvider turns down too many clients.
InputFits(in) ==
  /\ {"op", "cred", "on", "x", "y", "marker", "policy"} \subseteq DOMAIN in
  /\ in.op \in {"CreateUser", "CreateRole"} => in.on \in Names
  /\ in.op = "UpdateUser" => in.x \in Names \cup {""}
  /\ in.op \in {"ListUsers", "ListRoles"} => in.y \in Nat
  /\ in.op = "CreateOIDCProvider" => IsFiniteSet(in.x) /\ Cardinality(in.x) <= MaxClients

ASSUME FreeAssumption == "free" \notin Slots /\ "tool" \notin Servers
ASSUME JwksAssumption == JwksTTL \in Nat
ASSUME MixAssumption ==
  \A m \in DOMAIN Mixes :
    /\ Sound(Mixes[m].conf) /\ Mixes[m].at \in [Slots -> Servers]
    /\ \A s \in Slots : \A i \in DOMAIN Mixes[m].inputs[s] : InputFits(Mixes[m].inputs[s][i])

VARIABLES
  mix,                 \* the mix of clients
  file,                \* the store file: its format, content, and how often written
  cache,               \* cache[g]: what server g keeps of it
  lock,                \* lock[g]: the request that holds the write lock of g
  now,
  rq,                  \* rq[s]: request s
  tool,                \* the migration tool: what it has read
  idp,                 \* signing key that the identity provider publishes now
  jwks,                \* jwks[g]: the signing keys that g has cached
  flight,              \* flight[g]: keys that a fetch of g is bringing, or "none"
  owner,               \* owner[k]: user ID that access key k was made for (history)
  off,                 \* off[k]: where and when key k was revoked (history)
  retired              \* retired[k]: when signing key k stopped being published (history)

store == <<file, cache, lock>>
keys == <<idp, jwks, flight, retired>>
history == <<owner, off>>
vars == <<mix, store, now, rq, tool, keys, history>>

Nobody ==
  [kind |-> "none", key |-> "", uid |-> "", arn |-> NoArn, docs |-> {},
   sessionPolicy |-> {}, tags |-> EmptyMap, roleId |-> "", fromRole |-> ""]

NoInput ==
  [op |-> "", cred |-> "", on |-> "", x |-> "", y |-> "", marker |-> "", policy |-> {}]

Idle ==
  [status |-> "idle", in |-> NoInput, todo |-> <<>>, id |-> Nobody, name |-> "",
   user |-> EmptyMap, raw |-> EmptyMap, try |-> 1, role |-> EmptyMap,
   granted |-> {}, basis |-> 0, dead |-> {}, wait |-> FALSE, tried |-> FALSE,
   answer |-> [names |-> {}, truncated |-> FALSE, marker |-> ""],
   listed |-> {}, through |-> {}, lostMarker |-> FALSE]

At(s) == Mixes[mix].at[s]
ActiveKeys(conf) ==
  {k \in UNION {DOMAIN conf.users[n].keys : n \in DOMAIN conf.users} :
     \E n \in DOMAIN conf.users :
       k \in DOMAIN conf.users[n].keys /\ conf.users[n].keys[k] = "Active"}

Init ==
  /\ mix \in DOMAIN Mixes
  /\ file = [fmt |-> Mixes[mix].fmt, conf |-> Mixes[mix].conf, ver |-> 0]
  /\ cache = [g \in Servers |-> [valid |-> FALSE, at |-> 0, file |-> EmptyMap]]
  /\ lock = [g \in Servers |-> "free"]
  /\ now = 0
  /\ rq = [s \in Slots |-> Idle]
  /\ tool = [todo |-> Mixes[mix].tool, read |-> EmptyMap]
  /\ idp = "kid1" /\ flight = [g \in Servers |-> "none"]
  /\ jwks = [g \in Servers |-> [kid |-> "none", expires |-> 0, forced |-> 0, known |-> FALSE]]
  /\ retired = EmptyMap
  /\ owner = [k \in ActiveKeys(Mixes[mix].conf) |->
                Mixes[mix].conf.users[Mixes[mix].conf.keyIndex[k]].id]
  /\ off = EmptyMap

-----------------------------------------------------------------------------
(* The store engine *)

\* decode: an encrypted file needs the key, and plain text may be refused.
Readable(g, f) ==
  IF f.fmt = "sealed" THEN g \in Mixes[mix].protect ELSE g \notin Mixes[mix].require

\* Mutant: the cache never grows old.
CachedAnyTime(g) == cache[g].valid

cachedPlaintext(g) == cache[g].valid /\ cache[g].at = now

\* ReadIAMData: the file as server g sees it now.
ReadIAMData(g) == IF cachedPlaintext(g) THEN cache[g].file ELSE file
CanRead(g) == lock[g] = "free"
CanDecode(g) == cachedPlaintext(g) \/ Readable(g, file)

\* The cache after that read; a file with the digest of the cached one only
\* prolongs it.
AfterRead(g) ==
  cache' = [cache EXCEPT ![g] = IF cachedPlaintext(g) THEN @
                                ELSE [valid |-> TRUE, at |-> now, file |-> file]]

Conf(g) == normalizeIAMConfig(ReadIAMData(g).conf)

-----------------------------------------------------------------------------
(* How a request goes on *)

Next_(s, step) == rq[s].status = "run" /\ rq[s].todo # <<>> /\ Head(rq[s].todo).do = step
Op(s) == Head(rq[s].todo).op

Advance(s, r) == rq' = [rq EXCEPT ![s] = [r EXCEPT !.todo = Tail(@)]]
Fail(s) == rq' = [rq EXCEPT ![s].status = "error", ![s].todo = <<>>]

\* A step that reads the store: `then(conf)` is the request after it, or FALSE.
Reading(s, step, ok(_), then(_)) ==
  /\ Next_(s, step) /\ CanRead(At(s))
  /\ IF CanDecode(At(s))
     THEN /\ AfterRead(At(s))
          /\ IF ok(Conf(At(s))) THEN Advance(s, then(Conf(At(s)))) ELSE Fail(s)
     ELSE Fail(s) /\ UNCHANGED cache
  /\ UNCHANGED <<mix, file, lock, now, tool, keys, history>>

Local(s) == UNCHANGED <<mix, store, now, tool, keys, history>>

\* Keys that were revoked on server g, or longer ago than a cache lives.
Dead(g) == {k \in DOMAIN off : off[k].by = g \/ off[k].at < now}

Begin(s) ==
  /\ rq[s].status = "idle"
  /\ \E i \in DOMAIN Mixes[mix].inputs[s] : LET in == Mixes[mix].inputs[s][i] IN
       rq' = [rq EXCEPT ![s] = [Idle EXCEPT !.status = "run", !.in = in, !.todo = dispatch(in),
                !.dead = Dead(At(s))]]
  /\ Local(s)

\* The client asks for the next page of a truncated list.
NextPage(s) ==
  /\ rq[s].status = "ok" /\ rq[s].answer.truncated
  /\ rq' = [rq EXCEPT ![s].status = "run", ![s].todo = dispatch(rq[s].in),
                      ![s].in.marker = rq[s].answer.marker]
  /\ Local(s)

ProcessHandlers(s) ==
  /\ rq[s].status = "run" /\ rq[s].todo = <<>>
  /\ rq' = [rq EXCEPT ![s].status = "ok"]
  /\ Local(s)

Validate(s) == Next_(s, "Valid") /\ (Advance(s, rq[s]) \/ Fail(s)) /\ Local(s)
routeAction(s) == Next_(s, "InvalidAction") /\ Fail(s) /\ Local(s)
Caller(s) == Next_(s, "Caller") /\ Advance(s, rq[s]) /\ Local(s)

\* FetchThumbprint: without thumbprints in the request the provider is asked for
\* its certificate, which may fail.
FetchThumbprint(s) ==
  /\ Next_(s, "Thumbprint")
  /\ Advance(s, rq[s]) \/ (rq[s].in.y = "" /\ Fail(s))
  /\ Local(s)

-----------------------------------------------------------------------------
(* Authentication *)

\* VerifyIAMAuth: root, then resolveIdentity.  GetUserByAccessKeyID reads the
\* index here and the user in a second read.
ResolveRoot(s) ==
  /\ Next_(s, "Resolve") /\ rq[s].in.cred = "root"
  /\ Advance(s, [rq[s] EXCEPT !.id = [Nobody EXCEPT !.kind = "root"]]) /\ Local(s)

IsTempAccessKeyID(k) == k \in {"t1", "t2", "t3"}

ResolveIndex(s) ==
  LET k == rq[s].in.cred
      Indexed(conf) == k \in DOMAIN conf.keyIndex
      Named(conf) == [rq[s] EXCEPT !.name = conf.keyIndex[k],
                        !.todo = <<Head(@), Do("ResolveUser")>> \o Tail(@)]
  IN  /\ k # "root" /\ ~IsTempAccessKeyID(k)
      /\ Reading(s, "Resolve", Indexed, Named)

\* ResolveUserIdentity: the user of that name must have the key, and active.
HasActiveKey(user, k) == k \in DOMAIN user.keys /\ user.keys[k] = "Active"

ResolveUserIdentity(s) ==
  LET k == rq[s].in.cred
      Found(conf) == lookupUser(conf, rq[s].name) # ""
                     /\ HasActiveKey(conf.users[lookupUser(conf, rq[s].name)], k)
      User(conf) == conf.users[lookupUser(conf, rq[s].name)]
      Known(conf) == [rq[s] EXCEPT
                        !.id = [Nobody EXCEPT !.kind = "user", !.key = k,
                                  !.uid = User(conf).id, !.arn = User(conf).arn,
                                  !.tags = User(conf).tags,
                                  !.docs = {Documents[d] : d \in Range(User(conf).policies)}],
                        !.todo = <<Head(@)>> \o Store("RecordAccessKeyUsage") \o Tail(@)]
  IN  Reading(s, "ResolveUser", Found, Known)

\* ResolveSessionByToken: first the session, then the role it was made for.
ResolveSession(s) ==
  LET t == rq[s].in.cred
      Live(conf) == SessionFound(conf, t, now)
      Known(conf) == [rq[s] EXCEPT
                        !.id = [Nobody EXCEPT !.kind = "session", !.key = t,
                                  !.arn = conf.sessions[t].arn,
                                  !.roleId = conf.sessions[t].roleId,
                                  !.sessionPolicy = {Documents[d] : d \in conf.sessions[t].policy}],
                        !.name = conf.sessions[t].role,
                        !.todo = <<Head(@), Do("ResolveRole")>> \o Tail(@)]
  IN  /\ IsTempAccessKeyID(t)
      /\ Reading(s, "Resolve", Live, Known)

\* A role that was deleted, or made anew under the name, lends no policies.
SameRole(role, id) == role.id = id.roleId /\ role.arn = id.arn

ResolveSessionByToken(s) ==
  LET n(conf) == lookupRole(conf, rq[s].name)
      Always(conf) == TRUE
      Known(conf) ==
        IF n(conf) # "" /\ SameRole(conf.roles[n(conf)], rq[s].id)
        THEN [rq[s] EXCEPT
                !.id.docs = {Documents[d] : d \in Range(conf.roles[n(conf)].policies)},
                !.id.tags = conf.roles[n(conf)].tags,
                !.id.fromRole = conf.roles[n(conf)].id]
        ELSE rq[s]
  IN  /\ Next_(s, "ResolveRole")
      /\ \/ Reading(s, "ResolveRole", Always, Known)
         \/ /\ ~CanDecode(At(s)) /\ Advance(s, rq[s]) /\ Local(s)

-----------------------------------------------------------------------------
(* Authorisation *)

UserArn(path, name) == <<"user", path, name>>
RoleArn(path, name) == <<"role", path, name>>
ProviderArn(url) == <<"provider", "", url>>

\* Resource and tags of an existing entity; NoArn when it is not found.
Target(arn, tags) == [arn |-> arn, tags |-> tags]
existingUserResource(conf, name) ==
  LET n == IF name = "" THEN "" ELSE lookupUser(conf, name)
  IN  IF n = "" THEN Target(NoArn, EmptyMap)
      ELSE Target(conf.users[n].arn, conf.users[n].tags)

existingRoleResource(conf, name) ==
  LET n == lookupRole(conf, name)
  IN  IF n = "" THEN Target(NoArn, EmptyMap)
      ELSE Target(conf.roles[n].arn, conf.roles[n].tags)

getUserResource(conf, r) ==
  IF r.in.on # "" THEN existingUserResource(conf, r.in.on)
  ELSE IF r.id.kind = "user" THEN Target(r.id.arn, r.id.tags) ELSE Target(NoArn, EmptyMap)

accessKeyOwnerResource(conf, k) ==
  IF k \in DOMAIN conf.keyIndex THEN existingUserResource(conf, conf.keyIndex[k])
  ELSE Target(NoArn, EmptyMap)

resourceForAction(conf, r) ==
  CASE r.in.op = "CreateUser" -> Target(UserArn(r.in.x, r.in.on), EmptyMap)
    [] r.in.op = "GetUser" -> getUserResource(conf, r)
    [] r.in.op \in UserActions -> existingUserResource(conf, r.in.on)
    [] r.in.op = "GetAccessKeyLastUsed" -> accessKeyOwnerResource(conf, r.in.x)
    [] r.in.op = "CreateRole" -> Target(RoleArn(r.in.x, r.in.on), EmptyMap)
    [] r.in.op \in RoleActions -> existingRoleResource(conf, r.in.on)
    [] r.in.op = "CreateOIDCProvider" -> Target(ProviderArn(r.in.on), EmptyMap)
    [] r.in.op \in ProviderActions ->
         Target(ProviderArn(r.in.on), IF r.in.on \in DOMAIN conf.providers
                                      THEN conf.providers[r.in.on].tags ELSE EmptyMap)
    [] OTHER -> Target(Star, EmptyMap)

\* Keys of the condition context that the policies of the model look at.
requestConditionContext(id, tags) ==
  [k \in {<<"ResourceTag", t>> : t \in DOMAIN tags} |-> {tags[k[2]]}]
  @@ [k \in {<<"PrincipalTag", t>> : t \in DOMAIN id.tags} |-> {id.tags[k[2]]}]
  @@ (<<"PrincipalType">> :> {id.kind})

\* Root is let through without a look at the target.  Every request names what it
\* is about: one that does not is refused, here or by its controller.
VerifyIAMPolicy(s) ==
  LET r == rq[s]
      Target_(conf) == resourceForAction(conf, r)
      Allowed(conf) == r.id.kind = "root" \/
        Authorize(r.id, <<"iam", r.in.op>>, Target_(conf).arn,
                  requestConditionContext(r.id, Target_(conf).tags)) = "Allow"
      Granted(conf) == [r EXCEPT !.granted = @ \cup {Target_(conf).arn},
                                 !.basis = ReadIAMData(At(s)).ver]
  IN  Reading(s, "Authorize", Allowed, Granted)

\* Mutant: the target of a rename is not looked at.
SourceOnly(s) == Next_(s, "Target") /\ Advance(s, rq[s]) /\ Local(s)

\* updateUserTargetResource: a rename or move must be allowed on its result too.
updateUserTargetResource(s) ==
  LET r == rq[s]
      New(conf) == LET u == conf.users[lookupUser(conf, r.in.on)]
                   IN  UserArn(IF r.in.y = "" THEN u.path ELSE r.in.y,
                               IF r.in.x = "" THEN lookupUser(conf, r.in.on) ELSE r.in.x)
      Needed(conf) == lookupUser(conf, r.in.on) # "" /\ (r.in.x # "" \/ r.in.y # "")
      Allowed(conf) == \/ r.id.kind = "root" \/ ~Needed(conf)
                       \/ Authorize(r.id, <<"iam", "UpdateUser">>, New(conf),
                                    requestConditionContext(r.id,
                                      existingUserResource(conf, r.in.on).tags)) = "Allow"
      Granted(conf) == IF Needed(conf) THEN [r EXCEPT !.granted = @ \cup {New(conf)}] ELSE r
  IN  Reading(s, "Target", Allowed, Granted)

-----------------------------------------------------------------------------
(* What the controllers read before they write *)

ReadUser(s) ==
  LET Found(conf) == lookupUser(conf, rq[s].in.on) # ""
      Keep(conf) == [rq[s] EXCEPT
                       !.user = [name |-> lookupUser(conf, rq[s].in.on),
                                 path |-> conf.users[lookupUser(conf, rq[s].in.on)].path]]
  IN  Reading(s, "User", Found, Keep)

ReadRole(s) ==
  LET Found(conf) == lookupRole(conf, rq[s].in.on) # ""
      Keep(conf) == rq[s]
  IN  Reading(s, "Role", Found, Keep)

ParsePolicy(s) ==
  /\ Next_(s, "Policy")
  /\ IF Valid(Documents[rq[s].in.y]) THEN Advance(s, rq[s]) ELSE Fail(s)
  /\ Local(s)

ParseTrust(s) ==
  /\ Next_(s, "Trust")
  /\ IF ValidTrust(Trusts[rq[s].in.y], Shared) THEN Advance(s, rq[s]) ELSE Fail(s)
  /\ Local(s)

\* Reads of the API: what they find, and for lists one page of it.
Found(conf, op, in) ==
  CASE op = "GetUser" -> lookupUser(conf, in.on) # ""
    [] op = "GetAccessKeyLastUsed" -> ownerOf(conf, in.x) # ""
    [] op = "GetUserPolicy" -> GetUserPolicy(conf, in.on, in.x)
    [] op = "GetRole" -> lookupRole(conf, in.on) # ""
    [] op = "GetRolePolicy" -> GetRolePolicy(conf, in.on, in.x)
    [] op = "GetOIDCProvider" -> in.on \in DOMAIN conf.providers
    [] op \in {"ListAccessKeys", "ListUserTags", "ListUserPolicies"} -> lookupUser(conf, in.on) # ""
    [] op \in {"ListRoleTags", "ListRolePolicies"} -> lookupRole(conf, in.on) # ""
    [] op = "ListOIDCProviderTags" -> in.on \in DOMAIN conf.providers
    [] OTHER -> TRUE

Listing(conf, op, in) ==
  CASE op = "ListUsers" -> ListUsers(conf, in.x, in.marker, in.y)
    [] op = "ListUserTags" -> ListUserTags(conf, in.on, in.marker, in.y)
    [] op = "ListAccessKeys" -> ListAccessKeys(conf, in.on, in.marker, in.y)
    [] op = "ListUserPolicies" -> ListUserPolicies(conf, in.on, in.marker, in.y)
    [] op = "ListRoles" -> ListRoles(conf, in.x, in.marker, in.y)
    [] op = "ListRoleTags" -> ListRoleTags(conf, in.on, in.marker, in.y)
    [] op = "ListRolePolicies" -> ListRolePolicies(conf, in.on, in.marker, in.y)
    [] op = "ListOIDCProviderTags" -> ListOIDCProviderTags(conf, in.on, in.marker, in.y)
    [] op = "ListOIDCProviders" -> ListOIDCProviders(conf)
    [] OTHER -> Idle.answer

\* What a list is about, for the history of a list in pages.
Listed(conf, op, in) ==
  CASE op = "ListUsers" -> Under(conf.users, in.x) [] op = "ListRoles" -> Under(conf.roles, in.x)
    [] OTHER -> {}

Answer(s) ==
  LET op == Op(s)
      Exists(conf) == Found(conf, op, rq[s].in)
      Page_(conf) ==
        LET page == Listing(conf, op, rq[s].in)
            all == Listed(conf, op, rq[s].in)
        IN  [rq[s] EXCEPT !.answer = page, !.listed = @ \cup page.names,
               !.through = IF rq[s].in.marker = "" THEN all ELSE @ \cap all,
               !.lostMarker = @ \/ (rq[s].in.marker # "" /\ rq[s].in.marker \notin all)]
  IN  Reading(s, "Read", Exists, Page_)

-----------------------------------------------------------------------------
(* Writes *)

NewUser(s, in) ==
  [id |-> Generated[s][rq[s].try], path |-> in.x, arn |-> UserArn(in.x, in.on),
   keys |-> EmptyMap, used |-> {}, policies |-> EmptyMap, tags |-> in.y]
NewRole(s, in) ==
  [id |-> Generated[s][rq[s].try], path |-> in.x, arn |-> RoleArn(in.x, in.on),
   trust |-> in.y, policies |-> EmptyMap, tags |-> EmptyMap]
NewSession(s) ==
  [role |-> rq[s].role.name, roleId |-> rq[s].role.id, arn |-> rq[s].role.arn,
   policy |-> rq[s].in.policy, expires |-> now + 1]

\* The ARN that the controller of UpdateUser builds from the user it read.
NewArn(s) ==
  LET in == rq[s].in
  IN  UserArn(IF in.y = "" THEN rq[s].user.path ELSE in.y,
              IF in.x = "" THEN rq[s].user.name ELSE in.x)

UpdateUsers(conf, s, op, in) ==
  CASE op = "CreateUser" -> CreateUser(conf, in.on, NewUser(s, in))
    [] op = "DeleteUser" -> DeleteUser(conf, in.on)
    [] op = "UpdateUser" -> UpdateUser(conf, in.on, in.x, in.y, NewArn(s))
    [] op = "TagUser" -> TagUser(conf, in.on, in.x)
    [] op = "UntagUser" -> UntagUser(conf, in.on, in.x)
    [] op = "CreateAccessKey" -> CreateAccessKey(conf, in.on, Generated[s][rq[s].try])
    [] op = "UpdateAccessKey" -> UpdateAccessKey(conf, in.on, in.x, in.y)
    [] op = "DeleteAccessKey" -> DeleteAccessKey(conf, in.on, in.x)
    [] op = "RecordAccessKeyUsage" -> RecordAccessKeyUsage(conf, in.cred)
    [] op = "PutUserPolicy" -> PutUserPolicy(conf, in.on, in.x, in.y)
    [] op = "DeleteUserPolicy" -> DeleteUserPolicy(conf, in.on, in.x)

UpdateRoles(conf, s, op, in) ==
  CASE op = "CreateRole" -> CreateRole(conf, in.on, NewRole(s, in))
    [] op = "DeleteRole" -> DeleteRole(conf, in.on)
    [] op = "UpdateAssumeRolePolicy" -> UpdateAssumeRolePolicy(conf, in.on, in.y)
    [] op = "TagRole" -> TagRole(conf, in.on, in.x)
    [] op = "UntagRole" -> UntagRole(conf, in.on, in.x)
    [] op = "PutRolePolicy" -> PutRolePolicy(conf, in.on, in.x, in.y)
    [] op = "DeleteRolePolicy" -> DeleteRolePolicy(conf, in.on, in.x)
    [] op = "CreateSession" -> CreateSession(conf, Generated[s][1], NewSession(s), now)

UpdateProviders(conf, op, in) ==
  CASE op = "CreateOIDCProvider" ->
         CreateOIDCProvider(conf, in.on, [clients |-> in.x, thumb |-> in.y, tags |-> EmptyMap])
    [] op = "DeleteOIDCProvider" -> DeleteOIDCProvider(conf, in.on)
    [] op = "AddClientIDToOIDCProvider" -> AddClientIDToOIDCProvider(conf, in.on, in.x)
    [] op = "RemoveClientIDFromOIDCProvider" -> RemoveClientIDFromOIDCProvider(conf, in.on, in.x)
    [] op = "UpdateOIDCProviderThumbprint" -> UpdateOIDCProviderThumbprint(conf, in.on, in.x)
    [] op = "TagOIDCProvider" -> TagOIDCProvider(conf, in.on, in.x)
    [] op = "UntagOIDCProvider" -> UntagOIDCProvider(conf, in.on, in.x)

Update(conf, s, op) ==
  LET in == rq[s].in
  IN  CASE op \in {"CreateOIDCProvider"} \cup ProviderActions -> UpdateProviders(conf, op, in)
        [] op \in {"CreateRole", "CreateSession"} \cup RoleActions -> UpdateRoles(conf, s, op, in)
        [] OTHER -> UpdateUsers(conf, s, op, in)

\* StoreIAM, first half: lock, and read the file itself, not the cache.
StoreLock(s) ==
  LET g == At(s)
  IN  /\ Next_(s, "Store") /\ lock[g] = "free"
      /\ IF Readable(g, file)
         THEN /\ lock' = [lock EXCEPT ![g] = s]
              /\ rq' = [rq EXCEPT ![s].raw = file]
         ELSE /\ IF Op(s) = "RecordAccessKeyUsage" THEN Advance(s, rq[s]) ELSE Fail(s)
              /\ UNCHANGED lock
      /\ UNCHANGED <<mix, file, cache, now, tool, keys, history>>

Holds(s) == rq[s].status = "run" /\ rq[s].raw # EmptyMap

Unlock(s) == lock' = [lock EXCEPT ![At(s)] = "free"]
Collision == {"UserIDAlreadyExists", "RoleIDAlreadyExists", "AccessKeyIDAlreadyExists"}

\* Keys that a write revokes or revives, for the histories.
Revoked(old, new) == ActiveKeys(old) \ ActiveKeys(new)
Noted(s, new) ==
  /\ off' = Delete(Over([k \in Revoked(file.conf, new) |-> [by |-> At(s), at |-> now]], off),
                   ActiveKeys(new))
  /\ owner' = Over([k \in ActiveKeys(new) |->
                      new.users[CHOOSE n \in DOMAIN new.users : k \in DOMAIN new.users[n].keys].id],
                   owner)

\* Second half: the operation on what was read; the file is replaced in the
\* format it was read in, and the cache is the new content.
StoreWrite(s) ==
  LET g == At(s)
      conf == normalizeIAMConfig(rq[s].raw.conf)
      result == Update(conf, s, Op(s))
      new == [fmt |-> rq[s].raw.fmt, conf |-> result.conf, ver |-> file.ver + 1]
  IN  /\ Holds(s) /\ result.ok
      /\ file' = new
      /\ cache' = [cache EXCEPT ![g] = [valid |-> TRUE, at |-> now, file |-> new]]
      /\ Noted(s, result.conf)
      /\ rq' = [t \in Slots |->
                  LET r == [rq[t] EXCEPT !.dead = @ \ ActiveKeys(result.conf)]
                  IN  IF t = s THEN [r EXCEPT !.todo = Tail(@), !.raw = EmptyMap, !.try = 1] ELSE r]
      /\ Unlock(s)
      /\ UNCHANGED <<mix, now, tool, keys>>

\* The operation refuses: an identifier that is taken is drawn again, twice;
\* a usage that cannot be recorded is only logged.
StoreRefused(s) ==
  LET result == Update(normalizeIAMConfig(rq[s].raw.conf), s, Op(s))
  IN  /\ Holds(s) /\ ~result.ok
      /\ IF Op(s) = "RecordAccessKeyUsage" THEN Advance(s, [rq[s] EXCEPT !.raw = EmptyMap])
         ELSE IF result.why \in Collision /\ rq[s].try < Len(Generated[s])
         THEN rq' = [rq EXCEPT ![s].try = @ + 1, ![s].raw = EmptyMap]
         ELSE rq' = [rq EXCEPT ![s].status = "error", ![s].todo = <<>>, ![s].raw = EmptyMap]
      /\ Unlock(s)
      /\ UNCHANGED <<mix, file, cache, now, tool, keys, history>>

\* The new file cannot be written: the cache is dropped.
StoreFails(s) ==
  /\ Holds(s) /\ Mixes[mix].faults
  /\ cache' = [cache EXCEPT ![At(s)] = [valid |-> FALSE, at |-> now, file |-> EmptyMap]]
  /\ IF Op(s) = "RecordAccessKeyUsage" THEN Advance(s, [rq[s] EXCEPT !.raw = EmptyMap])
     ELSE rq' = [rq EXCEPT ![s].status = "error", ![s].todo = <<>>, ![s].raw = EmptyMap]
  /\ Unlock(s)
  /\ UNCHANGED <<mix, file, now, tool, keys, history>>

-----------------------------------------------------------------------------
(* AssumeRoleWithWebIdentity *)

\* The role is named by its ARN, path included; `fits`: the duration asked for is
\* no longer than its MaxSessionDuration.
AssumedRole(s) == \E fits \in BOOLEAN :
  LET in == rq[s].in
      Known(conf) == /\ lookupRole(conf, in.on) # "" /\ fits
                     /\ conf.roles[lookupRole(conf, in.on)].arn = RoleArn(in.x, in.on)
      Keep(conf) == LET n == lookupRole(conf, in.on)
                    IN  [rq[s] EXCEPT !.role = [name |-> n, id |-> conf.roles[n].id,
                                                arn |-> conf.roles[n].arn,
                                                trust |-> conf.roles[n].trust]]
  IN  Reading(s, "AssumedRole", Known, Keep)

\* `y` is the token: its issuer, audience, subject and the key that signed it.
TrustDecision(s) ==
  LET token == rq[s].in.y
      ctx == (<<"sub">> :> {token.sub}) @@ (<<"aud">> :> {token.aud})
      Allowed(conf) == EvaluateWebIdentityTrust(Trusts[rq[s].role.trust], Shared,
                         DOMAIN conf.providers, token.issuer, ctx) = "Allowed"
      Keep(conf) == rq[s]
  IN  Reading(s, "TrustDecision", Allowed, Keep)

ClientAllowed(s) ==
  LET token == rq[s].in.y
      Listed_(conf) == /\ token.issuer \in DOMAIN conf.providers
                       /\ token.aud \in conf.providers[token.issuer].clients
      Keep(conf) == rq[s]
  IN  Reading(s, "Provider", Listed_, Keep)

JwksStep(s) == Next_(s, "Signature") /\ ~rq[s].wait

\* An entry is made by a fetch, or by a forced refresh of one that was found: it
\* has keys whenever a refresh is asked for.
Fresh(g) == jwks[g].known /\ now < jwks[g].expires
ForcedRecently(g) == jwks[g].known /\ now - jwks[g].forced < JwksRefresh

\* Cached keys that hold the token's key.
VerifyCached(s) ==
  /\ JwksStep(s) /\ Fresh(At(s)) /\ jwks[At(s)].kid = rq[s].in.y.kid
  /\ Advance(s, rq[s]) /\ Local(s)

\* forceRefreshJWKSCache: a key that is not among them has them fetched again,
\* but not more often than once per interval.
Join(s, g, forced) ==
  /\ rq' = [rq EXCEPT ![s].wait = TRUE, ![s].tried = forced]
  /\ flight' = [flight EXCEPT ![g] = IF @ = "none" THEN idp ELSE @]

RefreshRefused(s) ==
  /\ JwksStep(s) /\ Fresh(At(s)) /\ jwks[At(s)].kid # rq[s].in.y.kid /\ ForcedRecently(At(s))
  /\ Fail(s) /\ Local(s)

forceRefreshJWKSCache(s) ==
  LET g == At(s)
  IN  /\ JwksStep(s) /\ Fresh(g) /\ jwks[g].kid # rq[s].in.y.kid /\ ~ForcedRecently(g)
      /\ jwks' = [jwks EXCEPT ![g].forced = now]
      /\ Join(s, g, TRUE)
      /\ UNCHANGED <<mix, store, now, tool, idp, retired, history>>

\* cachedJWKS: nothing cached, or expired.
cachedJWKS(s) ==
  /\ JwksStep(s) /\ ~Fresh(At(s)) /\ Join(s, At(s), FALSE)
  /\ UNCHANGED <<mix, store, now, tool, idp, jwks, retired, history>>

\* fetchAndCacheJWKS: one fetch at a time; all who wait for it get its keys.  Who
\* does not find the token's key may still force a refresh, if that was none.
Waiting(g) == {s \in Slots : rq[s].wait /\ At(s) = g}
fetchAndCacheJWKS(g) ==
  /\ flight[g] # "none"
  /\ jwks' = [jwks EXCEPT ![g] = [@ EXCEPT !.kid = flight[g], !.expires = now + JwksTTL,
                                           !.known = TRUE]]
  /\ rq' = [s \in Slots |->
              IF s \notin Waiting(g) THEN rq[s]
              ELSE IF rq[s].in.y.kid = flight[g]
              THEN [rq[s] EXCEPT !.wait = FALSE, !.todo = Tail(@)]
              ELSE IF ~rq[s].tried THEN [rq[s] EXCEPT !.wait = FALSE]
              ELSE [rq[s] EXCEPT !.wait = FALSE, !.status = "error", !.todo = <<>>]]
  /\ flight' = [flight EXCEPT ![g] = "none"]
  /\ UNCHANGED <<mix, store, now, tool, idp, retired, history>>

\* The provider does not answer; nothing is cached.
FetchFails(g) ==
  /\ flight[g] # "none"
  /\ rq' = [s \in Slots |-> IF s \notin Waiting(g) THEN rq[s]
                            ELSE [rq[s] EXCEPT !.wait = FALSE, !.status = "error", !.todo = <<>>]]
  /\ flight' = [flight EXCEPT ![g] = "none"]
  /\ UNCHANGED <<mix, store, now, tool, idp, jwks, retired, history>>

\* VerifyWebIdentityExpiration and ...RequiredClaims: the token may be too old.
Expiry(s) == Next_(s, "Expiry") /\ (Advance(s, rq[s]) \/ Fail(s)) /\ Local(s)

\* The provider (external) publishes a new key and drops the old one.
Rotate ==
  /\ Mixes[mix].rotate /\ idp = "kid1"
  /\ idp' = "kid2" /\ retired' = Put(retired, "kid1", now)
  /\ UNCHANGED <<mix, store, now, rq, tool, jwks, flight, history>>

-----------------------------------------------------------------------------
(* The migration tool, run beside the servers, and time *)

Converted(how, f) ==
  CASE how = "encrypt" /\ f.fmt = "plain" -> [f EXCEPT !.fmt = "sealed"]
    [] how = "decrypt" /\ f.fmt = "sealed" -> [f EXCEPT !.fmt = "plain"]
    [] OTHER -> f

\* migrateStore: one file after the other is read, converted and replaced; a
\* file that is already in the format is left alone, and Rewrap keeps it.
MigrateRead ==
  /\ tool.todo # <<>> /\ tool.read = EmptyMap
  /\ tool' = [tool EXCEPT !.read = file]
  /\ UNCHANGED <<mix, store, now, rq, keys, history>>

MigrateWrite ==
  /\ tool.read # EmptyMap
  /\ LET new == Converted(Head(tool.todo), tool.read)
         skipped == Head(tool.todo) # "rewrap" /\ new = tool.read
         kept == IF skipped THEN file.conf ELSE new.conf
     IN  /\ file' = IF skipped THEN file ELSE [new EXCEPT !.ver = file.ver + 1]
         /\ off' = Delete(Over([k \in Revoked(file.conf, kept) |->
                                  [by |-> "tool", at |-> now]], off), ActiveKeys(kept))
         /\ rq' = [t \in Slots |-> [rq[t] EXCEPT !.dead = @ \ ActiveKeys(kept)]]
  /\ tool' = [todo |-> Tail(tool.todo), read |-> EmptyMap]
  /\ UNCHANGED <<mix, cache, lock, now, keys, owner>>

\* A fetch times out within a unit of time.
Tick ==
  /\ now < Mixes[mix].time /\ \A g \in Servers : flight[g] = "none"
  /\ now' = now + 1
  /\ UNCHANGED <<mix, store, rq, tool, keys, history>>

Next ==
  \/ \E s \in Slots :
       \/ Begin(s) \/ NextPage(s) \/ ProcessHandlers(s) \/ Validate(s) \/ routeAction(s)
       \/ Caller(s) \/ FetchThumbprint(s) \/ ResolveRoot(s) \/ ResolveIndex(s)
       \/ ResolveUserIdentity(s) \/ ResolveSession(s) \/ ResolveSessionByToken(s)
       \/ VerifyIAMPolicy(s) \/ updateUserTargetResource(s) \/ ReadUser(s) \/ ReadRole(s)
       \/ ParsePolicy(s) \/ ParseTrust(s) \/ Answer(s) \/ StoreLock(s) \/ StoreWrite(s)
       \/ StoreRefused(s) \/ StoreFails(s) \/ AssumedRole(s) \/ TrustDecision(s)
       \/ ClientAllowed(s) \/ VerifyCached(s) \/ RefreshRefused(s)
       \/ forceRefreshJWKSCache(s) \/ cachedJWKS(s) \/ Expiry(s)
  \/ \E g \in Servers : fetchAndCacheJWKS(g) \/ FetchFails(g)
  \/ Rotate \/ MigrateRead \/ MigrateWrite \/ Tick

Spec == Init /\ [][Next]_vars

-----------------------------------------------------------------------------
(* Properties *)

\* One type invariant: who holds a lock, what is cached, and what the steps of
\* a request have left in it.
ApiTypeOK ==
  /\ file.fmt \in {"plain", "sealed"}
  /\ \A g \in Servers :
       /\ lock[g] \in Slots \cup {"free"}
       /\ lock[g] # "free" => rq[lock[g]].raw # EmptyMap /\ At(lock[g]) = g
       /\ cache[g].at <= now
  /\ \A s \in Slots :
       /\ rq[s].status \in {"idle", "run", "ok", "error"}
       /\ rq[s].status # "run" => rq[s].todo = <<>> /\ ~rq[s].wait
       /\ rq[s].wait => flight[At(s)] # "none"

\* The name and key indexes of the file (internal.go) say the same as its users
\* and roles: every one is found by its name in any case, every access key leads
\* to the user that has it, and no two share an ID.  Renames, racing writes of
\* two servers and the migration tool included.
IndexConsistent ==
  LET c == normalizeIAMConfig(file.conf)
  IN  /\ \A n \in DOMAIN c.users : lookupUser(c, Fold(n)) = n
      /\ \A n \in DOMAIN c.roles : lookupRole(c, Fold(n)) = n
      /\ \A i \in DOMAIN c.userIndex : c.userIndex[i] \in DOMAIN c.users
      /\ \A n \in DOMAIN c.users : \A k \in DOMAIN c.users[n].keys : ownerOf(c, k) = n
      /\ \A k \in DOMAIN c.keyIndex : ownerOf(c, k) # ""
      /\ \A m, n \in DOMAIN c.users : m # n => c.users[m].id # c.users[n].id

\* A request signed with an access key acts as the user the key was made for
\* (ResolveUserIdentity, identity.go:119), although the index and the user are
\* read one after the other and the name may change hands in between.
ActsAsOwner == \A s \in Slots : rq[s].id.kind = "user" => owner[rq[s].id.key] = rq[s].id.uid

\* A key that was revoked on this server, or on another more than the second of
\* the cache ago, does not authenticate a request that comes after (engine.go:188,
\* 286; identity.go:136), unless the key was made active again meanwhile.
RevokedKeyRefused == \A s \in Slots : rq[s].id.kind = "user" => rq[s].id.key \notin rq[s].dead

\* A session draws its rights from the role it was made for, never from another
\* role that has taken the name since (ResolveSessionByToken, identity.go:100).
SessionAuthority ==
  \A s \in Slots : rq[s].id.docs # {} /\ rq[s].id.kind = "session" =>
                     rq[s].id.fromRole = rq[s].id.roleId

\* The write that request s completes in this step, by its own operation.
Stores(s) == Holds(s) /\ file' # file /\ rq'[s].raw = EmptyMap
Writes(s) == Stores(s) /\ Op(s) # "RecordAccessKeyUsage"

\* ARNs of the users and roles that a write creates, changes or removes, before
\* and after.
TouchedArns ==
  LET Of(f, g) == {f[n].arn : n \in {m \in DOMAIN f : m \notin DOMAIN g \/ f[m] # g[m]}}
  IN  Of(file.conf.users, file'.conf.users) \cup Of(file'.conf.users, file.conf.users)
      \cup Of(file.conf.roles, file'.conf.roles) \cup Of(file'.conf.roles, file.conf.roles)

\* What a request of a user or a session changes was allowed to it: the entity
\* as it was, and as it becomes (policy.go:55), when nobody wrote the file
\* between the decision and the write.
ChangeAuthorized ==
  \A s \in Slots :
    Writes(s) /\ rq[s].id.kind \in {"user", "session"} /\ rq[s].basis = file.ver =>
      TouchedArns \subseteq rq[s].granted

\* The ARN of a user is that of its path and name (UpdateUser, controller.go:222
\* and internal.go:303) unless the file was written between the controller's
\* read of the user and its own write.
ArnCurrent ==
  \A s \in Slots :
    Writes(s) /\ Op(s) = "UpdateUser" /\ rq[s].basis = file.ver =>
      \A n \in DOMAIN file'.conf.users :
        n \notin DOMAIN file.conf.users \/ file'.conf.users[n] # file.conf.users[n] =>
          file'.conf.users[n].arn = UserArn(file'.conf.users[n].path, n)

OneServer == Mixes[mix].tool = <<>> /\ \A s, t \in Slots : At(s) = At(t)

\* While every writer is on one server no update is lost: each write builds on
\* the file as it is (StoreIAM under the lock of InternalStore, internal.go:160).
UpdatesSerial ==
  \A s \in Slots :
    Stores(s) /\ OneServer => rq[s].raw.ver = file.ver

\* The limits hold in every file, whoever raced whom: access keys of a user,
\* clients of a provider, unexpired sessions of a role (common.go).
LimitsHold ==
  LET c == file.conf
  IN  /\ \A n \in DOMAIN c.users : Cardinality(DOMAIN c.users[n].keys) <= MaxKeys
      /\ \A p \in DOMAIN c.providers : Cardinality(c.providers[p].clients) <= MaxClients
      /\ \A n \in DOMAIN c.roles : activeSessionCountForRole(c, c.roles[n].arn) <= MaxSessions

\* A list read in pages to its end names everyone who was there the whole time
\* (ListUsers, internal.go:254), unless the last name of a page was deleted or
\* moved before the next one was asked for, which ends the list.
ListComplete ==
  \A s \in Slots :
    rq[s].status = "ok" /\ rq[s].in.op \in {"ListUsers", "ListRoles"} /\ ~rq[s].answer.truncated
    /\ ~rq[s].lostMarker => rq[s].through \subseteq rq[s].listed

\* A token whose signing key the provider has withdrawn is accepted no longer
\* than a cached key set lives (webidentity.go:577, 619).
RetiredKeyRefused ==
  \A s \in Slots :
    /\ Next_(s, "Signature")
    /\ rq'[s].status = "run" /\ rq'[s].todo # <<>> /\ Head(rq'[s].todo).do = "Expiry"
    => rq[s].in.y.kid \notin DOMAIN retired \/ now <= retired[rq[s].in.y.kid] + JwksTTL

\* The file is sound whoever raced whom: IndexConsistent and LimitsHold.
StoreConsistent == IndexConsistent /\ LimitsHold

\* Credentials count only while they may: RevokedKeyRefused, SessionAuthority and
\* RetiredKeyRefused.
CredentialsCurrent == [][RevokedKeyRefused' /\ SessionAuthority' /\ RetiredKeyRefused]_vars

\* A request acts as the user its key belongs to, and what it writes is what that
\* user was allowed to write, on the file as it is: ActsAsOwner, ChangeAuthorized,
\* ArnCurrent and UpdatesSerial.
WritesAuthorized == [][ActsAsOwner' /\ ChangeAuthorized /\ ArnCurrent /\ UpdatesSerial]_vars

-----------------------------------------------------------------------------
(* The inductive invariant of IamApiProofs, in parts *)

\* What the file, a request that is writing it and the migration tool hold.
FileSound(f) == {"fmt", "conf", "ver"} \subseteq DOMAIN f /\ Sound(f.conf)

\* Operations that write, and the steps of a request for `op`: its own write, the
\* session of AssumeRoleWithWebIdentity, or the time a key was last used.
WriteOps ==
  {"CreateUser", "DeleteUser", "UpdateUser", "TagUser", "UntagUser", "CreateAccessKey",
   "UpdateAccessKey", "DeleteAccessKey", "RecordAccessKeyUsage", "PutUserPolicy",
   "DeleteUserPolicy", "CreateRole", "DeleteRole", "UpdateAssumeRolePolicy", "TagRole",
   "UntagRole", "PutRolePolicy", "DeleteRolePolicy", "CreateSession", "CreateOIDCProvider",
   "DeleteOIDCProvider", "AddClientIDToOIDCProvider", "RemoveClientIDFromOIDCProvider",
   "UpdateOIDCProviderThumbprint", "TagOIDCProvider", "UntagOIDCProvider"}
ReadOps ==
  {"GetUser", "ListUsers", "ListUserTags", "GetAccessKeyLastUsed", "ListAccessKeys",
   "GetUserPolicy", "ListUserPolicies", "GetRole", "ListRoles", "ListRoleTags", "GetRolePolicy",
   "ListRolePolicies", "GetOIDCProvider", "ListOIDCProviders", "ListOIDCProviderTags"}
Checks ==
  {"Valid", "Policy", "Trust", "User", "Role", "Caller", "Thumbprint", "Resolve", "ResolveUser",
   "ResolveRole", "Authorize", "Target", "InvalidAction", "AssumedRole", "TrustDecision",
   "Provider", "Signature", "Expiry"}
Steps(op) ==
  [do : Checks, op : {""}] \cup [do : {"Read"}, op : {op} \cap ReadOps]
  \cup [do : {"Store"}, op : {op, "RecordAccessKeyUsage", "CreateSession"} \cap WriteOps]

RequestFits(r) ==
  /\ DOMAIN Idle \subseteq DOMAIN r
  /\ InputFits(r.in) /\ r.todo \in Seq(Steps(r.in.op))
  /\ r.raw # EmptyMap => /\ FileSound(r.raw) /\ r.status = "run"
                         /\ r.todo # <<>> /\ Head(r.todo).do = "Store"
  /\ r.wait => r.status = "run" /\ r.todo # <<>> /\ Head(r.todo).do = "Signature"

\* A request that is writing holds the lock of its server.
LocksHeld == \A s \in Slots : rq[s].raw # EmptyMap => lock[At(s)] = s

\* While there is one server and no tool, what it has read is the file.
ReadCurrent == OneServer =>
  /\ tool.todo = <<>> /\ tool.read = EmptyMap
  /\ \A s \in Slots : rq[s].raw # EmptyMap => rq[s].raw.ver = file.ver

IInv ==
  /\ mix \in DOMAIN Mixes /\ FileSound(file)
  /\ {"todo", "read"} \subseteq DOMAIN tool /\ (tool.read # EmptyMap => FileSound(tool.read))
  /\ rq = [s \in Slots |-> rq[s]] /\ \A s \in Slots : RequestFits(rq[s])
  /\ DOMAIN lock = Servers /\ LocksHeld /\ ReadCurrent

\* Everyone up to `name` who was there so far has been listed.
ListedUpTo(through, listed, name) ==
  \A n \in through : Position(n) <= Position(name) => n \in listed

\* A list in pages has named everyone up to the marker that it goes on from, and
\* after its last page everyone.
PagesFit(r) ==
  r.in.op \in {"ListUsers", "ListRoles"} /\ ~r.lostMarker =>
    /\ r.in.marker # "" => ListedUpTo(r.through, r.listed, r.in.marker)
    /\ r.answer.truncated =>
         r.answer.marker # "" /\ ListedUpTo(r.through, r.listed, r.answer.marker)
    /\ ~r.answer.truncated => r.through \subseteq r.listed

\* What the servers have cached is sound, and the lists are as they should be.
CachesSound ==
  DOMAIN cache = Servers /\ \A g \in Servers : cache[g].valid => FileSound(cache[g].file)
ListInv == CachesSound /\ \A s \in Slots : PagesFit(rq[s])

\* Who asks: a session has its policies from its own role, and a user a key that
\* counts.
IdentityFits(r) ==
  /\ DOMAIN Nobody \subseteq DOMAIN r.id
  /\ r.id.kind = "session" /\ r.id.docs # {} => r.id.fromRole = r.id.roleId
  /\ r.id.kind = "user" => r.id.key \notin r.dead

\* A revoked key is not active in the file, nor, when it must not count any more,
\* in what a server has cached.
KeysGone ==
  /\ now \in Nat /\ \A g \in Servers : cache[g].at \in 0..now
  /\ \A k \in DOMAIN off : {"by", "at"} \subseteq DOMAIN off[k] /\ off[k].at \in 0..now
  /\ \A k \in DOMAIN off : k \notin ActiveKeys(file.conf)
  /\ \A g \in Servers : cachedPlaintext(g) => Dead(g) \cap ActiveKeys(cache[g].file.conf) = {}

IdentityInv ==
  KeysGone /\ \A s \in Slots : rq[s].dead \subseteq Dead(At(s)) /\ IdentityFits(rq[s])

\* A signing key that was withdrawn is cached, or on its way to a cache, only so long.
SigningInv ==
  /\ now \in Nat /\ idp \in {"kid1", "kid2"}
  /\ DOMAIN retired \subseteq {"kid1"} /\ (idp = "kid1" => DOMAIN retired = {})
  /\ \A k \in DOMAIN retired : retired[k] \in 0..now
  /\ DOMAIN flight = Servers /\ DOMAIN jwks = Servers
  /\ \A g \in Servers :
       /\ {"kid", "expires", "forced", "known"} \subseteq DOMAIN jwks[g]
       /\ jwks[g].expires \in 0..(now + JwksTTL)
       /\ jwks[g].kid \in DOMAIN retired => jwks[g].expires <= retired[jwks[g].kid] + JwksTTL
       /\ flight[g] \in DOMAIN retired => now = retired[flight[g]]
=============================================================================
