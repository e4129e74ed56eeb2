----------------------------- MODULE VaultStore -----------------------------
(***************************************************************************)
(* The identities that iamapi/storage/vault.go keeps in Vault's KV store:   *)
(* one document per user, role or OIDC provider, which holds everything of  *)
(* it, and one per session.  Gateways share Vault and nothing else.  A       *)
(* request is a few KV calls: every change reads a document, edits it and   *)
(* writes it back if its version is still the one that was read.           *)
(*                                                                         *)
(* What the requests do to a document is in VaultOps.  Paths are case-folded *)
(* names.  A 403 is followed by a login and the same call again, which is    *)
(* the call happening later.                                               *)
(***************************************************************************)
EXTENDS VaultOps

CONSTANTS Users, Roles,   \* paths of their documents
          Providers,      \* ... and of OIDC providers
          Seed,           \* the documents at the start
          Renames,        \* the pairs of names UpdateUser is asked for
          MaxProviders,   \* MaxOIDCProvidersPerAccount
          MaxCASRetries,  \* maxCASRetries, and renameDeleteRetries
          Calls,          \* concurrent requests
          MaxRequests,    \* bound on requests, of both kinds together
          MaxFaults,      \* bound on errors of Vault and crashes
          Sessions,       \* access key IDs of sessions
          MaxSessions,    \* MaxActiveSessionsPerRole
          NoDoc

Paths == Users \cup Roles \cup Providers
Docs == [ver : Nat, uid : Nat, data : Contents]

ASSUME VaultAssumption == /\ Renames \subseteq Users \X Users
                          /\ Users \cap Roles = {} /\ (Users \cup Roles) \cap Providers = {}
                          /\ {MaxKeys, MaxClients, MaxTags, MaxBytes, MaxProviders,
                              MaxRequests, MaxFaults, MaxSessions} \subseteq Nat
                          /\ MaxCASRetries \in Nat \ {0}
ASSUME NoDocAssumption == /\ NoDoc \notin Docs /\ NoDoc \notin Paths \cup Names \cup Sessions
                          /\ Refused \notin Contents
\* The identities have IDs of their own, other than those that are given later.
ASSUME SeedAssumption ==
  /\ Seed \in [Paths -> Docs \cup {NoDoc}]
  /\ \A p \in Paths : Seed[p] # NoDoc =>
       /\ Seed[p].uid > MaxRequests
       /\ \A q \in Paths \ {p} : Seed[q] # NoDoc => Seed[q].uid # Seed[p].uid
\* They are within the limits, and a gateway serves at least one request at a time.
ASSUME LimitsAssumption ==
  /\ IsFiniteSet(Names) /\ IsFiniteSet(Providers) /\ IsFiniteSet(Sessions)
  /\ IsFiniteSet(Calls) /\ Calls # {}
  /\ \A p \in Paths : Seed[p] # NoDoc => WithinLimits(Seed[p].data)
  /\ Cardinality({p \in Providers : Seed[p] # NoDoc}) <= MaxProviders

VARIABLES docs,     \* path -> its document
          call,     \* the requests for documents
          sess,     \* session -> none, meta (a path without version), live, expired
          scall,    \* the requests for sessions
          used,     \* names created so far ...
          reused,   \* ... and again, after they were deleted or renamed
          requests,
          faults,
          existing, \* users, roles and providers that no request has deleted
          settled,  \* <<user, key, status>> that a request has set while the user was not renamed
          stale,    \* paths a rename should have deleted and could not, or copied to a
                    \* second name
          kept,     \* lookups during which no user and no key that was sought went away
          missed,   \* keys that one of those did not find
          granted   \* sessions answered, not expired, and not being purged when written

kv == <<docs, sess>>
ghosts == <<existing, settled, stale, kept, missed>>
vars == <<docs, call, sess, scall, used, reused, requests, faults,
          existing, settled, stale, kept, missed, granted>>

UserOps == {"CreateAccessKey", "UpdateAccessKey", "DeleteAccessKey", "PutUserPolicy",
            "DeleteUserPolicy", "TagUser", "UntagUser", "UpdateUser", "DeleteUser", "GetUser"}
RoleOps == {"UpdateAssumeRolePolicy", "PutRolePolicy", "DeleteRolePolicy", "TagRole",
            "UntagRole", "DeleteRole", "GetRole"}
ProviderOps == {"AddClientID", "RemoveClientID", "UpdateThumbprint", "TagProvider",
                "UntagProvider", "DeleteProvider", "GetProvider"}
Searches == {"GetUserByAccessKeyID", "RecordAccessKeyUsage"}
Listings == {"ListUsers", "ListRoles", "ListProviders"}
Ops == UserOps \cup RoleOps \cup ProviderOps \cup Searches \cup Listings
       \cup {"RenameUser", "CreateProvider"}

NoCall == [op |-> "none", pc |-> "idle", path |-> NoDoc, to |-> NoDoc, name |-> NoDoc,
           val |-> "on", doc |-> NoDoc, tries |-> 0, todo |-> {}]
NoSession == [pc |-> "idle", id |-> NoDoc, new |-> FALSE, todo |-> {}, victim |-> NoDoc, n |-> 0]

CallRecords ==
  [op : Ops \cup {"none"},
   pc : {"idle", "read", "write", "confirm", "remove", "check", "create", "removeOld", "list", "look"},
   path : Paths \cup {NoDoc}, to : Paths \cup {NoDoc}, name : Names \cup {NoDoc}, val : Statuses,
   doc : Docs \cup {NoDoc}, tries : 0..MaxCASRetries - 1, todo : SUBSET Paths]
SessionRecords == [pc : {"idle", "list", "look", "purge", "ttl", "write"}, id : Sessions \cup {NoDoc},
                   new : BOOLEAN, todo : SUBSET Sessions, victim : Sessions \cup {NoDoc}, n : Nat]

TypeOK ==
  /\ docs \in [Paths -> Docs \cup {NoDoc}]
  /\ call \in [Calls -> CallRecords]
  /\ sess \in [Sessions -> {"none", "meta", "live", "expired"}]
  /\ scall \in [Calls -> SessionRecords]
  /\ used \subseteq Paths /\ reused \subseteq used
  /\ requests \in 0..MaxRequests /\ faults \in 0..MaxFaults
  /\ existing \subseteq Nat
  /\ settled \subseteq Nat \X Names \X (Statuses \cup {"absent"})
  /\ stale \subseteq Paths
  /\ kept \subseteq Calls /\ missed \subseteq Names
  /\ granted \subseteq Sessions

Stored == {p \in Paths : docs[p] # NoDoc}

Init == /\ docs = Seed
        /\ call = [c \in Calls |-> NoCall]
        /\ sess = [s \in Sessions |-> "none"]
        /\ scall = [c \in Calls |-> NoSession]
        /\ used = {p \in Paths : Seed[p] # NoDoc} /\ reused = {} /\ requests = 0 /\ faults = 0
        /\ existing = {Seed[p].uid : p \in used}
        /\ settled = {} /\ stale = {} /\ kept = {} /\ missed = {} /\ granted = {}

----------------------------------------------------------------------------
(* Helpers *)
Idle(c) == call[c] = NoCall /\ scall[c] = NoSession
At(c, pc) == call[c].pc = pc
Goto(c, pc) == call' = [call EXCEPT ![c].pc = pc]
Return(c) == call' = [call EXCEPT ![c] = NoCall]
Path(c) == call[c].path
Doc(c) == docs[Path(c)]
Holds(D, p, n) == D[p] # NoDoc /\ n \in Keys(D[p].data)

Use(p) == used' = used \cup {p} /\ reused' = reused \cup (used \cap {p})
Start(c, r) == /\ Idle(c) /\ requests < MaxRequests
               /\ requests' = requests + 1
               /\ call' = [call EXCEPT ![c] = r]

\* The documents become D; a lookup is no longer kept when a user is removed,
\* or loses the key it seeks.
Put(D) == /\ docs' = D
          /\ kept' = {c \in kept : \A p \in Users \cap Stored :
                        D[p] # NoDoc /\ (Holds(docs, p, call[c].name) => Holds(D, p, call[c].name))}

\* The check-and-set of a KV write: the document has the version that was read.
Unchanged(c) == Doc(c) # NoDoc /\ Doc(c).ver = call[c].doc.ver

Bump(d) == [d EXCEPT !.ver = @ + 1]

\* Mutant: the version is read again, the document is not.
RetryKeepsCopy(c) == IF Doc(c) # NoDoc
                     THEN call' = [call EXCEPT ![c].pc = "write", ![c].doc.ver = Doc(c).ver]
                     ELSE Return(c)

\* After a lost check-and-set the request starts again, at most MaxCASRetries times.
Retry(c) == IF call[c].tries + 1 < MaxCASRetries
            THEN call' = [call EXCEPT ![c].pc = "read", ![c].tries = @ + 1]
            ELSE Return(c)

\* What a request makes of the content it has read.  Policies are put with the
\* whole quota: two of them are too many.
Mutate(r, d) ==
  CASE r.op = "CreateAccessKey" -> CreateAccessKey(d, r.name)
    [] r.op = "UpdateAccessKey" -> UpdateAccessKey(d, r.name, r.val)
    [] r.op = "DeleteAccessKey" -> DeleteAccessKey(d, r.name)
    [] r.op = "RecordAccessKeyUsage" -> RecordUsage(d, r.name)
    [] r.op = "PutUserPolicy" -> PutUserPolicy(d, r.name, MaxBytes)
    [] r.op = "DeleteUserPolicy" -> DeleteUserPolicy(d, r.name)
    [] r.op = "TagUser" -> TagUser(d, r.name)
    [] r.op = "UntagUser" -> UntagUser(d, r.name)
    [] r.op = "UpdateUser" -> [d EXCEPT !.body = "new"]
    [] r.op = "UpdateAssumeRolePolicy" -> UpdateAssumeRolePolicy(d)
    [] r.op = "PutRolePolicy" -> PutRolePolicy(d, r.name, MaxBytes)
    [] r.op = "DeleteRolePolicy" -> DeleteRolePolicy(d, r.name)
    [] r.op = "TagRole" -> TagRole(d, r.name)
    [] r.op = "UntagRole" -> UntagRole(d, r.name)
    [] r.op = "AddClientID" -> AddClientIDToOIDCProvider(d, r.name)
    [] r.op = "RemoveClientID" -> RemoveClientIDFromOIDCProvider(d, r.name)
    [] r.op = "UpdateThumbprint" -> UpdateOIDCProviderThumbprint(d)
    [] r.op = "TagProvider" -> TagOIDCProvider(d, r.name)
    [] r.op = "UntagProvider" -> UntagOIDCProvider(d, r.name)
    [] OTHER -> d

----------------------------------------------------------------------------
(* Documents *)

NewDoc == [ver |-> 1, uid |-> requests + 1, data |-> Empty]

\* CreateUser, CreateRole: a write with cas = 0, refused (EntityAlreadyExists)
\* where there is a document.
Create(c, p) ==
  /\ p \notin Providers /\ docs[p] = NoDoc
  /\ Idle(c) /\ requests < MaxRequests
  /\ requests' = requests + 1
  /\ Use(p)
  /\ Put([docs EXCEPT ![p] = NewDoc])
  /\ existing' = existing \cup {requests'}
  /\ UNCHANGED <<call, sess, scall, faults, settled, stale, missed, granted>>

\* Every other request begins with a KV call of its own.
Begin(c, r) == /\ Start(c, r)
               /\ UNCHANGED <<kv, scall, used, reused, faults, ghosts, granted>>

Named == {"CreateAccessKey", "UpdateAccessKey", "DeleteAccessKey", "PutUserPolicy", "DeleteUserPolicy",
          "TagUser", "UntagUser", "PutRolePolicy", "DeleteRolePolicy", "TagRole", "UntagRole",
          "AddClientID", "RemoveClientID", "TagProvider", "UntagProvider"}

\* A request for the document at p: it is read first.
Ask(c, p) ==
  \E op \in IF p \in Users THEN UserOps ELSE IF p \in Roles THEN RoleOps ELSE ProviderOps :
  \E n \in IF op \in Named THEN Names ELSE {NoDoc}, v \in IF op = "UpdateAccessKey" THEN Statuses ELSE {"on"} :
    Begin(c, [NoCall EXCEPT !.op = op, !.pc = "read", !.path = p, !.name = n, !.val = v])

RenameUser(c, p, q) == Begin(c, [NoCall EXCEPT !.op = "RenameUser", !.pc = "read", !.path = p, !.to = q])

CreateOIDCProvider(c, p) ==
  Begin(c, [NoCall EXCEPT !.op = "CreateProvider", !.pc = "list", !.path = p, !.doc = NewDoc])

\* GetUserByAccessKeyID and GetAccessKeyLastUsed, which search alike, and
\* RecordAccessKeyUsage, whose goroutine outlives the request.
Search(c, n) == \E op \in Searches : Begin(c, [NoCall EXCEPT !.op = op, !.pc = "list", !.name = n])

ListAll(c) == \E op \in Listings : Begin(c, [NoCall EXCEPT !.op = op, !.pc = "list"])

\* readUserVersion, readRoleVersion, readOIDCProviderVersion, and what the
\* request decides from it: the next KV call, or none when it answers.
AfterRead(c, d) ==
  CASE call[c].op = "DeleteUser" -> IF UserInUse(d) THEN "idle" ELSE "confirm"
    [] call[c].op = "DeleteRole" -> IF RoleInUse(d) THEN "idle" ELSE "confirm"
    [] call[c].op = "DeleteProvider" -> "remove"
    [] call[c].op = "RenameUser" -> "check"
    [] call[c].op \in {"GetUser", "GetRole", "GetProvider"} -> "idle"
    [] OTHER -> IF Mutate(call[c], d) = Refused THEN "idle" ELSE "write"

Read(c) == /\ At(c, "read")
           /\ IF Doc(c) = NoDoc \/ AfterRead(c, Doc(c).data) = "idle" THEN Return(c)
              ELSE call' = [call EXCEPT ![c].doc = Doc(c), ![c].pc = AfterRead(c, Doc(c).data)]
           /\ UNCHANGED <<kv, scall, used, reused, requests, faults, ghosts, granted>>

\* A rename that has read the record of the user and not yet ended.
Renaming(u) == \E c \in Calls : /\ call[c].op = "RenameUser" /\ call[c].doc # NoDoc
                                /\ call[c].doc.uid = u

\* The status that the request has given to a key.
Settle(r, u) ==
  IF r.op \notin {"CreateAccessKey", "UpdateAccessKey", "DeleteAccessKey"} THEN settled
  ELSE {s \in settled : <<s[1], s[2]>> # <<u, r.name>>}
       \cup (IF Renaming(u) THEN {}
             ELSE {<<u, r.name, IF r.op = "DeleteAccessKey" THEN "absent" ELSE r.val>>})

\* replaceUser, replaceRole, replaceOIDCProvider under their CAS loops; UpdateUser
\* does not try again.
Replace(c) ==
  /\ At(c, "write")
  /\ IF Unchanged(c)
     THEN /\ Put([docs EXCEPT ![Path(c)] =
                    Bump([call[c].doc EXCEPT !.data = Mutate(call[c], @)])])
          /\ settled' = Settle(call[c], Doc(c).uid)
          /\ Return(c)
     ELSE /\ UNCHANGED <<docs, settled, kept>>
          /\ IF call[c].op = "UpdateUser" THEN Return(c) ELSE Retry(c)
  /\ UNCHANGED <<sess, scall, used, reused, requests, faults, existing, stale, missed, granted>>

\* DeleteUser and DeleteRole write back what they have checked, with the version
\* they read ...
Confirm(c) == /\ At(c, "confirm")
              /\ IF Unchanged(c)
                 THEN Put([docs EXCEPT ![Path(c)] = Bump(call[c].doc)]) /\ Goto(c, "remove")
                 ELSE UNCHANGED <<docs, kept>> /\ Retry(c)
              /\ UNCHANGED <<sess, scall, used, reused, requests, faults, existing, settled, stale, missed, granted>>

\* ... and deleteByPath, deleteRoleByPath, deleteOIDCProviderByURL remove
\* whatever is there.
Remove(c) == /\ At(c, "remove")
             /\ Put([docs EXCEPT ![Path(c)] = NoDoc])
             /\ existing' = existing \ {call[c].doc.uid}
             /\ Return(c)
             /\ UNCHANGED <<sess, scall, used, reused, requests, faults, settled, stale, missed, granted>>

\* UpdateUser to another name: is it taken?
CheckName(c) == /\ At(c, "check")
                /\ IF docs[call[c].to] = NoDoc THEN Goto(c, "create") ELSE Return(c)
                /\ UNCHANGED <<kv, scall, used, reused, requests, faults, ghosts, granted>>

\* Mutant: the old record goes first.
CreateNewLast(c) ==
  /\ At(c, "create") /\ call[c].op = "RenameUser"
  /\ IF Doc(c) # NoDoc
     THEN Put([docs EXCEPT ![Path(c)] = NoDoc]) /\ call' = call /\ UNCHANGED <<used, reused>>
     ELSE /\ Put([docs EXCEPT ![call[c].to] = [call[c].doc EXCEPT !.ver = 1]])
          /\ Use(call[c].to)
          /\ Return(c)
  /\ UNCHANGED <<sess, scall, requests, faults, existing, settled, stale, missed, granted>>

\* The old records of users that have a new one.
Leaving == {p \in Paths : \E c \in Calls : At(c, "removeOld") /\ Path(c) = p}

\* The user has another record, which stays: another rename was faster, and
\* nothing compares the version that was read.
Copied(c) == \E p \in (Users \cap Stored) \ (Leaving \cup {Path(c)}) : docs[p].uid = call[c].doc.uid

\* CreateUser(*user) with cas = 0: the document as it was read.
CreateNew(c) ==
  /\ At(c, "create") /\ call[c].op = "RenameUser"
  /\ IF docs[call[c].to] = NoDoc
     THEN /\ Put([docs EXCEPT ![call[c].to] = [call[c].doc EXCEPT !.ver = 1]])
          /\ Use(call[c].to)
          /\ call' = [call EXCEPT ![c].pc = "removeOld", ![c].tries = 0]
          /\ stale' = IF Copied(c) THEN stale \cup {Path(c)} ELSE stale
     ELSE Return(c) /\ UNCHANGED <<docs, kept, used, reused, stale>>
  /\ UNCHANGED <<sess, scall, requests, faults, existing, settled, missed, granted>>

\* deleteOldUserAfterRename
RemoveOld(c) == /\ At(c, "removeOld")
                /\ Put([docs EXCEPT ![Path(c)] = NoDoc])
                /\ Return(c)
                /\ UNCHANGED <<sess, scall, used, reused, requests, faults, existing, settled, stale, missed, granted>>

RemoveOldFails(c) ==
  /\ At(c, "removeOld") /\ faults < MaxFaults
  /\ faults' = faults + 1
  /\ IF call[c].tries + 1 < MaxCASRetries
     THEN call' = [call EXCEPT ![c].tries = @ + 1] /\ stale' = stale
     ELSE Return(c) /\ stale' = stale \cup {Path(c)}
  /\ UNCHANGED <<kv, scall, used, reused, requests, existing, settled, kept, missed, granted>>

\* CreateOIDCProvider counts what KvV2List returns before it writes with cas = 0.
CountProviders(c) ==
  /\ At(c, "list") /\ call[c].op = "CreateProvider"
  /\ IF Path(c) \in Stored \/ Cardinality(Stored \cap Providers) >= MaxProviders
     THEN Return(c) ELSE Goto(c, "create")
  /\ UNCHANGED <<kv, scall, used, reused, requests, faults, ghosts, granted>>

WriteProvider(c) ==
  /\ At(c, "create") /\ call[c].op = "CreateProvider"
  /\ IF Doc(c) # NoDoc THEN UNCHANGED <<docs, kept, used, reused, existing>>
     ELSE /\ Put([docs EXCEPT ![Path(c)] = call[c].doc])
          /\ existing' = existing \cup {call[c].doc.uid}
          /\ Use(Path(c))
  /\ Return(c)
  /\ UNCHANGED <<sess, scall, requests, faults, settled, stale, missed, granted>>

\* A KV call fails, or the gateway dies, before it has an effect or after it:
\* a create of a rename may have happened.
Fails(c) == /\ call[c] # NoCall /\ faults < MaxFaults
            /\ faults' = faults + 1
            /\ Return(c)
            /\ stale' = IF call[c].pc = "removeOld" THEN stale \cup {Path(c)} ELSE stale
            /\ kept' = kept \ {c}
            /\ UNCHANGED <<kv, scall, used, reused, requests, existing, settled, missed, granted>>

----------------------------------------------------------------------------
(* Requests that read every document of a kind *)
Scanned(op) == CASE op = "ListRoles" -> Roles [] op = "ListProviders" -> Providers [] OTHER -> Users

\* KvV2List; no path at all is an empty answer.
List(c) ==
  /\ At(c, "list") /\ call[c].op # "CreateProvider"
  /\ LET found == Stored \cap Scanned(call[c].op)
     IN  /\ IF found = {} THEN Return(c)
            ELSE call' = [call EXCEPT ![c].pc = "look", ![c].todo = found]
         /\ kept' = IF \E p \in found : Holds(docs, p, call[c].name) THEN kept \cup {c} ELSE kept \ {c}
  /\ UNCHANGED <<kv, scall, used, reused, requests, faults, existing, settled, stale, missed, granted>>

Miss(c) == missed' = IF c \in kept /\ call[c].op \in Searches THEN missed \cup {call[c].name} ELSE missed

\* The read of one of them, in the order of their names: one that is gone fails
\* a lookup or a listing, the usage of a key is recorded in spite of it.
Visit(c, p) ==
  /\ At(c, "look") /\ p \in call[c].todo
  /\ LET r == call[c]
         rest == r.todo \ {p}
         record == r.op = "RecordAccessKeyUsage"
         hit == r.op \in Searches /\ Holds(docs, p, r.name)
         goesOn == ~hit /\ rest # {} /\ (docs[p] # NoDoc \/ record)
     IN  /\ call' = [call EXCEPT ![c] =
                       IF goesOn THEN [r EXCEPT !.todo = rest]
                       ELSE IF hit /\ record THEN [r EXCEPT !.pc = "read", !.path = p, !.todo = {}]
                       ELSE NoCall]
         /\ kept' = IF goesOn THEN kept ELSE kept \ {c}
         /\ IF goesOn \/ hit THEN missed' = missed ELSE Miss(c)
  /\ UNCHANGED <<kv, scall, used, reused, requests, faults, existing, settled, stale, granted>>

----------------------------------------------------------------------------
(* Sessions *)
SGoto(c, pc) == scall' = [scall EXCEPT ![c].pc = pc]
SReturn(c) == scall' = [scall EXCEPT ![c] = NoSession]
OnlySessions == UNCHANGED <<docs, call, used, reused, faults, ghosts>>
SStart(c, r) == /\ Idle(c) /\ requests < MaxRequests
                /\ requests' = requests + 1
                /\ scall' = [scall EXCEPT ![c] = r]
                /\ UNCHANGED <<sess, granted>> /\ OnlySessions

\* A new access key ID, which no other request knows.
CreateSession(c, s) == /\ sess[s] = "none" /\ \A d \in Calls : scall[d].id # s
                       /\ SStart(c, [NoSession EXCEPT !.pc = "list", !.id = s, !.new = TRUE])

\* The client of a session signs a request.
GetSession(c, s) == /\ sess[s] \in {"live", "expired"}
                    /\ SStart(c, [NoSession EXCEPT !.pc = "look", !.id = s, !.todo = {s}])

\* activeSessionCountForRole: KvV2List returns every path that has metadata.
ListSessions(c) ==
  /\ scall[c].pc = "list"
  /\ scall' = [scall EXCEPT ![c].pc = "look", ![c].todo = {s \in Sessions : sess[s] # "none"}]
  /\ UNCHANGED <<sess, granted>> /\ UNCHANGED requests /\ OnlySessions

\* KvV2Read of one of them: a session that is not found or over is purged.
Look(c, s) ==
  /\ scall[c].pc = "look" /\ s \in scall[c].todo
  /\ scall' = IF sess[s] = "live"
              THEN [scall EXCEPT ![c].todo = @ \ {s}, ![c].n = @ + 1]
              ELSE [scall EXCEPT ![c].pc = "purge", ![c].victim = s]
  /\ UNCHANGED <<sess, granted>> /\ UNCHANGED requests /\ OnlySessions

\* deleteByPath removes the path with all it has by now; an error is logged.
PurgeSession(c) ==
  /\ scall[c].pc = "purge"
  /\ \E left \in {"none", sess[scall[c].victim]} : sess' = [sess EXCEPT ![scall[c].victim] = left]
  /\ scall' = [scall EXCEPT ![c].pc = "look", ![c].todo = @ \ {scall[c].victim}, ![c].victim = NoDoc]
  /\ UNCHANGED granted /\ UNCHANGED requests /\ OnlySessions

\* Mutant: the count is not compared.
CountedUnlimited(c) == /\ scall[c].pc = "look" /\ scall[c].todo = {}
                       /\ IF scall[c].new THEN SGoto(c, "ttl") ELSE SReturn(c)
                       /\ UNCHANGED <<sess, granted>> /\ UNCHANGED requests /\ OnlySessions

Counted(c) == /\ scall[c].pc = "look" /\ scall[c].todo = {}
              /\ IF scall[c].new /\ scall[c].n < MaxSessions THEN SGoto(c, "ttl") ELSE SReturn(c)
              /\ UNCHANGED <<sess, granted>> /\ UNCHANGED requests /\ OnlySessions

\* setSessionTTL writes the metadata of a path that has no version yet; an error
\* of it is logged.
SetTTL(c) == /\ scall[c].pc = "ttl"
             /\ \E meta \in {"meta", "none"} :
                  sess' = [sess EXCEPT ![scall[c].id] = IF @ = "none" THEN meta ELSE @]
             /\ SGoto(c, "write")
             /\ UNCHANGED granted /\ UNCHANGED requests /\ OnlySessions

WriteSession(c) == /\ scall[c].pc = "write"
                   /\ sess[scall[c].id] \in {"none", "meta"}
                   /\ sess' = [sess EXCEPT ![scall[c].id] = "live"]
                   /\ granted' = IF \E d \in Calls : scall[d].victim = scall[c].id THEN granted
                                  ELSE granted \cup {scall[c].id}
                   /\ SReturn(c)
                   /\ UNCHANGED requests /\ OnlySessions

\* An error or a crash before the write leaves the metadata.
SessionFails(c) == /\ scall[c] # NoSession /\ faults < MaxFaults
                   /\ faults' = faults + 1
                   /\ SReturn(c)
                   /\ UNCHANGED <<docs, call, sess, used, reused, requests, ghosts, granted>>

Expire(s) == /\ sess[s] = "live"
             /\ sess' = [sess EXCEPT ![s] = "expired"]
             /\ granted' = granted \ {s}
             /\ UNCHANGED scall /\ UNCHANGED requests /\ OnlySessions

----------------------------------------------------------------------------
Request(c) == \/ \E p \in Paths : Create(c, p) \/ Ask(c, p)
              \/ \E p \in Providers : CreateOIDCProvider(c, p)
              \/ \E x \in Renames : RenameUser(c, x[1], x[2])
              \/ \E n \in Names : Search(c, n)
              \/ ListAll(c)

Step(c) == \/ Read(c) \/ Replace(c) \/ Confirm(c) \/ Remove(c)
           \/ CheckName(c) \/ CreateNew(c) \/ RemoveOld(c)
           \/ CountProviders(c) \/ WriteProvider(c)
           \/ List(c) \/ \E p \in Paths : Visit(c, p)

Session(c) == \/ \E s \in Sessions : CreateSession(c, s) \/ GetSession(c, s) \/ Look(c, s)
              \/ ListSessions(c) \/ PurgeSession(c) \/ Counted(c) \/ SetTTL(c)
              \/ WriteSession(c) \/ SessionFails(c)

Next == \/ \E c \in Calls : Request(c) \/ Step(c) \/ RemoveOldFails(c) \/ Fails(c) \/ Session(c)
        \/ \E s \in Sessions : Expire(s)

Spec == Init /\ [][Next]_vars

----------------------------------------------------------------------------
\* Two updates of one user, role or provider never overwrite each other: the CAS
\* loops change what they were asked to change in the document as it is, and
\* keep whose it is.  The versions of a name that is created again start again
\* at 1, and nothing tells the old ones from the new.
NoLostUpdate ==
  [][\A p \in Stored \ reused : docs'[p] # NoDoc =>
       /\ docs'[p].uid = docs[p].uid
       /\ Differences(docs[p].data, docs'[p].data) <= 1]_vars

\* The limits on access keys, policies, tags and client IDs hold, though they are
\* checked on a copy, and also for documents that a rename writes or that stale
\* requests reach.
ItemLimit == \A p \in Stored : WithinLimits(docs[p].data)

\* A user whom no request deleted has a record at every moment of a rename, also
\* when the rename stops half way or the name is contested (while no name is
\* created again: deleteByPath does not look at whose record it removes).
UserNotLost == reused = {} => \A u \in existing : \E p \in Stored : docs[p].uid = u

\* A key keeps the status that the last successful request gave it while its user
\* was not being renamed: one that was deleted or deactivated does not come back
\* through a slower request, and neither through the usage that is recorded in
\* the background (as long as no rename left its old record behind and no user was
\* renamed twice at once: each of those leaves two records of one user).
RevocationKept == stale = {} /\ reused = {} =>
  \A p \in Users \cap Stored, s \in settled : docs[p].uid = s[1] => docs[p].data.keys[s[2]] = s[3]

\* Whoever signs with a key that is there from the listing on is found, however
\* the users that are read one by one change meanwhile: GetUserByAccessKeyID
\* fails only when a user is deleted or renamed, or the key, under its eyes.
KeyFound == missed = {}

\* A session that was handed out is found until it expires, though CreateSession
\* and GetSession of other gateways purge what they take for dead sessions; not
\* so one whose path they took for dead before its first version was written.
SessionUsable == \A s \in granted : sess[s] = "live"

\* The limit on the sessions of a role is checked before the write, so every
\* concurrent CreateSession may go past it, but each by one session only.
SessionLimit == Cardinality({s \in Sessions : sess[s] = "live"}) <= MaxSessions + Cardinality(Calls) - 1

\* So is the limit on OIDC providers.
ProviderLimit == Cardinality(Stored \cap Providers) <= MaxProviders + Cardinality(Calls) - 1

\* Who was given access keeps it and who lost it stays without, whichever gateway
\* looks: RevocationKept, KeyFound and SessionUsable.
AccessKept == RevocationKept /\ KeyFound /\ SessionUsable

\* No limit is passed by more than the calls that run at once: ItemLimit,
\* SessionLimit and ProviderLimit.
LimitsKept == ItemLimit /\ SessionLimit /\ ProviderLimit

----------------------------------------------------------------------------
(* The inductive invariant of VaultStoreProofs, in parts. *)
KeyOps == {"CreateAccessKey", "UpdateAccessKey", "DeleteAccessKey"}

\* What a request was asked for, and that it has read what it is about to write.
Fits(r) ==
  /\ r.pc = "idle" => r = NoCall
  /\ r.pc \in {"read", "write", "confirm", "remove"} => r.path \in Paths
  /\ r.pc \in {"write", "confirm", "remove", "check", "create", "removeOld"} => r.doc # NoDoc
  /\ r.pc = "write" => Mutate(r, r.doc.data) # Refused
  /\ r.pc \in {"check", "removeOld"} => r.op = "RenameUser"
  /\ r.pc = "create" => r.op \in {"RenameUser", "CreateProvider"}
  /\ r.pc \in {"list", "look"} /\ r.op # "CreateProvider" => r.op \in Searches \cup Listings /\ r.doc = NoDoc
  /\ r.op = "RenameUser" => r.pc \in {"read", "check", "create", "removeOld"} /\ {r.path, r.to} \subseteq Users
  /\ r.op = "CreateProvider" => r.pc \in {"list", "create"} /\ r.path \in Providers /\ r.doc # NoDoc
  /\ r.op \in KeyOps => r.path \in Users
  /\ r.op \in Named \cup Searches => r.name \in Names
  /\ r.op \in Listings => r.name = NoDoc
  /\ r.op # "UpdateAccessKey" => r.val = "on"
CallsFit == \A c \in Calls : Fits(call[c])

\* A copy of a document that was read is of the identity which still has the name,
\* and with the same version it is the same document, unless the name was created
\* again.
CopiesFit ==
  /\ Stored \subseteq used
  /\ \A c \in Calls : call[c].doc # NoDoc /\ call[c].op # "CreateProvider" =>
       /\ Path(c) \in used
       /\ Path(c) \in Stored \ reused =>
            /\ Doc(c).uid = call[c].doc.uid
            /\ \/ Doc(c).ver > call[c].doc.ver
               \/ Doc(c) = call[c].doc

\* A user has a record that no rename is about to remove.
RecordStays == reused = {} => \A u \in existing : \E p \in Stored \ Leaving : docs[p].uid = u

\* The IDs that were given out.
Given == {u \in Nat : u <= requests \/ u > MaxRequests}
IdsGiven == /\ \A p \in Stored : docs[p].uid \in Given
            /\ \A c \in Calls : call[c].doc # NoDoc => call[c].doc.uid \in Given
            /\ \A s \in settled : s[1] \in Given

\* Of the records of one user at most one stays.
OneRecord == stale = {} /\ reused = {} =>
  \A p, q \in (Users \cap Stored) \ Leaving : docs[p].uid = docs[q].uid => p = q

\* A rename writes the keys as they were settled: it unsettles those that change
\* after it has read them.
CopiesSettled == stale = {} /\ reused = {} =>
  \A c \in Calls, s \in settled :
    call[c].op = "RenameUser" /\ call[c].doc # NoDoc /\ call[c].doc.uid = s[1] =>
      call[c].doc.data.keys[s[2]] = s[3]

\* A lookup that nothing went away from has the user of the key before it.
LookupsFind == \A c \in kept :
  /\ At(c, "look") /\ call[c].op \in Searches
  /\ call[c].todo \subseteq Users \cap Stored
  /\ \E p \in call[c].todo : Holds(docs, p, call[c].name)

\* A request for sessions names one, and only sessions that were not handed out
\* are purged.
SessionsFit == \A c \in Calls : /\ scall[c].pc # "idle" => scall[c].id \in Sessions
                                /\ scall[c].victim \notin granted

IInv == /\ TypeOK /\ CallsFit /\ CopiesFit /\ RecordStays /\ IdsGiven /\ OneRecord /\ CopiesSettled
        /\ RevocationKept /\ LookupsFind /\ KeyFound /\ SessionsFit /\ SessionUsable
=============================================================================
