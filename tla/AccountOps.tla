----------------------------- MODULE AccountOps -----------------------------
(***************************************************************************)
(* The IAM services of the gateway (src/auth/iam*.go): each operation of   *)
(* each service as the sequence of steps it takes, and the cache that most *)
(* of them run behind.  IamAccounts says what a step reads and changes.    *)
(*                                                                         *)
(* `in` is what is asked for: in.op the operation, in.a the access key,    *)
(* in.keys the access keys of ResolveAccounts, in.props the properties an  *)
(* update gives, in.token whether a session token comes with the request.  *)
(***************************************************************************)
EXTENDS Integers, Sequences, SequencesExt

Do(what) == [do |-> what]
\* A service got the account; a lookup ends, and another one may follow.
Got == Do("Got")
Found == Do("Found")
\* The root account is answered, or refused, before anything is looked up.
AnswerRoot == Do("AnswerRoot")
RefuseRoot == Do("RefuseRoot")
NotSupported == <<Do("NotSupported")>>

-----------------------------------------------------------------------------
(* Accounts in a file, users.json: read and written back under the lock of   *)
(* the process.  A lookup may be answered from the file as it was a moment   *)
(* ago.                                                                      *)

Lock == Do("Lock")
Unlock == Do("Unlock")
Edit == Do("Edit")
StoreIAM == <<Lock, Do("ReadFile"), Edit, Do("WriteFile"), Unlock>>
InternalCreateAccount == <<RefuseRoot>> \o StoreIAM
InternalGetUserAccount(a) == <<AnswerRoot, Do("GetIAM"), [do |-> "Pick", a |-> a], Got>>
InternalUpdateUserAccount == StoreIAM
InternalDeleteUserAccount == StoreIAM
InternalListUserAccounts == <<Do("GetIAM"), Do("PickAll")>>
\* A missing file is written, without accounts; one that is there is left.
NewInternal == <<Do("InitRead"), Do("InitWrite")>>

-----------------------------------------------------------------------------
(* Accounts in an object of another S3 server, in the same way.  A missing   *)
(* object is one without accounts.                                           *)

getAccounts == Do("GetAccounts")
storeAccts == Do("StoreAccts")
ChangeObject == <<Lock, getAccounts, Edit, storeAccts, Unlock>>
S3CreateAccount == <<RefuseRoot>> \o ChangeObject
S3GetUserAccount(a) == <<AnswerRoot, Do("ReadAccounts"), [do |-> "Pick", a |-> a], Got>>
S3UpdateUserAccount == ChangeObject
S3DeleteUserAccount == ChangeObject
S3ListUserAccounts == <<Do("ReadAccounts"), Do("PickAll")>>
\* The settings are checked; nothing is called.
NewS3 == <<>>

-----------------------------------------------------------------------------
(* Accounts in Vault, a secret each.  A call that is forbidden is made once  *)
(* more, after a login.                                                      *)

Kv(what, a) == [do |-> what, a |-> a, again |-> TRUE]
login == Do("AppRoleLogin")
VaultWrite(a) == <<Kv("KvWrite", a)>>
VaultCreateAccount(a) == <<RefuseRoot>> \o VaultWrite(a)
VaultGetUserAccount(a) == <<AnswerRoot, Kv("KvRead", a), Got>>
VaultDeleteUserAccount(a) == <<Kv("KvDelete", a)>>
\* What was read is changed, the secret deleted, and written as a new one.
VaultUpdateUserAccount(a) ==
  VaultGetUserAccount(a) \o <<Do("UpdateAcc")>> \o VaultDeleteUserAccount(a) \o VaultCreateAccount(a)
\* The secrets that were listed are read one by one (KvEach).
VaultListUserAccounts == <<Kv("KvList", "")>>
NewVaultIAMService == <<login>>

-----------------------------------------------------------------------------
(* Accounts in an LDAP directory, an entry each.  A call is made under the   *)
(* lock of the one connection, and made once more on a new connection when   *)
(* this one fails.                                                           *)

dial == Do("DialAndBind")
execute(what, a) == <<Lock, [do |-> what, a |-> a, again |-> TRUE], Unlock>>
LdapCreateAccount(a) == <<RefuseRoot>> \o execute("Add", a)
LdapGetUserAccount(a) == <<AnswerRoot>> \o execute("Search", a) \o <<[do |-> "ParseEntry", a |-> a], Got>>
\* Only the attributes that are given are replaced, in one call.
LdapUpdateUserAccount(a) == execute("Modify", a)
LdapDeleteUserAccount(a) == execute("Del", a)
LdapListUserAccounts == execute("SearchAll", "") \o <<Do("ParseEntries")>>
NewLDAPService == <<dial>>

-----------------------------------------------------------------------------
(* Accounts of FreeIPA: the user and the secret are read by two calls, each  *)
(* after a login; a login or a call that fails is made up to three times.    *)

RequestRetries == 3
ipaLogin == [do |-> "IpaLogin", tries |-> RequestRetries]
rpc(what, a) == <<ipaLogin, [do |-> what, a |-> a, tries |-> RequestRetries]>>
IpaGetUserAccount(a) ==
  <<AnswerRoot>> \o rpc("UserShow", a) \o rpc("VaultRetrieve", a) \o <<Do("Unpad"), Got>>
NewIpaIAMService == <<ipaLogin>> \o rpc("VaultConfigShow", "")

-----------------------------------------------------------------------------
(* Accounts of the standalone IAM service, which is asked each time.  Every  *)
(* response says which protocol the service speaks.                          *)

doPrivateRequest(path, a) == [do |-> "Private", path |-> path, a |-> a]
DeriveSigningKey(in) ==
  <<Do("RefuseRootToken"), AnswerRoot, doPrivateRequest("derive", in.a), Got, Found>>
EvaluatePolicy(in) == <<doPrivateRequest("evaluate", in.a), Do("Decisions")>>
StandaloneGetUserAccount(a) == <<AnswerRoot, doPrivateRequest("resolve", a), Got>>
\* All the keys but the root's are asked for at once.
StandaloneResolveAccounts == <<doPrivateRequest("resolve all", ""), Do("Resolved")>>
probeProtocol == <<[do |-> "Probe", last |-> FALSE]>>
NewIAMServiceStandalone == probeProtocol

\* Without a service there is the root account.
SingleGetUserAccount(a) == <<AnswerRoot, Do("UserNotFound"), Got>>

-----------------------------------------------------------------------------
(* The interface, and the cache *)

CreateAccount(kind, a) ==
  CASE kind = "internal" -> InternalCreateAccount
    [] kind = "s3" -> S3CreateAccount
    [] kind = "vault" -> VaultCreateAccount(a)
    [] kind = "ldap" -> LdapCreateAccount(a)
    [] OTHER -> NotSupported
GetUserAccount(kind, a) ==
  CASE kind = "internal" -> InternalGetUserAccount(a)
    [] kind = "s3" -> S3GetUserAccount(a)
    [] kind = "vault" -> VaultGetUserAccount(a)
    [] kind = "ldap" -> LdapGetUserAccount(a)
    [] kind = "ipa" -> IpaGetUserAccount(a)
    [] kind = "standalone" -> StandaloneGetUserAccount(a)
    [] kind = "single" -> SingleGetUserAccount(a)
UpdateUserAccount(kind, a) ==
  CASE kind = "internal" -> InternalUpdateUserAccount
    [] kind = "s3" -> S3UpdateUserAccount
    [] kind = "vault" -> VaultUpdateUserAccount(a)
    [] kind = "ldap" -> LdapUpdateUserAccount(a)
    [] OTHER -> NotSupported
DeleteUserAccount(kind, a) ==
  CASE kind = "internal" -> InternalDeleteUserAccount
    [] kind = "s3" -> S3DeleteUserAccount
    [] kind = "vault" -> VaultDeleteUserAccount(a)
    [] kind = "ldap" -> LdapDeleteUserAccount(a)
    [] OTHER -> NotSupported
ListUserAccounts(kind) ==
  CASE kind = "internal" -> InternalListUserAccounts
    [] kind = "s3" -> S3ListUserAccounts
    [] kind = "vault" -> VaultListUserAccounts
    [] kind = "ldap" -> LdapListUserAccounts
    [] OTHER -> NotSupported

\* The service first; the cache follows what it did, if it did.
CachedCreateAccount(kind, a) == CreateAccount(kind, a) \o <<Do("CacheCreated")>>
CachedGetUserAccount(kind, a) ==
  <<[do |-> "CacheGet", a |-> a]>> \o GetUserAccount(kind, a) \o <<[do |-> "CacheSet", a |-> a], Found>>
\* Mutant: the service alone is told.
DeleteUncached(kind, a) == DeleteUserAccount(kind, a)
CachedDeleteUserAccount(kind, a) == DeleteUserAccount(kind, a) \o <<Do("CacheDelete")>>
CachedUpdateUserAccount(kind, a) == UpdateUserAccount(kind, a) \o <<Do("CacheUpdate")>>

\* New: which services have a cache is the configuration's choice, but for
\* the standalone service and the single account.
Cacheable(kind) == kind \notin {"standalone", "single"}
Open(kind) ==
  CASE kind = "internal" -> NewInternal
    [] kind = "s3" -> NewS3
    [] kind = "vault" -> NewVaultIAMService
    [] kind = "ldap" -> NewLDAPService
    [] kind = "ipa" -> NewIpaIAMService
    [] kind = "standalone" -> NewIAMServiceStandalone
    [] kind = "single" -> <<>>

Lookup(kind, cached, a) ==
  IF cached THEN CachedGetUserAccount(kind, a) ELSE GetUserAccount(kind, a) \o <<Found>>
\* One lookup after the other; a key that is not found is remembered.
resolveAccountsByLookup(kind, cached, keys) ==
  FlattenSeq([i \in DOMAIN keys |->
                <<[do |-> "Key", a |-> keys[i]]>> \o Lookup(kind, cached, keys[i])])
ProgramOf(kind, cached, in) ==
  CASE in.op = "CreateAccount" ->
         IF cached THEN CachedCreateAccount(kind, in.a) ELSE CreateAccount(kind, in.a)
    [] in.op = "GetUserAccount" -> Lookup(kind, cached, in.a)
    [] in.op = "ResolveAccounts" ->
         IF kind = "standalone" THEN StandaloneResolveAccounts
         ELSE resolveAccountsByLookup(kind, cached, in.keys)
    [] in.op = "UpdateUserAccount" ->
         IF cached THEN CachedUpdateUserAccount(kind, in.a) ELSE UpdateUserAccount(kind, in.a)
    [] in.op = "DeleteUserAccount" ->
         IF cached THEN CachedDeleteUserAccount(kind, in.a) ELSE DeleteUserAccount(kind, in.a)
    [] in.op = "ListUserAccounts" -> ListUserAccounts(kind)
    [] in.op = "DeriveSigningKey" -> DeriveSigningKey(in)
    [] in.op = "EvaluatePolicy" -> EvaluatePolicy(in)
    [] in.op = "Open" -> Open(kind)
=============================================================================
