---------------------------- MODULE IamHandlers ----------------------------
(***************************************************************************)
(* The actions of the IAM and STS API: the route of each and the steps its *)
(* controller takes (src/iamapi/router.go, controller.go).                 *)
(*                                                                         *)
(* A request is [op, cred, on, x, y, marker]: the entity it is about and   *)
(* two operands, "" where the client gives none.  The steps:               *)
(*   Valid    parameters are parsed; a malformed one is an error           *)
(*   Policy, Trust   the document in y must be valid                       *)
(*   User, Role      the entity is read and must exist                     *)
(*   Store    the operation of the store of that name, a write             *)
(*   Read     the same for a read, whose result is the answer              *)
(***************************************************************************)
EXTENDS Naturals, Sequences

Do(step) == [do |-> step, op |-> ""]
Store(op) == <<[do |-> "Store", op |-> op]>>
Read(op) == <<[do |-> "Read", op |-> op]>>
Checked(steps) == <<Do("Valid")>> \o steps

HandleCreateUser == Checked(Store("CreateUser"))
HandleDeleteUser == Checked(Store("DeleteUser"))

\* Without a name it is about the caller, as authentication read it.
HandleGetUser(in) == IF in.on = "" THEN <<Do("Caller")>> ELSE Checked(Read("GetUser"))
HandleListUsers == Checked(Read("ListUsers"))
HandleUpdateUser == Checked(<<Do("User")>> \o Store("UpdateUser"))
HandleTagUser == Checked(Store("TagUser"))
HandleUntagUser == Checked(Store("UntagUser"))
HandleListUserTags == Checked(Read("ListUserTags"))

HandleCreateAccessKey == Checked(Store("CreateAccessKey"))
HandleUpdateAccessKey == Checked(Store("UpdateAccessKey"))
HandleDeleteAccessKey == Checked(Store("DeleteAccessKey"))
HandleGetAccessKeyLastUsed == Checked(Read("GetAccessKeyLastUsed"))
HandleListAccessKeys == Checked(Read("ListAccessKeys"))

HandlePutUserPolicy == Checked(<<Do("User"), Do("Policy")>> \o Store("PutUserPolicy"))
HandleGetUserPolicy == Checked(Read("GetUserPolicy"))
HandleDeleteUserPolicy == Checked(Store("DeleteUserPolicy"))
HandleListUserPolicies == Checked(Read("ListUserPolicies"))

HandleCreateRole == Checked(<<Do("Trust")>> \o Store("CreateRole"))
HandleGetRole == Checked(Read("GetRole"))
HandleListRoles == Checked(Read("ListRoles"))
HandleDeleteRole == Checked(Store("DeleteRole"))
HandleUpdateAssumeRolePolicy ==
  Checked(<<Do("Role"), Do("Trust")>> \o Store("UpdateAssumeRolePolicy"))
HandleTagRole == Checked(Store("TagRole"))
HandleUntagRole == Checked(Store("UntagRole"))
HandleListRoleTags == Checked(Read("ListRoleTags"))

HandlePutRolePolicy == Checked(<<Do("Role"), Do("Policy")>> \o Store("PutRolePolicy"))
HandleGetRolePolicy == Checked(Read("GetRolePolicy"))
HandleDeleteRolePolicy == Checked(Store("DeleteRolePolicy"))
HandleListRolePolicies == Checked(Read("ListRolePolicies"))

HandleCreateOpenIDConnectProvider ==
  Checked(<<Do("Thumbprint")>> \o Store("CreateOIDCProvider"))
HandleGetOpenIDConnectProvider == Checked(Read("GetOIDCProvider"))
HandleListOpenIDConnectProviders == Read("ListOIDCProviders")
HandleDeleteOpenIDConnectProvider == Checked(Store("DeleteOIDCProvider"))
HandleAddClientID == Checked(Store("AddClientIDToOIDCProvider"))
HandleRemoveClientID == Checked(Store("RemoveClientIDFromOIDCProvider"))
HandleUpdateThumbprint == Checked(Store("UpdateOIDCProviderThumbprint"))
HandleTagOpenIDConnectProvider == Checked(Store("TagOIDCProvider"))
HandleUntagOpenIDConnectProvider == Checked(Store("UntagOIDCProvider"))
HandleListOpenIDConnectProviderTags == Checked(Read("ListOIDCProviderTags"))

\* The token's claims are not believed before its signature is checked; every
\* read between here and there is one of its own.
HandleAssumeRoleWithWebIdentity ==
  Checked(<<Do("AssumedRole"), Do("TrustDecision"), Do("Provider"), Do("Signature"),
            Do("Expiry")>> \o Store("CreateSession"))

HandleGetCallerIdentity == <<Do("Caller")>>

-----------------------------------------------------------------------------

UserActions ==
  {"DeleteUser", "UpdateUser", "CreateAccessKey", "UpdateAccessKey", "DeleteAccessKey",
   "ListAccessKeys", "PutUserPolicy", "GetUserPolicy", "DeleteUserPolicy",
   "ListUserPolicies", "TagUser", "UntagUser", "ListUserTags"}
RoleActions ==
  {"GetRole", "DeleteRole", "UpdateAssumeRolePolicy", "PutRolePolicy", "GetRolePolicy",
   "DeleteRolePolicy", "ListRolePolicies", "TagRole", "UntagRole", "ListRoleTags"}
ProviderActions ==
  {"GetOIDCProvider", "DeleteOIDCProvider", "AddClientIDToOIDCProvider",
   "RemoveClientIDFromOIDCProvider", "UpdateOIDCProviderThumbprint", "TagOIDCProvider",
   "UntagOIDCProvider", "ListOIDCProviderTags"}

actions(in) ==
  [CreateUser |-> HandleCreateUser, DeleteUser |-> HandleDeleteUser,
   GetUser |-> HandleGetUser(in), ListUsers |-> HandleListUsers,
   UpdateUser |-> HandleUpdateUser, TagUser |-> HandleTagUser,
   UntagUser |-> HandleUntagUser, ListUserTags |-> HandleListUserTags,
   CreateAccessKey |-> HandleCreateAccessKey, UpdateAccessKey |-> HandleUpdateAccessKey,
   DeleteAccessKey |-> HandleDeleteAccessKey,
   GetAccessKeyLastUsed |-> HandleGetAccessKeyLastUsed,
   ListAccessKeys |-> HandleListAccessKeys, PutUserPolicy |-> HandlePutUserPolicy,
   GetUserPolicy |-> HandleGetUserPolicy, DeleteUserPolicy |-> HandleDeleteUserPolicy,
   ListUserPolicies |-> HandleListUserPolicies, CreateRole |-> HandleCreateRole,
   GetRole |-> HandleGetRole, ListRoles |-> HandleListRoles,
   DeleteRole |-> HandleDeleteRole,
   UpdateAssumeRolePolicy |-> HandleUpdateAssumeRolePolicy, TagRole |-> HandleTagRole,
   UntagRole |-> HandleUntagRole, ListRoleTags |-> HandleListRoleTags,
   PutRolePolicy |-> HandlePutRolePolicy, GetRolePolicy |-> HandleGetRolePolicy,
   DeleteRolePolicy |-> HandleDeleteRolePolicy,
   ListRolePolicies |-> HandleListRolePolicies,
   CreateOIDCProvider |-> HandleCreateOpenIDConnectProvider,
   GetOIDCProvider |-> HandleGetOpenIDConnectProvider,
   ListOIDCProviders |-> HandleListOpenIDConnectProviders,
   DeleteOIDCProvider |-> HandleDeleteOpenIDConnectProvider,
   AddClientIDToOIDCProvider |-> HandleAddClientID,
   RemoveClientIDFromOIDCProvider |-> HandleRemoveClientID,
   UpdateOIDCProviderThumbprint |-> HandleUpdateThumbprint,
   TagOIDCProvider |-> HandleTagOpenIDConnectProvider,
   UntagOIDCProvider |-> HandleUntagOpenIDConnectProvider,
   ListOIDCProviderTags |-> HandleListOpenIDConnectProviderTags,
   AssumeRoleWithWebIdentity |-> HandleAssumeRoleWithWebIdentity,
   GetCallerIdentity |-> HandleGetCallerIdentity]

\* dispatch: the open STS route, the authenticated STS route, or the IAM route.
dispatch(in) ==
  LET target == IF in.op = "UpdateUser" THEN <<Do("Target")>> ELSE <<>>
  IN  (CASE in.op = "AssumeRoleWithWebIdentity" -> <<>>
         [] in.op = "GetCallerIdentity" -> <<Do("Resolve")>>
         [] OTHER -> <<Do("Resolve"), Do("Authorize")>> \o target)
      \o (IF in.op \in DOMAIN actions(in) THEN actions(in)[in.op] ELSE <<Do("InvalidAction")>>)
=============================================================================
