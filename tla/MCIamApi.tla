------------------------------ MODULE MCIamApi ------------------------------
(***************************************************************************)
(* Up to three requests on one or two servers.  Each mix is a store file   *)
(* to start with and, per slot, the requests one of which it may carry.    *)
(***************************************************************************)
EXTENDS IamApi, TLC

MCServers == {"g1", "g2"}
MCSlots == {"s1", "s2", "s3"}
MCFold(n) == CASE n = "Ann" -> "ann" [] n = "Team" -> "team" [] OTHER -> n
MCOrder == <<"Ann", "Ops", "Team", "ann", "bob", "cat", "hub", "idp", "k1", "k2", "k3", "k4",
             "k5", "op", "ops", "p1", "p2", "t2", "team">>
MCGenerated == [s1 |-> <<"k2", "k4", "k5">>, s2 |-> <<"k3">>, s3 |-> <<"t2">>]

-----------------------------------------------------------------------------
(* Documents *)

Stmt(effect, acts, res) ==
  [EmptyStatement EXCEPT !.effect = effect, !.action = acts, !.resource = res]
Cond(base, key, expected) ==
  [base |-> base, qualifier |-> "", ifExists |-> FALSE, key |-> key, expected |-> expected]
Doc(stmts) == [json |-> TRUE, version |-> "2012-10-17", stmts |-> stmts]

AnyIam == {<<"iam", "*">>}
DevUsers == <<"user", "/dev", "*">>
DevRoles == <<"role", "/dev", "*">>
MCDocuments ==
  [all |-> Doc(<<Stmt("Allow", AnyIam, {Star})>>),
   dev |-> Doc(<<Stmt("Allow", AnyIam, {DevUsers, DevRoles, Star})>>),
   devOnly |-> Doc(<<Stmt("Allow", AnyIam, {DevUsers, DevRoles})>>),
   noCat |-> Doc(<<Stmt("Allow", AnyIam, {Star}),
                   Stmt("Deny", AnyIam, {<<"user", "*", "cat">>})>>),
   tagged |-> Doc(<<[Stmt("Allow", AnyIam, {Star}) EXCEPT
                       !.cond = {Cond("StringEquals", <<"ResourceTag", "op">>, {"dev"})}],
                    [Stmt("Deny", AnyIam, {Star}) EXCEPT
                       !.cond = {Cond("StringNotEqualsIgnoreCase", <<"PrincipalType">>, {"user"}),
                                 Cond("Null", <<"PrincipalType">>, {"false"})}]>>),
   unknownOp |-> Doc(<<[Stmt("Allow", AnyIam, {Star}) EXCEPT
                          !.cond = {Cond("Sounds", <<"PrincipalType">>, {"user"})}]>>),
   broken |-> [Doc(<<>>) EXCEPT !.json = FALSE]]
MCSize == [d \in DOMAIN MCDocuments |-> IF d = "tagged" THEN 2 ELSE 1]

Trust(fed, cond) ==
  [EmptyStatement EXCEPT !.effect = "Allow", !.action = {<<"sts", "AssumeRoleWithWebIdentity">>},
     !.principal = "object", !.federated = fed, !.cond = cond]
MCTrusts ==
  [idp |-> Doc(<<Trust({"idp"}, {Cond("StringEquals", <<"sub">>, {"me"})})>>),
   other |-> Doc(<<Trust({"hub"}, {Cond("StringLike", <<"sub">>, {"*"})})>>),
   open |-> Doc(<<Trust({"hub"}, {})>>)]
MCShared == [hub |-> <<"sub">>]

-----------------------------------------------------------------------------
(* Store files *)

User(id, path, name, ks, ps) ==
  [id |-> id, path |-> path, arn |-> UserArn(path, name), keys |-> ks, used |-> {},
   policies |-> ps, tags |-> EmptyMap]
Role(id, path, name, ps) ==
  [id |-> id, path |-> path, arn |-> RoleArn(path, name), trust |-> "idp", policies |-> ps,
   tags |-> EmptyMap]
Session(role, id, arn, policy) ==
  [role |-> role, roleId |-> id, arn |-> arn, policy |-> policy, expires |-> 1]

KeyOf(us) == [k \in UNION {DOMAIN us[n].keys : n \in DOMAIN us} |->
                CHOOSE n \in DOMAIN us : k \in DOMAIN us[n].keys]
NameIndex(es) == [i \in {MCFold(n) : n \in DOMAIN es} |->
                    CHOOSE n \in DOMAIN es : MCFold(n) = i]
Conf_(us, rs, ps, ss) ==
  [users |-> us, keyIndex |-> KeyOf(us), userIndex |-> NameIndex(us), roles |-> rs,
   roleIndex |-> NameIndex(rs), providers |-> ps, sessions |-> ss]

Ann(policy) == User("u1", "/dev", "ann", ("k1" :> "Active"), ("p1" :> policy))
Bob == User("u2", "/dev", "bob", ("k2" :> "Active"), EmptyMap)
Idp == ("idp" :> [clients |-> {"app"}, thumb |-> "th", tags |-> EmptyMap])
Team(id) == Role(id, "/dev", "team", ("p1" :> "all"))
Users(policy) == ("ann" :> Ann(policy)) @@ ("bob" :> Bob)
Few(policy) == Conf_(Users(policy), EmptyMap, EmptyMap, EmptyMap)
Full == Conf_(Users("all"), ("team" :> Team("r1")), Idp,
              ("t1" :> Session("team", "r1", RoleArn("/dev", "team"), {})))
NoIndexes == [Full EXCEPT !.userIndex = EmptyMap, !.roleIndex = EmptyMap]

-----------------------------------------------------------------------------
(* Requests *)

In(op, cred, on, x, y) ==
  [op |-> op, cred |-> cred, on |-> on, x |-> x, y |-> y, marker |-> "", policy |-> {}]
Token(kid) == [issuer |-> "idp", aud |-> "app", sub |-> "me", kid |-> kid]
Assume(kid) == In("AssumeRoleWithWebIdentity", "", "team", "/dev", Token(kid))
None == <<>>

WideOps(cred) == <<
  In("CreateUser", cred, "cat", "/dev", EmptyMap), In("CreateUser", cred, "Ann", "/ops", EmptyMap),
  In("DeleteUser", cred, "bob", "", ""), In("GetUser", cred, "", "", ""),
  In("GetUser", cred, "Ann", "", ""), In("ListUsers", cred, "", "/", 1),
  In("UpdateUser", cred, "bob", "Ann", ""), In("UpdateUser", cred, "ann", "Ann", "/ops"),
  In("UpdateUser", cred, "nobody", "cat", ""),
  In("TagUser", cred, "bob", ("op" :> "dev") @@ ("Ops" :> "1"), ""),
  In("UntagUser", cred, "bob", {"op"}, ""), In("ListUserTags", cred, "bob", "", 1),
  In("CreateAccessKey", cred, "bob", "", ""), In("UpdateAccessKey", cred, "bob", "k2", "Inactive"),
  In("DeleteAccessKey", cred, "ann", "k1", ""), In("DeleteAccessKey", cred, "ann", "k2", ""),
  In("GetAccessKeyLastUsed", cred, "", "k1", ""), In("ListAccessKeys", cred, "ann", "", 1),
  In("PutUserPolicy", cred, "ann", "p2", "tagged"), In("PutUserPolicy", cred, "bob", "p1", "broken"),
  In("PutUserPolicy", cred, "bob", "p1", "unknownOp"), In("GetUserPolicy", cred, "ann", "p1", ""),
  In("DeleteUserPolicy", cred, "ann", "p1", ""), In("ListUserPolicies", cred, "ann", "", 1),
  In("CreateRole", cred, "ops", "/ops", "idp"), In("CreateRole", cred, "Team", "/ops", "other"),
  In("CreateRole", cred, "ops", "/ops", "open"),
  In("GetRole", cred, "Team", "", ""), In("ListRoles", cred, "", "/", 1),
  In("DeleteRole", cred, "team", "", ""), In("UpdateAssumeRolePolicy", cred, "team", "", "other"),
  In("UpdateAssumeRolePolicy", cred, "team", "", "open"),
  In("TagRole", cred, "team", ("op" :> "dev"), ""), In("UntagRole", cred, "team", {"op"}, ""),
  In("ListRoleTags", cred, "team", "", 1), In("PutRolePolicy", cred, "team", "p2", "dev"),
  In("PutRolePolicy", cred, "team", "p2", "broken"),
  In("GetRolePolicy", cred, "team", "p1", ""), In("DeleteRolePolicy", cred, "team", "p1", ""),
  In("ListRolePolicies", cred, "team", "", 1),
  In("CreateOIDCProvider", cred, "hub", {"app"}, ""), In("CreateOIDCProvider", cred, "idp", {}, "th"),
  In("GetOIDCProvider", cred, "idp", "", ""), In("ListOIDCProviders", cred, "", "", ""),
  In("DeleteOIDCProvider", cred, "idp", "", ""),
  In("AddClientIDToOIDCProvider", cred, "idp", "web", ""),
  In("RemoveClientIDFromOIDCProvider", cred, "idp", "app", ""),
  In("UpdateOIDCProviderThumbprint", cred, "idp", "th2", ""),
  In("TagOIDCProvider", cred, "idp", ("op" :> "dev"), ""),
  In("UntagOIDCProvider", cred, "idp", {"op"}, ""), In("ListOIDCProviderTags", cred, "idp", "", 1),
  In("GetCallerIdentity", cred, "", "", ""), In("Frobnicate", cred, "", "", ""),
  Assume("kid1")>>

One == [s \in MCSlots |-> "g1"]
Two == [s1 |-> "g1", s2 |-> "g2", s3 |-> "g1"]
Mix(conf, at, s1, s2, s3) ==
  [fmt |-> "plain", conf |-> conf, at |-> at, time |-> 0,
   inputs |-> [s1 |-> s1, s2 |-> s2, s3 |-> s3], tool |-> <<>>,
   protect |-> MCServers, require |-> {}, faults |-> FALSE, rotate |-> FALSE]

Rename(cred, who, name, path) == In("UpdateUser", cred, who, name, path)
Revocations ==
  <<In("UpdateAccessKey", "root", "ann", "k1", "Inactive"), In("DeleteAccessKey", "root", "ann", "k1", ""),
    Rename("root", "ann", "cat", "")>>

AllMixes ==
  [wide |-> [Mix(Full, One, WideOps("k1"), None, None) EXCEPT !.faults = TRUE],
   wideRoot |-> Mix(NoIndexes, One, WideOps("root"), WideOps("root"), None),
   wideSession |-> Mix(Full, One, WideOps("t1"), None, None),
   tagged |-> Mix(Few("tagged"), One, <<In("TagUser", "root", "bob", ("op" :> "dev"), "")>>,
                  <<In("DeleteAccessKey", "k1", "bob", "k2", "")>>, None),
   \* a key is used while it is revoked, or its owner's name changes hands
   keys |-> Mix(Few("all"), One,
                <<In("CreateUser", "k1", "op", "/ops", EmptyMap), In("CreateAccessKey", "k1", "bob", "", "")>>,
                Revocations,
                <<In("CreateUser", "root", "ann", "/dev", EmptyMap), Rename("root", "bob", "ann", ""),
                  In("CreateAccessKey", "root", "bob", "", "")>>),
   keysElsewhere |-> [Mix(Few("all"), Two, <<In("GetUser", "k1", "", "", ""),
                                              In("DeleteUser", "k1", "bob", "", "")>>,
                          Revocations, <<In("CreateUser", "root", "ann", "/dev", EmptyMap)>>)
                      EXCEPT !.time = 1],
   \* a delegated administrator moves a user while others do
   moves |-> Mix(Few("devOnly"), One,
                 <<Rename("k1", "bob", "cat", ""), Rename("k1", "bob", "", "/ops"),
                   Rename("k1", "bob", "cat", "/dev"), In("DeleteAccessKey", "k1", "bob", "k2", "")>>,
                 <<Rename("root", "bob", "", "/ops"), Rename("root", "bob", "cat", ""),
                   In("DeleteAccessKey", "root", "bob", "k2", "")>>, None),
   \* a role is deleted and made again while a session of it is used
   roles |-> [Mix([Full EXCEPT !.roles["team"].policies = EmptyMap], One,
                  <<In("GetUser", "t1", "bob", "", ""), In("CreateUser", "t1", "op", "/dev", EmptyMap)>>,
                  <<In("DeleteRole", "root", "team", "", ""),
                    In("PutRolePolicy", "root", "team", "p1", "all")>>,
                  <<In("CreateRole", "root", "team", "/dev", "idp")>>) EXCEPT !.time = 1],
   roleAgain |-> Mix([Full EXCEPT !.roles["team"].id = "r2"], One, WideOps("t1"), None, None),
   \* pages of a list while users come and go
   list |-> Mix(Few("all"), One, <<In("ListUsers", "root", "", "/", 1), In("ListUsers", "root", "", "/dev", 1)>>,
                <<In("DeleteUser", "root", "bob", "", ""), Rename("root", "ann", "cat", ""),
                  Rename("root", "ann", "", "/ops"), In("CreateUser", "root", "cat", "/dev", EmptyMap)>>,
                <<In("CreateUser", "root", "Ann", "/ops", EmptyMap), In("DeleteAccessKey", "root", "bob", "k2", "")>>),
   \* the store is encrypted and decrypted under running servers
   migrate |-> [Mix(Few("all"), Two, <<In("GetUser", "k1", "", "", "")>>,
                    <<In("DeleteAccessKey", "root", "ann", "k1", "")>>, None)
                EXCEPT !.tool = <<"encrypt", "rewrap", "decrypt">>, !.time = 1,
                       !.protect = {"g1"}, !.require = {}],
   sealed |-> [Mix(Few("all"), Two, <<In("GetUser", "k1", "", "", "")>>, <<In("GetUser", "k1", "", "", "")>>, None)
               EXCEPT !.fmt = "sealed", !.protect = {"g1"}, !.require = {"g1"}, !.tool = <<"decrypt">>],
   \* tokens of a provider that changes its signing key
   web |-> [Mix(Full, One, <<Assume("kid1"), Assume("kid2")>>, <<Assume("kid1"), Assume("kid2")>>, None)
            EXCEPT !.rotate = TRUE, !.time = 3]]

CONSTANT Chosen      \* the mixes of a run
MCMixes == [m \in Chosen |-> AllMixes[m]]
=============================================================================
