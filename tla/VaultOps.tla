------------------------------ MODULE VaultOps ------------------------------
(***************************************************************************)
(* The documents of iamapi/storage/vault.go and what its requests do to the *)
(* copy they have read: the mutate functions handed to withUserCAS,         *)
(* withRoleCAS and withOIDCProviderCAS.  Each operator is the edited copy,  *)
(* or Refused where the request answers with an error and writes nothing.   *)
(*                                                                         *)
(* One shape serves users (keys, policies, tags), roles (policies, tags)    *)
(* and providers (clients, tags); body is the path of a user, the trust     *)
(* policy of a role and the thumbprints of a provider.  A policy is its     *)
(* size, 0 when there is none.                                             *)
(***************************************************************************)
EXTENDS Integers, FiniteSets

CONSTANTS Names,        \* of access keys, policies, tags and clients
          MaxKeys,      \* MaxAccessKeysPerUser
          MaxClients,   \* MaxClientIDsPerOIDCProvider
          MaxTags,      \* MaxTagsPerResource
          MaxBytes,     \* MaxInlinePolicyBytesPerUser, ...PerRole
          Refused

Statuses == {"on", "off"}
Empty == [keys |-> [n \in Names |-> "absent"], policies |-> [n \in Names |-> 0],
          tags |-> {}, clients |-> {}, body |-> "old"]
Contents == [keys : [Names -> Statuses \cup {"absent"}], policies : [Names -> 0..MaxBytes],
             tags : SUBSET Names, clients : SUBSET Names, body : {"old", "new"}]

----------------------------------------------------------------------------
(* Access keys *)
Keys(u) == {n \in Names : u.keys[n] # "absent"}

CreateAccessKey(u, n) ==
  IF Cardinality(Keys(u)) >= MaxKeys \/ n \in Keys(u) THEN Refused ELSE [u EXCEPT !.keys[n] = "on"]

UpdateAccessKey(u, n, status) ==
  IF n \in Keys(u) THEN [u EXCEPT !.keys[n] = status] ELSE Refused

DeleteAccessKey(u, n) == IF n \in Keys(u) THEN [u EXCEPT !.keys[n] = "absent"] ELSE Refused

\* Mutant: the key is taken from the record that the search has read.
RecordUsageRestores(u, n) == [u EXCEPT !.keys[n] = IF @ = "absent" THEN "on" ELSE @]

\* The date of the last use is no content of the model: the document as it is.
RecordUsage(u, n) == IF n \in Keys(u) THEN u ELSE Refused

----------------------------------------------------------------------------
(* Policies *)
Policies(d) == {n \in Names : d.policies[n] # 0}

\* The bytes of the policies of S, each a policy and a place in it.
Bytes(d, S) == {b \in S \X (1..MaxBytes) : b[2] <= d.policies[b[1]]}
BytesBesides(d, n) == Cardinality(Bytes(d, Names \ {n}))

\* The quota counts the policy that is put and the others; it takes the place
\* of one with its name.
PutPolicy(d, n, size) ==
  IF size + BytesBesides(d, n) > MaxBytes THEN Refused ELSE [d EXCEPT !.policies[n] = size]

DeletePolicy(d, n) == IF n \in Policies(d) THEN [d EXCEPT !.policies[n] = 0] ELSE Refused

PutUserPolicy(u, n, size) == PutPolicy(u, n, size)
DeleteUserPolicy(u, n) == DeletePolicy(u, n)
PutRolePolicy(r, n, size) == PutPolicy(r, n, size)
DeleteRolePolicy(r, n) == DeletePolicy(r, n)
UpdateAssumeRolePolicy(r) == [r EXCEPT !.body = "new"]

\* What keeps a user or a role from being deleted.
UserInUse(u) == Policies(u) # {} \/ Keys(u) # {}
RoleInUse(r) == Policies(r) # {}

----------------------------------------------------------------------------
(* Tags *)
mergeTags(d, n) == IF n \in d.tags THEN d
                   ELSE IF Cardinality(d.tags) >= MaxTags THEN Refused
                   ELSE [d EXCEPT !.tags = @ \cup {n}]

removeTags(d, n) == [d EXCEPT !.tags = @ \ {n}]

TagUser(u, n) == mergeTags(u, n)
UntagUser(u, n) == removeTags(u, n)
TagRole(r, n) == mergeTags(r, n)
UntagRole(r, n) == removeTags(r, n)
TagOIDCProvider(p, n) == mergeTags(p, n)
UntagOIDCProvider(p, n) == removeTags(p, n)

----------------------------------------------------------------------------
(* OIDC providers *)

\* A client that is there already, and one that is to be removed and is not,
\* are no errors: the document is written as it is.
AddClientIDToOIDCProvider(p, n) ==
  IF n \in p.clients THEN p
  ELSE IF Cardinality(p.clients) >= MaxClients THEN Refused
  ELSE [p EXCEPT !.clients = @ \cup {n}]

RemoveClientIDFromOIDCProvider(p, n) == [p EXCEPT !.clients = @ \ {n}]

UpdateOIDCProviderThumbprint(p) == [p EXCEPT !.body = "new"]

----------------------------------------------------------------------------
(* The limits that the requests check on their copy. *)
WithinLimits(d) == /\ Cardinality(Keys(d)) <= MaxKeys
                   /\ Cardinality(d.tags) <= MaxTags
                   /\ Cardinality(d.clients) <= MaxClients
                   /\ Cardinality(Bytes(d, Names)) <= MaxBytes

\* How many entries tell two contents apart.
Differences(d, e) ==
  Cardinality({n \in Names : d.keys[n] # e.keys[n]})
  + Cardinality({n \in Names : d.policies[n] # e.policies[n]})
  + Cardinality((d.tags \ e.tags) \cup (e.tags \ d.tags))
  + Cardinality((d.clients \ e.clients) \cup (e.clients \ d.clients))
  + (IF d.body = e.body THEN 0 ELSE 1)
=============================================================================
