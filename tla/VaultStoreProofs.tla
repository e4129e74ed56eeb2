-------------------------- MODULE VaultStoreProofs --------------------------
(***************************************************************************)
(* VaultStore for every set of users, roles, providers, names and gateways *)
(* and every bound: no user is lost, no update of a document overwrites    *)
(* another, who has a key or a session keeps it, and no limit is passed by *)
(* more than the calls that run at once (LInv).  The invariant is in       *)
(* parts (IInv).  Goes says what a step does to its request, Adds, Writes, *)
(* Drops and QuietStep what it does to the documents; the lemmas about one *)
(* part have a case for each of these.                                     *)
(***************************************************************************)
EXTENDS VaultStore, FiniteSetTheorems, TLAPS

----------------------------------------------------------------------------
(* What requests make of a document *)
\* What a request makes of a document changes one key, one policy, one tag, one client
\* or the body.
LEMMA MutateShape ==
  ASSUME NEW r \in CallRecords, NEW d \in Contents, Mutate(r, d) # Refused,
         r.op # "UpdateAccessKey" => r.val = "on"
  PROVE  \/ r.op \notin KeyOps /\ Mutate(r, d) = d
         \/ r.op \in KeyOps /\ Mutate(r, d) = [d EXCEPT !.keys[r.name] =
                                               IF r.op = "DeleteAccessKey" THEN "absent" ELSE r.val]
         \/ r.op \notin KeyOps /\ \E v \in 0..MaxBytes : Mutate(r, d)
              = [d EXCEPT !.policies[r.name] = v]
         \/ r.op \in Named \ KeyOps
              /\ \E T \in {d.tags \cup {r.name}, d.tags \ {r.name}} : Mutate(r, d)
                   = [d EXCEPT !.tags = T]
         \/ r.op \in Named \ KeyOps
              /\ \E T \in {d.clients \cup {r.name}, d.clients \ {r.name}} : Mutate(r, d)
                   = [d EXCEPT !.clients = T]
         \/ r.op \notin KeyOps /\ Mutate(r, d) = [d EXCEPT !.body = "new"]
<1> USE DEF KeyOps, Named
<1>0. MaxBytes \in Nat
  BY VaultAssumption
<1>1. CASE r.op = "CreateAccessKey"
  <2>1. Mutate(r, d) = [d EXCEPT !.keys[r.name] = "on"]
    BY <1>1 DEF Mutate, CreateAccessKey
  <2> QED BY <1>1, <2>1
<1>2. CASE r.op = "UpdateAccessKey"
  BY <1>2 DEF Mutate, UpdateAccessKey
<1>3. CASE r.op = "DeleteAccessKey"
  BY <1>3 DEF Mutate, DeleteAccessKey
<1>4. CASE r.op = "RecordAccessKeyUsage"
  BY <1>4 DEF Mutate, RecordUsage
<1>5. CASE r.op = "PutUserPolicy"
  BY <1>0, <1>5 DEF Mutate, PutUserPolicy, PutPolicy
<1>6. CASE r.op = "DeleteUserPolicy"
  BY <1>0, <1>6 DEF Mutate, DeleteUserPolicy, DeletePolicy
<1>7. CASE r.op = "TagUser"
  BY <1>7 DEF Mutate, TagUser, mergeTags
<1>8. CASE r.op = "UntagUser"
  BY <1>8 DEF Mutate, UntagUser, removeTags
<1>9. CASE r.op = "UpdateUser"
  BY <1>9 DEF Mutate
<1>10. CASE r.op = "UpdateAssumeRolePolicy"
  BY <1>10 DEF Mutate, UpdateAssumeRolePolicy
<1>11. CASE r.op = "PutRolePolicy"
  BY <1>0, <1>11 DEF Mutate, PutRolePolicy, PutPolicy
<1>12. CASE r.op = "DeleteRolePolicy"
  BY <1>0, <1>12 DEF Mutate, DeleteRolePolicy, DeletePolicy
<1>13. CASE r.op = "TagRole"
  BY <1>13 DEF Mutate, TagRole, mergeTags
<1>14. CASE r.op = "UntagRole"
  BY <1>14 DEF Mutate, UntagRole, removeTags
<1>15. CASE r.op = "AddClientID"
  BY <1>15 DEF Mutate, AddClientIDToOIDCProvider
<1>16. CASE r.op = "RemoveClientID"
  BY <1>16 DEF Mutate, RemoveClientIDFromOIDCProvider
<1>17. CASE r.op = "UpdateThumbprint"
  BY <1>17 DEF Mutate, UpdateOIDCProviderThumbprint
<1>18. CASE r.op = "TagProvider"
  BY <1>18 DEF Mutate, TagOIDCProvider, mergeTags
<1>19. CASE r.op = "UntagProvider"
  BY <1>19 DEF Mutate, UntagOIDCProvider, removeTags
<1>20. CASE r.op \notin {"CreateAccessKey", "UpdateAccessKey", "DeleteAccessKey",
              "RecordAccessKeyUsage",
          "PutUserPolicy", "DeleteUserPolicy", "TagUser", "UntagUser", "UpdateUser",
          "UpdateAssumeRolePolicy", "PutRolePolicy", "DeleteRolePolicy", "TagRole", "UntagRole",
          "AddClientID", "RemoveClientID", "UpdateThumbprint", "TagProvider", "UntagProvider"}
  BY <1>20 DEF Mutate
<1> QED
  BY <1>1, <1>2, <1>3, <1>4, <1>5, <1>6, <1>7, <1>8, <1>9, <1>10, <1>11, <1>12, <1>13, <1>14,
     <1>15, <1>16, <1>17, <1>18, <1>19, <1>20

\* It is a document again, and other keys stay as they are.
LEMMA MutateKeeps ==
  ASSUME NEW r \in CallRecords, NEW d \in Contents, Mutate(r, d) # Refused,
         r.op # "UpdateAccessKey" => r.val = "on", r.op \in Named => r.name \in Names
  PROVE  /\ Mutate(r, d) \in Contents
         /\ \A m \in Names : Mutate(r, d).keys[m] =
              IF r.op \in KeyOps /\ m = r.name
              THEN IF r.op = "DeleteAccessKey" THEN "absent" ELSE r.val
              ELSE d.keys[m]
<1>1. r.val \in Statuses /\ (r.op \in KeyOps => r.op \in Named)
  BY DEF CallRecords, KeyOps, Named
<1>2. CASE r.op \in KeyOps
  <2> DEFINE v == IF r.op = "DeleteAccessKey" THEN "absent" ELSE r.val
  <2>1. v \in Statuses \cup {"absent"}
    BY <1>1
  <2>2. Mutate(r, d) = [d EXCEPT !.keys[r.name] = v]
    BY <1>2, MutateShape
  <2> HIDE DEF v
  <2>3. Mutate(r, d) \in Contents
          /\ \A m \in Names : Mutate(r, d).keys[m] = IF m = r.name THEN v ELSE d.keys[m]
    BY <2>1, <2>2 DEF Contents
  <2> QED BY <1>2, <2>3 DEF v
<1>3. CASE r.op \notin KeyOps
  <2>1. ASSUME NEW v \in 0..MaxBytes
        PROVE  [d EXCEPT !.policies[r.name] = v] \in Contents
                 /\ [d EXCEPT !.policies[r.name] = v].keys = d.keys
    BY DEF Contents
  <2>2. ASSUME NEW T, r.name \in Names, T \in {d.tags \cup {r.name}, d.tags \ {r.name}}
        PROVE  [d EXCEPT !.tags = T] \in Contents /\ [d EXCEPT !.tags = T].keys = d.keys
    BY <2>2 DEF Contents
  <2>3. ASSUME NEW T, r.name \in Names, T \in {d.clients \cup {r.name}, d.clients \ {r.name}}
        PROVE  [d EXCEPT !.clients = T] \in Contents /\ [d EXCEPT !.clients = T].keys = d.keys
    BY <2>3 DEF Contents
  <2>4. [d EXCEPT !.body = "new"] \in Contents /\ [d EXCEPT !.body = "new"].keys = d.keys
    BY DEF Contents
  <2>6. Mutate(r, d) \in Contents /\ Mutate(r, d).keys = d.keys
    <3>1. \/ Mutate(r, d) = d
          \/ \E v \in 0..MaxBytes : Mutate(r, d) = [d EXCEPT !.policies[r.name] = v]
          \/ r.name \in Names /\ \E T \in {d.tags \cup {r.name}, d.tags \ {r.name}} : Mutate(r, d)
               = [d EXCEPT !.tags = T]
          \/ r.name \in Names /\ \E T \in {d.clients \cup {r.name},
               d.clients \ {r.name}} : Mutate(r,
               d) = [d EXCEPT !.clients = T]
          \/ Mutate(r, d) = [d EXCEPT !.body = "new"]
      BY <1>3, MutateShape
    <3>2. CASE \E v \in 0..MaxBytes : Mutate(r, d) = [d EXCEPT !.policies[r.name] = v]
      BY <2>1, <3>2
    <3>3. CASE /\ r.name \in Names
               /\ \E T \in {d.tags \cup {r.name}, d.tags \ {r.name}} : Mutate(r, d)
                    = [d EXCEPT !.tags = T]
      BY <2>2, <3>3
    <3>4. CASE /\ r.name \in Names
               /\ \E T \in {d.clients \cup {r.name}, d.clients \ {r.name}} : Mutate(r, d)
                    = [d EXCEPT !.clients = T]
      BY <2>3, <3>4
    <3> QED BY <2>4, <3>1, <3>2, <3>3, <3>4
  <2> QED BY <1>3, <2>6
<1> QED BY <1>2, <1>3

\* It differs in one entry at most.
LEMMA OneDifference ==
  ASSUME NEW r \in CallRecords, NEW d \in Contents, Mutate(r, d) # Refused,
         r.op # "UpdateAccessKey" => r.val = "on"
  PROVE  Differences(d, Mutate(r, d)) <= 1
<1> DEFINE e == Mutate(r, d)
           K == {n \in Names : d.keys[n] # e.keys[n]}
           P == {n \in Names : d.policies[n] # e.policies[n]}
           T == (d.tags \ e.tags) \cup (e.tags \ d.tags)
           C == (d.clients \ e.clients) \cup (e.clients \ d.clients)
<1>1. ASSUME NEW S, NEW x, S \subseteq {x} PROVE Cardinality(S) \in {0, 1}
  <2>1. S = {} \/ S = {x}
    BY <1>1
  <2> QED BY <2>1, FS_EmptySet, FS_Singleton
<1>2. Cardinality({}) = 0
  BY FS_EmptySet
<1>3. \/ K = {} /\ P = {} /\ T = {} /\ C = {}
      \/ K \subseteq {r.name} /\ P = {} /\ T = {} /\ C = {} /\ d.body = e.body
      \/ P \subseteq {r.name} /\ K = {} /\ T = {} /\ C = {} /\ d.body = e.body
      \/ T \subseteq {r.name} /\ K = {} /\ P = {} /\ C = {} /\ d.body = e.body
      \/ C \subseteq {r.name} /\ K = {} /\ P = {} /\ T = {} /\ d.body = e.body
  <2>1. CASE e = d
    BY <2>1
  <2>2. ASSUME NEW v, e = [d EXCEPT !.keys[r.name] = v]
        PROVE K \subseteq {r.name} /\ P = {} /\ T = {} /\ C = {} /\ d.body = e.body
    BY <2>2 DEF Contents
  <2>3. ASSUME NEW v, e = [d EXCEPT !.policies[r.name] = v]
        PROVE P \subseteq {r.name} /\ K = {} /\ T = {} /\ C = {} /\ d.body = e.body
    BY <2>3 DEF Contents
  <2>4. ASSUME NEW S \in {d.tags \cup {r.name}, d.tags \ {r.name}}, e = [d EXCEPT !.tags = S]
        PROVE T \subseteq {r.name} /\ K = {} /\ P = {} /\ C = {} /\ d.body = e.body
    BY <2>4 DEF Contents
  <2>5. ASSUME NEW S \in {d.clients \cup {r.name}, d.clients \ {r.name}}, e
                 = [d EXCEPT !.clients = S]
        PROVE C \subseteq {r.name} /\ K = {} /\ P = {} /\ T = {} /\ d.body = e.body
    BY <2>5 DEF Contents
  <2>6. CASE e = [d EXCEPT !.body = "new"]
    BY <2>6 DEF Contents
  <2> HIDE DEF e, K, P, T, C
  <2>7. \/ e = d
        \/ \E v : e = [d EXCEPT !.keys[r.name] = v]
        \/ \E v : e = [d EXCEPT !.policies[r.name] = v]
        \/ \E S \in {d.tags \cup {r.name}, d.tags \ {r.name}} : e = [d EXCEPT !.tags = S]
        \/ \E S \in {d.clients \cup {r.name}, d.clients \ {r.name}} : e = [d EXCEPT !.clients = S]
        \/ e = [d EXCEPT !.body = "new"]
    BY MutateShape DEF e
  <2> QED BY <2>1, <2>2, <2>3, <2>4, <2>5, <2>6, <2>7
<1>4. Differences(d, e) = Cardinality(K) + Cardinality(P) + Cardinality(T) + Cardinality(C)
                          + (IF d.body = e.body THEN 0 ELSE 1)
  BY DEF Differences
<1> HIDE DEF e, K, P, T, C
<1>5. Differences(d, e) <= 1
  BY <1>1, <1>2, <1>3, <1>4
<1> QED BY <1>5 DEF e

\* It depends on what was asked for, not on how far the request has come.
LEMMA MutateSame ==
  ASSUME NEW r, NEW s, NEW d, r.op = s.op, r.name = s.name, r.val = s.val
  PROVE  Mutate(r, d) = Mutate(s, d)
BY DEF Mutate

----------------------------------------------------------------------------
(* Requests *)
\* What the record of a request may become: it keeps the copy it has read, drops it, or
\* reads the document that is there now.
Follows(c, r) ==
  /\ r.pc = "removeOld" => call[c].pc \in {"create", "removeOld"}
  /\ \/ r.doc = NoDoc
     \/ r.op = "CreateProvider" /\ (r.doc = call[c].doc \/ r.doc.uid = requests')
     \/ /\ r.op = call[c].op /\ r.path = Path(c) /\ call[c].op # "CreateProvider"
        /\ \/ r.doc = call[c].doc
           \/ r.doc = Doc(c) /\ Path(c) \in Stored /\ Path(c) \in Paths

\* A step of request c.
Goes(c) == \E r \in CallRecords : Fits(r) /\ Follows(c, r) /\ call' = [call EXCEPT ![c] = r]

\* r is request c at another step, with path p and copy d.
Becomes(c, r, pc, p, d) == /\ r \in CallRecords /\ r.pc = pc /\ r.op = call[c].op /\ r.path = p
                           /\ r.to = call[c].to /\ r.name = call[c].name /\ r.val = call[c].val
                                /\ r.doc = d

\* No request is one that fits.
LEMMA NoCallFits == NoCall \in CallRecords /\ Fits(NoCall) /\ NoCall.doc = NoDoc
    /\ NoCall.pc = "idle"
BY VaultAssumption DEF NoCall, CallRecords, Fits, KeyOps, Named, Searches, Listings, Statuses

\* A request ends.
LEMMA Returns == ASSUME NEW c \in Calls, Return(c) PROVE Goes(c)
BY NoCallFits DEF Return, Goes, Follows

\* The types of a request and of its copy.
LEMMA CallTyped ==
  ASSUME TypeOK, NEW c \in Calls PROVE call[c] \in CallRecords /\ call[c].doc \in Docs \cup {NoDoc}
BY DEF TypeOK, CallRecords

\* A request that begins fits what it was asked for.
LEMMA BeginsFit ==
  ASSUME TypeOK, NEW c \in Calls,
         \/ \E p \in Paths : Ask(c, p)
         \/ \E p \in Providers : CreateOIDCProvider(c, p)
         \/ \E x \in Renames : RenameUser(c, x[1], x[2])
         \/ \E n \in Names : Search(c, n)
         \/ ListAll(c)
  PROVE  Goes(c) /\ \E r : Begin(c, r) /\ r # NoCall
<1> USE VaultAssumption, NoDocAssumption
<1>0. NoCall \in CallRecords /\ requests \in Nat
  BY NoCallFits DEF TypeOK
<1>1. ASSUME NEW p \in Paths, Ask(c, p) PROVE Goes(c) /\ \E r : Begin(c, r) /\ r # NoCall
  <2>1. PICK op \in IF p \in Users THEN UserOps ELSE IF p \in Roles THEN RoleOps ELSE ProviderOps :
        \E n \in IF op \in Named THEN Names ELSE {NoDoc}, v \in IF op = "UpdateAccessKey"
            THEN Statuses ELSE {"on"} :
          Begin(c, [NoCall EXCEPT !.op = op, !.pc = "read", !.path = p, !.name = n, !.val = v])
    BY <1>1 DEF Ask
  <2>2. PICK n \in IF op \in Named THEN Names ELSE {NoDoc}, v \in IF op = "UpdateAccessKey"
               THEN Statuses ELSE {"on"} :
          Begin(c, [NoCall EXCEPT !.op = op, !.pc = "read", !.path = p, !.name = n, !.val = v])
    BY <2>1
  <2> DEFINE r == [NoCall EXCEPT !.op = op, !.pc = "read", !.path = p, !.name = n, !.val = v]
  <2>3. op \in Ops /\ n \in Names \cup {NoDoc} /\ v \in Statuses /\ (op \in Named
          => n \in Names) /\ (op # "UpdateAccessKey" => v = "on")
    BY <2>1, <2>2 DEF Ops, Statuses
  <2>4. r \in CallRecords
    BY <2>3, <1>0 DEF CallRecords
  <2>5. op \notin Searches \cup Listings \cup {"RenameUser", "CreateProvider"} /\ (op \in KeyOps
          => p \in Users)
    BY <2>1 DEF UserOps, RoleOps, ProviderOps, KeyOps, Searches, Listings
  <2>6. r.op = op /\ r.pc = "read" /\ r.path = p /\ r.doc = NoDoc /\ r.name = n /\ r.val = v
          /\ r # NoCall
    BY DEF NoCall
  <2> HIDE DEF r
  <2>7. Fits(r) /\ Follows(c, r)
    BY <2>3, <2>5, <2>6 DEF Fits, Follows
  <2>8. Begin(c, r)
    BY <2>2 DEF r
  <2>9. call' = [call EXCEPT ![c] = r]
    BY <2>8 DEF Begin, Start
  <2> QED BY <2>4, <2>6, <2>7, <2>8, <2>9 DEF Goes
<1>2. ASSUME NEW p \in Providers, CreateOIDCProvider(c, p)
      PROVE Goes(c) /\ \E r : Begin(c, r) /\ r # NoCall
  <2> DEFINE r == [NoCall EXCEPT !.op = "CreateProvider", !.pc = "list", !.path = p, !.doc = NewDoc]
  <2>1. NewDoc \in Docs /\ NewDoc # NoDoc /\ NewDoc.uid = requests + 1
    <3>1. Empty \in Contents
      BY DEF Empty, Contents
    <3> QED BY <1>0, <3>1 DEF NewDoc, Docs
  <2>4. r \in CallRecords
    BY <1>0, <2>1 DEF CallRecords, Ops, Paths
  <2>6. r.op = "CreateProvider" /\ r.pc = "list" /\ r.path = p /\ r.doc = NewDoc /\ r.val = "on"
          /\ r # NoCall
    BY DEF NoCall
  <2> HIDE DEF r
  <2>8. Begin(c, r)
    BY <1>2 DEF CreateOIDCProvider, r
  <2>9. call' = [call EXCEPT ![c] = r] /\ requests' = requests + 1
    BY <2>8 DEF Begin, Start
  <2>7. Fits(r) /\ Follows(c, r)
    BY <2>1, <2>6, <2>9 DEF Fits, Follows, Searches, Listings, KeyOps, Named
  <2> QED BY <2>4, <2>6, <2>7, <2>8, <2>9 DEF Goes
<1>3. ASSUME NEW x \in Renames, RenameUser(c, x[1], x[2])
      PROVE Goes(c) /\ \E r : Begin(c, r) /\ r # NoCall
  <2> DEFINE r == [NoCall EXCEPT !.op = "RenameUser", !.pc = "read", !.path = x[1], !.to = x[2]]
  <2>1. x[1] \in Users /\ x[2] \in Users
    OBVIOUS
  <2>4. r \in CallRecords
    BY <1>0, <2>1 DEF CallRecords, Ops, Paths
  <2>6. r.op = "RenameUser" /\ r.pc = "read" /\ r.path = x[1] /\ r.to = x[2] /\ r.doc = NoDoc
          /\ r.val = "on" /\ r # NoCall
    BY DEF NoCall
  <2> HIDE DEF r
  <2>8. Begin(c, r)
    BY <1>3 DEF RenameUser, r
  <2>9. call' = [call EXCEPT ![c] = r]
    BY <2>8 DEF Begin, Start
  <2>7. Fits(r) /\ Follows(c, r)
    BY <2>1, <2>6 DEF Fits, Follows, Searches, Listings, KeyOps, Named, Paths
  <2> QED BY <2>4, <2>6, <2>7, <2>8, <2>9 DEF Goes
<1>4. ASSUME NEW r \in CallRecords, Begin(c, r), r.pc = "list", r.doc = NoDoc, r.val = "on",
             (r.op \in Searches /\ r.name \in Names) \/ (r.op \in Listings /\ r.name = NoDoc)
      PROVE Goes(c) /\ \E s : Begin(c, s) /\ s # NoCall
  <2>1. call' = [call EXCEPT ![c] = r]
    BY <1>4 DEF Begin, Start
  <2>2. Fits(r) /\ Follows(c, r)
    BY <1>4 DEF Fits, Follows, Searches, Listings, KeyOps, Named
  <2> QED BY <1>4, <2>1, <2>2, NoCallFits DEF Goes
<1>5. ASSUME NEW n \in Names, Search(c, n) PROVE Goes(c) /\ \E r : Begin(c, r) /\ r # NoCall
  <2>1. PICK op \in Searches : Begin(c, [NoCall EXCEPT !.op = op, !.pc = "list", !.name = n])
    BY <1>5 DEF Search
  <2> DEFINE r == [NoCall EXCEPT !.op = op, !.pc = "list", !.name = n]
  <2>2. r \in CallRecords
    BY <1>0 DEF CallRecords, Ops
  <2>3. r.op = op /\ r.pc = "list" /\ r.name = n /\ r.doc = NoDoc /\ r.val = "on"
    BY DEF NoCall
  <2> HIDE DEF r
  <2>4. Begin(c, r)
    BY <2>1 DEF r
  <2>5. r.op \in Searches /\ r.name \in Names
    BY <2>3
  <2> QED BY <1>4, <2>2, <2>3, <2>4, <2>5
<1>6. CASE ListAll(c)
  <2>1. PICK op \in Listings : Begin(c, [NoCall EXCEPT !.op = op, !.pc = "list"])
    BY <1>6 DEF ListAll
  <2> DEFINE r == [NoCall EXCEPT !.op = op, !.pc = "list"]
  <2>2. r \in CallRecords
    BY <1>0 DEF CallRecords, Ops
  <2>3. r.op = op /\ r.pc = "list" /\ r.name = NoDoc /\ r.doc = NoDoc /\ r.val = "on"
    BY DEF NoCall
  <2> HIDE DEF r
  <2>4. Begin(c, r)
    BY <2>1 DEF r
  <2>5. r.op \in Listings /\ r.name = NoDoc
    BY <2>3
  <2> QED BY <1>4, <2>2, <2>3, <2>4, <2>5
<1> QED BY <1>1, <1>2, <1>3, <1>5, <1>6

\* Every step of a request leads to one that fits: a CAS loop comes back to its read, and
\* what it writes is never Refused.
LEMMA StepsGo ==
  ASSUME TypeOK, CallsFit, NEW c \in Calls,
         Step(c) \/ RemoveOldFails(c) \/ Fails(c)
  PROVE  Goes(c)
<1> USE VaultAssumption, NoDocAssumption
<1>a. call[c] \in CallRecords /\ Fits(call[c]) /\ docs \in [Paths -> Docs \cup {NoDoc}]
  BY CallTyped DEF TypeOK, CallsFit
<1>b. ASSUME Retry(c), call[c].pc \in {"write", "confirm"} PROVE Goes(c)
  <2>1. CASE call[c].tries + 1 < MaxCASRetries
    <3> DEFINE r == [call[c] EXCEPT !.pc = "read", !.tries = @ + 1]
    <3>1. call' = [call EXCEPT ![c] = r]
      BY <1>b, <2>1 DEF Retry, TypeOK
    <3>0. call[c].tries + 1 \in 0..MaxCASRetries - 1
      BY <1>a, <2>1 DEF CallRecords
    <3>2. Becomes(c, r, "read", Path(c), call[c].doc)
      BY <1>a, <3>0 DEF CallRecords, Path, Becomes
    <3> HIDE DEF r
    <3>3. Fits(r)
      BY <1>a, <1>b, <3>2 DEF Fits, Path, Becomes
    <3>4. Follows(c, r)
      BY <1>a, <1>b, <3>2 DEF Follows, Fits, Becomes
    <3> QED BY <3>1, <3>2, <3>3, <3>4 DEF Goes, Becomes
  <2> QED BY <1>b, <2>1, Returns DEF Retry
<1>c. ASSUME NEW pc \in {"remove", "create", "removeOld"}, Goto(c, pc),
             \/ call[c].pc = "confirm" /\ pc = "remove"
             \/ call[c].pc \in {"check", "list"} /\ pc = "create"
                  /\ call[c].op \in {"RenameUser", "CreateProvider"}
      PROVE Goes(c)
    <3> DEFINE r == [call[c] EXCEPT !.pc = pc]
    <3>1. call' = [call EXCEPT ![c] = r]
      BY <1>c DEF Goto, TypeOK
    <3>2. Becomes(c, r, pc, Path(c), call[c].doc)
      BY <1>a DEF CallRecords, Path, Becomes
    <3> HIDE DEF r
    <3>3. Fits(r)
      BY <1>a, <1>c, <3>2 DEF Fits, Path, Becomes
    <3>4. Follows(c, r)
      BY <1>a, <1>c, <3>2 DEF Follows, Fits, Becomes
    <3> QED BY <3>1, <3>2, <3>3, <3>4 DEF Goes, Becomes
<1>1. CASE Read(c)
  <2>0. Path(c) \in Paths
    BY <1>1, <1>a DEF Read, At, Fits, Path
  <2>1. CASE Doc(c) = NoDoc \/ AfterRead(c, Doc(c).data) = "idle"
    BY <1>1, <2>1, Returns DEF Read
  <2>2. CASE ~(Doc(c) = NoDoc \/ AfterRead(c, Doc(c).data) = "idle")
    <3> DEFINE pc == AfterRead(c, Doc(c).data)
               r == [call[c] EXCEPT !.doc = Doc(c), !.pc = pc]
    <3>1. call' = [call EXCEPT ![c] = r]
      BY <1>1, <2>2 DEF Read, TypeOK
    <3>2. pc \in {"confirm", "remove", "check", "write"}
            /\ (pc = "check" <=> call[c].op = "RenameUser")
          /\ (pc = "write" => Mutate(call[c], Doc(c).data) # Refused)
      BY <2>2 DEF AfterRead
    <3>3. Doc(c) \in Docs /\ Path(c) \in Stored
      BY <1>a, <2>0, <2>2 DEF Doc, Stored
    <3> HIDE DEF pc
    <3>4. Becomes(c, r, pc, Path(c), Doc(c))
      BY <1>a, <3>2, <3>3 DEF CallRecords, Path, Becomes
    <3> HIDE DEF r
    <3>5. Mutate(r, r.doc.data) = Mutate(call[c], Doc(c).data)
      BY <3>4, MutateSame DEF Becomes
    <3>6. call[c].pc = "read"
      BY <1>1 DEF Read, At
    <3>7. Fits(r)
      BY <1>a, <2>0, <2>2, <3>2, <3>4, <3>5, <3>6 DEF Fits, Path, Becomes
    <3>8. Follows(c, r)
      BY <1>a, <2>0, <3>2, <3>3, <3>4, <3>6 DEF Follows, Fits, Becomes
    <3> QED BY <3>1, <3>4, <3>7, <3>8 DEF Goes, Becomes
  <2> QED BY <2>1, <2>2
<1>2. CASE Replace(c)
  BY <1>2, <1>b, Returns DEF Replace, At
<1>3. CASE Confirm(c)
  <2>1. call[c].pc = "confirm" /\ (Goto(c, "remove") \/ Retry(c))
    BY <1>3 DEF Confirm, At
  <2>2. CASE Goto(c, "remove")
    BY <1>c, <2>1, <2>2
  <2> QED BY <1>b, <2>1, <2>2
<1>4. CASE Remove(c) \/ RemoveOld(c) \/ WriteProvider(c) \/ Fails(c)
  BY <1>4, Returns DEF Remove, RemoveOld, WriteProvider, Fails
<1>5. CASE CheckName(c)
  BY <1>5, <1>a, <1>c, Returns DEF CheckName, At, Fits
<1>6. CASE CountProviders(c)
  BY <1>6, <1>c, Returns DEF CountProviders, At
<1>7. CASE CreateNew(c) \/ RemoveOldFails(c)
  <2>1. ASSUME NEW t \in 0..MaxCASRetries - 1, call' = [call EXCEPT ![c]
                 = [call[c] EXCEPT !.pc = "removeOld", !.tries = t]],
               call[c].pc \in {"create", "removeOld"}, call[c].op = "RenameUser"
        PROVE  Goes(c)
    <3> DEFINE r == [call[c] EXCEPT !.pc = "removeOld", !.tries = t]
    <3>2. Becomes(c, r, "removeOld", Path(c), call[c].doc)
      BY <1>a DEF CallRecords, Path, Becomes
    <3>1. call' = [call EXCEPT ![c] = r]
      BY <2>1
    <3> HIDE DEF r
    <3>3. Fits(r)
      BY <1>a, <2>1, <3>2 DEF Fits, Path, Becomes
    <3>4. Follows(c, r)
      BY <1>a, <2>1, <3>2 DEF Follows, Fits, Becomes
    <3> QED BY <3>1, <3>2, <3>3, <3>4 DEF Goes, Becomes
  <2>2. CASE CreateNew(c)
    <3>1. CASE docs[call[c].to] = NoDoc
      <4>1. call' = [call EXCEPT ![c].pc = "removeOld", ![c].tries = 0]
        BY <2>2, <3>1 DEF CreateNew
      <4>2. call' = [call EXCEPT ![c] = [call[c] EXCEPT !.pc = "removeOld", !.tries = 0]]
        BY <4>1 DEF TypeOK
      <4>3. 0 \in 0..MaxCASRetries - 1
        OBVIOUS
      <4>4. call[c].pc = "create" /\ call[c].op = "RenameUser"
        BY <2>2 DEF CreateNew, At
      <4> QED BY <2>1, <4>2, <4>3, <4>4
    <3> QED BY <2>2, <3>1, Returns DEF CreateNew
  <2>3. CASE RemoveOldFails(c)
    <3>1. CASE call[c].tries + 1 < MaxCASRetries
      <4>1. call' = [call EXCEPT ![c].tries = @ + 1] /\ call[c].pc = "removeOld"
        BY <2>3, <3>1 DEF RemoveOldFails, At
      <4>2. call' = [call EXCEPT ![c]
              = [call[c] EXCEPT !.pc = "removeOld", !.tries = call[c].tries + 1]]
        <5>1. [call[c] EXCEPT !.pc = "removeOld", !.tries = call[c].tries + 1]
                = [call[c] EXCEPT !.tries = @ + 1]
          BY <1>a, <4>1 DEF CallRecords
        <5> QED BY <4>1, <5>1 DEF TypeOK
      <4>3. call[c].tries + 1 \in 0..MaxCASRetries - 1
        BY <1>a, <3>1 DEF CallRecords
      <4> QED BY <1>a, <2>1, <4>1, <4>2, <4>3 DEF Fits
    <3> QED BY <2>3, <3>1, Returns DEF RemoveOldFails
  <2> QED BY <1>7, <2>2, <2>3
<1>8. CASE List(c)
  <2> DEFINE found == Stored \cap Scanned(call[c].op)
             r == [call[c] EXCEPT !.pc = "look", !.todo = found]
  <2>1. (IF found = {} THEN Return(c)
          ELSE call' = [call EXCEPT ![c].pc = "look", ![c].todo = found])
          /\ call[c].pc = "list" /\ call[c].op # "CreateProvider"
    BY <1>8 DEF List, At
  <2>2. found \subseteq Paths
    BY DEF Stored
  <2> HIDE DEF found
  <2>3. CASE found # {}
    <3>1. call' = [call EXCEPT ![c] = r]
      BY <2>1, <2>3 DEF TypeOK
    <3>2. Becomes(c, r, "look", Path(c), call[c].doc)
      BY <1>a, <2>2 DEF CallRecords, Path, Becomes
    <3> HIDE DEF r
    <3>3. Fits(r) /\ r.doc = NoDoc
      BY <1>a, <2>1, <3>2 DEF Fits, Path, Becomes
    <3> QED BY <3>1, <3>2, <3>3 DEF Goes, Follows, Becomes
  <2> QED BY <2>1, <2>3, Returns
<1>9. ASSUME NEW p \in Paths, Visit(c, p) PROVE Goes(c)
  <2>1. call[c].pc = "look" /\ call[c].op \in Searches \cup Listings /\ call[c].doc = NoDoc
    BY <1>9, <1>a DEF Visit, At, Fits, Searches, Listings
  <2>2. \/ call' = [call EXCEPT ![c] = [call[c] EXCEPT !.todo = call[c].todo \ {p}]]
        \/ call[c].op = "RecordAccessKeyUsage"
             /\ call' = [call EXCEPT ![c] = [call[c] EXCEPT !.pc = "read", !.path = p, !.todo = {}]]
        \/ Return(c)
    BY <1>9 DEF Visit, Return
  <2>3. CASE call' = [call EXCEPT ![c] = [call[c] EXCEPT !.todo = call[c].todo \ {p}]]
    <3> DEFINE r == [call[c] EXCEPT !.todo = call[c].todo \ {p}]
    <3>2. Becomes(c, r, "look", Path(c), call[c].doc)
      BY <1>a, <2>1 DEF CallRecords, Path, Becomes
    <3>1. call' = [call EXCEPT ![c] = r]
      BY <2>3
    <3> HIDE DEF r
    <3>3. Fits(r) /\ r.doc = NoDoc
      BY <1>a, <2>1, <3>2 DEF Fits, Path, Becomes
    <3> QED BY <3>1, <3>2, <3>3 DEF Goes, Follows, Becomes
  <2>4. CASE call[c].op = "RecordAccessKeyUsage"
               /\ call' = [call EXCEPT ![c]
                    = [call[c] EXCEPT !.pc = "read", !.path = p, !.todo = {}]]
    <3> DEFINE r == [call[c] EXCEPT !.pc = "read", !.path = p, !.todo = {}]
    <3>2. Becomes(c, r, "read", p, call[c].doc)
      BY <1>a, <2>1 DEF CallRecords, Path, Becomes
    <3>1. call' = [call EXCEPT ![c] = r]
      BY <2>4
    <3> HIDE DEF r
    <3>3. Fits(r) /\ r.doc = NoDoc
      BY <1>a, <2>1, <2>4, <3>2 DEF Fits, KeyOps, Becomes
    <3> QED BY <3>1, <3>2, <3>3 DEF Goes, Follows, Becomes
  <2> QED BY <2>2, <2>3, <2>4, Returns
<1> QED BY <1>1, <1>2, <1>3, <1>4, <1>5, <1>6, <1>7, <1>8, <1>9 DEF Step

\* Requests other than CreateUser and CreateRole.
Begins(c) == \/ \E p \in Paths : Ask(c, p)
             \/ \E p \in Providers : CreateOIDCProvider(c, p)
             \/ \E x \in Renames : RenameUser(c, x[1], x[2])
             \/ \E n \in Names : Search(c, n)
             \/ ListAll(c)

\* Nothing of the documents and of the ghost variables changes.
Quiet == UNCHANGED <<docs, used, reused, existing, settled, stale, kept, missed>>

\* The requests for sessions concern sessions only.
LEMMA SessionStep ==
  ASSUME TypeOK, SessionsFit, (\E c \in Calls : Session(c)) \/ (\E s \in Sessions : Expire(s))
           \/ UNCHANGED vars
  PROVE  /\ Quiet /\ call' = call
         /\ requests' \in 0..MaxRequests /\ requests' >= requests
         /\ faults' \in 0..MaxFaults
         /\ sess' \in [Sessions -> {"none", "meta", "live", "expired"}]
         /\ scall' \in [Calls -> SessionRecords]
         /\ granted' \subseteq Sessions
<1> USE VaultAssumption DEF TypeOK, Quiet, OnlySessions, ghosts
<1>0. NoSession \in SessionRecords
  BY DEF NoSession, SessionRecords
<1>1. ASSUME NEW c \in Calls, NEW r \in SessionRecords, SStart(c, r)
      PROVE Quiet /\ call' = call /\ requests' = requests + 1 /\ requests' <= MaxRequests
              /\ faults' = faults
            /\ sess' = sess /\ granted' = granted /\ scall' \in [Calls -> SessionRecords]
  BY <1>1 DEF SStart
<1>2. ASSUME NEW c \in Calls, NEW s \in Sessions, CreateSession(c, s)
      PROVE Quiet /\ call' = call /\ requests' = requests + 1 /\ requests' <= MaxRequests
              /\ faults' = faults
            /\ sess' = sess /\ granted' = granted /\ scall' \in [Calls -> SessionRecords]
  <2>1. [NoSession EXCEPT !.pc = "list", !.id = s, !.new = TRUE] \in SessionRecords
    BY <1>0 DEF SessionRecords
  <2> QED BY <1>1, <1>2, <2>1 DEF CreateSession
<1>3. ASSUME NEW c \in Calls, NEW s \in Sessions, GetSession(c, s)
      PROVE Quiet /\ call' = call /\ requests' = requests + 1 /\ requests' <= MaxRequests
              /\ faults' = faults
            /\ sess' = sess /\ granted' = granted /\ scall' \in [Calls -> SessionRecords]
  <2>1. [NoSession EXCEPT !.pc = "look", !.id = s, !.todo = {s}] \in SessionRecords
    BY <1>0 DEF SessionRecords
  <2> QED BY <1>1, <1>3, <2>1 DEF GetSession
<1>4. ASSUME NEW c \in Calls, NEW s \in Sessions, Look(c, s)
      PROVE Quiet /\ call' = call /\ requests' = requests /\ faults' = faults
            /\ sess' = sess /\ granted' = granted /\ scall' \in [Calls -> SessionRecords]
  <2>1. [scall[c] EXCEPT !.todo = @ \ {s}, !.n = @ + 1] \in SessionRecords
    <3>1. scall[c] \in SessionRecords
      OBVIOUS
    <3>2. scall[c].n + 1 \in Nat
      BY <3>1 DEF SessionRecords
    <3> QED BY <3>1, <3>2 DEF SessionRecords
  <2>2. [scall[c] EXCEPT !.pc = "purge", !.victim = s] \in SessionRecords
    BY DEF SessionRecords
  <2> QED BY <1>4, <2>1, <2>2 DEF Look
<1>5. ASSUME NEW c \in Calls, ListSessions(c)
      PROVE Quiet /\ call' = call /\ requests' = requests /\ faults' = faults
            /\ sess' = sess /\ granted' = granted /\ scall' \in [Calls -> SessionRecords]
  <2>1. [scall[c] EXCEPT !.pc = "look",
          !.todo = {s \in Sessions : sess[s] # "none"}] \in SessionRecords
    BY DEF SessionRecords
  <2> QED BY <1>5, <2>1 DEF ListSessions
<1>6. ASSUME NEW c \in Calls, PurgeSession(c)
      PROVE Quiet /\ call' = call /\ requests' = requests /\ faults' = faults
            /\ sess' \in [Sessions -> {"none", "meta", "live", "expired"}] /\ granted' = granted
                 /\ scall' \in [Calls -> SessionRecords]
  <2>1. [scall[c] EXCEPT !.pc = "look", !.todo = @ \ {scall[c].victim},
          !.victim = NoDoc] \in SessionRecords
    BY DEF SessionRecords
  <2> QED BY <1>6, <2>1 DEF PurgeSession
<1>7. ASSUME NEW c \in Calls, Counted(c)
      PROVE Quiet /\ call' = call /\ requests' = requests /\ faults' = faults
            /\ sess' = sess /\ granted' = granted /\ scall' \in [Calls -> SessionRecords]
  BY <1>7, <1>0 DEF Counted, SGoto, SReturn, SessionRecords
<1>8. ASSUME NEW c \in Calls, SetTTL(c)
      PROVE Quiet /\ call' = call /\ requests' = requests /\ faults' = faults
            /\ sess' \in [Sessions -> {"none", "meta", "live", "expired"}] /\ granted' = granted
                 /\ scall' \in [Calls -> SessionRecords]
  <2>1. [scall[c] EXCEPT !.pc = "write"] \in SessionRecords
    BY DEF SessionRecords
  <2> QED BY <1>8, <2>1 DEF SetTTL, SGoto
<1>9. ASSUME NEW c \in Calls, WriteSession(c)
      PROVE Quiet /\ call' = call /\ requests' = requests /\ faults' = faults
            /\ sess' \in [Sessions -> {"none", "meta", "live", "expired"}]
                 /\ granted' \subseteq Sessions /\ scall' \in [Calls -> SessionRecords]
  <2>1. scall[c].id \in Sessions
    BY <1>9 DEF WriteSession, SessionsFit
  <2> QED BY <1>9, <1>0, <2>1 DEF WriteSession, SReturn
<1>10. ASSUME NEW c \in Calls, SessionFails(c)
      PROVE Quiet /\ call' = call /\ requests' = requests /\ faults' = faults + 1
              /\ faults' <= MaxFaults
            /\ sess' = sess /\ granted' = granted /\ scall' \in [Calls -> SessionRecords]
  BY <1>10, <1>0 DEF SessionFails, SReturn
<1>11. ASSUME NEW s \in Sessions, Expire(s)
      PROVE Quiet /\ call' = call /\ requests' = requests /\ faults' = faults
            /\ sess' \in [Sessions -> {"none", "meta", "live", "expired"}]
                 /\ granted' \subseteq Sessions /\ scall' = scall
  BY <1>11 DEF Expire
<1>12. CASE UNCHANGED vars
  BY <1>12 DEF vars
<1> HIDE DEF Quiet
<1>13. requests + 1 \in Nat /\ faults + 1 \in Nat
  OBVIOUS
<1> QED BY <1>2, <1>3, <1>4, <1>5, <1>6, <1>7, <1>8, <1>9, <1>10, <1>11, <1>12, <1>13 DEF Session

\* A step of a request preserves CallsFit.
LEMMA CallNext ==
  ASSUME TypeOK, CallsFit, NEW c \in Calls, Goes(c)
  PROVE  call' \in [Calls -> CallRecords] /\ CallsFit'
BY DEF Goes, TypeOK, CallsFit

\* Every step preserves the type invariant and CallsFit.
LEMMA TypeNext ==
  ASSUME TypeOK, CallsFit, SessionsFit, [Next]_vars
  PROVE  TypeOK' /\ CallsFit'
<1> USE VaultAssumption, NoDocAssumption
<1>0. Empty \in Contents
  BY DEF Empty, Contents
<1>1. ASSUME NEW c \in Calls, Begins(c) PROVE TypeOK' /\ CallsFit'
  <2>1. Goes(c) /\ \E r : Begin(c, r) /\ r # NoCall
    BY <1>1, BeginsFit DEF Begins
  <2>2. call' \in [Calls -> CallRecords] /\ CallsFit'
    BY <2>1, CallNext
  <2> QED BY <2>1, <2>2 DEF TypeOK, Begin, Start, kv, ghosts
<1>2. ASSUME NEW c \in Calls, NEW p \in Paths, Create(c, p) PROVE TypeOK' /\ CallsFit'
  <2>1. CallsFit'
    BY <1>2 DEF Create, CallsFit
  <2>2. NewDoc \in Docs
    BY <1>0 DEF TypeOK, NewDoc, Docs
  <2> QED BY <1>2, <2>1, <2>2 DEF TypeOK, Create, Put, Use
<1>3. CASE (\E c \in Calls : Session(c)) \/ (\E s \in Sessions : Expire(s)) \/ UNCHANGED vars
  <2>1. CallsFit'
    BY <1>3, SessionStep DEF CallsFit
  <2> QED BY <1>3, <2>1, SessionStep DEF TypeOK, Quiet
<1>4. ASSUME NEW c \in Calls, Step(c) \/ RemoveOldFails(c) \/ Fails(c) PROVE TypeOK' /\ CallsFit'
  <2>a. call' \in [Calls -> CallRecords] /\ CallsFit'
    BY <1>4, CallNext, StepsGo
  <2>b. call[c] \in CallRecords /\ Fits(call[c])
    BY CallTyped DEF CallsFit
  <2>c. call[c].doc # NoDoc => call[c].doc \in Docs
    BY <2>b DEF CallRecords
  <2>1. CASE Read(c)
    BY <2>1, <2>a DEF TypeOK, Read, kv, ghosts
  <2>2. CASE Replace(c)
    <3>1. CASE Unchanged(c)
      <4> DEFINE d == [call[c].doc EXCEPT !.data = Mutate(call[c], @)]
      <4>1. call[c].doc \in Docs /\ Mutate(call[c], call[c].doc.data) # Refused
            /\ (call[c].op # "UpdateAccessKey" => call[c].val = "on") /\ (call[c].op \in Named
                 => call[c].name \in Names)
        BY <2>2, <2>b, <2>c DEF Replace, At, Fits
      <4>2. call[c].doc.data \in Contents
        BY <4>1 DEF Docs
      <4>3. Mutate(call[c], call[c].doc.data) \in Contents
        BY <2>b, <4>1, <4>2, MutateKeeps
      <4>4. Bump(d) \in Docs
        <5>1. d \in Docs
          BY <4>1, <4>3 DEF Docs
        <5> HIDE DEF d
        <5> QED BY <5>1 DEF Docs, Bump
      <4>5. docs' \in [Paths -> Docs \cup {NoDoc}] /\ kept' \subseteq kept
        BY <2>2, <3>1, <4>4 DEF TypeOK, Replace, Put
      <4>6. settled' \subseteq Nat \X Names \X (Statuses \cup {"absent"})
        <5>1. Path(c) \in Paths /\ Doc(c) # NoDoc
          BY <2>2, <2>b, <3>1 DEF Replace, At, Fits, Path, Unchanged
        <5>2. Doc(c).uid \in Nat
          BY <5>1 DEF TypeOK, Doc, Docs
        <5>3. settled' = Settle(call[c], Doc(c).uid)
          BY <2>2, <3>1 DEF Replace
        <5>4. call[c].val \in Statuses
          BY <2>b DEF CallRecords
        <5> HIDE DEF d
        <5> QED BY <4>1, <5>2, <5>3, <5>4 DEF TypeOK, Settle, Named
      <4> QED BY <2>2, <2>a, <4>5, <4>6 DEF TypeOK, Replace
    <3>2. CASE ~Unchanged(c)
      BY <2>2, <2>a, <3>2 DEF TypeOK, Replace
    <3> QED BY <3>1, <3>2
  <2>3. CASE Confirm(c)
    <3>1. call[c].doc \in Docs
      BY <2>3, <2>b, <2>c DEF Confirm, At, Fits
    <3>2. Bump(call[c].doc) \in Docs
      BY <3>1 DEF Docs, Bump
    <3>3. docs' \in [Paths -> Docs \cup {NoDoc}] /\ kept' \subseteq kept
      BY <2>3, <3>2 DEF TypeOK, Confirm, Put
    <3> QED BY <2>3, <2>a, <3>3 DEF TypeOK, Confirm
  <2>4. CASE Remove(c)
    BY <2>4, <2>a DEF TypeOK, Remove, Put
  <2>5. CASE CheckName(c)
    BY <2>5, <2>a DEF TypeOK, CheckName, kv, ghosts
  <2>6. CASE CreateNew(c)
    <3>1. call[c].doc \in Docs /\ Path(c) \in Paths /\ call[c].to \in Paths
      BY <2>6, <2>b, <2>c DEF CreateNew, At, Fits, Path, Paths
    <3>2. [call[c].doc EXCEPT !.ver = 1] \in Docs
      BY <3>1 DEF Docs
    <3>3. docs' \in [Paths -> Docs \cup {NoDoc}] /\ kept' \subseteq kept /\ used' \subseteq Paths
            /\ reused' \subseteq used' /\ stale' \subseteq Paths
      BY <2>6, <3>1, <3>2 DEF TypeOK, CreateNew, Put, Use
    <3> QED BY <2>6, <2>a, <3>3 DEF TypeOK, CreateNew
  <2>7. CASE RemoveOld(c)
    BY <2>7, <2>a DEF TypeOK, RemoveOld, Put
  <2>8. CASE CountProviders(c)
    BY <2>8, <2>a DEF TypeOK, CountProviders, kv, ghosts
  <2>9. CASE WriteProvider(c)
    <3>1. call[c].doc \in Docs /\ Path(c) \in Paths
      BY <2>9, <2>b, <2>c DEF WriteProvider, At, Fits, Path, Paths
    <3>2. call[c].doc.uid \in Nat
      BY <3>1 DEF Docs
    <3>3. docs' \in [Paths -> Docs \cup {NoDoc}] /\ kept' \subseteq kept /\ used' \subseteq Paths
            /\ reused' \subseteq used' /\ existing' \subseteq Nat
      BY <2>9, <3>1, <3>2 DEF TypeOK, WriteProvider, Put, Use
    <3> QED BY <2>9, <2>a, <3>3 DEF TypeOK, WriteProvider
  <2>10. CASE List(c)
    <3>1. kept' \subseteq Calls
      BY <2>10 DEF TypeOK, List
    <3> QED BY <2>10, <2>a, <3>1 DEF TypeOK, List, kv
  <2>11. ASSUME NEW p \in Paths, Visit(c, p) PROVE TypeOK' /\ CallsFit'
    <3>1. kept' \subseteq Calls /\ missed' \in {missed, missed \cup {call[c].name}}
            /\ (missed' # missed => call[c].op \in Searches)
      BY <2>11 DEF TypeOK, Visit, Miss
    <3>2. missed' \subseteq Names
      BY <2>b, <3>1 DEF TypeOK, Fits
    <3> QED BY <2>11, <2>a, <3>1, <3>2 DEF TypeOK, Visit, kv
  <2>12. CASE RemoveOldFails(c)
    <3>1. Path(c) \in Paths
      BY <2>12, <2>b DEF RemoveOldFails, At, Fits, Path, Paths
    <3> QED BY <2>12, <2>a, <3>1 DEF TypeOK, RemoveOldFails, kv
  <2>13. CASE Fails(c)
    <3>1. call[c].pc = "removeOld" => Path(c) \in Paths
      BY <2>13, <2>b DEF Fits, Path, Paths
    <3> QED BY <2>13, <2>a, <3>1 DEF TypeOK, Fails, kv
  <2> QED
    BY <1>4, <2>1, <2>2, <2>3, <2>4, <2>5, <2>6, <2>7, <2>8, <2>9, <2>10, <2>11, <2>12, <2>13 DEF
       Step
<1> QED BY <1>1, <1>2, <1>3, <1>4 DEF Next, Request, Begins

----------------------------------------------------------------------------
(* Documents *)
\* d replaces the document that request c has read, under check-and-set.
Writes(c, d) == /\ docs' = [docs EXCEPT ![Path(c)] = d] /\ d \in Docs /\ d # NoDoc
                /\ Path(c) \in Paths /\ Unchanged(c) /\ call[c].doc \in Docs
                     /\ call[c].op # "CreateProvider"
                /\ d.uid = call[c].doc.uid /\ d.ver = Doc(c).ver + 1
                /\ UNCHANGED <<used, reused, existing, stale>>

\* A document appears at a path that has none.
Adds(p, d) == /\ docs' = [docs EXCEPT ![p] = d] /\ d \in Docs /\ d # NoDoc
              /\ p \in Paths /\ docs[p] = NoDoc /\ Use(p)

\* The document at p is deleted.
Drops(p) == docs' = [docs EXCEPT ![p] = NoDoc] /\ p \in Paths
    /\ UNCHANGED <<used, reused, settled, stale>>

\* No document changes.
Keeps == UNCHANGED <<docs, used, reused, existing, settled>>

\* replaceUser, replaceRole, replaceOIDCProvider write the copy, edited.
LEMMA ReplaceStep ==
  ASSUME TypeOK, CallsFit, NEW c \in Calls, Replace(c), Unchanged(c)
  PROVE  /\ Return(c)
         /\ settled' = Settle(call[c], Doc(c).uid)
         /\ \E d : Writes(c, d) /\ d.data = Mutate(call[c], call[c].doc.data)
<1> DEFINE d == [call[c].doc EXCEPT !.data = Mutate(call[c], @)]
<1>1. call[c] \in CallRecords /\ call[c].doc \in Docs /\ Mutate(call[c], call[c].doc.data) # Refused
      /\ (call[c].op # "UpdateAccessKey" => call[c].val = "on") /\ (call[c].op \in Named
           => call[c].name \in Names)
      /\ Path(c) \in Paths /\ call[c].op # "CreateProvider"
  BY CallTyped DEF Replace, At, Fits, CallsFit, Path
<1>2. Mutate(call[c], call[c].doc.data) \in Contents
  BY <1>1, MutateKeeps DEF Docs
<1>3. d \in Docs /\ d.data = Mutate(call[c], call[c].doc.data) /\ d.uid = call[c].doc.uid
        /\ d.ver = call[c].doc.ver
  BY <1>1, <1>2 DEF Docs
<1>4. docs' = [docs EXCEPT ![Path(c)] = Bump(d)]
  BY DEF Replace, Put
<1> HIDE DEF d
<1>5. Bump(d) \in Docs /\ Bump(d).data = d.data /\ Bump(d).uid = d.uid /\ Bump(d).ver = d.ver + 1
  BY <1>3 DEF Docs, Bump
<1>6. Bump(d) # NoDoc /\ UNCHANGED <<used, reused, existing, stale>>
  BY <1>5, NoDocAssumption DEF Replace
<1>7. Bump(d).ver = Doc(c).ver + 1
  BY <1>3, <1>5 DEF Unchanged
<1>8. Writes(c, Bump(d))
  BY <1>1, <1>3, <1>4, <1>5, <1>6, <1>7 DEF Writes
<1> QED BY <1>3, <1>5, <1>8 DEF Replace

\* DeleteUser and DeleteRole write the copy as it is.
LEMMA ConfirmStep ==
  ASSUME TypeOK, CallsFit, NEW c \in Calls, Confirm(c), Unchanged(c)
  PROVE  /\ Goto(c, "remove")
         /\ settled' = settled
         /\ \E d : Writes(c, d) /\ d.data = call[c].doc.data
<1> DEFINE d == call[c].doc
<1>1. d \in Docs /\ Path(c) \in Paths /\ call[c].op # "CreateProvider"
  BY CallTyped DEF Confirm, At, Fits, CallsFit, Path
<1>4. docs' = [docs EXCEPT ![Path(c)] = Bump(d)]
  BY DEF Confirm, Put
<1>5. Bump(d) \in Docs /\ Bump(d).data = d.data /\ Bump(d).uid = d.uid /\ Bump(d).ver = d.ver + 1
  BY <1>1 DEF Docs, Bump
<1>6. Bump(d) # NoDoc /\ UNCHANGED <<used, reused, existing, stale>>
  BY <1>5, NoDocAssumption DEF Confirm
<1>7. Bump(d).ver = Doc(c).ver + 1
  BY <1>5 DEF Unchanged
<1>8. Writes(c, Bump(d))
  BY <1>1, <1>4, <1>5, <1>6, <1>7 DEF Writes
<1> QED BY <1>5, <1>8 DEF Confirm

\* CreateUser and CreateRole give an ID that no identity has.
LEMMA CreateStep ==
  ASSUME TypeOK, CallsFit, NEW c \in Calls, NEW p \in Paths, Create(c, p)
  PROVE  /\ Adds(p, NewDoc) /\ NewDoc.uid = requests' /\ requests' = requests + 1
              /\ requests' <= MaxRequests
         /\ p \notin Providers /\ existing' = existing \cup {requests'}
         /\ UNCHANGED <<call, settled, stale>>
<1>1. Empty \in Contents
  BY VaultAssumption DEF Empty, Contents
<1>2. NewDoc \in Docs /\ NewDoc # NoDoc /\ NewDoc.uid = requests + 1
  BY <1>1, NoDocAssumption DEF TypeOK, NewDoc, Docs
<1>3. requests' <= MaxRequests
  BY VaultAssumption DEF Create, TypeOK
<1> QED BY <1>2, <1>3 DEF Create, Put, Adds

\* A rename writes its copy to the new name.
LEMMA RenameStep ==
  ASSUME TypeOK, CallsFit, NEW c \in Calls, CreateNew(c), docs[call[c].to] = NoDoc
  PROVE  \E d : /\ Adds(call[c].to, d) /\ d.uid = call[c].doc.uid /\ d.data = call[c].doc.data
                /\ call[c].to \in Users /\ Path(c) \in Users /\ call[c].doc \in Docs
                     /\ call[c].op = "RenameUser"
                /\ call' = [call EXCEPT ![c].pc = "removeOld", ![c].tries = 0]
                /\ stale' = IF Copied(c) THEN stale \cup {Path(c)} ELSE stale
                /\ UNCHANGED <<existing, settled, requests>>
<1> DEFINE d == [call[c].doc EXCEPT !.ver = 1]
<1>1. call[c].doc \in Docs /\ call[c].to \in Users /\ Path(c) \in Users /\ call[c].to \in Paths
        /\ call[c].op = "RenameUser"
  BY CallTyped DEF CreateNew, At, Fits, CallsFit, Path, Paths
<1>2. d \in Docs /\ d.data = call[c].doc.data /\ d.uid = call[c].doc.uid /\ d # NoDoc
  BY <1>1, NoDocAssumption DEF Docs
<1>3. docs' = [docs EXCEPT ![call[c].to] = d] /\ Use(call[c].to)
  BY DEF CreateNew, Put
<1> HIDE DEF d
<1>4. Adds(call[c].to, d)
  BY <1>1, <1>2, <1>3 DEF Adds
<1> QED BY <1>1, <1>2, <1>4 DEF CreateNew

\* CreateOIDCProvider writes a document where there is none.
LEMMA ProviderStep ==
  ASSUME TypeOK, CallsFit, NEW c \in Calls, WriteProvider(c), Doc(c) = NoDoc
  PROVE  /\ Adds(Path(c), call[c].doc) /\ Path(c) \in Providers /\ call[c].op = "CreateProvider"
         /\ existing' = existing \cup {call[c].doc.uid} /\ Return(c)
         /\ UNCHANGED <<settled, stale, requests>>
<1>1. call[c].doc \in Docs /\ call[c].doc # NoDoc /\ Path(c) \in Providers /\ Path(c) \in Paths
        /\ call[c].op = "CreateProvider"
  BY CallTyped DEF WriteProvider, At, Fits, CallsFit, Path, Paths
<1> QED BY <1>1 DEF WriteProvider, Put, Adds, Doc

\* The deletions.
LEMMA DropStep ==
  ASSUME TypeOK, CallsFit, NEW c \in Calls, Remove(c) \/ RemoveOld(c)
  PROVE  /\ Drops(Path(c)) /\ Return(c) /\ call[c].doc # NoDoc /\ call[c].op # "CreateProvider"
         /\ existing' = IF Remove(c) THEN existing \ {call[c].doc.uid} ELSE existing
         /\ RemoveOld(c) => call[c].pc = "removeOld"
         /\ UNCHANGED requests
<1>1. Path(c) \in Paths /\ call[c].doc # NoDoc /\ call[c].op # "CreateProvider"
  BY DEF Remove, RemoveOld, At, CallsFit, Fits, Path, Paths
<1>2. CASE Remove(c)
  <2>1. existing' = existing \ {call[c].doc.uid} /\ Return(c) /\ Drops(Path(c))
          /\ UNCHANGED requests
    BY <1>1, <1>2 DEF Remove, Put, Drops
  <2> QED BY <1>1, <1>2, <2>1 DEF RemoveOld, At
<1>3. CASE RemoveOld(c) /\ ~Remove(c)
  BY <1>1, <1>3 DEF RemoveOld, Put, Drops, At
<1> QED BY <1>1, <1>2, <1>3 DEF RemoveOld, At

\* The steps that change no document.
QuietStep(c) == \/ Begins(c) \/ Read(c) \/ CheckName(c) \/ CountProviders(c)
                \/ List(c) \/ \E p \in Paths : Visit(c, p)
                \/ RemoveOldFails(c) \/ Fails(c)
                \/ (Replace(c) \/ Confirm(c)) /\ ~Unchanged(c)
                \/ CreateNew(c) /\ docs[call[c].to] # NoDoc
                \/ WriteProvider(c) /\ Doc(c) # NoDoc

\* They leave the documents, and a rename that gives up leaves its old record as stale.
LEMMA QuietKeeps ==
  ASSUME TypeOK, CallsFit, NEW c \in Calls, QuietStep(c)
  PROVE  /\ Keeps /\ Goes(c) /\ requests' >= requests
         /\ stale' = IF call[c].pc = "removeOld"
              /\ call'[c].pc # "removeOld" THEN stale \cup {Path(c)} ELSE stale
         /\ call'[c].pc = "removeOld" => call[c].pc = "removeOld"
<1>a. call[c] \in CallRecords /\ Fits(call[c]) /\ requests \in Nat
  BY CallTyped, VaultAssumption DEF TypeOK, CallsFit
<1>b. Goes(c)
  BY StepsGo, BeginsFit DEF QuietStep, Step, Begins
<1>c. ASSUME Return(c) PROVE call'[c].pc = "idle"
  BY <1>c, NoCallFits DEF Return, TypeOK
<1>d. ASSUME NEW pc, Goto(c, pc) PROVE call'[c].pc = pc
  BY <1>a, <1>d DEF Goto, TypeOK, CallRecords
<1>e. ASSUME Retry(c) PROVE call'[c].pc \in {"idle", "read"}
  BY <1>a, <1>c, <1>e DEF Retry, TypeOK, CallRecords
<1>1. CASE Begins(c)
  <2>1. PICK r : Begin(c, r)
    BY <1>1, BeginsFit DEF Begins
  <2>2. call[c].pc = "idle" /\ call'[c] = r
    BY <2>1 DEF Begin, Start, Idle, NoCall, TypeOK
  <2>3. Keeps /\ stale' = stale /\ requests' >= requests
    BY <2>1, <1>a DEF Begin, Start, kv, ghosts, Keeps
  <2>4. call'[c].pc # "removeOld"
    BY <1>b, <2>2 DEF Goes, Follows, TypeOK
  <2> QED BY <1>b, <2>2, <2>3, <2>4
<1>2. CASE Read(c)
  <2>1. call[c].pc = "read" /\ call'[c].pc # "removeOld"
    BY <1>a, <1>2, <1>b DEF Read, At, Goes, Follows, TypeOK
  <2> QED BY <1>2, <1>a, <1>b, <2>1 DEF Read, kv, ghosts, Keeps
<1>3. CASE CheckName(c)
  BY <1>3, <1>a, <1>b, <1>c, <1>d DEF CheckName, At, kv, ghosts, Keeps
<1>4. CASE CountProviders(c)
  BY <1>4, <1>a, <1>b, <1>c, <1>d DEF CountProviders, At, kv, ghosts, Keeps
<1>5. CASE List(c) \/ \E p \in Paths : Visit(c, p)
  <2>1. call[c].pc \in {"list", "look"} /\ call'[c].pc # "removeOld"
    BY <1>a, <1>5, <1>b DEF List, Visit, At, Goes, Follows, TypeOK
  <2>2. ASSUME NEW p \in Paths, Visit(c, p) PROVE Keeps /\ stale' = stale /\ requests' = requests
    BY <2>2 DEF Visit, kv, Keeps
  <2>3. Keeps /\ stale' = stale /\ requests' = requests
    BY <1>5, <2>2 DEF List, kv, Keeps
  <2> QED BY <1>a, <1>b, <2>1, <2>3
<1>6. CASE RemoveOldFails(c)
  <2>1. CASE call[c].tries + 1 < MaxCASRetries
    <3>1. call'[c].pc = "removeOld"
      BY <1>6, <1>a, <2>1 DEF RemoveOldFails, At, TypeOK, CallRecords
    <3> QED BY <1>6, <1>a, <1>b, <2>1, <3>1 DEF RemoveOldFails, At, kv, Keeps
  <2> QED BY <1>6, <1>a, <1>b, <1>c, <2>1 DEF RemoveOldFails, At, kv, Keeps
<1>7. CASE Fails(c)
  BY <1>7, <1>a, <1>b, <1>c DEF Fails, kv, Keeps
<1>8. CASE Replace(c) /\ ~Unchanged(c)
  BY <1>8, <1>a, <1>b, <1>c, <1>e DEF Replace, At, Keeps
<1>9. CASE Confirm(c) /\ ~Unchanged(c)
  BY <1>9, <1>a, <1>b, <1>c, <1>e DEF Confirm, At, Keeps
<1>10. CASE CreateNew(c) /\ docs[call[c].to] # NoDoc
  BY <1>10, <1>a, <1>b, <1>c DEF CreateNew, At, Keeps
<1>11. CASE WriteProvider(c) /\ Doc(c) # NoDoc
  BY <1>11, <1>a, <1>b, <1>c DEF WriteProvider, At, Keeps
<1> QED BY <1>1, <1>2, <1>3, <1>4, <1>5, <1>6, <1>7, <1>8, <1>9, <1>10, <1>11 DEF QuietStep

\* Every step is one of these.
LEMMA StepCases ==
  ASSUME TypeOK, CallsFit, SessionsFit, [Next]_vars
  PROVE  \/ \E c \in Calls : QuietStep(c)
         \/ \E c \in Calls, p \in Paths : Create(c, p)
         \/ \E c \in Calls : Replace(c) /\ Unchanged(c)
         \/ \E c \in Calls : Confirm(c) /\ Unchanged(c)
         \/ \E c \in Calls : Remove(c) \/ RemoveOld(c)
         \/ \E c \in Calls : CreateNew(c) /\ docs[call[c].to] = NoDoc
         \/ \E c \in Calls : WriteProvider(c) /\ Doc(c) = NoDoc
         \/ Quiet /\ call' = call /\ requests' >= requests
<1>1. CASE UNCHANGED vars \/ (\E s \in Sessions : Expire(s))
  BY <1>1, SessionStep
<1>2. ASSUME NEW c \in Calls, Session(c) PROVE Quiet /\ call' = call /\ requests' >= requests
  BY <1>2, SessionStep
<1>3. ASSUME NEW c \in Calls, Request(c) PROVE Begins(c) \/ \E p \in Paths : Create(c, p)
  BY <1>3 DEF Request, Begins
<1>4. ASSUME NEW c \in Calls, Step(c) \/ RemoveOldFails(c) \/ Fails(c)
      PROVE  \/ QuietStep(c)
             \/ Replace(c) /\ Unchanged(c)
             \/ Confirm(c) /\ Unchanged(c)
             \/ Remove(c) \/ RemoveOld(c)
             \/ CreateNew(c) /\ docs[call[c].to] = NoDoc
             \/ WriteProvider(c) /\ Doc(c) = NoDoc
  BY <1>4 DEF Step, QuietStep
<1> QED BY <1>1, <1>2, <1>3, <1>4 DEF Next, QuietStep

\* The types of a document that is stored ...
LEMMA DocTyped == ASSUME TypeOK, NEW p \in Stored
                  PROVE docs[p] \in Docs /\ docs[p].ver \in Nat /\ docs[p].uid \in Nat
                          /\ docs[p].data \in Contents
BY DEF TypeOK, Stored, Docs

\* ... and of a copy.
LEMMA CopyTyped == ASSUME TypeOK, NEW c \in Calls, call[c].doc # NoDoc
                  PROVE call[c].doc \in Docs /\ call[c].doc.ver \in Nat /\ call[c].doc.uid \in Nat
                          /\ call[c].doc.data \in Contents
BY CallTyped DEF Docs

\* The records that renames are about to remove are of users.
LEMMA LeavingUsed == ASSUME TypeOK, CallsFit, CopiesFit PROVE Leaving \subseteq used \cap Users
BY DEF Leaving, CallsFit, Fits, CopiesFit, At, Path

\* What is written under check-and-set was made from the document that is there, unless
\* the name was created again.
LEMMA CurrentCopy ==
  ASSUME TypeOK, CopiesFit, NEW c \in Calls, NEW d, Writes(c, d)
  PROVE  /\ Path(c) \in Stored
         /\ Path(c) \notin reused => call[c].doc = Doc(c)
<1>1. Path(c) \in Stored /\ Doc(c).ver = call[c].doc.ver /\ call[c].doc # NoDoc
        /\ call[c].op # "CreateProvider"
  BY NoDocAssumption DEF Writes, Unchanged, Stored, Doc
<1>2. Doc(c).ver \in Nat
  BY <1>1, DocTyped DEF Doc
<1> QED BY <1>1, <1>2 DEF CopiesFit

\* The documents after one appears ...
LEMMA StoredAdds == ASSUME TypeOK, NEW p, NEW d, Adds(p, d)
                    PROVE /\ Stored' = Stored \cup {p} /\ p \notin Stored /\ docs'[p] = d
                          /\ \A q \in Stored : docs'[q] = docs[q]
                          /\ used' = used \cup {p} /\ reused \subseteq reused'
                          /\ p \in used => p \in reused'
BY DEF TypeOK, Adds, Stored, Use

\* ... after one is replaced ...
LEMMA StoredWrites == ASSUME TypeOK, CopiesFit, NEW c \in Calls, NEW d, Writes(c, d)
                    PROVE /\ Stored' = Stored /\ docs'[Path(c)] = d
                               /\ \A q \in Stored \ {Path(c)} : docs'[q] = docs[q]
BY CurrentCopy DEF TypeOK, Writes, Stored

\* ... and after one is deleted.
LEMMA StoredDrops == ASSUME TypeOK, NEW p, Drops(p)
                    PROVE /\ Stored' = Stored \ {p} /\ \A q \in Stored \ {p} : docs'[q] = docs[q]
BY DEF TypeOK, Drops, Stored

----------------------------------------------------------------------------
(* The parts of the invariant *)
\* Every step preserves CopiesFit: each write raises the version, and a path that gets a
\* document again counts as reused.
LEMMA CopiesNext ==
  ASSUME TypeOK, CallsFit, SessionsFit, CopiesFit, [Next]_vars
  PROVE  CopiesFit'
<1> USE DEF Path, Doc
<1>1. ASSUME NEW c \in Calls, QuietStep(c) PROVE CopiesFit'
  <2>1. Keeps /\ Stored' = Stored
    BY <1>1, QuietKeeps DEF Keeps, Stored
  <2>2. PICK r \in CallRecords : Follows(c, r) /\ call' = [call EXCEPT ![c] = r]
    BY <1>1, QuietKeeps DEF Goes
  <2>3. call'[c] = r /\ \A e \in Calls \ {c} : call'[e] = call[e]
    BY <2>2 DEF TypeOK
  <2>4. r.doc # NoDoc /\ r.op # "CreateProvider" =>
          r.path \in used /\ (r.path \in Stored \ reused
              => docs[r.path].uid = r.doc.uid /\ (docs[r.path].ver > r.doc.ver
                  \/ docs[r.path] = r.doc))
    BY <2>2 DEF Follows, CopiesFit
  <2> QED BY <2>1, <2>3, <2>4 DEF CopiesFit, Keeps
<1>2. ASSUME NEW c \in Calls, NEW p \in Paths, Create(c, p) PROVE CopiesFit'
  BY <1>2, CreateStep, StoredAdds DEF CopiesFit
<1>3. ASSUME NEW c \in Calls, NEW d, Writes(c, d), NEW r, call' = [call EXCEPT ![c] = r],
             r.doc = NoDoc \/ (r.doc = call[c].doc /\ r.path = Path(c) /\ r.op = call[c].op)
      PROVE CopiesFit'
  <2>1. Path(c) \in Stored /\ (Path(c) \notin reused
          => d.uid = Doc(c).uid) /\ d.ver = Doc(c).ver + 1
    BY <1>3, CurrentCopy DEF Writes
  <2>2. Stored' = Stored /\ docs'[Path(c)] = d /\ (\A q \in Stored \ {Path(c)} : docs'[q] = docs[q])
          /\ UNCHANGED <<used, reused>>
    BY <1>3, StoredWrites DEF Writes
  <2>3. call'[c] = r /\ \A e \in Calls \ {c} : call'[e] = call[e]
    BY <1>3 DEF TypeOK
  <2>4. Doc(c).ver \in Nat
    BY <2>1, DocTyped
  <2>5. ASSUME NEW e \in Calls, call'[e].doc # NoDoc, call'[e].op # "CreateProvider"
        PROVE  call'[e].doc = call[e].doc /\ call'[e].path = call[e].path
                 /\ call'[e].op = call[e].op
                 /\ call[e].doc.ver \in Nat
    BY <1>3, <2>3, <2>5, CopyTyped
  <2>6. ASSUME NEW e \in Calls, call'[e].doc # NoDoc, call'[e].op # "CreateProvider"
        PROVE  /\ call'[e].path \in used'
               /\ call'[e].path \in Stored' \ reused' => docs'[call'[e].path].uid = call'[e].doc.uid
               /\ call'[e].path \in Stored' \ reused'
                    => (docs'[call'[e].path].ver > call'[e].doc.ver
                      \/ docs'[call'[e].path] = call'[e].doc)
    <3>1. call[e].path \in used /\ (call[e].path \in Stored \ reused
            => docs[call[e].path].uid = call[e].doc.uid /\ (docs[call[e].path].ver > call[e].doc.ver
              \/ docs[call[e].path] = call[e].doc))
      BY <2>5, <2>6 DEF CopiesFit
    <3>2. CASE call[e].path = Path(c)
      BY <2>1, <2>2, <2>4, <2>5, <2>6, <3>1, <3>2
    <3>3. CASE call[e].path # Path(c)
      BY <2>2, <2>5, <2>6, <3>1, <3>3
    <3> QED BY <3>2, <3>3
  <2> QED BY <2>2, <2>6 DEF CopiesFit
<1>4. ASSUME NEW c \in Calls, Replace(c) /\ Unchanged(c) PROVE CopiesFit'
  BY <1>3, <1>4, ReplaceStep, NoCallFits DEF Return
<1>5. ASSUME NEW c \in Calls, Confirm(c) /\ Unchanged(c) PROVE CopiesFit'
  <2>1. call' = [call EXCEPT ![c] = [call[c] EXCEPT !.pc = "remove"]] /\ \E d : Writes(c, d)
    BY <1>5, ConfirmStep DEF Goto, TypeOK
  <2>2. [call[c] EXCEPT !.pc = "remove"].doc = call[c].doc
          /\ [call[c] EXCEPT !.pc = "remove"].path = Path(c)
        /\ [call[c] EXCEPT !.pc = "remove"].op = call[c].op
    BY CallTyped DEF CallRecords
  <2> QED BY <1>3, <2>1, <2>2
<1>6. ASSUME NEW c \in Calls, Remove(c) \/ RemoveOld(c) PROVE CopiesFit'
  <2>1. Drops(Path(c)) /\ call' = [call EXCEPT ![c] = NoCall]
    BY <1>6, DropStep DEF Return
  <2>2. call'[c].doc = NoDoc /\ \A e \in Calls \ {c} : call'[e] = call[e]
    BY <2>1, NoCallFits DEF TypeOK
  <2>3. Stored' = Stored \ {Path(c)} /\ (\A q \in Stored \ {Path(c)} : docs'[q] = docs[q])
          /\ UNCHANGED <<used, reused>>
    BY <2>1, StoredDrops DEF Drops
  <2> QED BY <2>2, <2>3 DEF CopiesFit
<1>7. ASSUME NEW c \in Calls, CreateNew(c) /\ docs[call[c].to] = NoDoc PROVE CopiesFit'
  <2>1. PICK d : Adds(call[c].to, d) /\ call' = [call EXCEPT ![c].pc = "removeOld", ![c].tries = 0]
    BY <1>7, RenameStep
  <2>2. \A e \in Calls : call'[e].doc = call[e].doc /\ call'[e].path = call[e].path
          /\ call'[e].op = call[e].op
    BY <2>1, CallTyped DEF TypeOK, CallRecords
  <2>3. /\ Stored' = Stored \cup {call[c].to} /\ (\A q \in Stored : docs'[q] = docs[q])
        /\ used' = used \cup {call[c].to} /\ reused \subseteq reused'
        /\ call[c].to \in used => call[c].to \in reused'
    BY <2>1, StoredAdds
  <2> QED BY <2>2, <2>3 DEF CopiesFit
<1>8. ASSUME NEW c \in Calls, WriteProvider(c) /\ Doc(c) = NoDoc PROVE CopiesFit'
  <2>1. Adds(Path(c), call[c].doc) /\ call' = [call EXCEPT ![c] = NoCall]
    BY <1>8, ProviderStep DEF Return
  <2>2. call'[c].doc = NoDoc /\ \A e \in Calls \ {c} : call'[e] = call[e]
    BY <2>1, NoCallFits DEF TypeOK
  <2> QED BY <2>1, <2>2, StoredAdds DEF CopiesFit
<1>9. CASE Quiet /\ call' = call
  BY <1>9 DEF Quiet, CopiesFit, Stored
<1> QED BY <1>1, <1>2, <1>4, <1>5, <1>6, <1>7, <1>8, <1>9, StepCases

\* Steps that change no document let a record stay only by making it stale.
LEMMA LeavingQuiet ==
  ASSUME TypeOK, CallsFit, NEW c \in Calls, QuietStep(c)
  PROVE  /\ Leaving' \subseteq Leaving /\ stale \subseteq stale'
         /\ stale' = {} => Leaving' = Leaving
<1>1. /\ stale' = IF call[c].pc = "removeOld"
           /\ call'[c].pc # "removeOld" THEN stale \cup {Path(c)} ELSE stale
      /\ call'[c].pc = "removeOld" => call[c].pc = "removeOld"
      /\ Goes(c)
  BY QuietKeeps
<1>2. PICK r : Follows(c, r) /\ Fits(r) /\ call' = [call EXCEPT ![c] = r]
  BY <1>1 DEF Goes
<1>3. call'[c] = r /\ \A e \in Calls \ {c} : call'[e] = call[e]
  BY <1>2 DEF TypeOK
<1>4. call'[c].pc = "removeOld" => call'[c].path = call[c].path
  BY <1>2, <1>3 DEF Follows, Fits, Path
<1> QED BY <1>1, <1>3, <1>4 DEF Leaving, At, Path

\* The record that a request was about to remove stays when it ends.
LEMMA LeavingReturn ==
  ASSUME TypeOK, NEW c \in Calls, NEW r, call' = [call EXCEPT ![c] = r], r.pc # "removeOld"
  PROVE  Leaving' \subseteq Leaving
           /\ Leaving \subseteq Leaving' \cup {p \in {Path(c)} : call[c].pc = "removeOld"}
<1>3. call'[c] = r /\ \A e \in Calls \ {c} : call'[e] = call[e]
  BY DEF TypeOK
<1> QED BY <1>3 DEF Leaving, At, Path

\* A rename that has written the new record is about to remove the old one.
LEMMA LeavingNew ==
  ASSUME TypeOK, NEW c \in Calls, call'
           = [call EXCEPT ![c].pc = "removeOld", ![c].tries = 0], Path(c) \in Paths
  PROVE  Leaving' = Leaving \cup {Path(c)}
<1>1. /\ call'[c].pc = "removeOld" /\ call'[c].path = call[c].path
      /\ \A e \in Calls \ {c} : call'[e] = call[e]
  BY CallTyped DEF TypeOK, CallRecords
<1> QED BY <1>1 DEF Leaving, At, Path

\* A deletion does not concern renames.
LEMMA ConfirmLeaving ==
  ASSUME TypeOK, NEW c \in Calls, Confirm(c), Goto(c, "remove")
  PROVE  Leaving' = Leaving
<1>1. /\ call'[c].pc = "remove" /\ call[c].pc = "confirm"
      /\ \A e \in Calls \ {c} : call'[e] = call[e]
  BY CallTyped DEF TypeOK, CallRecords, Goto, Confirm, At
<1> QED BY <1>1 DEF Leaving, At, Path

\* Every step preserves RecordStays: the old record is removed after the new one is
\* written, and a deletion removes the identity it has read.
LEMMA RecordNext ==
  ASSUME TypeOK, CallsFit, SessionsFit, CopiesFit, RecordStays, [Next]_vars
  PROVE  RecordStays'
<1>1. ASSUME NEW c \in Calls, QuietStep(c) PROVE RecordStays'
  BY <1>1, QuietKeeps, LeavingQuiet DEF RecordStays, Keeps, Stored
<1>2. ASSUME NEW c \in Calls, NEW p \in Paths, Create(c, p) PROVE RecordStays'
  <2>1. /\ Adds(p, NewDoc) /\ NewDoc.uid = requests' /\ existing' = existing \cup {requests'}
             /\ call' = call
    BY <1>2, CreateStep
  <2>2. Leaving' = Leaving
    BY <2>1 DEF Leaving, At, Path
  <2>3. reused' = {} => p \notin Leaving
    BY <2>1, StoredAdds, LeavingUsed
  <2> QED BY <2>1, <2>2, <2>3, StoredAdds DEF RecordStays
<1>3. ASSUME NEW c \in Calls, NEW d, Writes(c, d), Leaving' \subseteq Leaving PROVE RecordStays'
  <2>1. reused' = reused /\ existing' = existing /\ (reused = {} => d.uid = Doc(c).uid)
    BY <1>3, CurrentCopy DEF Writes
  <2> QED BY <1>3, <2>1, CurrentCopy, StoredWrites DEF RecordStays, Doc
<1>4. ASSUME NEW c \in Calls, Replace(c) /\ Unchanged(c) PROVE RecordStays'
  <2>1. Leaving' \subseteq Leaving
    BY <1>4, ReplaceStep, LeavingReturn, NoCallFits DEF Return
  <2> QED BY <1>3, <1>4, <2>1, ReplaceStep
<1>5. ASSUME NEW c \in Calls, Confirm(c) /\ Unchanged(c) PROVE RecordStays'
  BY <1>3, <1>5, ConfirmStep, ConfirmLeaving
<1>6. ASSUME NEW c \in Calls, Remove(c) \/ RemoveOld(c) PROVE RecordStays'
  <2>1. /\ Drops(Path(c)) /\ call[c].doc # NoDoc /\ call[c].op # "CreateProvider"
        /\ existing' = IF Remove(c) THEN existing \ {call[c].doc.uid} ELSE existing
        /\ ~Remove(c) => call[c].pc = "removeOld"
    BY <1>6, DropStep
  <2>2. Leaving' \subseteq Leaving
    BY <1>6, DropStep, LeavingReturn, NoCallFits DEF Return
  <2>3. Stored' = Stored \ {Path(c)} /\ (\A q \in Stored \ {Path(c)} : docs'[q] = docs[q])
          /\ reused' = reused
    BY <2>1, StoredDrops DEF Drops
  <2>4. reused = {} /\ Path(c) \in Stored => Doc(c).uid = call[c].doc.uid
    BY <2>1 DEF CopiesFit
  <2>5. ~Remove(c) => Path(c) \in Leaving
    BY <2>1 DEF Leaving, At, Drops
  <2> QED BY <2>1, <2>2, <2>3, <2>4, <2>5 DEF RecordStays, Doc
<1>7. ASSUME NEW c \in Calls, CreateNew(c) /\ docs[call[c].to] = NoDoc PROVE RecordStays'
  <2>1. PICK d : /\ Adds(call[c].to, d) /\ d.uid = call[c].doc.uid
                 /\ Path(c) \in Users /\ call[c].doc \in Docs /\ call[c].op = "RenameUser"
                 /\ call' = [call EXCEPT ![c].pc = "removeOld", ![c].tries = 0]
                 /\ existing' = existing
    BY <1>7, RenameStep
  <2>2. Leaving' = Leaving \cup {Path(c)}
    BY <2>1, LeavingNew DEF Paths
  <2>3. /\ Stored' = Stored \cup {call[c].to} /\ (\A q \in Stored : docs'[q] = docs[q])
        /\ docs'[call[c].to] = d /\ call[c].to \notin Stored
        /\ reused \subseteq reused'
        /\ call[c].to \in used => call[c].to \in reused'
    BY <2>1, StoredAdds
  <2>4. /\ Path(c) \in used
        /\ reused = {} /\ Path(c) \in Stored => Doc(c).uid = call[c].doc.uid
    BY <2>1, NoDocAssumption DEF CopiesFit
  <2>5. reused' = {} => call[c].to \notin Leaving'
    BY <2>2, <2>3, <2>4, LeavingUsed
  <2> QED BY <2>1, <2>2, <2>3, <2>4, <2>5 DEF RecordStays, Doc
<1>8. ASSUME NEW c \in Calls, WriteProvider(c) /\ Doc(c) = NoDoc PROVE RecordStays'
  <2>1. Adds(Path(c), call[c].doc) /\ Return(c) /\ Path(c) \in Providers
          /\ existing' = existing \cup {call[c].doc.uid}
    BY <1>8, ProviderStep
  <2>2. Leaving' \subseteq Leaving
    BY <2>1, LeavingReturn, NoCallFits DEF Return
  <2>3. Path(c) \notin Leaving
    BY <2>1, LeavingUsed, VaultAssumption
  <2>4. /\ Stored' = Stored \cup {Path(c)} /\ (\A q \in Stored : docs'[q] = docs[q])
        /\ docs'[Path(c)] = call[c].doc /\ reused \subseteq reused'
    BY <2>1, StoredAdds
  <2> QED BY <2>1, <2>2, <2>3, <2>4 DEF RecordStays
<1>9. CASE Quiet /\ call' = call
  BY <1>9 DEF Quiet, RecordStays, Stored, Leaving, At, Path
<1> QED BY <1>1, <1>2, <1>4, <1>5, <1>6, <1>7, <1>8, <1>9, StepCases

\* Every step preserves IdsGiven.
LEMMA IdsNext ==
  ASSUME TypeOK, CallsFit, SessionsFit, CopiesFit, IdsGiven, [Next]_vars
  PROVE  IdsGiven'
<1> USE VaultAssumption
<1>0. ASSUME requests' >= requests, requests' \in Nat PROVE Given \subseteq Given'
  BY <1>0 DEF Given, TypeOK
<1>a. requests \in Nat /\ requests' \in Nat
  BY TypeNext DEF TypeOK
<1>1. ASSUME NEW c \in Calls, QuietStep(c) PROVE IdsGiven'
  <2>1. Keeps /\ Stored' = Stored /\ requests' >= requests
    BY <1>1, QuietKeeps DEF Keeps, Stored
  <2>2. PICK r \in CallRecords : Fits(r) /\ Follows(c, r) /\ call' = [call EXCEPT ![c] = r]
    BY <1>1, QuietKeeps DEF Goes
  <2>3. call'[c] = r /\ \A e \in Calls \ {c} : call'[e] = call[e]
    BY <2>2 DEF TypeOK
  <2>4. Given \subseteq Given' /\ (requests' <= MaxRequests => requests' \in Given')
    BY <1>0, <1>a, <2>1 DEF Given
  <2>5. requests' \in Given'
    BY <1>a DEF Given
  <2>6. r.doc # NoDoc => r.doc.uid \in Given'
    <3>1. CASE r.op = "CreateProvider" /\ r.doc.uid = requests'
      BY <2>5, <3>1
    <3>2. CASE r.doc = call[c].doc
      BY <2>4, <3>2 DEF IdsGiven
    <3>3. CASE r.doc = Doc(c) /\ Path(c) \in Stored
      BY <2>4, <3>3 DEF IdsGiven, Doc
    <3> QED BY <2>2, <3>1, <3>2, <3>3 DEF Follows
  <2> QED BY <2>1, <2>3, <2>4, <2>6 DEF IdsGiven, Keeps
<1>2. ASSUME NEW c \in Calls, NEW p \in Paths, Create(c, p) PROVE IdsGiven'
  <2>1. /\ Adds(p, NewDoc) /\ NewDoc.uid = requests' /\ requests' = requests + 1
             /\ UNCHANGED <<call, settled>>
    BY <1>2, CreateStep
  <2>2. requests' \in Given' /\ Given \subseteq Given'
    BY <1>0, <1>a, <2>1 DEF Given
  <2>3. Stored' = Stored \cup {p} /\ (\A q \in Stored : docs'[q] = docs[q])
          /\ docs'[p].uid = requests'
    BY <2>1, StoredAdds
  <2> QED BY <2>1, <2>2, <2>3 DEF IdsGiven
<1>3. ASSUME NEW c \in Calls, NEW d, Writes(c, d),
               NEW r, call' = [call EXCEPT ![c] = r], r.doc \in {NoDoc, call[c].doc},
             requests' = requests, \A s \in settled' : s[1] \in Given
      PROVE IdsGiven'
  <2>1. Given' = Given
    BY <1>3 DEF Given
  <2>2. call'[c] = r /\ \A e \in Calls \ {c} : call'[e] = call[e]
    BY <1>3 DEF TypeOK
  <2>3. d.uid \in Given
    BY <1>3, NoDocAssumption DEF Writes, IdsGiven
  <2>4. Stored' = Stored /\ docs'[Path(c)] = d /\ (\A q \in Stored \ {Path(c)} : docs'[q] = docs[q])
    BY <1>3, StoredWrites
  <2> QED BY <1>3, <2>1, <2>2, <2>3, <2>4 DEF IdsGiven
<1>4. ASSUME NEW c \in Calls, Replace(c) /\ Unchanged(c) PROVE IdsGiven'
  <2>1. PICK d : Writes(c, d)
    BY <1>4, ReplaceStep
  <2>2. settled' = Settle(call[c], Doc(c).uid) /\ Doc(c).uid \in Given /\ requests' = requests
    BY <1>4, <2>1, ReplaceStep, CurrentCopy DEF IdsGiven, Doc, Replace
  <2>3. \A s \in settled' : s[1] \in Given
    BY <2>2 DEF Settle, IdsGiven
  <2> QED BY <1>3, <1>4, <2>1, <2>2, <2>3, ReplaceStep, NoCallFits DEF Return
<1>5. ASSUME NEW c \in Calls, Confirm(c) /\ Unchanged(c) PROVE IdsGiven'
  <2>1. call' = [call EXCEPT ![c] = [call[c] EXCEPT !.pc = "remove"]] /\ (\E d : Writes(c, d))
          /\ settled' = settled
        /\ requests' = requests
    BY <1>5, ConfirmStep DEF Goto, TypeOK, Confirm
  <2>2. [call[c] EXCEPT !.pc = "remove"].doc = call[c].doc
    BY CallTyped DEF CallRecords
  <2>3. \A s \in settled' : s[1] \in Given
    BY <2>1 DEF IdsGiven
  <2> QED BY <1>3, <2>1, <2>2, <2>3
<1>6. ASSUME NEW c \in Calls, Remove(c) \/ RemoveOld(c) PROVE IdsGiven'
  <2>1. Drops(Path(c)) /\ call' = [call EXCEPT ![c] = NoCall] /\ requests' = requests
    BY <1>6, DropStep DEF Return
  <2>2. call'[c].doc = NoDoc /\ \A e \in Calls \ {c} : call'[e] = call[e]
    BY <2>1, NoCallFits DEF TypeOK
  <2>3. Stored' = Stored \ {Path(c)} /\ (\A q \in Stored \ {Path(c)} : docs'[q] = docs[q])
          /\ settled' = settled
    BY <2>1, StoredDrops DEF Drops
  <2> QED BY <2>1, <2>2, <2>3 DEF IdsGiven, Given
<1>7. ASSUME NEW c \in Calls, CreateNew(c) /\ docs[call[c].to] = NoDoc PROVE IdsGiven'
  <2>1. PICK d : Adds(call[c].to, d) /\ d.uid = call[c].doc.uid /\ call[c].doc \in Docs
               /\ UNCHANGED <<settled, requests>>
                 /\ call' = [call EXCEPT ![c].pc = "removeOld", ![c].tries = 0]
    BY <1>7, RenameStep
  <2>2. \A e \in Calls : call'[e].doc = call[e].doc
    BY <2>1, CallTyped DEF TypeOK, CallRecords
  <2>3. /\ Stored' = Stored \cup {call[c].to} /\ (\A q \in Stored : docs'[q] = docs[q])
        /\ docs'[call[c].to] = d
    BY <2>1, StoredAdds
  <2>4. d.uid \in Given
    BY <2>1, NoDocAssumption DEF IdsGiven
  <2> QED BY <2>1, <2>2, <2>3, <2>4 DEF IdsGiven, Given
<1>8. ASSUME NEW c \in Calls, WriteProvider(c) /\ Doc(c) = NoDoc PROVE IdsGiven'
  <2>1. Adds(Path(c), call[c].doc) /\ call' = [call EXCEPT ![c] = NoCall]
          /\ UNCHANGED <<settled, requests>>
    BY <1>8, ProviderStep DEF Return
  <2>2. call'[c].doc = NoDoc /\ \A e \in Calls \ {c} : call'[e] = call[e]
    BY <2>1, NoCallFits DEF TypeOK
  <2>3. /\ Stored' = Stored \cup {Path(c)} /\ (\A q \in Stored : docs'[q] = docs[q])
        /\ docs'[Path(c)] = call[c].doc
    BY <2>1, StoredAdds
  <2>4. call[c].doc.uid \in Given
    BY <2>1 DEF IdsGiven, Adds
  <2> QED BY <2>1, <2>2, <2>3, <2>4 DEF IdsGiven, Given
<1>9. CASE Quiet /\ call' = call /\ requests' >= requests
  <2>1. Given \subseteq Given'
    BY <1>0, <1>a, <1>9
  <2> QED BY <1>9, <2>1 DEF Quiet, IdsGiven, Stored
<1> QED BY <1>1, <1>2, <1>4, <1>5, <1>6, <1>7, <1>8, <1>9, StepCases

\* Every step preserves OneRecord: a rename that copies a second time makes its record
\* stale.
LEMMA OneRecordNext ==
  ASSUME TypeOK, CallsFit, SessionsFit, CopiesFit, IdsGiven, OneRecord, [Next]_vars
  PROVE  OneRecord'
<1>1. ASSUME NEW c \in Calls, QuietStep(c) PROVE OneRecord'
  BY <1>1, QuietKeeps, LeavingQuiet DEF OneRecord, Keeps, Stored
<1>2. ASSUME NEW c \in Calls, NEW p \in Paths, Create(c, p) PROVE OneRecord'
  <2>1. /\ Adds(p, NewDoc) /\ NewDoc.uid = requests' /\ requests' = requests + 1
             /\ requests' <= MaxRequests /\ UNCHANGED <<call, stale>>
    BY <1>2, CreateStep
  <2>2. Leaving' = Leaving
    BY <2>1 DEF Leaving, At, Path
  <2>3. requests' \notin Given
    BY <2>1, VaultAssumption DEF Given, TypeOK
  <2>4. /\ Stored' = Stored \cup {p} /\ (\A q \in Stored : docs'[q] = docs[q])
        /\ docs'[p].uid = requests' /\ reused \subseteq reused'
    BY <2>1, StoredAdds
  <2>5. \A q \in Stored : docs[q].uid # requests'
    BY <2>3 DEF IdsGiven
  <2> QED BY <2>1, <2>2, <2>4, <2>5 DEF OneRecord
<1>3. ASSUME NEW c \in Calls, NEW d, Writes(c, d), Leaving \subseteq Leaving' PROVE OneRecord'
  <2>1. reused' = reused /\ stale' = stale /\ (reused = {} => d.uid = Doc(c).uid)
    BY <1>3, CurrentCopy DEF Writes
  <2> QED BY <1>3, <2>1, CurrentCopy, StoredWrites DEF OneRecord, Doc
<1>4. ASSUME NEW c \in Calls, Replace(c) /\ Unchanged(c) PROVE OneRecord'
  <2>1. call[c].pc = "write"
    BY <1>4 DEF Replace, At
  <2>2. Leaving \subseteq Leaving'
    BY <1>4, <2>1, ReplaceStep, LeavingReturn, NoCallFits DEF Return
  <2> QED BY <1>3, <1>4, <2>2, ReplaceStep
<1>5. ASSUME NEW c \in Calls, Confirm(c) /\ Unchanged(c) PROVE OneRecord'
  BY <1>3, <1>5, ConfirmStep, ConfirmLeaving
<1>6. ASSUME NEW c \in Calls, Remove(c) \/ RemoveOld(c) PROVE OneRecord'
  <2>1. Drops(Path(c)) /\ Return(c)
    BY <1>6, DropStep
  <2>2. Leaving \subseteq Leaving' \cup {Path(c)}
    BY <2>1, LeavingReturn, NoCallFits DEF Return
  <2>3. Stored' = Stored \ {Path(c)} /\ (\A q \in Stored \ {Path(c)} : docs'[q] = docs[q])
          /\ UNCHANGED <<reused, stale>>
    BY <2>1, StoredDrops DEF Drops
  <2> QED BY <2>2, <2>3 DEF OneRecord
<1>7. ASSUME NEW c \in Calls, CreateNew(c) /\ docs[call[c].to] = NoDoc PROVE OneRecord'
  <2>1. PICK d : /\ Adds(call[c].to, d) /\ d.uid = call[c].doc.uid
                 /\ Path(c) \in Users
                 /\ call' = [call EXCEPT ![c].pc = "removeOld", ![c].tries = 0]
                 /\ stale' = IF Copied(c) THEN stale \cup {Path(c)} ELSE stale
    BY <1>7, RenameStep
  <2>2. Leaving' = Leaving \cup {Path(c)}
    BY <2>1, LeavingNew DEF Paths
  <2>3. /\ Stored' = Stored \cup {call[c].to} /\ (\A q \in Stored : docs'[q] = docs[q])
        /\ docs'[call[c].to] = d /\ reused \subseteq reused'
    BY <2>1, StoredAdds
  <2>4. stale' = {} => stale = {}
          /\ \A p \in (Users \cap Stored) \ Leaving' : docs[p].uid # call[c].doc.uid
    BY <2>1, <2>2 DEF Copied
  <2> QED BY <2>1, <2>2, <2>3, <2>4 DEF OneRecord
<1>8. ASSUME NEW c \in Calls, WriteProvider(c) /\ Doc(c) = NoDoc PROVE OneRecord'
  <2>1. Adds(Path(c), call[c].doc) /\ Return(c) /\ Path(c) \in Providers /\ stale' = stale
          /\ call[c].pc = "create"
    BY <1>8, ProviderStep DEF WriteProvider, At
  <2>2. Leaving \subseteq Leaving'
    BY <2>1, LeavingReturn, NoCallFits DEF Return
  <2>3. Users \cap Stored' = Users \cap Stored /\ (\A q \in Stored : docs'[q] = docs[q])
          /\ reused \subseteq reused'
    BY <2>1, StoredAdds, VaultAssumption
  <2> QED BY <2>1, <2>2, <2>3 DEF OneRecord
<1>9. CASE Quiet /\ call' = call
  BY <1>9 DEF Quiet, OneRecord, Stored, Leaving, At, Path
<1> QED BY <1>1, <1>2, <1>4, <1>5, <1>6, <1>7, <1>8, <1>9, StepCases

\* Every step preserves CopiesSettled.
LEMMA CopiesSettledNext ==
  ASSUME TypeOK, CallsFit, SessionsFit, CopiesFit, RevocationKept, CopiesSettled, [Next]_vars
  PROVE  CopiesSettled'
<1>0. ASSUME stale \subseteq stale', reused \subseteq reused', settled' = settled,
             \A e \in Calls : \/ call'[e].doc = NoDoc \/ call'[e].op # "RenameUser"
                              \/ call'[e].op = call[e].op /\ call'[e].doc = call[e].doc
      PROVE  CopiesSettled'
  BY <1>0 DEF CopiesSettled
<1>r. ASSUME NEW c \in Calls, Return(c)
      PROVE call'[c].doc = NoDoc /\ \A e \in Calls \ {c} : call'[e] = call[e]
  BY <1>r, NoCallFits DEF Return, TypeOK
<1>1. ASSUME NEW c \in Calls, QuietStep(c) PROVE CopiesSettled'
  <2>1. Keeps /\ stale \subseteq stale'
    BY <1>1, QuietKeeps
  <2>2. PICK r \in CallRecords : Fits(r) /\ Follows(c, r) /\ call' = [call EXCEPT ![c] = r]
    BY <1>1, QuietKeeps DEF Goes
  <2>3. call'[c] = r /\ \A e \in Calls \ {c} : call'[e] = call[e]
    BY <2>2 DEF TypeOK
  <2>4. CASE r.op = "RenameUser" /\ r.doc = Doc(c) /\ Path(c) \in Stored /\ r.path = Path(c)
    <3>1. Path(c) \in Users \cap Stored
      BY <2>2, <2>4 DEF Fits
    <3>2. stale = {} /\ reused = {} => \A s \in settled : r.doc.uid = s[1]
            => r.doc.data.keys[s[2]] = s[3]
      BY <2>4, <3>1 DEF RevocationKept, Doc
    <3> QED BY <2>1, <2>3, <3>2 DEF CopiesSettled, Keeps
  <2>5. CASE r.doc = NoDoc \/ r.op # "RenameUser" \/ (r.op = call[c].op /\ r.doc = call[c].doc)
    BY <1>0, <2>1, <2>3, <2>5 DEF Keeps
  <2> QED BY <2>2, <2>4, <2>5 DEF Follows
<1>2. ASSUME NEW c \in Calls, NEW p \in Paths, Create(c, p) PROVE CopiesSettled'
  BY <1>0, <1>2, CreateStep, StoredAdds
<1>4. ASSUME NEW c \in Calls, Replace(c) /\ Unchanged(c) PROVE CopiesSettled'
  <2>1. /\ Return(c) /\ settled' = Settle(call[c], Doc(c).uid) /\ UNCHANGED <<stale, reused>>
    BY <1>4, ReplaceStep DEF Writes
  <2>2. ASSUME NEW e \in Calls, NEW s \in settled', stale = {}, reused = {},
               call'[e].op = "RenameUser", call'[e].doc # NoDoc, call'[e].doc.uid = s[1]
        PROVE  call'[e].doc.data.keys[s[2]] = s[3]
    <3>1. call'[e] = call[e]
      BY <2>1, <2>2, <1>r
    <3>2. CASE s \in settled
      BY <2>2, <3>1, <3>2 DEF CopiesSettled
    <3>3. CASE s \notin settled
      <4>1. s[1] = Doc(c).uid /\ ~Renaming(Doc(c).uid)
        BY <2>1, <2>2, <3>3 DEF Settle
      <4> QED BY <2>2, <3>1, <4>1 DEF Renaming
    <3> QED BY <3>2, <3>3
  <2> QED BY <2>1, <2>2 DEF CopiesSettled
<1>5. ASSUME NEW c \in Calls, Confirm(c) /\ Unchanged(c) PROVE CopiesSettled'
  <2>1. Goto(c, "remove") /\ UNCHANGED <<settled, stale, reused>>
    BY <1>5, ConfirmStep DEF Writes
  <2>2. \A e \in Calls : call'[e].doc = call[e].doc /\ call'[e].op = call[e].op
    BY <2>1, CallTyped DEF Goto, TypeOK, CallRecords
  <2> QED BY <1>0, <2>1, <2>2
<1>6. ASSUME NEW c \in Calls, Remove(c) \/ RemoveOld(c) PROVE CopiesSettled'
  BY <1>0, <1>6, <1>r, DropStep DEF Drops
<1>7. ASSUME NEW c \in Calls, CreateNew(c) /\ docs[call[c].to] = NoDoc PROVE CopiesSettled'
  <2>1. /\ \E d : Adds(call[c].to, d)
        /\ call' = [call EXCEPT ![c].pc = "removeOld", ![c].tries = 0]
        /\ stale \subseteq stale' /\ settled' = settled
    BY <1>7, RenameStep
  <2>2. \A e \in Calls : call'[e].doc = call[e].doc /\ call'[e].op = call[e].op
    BY <2>1, CallTyped DEF TypeOK, CallRecords
  <2> QED BY <1>0, <2>1, <2>2, StoredAdds
<1>8. ASSUME NEW c \in Calls, WriteProvider(c) /\ Doc(c) = NoDoc PROVE CopiesSettled'
  BY <1>0, <1>8, <1>r, ProviderStep, StoredAdds
<1>9. CASE Quiet /\ call' = call
  BY <1>9 DEF Quiet, CopiesSettled
<1> QED BY <1>1, <1>2, <1>4, <1>5, <1>6, <1>7, <1>8, <1>9, StepCases

\* Every step preserves RevocationKept: a key that is set is set in the only record that
\* stays, or a rename of its user is under way and it is not settled.
LEMMA RevocationNext ==
  ASSUME TypeOK, CallsFit, SessionsFit, CopiesFit, IdsGiven, OneRecord, CopiesSettled,
           RevocationKept,
           [Next]_vars
  PROVE  RevocationKept'
<1>1. ASSUME NEW c \in Calls, QuietStep(c) PROVE RevocationKept'
  <2>1. Keeps /\ stale \subseteq stale'
    BY <1>1, QuietKeeps
  <2> QED BY <2>1 DEF RevocationKept, Keeps, Stored
<1>2. ASSUME NEW c \in Calls, NEW p \in Paths, Create(c, p) PROVE RevocationKept'
  <2>1. /\ Adds(p, NewDoc) /\ NewDoc.uid = requests' /\ requests' = requests + 1
             /\ requests' <= MaxRequests /\ UNCHANGED <<settled, stale>>
    BY <1>2, CreateStep
  <2>2. requests' \notin Given
    BY <2>1, VaultAssumption DEF Given, TypeOK
  <2>3. Stored' = Stored \cup {p} /\ (\A q \in Stored : docs'[q] = docs[q])
          /\ docs'[p].uid = requests' /\ reused \subseteq reused'
    BY <2>1, StoredAdds
  <2>4. \A s \in settled : s[1] # requests'
    BY <2>2 DEF IdsGiven
  <2> QED BY <2>1, <2>3, <2>4 DEF RevocationKept
<1>4. ASSUME NEW c \in Calls, Replace(c) /\ Unchanged(c) PROVE RevocationKept'
  <2> SUFFICES ASSUME stale = {}, reused = {} PROVE RevocationKept'
    <3>1. UNCHANGED <<stale, reused>>
      BY <1>4, ReplaceStep DEF Writes
    <3> QED BY <3>1 DEF RevocationKept
  <2>1. settled' = Settle(call[c], Doc(c).uid)
    BY <1>4, ReplaceStep
  <2>2. PICK d : Writes(c, d) /\ d.data = Mutate(call[c], call[c].doc.data)
    BY <1>4, ReplaceStep
  <2>3. Path(c) \in Stored /\ call[c].doc = Doc(c) /\ d.uid = Doc(c).uid
    BY <2>2, CurrentCopy DEF Writes
  <2>4. Stored' = Stored /\ docs'[Path(c)] = d /\ (\A q \in Stored \ {Path(c)} : docs'[q] = docs[q])
    BY <2>2, StoredWrites
  <2> DEFINE r == call[c]
             v == IF r.op = "DeleteAccessKey" THEN "absent" ELSE r.val
  <2>5. \A m \in Names : d.data.keys[m] = IF r.op \in KeyOps
          /\ m = r.name THEN v ELSE Doc(c).data.keys[m]
    <3>1. Mutate(r, r.doc.data) # Refused /\ (r.op # "UpdateAccessKey"
            => r.val = "on") /\ (r.op \in Named => r.name \in Names)
      BY <1>4 DEF CallsFit, Fits, Replace, At
    <3>2. r \in CallRecords /\ r.doc.data \in Contents
      BY <2>3, CallTyped, DocTyped DEF Doc
    <3> QED BY <2>2, <2>3, <3>1, <3>2, MutateKeeps
  <2>6. ASSUME NEW p \in Users \cap Stored, NEW s \in settled', docs'[p].uid = s[1]
        PROVE  docs'[p].data.keys[s[2]] = s[3]
    <3>1. docs[p].uid = s[1] /\ s[2] \in Names
      <4>1. s \in Nat \X Names \X (Statuses \cup {"absent"})
        BY TypeNext DEF TypeOK
      <4> QED BY <2>3, <2>4, <2>6, <4>1 DEF Doc
    <3>2. CASE s \in settled /\ (r.op \in KeyOps => <<s[1], s[2]>> # <<Doc(c).uid, r.name>>)
      <4>1. docs[p].data.keys[s[2]] = s[3]
        BY <3>1, <3>2 DEF RevocationKept
      <4>2. CASE p = Path(c)
        <5>1. docs'[p].data.keys[s[2]] = docs[p].data.keys[s[2]]
          BY <2>4, <2>5, <3>1, <3>2, <4>2 DEF Doc
        <5> QED BY <4>1, <5>1
      <4>3. CASE p # Path(c)
        BY <2>4, <4>1, <4>3
      <4> QED BY <4>2, <4>3
    <3>3. CASE ~(s \in settled /\ (r.op \in KeyOps => <<s[1], s[2]>> # <<Doc(c).uid, r.name>>))
      <4>1. r.op \in KeyOps /\ s = <<Doc(c).uid, r.name, v>> /\ ~Renaming(Doc(c).uid)
        BY <2>1, <3>3 DEF Settle, KeyOps
      <4>2. Path(c) \in Users
        BY <4>1 DEF CallsFit, Fits, Path
      <4>3. ASSUME NEW q \in Users \cap Stored, docs[q].uid = Doc(c).uid PROVE q \notin Leaving
        <5> SUFFICES ASSUME NEW e \in Calls, call[e].pc = "removeOld", Path(e) = q PROVE FALSE
          BY DEF Leaving, At
        <5>1. call[e].doc # NoDoc /\ call[e].op = "RenameUser"
          BY DEF CallsFit, Fits
        <5>2. call[e].doc.uid = Doc(c).uid
          BY <4>3, <5>1 DEF CopiesFit, Doc
        <5> QED BY <4>1, <5>1, <5>2 DEF Renaming
      <4>4. p = Path(c)
        <5>1. docs[p].uid = docs[Path(c)].uid
          BY <3>1, <4>1 DEF Doc
        <5>2. p \in (Users \cap Stored) \ Leaving /\ Path(c) \in (Users \cap Stored) \ Leaving
          BY <2>3, <4>2, <4>3, <5>1 DEF Doc
        <5> QED BY <5>1, <5>2 DEF OneRecord
      <4> QED BY <2>4, <2>5, <3>1, <4>1, <4>4
    <3> QED BY <3>2, <3>3
  <2> QED BY <2>4, <2>6 DEF RevocationKept
<1>5. ASSUME NEW c \in Calls, Confirm(c) /\ Unchanged(c) PROVE RevocationKept'
  <2>1. PICK d : Writes(c, d) /\ d.data = call[c].doc.data
    BY <1>5, ConfirmStep
  <2>2. UNCHANGED <<settled, stale, reused>>
    BY <1>5, <2>1, ConfirmStep DEF Writes
  <2>3. Path(c) \in Stored /\ (reused = {} => d.uid = Doc(c).uid /\ d.data = Doc(c).data)
    BY <2>1, CurrentCopy DEF Writes
  <2>4. Stored' = Stored /\ docs'[Path(c)] = d /\ (\A q \in Stored \ {Path(c)} : docs'[q] = docs[q])
    BY <2>1, StoredWrites
  <2> QED BY <2>2, <2>3, <2>4 DEF RevocationKept, Doc
<1>6. ASSUME NEW c \in Calls, Remove(c) \/ RemoveOld(c) PROVE RevocationKept'
  <2>1. Drops(Path(c))
    BY <1>6, DropStep
  <2>3. Stored' = Stored \ {Path(c)} /\ (\A q \in Stored \ {Path(c)} : docs'[q] = docs[q])
          /\ UNCHANGED <<settled, stale, reused>>
    BY <2>1, StoredDrops DEF Drops
  <2> QED BY <2>3 DEF RevocationKept
<1>7. ASSUME NEW c \in Calls, CreateNew(c) /\ docs[call[c].to] = NoDoc PROVE RevocationKept'
  <2>1. PICK d : /\ Adds(call[c].to, d) /\ d.uid = call[c].doc.uid /\ d.data = call[c].doc.data
                 /\ call[c].op = "RenameUser" /\ call[c].doc \in Docs
                 /\ stale \subseteq stale' /\ settled' = settled
    BY <1>7, RenameStep
  <2>3. /\ Stored' = Stored \cup {call[c].to} /\ (\A q \in Stored : docs'[q] = docs[q])
        /\ docs'[call[c].to] = d /\ reused \subseteq reused'
    BY <2>1, StoredAdds
  <2>4. stale = {} /\ reused = {} => \A s \in settled : d.uid = s[1] => d.data.keys[s[2]] = s[3]
    BY <2>1, NoDocAssumption DEF CopiesSettled
  <2> QED BY <2>1, <2>3, <2>4 DEF RevocationKept
<1>8. ASSUME NEW c \in Calls, WriteProvider(c) /\ Doc(c) = NoDoc PROVE RevocationKept'
  <2>1. Adds(Path(c), call[c].doc) /\ Path(c) \in Providers /\ UNCHANGED <<settled, stale>>
    BY <1>8, ProviderStep
  <2>3. Users \cap Stored' = Users \cap Stored /\ (\A q \in Stored : docs'[q] = docs[q])
          /\ reused \subseteq reused'
    BY <2>1, StoredAdds, VaultAssumption
  <2> QED BY <2>1, <2>3 DEF RevocationKept
<1>9. CASE Quiet /\ call' = call
  BY <1>9 DEF Quiet, RevocationKept, Stored
<1> QED BY <1>1, <1>2, <1>4, <1>5, <1>6, <1>7, <1>8, <1>9, StepCases

\* A write leaves to the lookups that are still kept the user they seek.
LEMMA PutKeepsLookups ==
  ASSUME TypeOK, CallsFit, LookupsFind, NEW D, Put(D), NEW c \in Calls, call[c].pc # "look",
         \A e \in Calls \ {c} : call'[e] = call[e]
  PROVE  LookupsFind'
<1>1. ASSUME NEW e \in kept' PROVE e \in kept /\ e # c /\ call'[e] = call[e] /\ At(e, "look")
               /\ call[e].op \in Searches
  BY <1>1 DEF Put, LookupsFind, At, TypeOK
<1>2. ASSUME NEW e \in kept', NEW p \in Users \cap Stored
      PROVE  docs'[p] # NoDoc /\ (Holds(docs, p, call[e].name) => Holds(docs', p, call[e].name))
  BY DEF Put
<1>3. ASSUME NEW e \in kept'
      PROVE  /\ call[e].todo \subseteq Users \cap Stored'
             /\ \E p \in call[e].todo : Holds(docs', p, call[e].name)
  <2>1. call[e].todo \subseteq Users \cap Stored
          /\ \E p \in call[e].todo : Holds(docs, p, call[e].name)
    BY <1>1 DEF LookupsFind
  <2>2. Users \cap Stored \subseteq Stored'
    BY <1>2 DEF Stored
  <2> QED BY <1>2, <2>1, <2>2
<1> QED BY <1>1, <1>3 DEF LookupsFind, At, Holds

\* So does a step that writes nothing.
LEMMA SameKeepsLookups ==
  ASSUME TypeOK, LookupsFind, docs' = docs, kept' \subseteq kept,
           \A e \in kept' : call'[e] = call[e]
  PROVE  LookupsFind'
BY DEF LookupsFind, At, Holds, Stored

\* Every step preserves LookupsFind, and no lookup that is kept misses its key.
LEMMA LookupsNext ==
  ASSUME TypeOK, CallsFit, SessionsFit, LookupsFind, KeyFound, [Next]_vars
  PROVE  LookupsFind' /\ KeyFound'
<1>1. CASE (\E c \in Calls : Session(c)) \/ (\E s \in Sessions : Expire(s)) \/ UNCHANGED vars
  <2>1. Quiet /\ call' = call
    BY <1>1, SessionStep
  <2> QED BY <2>1, SameKeepsLookups DEF Quiet, KeyFound
<1>2. ASSUME NEW c \in Calls, Begins(c) PROVE LookupsFind' /\ KeyFound'
  <2>1. PICK r : Begin(c, r)
    BY <1>2, BeginsFit DEF Begins
  <2>2. /\ call[c].pc = "idle" /\ UNCHANGED <<docs, kept, missed>>
        /\ \A e \in Calls \ {c} : call'[e] = call[e]
    BY <2>1 DEF Begin, Start, Idle, NoCall, TypeOK, kv, ghosts
  <2>3. kept' \subseteq Calls \ {c}
    BY <2>2 DEF LookupsFind, At, TypeOK
  <2> QED BY <2>2, <2>3, SameKeepsLookups DEF KeyFound
<1>3. ASSUME NEW c \in Calls, NEW p \in Paths, Create(c, p) PROVE LookupsFind' /\ KeyFound'
  <2>1. call[c].pc = "idle" /\ call' = call /\ missed' = missed /\ \E D : Put(D)
    BY <1>3 DEF Create, Idle, NoCall
  <2> QED BY <2>1, PutKeepsLookups DEF KeyFound
<1>4. ASSUME NEW c \in Calls, Step(c) \/ RemoveOldFails(c) \/ Fails(c)
      PROVE LookupsFind' /\ KeyFound'
  <2>a. \A e \in Calls \ {c} : call'[e] = call[e]
    BY <1>4, StepsGo DEF Goes, TypeOK
  <2>b. ASSUME docs' = docs, kept' = kept, missed' = missed, call[c].pc # "look"
        PROVE LookupsFind' /\ KeyFound'
    <3>1. kept' \subseteq Calls \ {c}
      BY <2>b DEF LookupsFind, At, TypeOK
    <3> QED BY <2>a, <2>b, <3>1, SameKeepsLookups DEF KeyFound
  <2>c. ASSUME NEW D, Put(D), missed' = missed, call[c].pc # "look" PROVE LookupsFind' /\ KeyFound'
    BY <2>a, <2>c, PutKeepsLookups DEF KeyFound
  <2>1. CASE Read(c)
    BY <2>1, <2>b DEF Read, At, kv, ghosts
  <2>2. CASE Replace(c)
    BY <2>2, <2>b, <2>c DEF Replace, At
  <2>3. CASE Confirm(c)
    BY <2>3, <2>b, <2>c DEF Confirm, At
  <2>4. CASE Remove(c)
    BY <2>4, <2>c DEF Remove, At
  <2>5. CASE CheckName(c)
    BY <2>5, <2>b DEF CheckName, At, kv, ghosts
  <2>6. CASE CreateNew(c)
    BY <2>6, <2>b, <2>c DEF CreateNew, At
  <2>7. CASE RemoveOld(c)
    BY <2>7, <2>c DEF RemoveOld, At
  <2>8. CASE CountProviders(c)
    BY <2>8, <2>b DEF CountProviders, At, kv, ghosts
  <2>9. CASE WriteProvider(c)
    BY <2>9, <2>b, <2>c DEF WriteProvider, At
  <2>10. CASE RemoveOldFails(c)
    BY <2>10, <2>b DEF RemoveOldFails, At, kv
  <2>11. CASE Fails(c)
    <3>1. docs' = docs /\ kept' = kept \ {c} /\ missed' = missed
      BY <2>11 DEF Fails, kv
    <3>2. kept' \subseteq Calls \ {c}
      BY <3>1 DEF TypeOK
    <3> QED BY <2>a, <3>1, <3>2, SameKeepsLookups DEF KeyFound
  <2>12. CASE List(c)
    <3> DEFINE found == Stored \cap Scanned(call[c].op)
    <3>1. /\ IF found = {} THEN Return(c)
             ELSE call' = [call EXCEPT ![c].pc = "look", ![c].todo = found]
          /\ kept' = IF \E p \in found : Holds(docs, p, call[c].name) THEN kept \cup {c}
               ELSE kept \ {c}
          /\ UNCHANGED <<docs, missed>> /\ call[c].pc = "list" /\ call[c].op # "CreateProvider"
      BY <2>12 DEF List, At, kv
    <3> HIDE DEF found
    <3>2. CASE \E p \in found : Holds(docs, p, call[c].name)
      <4>1. call[c].name # NoDoc /\ call[c].op \in Searches \cup Listings
        BY <3>1, <3>2, NoDocAssumption DEF Holds, Keys, CallsFit, Fits
      <4>2. call[c].op \in Searches
        BY <4>1 DEF CallsFit, Fits
      <4>3. found \subseteq Users \cap Stored
        BY <4>2 DEF found, Scanned, Searches
      <4>4. call'[c].pc = "look" /\ call'[c].todo = found /\ call'[c].op = call[c].op
              /\ call'[c].name = call[c].name
        <5>1. call' = [call EXCEPT ![c].pc = "look", ![c].todo = found]
          BY <3>1, <3>2
        <5> QED BY <5>1, CallTyped DEF TypeOK, CallRecords
      <4>5. kept' = kept \cup {c} /\ docs' = docs /\ missed' = missed
        BY <3>1, <3>2
      <4>6. /\ call'[c].pc = "look" /\ call'[c].op \in Searches
            /\ call'[c].todo \subseteq Users \cap Stored'
            /\ \E p \in call'[c].todo : Holds(docs', p, call'[c].name)
        BY <3>2, <4>2, <4>3, <4>4, <4>5 DEF Stored
      <4>7. ASSUME NEW e \in kept \ {c} PROVE /\ call'[e].pc = "look" /\ call'[e].op \in Searches
            /\ call'[e].todo \subseteq Users \cap Stored'
            /\ \E p \in call'[e].todo : Holds(docs', p, call'[e].name)
        BY <2>a, <4>5 DEF LookupsFind, At, TypeOK, Stored
      <4> QED BY <4>5, <4>6, <4>7 DEF LookupsFind, At, KeyFound
    <3>3. CASE ~\E p \in found : Holds(docs, p, call[c].name)
      <4>1. kept' \subseteq Calls \ {c} /\ kept' \subseteq kept
        BY <3>1, <3>3 DEF TypeOK
      <4> QED BY <2>a, <3>1, <4>1, SameKeepsLookups DEF KeyFound
    <3> QED BY <3>2, <3>3
  <2>13. ASSUME NEW p \in Paths, Visit(c, p) PROVE LookupsFind' /\ KeyFound'
    <3> DEFINE r == call[c]
               rest == r.todo \ {p}
               record == r.op = "RecordAccessKeyUsage"
               hit == r.op \in Searches /\ Holds(docs, p, r.name)
               goesOn == ~hit /\ rest # {} /\ (docs[p] # NoDoc \/ record)
    <3>1. /\ call' = [call EXCEPT ![c] =
                       IF goesOn THEN [r EXCEPT !.todo = rest]
                       ELSE IF hit /\ record THEN [r EXCEPT !.pc = "read", !.path = p, !.todo = {}]
                       ELSE NoCall]
          /\ kept' = IF goesOn THEN kept ELSE kept \ {c}
          /\ IF goesOn \/ hit THEN missed' = missed ELSE Miss(c)
          /\ docs' = docs /\ p \in r.todo
      BY <2>13 DEF Visit, kv
    <3> HIDE DEF goesOn
    <3>2. CASE goesOn /\ c \in kept
      <4>1. call'[c] = [r EXCEPT !.todo = rest] /\ kept' = kept /\ missed' = missed
        BY <3>1, <3>2 DEF TypeOK
      <4>2. call'[c].pc = "look" /\ call'[c].todo = rest /\ call'[c].op = r.op
              /\ call'[c].name = r.name
        BY <4>1, <3>2, CallTyped DEF CallRecords, LookupsFind, At
      <4>3. r.op \in Searches /\ r.todo \subseteq Users \cap Stored /\ ~Holds(docs, p, r.name)
              /\ \E q \in r.todo : Holds(docs, q, r.name)
        BY <3>2 DEF LookupsFind, goesOn
      <4>6. /\ call'[c].pc = "look" /\ call'[c].op \in Searches
            /\ call'[c].todo \subseteq Users \cap Stored'
            /\ \E q \in call'[c].todo : Holds(docs', q, call'[c].name)
        BY <3>1, <4>2, <4>3 DEF Stored
      <4>7. ASSUME NEW e \in kept \ {c} PROVE /\ call'[e].pc = "look" /\ call'[e].op \in Searches
            /\ call'[e].todo \subseteq Users \cap Stored'
            /\ \E q \in call'[e].todo : Holds(docs', q, call'[e].name)
        BY <2>a, <3>1 DEF LookupsFind, At, TypeOK, Stored
      <4> QED BY <4>1, <4>6, <4>7 DEF LookupsFind, At, KeyFound
    <3>3. CASE ~(goesOn /\ c \in kept)
      <4>1. kept' \subseteq Calls \ {c} /\ kept' \subseteq kept
        BY <3>1, <3>3 DEF TypeOK
      <4>2. missed' = missed
        <5>1. CASE c \notin kept
          BY <3>1, <5>1 DEF Miss
        <5>2. CASE c \in kept
          <6>1. r.op \in Searches /\ docs[p] # NoDoc /\ \E q \in r.todo : Holds(docs, q, r.name)
            BY <3>1, <5>2 DEF LookupsFind, Stored
          <6>2. hit
            BY <3>3, <5>2, <6>1 DEF goesOn
          <6> QED BY <3>1, <6>2
        <5> QED BY <5>1, <5>2
      <4> QED BY <2>a, <3>1, <4>1, <4>2, SameKeepsLookups DEF KeyFound
    <3> QED BY <3>2, <3>3
  <2> QED
    BY <1>4, <2>1, <2>2, <2>3, <2>4, <2>5, <2>6, <2>7, <2>8, <2>9, <2>10, <2>11, <2>12, <2>13 DEF
       Step
<1> QED BY <1>1, <1>2, <1>3, <1>4 DEF Next, Request, Begins

\* Every step preserves SessionsFit and SessionUsable: what is purged was not live when it
\* was looked at, and a session is written by one request only.
LEMMA SessionsNext ==
  ASSUME TypeOK, CallsFit, SessionsFit, SessionUsable, [Next]_vars
  PROVE  SessionsFit' /\ SessionUsable'
<1> USE DEF SessionsFit, SessionUsable
<1>0. granted \subseteq Sessions /\ NoDoc \notin granted
  BY NoDocAssumption DEF TypeOK
<1>a. scall \in [Calls -> SessionRecords]
        /\ sess \in [Sessions -> {"none", "meta", "live", "expired"}]
  BY DEF TypeOK
<1>b. ASSUME NEW c \in Calls, NEW r, scall' = [scall EXCEPT ![c] = r]
      PROVE  scall'[c] = r /\ \A e \in Calls \ {c} : scall'[e] = scall[e]
  BY <1>a, <1>b
<1>c. ASSUME NEW c \in Calls, SReturn(c), UNCHANGED <<sess, granted>>
      PROVE SessionsFit' /\ SessionUsable'
  BY <1>0, <1>b, <1>c DEF SReturn, NoSession
<1>d. ASSUME NEW c \in Calls, NEW r, r.id \in Sessions, r.victim \in {scall[c].victim, NoDoc},
               scall'
               = [scall EXCEPT ![c] = r],
             UNCHANGED <<sess, granted>>
      PROVE  SessionsFit' /\ SessionUsable'
  BY <1>0, <1>b, <1>d
<1>1. ASSUME NEW c \in Calls, NEW s \in Sessions, CreateSession(c, s) \/ GetSession(c, s)
      PROVE SessionsFit' /\ SessionUsable'
  <2>1. [NoSession EXCEPT !.pc = "list", !.id = s, !.new = TRUE].id = s
          /\ [NoSession EXCEPT !.pc = "list", !.id = s, !.new = TRUE].victim = NoDoc
        /\ [NoSession EXCEPT !.pc = "look", !.id = s, !.todo = {s}].id = s
             /\ [NoSession EXCEPT !.pc = "look", !.id = s, !.todo = {s}].victim = NoDoc
    BY DEF NoSession
  <2> QED BY <1>1, <1>d, <2>1 DEF CreateSession, GetSession, SStart
<1>2. ASSUME NEW c \in Calls, ListSessions(c) PROVE SessionsFit' /\ SessionUsable'
  <2> DEFINE r == [scall[c] EXCEPT !.pc = "look", !.todo = {s \in Sessions : sess[s] # "none"}]
  <2>1. r.id = scall[c].id /\ r.victim = scall[c].victim
    BY <1>a DEF SessionRecords
  <2>2. scall' = [scall EXCEPT ![c] = r] /\ UNCHANGED <<sess, granted>> /\ scall[c].pc # "idle"
    BY <1>2, <1>a DEF ListSessions
  <2> QED BY <1>d, <2>1, <2>2
<1>3. ASSUME NEW c \in Calls, NEW s \in Sessions, Look(c, s) PROVE SessionsFit' /\ SessionUsable'
  <2>1. CASE sess[s] = "live"
    <3> DEFINE r == [scall[c] EXCEPT !.todo = @ \ {s}, !.n = @ + 1]
    <3>1. r.id = scall[c].id /\ r.victim = scall[c].victim
      BY <1>a DEF SessionRecords
    <3>2. scall' = [scall EXCEPT ![c] = r] /\ UNCHANGED <<sess, granted>> /\ scall[c].pc # "idle"
      BY <1>3, <1>a, <2>1 DEF Look
    <3> QED BY <1>d, <3>1, <3>2
  <2>2. CASE sess[s] # "live"
    <3> DEFINE r == [scall[c] EXCEPT !.pc = "purge", !.victim = s]
    <3>1. r.id = scall[c].id /\ r.victim = s
      BY <1>a DEF SessionRecords
    <3>2. scall' = [scall EXCEPT ![c] = r] /\ UNCHANGED <<sess, granted>> /\ scall[c].pc # "idle"
      BY <1>3, <1>a, <2>2 DEF Look
    <3>3. s \notin granted
      BY <2>2
    <3> HIDE DEF r
    <3> QED BY <1>b, <3>1, <3>2, <3>3
  <2> QED BY <2>1, <2>2
<1>4. ASSUME NEW c \in Calls, PurgeSession(c) PROVE SessionsFit' /\ SessionUsable'
  <2> DEFINE r == [scall[c] EXCEPT !.pc = "look", !.todo = @ \ {scall[c].victim}, !.victim = NoDoc]
  <2>1. r.id = scall[c].id /\ r.victim = NoDoc
    BY <1>a DEF SessionRecords
  <2>2. scall' = [scall EXCEPT ![c] = r] /\ granted' = granted /\ scall[c].pc # "idle"
    BY <1>4, <1>a DEF PurgeSession
  <2>3. \A s \in granted : sess'[s] = sess[s]
    BY <1>0, <1>4, <1>a DEF PurgeSession
  <2> HIDE DEF r
  <2> QED BY <1>0, <1>b, <2>1, <2>2, <2>3
<1>5. ASSUME NEW c \in Calls, Counted(c) PROVE SessionsFit' /\ SessionUsable'
  <2> DEFINE r == [scall[c] EXCEPT !.pc = "ttl"]
  <2>1. r.id = scall[c].id /\ r.victim = scall[c].victim
    BY <1>a DEF SessionRecords
  <2>2. UNCHANGED <<sess, granted>> /\ scall[c].pc # "idle" /\ (SReturn(c)
          \/ scall' = [scall EXCEPT ![c] = r])
    BY <1>5, <1>a DEF Counted, SGoto
  <2> QED BY <1>c, <1>d, <2>1, <2>2
<1>6. ASSUME NEW c \in Calls, SetTTL(c) PROVE SessionsFit' /\ SessionUsable'
  <2> DEFINE r == [scall[c] EXCEPT !.pc = "write"]
  <2>1. r.id = scall[c].id /\ r.victim = scall[c].victim
    BY <1>a DEF SessionRecords
  <2>2. scall' = [scall EXCEPT ![c] = r] /\ granted' = granted /\ scall[c].pc # "idle"
    BY <1>6, <1>a DEF SetTTL, SGoto
  <2>3. \A s \in granted : sess'[s] = sess[s]
    BY <1>0, <1>6, <1>a DEF SetTTL
  <2> HIDE DEF r
  <2> QED BY <1>0, <1>b, <2>1, <2>2, <2>3
<1>7. ASSUME NEW c \in Calls, WriteSession(c) PROVE SessionsFit' /\ SessionUsable'
  <2>1. scall[c].id \in Sessions
    BY <1>7 DEF WriteSession
  <2>2. /\ sess' = [sess EXCEPT ![scall[c].id] = "live"]
        /\ granted' = IF \E d \in Calls : scall[d].victim = scall[c].id THEN granted
             ELSE granted \cup {scall[c].id}
        /\ scall' = [scall EXCEPT ![c] = NoSession]
    BY <1>7 DEF WriteSession, SReturn
  <2>3. SessionUsable'
    BY <1>0, <1>a, <2>1, <2>2
  <2>4. NoSession.pc = "idle" /\ NoSession.victim = NoDoc /\ NoDoc \notin granted'
    BY <1>0, <2>1, <2>2, NoDocAssumption DEF NoSession
  <2>5. SessionsFit'
    BY <1>b, <2>2, <2>4
  <2> QED BY <2>3, <2>5
<1>8. ASSUME NEW c \in Calls, SessionFails(c) PROVE SessionsFit' /\ SessionUsable'
  BY <1>8, <1>c DEF SessionFails
<1>9. ASSUME NEW s \in Sessions, Expire(s) PROVE SessionsFit' /\ SessionUsable'
  BY <1>9, <1>0, <1>a DEF Expire
<1>10. ASSUME UNCHANGED <<sess, scall, granted>> PROVE SessionsFit' /\ SessionUsable'
  BY <1>10
<1>11. ASSUME NEW c \in Calls, Step(c) \/ RemoveOldFails(c) \/ Fails(c)
       PROVE UNCHANGED <<sess, scall, granted>>
  BY <1>11 DEF Step, RemoveOldFails, Fails, Read, Replace, Confirm, Remove, CheckName, CreateNew,
     RemoveOld, CountProviders, WriteProvider, List, Visit, kv
<1>12. ASSUME NEW c \in Calls, Request(c) PROVE UNCHANGED <<sess, scall, granted>>
  <2>1. ASSUME NEW p \in Paths, Create(c, p) PROVE UNCHANGED <<sess, scall, granted>>
    BY <2>1 DEF Create
  <2>2. CASE Begins(c)
    BY <2>2, BeginsFit DEF Begins, Begin, kv
  <2> QED BY <1>12, <2>1, <2>2 DEF Request, Begins
<1> HIDE DEF SessionsFit, SessionUsable
<1>13. CASE UNCHANGED vars
  BY <1>10, <1>13 DEF vars
<1> QED
  BY <1>1, <1>2, <1>3, <1>4, <1>5, <1>6, <1>7, <1>8, <1>9, <1>10, <1>11, <1>12, <1>13 DEF Next,
     Session

----------------------------------------------------------------------------
(* The theorems *)
\* The invariant holds initially.
LEMMA InitIInv == Init => IInv
<1> SUFFICES ASSUME Init PROVE IInv
  OBVIOUS
<1> USE VaultAssumption, NoDocAssumption, SeedAssumption DEF Init
<1>0. NoSession \in SessionRecords
  BY DEF NoSession, SessionRecords
<1>1. \A p \in Paths : Seed[p] # NoDoc => Seed[p] \in Docs /\ Seed[p].uid \in Nat
  BY DEF Docs
<1>2. TypeOK
  <2>1. existing \subseteq Nat
    BY <1>1
  <2> QED BY <1>0, <2>1, NoCallFits DEF TypeOK
<1>3. CallsFit
  BY NoCallFits DEF CallsFit
<1>4. CopiesFit /\ CopiesSettled
  BY NoCallFits DEF CopiesFit, CopiesSettled, Stored
<1>5. Leaving = {}
  BY NoCallFits DEF Leaving, At
<1>6. RecordStays
  BY <1>5 DEF RecordStays, Stored
<1>7. IdsGiven
  <2>1. \A p \in Stored : docs[p].uid \in Nat /\ docs[p].uid > MaxRequests
    BY <1>1 DEF Stored
  <2> QED BY <2>1, NoCallFits DEF IdsGiven, Given
<1>8. OneRecord
  BY DEF OneRecord, Stored
<1>9. RevocationKept /\ LookupsFind /\ KeyFound /\ SessionUsable
  BY DEF RevocationKept, LookupsFind, KeyFound, SessionUsable
<1>10. SessionsFit
  BY DEF SessionsFit, NoSession
<1> QED BY <1>2, <1>3, <1>4, <1>6, <1>7, <1>8, <1>9, <1>10 DEF IInv

\* Every step preserves the invariant.
LEMMA NextIInv == IInv /\ [Next]_vars => IInv'
BY TypeNext, CopiesNext, RecordNext, IdsNext, OneRecordNext, CopiesSettledNext, RevocationNext,
   LookupsNext, SessionsNext DEF IInv

\* IInv holds in every reachable state.
THEOREM InductiveInvariant == Spec => []IInv
BY InitIInv, NextIInv, PTL DEF Spec

\* Every variable keeps its type.
THEOREM TypeCorrect == Spec => []TypeOK
<1>1. IInv => TypeOK
  BY DEF IInv
<1> QED BY <1>1, InductiveInvariant, PTL

\* A user whom no request deleted has a record at every moment, for any number of gateways,
\* concurrent renames, failures and crashes, while no name is created again.
THEOREM UserKept == Spec => []UserNotLost
<1>1. IInv => UserNotLost
  BY DEF IInv, RecordStays, UserNotLost
<1> QED BY <1>1, InductiveInvariant, PTL

\* A key keeps the status it was given, a lookup finds the key that is there all along, and
\* a session that was handed out is found until it expires, for any number of gateways.
THEOREM AccessRight == Spec => []AccessKept
<1>1. IInv => AccessKept
  BY DEF IInv, AccessKept
<1> QED BY <1>1, InductiveInvariant, PTL

\* The document at p is still of the same identity and has one change at most.
Kept(p) == docs'[p] # NoDoc => /\ docs'[p].uid = docs[p].uid
                               /\ Differences(docs[p].data, docs'[p].data) <= 1

\* A document does not differ from itself.
LEMMA NoDifference == ASSUME NEW d \in Contents PROVE Differences(d, d) <= 1
<1>1. Cardinality({}) = 0
  BY FS_EmptySet
<1>2. {n \in Names : d.keys[n] # d.keys[n]} = {}
        /\ {n \in Names : d.policies[n] # d.policies[n]} = {}
      /\ (d.tags \ d.tags) \cup (d.tags \ d.tags) = {}
           /\ (d.clients \ d.clients) \cup (d.clients \ d.clients) = {}
  OBVIOUS
<1> QED BY <1>1, <1>2 DEF Differences

\* A step changes at most one entry of a document, whichever copy it was made from.
LEMMA UpdatesNext ==
  ASSUME IInv, [Next]_vars, NEW p \in Stored \ reused
  PROVE  Kept(p)
<1> USE DEF IInv
<1>0. docs[p] \in Docs /\ docs[p].data \in Contents
  BY DocTyped
<1>a. ASSUME docs'[p] = docs[p] PROVE Kept(p)
  BY <1>0, <1>a, NoDifference DEF Kept
<1>1. ASSUME NEW c \in Calls, QuietStep(c) PROVE Kept(p)
  BY <1>1, <1>a, QuietKeeps DEF Keeps
<1>2. ASSUME NEW c \in Calls, NEW q \in Paths, Create(c, q) PROVE Kept(p)
  BY <1>2, <1>a, CreateStep, StoredAdds
<1>3. ASSUME NEW c \in Calls, Replace(c) /\ Unchanged(c) PROVE Kept(p)
  <2>1. PICK d : Writes(c, d) /\ d.data = Mutate(call[c], call[c].doc.data)
    BY <1>3, ReplaceStep
  <2>2. docs'[Path(c)] = d /\ (\A q \in Stored \ {Path(c)} : docs'[q] = docs[q])
    BY <2>1, StoredWrites
  <2>3. CASE p = Path(c)
    <3>1. call[c].doc = docs[p] /\ d.uid = docs[p].uid
      BY <2>1, <2>3, CurrentCopy DEF Writes, Doc
    <3>2. Mutate(call[c], call[c].doc.data) # Refused /\ (call[c].op # "UpdateAccessKey"
            => call[c].val = "on")
      BY <1>3 DEF CallsFit, Fits, Replace, At
    <3>3. Differences(docs[p].data, d.data) <= 1
      BY <1>0, <2>1, <3>1, <3>2, CallTyped, OneDifference
    <3> QED BY <2>2, <2>3, <3>1, <3>3 DEF Kept
  <2> QED BY <1>a, <2>2, <2>3
<1>4. ASSUME NEW c \in Calls, Confirm(c) /\ Unchanged(c) PROVE Kept(p)
  <2>1. PICK d : Writes(c, d) /\ d.data = call[c].doc.data
    BY <1>4, ConfirmStep
  <2>2. docs'[Path(c)] = d /\ (\A q \in Stored \ {Path(c)} : docs'[q] = docs[q])
    BY <2>1, StoredWrites
  <2>3. CASE p = Path(c)
    <3>1. call[c].doc = docs[p] /\ d.uid = docs[p].uid
      BY <2>1, <2>3, CurrentCopy DEF Writes, Doc
    <3> QED BY <1>0, <2>1, <2>2, <2>3, <3>1, NoDifference DEF Kept
  <2> QED BY <1>a, <2>2, <2>3
<1>5. ASSUME NEW c \in Calls, Remove(c) \/ RemoveOld(c) PROVE Kept(p)
  <2>1. Drops(Path(c))
    BY <1>5, DropStep
  <2>2. docs'[p] = docs[p] \/ docs'[p] = NoDoc
    BY <2>1 DEF Drops, TypeOK, Stored
  <2> QED BY <1>a, <2>2 DEF Kept
<1>6. ASSUME NEW c \in Calls, CreateNew(c) /\ docs[call[c].to] = NoDoc PROVE Kept(p)
  BY <1>6, <1>a, RenameStep, StoredAdds
<1>7. ASSUME NEW c \in Calls, WriteProvider(c) /\ Doc(c) = NoDoc PROVE Kept(p)
  BY <1>7, <1>a, ProviderStep, StoredAdds
<1>8. CASE Quiet
  BY <1>8, <1>a DEF Quiet
<1> HIDE DEF IInv
<1>9. TypeOK /\ CallsFit /\ SessionsFit
  BY DEF IInv
<1> QED BY <1>1, <1>2, <1>3, <1>4, <1>5, <1>6, <1>7, <1>8, <1>9, StepCases

\* Concurrent updates of one document never overwrite each other: every step changes at
\* most one entry of the document as it is and keeps whose it is, for any number of gateways
\* and retries (documents whose name was created again excepted).
THEOREM UpdatesKept == Spec => NoLostUpdate
<1> DEFINE A == \A p \in Stored \ reused : docs'[p] # NoDoc =>
                   /\ docs'[p].uid = docs[p].uid
                   /\ Differences(docs[p].data, docs'[p].data) <= 1
<1>1. IInv /\ [Next]_vars => [A]_vars
  BY UpdatesNext DEF Kept
<1> QED BY <1>1, InductiveInvariant, PTL DEF Spec, NoLostUpdate

----------------------------------------------------------------------------
(* The limits *)
\* Sets of at most a given size.
LEMMA AtMost ==
  ASSUME NEW S, IsFiniteSet(S), NEW T, T \subseteq S
  PROVE  IsFiniteSet(T) /\ Cardinality(T) \in Nat /\ Cardinality(S) \in Nat
           /\ Cardinality(T) <= Cardinality(S)
BY FS_Subset, FS_CardinalityType

\* One element more is at most one more.
LEMMA OneMore ==
  ASSUME NEW S, IsFiniteSet(S), NEW x, NEW T, T \subseteq S \cup {x}
  PROVE  IsFiniteSet(T) /\ Cardinality(T) \in Nat /\ Cardinality(S) \in Nat
           /\ Cardinality(T) <= Cardinality(S) + 1
<1>1. IsFiniteSet(S \cup {x}) /\ Cardinality(S) \in Nat
        /\ Cardinality(S \cup {x}) \in {Cardinality(S), Cardinality(S) + 1}
  BY FS_AddElement, FS_CardinalityType
<1> QED BY <1>1, AtMost

\* One element less is exactly one less.
LEMMA OneLess ==
  ASSUME NEW S, IsFiniteSet(S), NEW x \in S, NEW T, T \subseteq S \ {x}
  PROVE  IsFiniteSet(T) /\ Cardinality(T) \in Nat /\ Cardinality(S) \in Nat
           /\ Cardinality(T) + 1 <= Cardinality(S)
<1>1. IsFiniteSet(S \ {x}) /\ Cardinality(S) \in Nat
        /\ Cardinality(S \ {x}) = Cardinality(S) - 1
  BY FS_RemoveElement, FS_CardinalityType
<1> QED BY <1>1, AtMost

\* The bytes of policies are finitely many.
LEMMA BytesFinite == ASSUME NEW d PROVE IsFiniteSet(Bytes(d, Names))
<1>1. IsFiniteSet(Names \X (1..MaxBytes))
  <2>1. IsFiniteSet(1..MaxBytes)
    BY FS_Interval, VaultAssumption
  <2> QED BY <2>1, FS_Product, LimitsAssumption
<1>2. Bytes(d, Names) \subseteq Names \X (1..MaxBytes)
  BY DEF Bytes
<1> QED BY <1>1, <1>2, AtMost

\* PutPolicy keeps the quota: the other policies and the one it puts are within it.
LEMMA PutWithin ==
  ASSUME NEW d \in Contents, NEW n \in Names,
           NEW size \in 0..MaxBytes, PutPolicy(d, n, size) # Refused
  PROVE  Cardinality(Bytes(PutPolicy(d, n, size), Names)) <= MaxBytes
<1> DEFINE e == PutPolicy(d, n, size)
           O == Bytes(d, Names \ {n})
           P == {n} \X (1..size)
<1>0. MaxBytes \in Nat /\ size \in Nat /\ 1 \in Int
  BY VaultAssumption
<1>1. e = [d EXCEPT !.policies[n] = size] /\ ~(size + Cardinality(O) > MaxBytes)
  BY DEF PutPolicy, BytesBesides
<1>2. IsFiniteSet(O)
  <2>1. O \subseteq Bytes(d, Names)
    BY DEF Bytes
  <2> QED BY <2>1, BytesFinite, AtMost
<1>3. IsFiniteSet(P) /\ Cardinality(P) = size
  <2>1. IsFiniteSet(1..size) /\ Cardinality(1..size) = size
    BY <1>0, FS_Interval
  <2>2. IsFiniteSet({n}) /\ Cardinality({n}) = 1
    BY FS_Singleton
  <2>3. IsFiniteSet(P) /\ Cardinality(P) = 1 * size
    BY <2>1, <2>2, FS_Product
  <2> QED BY <1>0, <2>3
<1>4. \A m \in Names : e.policies[m] = IF m = n THEN size ELSE d.policies[m]
  BY <1>1 DEF Contents
<1>5. Bytes(e, Names) \subseteq O \cup P
  BY <1>0, <1>4 DEF Bytes
<1> HIDE DEF e, O, P
<1>6. IsFiniteSet(O \cup P) /\ Cardinality(O \cup P) <= Cardinality(O) + size
  <2>1. /\ IsFiniteSet(O \cup P)
        /\ Cardinality(O \cup P) = Cardinality(O) + Cardinality(P) - Cardinality(O \cap P)
    BY <1>2, <1>3, FS_Union
  <2>2. Cardinality(O) \in Nat /\ Cardinality(O \cap P) \in Nat
    BY <1>2, FS_CardinalityType, AtMost
  <2> QED BY <1>0, <1>3, <2>1, <2>2
<1>7. Cardinality(Bytes(e, Names)) <= Cardinality(O \cup P) /\ Cardinality(Bytes(e, Names)) \in Nat
        /\ Cardinality(O) \in Nat /\ Cardinality(O \cup P) \in Nat
  BY <1>2, <1>5, <1>6, AtMost, FS_CardinalityType
<1> QED BY <1>0, <1>1, <1>6, <1>7 DEF e

\* What a request makes of a document that is within the limits is within them.
LEMMA MutateWithin ==
  ASSUME NEW r \in CallRecords, NEW d \in Contents, Mutate(r, d) # Refused,
         r.op # "UpdateAccessKey" => r.val = "on", r.op \in Named => r.name \in Names,
         WithinLimits(d)
  PROVE  WithinLimits(Mutate(r, d))
<1> DEFINE n == r.name
           e == Mutate(r, d)
           Fit(x) == WithinLimits(x)
<1>0. {MaxKeys, MaxClients, MaxTags, MaxBytes} \subseteq Nat /\ IsFiniteSet(Names)
  BY VaultAssumption, LimitsAssumption
<1>1. Cardinality(Keys(d)) <= MaxKeys /\ Cardinality(d.tags) <= MaxTags
        /\ Cardinality(d.clients) <= MaxClients /\ Cardinality(Bytes(d, Names)) <= MaxBytes
  BY DEF WithinLimits
<1>2. IsFiniteSet(Keys(d)) /\ IsFiniteSet(d.tags) /\ IsFiniteSet(d.clients)
  <2>1. Keys(d) \subseteq Names /\ d.tags \subseteq Names /\ d.clients \subseteq Names
    BY DEF Keys, Contents
  <2> QED BY <1>0, <2>1, AtMost
<1>a. ASSUME NEW x, Keys(x) \subseteq Keys(d), x.tags = d.tags, x.clients = d.clients,
             x.policies = d.policies
      PROVE  WithinLimits(x)
  <2>1. Cardinality(Keys(x)) <= MaxKeys
    BY <1>0, <1>1, <1>2, <1>a, AtMost
  <2>2. Bytes(x, Names) = Bytes(d, Names)
    BY <1>a DEF Bytes
  <2> QED BY <1>1, <1>a, <2>1, <2>2 DEF WithinLimits
<1>b. ASSUME NEW x, Cardinality(Bytes(x, Names)) <= MaxBytes, x.tags = d.tags,
             x.clients = d.clients, x.keys = d.keys
      PROVE  WithinLimits(x)
  <2>1. Keys(x) = Keys(d)
    BY <1>b DEF Keys
  <2> QED BY <1>1, <1>b, <2>1 DEF WithinLimits
<1>c. ASSUME NEW x, Cardinality(x.tags) <= MaxTags, Cardinality(x.clients) <= MaxClients,
             x.policies = d.policies, x.keys = d.keys
      PROVE  WithinLimits(x)
  <2>1. Keys(x) = Keys(d) /\ Bytes(x, Names) = Bytes(d, Names)
    BY <1>c DEF Keys, Bytes
  <2> QED BY <1>1, <1>c, <2>1 DEF WithinLimits
<1>3. CASE r.op = "CreateAccessKey"
  <2>1. e = [d EXCEPT !.keys[n] = "on"] /\ ~(Cardinality(Keys(d)) >= MaxKeys) /\ n \in Names
    BY <1>3 DEF Mutate, CreateAccessKey, Named
  <2>2. Keys(e) \subseteq Keys(d) \cup {n} /\ e.tags = d.tags /\ e.clients = d.clients
          /\ e.policies = d.policies
    BY <2>1 DEF Keys, Contents
  <2>3. Cardinality(Keys(e)) <= MaxKeys
    <3>1. Cardinality(Keys(e)) \in Nat /\ Cardinality(Keys(d)) \in Nat
            /\ Cardinality(Keys(e)) <= Cardinality(Keys(d)) + 1
      BY <1>2, <2>2, OneMore
    <3> QED BY <1>0, <2>1, <3>1
  <2>4. Bytes(e, Names) = Bytes(d, Names)
    BY <2>2 DEF Bytes
  <2> QED BY <1>1, <2>2, <2>3, <2>4 DEF WithinLimits
<1>4. CASE r.op \in {"UpdateAccessKey", "DeleteAccessKey"}
  <2>1. n \in Keys(d) /\ \E v : e = [d EXCEPT !.keys[n] = v]
    BY <1>4 DEF Mutate, UpdateAccessKey, DeleteAccessKey
  <2>2. Keys(e) \subseteq Keys(d) /\ e.tags = d.tags /\ e.clients = d.clients
          /\ e.policies = d.policies
    BY <2>1 DEF Keys, Contents
  <2> QED BY <1>a, <2>2
<1>5. CASE r.op \in {"PutUserPolicy", "PutRolePolicy"}
  <2>1. e = PutPolicy(d, n, MaxBytes) /\ n \in Names /\ MaxBytes \in 0..MaxBytes
    BY <1>0, <1>5 DEF Mutate, PutUserPolicy, PutRolePolicy, Named
  <2>2. Cardinality(Bytes(e, Names)) <= MaxBytes
    BY <2>1, PutWithin
  <2>3. e.tags = d.tags /\ e.clients = d.clients /\ e.keys = d.keys
    <3>1. e = [d EXCEPT !.policies[n] = MaxBytes]
      BY <2>1 DEF PutPolicy
    <3> QED BY <3>1 DEF Contents
  <2> QED BY <1>b, <2>2, <2>3
<1>6. CASE r.op \in {"DeleteUserPolicy", "DeleteRolePolicy"}
  <2>1. e = [d EXCEPT !.policies[n] = 0] /\ n \in Names
    BY <1>6 DEF Mutate, DeleteUserPolicy, DeleteRolePolicy, DeletePolicy, Named
  <2>2. e.tags = d.tags /\ e.clients = d.clients /\ e.keys = d.keys
        /\ \A m \in Names : e.policies[m] = IF m = n THEN 0 ELSE d.policies[m]
    BY <2>1 DEF Contents
  <2>3. Bytes(e, Names) \subseteq Bytes(d, Names)
    BY <1>0, <2>2 DEF Bytes
  <2>4. Cardinality(Bytes(e, Names)) <= MaxBytes
    BY <1>0, <1>1, <2>3, BytesFinite, AtMost
  <2> QED BY <1>b, <2>2, <2>4
<1>7. CASE r.op \in {"TagUser", "TagRole", "TagProvider"}
  <2>1. e = mergeTags(d, n)
    BY <1>7 DEF Mutate, TagUser, TagRole, TagOIDCProvider
  <2>2. CASE e = [d EXCEPT !.tags = d.tags \cup {n}] /\ ~(Cardinality(d.tags) >= MaxTags)
    <3>1. e.tags = d.tags \cup {n} /\ e.clients = d.clients /\ e.keys = d.keys
            /\ e.policies = d.policies
      BY <2>2 DEF Contents
    <3>2. Cardinality(e.tags) <= MaxTags
      <4>1. Cardinality(e.tags) \in Nat /\ Cardinality(d.tags) \in Nat
              /\ Cardinality(e.tags) <= Cardinality(d.tags) + 1
        BY <1>2, <3>1, OneMore
      <4> QED BY <1>0, <2>2, <4>1
    <3> QED BY <1>1, <1>c, <3>1, <3>2
  <2> QED BY <2>1, <2>2 DEF mergeTags
<1>8. CASE r.op \in {"UntagUser", "UntagRole", "UntagProvider"}
  <2>1. e = [d EXCEPT !.tags = d.tags \ {n}]
    BY <1>8 DEF Mutate, UntagUser, UntagRole, UntagOIDCProvider, removeTags
  <2>2. e.tags \subseteq d.tags /\ e.clients = d.clients /\ e.keys = d.keys
          /\ e.policies = d.policies
    BY <2>1 DEF Contents
  <2>3. Cardinality(e.tags) <= MaxTags
    BY <1>0, <1>1, <1>2, <2>2, AtMost
  <2> QED BY <1>1, <1>c, <2>2, <2>3
<1>9. CASE r.op = "AddClientID"
  <2>1. e = AddClientIDToOIDCProvider(d, n)
    BY <1>9 DEF Mutate
  <2>2. CASE e = [d EXCEPT !.clients = d.clients \cup {n}]
               /\ ~(Cardinality(d.clients) >= MaxClients)
    <3>1. e.clients = d.clients \cup {n} /\ e.tags = d.tags /\ e.keys = d.keys
            /\ e.policies = d.policies
      BY <2>2 DEF Contents
    <3>2. Cardinality(e.clients) <= MaxClients
      <4>1. Cardinality(e.clients) \in Nat /\ Cardinality(d.clients) \in Nat
              /\ Cardinality(e.clients) <= Cardinality(d.clients) + 1
        BY <1>2, <3>1, OneMore
      <4> QED BY <1>0, <2>2, <4>1
    <3> QED BY <1>1, <1>c, <3>1, <3>2
  <2> QED BY <2>1, <2>2 DEF AddClientIDToOIDCProvider
<1>10. CASE r.op = "RemoveClientID"
  <2>1. e = [d EXCEPT !.clients = d.clients \ {n}]
    BY <1>10 DEF Mutate, RemoveClientIDFromOIDCProvider
  <2>2. e.clients \subseteq d.clients /\ e.tags = d.tags /\ e.keys = d.keys
          /\ e.policies = d.policies
    BY <2>1 DEF Contents
  <2>3. Cardinality(e.clients) <= MaxClients
    BY <1>0, <1>1, <1>2, <2>2, AtMost
  <2> QED BY <1>1, <1>c, <2>2, <2>3
<1>11. CASE r.op \in {"UpdateUser", "UpdateAssumeRolePolicy", "UpdateThumbprint"}
  <2>1. e = [d EXCEPT !.body = "new"]
    BY <1>11 DEF Mutate, UpdateAssumeRolePolicy, UpdateOIDCProviderThumbprint
  <2>2. Keys(e) \subseteq Keys(d) /\ e.tags = d.tags /\ e.clients = d.clients
          /\ e.policies = d.policies
    BY <2>1 DEF Keys, Contents
  <2> QED BY <1>a, <2>2
<1>12. CASE r.op \notin {"CreateAccessKey", "UpdateAccessKey", "DeleteAccessKey",
              "PutUserPolicy", "DeleteUserPolicy", "TagUser", "UntagUser", "UpdateUser",
              "UpdateAssumeRolePolicy", "PutRolePolicy", "DeleteRolePolicy", "TagRole", "UntagRole",
              "AddClientID", "RemoveClientID", "UpdateThumbprint", "TagProvider", "UntagProvider"}
  <2>1. e = d
    BY <1>12 DEF Mutate, RecordUsage
  <2> QED BY <2>1
<1> QED
  BY <1>3, <1>4, <1>5, <1>6, <1>7, <1>8, <1>9, <1>10, <1>11, <1>12

\* The copies that requests have read are within the limits.
CopiesWithin == \A c \in Calls : call[c].doc # NoDoc => WithinLimits(call[c].doc.data)

\* A new document is.
LEMMA EmptyWithin == WithinLimits(Empty)
<1>1. Keys(Empty) = {} /\ Empty.tags = {} /\ Empty.clients = {} /\ Bytes(Empty, Names) = {}
  BY VaultAssumption DEF Keys, Empty, Bytes
<1>2. Cardinality({}) = 0
  BY FS_EmptySet
<1> QED BY <1>1, <1>2, VaultAssumption DEF WithinLimits

\* Request c becomes r, which keeps its copy, drops it, reads the document that is there, or
\* begins with an empty one.
Carries(c, r) == /\ call' = [call EXCEPT ![c] = r]
                 /\ \/ r.doc = NoDoc \/ r.doc = call[c].doc
                    \/ Path(c) \in Stored /\ r.doc = Doc(c)
                    \/ r.doc.data = Empty

\* That keeps the copies within the limits.
LEMMA CarriesWithin ==
  ASSUME TypeOK, CopiesWithin, ItemLimit, NEW c \in Calls, NEW r, Carries(c, r)
  PROVE  CopiesWithin'
<1> USE DEF Carries
<1>1. r.doc # NoDoc => WithinLimits(r.doc.data)
  BY EmptyWithin DEF CopiesWithin, ItemLimit, Doc
<1>2. \A d \in Calls : call'[d] = IF d = c THEN r ELSE call[d]
  BY DEF TypeOK
<1> QED BY <1>1, <1>2 DEF CopiesWithin

\* CreateOIDCProvider begins with an empty document, every other request with none.
LEMMA BeginsWithin ==
  ASSUME NEW c \in Calls, Begins(c)
  PROVE  \E r : Carries(c, r) /\ r.pc \in {"read", "list"}
<1> USE DEF Carries
<1>1. ASSUME NEW p \in Paths, Ask(c, p)
      PROVE  \E r : Carries(c, r) /\ r.pc \in {"read", "list"}
  <2>1. PICK op, n, v :
          Begin(c, [NoCall EXCEPT !.op = op, !.pc = "read", !.path = p, !.name = n, !.val = v])
    BY <1>1 DEF Ask
  <2>2. [NoCall EXCEPT !.op = op, !.pc = "read", !.path = p, !.name = n, !.val = v].doc = NoDoc
          /\ [NoCall EXCEPT !.op = op, !.pc = "read", !.path = p, !.name = n, !.val = v].pc = "read"
    BY DEF NoCall
  <2> QED BY <2>1, <2>2 DEF Begin, Start
<1>2. ASSUME NEW p \in Providers, CreateOIDCProvider(c, p)
      PROVE  \E r : Carries(c, r) /\ r.pc \in {"read", "list"}
  <2>1. [NoCall EXCEPT !.op = "CreateProvider", !.pc = "list", !.path = p,
          !.doc = NewDoc].doc = NewDoc
          /\ [NoCall EXCEPT !.op = "CreateProvider", !.pc = "list", !.path = p,
               !.doc = NewDoc].pc = "list"
          /\ NewDoc.data = Empty
    BY DEF NoCall, NewDoc
  <2> QED BY <1>2, <2>1 DEF CreateOIDCProvider, Begin, Start
<1>3. ASSUME NEW x \in Renames, RenameUser(c, x[1], x[2])
      PROVE  \E r : Carries(c, r) /\ r.pc \in {"read", "list"}
  <2>1. [NoCall EXCEPT !.op = "RenameUser", !.pc = "read", !.path = x[1], !.to = x[2]].doc = NoDoc
          /\ [NoCall EXCEPT !.op = "RenameUser", !.pc = "read", !.path = x[1],
               !.to = x[2]].pc = "read"
    BY DEF NoCall
  <2> QED BY <1>3, <2>1 DEF RenameUser, Begin, Start
<1>4. ASSUME NEW n \in Names, Search(c, n)
      PROVE  \E r : Carries(c, r) /\ r.pc \in {"read", "list"}
  <2>1. PICK op : Begin(c, [NoCall EXCEPT !.op = op, !.pc = "list", !.name = n])
    BY <1>4 DEF Search
  <2>2. [NoCall EXCEPT !.op = op, !.pc = "list", !.name = n].doc = NoDoc
          /\ [NoCall EXCEPT !.op = op, !.pc = "list", !.name = n].pc = "list"
    BY DEF NoCall
  <2> QED BY <2>1, <2>2 DEF Begin, Start
<1>5. ASSUME ListAll(c) PROVE \E r : Carries(c, r) /\ r.pc \in {"read", "list"}
  <2>1. PICK op : Begin(c, [NoCall EXCEPT !.op = op, !.pc = "list"])
    BY <1>5 DEF ListAll
  <2>2. [NoCall EXCEPT !.op = op, !.pc = "list"].doc = NoDoc
          /\ [NoCall EXCEPT !.op = op, !.pc = "list"].pc = "list"
    BY DEF NoCall
  <2> QED BY <2>1, <2>2 DEF Begin, Start
<1> QED BY <1>1, <1>2, <1>3, <1>4, <1>5 DEF Begins

\* So do the steps of a request that goes on.
LEMMA CopyAfter ==
  ASSUME TypeOK, CallsFit, NEW c \in Calls, Step(c) \/ RemoveOldFails(c) \/ Fails(c)
  PROVE  \E r : Carries(c, r)
<1> USE DEF Carries
<1>a. call[c] \in CallRecords /\ Fits(call[c]) /\ call \in [Calls -> CallRecords]
  BY CallTyped DEF CallsFit, TypeOK
<1>b. ASSUME Return(c) PROVE Carries(c, NoCall)
  BY <1>b, NoCallFits DEF Return
<1>c. ASSUME NEW pc, Goto(c, pc) PROVE Carries(c, [call[c] EXCEPT !.pc = pc])
  BY <1>a, <1>c DEF Goto, CallRecords
<1>d. ASSUME Retry(c) PROVE \E r : Carries(c, r)
  <2>1. CASE call[c].tries + 1 < MaxCASRetries
    <3>1. Carries(c, [call[c] EXCEPT !.pc = "read", !.tries = @ + 1])
      BY <1>a, <1>d, <2>1 DEF Retry, CallRecords
    <3> QED BY <3>1
  <2> QED BY <1>b, <1>d, <2>1 DEF Retry
<1>1. CASE Read(c)
  <2>1. CASE Doc(c) = NoDoc \/ AfterRead(c, Doc(c).data) = "idle"
    BY <1>1, <1>b, <2>1 DEF Read
  <2>2. CASE ~(Doc(c) = NoDoc \/ AfterRead(c, Doc(c).data) = "idle")
    <3> DEFINE pc == AfterRead(c, Doc(c).data)
    <3>1. Path(c) \in Stored
      BY <1>1, <1>a, <2>2 DEF Read, At, Fits, Path, Stored, Doc
    <3>2. call' = [call EXCEPT ![c].doc = Doc(c), ![c].pc = pc]
      BY <1>1, <2>2 DEF Read
    <3> HIDE DEF pc
    <3>3. Carries(c, [call[c] EXCEPT !.doc = Doc(c), !.pc = pc])
      BY <1>a, <3>1, <3>2 DEF CallRecords
    <3> QED BY <3>3
  <2> QED BY <2>1, <2>2
<1>2. CASE Replace(c) \/ Confirm(c)
  BY <1>2, <1>b, <1>c, <1>d DEF Replace, Confirm
<1>3. CASE Remove(c) \/ RemoveOld(c) \/ WriteProvider(c) \/ Fails(c)
  BY <1>3, <1>b DEF Remove, RemoveOld, WriteProvider, Fails
<1>4. CASE CheckName(c) \/ CountProviders(c)
  BY <1>4, <1>b, <1>c DEF CheckName, CountProviders
<1>5. CASE CreateNew(c)
  <2>1. Return(c) \/ call' = [call EXCEPT ![c].pc = "removeOld", ![c].tries = 0]
    BY <1>5 DEF CreateNew
  <2>2. CASE call' = [call EXCEPT ![c].pc = "removeOld", ![c].tries = 0]
    <3>1. Carries(c, [call[c] EXCEPT !.pc = "removeOld", !.tries = 0])
      BY <1>a, <2>2 DEF CallRecords
    <3> QED BY <3>1
  <2> QED BY <1>b, <2>1, <2>2
<1>6. CASE RemoveOldFails(c)
  <2>1. Return(c) \/ call' = [call EXCEPT ![c].tries = @ + 1]
    BY <1>6 DEF RemoveOldFails
  <2>2. CASE call' = [call EXCEPT ![c].tries = @ + 1]
    <3>1. Carries(c, [call[c] EXCEPT !.tries = @ + 1])
      BY <1>a, <2>2 DEF CallRecords
    <3> QED BY <3>1
  <2> QED BY <1>b, <2>1, <2>2
<1>7. CASE List(c)
  <2>1. PICK T : Return(c) \/ call' = [call EXCEPT ![c].pc = "look", ![c].todo = T]
    BY <1>7 DEF List
  <2>2. CASE call' = [call EXCEPT ![c].pc = "look", ![c].todo = T]
    <3>1. Carries(c, [call[c] EXCEPT !.pc = "look", !.todo = T])
      BY <1>a, <2>2 DEF CallRecords
    <3> QED BY <3>1
  <2> QED BY <1>b, <2>1, <2>2
<1>8. ASSUME NEW p \in Paths, Visit(c, p) PROVE \E r : Carries(c, r)
  <2>1. \/ call' = [call EXCEPT ![c] = [call[c] EXCEPT !.todo = call[c].todo \ {p}]]
        \/ call' = [call EXCEPT ![c] = [call[c] EXCEPT !.pc = "read", !.path = p, !.todo = {}]]
        \/ Return(c)
    BY <1>8 DEF Visit, Return
  <2>2. [call[c] EXCEPT !.todo = call[c].todo \ {p}].doc = call[c].doc
        /\ [call[c] EXCEPT !.pc = "read", !.path = p, !.todo = {}].doc = call[c].doc
    BY <1>a DEF CallRecords
  <2> QED BY <1>b, <2>1, <2>2
<1> QED BY <1>1, <1>2, <1>3, <1>4, <1>5, <1>6, <1>7, <1>8 DEF Step

\* Every step keeps the documents and the copies within the limits: what is written is a
\* copy, or what the request makes of one.
LEMMA ItemsNext ==
  ASSUME TypeOK, CallsFit, SessionsFit, CopiesFit, CopiesWithin, ItemLimit, [Next]_vars
  PROVE  CopiesWithin' /\ ItemLimit'
<1>a. ASSUME NEW c \in Calls, Step(c) \/ RemoveOldFails(c) \/ Fails(c) PROVE CopiesWithin'
  BY <1>a, CopyAfter, CarriesWithin
<1>b. ASSUME NEW c \in Calls, NEW d, Writes(c, d), WithinLimits(d.data) PROVE ItemLimit'
  BY <1>b, StoredWrites DEF ItemLimit
<1>c. ASSUME NEW p, NEW d, Adds(p, d), WithinLimits(d.data) PROVE ItemLimit'
  BY <1>c, StoredAdds DEF ItemLimit
<1>d. ASSUME docs' = docs PROVE ItemLimit'
  BY <1>d DEF ItemLimit, Stored
<1>1. ASSUME NEW c \in Calls, QuietStep(c) PROVE CopiesWithin' /\ ItemLimit'
  <2>1. ItemLimit'
    BY <1>1, <1>d, QuietKeeps DEF Keeps
  <2>2. CASE Begins(c)
    BY <2>1, <2>2, BeginsWithin, CarriesWithin
  <2>3. CASE ~Begins(c)
    BY <1>1, <1>a, <2>1, <2>3 DEF QuietStep, Step
  <2> QED BY <2>2, <2>3
<1>2. ASSUME NEW c \in Calls, NEW p \in Paths, Create(c, p) PROVE CopiesWithin' /\ ItemLimit'
  <2>1. Adds(p, NewDoc) /\ call' = call
    BY <1>2, CreateStep
  <2>2. NewDoc.data = Empty
    BY DEF NewDoc
  <2> QED BY <1>c, <2>1, <2>2, EmptyWithin DEF CopiesWithin
<1>3. ASSUME NEW c \in Calls, Replace(c), Unchanged(c) PROVE CopiesWithin' /\ ItemLimit'
  <2>1. PICK d : Writes(c, d) /\ d.data = Mutate(call[c], call[c].doc.data)
    BY <1>3, ReplaceStep
  <2>2. call[c] \in CallRecords /\ Fits(call[c]) /\ call[c].pc = "write"
    BY <1>3, CallTyped DEF CallsFit, Replace, At
  <2>3. call[c].doc # NoDoc /\ Mutate(call[c], call[c].doc.data) # Refused
          /\ (call[c].op # "UpdateAccessKey" => call[c].val = "on")
          /\ (call[c].op \in Named => call[c].name \in Names)
    BY <2>2 DEF Fits
  <2>4. WithinLimits(call[c].doc.data) /\ call[c].doc.data \in Contents
    BY <2>3, CopyTyped DEF CopiesWithin
  <2>5. WithinLimits(d.data)
    BY <2>1, <2>2, <2>3, <2>4, MutateWithin
  <2> QED BY <1>3, <1>a, <1>b, <2>1, <2>5 DEF Step
<1>4. ASSUME NEW c \in Calls, Confirm(c), Unchanged(c) PROVE CopiesWithin' /\ ItemLimit'
  <2>1. PICK d : Writes(c, d) /\ d.data = call[c].doc.data
    BY <1>4, ConfirmStep
  <2>2. call[c].doc # NoDoc
    BY <1>4 DEF CallsFit, Fits, Confirm, At
  <2> QED BY <1>4, <1>a, <1>b, <2>1, <2>2 DEF Step, CopiesWithin
<1>5. ASSUME NEW c \in Calls, Remove(c) \/ RemoveOld(c) PROVE CopiesWithin' /\ ItemLimit'
  <2>1. Drops(Path(c))
    BY <1>5, DropStep
  <2>2. ItemLimit'
    BY <2>1, StoredDrops DEF ItemLimit
  <2> QED BY <1>5, <1>a, <2>2 DEF Step
<1>6. ASSUME NEW c \in Calls, CreateNew(c), docs[call[c].to] = NoDoc
      PROVE CopiesWithin' /\ ItemLimit'
  <2>1. PICK d : Adds(call[c].to, d) /\ d.data = call[c].doc.data
    BY <1>6, RenameStep
  <2>2. call[c].doc # NoDoc
    BY <1>6 DEF CallsFit, Fits, CreateNew, At
  <2> QED BY <1>6, <1>a, <1>c, <2>1, <2>2 DEF Step, CopiesWithin
<1>7. ASSUME NEW c \in Calls, WriteProvider(c), Doc(c) = NoDoc PROVE CopiesWithin' /\ ItemLimit'
  <2>1. Adds(Path(c), call[c].doc)
    BY <1>7, ProviderStep
  <2>2. call[c].doc # NoDoc
    BY <1>7 DEF CallsFit, Fits, WriteProvider, At
  <2> QED BY <1>7, <1>a, <1>c, <2>1, <2>2 DEF Step, CopiesWithin
<1>8. CASE Quiet /\ call' = call
  BY <1>8, <1>d DEF Quiet, CopiesWithin
<1> QED BY <1>1, <1>2, <1>3, <1>4, <1>5, <1>6, <1>7, <1>8, StepCases

\* The calls of CreateOIDCProvider that have counted and not yet written.
Writing == {c \in Calls : call[c].op = "CreateProvider" /\ call[c].pc = "create"}

\* Each of them may add one provider.
ProvidersCounted == Cardinality(Stored \cap Providers) + Cardinality(Writing)
                      <= MaxProviders + Cardinality(Calls) - 1

\* The sets that are counted are finite.
LEMMA ProvidersFinite ==
  /\ IsFiniteSet(Stored \cap Providers) /\ Cardinality(Stored \cap Providers) \in Nat
  /\ IsFiniteSet(Writing) /\ Cardinality(Writing) \in Nat
       /\ Cardinality(Writing) <= Cardinality(Calls)
  /\ Cardinality(Calls) \in Nat /\ Cardinality(Calls) >= 1 /\ MaxProviders \in Nat
<1>1. Stored \cap Providers \subseteq Providers /\ Writing \subseteq Calls
  BY DEF Writing
<1>2. Cardinality(Calls) # 0 /\ Cardinality(Calls) \in Nat
  BY LimitsAssumption, FS_EmptySet, FS_CardinalityType
<1> QED BY <1>1, <1>2, AtMost, LimitsAssumption, VaultAssumption

\* Fewer providers and fewer calls are still within the limit.
LEMMA FewerProviders ==
  ASSUME ProvidersCounted, (Stored \cap Providers)' \subseteq Stored \cap Providers,
         Writing' \subseteq Writing
  PROVE  ProvidersCounted'
<1>1. /\ Cardinality((Stored \cap Providers)') \in Nat
      /\ Cardinality((Stored \cap Providers)') <= Cardinality(Stored \cap Providers)
      /\ Cardinality(Writing') \in Nat /\ Cardinality(Writing') <= Cardinality(Writing)
  BY ProvidersFinite, AtMost
<1>2. Cardinality((Stored \cap Providers)') + Cardinality(Writing')
        <= MaxProviders + Cardinality(Calls) - 1
  BY <1>1, ProvidersFinite DEF ProvidersCounted
<1> QED BY <1>2 DEF ProvidersCounted

\* Where a request stands after a step: only CountProviders leads to the write of a provider.
LEMMA WritingAfter ==
  ASSUME TypeOK, CallsFit, NEW c \in Calls,
         Begins(c) \/ Step(c) \/ RemoveOldFails(c) \/ Fails(c)
  PROVE  /\ Writing' \subseteq Writing \cup {c}
         /\ ~CountProviders(c) => Writing' \subseteq Writing
<1>a. call[c] \in CallRecords /\ Fits(call[c]) /\ call \in [Calls -> CallRecords]
  BY CallTyped DEF CallsFit, TypeOK
<1>b. Goes(c)
  BY StepsGo, BeginsFit DEF Begins
<1>c. \A d \in Calls \ {c} : call'[d] = call[d]
  BY <1>a, <1>b DEF Goes
<1>d. Writing' \subseteq Writing \cup {c}
  BY <1>c DEF Writing
<1>e. ASSUME ~(call'[c].op = "CreateProvider" /\ call'[c].pc = "create")
      PROVE Writing' \subseteq Writing
  BY <1>c, <1>e DEF Writing
<1>f. ASSUME Return(c) PROVE call'[c].pc = "idle"
  BY <1>a, <1>f, NoCallFits DEF Return
<1>g. ASSUME NEW pc, Goto(c, pc) PROVE call'[c].pc = pc /\ call'[c].op = call[c].op
  BY <1>a, <1>g DEF Goto, CallRecords
<1>h. ASSUME Retry(c) PROVE call'[c].pc \in {"idle", "read"}
  BY <1>a, <1>f, <1>h DEF Retry, CallRecords
<1>1. CASE Begins(c)
  <2>1. PICK r : Carries(c, r) /\ r.pc \in {"read", "list"}
    BY <1>1, BeginsWithin
  <2>2. call'[c].pc \in {"read", "list"}
    BY <1>a, <2>1 DEF Carries
  <2> QED BY <1>d, <1>e, <2>2
<1>2. CASE Read(c)
  <2>1. call'[c].pc # "create"
    <3>1. CASE Doc(c) = NoDoc \/ AfterRead(c, Doc(c).data) = "idle"
      BY <1>2, <1>f, <3>1 DEF Read
    <3>2. CASE ~(Doc(c) = NoDoc \/ AfterRead(c, Doc(c).data) = "idle")
      <4> DEFINE pc == AfterRead(c, Doc(c).data)
      <4>1. pc # "create"
        BY DEF AfterRead
      <4>2. call' = [call EXCEPT ![c].doc = Doc(c), ![c].pc = pc]
        BY <1>2, <3>2 DEF Read
      <4> HIDE DEF pc
      <4> QED BY <1>a, <4>1, <4>2 DEF CallRecords
    <3> QED BY <3>1, <3>2
  <2> QED BY <1>d, <1>e, <2>1
<1>3. CASE Replace(c) \/ Confirm(c)
  <2>1. call'[c].pc # "create"
    BY <1>3, <1>f, <1>g, <1>h DEF Replace, Confirm
  <2> QED BY <1>d, <1>e, <2>1
<1>4. CASE Remove(c) \/ RemoveOld(c) \/ WriteProvider(c) \/ Fails(c)
  <2>1. call'[c].pc = "idle"
    BY <1>4, <1>f DEF Remove, RemoveOld, WriteProvider, Fails
  <2> QED BY <1>d, <1>e, <2>1
<1>5. CASE CheckName(c)
  <2>1. call[c].op = "RenameUser"
    BY <1>5, <1>a DEF CheckName, At, Fits
  <2>2. ~(call'[c].op = "CreateProvider" /\ call'[c].pc = "create")
    BY <1>5, <1>f, <1>g, <2>1 DEF CheckName
  <2> QED BY <1>d, <1>e, <2>2
<1>6. CASE CreateNew(c) \/ RemoveOldFails(c)
  <2>1. ASSUME CreateNew(c) PROVE call'[c].pc # "create"
    <3>1. Return(c) \/ call' = [call EXCEPT ![c].pc = "removeOld", ![c].tries = 0]
      BY <2>1 DEF CreateNew
    <3> QED BY <1>a, <1>f, <3>1 DEF CallRecords
  <2>2. ASSUME RemoveOldFails(c) PROVE call'[c].pc # "create"
    <3>1. Return(c) \/ call' = [call EXCEPT ![c].tries = @ + 1]
      BY <2>2 DEF RemoveOldFails
    <3>2. call[c].pc = "removeOld"
      BY <2>2 DEF RemoveOldFails, At
    <3> QED BY <1>a, <1>f, <3>1, <3>2 DEF CallRecords
  <2>3. call'[c].pc # "create"
    BY <1>6, <2>1, <2>2
  <2> QED BY <1>d, <1>e, <2>3
<1>7. CASE CountProviders(c)
  BY <1>7, <1>d
<1>8. CASE List(c)
  <2>1. PICK T : Return(c) \/ call' = [call EXCEPT ![c].pc = "look", ![c].todo = T]
    BY <1>8 DEF List
  <2>2. call'[c].pc # "create"
    BY <1>a, <1>f, <2>1 DEF CallRecords
  <2> QED BY <1>d, <1>e, <2>2
<1>9. ASSUME NEW p \in Paths, Visit(c, p) PROVE Writing' \subseteq Writing
  <2>1. \/ call' = [call EXCEPT ![c] = [call[c] EXCEPT !.todo = call[c].todo \ {p}]]
        \/ call' = [call EXCEPT ![c] = [call[c] EXCEPT !.pc = "read", !.path = p, !.todo = {}]]
        \/ Return(c)
    BY <1>9 DEF Visit, Return
  <2>2. call[c].pc = "look"
    BY <1>9 DEF Visit, At
  <2>3. call'[c].pc # "create"
    BY <1>a, <1>f, <2>1, <2>2 DEF CallRecords
  <2> QED BY <1>e, <2>3
<1> QED BY <1>1, <1>2, <1>3, <1>4, <1>5, <1>6, <1>7, <1>8, <1>9, <1>d DEF Step

\* Every step keeps the limit on providers: who counts finds less than the limit, whatever
\* the others are about to write, and who writes has counted.
LEMMA ProvidersNext ==
  ASSUME TypeOK, CallsFit, SessionsFit, CopiesFit, ProvidersCounted, [Next]_vars
  PROVE  ProvidersCounted'
<1>a. ASSUME NEW c \in Calls, Step(c) \/ RemoveOldFails(c) \/ Fails(c)
               \/ Begins(c), ~CountProviders(c),
             (Stored \cap Providers)' \subseteq Stored \cap Providers
      PROVE  ProvidersCounted'
  BY <1>a, WritingAfter, FewerProviders
<1>1. ASSUME NEW c \in Calls, QuietStep(c) PROVE ProvidersCounted'
  <2>1. (Stored \cap Providers)' = Stored \cap Providers
    BY <1>1, QuietKeeps DEF Keeps, Stored
  <2>2. CASE CountProviders(c)
    <3>1. CASE Path(c) \in Stored \/ Cardinality(Stored \cap Providers) >= MaxProviders
      <4>1. Return(c)
        BY <2>2, <3>1 DEF CountProviders
      <4>2. Writing' \subseteq Writing
        BY <4>1, NoCallFits DEF Return, Writing, TypeOK
      <4> QED BY <2>1, <4>2, FewerProviders
    <3>2. CASE ~(Cardinality(Stored \cap Providers) >= MaxProviders)
      <4>1. Cardinality(Writing') \in Nat /\ Cardinality(Writing') <= Cardinality(Calls)
        <5>1. Writing' \subseteq Calls
          BY DEF Writing
        <5> QED BY <5>1, AtMost, LimitsAssumption
      <4>2. Cardinality((Stored \cap Providers)') = Cardinality(Stored \cap Providers)
        BY <2>1
      <4>3. Cardinality((Stored \cap Providers)') + Cardinality(Writing')
              <= MaxProviders + Cardinality(Calls) - 1
        BY <3>2, <4>1, <4>2, ProvidersFinite
      <4> QED BY <4>3 DEF ProvidersCounted
    <3> QED BY <3>1, <3>2
  <2>3. CASE ~CountProviders(c)
    BY <1>1, <1>a, <2>1, <2>3 DEF QuietStep, Step
  <2> QED BY <2>2, <2>3
<1>2. ASSUME NEW c \in Calls, NEW p \in Paths, Create(c, p) PROVE ProvidersCounted'
  <2>1. Adds(p, NewDoc) /\ p \notin Providers /\ call' = call
    BY <1>2, CreateStep
  <2>2. Stored' = Stored \cup {p} /\ Writing' = Writing
    BY <2>1, StoredAdds DEF Writing
  <2> QED BY <2>1, <2>2, FewerProviders
<1>3. ASSUME NEW c \in Calls, Replace(c) \/ Confirm(c), Unchanged(c) PROVE ProvidersCounted'
  <2>1. \E d : Writes(c, d)
    BY <1>3, ReplaceStep, ConfirmStep
  <2>2. Stored' = Stored
    BY <2>1, StoredWrites
  <2>3. ~CountProviders(c)
    BY <1>3 DEF Replace, Confirm, CountProviders, At
  <2> QED BY <1>3, <1>a, <2>2, <2>3 DEF Step
<1>4. ASSUME NEW c \in Calls, Remove(c) \/ RemoveOld(c) PROVE ProvidersCounted'
  <2>1. Drops(Path(c))
    BY <1>4, DropStep
  <2>2. Stored' \subseteq Stored
    BY <2>1, StoredDrops
  <2>3. ~CountProviders(c)
    BY <1>4 DEF Remove, RemoveOld, CountProviders, At
  <2> QED BY <1>4, <1>a, <2>2, <2>3 DEF Step
<1>5. ASSUME NEW c \in Calls, CreateNew(c), docs[call[c].to] = NoDoc PROVE ProvidersCounted'
  <2>1. \E d : Adds(call[c].to, d) /\ call[c].to \in Users
    BY <1>5, RenameStep
  <2>2. Stored' = Stored \cup {call[c].to} /\ call[c].to \notin Providers
    BY <2>1, StoredAdds, VaultAssumption
  <2>3. ~CountProviders(c)
    BY <1>5 DEF CreateNew, CountProviders, At
  <2> QED BY <1>5, <1>a, <2>2, <2>3 DEF Step
<1>6. ASSUME NEW c \in Calls, WriteProvider(c), Doc(c) = NoDoc PROVE ProvidersCounted'
  <2>1. Adds(Path(c), call[c].doc) /\ Return(c) /\ c \in Writing
    BY <1>6, ProviderStep DEF WriteProvider, At, Writing
  <2>2. (Stored \cap Providers)' \subseteq (Stored \cap Providers) \cup {Path(c)}
    BY <2>1, StoredAdds
  <2>3. Writing' \subseteq Writing \ {c}
    BY <2>1, NoCallFits DEF Return, Writing, TypeOK
  <2>4. /\ Cardinality((Stored \cap Providers)') \in Nat
        /\ Cardinality((Stored \cap Providers)') <= Cardinality(Stored \cap Providers) + 1
    BY <2>2, ProvidersFinite, OneMore
  <2>5. Cardinality(Writing') \in Nat /\ Cardinality(Writing') + 1 <= Cardinality(Writing)
    BY <2>1, <2>3, ProvidersFinite, OneLess
  <2>6. Cardinality((Stored \cap Providers)') + Cardinality(Writing')
          <= MaxProviders + Cardinality(Calls) - 1
    BY <2>4, <2>5, ProvidersFinite DEF ProvidersCounted
  <2> QED BY <2>6 DEF ProvidersCounted
<1>7. CASE Quiet /\ call' = call
  BY <1>7, FewerProviders DEF Quiet, Stored, Writing
<1> QED BY <1>1, <1>2, <1>3, <1>4, <1>5, <1>6, <1>7, StepCases

\* The sessions that are live, and the calls of CreateSession that have listed the sessions
\* and not yet answered.
Live == {s \in Sessions : sess[s] = "live"}
Counting == {c \in Calls : scall[c].new /\ scall[c].pc \in {"look", "purge", "ttl", "write"}}

\* Those of them that listed before time n, and the live sessions that call c has neither
\* seen (X) nor before it: they were written after it listed.
Earlier(at, n) == {c \in Counting : at[c] < n}
Unseen(c, X) == Live \ (X \cup (scall[c].todo \ {scall[c].victim}))

\* The calls listed at the times at, and have seen the sessions seen, as many as they count;
\* of those that wrote a session the latest had listed at last.  Who listed before that may
\* add one session each and stays within the limit; who listed later has missed only what
\* calls that listed before it have written, one session each.
SessionOrder(at, seen, last, now) ==
  /\ last < now /\ \A c \in Calls : at[c] < now
  /\ \A c, d \in Counting : at[c] = at[d] => c = d
  /\ \A c \in Counting : Cardinality(seen[c]) <= scall[c].n
  /\ Cardinality(Live) + Cardinality(Earlier(at, last)) <= MaxSessions + Cardinality(Calls) - 1
  /\ \A c \in Counting : at[c] >= last =>
       Cardinality(Unseen(c, seen[c])) + Cardinality(Earlier(at, at[c])) <= Cardinality(Calls) - 1
SessionsCounted ==
  \E at \in [Calls -> Nat], seen \in [Calls -> SUBSET Sessions], last \in Nat, now \in Nat :
    SessionOrder(at, seen, last, now)

\* Who is about to write has counted every session it listed, and found room; only who
\* purges a session has a victim.
CountsFit == \A c \in Calls :
  /\ scall[c].pc \in {"ttl", "write"} => /\ scall[c].new /\ scall[c].todo = {}
                                        /\ scall[c].n < MaxSessions
  /\ scall[c].pc # "purge" => scall[c].victim = NoDoc

\* The sets that are counted are finite.
LEMMA SessionsFinite ==
  /\ MaxSessions \in Nat /\ Cardinality(Calls) \in Nat /\ Cardinality(Calls) >= 1
  /\ IsFiniteSet(Live) /\ Cardinality(Live) \in Nat
  /\ \A at, n : /\ IsFiniteSet(Earlier(at, n)) /\ Cardinality(Earlier(at, n)) \in Nat
                /\ Earlier(at, n) \subseteq Calls
  /\ \A c, X : IsFiniteSet(Unseen(c, X)) /\ Cardinality(Unseen(c, X)) \in Nat
  /\ \A X \in SUBSET Sessions : IsFiniteSet(X) /\ Cardinality(X) \in Nat
<1>1. Live \subseteq Sessions /\ (\A at, n : Earlier(at, n) \subseteq Calls)
        /\ (\A c, X : Unseen(c, X) \subseteq Sessions)
  BY DEF Live, Earlier, Counting, Unseen
<1>2. Cardinality(Calls) # 0 /\ Cardinality(Calls) \in Nat
  BY LimitsAssumption, FS_EmptySet, FS_CardinalityType
<1>3. \A T \in SUBSET Calls : IsFiniteSet(T) /\ Cardinality(T) \in Nat
  BY AtMost, LimitsAssumption
<1>4. \A T \in SUBSET Sessions : IsFiniteSet(T) /\ Cardinality(T) \in Nat
  BY AtMost, LimitsAssumption
<1> QED BY <1>1, <1>2, <1>3, <1>4, VaultAssumption

\* A step that adds no live session, and no call that counts, and hides nothing from one,
\* keeps the order.
LEMMA FewerSessions ==
  ASSUME NEW at \in [Calls -> Nat], NEW seen \in [Calls -> SUBSET Sessions],
         NEW last \in Nat, NEW now \in Nat, SessionOrder(at, seen, last, now),
         Live' \subseteq Live, Counting' \subseteq Counting,
         \A c \in Counting' : /\ scall'[c].n = scall[c].n
                              /\ Unseen(c, seen[c])' \subseteq Unseen(c, seen[c])
  PROVE  SessionOrder(at, seen, last, now)'
<1>1. Cardinality(Live') \in Nat /\ Cardinality(Live') <= Cardinality(Live)
  BY SessionsFinite, AtMost
<1>2. \A n \in Nat : /\ Cardinality(Earlier(at, n)') \in Nat
                     /\ Cardinality(Earlier(at, n)') <= Cardinality(Earlier(at, n))
  <2> SUFFICES ASSUME NEW n \in Nat
               PROVE  /\ Cardinality(Earlier(at, n)') \in Nat
                      /\ Cardinality(Earlier(at, n)') <= Cardinality(Earlier(at, n))
    OBVIOUS
  <2>1. Earlier(at, n)' \subseteq Earlier(at, n)
    BY DEF Earlier
  <2> QED BY <2>1, SessionsFinite, AtMost
<1>3. \A c \in Counting' : /\ Cardinality(Unseen(c, seen[c])') \in Nat
                           /\ Cardinality(Unseen(c, seen[c])') <= Cardinality(Unseen(c, seen[c]))
  BY SessionsFinite, AtMost
<1>4. Cardinality(Live') + Cardinality(Earlier(at, last)') <= MaxSessions + Cardinality(Calls) - 1
  BY <1>1, <1>2, SessionsFinite DEF SessionOrder
<1>5. ASSUME NEW c \in Counting', at[c] >= last
      PROVE  Cardinality(Unseen(c, seen[c])') + Cardinality(Earlier(at, at[c])')
               <= Cardinality(Calls) - 1
  <2>1. c \in Counting /\ at[c] \in Nat
    BY DEF Counting
  <2>2. Cardinality(Unseen(c, seen[c])) + Cardinality(Earlier(at, at[c])) <= Cardinality(Calls) - 1
    BY <1>5, <2>1 DEF SessionOrder
  <2> QED BY <1>2, <1>3, <2>1, <2>2, SessionsFinite
<1> QED BY <1>4, <1>5 DEF SessionOrder

\* Record r is of a call that counts.
Counts(r) == r.new /\ r.pc \in {"look", "purge", "ttl", "write"}

\* A call ends, or goes on with what it has counted, and has no more before it that it
\* could not see.
LEMMA CallGoesOn ==
  ASSUME TypeOK, SessionsCounted, Live' \subseteq Live, NEW c \in Calls, NEW r,
         scall' = [scall EXCEPT ![c] = r],
         Counts(r) => /\ c \in Counting /\ r.n = scall[c].n
                      /\ Live' \ (r.todo \ {r.victim}) \subseteq Live \ (scall[c].todo \ {scall[c].victim})
  PROVE  SessionsCounted'
<1>1. PICK at \in [Calls -> Nat], seen \in [Calls -> SUBSET Sessions], last \in Nat, now \in Nat :
        SessionOrder(at, seen, last, now)
  BY DEF SessionsCounted
<1>2. \A d \in Calls : scall'[d] = IF d = c THEN r ELSE scall[d]
  BY DEF TypeOK
<1>3. Counting' \subseteq Counting
  BY <1>2 DEF Counting, Counts
<1>4. ASSUME NEW d \in Counting'
      PROVE  scall'[d].n = scall[d].n /\ Unseen(d, seen[d])' \subseteq Unseen(d, seen[d])
  <2>0. d \in Calls
    BY DEF Counting
  <2>1. CASE d = c
    <3>1. Counts(r) /\ scall'[c] = r
      BY <1>2, <1>4, <2>1 DEF Counting, Counts
    <3>2. Unseen(c, seen[c])' = Live' \ (seen[c] \cup (r.todo \ {r.victim}))
      BY <3>1 DEF Unseen
    <3> QED BY <2>1, <3>1, <3>2 DEF Unseen
  <2>2. CASE d # c
    <3>1. scall'[d] = scall[d]
      BY <1>2, <2>0, <2>2
    <3>2. Unseen(d, seen[d])' = Live' \ (seen[d] \cup (scall[d].todo \ {scall[d].victim}))
      BY <3>1 DEF Unseen
    <3> QED BY <3>1, <3>2 DEF Unseen
  <2> QED BY <2>1, <2>2
<1>5. SessionOrder(at, seen, last, now)'
  BY <1>1, <1>3, <1>4, FewerSessions
<1> QED BY <1>5 DEF SessionsCounted

\* A session that expires, and a step that concerns no session.
LEMMA SessionEnds ==
  ASSUME SessionsCounted, scall' = scall, Live' \subseteq Live
  PROVE  SessionsCounted'
<1>1. PICK at \in [Calls -> Nat], seen \in [Calls -> SUBSET Sessions], last \in Nat, now \in Nat :
        SessionOrder(at, seen, last, now)
  BY DEF SessionsCounted
<1>2. Counting' = Counting
  BY DEF Counting
<1>3. \A d \in Counting' : scall'[d].n = scall[d].n
        /\ Unseen(d, seen[d])' \subseteq Unseen(d, seen[d])
  BY DEF Unseen
<1>4. SessionOrder(at, seen, last, now)'
  BY <1>1, <1>2, <1>3, FewerSessions
<1> QED BY <1>4 DEF SessionsCounted

\* activeSessionCountForRole lists: at that moment it misses nothing.
LEMMA ListCounted ==
  ASSUME TypeOK, CountsFit, SessionsCounted, NEW c \in Calls, ListSessions(c), scall[c].new
  PROVE  SessionsCounted'
<1>1. PICK at \in [Calls -> Nat], seen \in [Calls -> SUBSET Sessions], last \in Nat, now \in Nat :
        SessionOrder(at, seen, last, now)
  BY DEF SessionsCounted
<1> DEFINE r == [scall[c] EXCEPT !.pc = "look", !.todo = {s \in Sessions : sess[s] # "none"}]
           t == [at EXCEPT ![c] = now]
           v == [seen EXCEPT ![c] = {}]
<1>2. scall[c] \in SessionRecords /\ scall \in [Calls -> SessionRecords]
  BY DEF TypeOK
<1>3. r.todo = {s \in Sessions : sess[s] # "none"} /\ r.n \in Nat /\ r.victim = NoDoc
  BY <1>2 DEF SessionRecords, ListSessions, CountsFit
<1>4. scall' = [scall EXCEPT ![c] = r] /\ sess' = sess
  BY <1>2 DEF ListSessions
<1> HIDE DEF r
<1>5. \A d \in Calls : scall'[d] = IF d = c THEN r ELSE scall[d]
  BY <1>2, <1>4
<1>6. t \in [Calls -> Nat] /\ t[c] = now /\ (\A d \in Calls \ {c} : t[d] = at[d])
        /\ v \in [Calls -> SUBSET Sessions] /\ v[c] = {} /\ (\A d \in Calls \ {c} : v[d] = seen[d])
  OBVIOUS
<1> HIDE DEF t, v
<1>7. Live' = Live /\ c \notin Counting /\ Counting' \subseteq Counting \cup {c}
  BY <1>4, <1>5 DEF Live, Counting, ListSessions
<1>8. last < now /\ \A d \in Calls : at[d] < now
  BY <1>1 DEF SessionOrder
<1>9. \A n \in Nat : n <= now => Earlier(t, n)' \subseteq Earlier(at, n)
  BY <1>6, <1>7 DEF Earlier, Counting
<1>10. ASSUME NEW n \in Nat, n <= now
       PROVE  /\ Cardinality(Earlier(t, n)') \in Nat
              /\ Cardinality(Earlier(t, n)') <= Cardinality(Earlier(at, n))
  BY <1>9, <1>10, SessionsFinite, AtMost
<1>11. Cardinality(Earlier(t, now)') <= Cardinality(Calls) - 1
         /\ Cardinality(Earlier(t, now)') \in Nat
  <2>1. Earlier(t, now)' \subseteq Calls \ {c}
    BY <1>6 DEF Earlier, Counting
  <2> QED BY <2>1, LimitsAssumption, OneLess
<1>12. Unseen(c, v[c])' = {}
  <2>1. Unseen(c, v[c])' = Live' \ (v[c] \cup (r.todo \ {r.victim}))
    BY <1>5 DEF Unseen
  <2> QED BY <1>3, <1>7, <2>1, NoDocAssumption DEF Live
<1>13. \A d \in Counting' \ {c} : Unseen(d, v[d])' = Unseen(d, seen[d])
  BY <1>5, <1>6, <1>7 DEF Unseen, Counting
<1>14. Cardinality({}) = 0
  BY FS_EmptySet
<1>15. SessionOrder(t, v, last, now + 1)'
  <2>1. last < now + 1 /\ \A d \in Calls : t[d] < now + 1
    BY <1>6, <1>8
  <2>2. \A d, e \in Counting' : t[d] = t[e] => d = e
    BY <1>1, <1>6, <1>7, <1>8 DEF SessionOrder, Counting
  <2>3. ASSUME NEW d \in Counting' PROVE Cardinality(v[d]) <= scall'[d].n
    <3>1. d \in Calls /\ (d # c => d \in Counting)
      BY <1>7 DEF Counting
    <3>2. CASE d = c
      <4>1. v[d] = {} /\ scall'[d] = r
        BY <1>5, <1>6, <3>2
      <4> QED BY <1>3, <1>14, <4>1
    <3>3. CASE d # c
      BY <1>1, <1>5, <1>6, <3>1, <3>3 DEF SessionOrder
    <3> QED BY <3>2, <3>3
  <2>4. Cardinality(Live') + Cardinality(Earlier(t, last)') <= MaxSessions + Cardinality(Calls) - 1
    BY <1>1, <1>7, <1>8, <1>10, SessionsFinite DEF SessionOrder
  <2>5. ASSUME NEW d \in Counting', t[d] >= last
        PROVE  Cardinality(Unseen(d, v[d])') + Cardinality(Earlier(t,
                 t[d])') <= Cardinality(Calls) - 1
    <3>1. CASE d = c
      <4>1. t[d] = now /\ Unseen(d, v[d])' = {}
        BY <1>6, <1>12, <3>1
      <4> QED BY <1>11, <1>14, <4>1, SessionsFinite
    <3>2. CASE d # c
      <4>1. d \in Counting /\ d \in Calls /\ t[d] = at[d] /\ at[d] \in Nat /\ at[d] <= now
        BY <1>6, <1>7, <1>8, <3>2 DEF Counting
      <4>2. Cardinality(Unseen(d, seen[d])) + Cardinality(Earlier(at,
              at[d])) <= Cardinality(Calls) - 1
        BY <1>1, <2>5, <4>1 DEF SessionOrder
      <4> QED BY <1>10, <1>13, <3>2, <4>1, <4>2, SessionsFinite
    <3> QED BY <3>1, <3>2
  <2> QED BY <2>1, <2>2, <2>3, <2>4, <2>5 DEF SessionOrder
<1>16. now + 1 \in Nat
  OBVIOUS
<1> QED BY <1>6, <1>15, <1>16 DEF SessionsCounted

\* It counts a session that is live: it has seen one more.
LEMMA LookCounted ==
  ASSUME TypeOK, CountsFit, SessionsCounted, NEW c \in Calls, NEW s \in Sessions, Look(c, s),
         sess[s] = "live"
  PROVE  SessionsCounted'
<1>1. PICK at \in [Calls -> Nat], seen \in [Calls -> SUBSET Sessions], last \in Nat, now \in Nat :
        SessionOrder(at, seen, last, now)
  BY DEF SessionsCounted
<1> DEFINE r == [scall[c] EXCEPT !.todo = @ \ {s}, !.n = @ + 1]
           v == [seen EXCEPT ![c] = @ \cup {s}]
<1>2. scall[c] \in SessionRecords /\ scall \in [Calls -> SessionRecords]
  BY DEF TypeOK
<1>3. r.todo = scall[c].todo \ {s} /\ scall[c].n \in Nat /\ r.n = scall[c].n + 1
        /\ r.victim = scall[c].victim /\ r.new = scall[c].new /\ r.pc = scall[c].pc
  BY <1>2 DEF SessionRecords
<1>4. scall' = [scall EXCEPT ![c] = r] /\ sess' = sess /\ s \in scall[c].todo
        /\ scall[c].victim = NoDoc
  BY <1>2 DEF Look, CountsFit
<1> HIDE DEF r
<1>5. \A d \in Calls : scall'[d] = IF d = c THEN r ELSE scall[d]
  BY <1>2, <1>4
<1>6. v \in [Calls -> SUBSET Sessions] /\ v[c] = seen[c] \cup {s}
        /\ (\A d \in Calls \ {c} : v[d] = seen[d])
  OBVIOUS
<1> HIDE DEF v
<1>7. Live' = Live /\ Counting' = Counting
  BY <1>3, <1>4, <1>5 DEF Live, Counting
<1>8. \A n : Earlier(at, n)' = Earlier(at, n)
  BY <1>7 DEF Earlier
<1>9. \A d \in Counting : Unseen(d, v[d])' = Unseen(d, seen[d])
  <2> SUFFICES ASSUME NEW d \in Counting PROVE Unseen(d, v[d])' = Unseen(d, seen[d])
    OBVIOUS
  <2>1. CASE d = c
    <3>1. Unseen(c, v[c])' = Live \ (v[c] \cup (r.todo \ {r.victim}))
      BY <1>5, <1>7 DEF Unseen
    <3>2. v[c] \cup (r.todo \ {r.victim}) = seen[c] \cup (scall[c].todo \ {scall[c].victim})
      BY <1>3, <1>4, <1>6, NoDocAssumption
    <3> QED BY <2>1, <3>1, <3>2 DEF Unseen
  <2>2. CASE d # c
    BY <1>5, <1>6, <1>7, <2>2 DEF Unseen, Counting
  <2> QED BY <2>1, <2>2
<1>10. \A d \in Counting : Cardinality(v[d]) <= scall'[d].n
  <2> SUFFICES ASSUME NEW d \in Counting PROVE Cardinality(v[d]) <= scall'[d].n
    OBVIOUS
  <2>1. CASE d = c
    <3>1. Cardinality(seen[c]) <= scall[c].n /\ IsFiniteSet(seen[c])
      BY <1>1, <2>1, SessionsFinite DEF SessionOrder
    <3>2. Cardinality(v[c]) \in Nat /\ Cardinality(seen[c]) \in Nat
            /\ Cardinality(v[c]) <= Cardinality(seen[c]) + 1
      BY <1>6, <3>1, OneMore
    <3>3. scall'[c].n = scall[c].n + 1
      BY <1>3, <1>5
    <3> QED BY <1>3, <2>1, <3>1, <3>2, <3>3
  <2>2. CASE d # c
    BY <1>1, <1>5, <1>6, <2>2 DEF SessionOrder, Counting
  <2> QED BY <2>1, <2>2
<1>11. SessionOrder(at, v, last, now)'
  BY <1>1, <1>7, <1>8, <1>9, <1>10 DEF SessionOrder
<1> QED BY <1>6, <1>11 DEF SessionsCounted

\* A session is written: by a call that listed before the latest that wrote, which was
\* reckoned with; or by one that listed later, and then it has counted less than the limit
\* and what it missed was written by calls before it, which are done.
LEMMA WriteCounted ==
  ASSUME TypeOK, CountsFit, SessionsFit, SessionsCounted, NEW c \in Calls, WriteSession(c)
  PROVE  SessionsCounted'
<1>1. PICK at \in [Calls -> Nat], seen \in [Calls -> SUBSET Sessions], last \in Nat, now \in Nat :
        SessionOrder(at, seen, last, now)
  BY DEF SessionsCounted
<1> DEFINE s == scall[c].id
           m == IF at[c] < last THEN last ELSE at[c]
<1>2. scall[c] \in SessionRecords /\ scall \in [Calls -> SessionRecords] /\ s \in Sessions
        /\ scall[c].pc = "write" /\ at[c] \in Nat
  BY DEF TypeOK, WriteSession, SessionsFit
<1>3. c \in Counting /\ scall[c].todo = {} /\ scall[c].n < MaxSessions /\ scall[c].n \in Nat
  BY <1>2 DEF CountsFit, Counting, SessionRecords
<1>4. \A d \in Calls : scall'[d] = IF d = c THEN NoSession ELSE scall[d]
  BY <1>2 DEF WriteSession, SReturn
<1>5. Live' \subseteq Live \cup {s}
  BY <1>2 DEF WriteSession, Live, TypeOK
<1>6. Counting' = Counting \ {c}
  BY <1>4 DEF Counting, NoSession
<1> HIDE DEF s
<1>7. Cardinality(Live') \in Nat /\ Cardinality(Live') <= Cardinality(Live) + 1
  BY <1>5, SessionsFinite, OneMore
<1>8. ASSUME NEW n \in Nat
      PROVE  /\ Cardinality(Earlier(at, n)') \in Nat
             /\ Cardinality(Earlier(at, n)') <= Cardinality(Earlier(at, n))
             /\ at[c] < n => Cardinality(Earlier(at, n)') + 1 <= Cardinality(Earlier(at, n))
  <2>1. Earlier(at, n)' \subseteq Earlier(at, n) \ {c} /\ IsFiniteSet(Earlier(at, n))
    BY <1>6, SessionsFinite DEF Earlier
  <2>2. /\ Cardinality(Earlier(at, n)') \in Nat
        /\ Cardinality(Earlier(at, n)') <= Cardinality(Earlier(at, n))
    BY <2>1, AtMost
  <2>3. CASE at[c] < n
    <3>1. c \in Earlier(at, n)
      BY <1>3, <2>3 DEF Earlier
    <3> QED BY <2>1, <2>2, <3>1, OneLess
  <2> QED BY <2>2, <2>3
<1>9. ASSUME NEW d \in Counting'
      PROVE  /\ d \in Counting /\ d # c /\ d \in Calls /\ scall'[d] = scall[d]
             /\ Cardinality(Unseen(d, seen[d])') \in Nat
             /\ Cardinality(Unseen(d, seen[d])') <= Cardinality(Unseen(d, seen[d])) + 1
  <2>1. d \in Counting /\ d # c /\ d \in Calls /\ scall'[d] = scall[d]
    BY <1>4, <1>6 DEF Counting
  <2>2. Unseen(d, seen[d])' \subseteq Unseen(d, seen[d]) \cup {s}
    BY <1>5, <2>1 DEF Unseen
  <2> QED BY <2>1, <2>2, SessionsFinite, OneMore
<1>10. at[c] >= last => Cardinality(Live) + Cardinality(Earlier(at, at[c]))
                          <= MaxSessions - 1 + Cardinality(Calls) - 1
  <2> SUFFICES ASSUME at[c] >= last
               PROVE  Cardinality(Live) + Cardinality(Earlier(at, at[c]))
                        <= MaxSessions - 1 + Cardinality(Calls) - 1
    OBVIOUS
  <2>1. Cardinality(seen[c]) <= scall[c].n
        /\ Cardinality(Unseen(c, seen[c])) + Cardinality(Earlier(at,
             at[c])) <= Cardinality(Calls) - 1
    BY <1>1, <1>3 DEF SessionOrder
  <2>2. Live \subseteq seen[c] \cup Unseen(c, seen[c])
    BY <1>3 DEF Unseen
  <2>3. IsFiniteSet(seen[c]) /\ Cardinality(seen[c]) \in Nat /\ IsFiniteSet(Unseen(c, seen[c]))
          /\ Cardinality(Unseen(c, seen[c])) \in Nat
    BY SessionsFinite
  <2>4. Cardinality(Live) <= Cardinality(seen[c]) + Cardinality(Unseen(c, seen[c]))
    <3>1. /\ IsFiniteSet(seen[c] \cup Unseen(c, seen[c]))
          /\ Cardinality(seen[c] \cup Unseen(c, seen[c])) = Cardinality(seen[c])
               + Cardinality(Unseen(c, seen[c])) - Cardinality(seen[c] \cap Unseen(c, seen[c]))
      BY <2>3, FS_Union
    <3>2. Cardinality(seen[c] \cap Unseen(c, seen[c])) \in Nat
      BY <2>3, AtMost
    <3>3. Cardinality(Live) <= Cardinality(seen[c] \cup Unseen(c, seen[c]))
      BY <2>2, <3>1, AtMost
    <3> QED BY <2>3, <3>1, <3>2, <3>3, SessionsFinite
  <2> QED BY <1>2, <1>3, <2>1, <2>3, <2>4, SessionsFinite
<1>11. m \in Nat /\ m >= last /\ m >= at[c] /\ m < now
  BY <1>1, <1>2 DEF SessionOrder
<1>12. Cardinality(Live') + Cardinality(Earlier(at, m)') <= MaxSessions + Cardinality(Calls) - 1
  <2>1. CASE at[c] < last
    <3>1. m = last /\ Cardinality(Live) + Cardinality(Earlier(at, last))
                        <= MaxSessions + Cardinality(Calls) - 1
      BY <1>1, <2>1 DEF SessionOrder
    <3> QED BY <1>7, <1>8, <2>1, <3>1, SessionsFinite
  <2>2. CASE ~(at[c] < last)
    <3>1. m = at[c] /\ at[c] >= last
      BY <1>2, <2>2
    <3>2. Cardinality(Live) + Cardinality(Earlier(at,
            at[c])) <= MaxSessions - 1 + Cardinality(Calls) - 1
      BY <1>10, <3>1
    <3>3. Cardinality(Earlier(at, at[c])') <= Cardinality(Earlier(at, at[c]))
            /\ Cardinality(Earlier(at, at[c])') \in Nat
      BY <1>2, <1>8
    <3> QED BY <1>7, <3>1, <3>2, <3>3, SessionsFinite
  <2> QED BY <2>1, <2>2
<1>13. ASSUME NEW d \in Counting', at[d] >= m
       PROVE  Cardinality(Unseen(d, seen[d])') + Cardinality(Earlier(at,
                at[d])') <= Cardinality(Calls) - 1
  <2>1. at[d] \in Nat /\ at[d] # at[c] /\ at[d] > at[c] /\ at[d] >= last
    BY <1>1, <1>2, <1>3, <1>9, <1>11, <1>13 DEF SessionOrder
  <2>2. Cardinality(Unseen(d, seen[d])) + Cardinality(Earlier(at, at[d])) <= Cardinality(Calls) - 1
    BY <1>1, <1>9, <2>1 DEF SessionOrder
  <2> QED BY <1>8, <1>9, <2>1, <2>2, SessionsFinite
<1> HIDE DEF m
<1>14. SessionOrder(at, seen, m, now)'
  BY <1>1, <1>9, <1>11, <1>12, <1>13 DEF SessionOrder
<1> QED BY <1>11, <1>14 DEF SessionsCounted

\* Every step keeps the order of the sessions.
LEMMA SessionsCountedNext ==
  ASSUME TypeOK, SessionsFit, CountsFit, SessionsCounted, [Next]_vars
  PROVE  SessionsCounted' /\ CountsFit'
<1>a. scall \in [Calls -> SessionRecords]
        /\ sess \in [Sessions -> {"none", "meta", "live", "expired"}]
  BY DEF TypeOK
<1>b. ASSUME NEW c \in Calls, NEW r, scall' = [scall EXCEPT ![c] = r],
             r.pc \in {"ttl", "write"} => r.new /\ r.todo = {} /\ r.n < MaxSessions,
             r.pc # "purge" => r.victim = NoDoc
      PROVE  CountsFit'
  <2>1. \A d \in Calls : scall'[d] = IF d = c THEN r ELSE scall[d]
    BY <1>a, <1>b
  <2> QED BY <1>b, <2>1 DEF CountsFit
<1>c. ASSUME NEW c \in Calls, SReturn(c), Live' \subseteq Live PROVE SessionsCounted' /\ CountsFit'
  <2>1. NoSession.pc = "idle" /\ NoSession.victim = NoDoc /\ ~Counts(NoSession)
    BY DEF NoSession, Counts
  <2> QED BY <1>b, <1>c, <2>1, CallGoesOn DEF SReturn
<1>d. ASSUME sess' = sess PROVE Live' = Live
  BY <1>d DEF Live
<1>1. ASSUME NEW c \in Calls, NEW s \in Sessions, CreateSession(c, s) \/ GetSession(c, s)
      PROVE SessionsCounted' /\ CountsFit'
  <2> DEFINE q == [NoSession EXCEPT !.pc = "list", !.id = s, !.new = TRUE]
             g == [NoSession EXCEPT !.pc = "look", !.id = s, !.todo = {s}]
  <2>1. q.pc = "list" /\ q.victim = NoDoc /\ g.pc = "look" /\ g.victim = NoDoc /\ g.new = FALSE
    BY DEF NoSession
  <2>2. SStart(c, q) \/ SStart(c, g)
    BY <1>1 DEF CreateSession, GetSession
  <2>3. ~Counts(q) /\ ~Counts(g)
    BY <2>1 DEF Counts
  <2> HIDE DEF q, g
  <2>4. Live' = Live /\ (scall' = [scall EXCEPT ![c] = q] \/ scall' = [scall EXCEPT ![c] = g])
    BY <1>d, <2>2 DEF SStart
  <2> QED BY <1>b, <2>1, <2>3, <2>4, CallGoesOn
<1>2. ASSUME NEW c \in Calls, ListSessions(c) PROVE SessionsCounted' /\ CountsFit'
  <2> DEFINE r == [scall[c] EXCEPT !.pc = "look", !.todo = {s \in Sessions : sess[s] # "none"}]
  <2>1. r.pc = "look" /\ r.victim = NoDoc /\ r.new = scall[c].new
    BY <1>2, <1>a DEF SessionRecords, CountsFit, ListSessions
  <2>2. scall' = [scall EXCEPT ![c] = r] /\ Live' = Live
    BY <1>2, <1>a, <1>d DEF ListSessions
  <2> HIDE DEF r
  <2>3. CountsFit'
    BY <1>b, <2>1, <2>2
  <2>4. CASE scall[c].new
    BY <1>2, <2>3, <2>4, ListCounted
  <2>5. CASE ~scall[c].new
    <3>1. ~Counts(r)
      BY <2>1, <2>5 DEF Counts
    <3> QED BY <2>2, <2>3, <3>1, CallGoesOn
  <2> QED BY <2>4, <2>5
<1>3. ASSUME NEW c \in Calls, NEW s \in Sessions, Look(c, s) PROVE SessionsCounted' /\ CountsFit'
  <2>0. scall[c].pc = "look" /\ scall[c].victim = NoDoc /\ scall[c] \in SessionRecords
          /\ sess' = sess
    BY <1>3, <1>a DEF Look, CountsFit
  <2>1. CASE sess[s] = "live"
    <3> DEFINE r == [scall[c] EXCEPT !.todo = @ \ {s}, !.n = @ + 1]
    <3>1. r.pc = "look" /\ r.victim = NoDoc
      BY <2>0 DEF SessionRecords
    <3>2. scall' = [scall EXCEPT ![c] = r]
      BY <1>3, <1>a, <2>1 DEF Look
    <3> HIDE DEF r
    <3>3. CountsFit'
      BY <1>b, <3>1, <3>2
    <3> QED BY <1>3, <2>1, <3>3, LookCounted
  <2>2. CASE sess[s] # "live"
    <3> DEFINE r == [scall[c] EXCEPT !.pc = "purge", !.victim = s]
    <3>1. r.pc = "purge" /\ r.victim = s /\ r.n = scall[c].n /\ r.todo = scall[c].todo
            /\ r.new = scall[c].new
      BY <2>0 DEF SessionRecords
    <3>2. scall' = [scall EXCEPT ![c] = r] /\ Live' = Live
      BY <1>3, <1>a, <1>d, <2>0, <2>2 DEF Look
    <3> HIDE DEF r
    <3>3. CountsFit'
      BY <1>b, <3>1, <3>2
    <3>4. Counts(r) => c \in Counting
      BY <2>0, <3>1 DEF Counts, Counting
    <3>5. Live' \ (r.todo \ {r.victim}) \subseteq Live \ (scall[c].todo \ {scall[c].victim})
      BY <2>0, <2>2, <3>1, <3>2, NoDocAssumption DEF Live
    <3> QED BY <3>1, <3>2, <3>3, <3>4, <3>5, CallGoesOn
  <2> QED BY <2>1, <2>2
<1>4. ASSUME NEW c \in Calls, PurgeSession(c) PROVE SessionsCounted' /\ CountsFit'
  <2> DEFINE r == [scall[c] EXCEPT !.pc = "look", !.todo = @ \ {scall[c].victim}, !.victim = NoDoc]
  <2>0. scall[c].pc = "purge" /\ scall[c] \in SessionRecords /\ scall[c].todo \subseteq Sessions
    BY <1>4, <1>a DEF PurgeSession, SessionRecords
  <2>1. r.pc = "look" /\ r.victim = NoDoc /\ r.n = scall[c].n /\ r.new = scall[c].new
          /\ r.todo = scall[c].todo \ {scall[c].victim}
    BY <2>0 DEF SessionRecords
  <2>2. scall' = [scall EXCEPT ![c] = r]
    BY <1>4, <1>a DEF PurgeSession
  <2>3. Live' \subseteq Live
    BY <1>4, <1>a DEF PurgeSession, Live
  <2> HIDE DEF r
  <2>4. CountsFit'
    BY <1>b, <2>1, <2>2
  <2>5. Counts(r) => c \in Counting
    BY <2>0, <2>1 DEF Counts, Counting
  <2>6. Live' \ (r.todo \ {r.victim}) \subseteq Live \ (scall[c].todo \ {scall[c].victim})
    BY <2>0, <2>1, <2>3, NoDocAssumption
  <2> QED BY <2>1, <2>2, <2>3, <2>4, <2>5, <2>6, CallGoesOn
<1>5. ASSUME NEW c \in Calls, Counted(c) PROVE SessionsCounted' /\ CountsFit'
  <2> DEFINE r == [scall[c] EXCEPT !.pc = "ttl"]
  <2>0. scall[c].pc = "look" /\ scall[c].todo = {} /\ scall[c] \in SessionRecords
          /\ scall[c].victim = NoDoc /\ Live' = Live
    BY <1>5, <1>a, <1>d DEF Counted, CountsFit
  <2>1. r.pc = "ttl" /\ r.victim = NoDoc /\ r.n = scall[c].n /\ r.new = scall[c].new /\ r.todo = {}
    BY <2>0 DEF SessionRecords
  <2>2. CASE scall[c].new /\ scall[c].n < MaxSessions
    <3>1. scall' = [scall EXCEPT ![c] = r]
      BY <1>5, <1>a, <2>2 DEF Counted, SGoto
    <3> HIDE DEF r
    <3>2. CountsFit'
      BY <1>b, <2>1, <2>2, <3>1
    <3>3. c \in Counting
      BY <2>0, <2>2 DEF Counting
    <3>4. Live' \ (r.todo \ {r.victim}) \subseteq Live \ (scall[c].todo \ {scall[c].victim})
      BY <2>0, <2>1
    <3> QED BY <2>0, <2>1, <3>1, <3>2, <3>3, <3>4, CallGoesOn
  <2>3. CASE ~(scall[c].new /\ scall[c].n < MaxSessions)
    BY <1>5, <1>c, <2>0, <2>3 DEF Counted
  <2> QED BY <2>2, <2>3
<1>6. ASSUME NEW c \in Calls, SetTTL(c) PROVE SessionsCounted' /\ CountsFit'
  <2> DEFINE r == [scall[c] EXCEPT !.pc = "write"]
  <2>0. scall[c].pc = "ttl" /\ scall[c] \in SessionRecords /\ scall[c].victim = NoDoc
          /\ scall[c].new /\ scall[c].todo = {} /\ scall[c].n < MaxSessions
    BY <1>6, <1>a DEF SetTTL, CountsFit
  <2>1. r.pc = "write" /\ r.victim = NoDoc /\ r.n = scall[c].n /\ r.new /\ r.todo = {}
    BY <2>0 DEF SessionRecords
  <2>2. scall' = [scall EXCEPT ![c] = r] /\ Live' \subseteq Live
    BY <1>6, <1>a DEF SetTTL, SGoto, Live
  <2> HIDE DEF r
  <2>3. CountsFit'
    BY <1>b, <2>0, <2>1, <2>2
  <2>4. c \in Counting
    BY <2>0 DEF Counting
  <2>5. Live' \ (r.todo \ {r.victim}) \subseteq Live \ (scall[c].todo \ {scall[c].victim})
    BY <2>0, <2>1, <2>2
  <2> QED BY <2>1, <2>2, <2>3, <2>4, <2>5, CallGoesOn
<1>7. ASSUME NEW c \in Calls, WriteSession(c) PROVE SessionsCounted' /\ CountsFit'
  <2>1. NoSession.pc = "idle" /\ NoSession.victim = NoDoc
    BY DEF NoSession
  <2>2. CountsFit'
    BY <1>7, <1>b, <2>1 DEF WriteSession, SReturn
  <2> QED BY <1>7, <2>2, WriteCounted
<1>8. ASSUME NEW c \in Calls, SessionFails(c) PROVE SessionsCounted' /\ CountsFit'
  BY <1>8, <1>c, <1>d DEF SessionFails
<1>9. ASSUME NEW s \in Sessions, Expire(s) PROVE SessionsCounted' /\ CountsFit'
  <2>1. Live' \subseteq Live /\ scall' = scall
    BY <1>9, <1>a DEF Expire, Live
  <2> QED BY <2>1, SessionEnds DEF CountsFit
<1>10. ASSUME UNCHANGED <<sess, scall>> PROVE SessionsCounted' /\ CountsFit'
  BY <1>10, <1>d, SessionEnds DEF CountsFit
<1>11. ASSUME NEW c \in Calls, Step(c) \/ RemoveOldFails(c) \/ Fails(c)
       PROVE UNCHANGED <<sess, scall>>
  BY <1>11 DEF Step, RemoveOldFails, Fails, Read, Replace, Confirm, Remove, CheckName, CreateNew,
     RemoveOld, CountProviders, WriteProvider, List, Visit, kv
<1>12. ASSUME NEW c \in Calls, Request(c) PROVE UNCHANGED <<sess, scall>>
  <2>1. ASSUME NEW p \in Paths, Create(c, p) PROVE UNCHANGED <<sess, scall>>
    BY <2>1 DEF Create
  <2>2. CASE Begins(c)
    BY <2>2, BeginsFit DEF Begins, Begin, kv
  <2> QED BY <1>12, <2>1, <2>2 DEF Request, Begins
<1>13. CASE UNCHANGED vars
  BY <1>10, <1>13 DEF vars
<1> QED
  BY <1>1, <1>2, <1>3, <1>4, <1>5, <1>6, <1>7, <1>8, <1>9, <1>10, <1>11, <1>12, <1>13 DEF Next,
     Session

\* What the limits rest on.
LInv == CopiesWithin /\ ItemLimit /\ ProvidersCounted /\ CountsFit /\ SessionsCounted

\* It holds initially.
LEMMA InitLInv == Init => LInv
<1> SUFFICES ASSUME Init PROVE LInv
  OBVIOUS
<1>1. CopiesWithin /\ ItemLimit
  BY NoCallFits, LimitsAssumption DEF Init, CopiesWithin, ItemLimit, Stored
<1>2. Cardinality({}) = 0
  BY FS_EmptySet
<1>3. ProvidersCounted
  <2>1. Writing = {} /\ Stored \cap Providers = {p \in Providers : Seed[p] # NoDoc}
    BY NoCallFits DEF Init, Writing, Stored, Paths
  <2>2. Cardinality(Stored \cap Providers) <= MaxProviders
    BY <2>1, LimitsAssumption
  <2> QED BY <1>2, <2>1, <2>2, ProvidersFinite DEF ProvidersCounted
<1>4. CountsFit
  BY DEF Init, CountsFit, NoSession
<1>5. SessionsCounted
  <2> DEFINE at == [c \in Calls |-> 0]
             seen == [c \in Calls |-> {}]
  <2>1. Live = {} /\ Counting = {} /\ Earlier(at, 0) = {}
    BY DEF Init, Live, Counting, NoSession, Earlier
  <2>2. at \in [Calls -> Nat] /\ seen \in [Calls -> SUBSET Sessions] /\ \A c \in Calls : at[c] < 1
    OBVIOUS
  <2> HIDE DEF at, seen
  <2>3. SessionOrder(at, seen, 0, 1)
    BY <1>2, <2>1, <2>2, SessionsFinite DEF SessionOrder
  <2> QED BY <2>2, <2>3 DEF SessionsCounted
<1> QED BY <1>1, <1>3, <1>4, <1>5 DEF LInv

\* No user, role or provider has more keys, policies, tags or clients than the limits allow,
\* though they are checked on copies and retried; and the limits on OIDC providers and on
\* sessions of a role, which are checked before the write and not with it, are exceeded by
\* at most the other requests that run at once, for any number of gateways, failures,
\* expiries and purges.
THEOREM LimitsHold == Spec => []LimitsKept
<1>1. IInv /\ LInv /\ [Next]_vars => LInv'
  BY ItemsNext, ProvidersNext, SessionsCountedNext DEF IInv, LInv
<1>2. LInv => LimitsKept
  <2> SUFFICES ASSUME LInv PROVE LimitsKept
    OBVIOUS
  <2>1. ProviderLimit
    BY ProvidersFinite DEF LInv, ProvidersCounted, ProviderLimit
  <2>2. SessionLimit
    <3>1. PICK at, seen, last, now : SessionOrder(at, seen, last, now)
      BY DEF LInv, SessionsCounted
    <3>2. Cardinality(Live) + Cardinality(Earlier(at, last)) <= MaxSessions + Cardinality(Calls) - 1
      BY <3>1 DEF SessionOrder
    <3>3. Cardinality(Live) <= MaxSessions + Cardinality(Calls) - 1
      BY <3>2, SessionsFinite
    <3> QED BY <3>3 DEF SessionLimit, Live
  <2> QED BY <2>1, <2>2 DEF LInv, LimitsKept
<1> QED BY <1>1, <1>2, InitLInv, InductiveInvariant, PTL DEF Spec
=============================================================================
