---------------------------- MODULE IamApiProofs ----------------------------
(***************************************************************************)
(* The store file of the IAM API stays sound whoever writes it             *)
(* (src/iamapi/storage/internal.go, src/internal/iamstore/engine.go).      *)
(*                                                                         *)
(* Every operation of the store makes a whole document of a whole one; a   *)
(* request takes only steps that its controller has, so that what it       *)
(* writes was asked for; and a writer has read, under the lock of its      *)
(* server, a sound file.  From there: a list that ends has shown everyone  *)
(* who was there throughout, and a credential that was withdrawn does not  *)
(* outlive the cache that may still know it.                               *)
(***************************************************************************)
EXTENDS IamApi, NaturalsInduction, WellFoundedInduction, FiniteSetTheorems, TLAPS

-----------------------------------------------------------------------------
(* Documents: what the operations on users, roles and providers share *)

\* What an operation, or the change of an entity, answers.
LEMMA Answers == /\ \A c : Done(c).ok /\ Done(c).conf = c
                 /\ \A w : ~Refused(w).ok
                 /\ \A e : To(e).ok /\ To(e).to = e
BY DEF Done, Refused, To

\* The name that a lookup finds is one of the users, in the case it was stored in.
LEMMA Looked ==
  ASSUME NEW c, Whole(c), NEW name
  PROVE  /\ lookupUser(c, name) # "" => /\ lookupUser(c, name) \in DOMAIN c.users
                                        /\ Fold(lookupUser(c, name)) = Fold(name)
         /\ lookupRole(c, name) # "" => /\ lookupRole(c, name) \in DOMAIN c.roles
                                        /\ Fold(lookupRole(c, name)) = Fold(name)
BY DEF Whole, Sound, NamesSound, lookupUser, lookupRole

\* The fields of a document.
LEMMA DocFields ==
  ASSUME NEW c, Whole(c)
  PROVE  {"users", "keyIndex", "userIndex", "roles", "roleIndex", "providers", "sessions"}
           \subseteq DOMAIN c
BY DEF Whole, Sound, defaultIAMConfig

\* The parts of a sound document.
LEMMA Parts ==
  ASSUME NEW c, Whole(c)
  PROVE  /\ KeysSound(c) /\ NamesSound(c.users, c.userIndex) /\ NamesSound(c.roles, c.roleIndex)
         /\ \A m, n \in DOMAIN c.users : c.users[m].id = c.users[n].id => m = n
BY DEF Whole, Sound

\* Whether the keys are right depends on the users and the key index alone.
LEMMA KeysFrame ==
  ASSUME NEW c, NEW d, KeysSound(c), d.users = c.users, d.keyIndex = c.keyIndex PROVE KeysSound(d)
BY DEF KeysSound

\* A key is with the user that the index names, and with no other.
LEMMA KeyOwner ==
  ASSUME NEW c, KeysSound(c), NEW m \in DOMAIN c.users
  PROVE  /\ \A k \in DOMAIN c.keyIndex : (k \in DOMAIN c.users[m].keys) <=> (c.keyIndex[k] = m)
         /\ \A k \in DOMAIN c.users[m].keys : k \in DOMAIN c.keyIndex
BY DEF KeysSound

\* A user that keeps its name, its ID and its keys may change otherwise.
LEMMA UserReplaced ==
  ASSUME NEW c, Whole(c), NEW n \in DOMAIN c.users, NEW u, UserSound(u),
         u.id = c.users[n].id, DOMAIN u.keys = DOMAIN c.users[n].keys,
         NEW d, DOMAIN d = DOMAIN c, d.keyIndex = c.keyIndex, d.userIndex = c.userIndex,
         d.roles = c.roles, d.roleIndex = c.roleIndex, d.providers = c.providers,
         d.sessions = c.sessions, d.users = [c.users EXCEPT ![n] = u]
  PROVE  Whole(d)
<1>1. /\ DOMAIN d.users = DOMAIN c.users /\ d.users[n] = u
      /\ \A m \in DOMAIN c.users : m # n => d.users[m] = c.users[m]
  OBVIOUS
<1>2. KeysSound(d)
  BY <1>1 DEF Whole, Sound, KeysSound
<1>3. \A m \in DOMAIN d.users : UserSound(d.users[m]) /\ d.users[m].id = c.users[m].id
  BY <1>1 DEF Whole, Sound
<1>4. \A m, o \in DOMAIN d.users : d.users[m].id = d.users[o].id => m = o
  BY <1>1, <1>3 DEF Whole, Sound
<1>5. NamesSound(d.users, d.userIndex)
  BY <1>1 DEF Whole, Sound, NamesSound
<1> QED BY <1>1, <1>2, <1>3, <1>4, <1>5 DEF Whole, Sound

\* An operation on a part of a user: the name, the ID and the keys stay.
LEMMA ChangeUserWhole ==
  ASSUME NEW c, Whole(c), NEW name, NEW r, ChangeUser(c, name, r).ok,
         lookupUser(c, name) # "" /\ r.ok =>
           /\ UserSound(r.to) /\ r.to.id = UserOf(c, name).id
           /\ DOMAIN r.to.keys = DOMAIN UserOf(c, name).keys
  PROVE  Whole(ChangeUser(c, name, r).conf)
<1> DEFINE old == lookupUser(c, name)
           d == ChangeUser(c, name, r).conf
<1>1. old # "" /\ r.ok
  BY Answers DEF ChangeUser
<1>2. d = [c EXCEPT !.users[old] = r.to]
  BY <1>1, Answers DEF ChangeUser
<1>3. old \in DOMAIN c.users
  BY <1>1, Looked
<1>4. UserSound(r.to) /\ r.to.id = c.users[old].id /\ DOMAIN r.to.keys = DOMAIN c.users[old].keys
  BY <1>1 DEF UserOf
<1>5. /\ DOMAIN d = DOMAIN c /\ d.keyIndex = c.keyIndex /\ d.userIndex = c.userIndex
      /\ d.roles = c.roles /\ d.roleIndex = c.roleIndex
      /\ d.providers = c.providers /\ d.sessions = c.sessions
      /\ d.users = [c.users EXCEPT ![old] = r.to]
  BY <1>2, DocFields
<1> HIDE DEF old, d
<1> QED BY <1>3, <1>4, <1>5, UserReplaced DEF d

\* The same for roles.
LEMMA ChangeRoleWhole ==
  ASSUME NEW c, Whole(c), NEW name, NEW r, ChangeRole(c, name, r).ok,
         lookupRole(c, name) # "" /\ r.ok => RoleSound(r.to)
  PROVE  Whole(ChangeRole(c, name, r).conf)
<1> DEFINE old == lookupRole(c, name)
           d == ChangeRole(c, name, r).conf
<1>1. old # "" /\ r.ok
  BY Answers DEF ChangeRole
<1>2. d = [c EXCEPT !.roles[old] = r.to]
  BY <1>1, Answers DEF ChangeRole
<1>3. old \in DOMAIN c.roles
  BY <1>1, Looked
<1>4. /\ DOMAIN d = DOMAIN c /\ d.keyIndex = c.keyIndex /\ d.userIndex = c.userIndex
      /\ d.users = c.users /\ d.roleIndex = c.roleIndex
      /\ d.providers = c.providers /\ d.sessions = c.sessions
      /\ d.roles = [c.roles EXCEPT ![old] = r.to]
  BY <1>2, DocFields
<1>5. RoleSound(r.to)
  BY <1>1
<1> HIDE DEF d, old
<1>6. /\ DOMAIN d.roles = DOMAIN c.roles /\ d.roles[old] = r.to
      /\ \A m \in DOMAIN c.roles : m # old => d.roles[m] = c.roles[m]
  BY <1>3, <1>4
<1>7. KeysSound(d)
  BY <1>4, Parts, KeysFrame
<1>8. NamesSound(d.roles, d.roleIndex)
  BY <1>4, <1>6 DEF Whole, Sound, NamesSound
<1>9. Whole(d)
  BY <1>4, <1>5, <1>6, <1>7, <1>8 DEF Whole, Sound
<1> QED BY <1>9 DEF d

\* The providers may change, each within its limit.
LEMMA ProvidersReplaced ==
  ASSUME NEW c, Whole(c), NEW f, \A p \in DOMAIN f : ProviderSound(f[p])
  PROVE  Whole([c EXCEPT !.providers = f])
<1> DEFINE d == [c EXCEPT !.providers = f]
<1>1. /\ DOMAIN d = DOMAIN c /\ d.keyIndex = c.keyIndex /\ d.userIndex = c.userIndex
      /\ d.users = c.users /\ d.roles = c.roles /\ d.roleIndex = c.roleIndex
      /\ d.providers = f /\ d.sessions = c.sessions
  OBVIOUS
<1> HIDE DEF d
<1>2. KeysSound(d)
  BY <1>1 DEF Whole, Sound, KeysSound
<1>3. Whole(d)
  BY <1>1, <1>2 DEF Whole, Sound
<1> QED BY <1>3 DEF d

\* The same for providers.
LEMMA ChangeProviderWhole ==
  ASSUME NEW c, Whole(c), NEW url, NEW r, ChangeProvider(c, url, r).ok,
         url \in DOMAIN c.providers /\ r.ok => ProviderSound(r.to)
  PROVE  Whole(ChangeProvider(c, url, r).conf)
<1>1. url \in DOMAIN c.providers /\ r.ok
  BY Answers DEF ChangeProvider
<1> DEFINE f == [c.providers EXCEPT ![url] = r.to]
<1>2. ChangeProvider(c, url, r).conf = [c EXCEPT !.providers = f]
  BY <1>1, Answers DEF ChangeProvider
<1>3. \A p \in DOMAIN f : ProviderSound(f[p])
  BY <1>1 DEF Whole, Sound
<1> HIDE DEF f
<1> QED BY <1>2, <1>3, ProvidersReplaced

\* CreateUser: the name differs from all others in more than case, the ID too.
LEMMA CreateUserWhole ==
  ASSUME NEW c, Whole(c), NEW name \in Names, NEW user, UserSound(user), DOMAIN user.keys = {},
         CreateUser(c, name, user).ok
  PROVE  Whole(CreateUser(c, name, user).conf)
<1> DEFINE us == Put(c.users, name, user)
           ui == Put(c.userIndex, Fold(name), name)
           d == [c EXCEPT !.users = us, !.userIndex = ui]
<1>1. /\ Fold(name) \notin DOMAIN c.userIndex /\ \A n \in DOMAIN c.users : c.users[n].id # user.id
      /\ CreateUser(c, name, user).conf = d
  BY Answers DEF CreateUser
<1>2. /\ DOMAIN d = DOMAIN c /\ d.keyIndex = c.keyIndex /\ d.userIndex = ui
      /\ d.users = us /\ d.roles = c.roles /\ d.roleIndex = c.roleIndex
      /\ d.providers = c.providers /\ d.sessions = c.sessions
  OBVIOUS
<1>3. /\ DOMAIN us = DOMAIN c.users \cup {name} /\ us[name] = user
      /\ \A n \in DOMAIN c.users : n # name => us[n] = c.users[n]
      /\ DOMAIN ui = DOMAIN c.userIndex \cup {Fold(name)} /\ ui[Fold(name)] = name
      /\ \A i \in DOMAIN c.userIndex : i # Fold(name) => ui[i] = c.userIndex[i]
  BY DEF Put
<1> HIDE DEF d, us, ui
<1>4. \A n \in DOMAIN c.users : Fold(n) # Fold(name) /\ n # name
  BY <1>1 DEF Whole
<1>5. NamesSound(us, ui)
  BY <1>1, <1>3, <1>4 DEF Whole, Sound, NamesSound
<1>6. KeysSound(d)
  BY <1>2, <1>3, <1>4 DEF Whole, Sound, KeysSound
<1>7. \A m, n \in DOMAIN us : us[m].id = us[n].id => m = n
  BY <1>1, <1>3, <1>4 DEF Whole, Sound
<1>8. Whole(d)
  BY <1>2, <1>3, <1>4, <1>5, <1>6, <1>7 DEF Whole, Sound
<1> QED BY <1>1, <1>8

\* DeleteUser: a user that is deleted has no keys, so that the index loses none.
LEMMA DeleteUserWhole ==
  ASSUME NEW c, Whole(c), NEW name, DeleteUser(c, name).ok
  PROVE  Whole(DeleteUser(c, name).conf)
<1> DEFINE old == lookupUser(c, name)
           us == Delete(c.users, {old})
           ui == Delete(c.userIndex, {Fold(old)})
           d == [c EXCEPT !.users = us, !.userIndex = ui]
<1>1. old # "" /\ c.users[old].keys = EmptyMap /\ DeleteUser(c, name).conf = d
  BY Answers DEF DeleteUser
<1>2. /\ DOMAIN d = DOMAIN c /\ d.keyIndex = c.keyIndex /\ d.userIndex = ui
      /\ d.users = us /\ d.roles = c.roles /\ d.roleIndex = c.roleIndex
      /\ d.providers = c.providers /\ d.sessions = c.sessions
  OBVIOUS
<1>3. /\ DOMAIN us = DOMAIN c.users \ {old} /\ \A m \in DOMAIN us : us[m] = c.users[m]
      /\ DOMAIN ui = DOMAIN c.userIndex \ {Fold(old)} /\ \A i \in DOMAIN ui : ui[i] = c.userIndex[i]
  BY DEF Delete, Restrict
<1>4. old \in DOMAIN c.users
  BY <1>1, Looked
<1> HIDE DEF d, us, ui, old
<1>5. DOMAIN c.users[old].keys = {}
  BY <1>1 DEF EmptyMap
<1>6. NamesSound(us, ui)
  BY <1>3, <1>4 DEF Whole, Sound, NamesSound
<1>7. KeysSound(d)
  BY <1>2, <1>3, <1>4, <1>5 DEF Whole, Sound, KeysSound
<1>8. \A m \in DOMAIN us : Fold(m) \in DOMAIN ui
  BY <1>3, <1>4 DEF Whole, Sound, NamesSound
<1>9. Whole(d)
  BY <1>2, <1>3, <1>4, <1>6, <1>7, <1>8 DEF Whole, Sound
<1> QED BY <1>1, <1>9

\* UpdateUser: a rename moves the user, its entry in the name index and those of
\* all its keys; the new name may differ from the old one in case only.
LEMMA UpdateUserWhole ==
  ASSUME NEW c, Whole(c), NEW name, NEW newName \in Names \cup {""}, NEW newPath, NEW newArn,
         UpdateUser(c, name, newName, newPath, newArn).ok
  PROVE  Whole(UpdateUser(c, name, newName, newPath, newArn).conf)
<1> DEFINE old == lookupUser(c, name)
           final == IF newName = "" THEN old ELSE newName
           user == [c.users[old] EXCEPT !.path = IF newPath = "" THEN @ ELSE newPath,
                                      !.arn = newArn]
           moved == IF final = old THEN c
                    ELSE [c EXCEPT
                            !.users = Delete(@, {old}), !.userIndex = Delete(@, {Fold(old)}),
                            !.keyIndex = Over([k \in DOMAIN user.keys |-> final], @)]
           d == [moved EXCEPT !.users = Put(@, final, user),
                              !.userIndex = Put(@, Fold(final), final)]
<1>1. /\ old # "" /\ (Fold(final) # Fold(old) => Fold(final) \notin DOMAIN c.userIndex)
      /\ UpdateUser(c, name, newName, newPath, newArn).conf = d
  BY Answers, Zenon DEF UpdateUser
<1>2. old \in DOMAIN c.users /\ old \in Names
  BY <1>1, Looked DEF Whole, Sound, NamesSound
<1>3. final \in Names
  BY <1>2
<1>4. UserSound(c.users[old])
  BY <1>2 DEF Whole, Sound
<1>5. /\ DOMAIN user = DOMAIN c.users[old] /\ user.keys = c.users[old].keys
      /\ user.id = c.users[old].id
  BY <1>4 DEF UserSound
<1> HIDE DEF old, final, user
<1>6. /\ DOMAIN moved = DOMAIN c /\ moved.roles = c.roles /\ moved.roleIndex = c.roleIndex
      /\ moved.providers = c.providers /\ moved.sessions = c.sessions
      /\ final = old => moved = c
      /\ final # old =>
           /\ moved.users = Delete(c.users, {old})
           /\ moved.userIndex = Delete(c.userIndex, {Fold(old)})
           /\ moved.keyIndex = Over([k \in DOMAIN user.keys |-> final], c.keyIndex)
  BY DocFields
<1> HIDE DEF moved
<1>7. /\ DOMAIN d = DOMAIN c /\ d.roles = c.roles /\ d.roleIndex = c.roleIndex
      /\ d.providers = c.providers /\ d.sessions = c.sessions
      /\ d.users = Put(moved.users, final, user)
      /\ d.userIndex = Put(moved.userIndex, Fold(final), final)
      /\ d.keyIndex = moved.keyIndex
  BY <1>6, DocFields
<1> HIDE DEF d
<1>8. /\ DOMAIN d.users = (DOMAIN c.users \ {old}) \cup {final} /\ d.users[final] = user
      /\ \A m \in DOMAIN c.users : m \notin {old, final} => d.users[m] = c.users[m]
  <2>1. DOMAIN moved.users = DOMAIN c.users \ {old} \/ (final = old /\ moved.users = c.users)
    BY <1>6 DEF Delete, Restrict
  <2>2. \A m \in DOMAIN c.users \ {old} : moved.users[m] = c.users[m]
    BY <1>6 DEF Delete, Restrict
  <2> QED BY <1>2, <1>7, <2>1, <2>2 DEF Put
<1>9. /\ DOMAIN d.userIndex = (DOMAIN c.userIndex \ {Fold(old)}) \cup {Fold(final)}
      /\ d.userIndex[Fold(final)] = final
      /\ \A i \in DOMAIN c.userIndex : i \notin {Fold(old), Fold(final)} =>
           d.userIndex[i] = c.userIndex[i]
  <2>1. \/ DOMAIN moved.userIndex = DOMAIN c.userIndex \ {Fold(old)}
        \/ final = old /\ moved.userIndex = c.userIndex
    BY <1>6 DEF Delete, Restrict
  <2>2. \A i \in DOMAIN c.userIndex \ {Fold(old)} : moved.userIndex[i] = c.userIndex[i]
    BY <1>6 DEF Delete, Restrict
  <2>3. Fold(old) \in DOMAIN c.userIndex
    BY <1>2 DEF Whole
  <2> QED BY <1>7, <2>1, <2>2, <2>3 DEF Put
<1>10. /\ DOMAIN d.keyIndex = DOMAIN c.keyIndex
       /\ \A k \in DOMAIN c.keyIndex :
            d.keyIndex[k] = IF k \in DOMAIN user.keys THEN final ELSE c.keyIndex[k]
  <2>1. \A k \in DOMAIN user.keys : k \in DOMAIN c.keyIndex /\ c.keyIndex[k] = old
    <3>1. KeysSound(c)
      BY Parts
    <3> QED BY <1>2, <1>5, <3>1 DEF KeysSound
  <2>2. CASE final = old
    BY <1>6, <1>7, <2>1, <2>2
  <2>3. CASE final # old
    <3>1. d.keyIndex = Over([k \in DOMAIN user.keys |-> final], c.keyIndex)
      BY <1>6, <1>7, <2>3
    <3> QED BY <2>1, <3>1 DEF Over
  <2> QED BY <2>2, <2>3
<1>11. \A m \in DOMAIN c.users : m # old => Fold(m) # Fold(final) /\ m # final
  BY <1>1, <1>2 DEF Whole, Sound, NamesSound
<1>12. NamesSound(d.users, d.userIndex)
  <2>1. \A m, o \in DOMAIN d.users : Fold(m) = Fold(o) => m = o
    BY <1>8, <1>11 DEF Whole, Sound, NamesSound
  <2>2. ASSUME NEW i \in DOMAIN d.userIndex
        PROVE  d.userIndex[i] \in DOMAIN d.users /\ Fold(d.userIndex[i]) = i
    <3>1. CASE i = Fold(final)
      BY <1>8, <1>9, <3>1
    <3>2. CASE i # Fold(final)
      <4>1. /\ i \in DOMAIN c.userIndex /\ i # Fold(old) /\ d.userIndex[i] = c.userIndex[i]
            /\ c.userIndex[i] \in DOMAIN c.users /\ Fold(c.userIndex[i]) = i
        BY <1>9, <3>2, Parts DEF NamesSound
      <4> QED BY <1>8, <4>1
    <3> QED BY <3>1, <3>2
  <2> QED BY <1>3, <1>8, <2>1, <2>2 DEF Whole, Sound, NamesSound
<1>13. KeysSound(d)
  <2>0. KeysSound(c)
    BY Parts
  <2>1. \A k \in DOMAIN c.keyIndex : (k \in DOMAIN user.keys) <=> (c.keyIndex[k] = old)
    <3>1. user.keys = c.users[old].keys
      BY <1>5
    <3>2. \A k \in DOMAIN c.keyIndex : (k \in DOMAIN c.users[old].keys) <=> (c.keyIndex[k] = old)
      BY <1>2, <2>0, KeyOwner
    <3> QED BY <3>1, <3>2
  <2>2. ASSUME NEW m \in DOMAIN d.users, NEW k \in DOMAIN d.users[m].keys
        PROVE  k \in DOMAIN d.keyIndex /\ d.keyIndex[k] = m
    <3>1. CASE m = final
      BY <1>2, <1>5, <1>8, <1>10, <3>1, <2>0 DEF KeysSound
    <3>2. CASE m # final
      <4>1. m \in DOMAIN c.users /\ m # old /\ d.users[m] = c.users[m]
        BY <1>8, <3>2
      <4>2. k \in DOMAIN c.keyIndex /\ c.keyIndex[k] = m
        BY <4>1, <2>0 DEF KeysSound
      <4> QED BY <1>10, <2>1, <4>1, <4>2
    <3> QED BY <3>1, <3>2
  <2>3. ASSUME NEW k \in DOMAIN d.keyIndex
        PROVE  d.keyIndex[k] \in DOMAIN d.users /\ k \in DOMAIN d.users[d.keyIndex[k]].keys
    <3>1. CASE k \in DOMAIN user.keys
      BY <1>8, <1>10, <3>1
    <3>2. CASE k \notin DOMAIN user.keys
      <4>1. c.keyIndex[k] \in DOMAIN c.users \ {old} /\ d.keyIndex[k] = c.keyIndex[k]
        BY <1>10, <2>1, <3>2, <2>0 DEF KeysSound
      <4>2. d.users[c.keyIndex[k]] = c.users[c.keyIndex[k]] /\ k \in DOMAIN c.keyIndex
        BY <1>8, <1>10, <1>11, <4>1
      <4>3. k \in DOMAIN c.users[c.keyIndex[k]].keys
        BY <4>2, <2>0 DEF KeysSound
      <4> QED BY <1>8, <4>1, <4>2, <4>3
    <3> QED BY <3>1, <3>2
  <2> QED BY <2>2, <2>3 DEF KeysSound
<1>14. UserSound(user)
  BY <1>4, <1>5 DEF UserSound
<1>15. \A m \in DOMAIN d.users : UserSound(d.users[m])
  BY <1>8, <1>14 DEF Whole, Sound
<1>16. \A m, o \in DOMAIN d.users : d.users[m].id = d.users[o].id => m = o
  <2> SUFFICES ASSUME NEW m \in DOMAIN d.users, NEW o \in DOMAIN d.users,
                      d.users[m].id = d.users[o].id
               PROVE  m = o
    OBVIOUS
  <2> DEFINE was(x) == IF x = final THEN old ELSE x
  <2>1. \A x \in DOMAIN d.users : was(x) \in DOMAIN c.users /\ d.users[x].id = c.users[was(x)].id
    BY <1>2, <1>5, <1>8
  <2>2. was(m) = was(o)
    BY <2>1, Parts
  <2> QED BY <1>8, <2>2
<1>17. \A m \in DOMAIN d.users : Fold(m) \in DOMAIN d.userIndex
  BY <1>2, <1>8, <1>9 DEF Whole, Sound, NamesSound
<1>18. Whole(d)
  BY <1>7, <1>12, <1>13, <1>15, <1>16, <1>17 DEF Whole, Sound
<1> QED BY <1>1, <1>18

\* One more of fewer than the limit is within it, and so is a part of what is.
LEMMA OneMore ==
  ASSUME NEW S, NEW x, NEW max \in Nat, IsFiniteSet(S), ~(Cardinality(S) >= max)
  PROVE  IsFiniteSet(S \cup {x}) /\ Cardinality(S \cup {x}) <= max
<1>1. Cardinality(S) \in Nat
  BY FS_CardinalityType
<1>2. /\ IsFiniteSet(S \cup {x})
      /\ Cardinality(S \cup {x}) = IF x \in S THEN Cardinality(S) ELSE Cardinality(S) + 1
  BY FS_AddElement
<1> QED BY <1>1, <1>2

\* A part of what is within a limit is within it.
LEMMA Fewer ==
  ASSUME NEW S, NEW T \in SUBSET S, NEW max \in Nat, IsFiniteSet(S), Cardinality(S) <= max
  PROVE  IsFiniteSet(T) /\ Cardinality(T) <= max
<1>1. IsFiniteSet(T) /\ Cardinality(T) <= Cardinality(S)
  BY FS_Subset
<1>2. Cardinality(S) \in Nat /\ Cardinality(T) \in Nat
  BY <1>1, FS_CardinalityType
<1> QED BY <1>1, <1>2

\* CreateAccessKey: one more key for the user, within the limit, and new to the index.
LEMMA CreateAccessKeyWhole ==
  ASSUME NEW c, Whole(c), NEW name, NEW id, CreateAccessKey(c, name, id).ok
  PROVE  Whole(CreateAccessKey(c, name, id).conf)
<1> DEFINE old == lookupUser(c, name)
           ks == Put(c.users[old].keys, id, "Active")
           ki == Put(c.keyIndex, id, old)
           u == [c.users[old] EXCEPT !.keys = ks]
           d == [c EXCEPT !.users[old].keys = Put(@, id, "Active"), !.keyIndex = Put(@, id, old)]
<1>1. /\ old # "" /\ ~(Cardinality(DOMAIN c.users[old].keys) >= MaxKeys)
      /\ id \notin DOMAIN c.keyIndex /\ CreateAccessKey(c, name, id).conf = d
  BY Answers, Zenon DEF CreateAccessKey
<1>2. old \in DOMAIN c.users
  BY <1>1, Looked
<1>3. UserSound(c.users[old])
  BY <1>2 DEF Whole, Sound
<1>4. /\ DOMAIN d = DOMAIN c /\ d.roles = c.roles /\ d.roleIndex = c.roleIndex
      /\ d.providers = c.providers /\ d.sessions = c.sessions /\ d.userIndex = c.userIndex
      /\ d.keyIndex = ki /\ d.users = [c.users EXCEPT ![old] = u]
  BY <1>2
<1>5. DOMAIN u = DOMAIN c.users[old] /\ u.id = c.users[old].id /\ u.keys = ks
  BY <1>3
<1>6. DOMAIN ks = DOMAIN c.users[old].keys \cup {id} /\ DOMAIN ki = DOMAIN c.keyIndex \cup {id}
      /\ ki[id] = old /\ \A k \in DOMAIN c.keyIndex : ki[k] = c.keyIndex[k]
  BY <1>1 DEF Put
<1> HIDE DEF d, u, ks, ki, old
<1>7. UserSound(u)
  <2>1. IsFiniteSet(DOMAIN ks) /\ Cardinality(DOMAIN ks) <= MaxKeys
    <3>1. IsFiniteSet(DOMAIN c.users[old].keys) /\ MaxKeys \in Nat
      BY <1>3, ConfigAssumption DEF UserSound
    <3>2. ~(Cardinality(DOMAIN c.users[old].keys) >= MaxKeys)
      BY <1>1
    <3> DEFINE K == DOMAIN c.users[old].keys
    <3> HIDE DEF K
    <3>3. IsFiniteSet(K \cup {id}) /\ Cardinality(K \cup {id}) <= MaxKeys
      BY <3>1, <3>2, OneMore DEF K
    <3> QED BY <1>6, <3>3 DEF K
  <2> QED BY <1>3, <1>5, <2>1 DEF UserSound
<1>8. /\ DOMAIN d.users = DOMAIN c.users /\ d.users[old] = u
      /\ \A m \in DOMAIN c.users : m # old => d.users[m] = c.users[m]
  BY <1>2, <1>4
<1>9. KeysSound(d)
  <2>1. KeysSound(c)
    BY Parts
  <2>2. ASSUME NEW m \in DOMAIN d.users, NEW k \in DOMAIN d.users[m].keys
        PROVE  k \in DOMAIN d.keyIndex /\ d.keyIndex[k] = m
    <3>1. CASE m = old /\ k = id
      BY <1>4, <1>6, <3>1
    <3>2. CASE ~(m = old /\ k = id)
      <4>1. m \in DOMAIN c.users /\ k \in DOMAIN c.users[m].keys
        BY <1>5, <1>6, <1>8, <3>2
      <4>2. k \in DOMAIN c.keyIndex /\ c.keyIndex[k] = m
        BY <2>1, <4>1, KeyOwner
      <4> QED BY <1>4, <1>6, <4>2
    <3> QED BY <3>1, <3>2
  <2>3. ASSUME NEW k \in DOMAIN d.keyIndex
        PROVE  d.keyIndex[k] \in DOMAIN d.users /\ k \in DOMAIN d.users[d.keyIndex[k]].keys
    <3>1. CASE k = id
      BY <1>2, <1>4, <1>5, <1>6, <1>8, <3>1
    <3>2. CASE k # id
      <4>1. k \in DOMAIN c.keyIndex /\ d.keyIndex[k] = c.keyIndex[k]
        BY <1>4, <1>6, <3>2
      <4>2. c.keyIndex[k] \in DOMAIN c.users /\ k \in DOMAIN c.users[c.keyIndex[k]].keys
        BY <2>1, <4>1 DEF KeysSound
      <4> QED BY <1>5, <1>6, <1>8, <4>1, <4>2
    <3> QED BY <3>1, <3>2
  <2> QED BY <2>2, <2>3 DEF KeysSound
<1>10. \A m \in DOMAIN d.users : UserSound(d.users[m]) /\ d.users[m].id = c.users[m].id
  BY <1>5, <1>7, <1>8 DEF Whole, Sound
<1>11. \A m, o \in DOMAIN d.users : d.users[m].id = d.users[o].id => m = o
  BY <1>8, <1>10, Parts
<1>12. NamesSound(d.users, d.userIndex)
  BY <1>4, <1>8, Parts DEF NamesSound
<1>13. Whole(d)
  BY <1>4, <1>8, <1>9, <1>10, <1>11, <1>12 DEF Whole, Sound
<1> QED BY <1>1, <1>13

\* DeleteAccessKey: the key leaves the user and the index.
LEMMA DeleteAccessKeyWhole ==
  ASSUME NEW c, Whole(c), NEW name, NEW id, DeleteAccessKey(c, name, id).ok
  PROVE  Whole(DeleteAccessKey(c, name, id).conf)
<1> DEFINE old == lookupUser(c, name)
           ks == Delete(c.users[old].keys, {id})
           ki == Delete(c.keyIndex, {id})
           u == [c.users[old] EXCEPT !.keys = ks, !.used = @ \ {id}]
           d == [c EXCEPT !.users[old].keys = Delete(@, {id}), !.users[old].used = @ \ {id},
                          !.keyIndex = Delete(@, {id})]
<1>1. /\ old # "" /\ id \in DOMAIN c.users[old].keys
      /\ DeleteAccessKey(c, name, id).conf = d
  BY Answers, Zenon DEF DeleteAccessKey
<1>2. old \in DOMAIN c.users
  BY <1>1, Looked
<1>3. UserSound(c.users[old])
  BY <1>2 DEF Whole, Sound
<1>4. /\ DOMAIN d = DOMAIN c /\ d.roles = c.roles /\ d.roleIndex = c.roleIndex
      /\ d.providers = c.providers /\ d.sessions = c.sessions /\ d.userIndex = c.userIndex
      /\ d.keyIndex = ki /\ d.users = [c.users EXCEPT ![old] = u]
  BY <1>2, DocFields
<1>5. DOMAIN u = DOMAIN c.users[old] /\ u.id = c.users[old].id /\ u.keys = ks
  BY <1>3
<1>6. DOMAIN ks = DOMAIN c.users[old].keys \ {id} /\ DOMAIN ki = DOMAIN c.keyIndex \ {id}
      /\ \A k \in DOMAIN ki : ki[k] = c.keyIndex[k]
  BY DEF Delete, Restrict
<1> HIDE DEF d, u, ks, ki, old
<1>7. UserSound(u)
  <2>1. IsFiniteSet(DOMAIN ks) /\ Cardinality(DOMAIN ks) <= MaxKeys
    <3>1. /\ IsFiniteSet(DOMAIN c.users[old].keys) /\ MaxKeys \in Nat
          /\ Cardinality(DOMAIN c.users[old].keys) <= MaxKeys
      BY <1>3, ConfigAssumption DEF UserSound
    <3>2. DOMAIN ks \in SUBSET DOMAIN c.users[old].keys
      BY <1>6
    <3> QED BY <3>1, <3>2, Fewer
  <2> QED BY <1>3, <1>5, <2>1 DEF UserSound
<1>8. /\ DOMAIN d.users = DOMAIN c.users /\ d.users[old] = u
      /\ \A m \in DOMAIN c.users : m # old => d.users[m] = c.users[m]
  BY <1>2, <1>4
<1>9. KeysSound(d)
  <2>1. KeysSound(c)
    BY Parts
  <2>2. ASSUME NEW m \in DOMAIN d.users, NEW k \in DOMAIN d.users[m].keys
        PROVE  k \in DOMAIN d.keyIndex /\ d.keyIndex[k] = m
    <3>1. m \in DOMAIN c.users /\ k \in DOMAIN c.users[m].keys /\ (m = old => k # id)
      <4>1. CASE m = old
        BY <1>2, <1>5, <1>6, <1>8, <4>1
      <4>2. CASE m # old
        BY <1>8, <4>2
      <4> QED BY <4>1, <4>2
    <3>2. k \in DOMAIN c.keyIndex /\ c.keyIndex[k] = m
      BY <2>1, <3>1, KeyOwner
    <3>3. id \in DOMAIN c.keyIndex /\ c.keyIndex[id] = old
      <4>1. id \in DOMAIN c.users[old].keys
        BY <1>1
      <4> QED BY <1>2, <2>1, <4>1, KeyOwner
    <3> QED BY <1>4, <1>6, <3>1, <3>2, <3>3
  <2>3. ASSUME NEW k \in DOMAIN d.keyIndex
        PROVE  d.keyIndex[k] \in DOMAIN d.users /\ k \in DOMAIN d.users[d.keyIndex[k]].keys
    <3>1. k \in DOMAIN c.keyIndex /\ k # id /\ d.keyIndex[k] = c.keyIndex[k]
      BY <1>4, <1>6
    <3>2. c.keyIndex[k] \in DOMAIN c.users /\ k \in DOMAIN c.users[c.keyIndex[k]].keys
      BY <2>1, <3>1 DEF KeysSound
    <3> QED BY <1>5, <1>6, <1>8, <3>1, <3>2
  <2> QED BY <2>2, <2>3 DEF KeysSound
<1>10. \A m \in DOMAIN d.users : UserSound(d.users[m]) /\ d.users[m].id = c.users[m].id
  BY <1>5, <1>7, <1>8 DEF Whole, Sound
<1>11. \A m, o \in DOMAIN d.users : d.users[m].id = d.users[o].id => m = o
  BY <1>8, <1>10, Parts
<1>12. NamesSound(d.users, d.userIndex)
  BY <1>4, <1>8, Parts DEF NamesSound
<1>13. Whole(d)
  BY <1>4, <1>8, <1>9, <1>10, <1>11, <1>12 DEF Whole, Sound
<1> QED BY <1>1, <1>13

\* RecordAccessKeyUsage: nothing but the time of use changes.
LEMMA RecordUsageWhole ==
  ASSUME NEW c, Whole(c), NEW id, RecordAccessKeyUsage(c, id).ok
  PROVE  Whole(RecordAccessKeyUsage(c, id).conf)
<1> DEFINE old == ownerOf(c, id)
           d == [c EXCEPT !.users[old].used = @ \cup {id}]
           u == [c.users[old] EXCEPT !.used = @ \cup {id}]
<1>1. old # "" /\ RecordAccessKeyUsage(c, id).conf = d
  BY Answers, Zenon DEF RecordAccessKeyUsage
<1>2. old \in DOMAIN c.users
  BY <1>1 DEF ownerOf
<1>3. UserSound(c.users[old])
  BY <1>2 DEF Whole, Sound
<1>4. /\ DOMAIN d = DOMAIN c /\ d.roles = c.roles /\ d.roleIndex = c.roleIndex
      /\ d.providers = c.providers /\ d.sessions = c.sessions /\ d.userIndex = c.userIndex
      /\ d.keyIndex = c.keyIndex /\ d.users = [c.users EXCEPT ![old] = u]
  BY <1>2
<1>5. DOMAIN u = DOMAIN c.users[old] /\ u.id = c.users[old].id /\ u.keys = c.users[old].keys
  BY <1>3
<1> HIDE DEF d, u, old
<1>6. UserSound(u)
  BY <1>3, <1>5 DEF UserSound
<1>7. Whole(d)
  BY <1>2, <1>4, <1>5, <1>6, UserReplaced
<1> QED BY <1>1, <1>7

\* CreateRole.
LEMMA CreateRoleWhole ==
  ASSUME NEW c, Whole(c), NEW name \in Names, NEW role, RoleSound(role),
         CreateRole(c, name, role).ok
  PROVE  Whole(CreateRole(c, name, role).conf)
<1> DEFINE rs == Put(c.roles, name, role)
           ri == Put(c.roleIndex, Fold(name), name)
           d == [c EXCEPT !.roles = rs, !.roleIndex = ri]
<1>1. Fold(name) \notin DOMAIN c.roleIndex /\ CreateRole(c, name, role).conf = d
  BY Answers DEF CreateRole
<1>2. /\ DOMAIN d = DOMAIN c /\ d.keyIndex = c.keyIndex /\ d.userIndex = c.userIndex
      /\ d.users = c.users /\ d.roles = rs /\ d.roleIndex = ri
      /\ d.providers = c.providers /\ d.sessions = c.sessions
  OBVIOUS
<1>3. /\ DOMAIN rs = DOMAIN c.roles \cup {name} /\ rs[name] = role
      /\ \A n \in DOMAIN c.roles : n # name => rs[n] = c.roles[n]
      /\ DOMAIN ri = DOMAIN c.roleIndex \cup {Fold(name)} /\ ri[Fold(name)] = name
      /\ \A i \in DOMAIN c.roleIndex : i # Fold(name) => ri[i] = c.roleIndex[i]
  BY DEF Put
<1> HIDE DEF d, rs, ri
<1>4. \A n \in DOMAIN c.roles : Fold(n) # Fold(name) /\ n # name
  BY <1>1 DEF Whole
<1>5. NamesSound(rs, ri)
  BY <1>1, <1>3, <1>4, Parts DEF NamesSound
<1>6. KeysSound(d)
  BY <1>2, Parts, KeysFrame
<1>7. Whole(d)
  BY <1>2, <1>3, <1>4, <1>5, <1>6 DEF Whole, Sound
<1> QED BY <1>1, <1>7

\* DeleteRole.
LEMMA DeleteRoleWhole ==
  ASSUME NEW c, Whole(c), NEW name, DeleteRole(c, name).ok
  PROVE  Whole(DeleteRole(c, name).conf)
<1> DEFINE old == lookupRole(c, name)
           rs == Delete(c.roles, {old})
           ri == Delete(c.roleIndex, {Fold(old)})
           d == [c EXCEPT !.roles = rs, !.roleIndex = ri]
<1>1. old # "" /\ DeleteRole(c, name).conf = d
  BY Answers DEF DeleteRole
<1>2. /\ DOMAIN d = DOMAIN c /\ d.keyIndex = c.keyIndex /\ d.userIndex = c.userIndex
      /\ d.users = c.users /\ d.roles = rs /\ d.roleIndex = ri
      /\ d.providers = c.providers /\ d.sessions = c.sessions
  OBVIOUS
<1>3. /\ DOMAIN rs = DOMAIN c.roles \ {old} /\ \A m \in DOMAIN rs : rs[m] = c.roles[m]
      /\ DOMAIN ri = DOMAIN c.roleIndex \ {Fold(old)} /\ \A i \in DOMAIN ri : ri[i] = c.roleIndex[i]
  BY DEF Delete, Restrict
<1>4. old \in DOMAIN c.roles
  BY <1>1, Looked
<1> HIDE DEF d, rs, ri, old
<1>5. NamesSound(rs, ri)
  BY <1>3, <1>4, Parts DEF NamesSound
<1>6. KeysSound(d)
  BY <1>2, Parts, KeysFrame
<1>7. \A m \in DOMAIN rs : Fold(m) \in DOMAIN ri
  BY <1>3, <1>4 DEF Whole, Sound, NamesSound
<1>8. Whole(d)
  BY <1>2, <1>3, <1>4, <1>5, <1>6, <1>7 DEF Whole, Sound
<1> QED BY <1>1, <1>8

\* CreateOIDCProvider.
LEMMA CreateProviderWhole ==
  ASSUME NEW c, Whole(c), NEW url, NEW p, ProviderSound(p), CreateOIDCProvider(c, url, p).ok
  PROVE  Whole(CreateOIDCProvider(c, url, p).conf)
<1> DEFINE f == Put(c.providers, url, p)
<1>1. CreateOIDCProvider(c, url, p).conf = [c EXCEPT !.providers = f]
  BY Answers DEF CreateOIDCProvider
<1>2. \A q \in DOMAIN f : ProviderSound(f[q])
  BY DEF Put, Whole, Sound
<1> HIDE DEF f
<1> QED BY <1>1, <1>2, ProvidersReplaced

\* DeleteOIDCProvider.
LEMMA DeleteProviderWhole ==
  ASSUME NEW c, Whole(c), NEW url, DeleteOIDCProvider(c, url).ok
  PROVE  Whole(DeleteOIDCProvider(c, url).conf)
<1> DEFINE f == Delete(c.providers, {url})
<1>1. DeleteOIDCProvider(c, url).conf = [c EXCEPT !.providers = f]
  BY Answers DEF DeleteOIDCProvider
<1>2. \A q \in DOMAIN f : ProviderSound(f[q])
  BY DEF Delete, Restrict, Whole, Sound
<1> HIDE DEF f
<1> QED BY <1>1, <1>2, ProvidersReplaced

\* AddClientIDToOIDCProvider: one more client within the limit.
LEMMA AddClientWhole ==
  ASSUME NEW c, Whole(c), NEW url, NEW client, AddClientIDToOIDCProvider(c, url, client).ok
  PROVE  Whole(AddClientIDToOIDCProvider(c, url, client).conf)
<1> DEFINE p == c.providers[url]
           q == [p EXCEPT !.clients = @ \cup {client}]
           r == IF client \in p.clients THEN To(p)
                ELSE IF Cardinality(p.clients) >= MaxClients THEN Refused("LimitExceeded")
                ELSE To(q)
<1>1. AddClientIDToOIDCProvider(c, url, client) = ChangeProvider(c, url, r)
  BY DEF AddClientIDToOIDCProvider
<1>2. ASSUME url \in DOMAIN c.providers, r.ok PROVE ProviderSound(r.to)
  <2>1. ProviderSound(p)
    BY <1>2 DEF Whole, Sound
  <2>2. CASE client \in p.clients
    BY <2>1, <2>2, Answers
  <2>3. CASE client \notin p.clients
    <3>1. ~(Cardinality(p.clients) >= MaxClients) /\ r = To(q)
      BY <1>2, <2>3, Answers
    <3>2. DOMAIN q = DOMAIN p /\ q.clients = p.clients \cup {client}
      BY <2>1
    <3> DEFINE S == p.clients
    <3>3. IsFiniteSet(S) /\ MaxClients \in Nat /\ ~(Cardinality(S) >= MaxClients)
      BY <2>1, <3>1, ConfigAssumption DEF ProviderSound
    <3> HIDE DEF S
    <3>4. IsFiniteSet(S \cup {client}) /\ Cardinality(S \cup {client}) <= MaxClients
      BY <3>3, OneMore
    <3> HIDE DEF q, r, p
    <3>5. ProviderSound(q)
      BY <2>1, <3>2, <3>4 DEF ProviderSound, S
    <3> QED BY <3>1, <3>5, Answers
  <2> QED BY <2>2, <2>3
<1> HIDE DEF r
<1> QED BY <1>1, <1>2, ChangeProviderWhole

\* RemoveClientIDFromOIDCProvider.
LEMMA RemoveClientWhole ==
  ASSUME NEW c, Whole(c), NEW url, NEW client, RemoveClientIDFromOIDCProvider(c, url, client).ok
  PROVE  Whole(RemoveClientIDFromOIDCProvider(c, url, client).conf)
<1> DEFINE p == c.providers[url]
           q == [p EXCEPT !.clients = @ \ {client}]
           r == To(q)
<1>1. RemoveClientIDFromOIDCProvider(c, url, client) = ChangeProvider(c, url, r)
  BY DEF RemoveClientIDFromOIDCProvider
<1>2. ASSUME url \in DOMAIN c.providers PROVE ProviderSound(q)
  <2>1. ProviderSound(p)
    BY <1>2 DEF Whole, Sound
  <2>2. DOMAIN q = DOMAIN p /\ q.clients = p.clients \ {client}
    BY <2>1
  <2>3. IsFiniteSet(p.clients) /\ MaxClients \in Nat /\ Cardinality(p.clients) <= MaxClients
    BY <2>1, ConfigAssumption DEF ProviderSound
  <2> HIDE DEF q, p
  <2>4. q.clients \in SUBSET p.clients
    BY <2>2
  <2>5. IsFiniteSet(q.clients) /\ Cardinality(q.clients) <= MaxClients
    BY <2>3, <2>4, Fewer
  <2> QED BY <2>1, <2>2, <2>5 DEF ProviderSound
<1>3. r.ok /\ r.to = q
  BY Answers
<1> HIDE DEF r, q
<1> QED BY <1>1, <1>2, <1>3, ChangeProviderWhole

\* CreateSession: expired sessions are dropped first; the limit counts the others.
LEMMA CreateSessionWhole ==
  ASSUME NEW c, Whole(c), NEW id, NEW session, NEW now_, CreateSession(c, id, session, now_).ok
  PROVE  Whole(CreateSession(c, id, session, now_).conf)
<1> DEFINE p == pruneExpiredSessions(c, now_)
           ss == p.sessions
           new == Put(ss, id, session)
           d == [p EXCEPT !.sessions = new]
           Of(f, a) == {t \in DOMAIN f : f[t].arn = a}
<1>1. /\ ~(Cardinality(Of(ss, session.arn)) >= MaxSessions)
      /\ CreateSession(c, id, session, now_).conf = d
  BY Answers DEF CreateSession, activeSessionCountForRole
<1>2. /\ DOMAIN p = DOMAIN c /\ p.keyIndex = c.keyIndex /\ p.userIndex = c.userIndex
      /\ p.users = c.users /\ p.roles = c.roles /\ p.roleIndex = c.roleIndex
      /\ p.providers = c.providers
      /\ DOMAIN ss \subseteq DOMAIN c.sessions /\ \A t \in DOMAIN ss : ss[t] = c.sessions[t]
  BY DEF pruneExpiredSessions, Delete, Restrict
<1> HIDE DEF p
<1>3. /\ DOMAIN d = DOMAIN c /\ d.keyIndex = c.keyIndex /\ d.userIndex = c.userIndex
      /\ d.users = c.users /\ d.roles = c.roles /\ d.roleIndex = c.roleIndex
      /\ d.providers = c.providers /\ d.sessions = new
  BY <1>2
<1>4. /\ DOMAIN new = DOMAIN ss \cup {id} /\ new[id] = session
      /\ \A t \in DOMAIN ss : t # id => new[t] = ss[t]
  BY DEF Put
<1>5. SessionsSound(c.sessions) /\ MaxSessions \in Nat
  BY ConfigAssumption DEF Whole, Sound
<1> HIDE DEF ss, new, d
<1>6. IsFiniteSet(DOMAIN ss) /\ IsFiniteSet(DOMAIN new)
  BY <1>2, <1>4, <1>5, FS_Subset, FS_AddElement DEF SessionsSound
<1>7. ASSUME NEW t \in DOMAIN new PROVE Cardinality(Of(new, new[t].arn)) <= MaxSessions
  <2> DEFINE a == new[t].arn
  <2>1. CASE a = session.arn
    <3>1. Of(new, a) \subseteq Of(ss, session.arn) \cup {id}
      BY <1>4, <2>1
    <3> DEFINE S == Of(ss, session.arn)
    <3>2. IsFiniteSet(S)
      BY <1>6, FS_Subset
    <3>3. ~(Cardinality(S) >= MaxSessions)
      BY <1>1
    <3> HIDE DEF S
    <3>4. IsFiniteSet(S \cup {id}) /\ Cardinality(S \cup {id}) <= MaxSessions
      BY <1>5, <3>2, <3>3, OneMore
    <3>5. Of(new, a) \in SUBSET (S \cup {id})
      BY <3>1 DEF S
    <3> QED BY <1>5, <3>4, <3>5, Fewer
  <2>2. CASE a # session.arn
    <3>1. t # id /\ t \in DOMAIN ss /\ new[t] = c.sessions[t] /\ t \in DOMAIN c.sessions
      BY <1>2, <1>4, <2>2
    <3>2. Of(new, a) \subseteq Of(c.sessions, a)
      BY <1>2, <1>4, <2>2
    <3> DEFINE S == Of(c.sessions, a)
    <3>3. IsFiniteSet(S) /\ Cardinality(S) <= MaxSessions
      BY <1>5, <3>1, FS_Subset DEF SessionsSound
    <3>4. Of(new, a) \in SUBSET S
      BY <3>2
    <3> HIDE DEF S
    <3> QED BY <1>5, <3>3, <3>4, Fewer
  <2> QED BY <2>1, <2>2
<1>8. SessionsSound(new)
  BY <1>6, <1>7 DEF SessionsSound
<1>9. KeysSound(d)
  BY <1>3, Parts, KeysFrame
<1>10. Whole(d)
  BY <1>3, <1>8, <1>9 DEF Whole, Sound
<1> QED BY <1>1, <1>10

\* A file of a version without the name indexes is completed when it is read.
LEMMA Normalized ==
  ASSUME NEW c, Sound(c)
  PROVE  Whole(normalizeIAMConfig(c))
<1> DEFINE Index(entities, index) ==
             Over(index, [k \in {Fold(n) : n \in DOMAIN entities} |->
                            CHOOSE n \in DOMAIN entities : Fold(n) = k])
           d == normalizeIAMConfig(c)
<1>1. {"users", "keyIndex", "userIndex", "roles", "roleIndex", "providers", "sessions"}
         \subseteq DOMAIN c
  BY DEF Sound, defaultIAMConfig
<1>2. /\ DOMAIN d = DOMAIN c /\ d.keyIndex = c.keyIndex /\ d.users = c.users /\ d.roles = c.roles
      /\ d.userIndex = Index(c.users, c.userIndex) /\ d.roleIndex = Index(c.roles, c.roleIndex)
      /\ d.providers = c.providers /\ d.sessions = c.sessions
  BY <1>1 DEF normalizeIAMConfig
<1>3. ASSUME NEW es, NEW index, NamesSound(es, index)
      PROVE  /\ NamesSound(es, Index(es, index))
             /\ \A n \in DOMAIN es : Fold(n) \in DOMAIN Index(es, index)
  <2> DEFINE g == [k \in {Fold(n) : n \in DOMAIN es} |-> CHOOSE n \in DOMAIN es : Fold(n) = k]
             h == Over(index, g)
  <2>1. \A k \in DOMAIN g : g[k] \in DOMAIN es /\ Fold(g[k]) = k
    OBVIOUS
  <2>2. DOMAIN g = {Fold(n) : n \in DOMAIN es}
    OBVIOUS
  <2> HIDE DEF g
  <2>3. /\ DOMAIN h = DOMAIN index \cup DOMAIN g
        /\ \A x \in DOMAIN h : h[x] = IF x \in DOMAIN index THEN index[x] ELSE g[x]
    BY DEF Over
  <2> HIDE DEF h
  <2>4. NamesSound(es, h) /\ \A n \in DOMAIN es : Fold(n) \in DOMAIN h
    BY <1>3, <2>1, <2>2, <2>3 DEF NamesSound
  <2> QED BY <2>4 DEF h, g
<1> HIDE DEF Index, d
<1>4. KeysSound(d)
  BY <1>2, KeysFrame DEF Sound
<1>5. Whole(d)
  BY <1>2, <1>3, <1>4 DEF Sound, Whole
<1> QED BY <1>5 DEF d

\* What a lookup finds is a sound user, or a sound role.
LEMMA FoundSound ==
  ASSUME NEW c, Whole(c), NEW name
  PROVE  /\ lookupUser(c, name) # "" => UserSound(UserOf(c, name))
         /\ lookupRole(c, name) # "" => RoleSound(RoleOf(c, name))
BY Looked DEF Whole, Sound, UserOf, RoleOf

\* Tags, policies and the state of a key of a user.
LEMMA UserPartsWhole ==
  ASSUME NEW c, Whole(c), NEW name
  PROVE  /\ \A m : updateUserTags(c, name, m).ok => Whole(updateUserTags(c, name, m).conf)
         /\ \A p, doc : PutUserPolicy(c, name, p, doc).ok =>
                          Whole(PutUserPolicy(c, name, p, doc).conf)
         /\ \A p : DeleteUserPolicy(c, name, p).ok => Whole(DeleteUserPolicy(c, name, p).conf)
         /\ \A id, st : UpdateAccessKey(c, name, id, st).ok =>
                          Whole(UpdateAccessKey(c, name, id, st).conf)
<1> DEFINE u == UserOf(c, name)
<1>0. lookupUser(c, name) # "" => UserSound(u)
  BY FoundSound
<1>1. ASSUME NEW m, updateUserTags(c, name, m).ok PROVE Whole(updateUserTags(c, name, m).conf)
  <2> DEFINE r == Tagged(u, m)
  <2>1. r.ok => r.to = [u EXCEPT !.tags = m.tags]
    BY Answers DEF Tagged
  <2>2. lookupUser(c, name) # "" /\ r.ok =>
          UserSound(r.to) /\ r.to.id = u.id /\ DOMAIN r.to.keys = DOMAIN u.keys
    BY <1>0, <2>1 DEF UserSound
  <2>3. updateUserTags(c, name, m) = ChangeUser(c, name, r)
    BY DEF updateUserTags
  <2> HIDE DEF r
  <2> QED BY <1>1, <2>2, <2>3, ChangeUserWhole
<1>2. ASSUME NEW p, NEW doc, PutUserPolicy(c, name, p, doc).ok
      PROVE  Whole(PutUserPolicy(c, name, p, doc).conf)
  <2> DEFINE r == WithPolicy(u, p, doc)
  <2>1. r.ok => r.to = [u EXCEPT !.policies = Put(@, p, doc)]
    BY Answers DEF WithPolicy
  <2>2. lookupUser(c, name) # "" /\ r.ok =>
          UserSound(r.to) /\ r.to.id = u.id /\ DOMAIN r.to.keys = DOMAIN u.keys
    BY <1>0, <2>1 DEF UserSound
  <2>3. PutUserPolicy(c, name, p, doc) = ChangeUser(c, name, r)
    BY DEF PutUserPolicy
  <2> HIDE DEF r
  <2> QED BY <1>2, <2>2, <2>3, ChangeUserWhole
<1>3. ASSUME NEW p, DeleteUserPolicy(c, name, p).ok PROVE Whole(DeleteUserPolicy(c, name, p).conf)
  <2> DEFINE r == WithoutPolicy(u, p)
  <2>1. r.ok => r.to = [u EXCEPT !.policies = Delete(@, {p})]
    BY Answers DEF WithoutPolicy
  <2>2. lookupUser(c, name) # "" /\ r.ok =>
          UserSound(r.to) /\ r.to.id = u.id /\ DOMAIN r.to.keys = DOMAIN u.keys
    BY <1>0, <2>1 DEF UserSound
  <2>3. DeleteUserPolicy(c, name, p) = ChangeUser(c, name, r)
    BY DEF DeleteUserPolicy
  <2> HIDE DEF r
  <2> QED BY <1>3, <2>2, <2>3, ChangeUserWhole
<1>4. ASSUME NEW id, NEW st, UpdateAccessKey(c, name, id, st).ok
      PROVE  Whole(UpdateAccessKey(c, name, id, st).conf)
  <2> DEFINE r == IF id \in DOMAIN u.keys THEN To([u EXCEPT !.keys[id] = st])
                  ELSE Refused("NoSuchEntity")
  <2>1. r.ok => r.to = [u EXCEPT !.keys[id] = st]
    BY Answers
  <2>2. lookupUser(c, name) # "" /\ r.ok =>
          UserSound(r.to) /\ r.to.id = u.id /\ DOMAIN r.to.keys = DOMAIN u.keys
    BY <1>0, <2>1 DEF UserSound
  <2>3. UpdateAccessKey(c, name, id, st) = ChangeUser(c, name, r)
    BY DEF UpdateAccessKey
  <2> HIDE DEF r
  <2> QED BY <1>4, <2>2, <2>3, ChangeUserWhole
<1> QED BY <1>1, <1>2, <1>3, <1>4

\* Tags, policies and trust of a role.
LEMMA RolePartsWhole ==
  ASSUME NEW c, Whole(c), NEW name
  PROVE  /\ \A m : updateRoleTags(c, name, m).ok => Whole(updateRoleTags(c, name, m).conf)
         /\ \A p, doc : PutRolePolicy(c, name, p, doc).ok =>
                          Whole(PutRolePolicy(c, name, p, doc).conf)
         /\ \A p : DeleteRolePolicy(c, name, p).ok => Whole(DeleteRolePolicy(c, name, p).conf)
         /\ \A doc : UpdateAssumeRolePolicy(c, name, doc).ok =>
                       Whole(UpdateAssumeRolePolicy(c, name, doc).conf)
<1> DEFINE e == RoleOf(c, name)
<1>0. lookupRole(c, name) # "" => RoleSound(e)
  BY FoundSound
<1>1. ASSUME NEW m, updateRoleTags(c, name, m).ok PROVE Whole(updateRoleTags(c, name, m).conf)
  <2> DEFINE r == Tagged(e, m)
  <2>1. r.ok => r.to = [e EXCEPT !.tags = m.tags]
    BY Answers DEF Tagged
  <2>2. lookupRole(c, name) # "" /\ r.ok => RoleSound(r.to)
    BY <1>0, <2>1 DEF RoleSound
  <2>3. updateRoleTags(c, name, m) = ChangeRole(c, name, r)
    BY DEF updateRoleTags
  <2> HIDE DEF r
  <2> QED BY <1>1, <2>2, <2>3, ChangeRoleWhole
<1>2. ASSUME NEW p, NEW doc, PutRolePolicy(c, name, p, doc).ok
      PROVE  Whole(PutRolePolicy(c, name, p, doc).conf)
  <2> DEFINE r == WithPolicy(e, p, doc)
  <2>1. r.ok => r.to = [e EXCEPT !.policies = Put(@, p, doc)]
    BY Answers DEF WithPolicy
  <2>2. lookupRole(c, name) # "" /\ r.ok => RoleSound(r.to)
    BY <1>0, <2>1 DEF RoleSound
  <2>3. PutRolePolicy(c, name, p, doc) = ChangeRole(c, name, r)
    BY DEF PutRolePolicy
  <2> HIDE DEF r
  <2> QED BY <1>2, <2>2, <2>3, ChangeRoleWhole
<1>3. ASSUME NEW p, DeleteRolePolicy(c, name, p).ok PROVE Whole(DeleteRolePolicy(c, name, p).conf)
  <2> DEFINE r == WithoutPolicy(e, p)
  <2>1. r.ok => r.to = [e EXCEPT !.policies = Delete(@, {p})]
    BY Answers DEF WithoutPolicy
  <2>2. lookupRole(c, name) # "" /\ r.ok => RoleSound(r.to)
    BY <1>0, <2>1 DEF RoleSound
  <2>3. DeleteRolePolicy(c, name, p) = ChangeRole(c, name, r)
    BY DEF DeleteRolePolicy
  <2> HIDE DEF r
  <2> QED BY <1>3, <2>2, <2>3, ChangeRoleWhole
<1>4. ASSUME NEW doc, UpdateAssumeRolePolicy(c, name, doc).ok
      PROVE  Whole(UpdateAssumeRolePolicy(c, name, doc).conf)
  <2> DEFINE r == To([e EXCEPT !.trust = doc])
  <2>1. r.ok => r.to = [e EXCEPT !.trust = doc]
    BY Answers
  <2>2. lookupRole(c, name) # "" /\ r.ok => RoleSound(r.to)
    BY <1>0, <2>1 DEF RoleSound
  <2>3. UpdateAssumeRolePolicy(c, name, doc) = ChangeRole(c, name, r)
    BY DEF UpdateAssumeRolePolicy
  <2> HIDE DEF r
  <2> QED BY <1>4, <2>2, <2>3, ChangeRoleWhole
<1> QED BY <1>1, <1>2, <1>3, <1>4

\* Tags and thumbprint of a provider.
LEMMA ProviderPartsWhole ==
  ASSUME NEW c, Whole(c), NEW url
  PROVE  /\ \A m : updateOIDCProviderTags(c, url, m).ok =>
                     Whole(updateOIDCProviderTags(c, url, m).conf)
         /\ \A t : UpdateOIDCProviderThumbprint(c, url, t).ok =>
                     Whole(UpdateOIDCProviderThumbprint(c, url, t).conf)
<1> DEFINE e == c.providers[url]
<1>0. url \in DOMAIN c.providers => ProviderSound(e)
  BY DEF Whole, Sound
<1>1. ASSUME NEW m, updateOIDCProviderTags(c, url, m).ok
      PROVE  Whole(updateOIDCProviderTags(c, url, m).conf)
  <2> DEFINE r == Tagged(e, m)
  <2>1. r.ok => r.to = [e EXCEPT !.tags = m.tags]
    BY Answers DEF Tagged
  <2>2. url \in DOMAIN c.providers /\ r.ok => ProviderSound(r.to)
    BY <1>0, <2>1 DEF ProviderSound
  <2>3. updateOIDCProviderTags(c, url, m) = ChangeProvider(c, url, r)
    BY DEF updateOIDCProviderTags
  <2> HIDE DEF r
  <2> QED BY <1>1, <2>2, <2>3, ChangeProviderWhole
<1>2. ASSUME NEW t, UpdateOIDCProviderThumbprint(c, url, t).ok
      PROVE  Whole(UpdateOIDCProviderThumbprint(c, url, t).conf)
  <2> DEFINE r == To([e EXCEPT !.thumb = t])
  <2>1. r.ok => r.to = [e EXCEPT !.thumb = t]
    BY Answers
  <2>2. url \in DOMAIN c.providers /\ r.ok => ProviderSound(r.to)
    BY <1>0, <2>1 DEF ProviderSound
  <2>3. UpdateOIDCProviderThumbprint(c, url, t) = ChangeProvider(c, url, r)
    BY DEF UpdateOIDCProviderThumbprint
  <2> HIDE DEF r
  <2> QED BY <1>2, <2>2, <2>3, ChangeProviderWhole
<1> QED BY <1>1, <1>2

-----------------------------------------------------------------------------
(* Every operation makes a whole document of a whole one *)

\* The write of a request, when it is about users ...
LEMMA UsersWhole ==
  ASSUME NEW c, Whole(c), NEW s, NEW in, InputFits(in),
         NEW op \in {"CreateUser", "DeleteUser", "UpdateUser", "TagUser", "UntagUser",
                    "CreateAccessKey", "UpdateAccessKey", "DeleteAccessKey", "RecordAccessKeyUsage",
                    "PutUserPolicy", "DeleteUserPolicy"},
         op \notin {"RecordAccessKeyUsage", "CreateSession"} => in.op = op,
         UpdateUsers(c, s, op, in).ok
  PROVE  Whole(UpdateUsers(c, s, op, in).conf)
<1>1. CASE op = "CreateUser"
  <2>1. UpdateUsers(c, s, op, in) = CreateUser(c, in.on, NewUser(s, in))
    BY <1>1 DEF UpdateUsers
  <2> DEFINE u == NewUser(s, in)
  <2>2. in.on \in Names
    BY <1>1 DEF InputFits
  <2>3. UserSound(u) /\ DOMAIN u.keys = {}
    BY FS_EmptySet, ConfigAssumption DEF NewUser, EmptyMap, UserSound
  <2> HIDE DEF u
  <2> QED BY <2>1, <2>2, <2>3, CreateUserWhole DEF u
<1>2. CASE op = "DeleteUser"
  <2>1. UpdateUsers(c, s, op, in) = DeleteUser(c, in.on)
    BY <1>2 DEF UpdateUsers
  <2> QED BY <2>1, DeleteUserWhole
<1>3. CASE op = "UpdateUser"
  <2>1. UpdateUsers(c, s, op, in) = UpdateUser(c, in.on, in.x, in.y, NewArn(s))
    BY <1>3 DEF UpdateUsers
  <2>2. in.x \in Names \cup {""}
    BY <1>3 DEF InputFits
  <2> QED BY <2>1, <2>2, UpdateUserWhole
<1>4. CASE op = "TagUser"
  <2>1. UpdateUsers(c, s, op, in) = TagUser(c, in.on, in.x)
    BY <1>4 DEF UpdateUsers
  <2> QED BY <2>1, UserPartsWhole DEF TagUser
<1>5. CASE op = "UntagUser"
  <2>1. UpdateUsers(c, s, op, in) = UntagUser(c, in.on, in.x)
    BY <1>5 DEF UpdateUsers
  <2> QED BY <2>1, UserPartsWhole DEF UntagUser
<1>6. CASE op = "CreateAccessKey"
  <2>1. UpdateUsers(c, s, op, in) = CreateAccessKey(c, in.on, Generated[s][rq[s].try])
    BY <1>6 DEF UpdateUsers
  <2> QED BY <2>1, CreateAccessKeyWhole
<1>7. CASE op = "UpdateAccessKey"
  <2>1. UpdateUsers(c, s, op, in) = UpdateAccessKey(c, in.on, in.x, in.y)
    BY <1>7 DEF UpdateUsers
  <2> QED BY <2>1, UserPartsWhole
<1>8. CASE op = "DeleteAccessKey"
  <2>1. UpdateUsers(c, s, op, in) = DeleteAccessKey(c, in.on, in.x)
    BY <1>8 DEF UpdateUsers
  <2> QED BY <2>1, DeleteAccessKeyWhole
<1>9. CASE op = "RecordAccessKeyUsage"
  <2>1. UpdateUsers(c, s, op, in) = RecordAccessKeyUsage(c, in.cred)
    BY <1>9 DEF UpdateUsers
  <2> QED BY <2>1, RecordUsageWhole
<1>10. CASE op = "PutUserPolicy"
  <2>1. UpdateUsers(c, s, op, in) = PutUserPolicy(c, in.on, in.x, in.y)
    BY <1>10 DEF UpdateUsers
  <2> QED BY <2>1, UserPartsWhole
<1>11. CASE op = "DeleteUserPolicy"
  <2>1. UpdateUsers(c, s, op, in) = DeleteUserPolicy(c, in.on, in.x)
    BY <1>11 DEF UpdateUsers
  <2> QED BY <2>1, UserPartsWhole
<1> QED BY <1>1, <1>2, <1>3, <1>4, <1>5, <1>6, <1>7, <1>8, <1>9, <1>10, <1>11

\* ... about roles and sessions ...
LEMMA RolesWhole ==
  ASSUME NEW c, Whole(c), NEW s, NEW in, InputFits(in),
         NEW op \in {"CreateRole", "DeleteRole", "UpdateAssumeRolePolicy", "TagRole", "UntagRole",
                    "PutRolePolicy", "DeleteRolePolicy", "CreateSession"},
         op \notin {"RecordAccessKeyUsage", "CreateSession"} => in.op = op,
         UpdateRoles(c, s, op, in).ok
  PROVE  Whole(UpdateRoles(c, s, op, in).conf)
<1>1. CASE op = "CreateRole"
  <2>1. UpdateRoles(c, s, op, in) = CreateRole(c, in.on, NewRole(s, in))
    BY <1>1 DEF UpdateRoles
  <2> DEFINE r == NewRole(s, in)
  <2>2. in.on \in Names
    BY <1>1 DEF InputFits
  <2>3. RoleSound(r)
    BY DEF NewRole, RoleSound
  <2> HIDE DEF r
  <2> QED BY <2>1, <2>2, <2>3, CreateRoleWhole DEF r
<1>2. CASE op = "DeleteRole"
  <2>1. UpdateRoles(c, s, op, in) = DeleteRole(c, in.on)
    BY <1>2 DEF UpdateRoles
  <2> QED BY <2>1, DeleteRoleWhole
<1>3. CASE op = "UpdateAssumeRolePolicy"
  <2>1. UpdateRoles(c, s, op, in) = UpdateAssumeRolePolicy(c, in.on, in.y)
    BY <1>3 DEF UpdateRoles
  <2> QED BY <2>1, RolePartsWhole
<1>4. CASE op = "TagRole"
  <2>1. UpdateRoles(c, s, op, in) = TagRole(c, in.on, in.x)
    BY <1>4 DEF UpdateRoles
  <2> QED BY <2>1, RolePartsWhole DEF TagRole
<1>5. CASE op = "UntagRole"
  <2>1. UpdateRoles(c, s, op, in) = UntagRole(c, in.on, in.x)
    BY <1>5 DEF UpdateRoles
  <2> QED BY <2>1, RolePartsWhole DEF UntagRole
<1>6. CASE op = "PutRolePolicy"
  <2>1. UpdateRoles(c, s, op, in) = PutRolePolicy(c, in.on, in.x, in.y)
    BY <1>6 DEF UpdateRoles
  <2> QED BY <2>1, RolePartsWhole
<1>7. CASE op = "DeleteRolePolicy"
  <2>1. UpdateRoles(c, s, op, in) = DeleteRolePolicy(c, in.on, in.x)
    BY <1>7 DEF UpdateRoles
  <2> QED BY <2>1, RolePartsWhole
<1>8. CASE op = "CreateSession"
  <2>1. UpdateRoles(c, s, op, in) = CreateSession(c, Generated[s][1], NewSession(s), now)
    BY <1>8 DEF UpdateRoles
  <2> QED BY <2>1, CreateSessionWhole
<1> QED BY <1>1, <1>2, <1>3, <1>4, <1>5, <1>6, <1>7, <1>8

\* ... or about providers.
LEMMA ProvidersWhole ==
  ASSUME NEW c, Whole(c), NEW in, InputFits(in),
         NEW op \in {"CreateOIDCProvider", "DeleteOIDCProvider", "AddClientIDToOIDCProvider",
                    "RemoveClientIDFromOIDCProvider",
                    "UpdateOIDCProviderThumbprint", "TagOIDCProvider",
                    "UntagOIDCProvider"},
         op \notin {"RecordAccessKeyUsage", "CreateSession"} => in.op = op,
         UpdateProviders(c, op, in).ok
  PROVE  Whole(UpdateProviders(c, op, in).conf)
<1>1. CASE op = "CreateOIDCProvider"
  <2>1. UpdateProviders(c, op, in) =
          CreateOIDCProvider(c, in.on, [clients |-> in.x, thumb |-> in.y, tags |-> EmptyMap])
    BY <1>1 DEF UpdateProviders
  <2> DEFINE p == [clients |-> in.x, thumb |-> in.y, tags |-> EmptyMap]
  <2>2. ProviderSound(p)
    BY <1>1 DEF ProviderSound, InputFits
  <2> HIDE DEF p
  <2> QED BY <2>1, <2>2, CreateProviderWhole DEF p
<1>2. CASE op = "DeleteOIDCProvider"
  <2>1. UpdateProviders(c, op, in) = DeleteOIDCProvider(c, in.on)
    BY <1>2 DEF UpdateProviders
  <2> QED BY <2>1, DeleteProviderWhole
<1>3. CASE op = "AddClientIDToOIDCProvider"
  <2>1. UpdateProviders(c, op, in) = AddClientIDToOIDCProvider(c, in.on, in.x)
    BY <1>3 DEF UpdateProviders
  <2> QED BY <2>1, AddClientWhole
<1>4. CASE op = "RemoveClientIDFromOIDCProvider"
  <2>1. UpdateProviders(c, op, in) = RemoveClientIDFromOIDCProvider(c, in.on, in.x)
    BY <1>4 DEF UpdateProviders
  <2> QED BY <2>1, RemoveClientWhole
<1>5. CASE op = "UpdateOIDCProviderThumbprint"
  <2>1. UpdateProviders(c, op, in) = UpdateOIDCProviderThumbprint(c, in.on, in.x)
    BY <1>5 DEF UpdateProviders
  <2> QED BY <2>1, ProviderPartsWhole
<1>6. CASE op = "TagOIDCProvider"
  <2>1. UpdateProviders(c, op, in) = TagOIDCProvider(c, in.on, in.x)
    BY <1>6 DEF UpdateProviders
  <2> QED BY <2>1, ProviderPartsWhole DEF TagOIDCProvider
<1>7. CASE op = "UntagOIDCProvider"
  <2>1. UpdateProviders(c, op, in) = UntagOIDCProvider(c, in.on, in.x)
    BY <1>7 DEF UpdateProviders
  <2> QED BY <2>1, ProviderPartsWhole DEF UntagOIDCProvider
<1> QED BY <1>1, <1>2, <1>3, <1>4, <1>5, <1>6, <1>7

\* Whatever a request writes, asked for by an input that fits, is whole.
LEMMA UpdateWhole ==
  ASSUME NEW c, Whole(c), NEW s, NEW op \in WriteOps, InputFits(rq[s].in),
         op \notin {"RecordAccessKeyUsage", "CreateSession"} => rq[s].in.op = op,
         Update(c, s, op).ok
  PROVE  Whole(Update(c, s, op).conf)
<1>1. CASE op \in {"CreateOIDCProvider"} \cup ProviderActions
  <2>1. Update(c, s, op) = UpdateProviders(c, op, rq[s].in)
    BY <1>1 DEF Update, RoleActions, ProviderActions
  <2> QED BY <1>1, <2>1, ProvidersWhole DEF WriteOps, ProviderActions
<1>2. CASE op \in {"CreateRole", "CreateSession"} \cup RoleActions
  <2>1. Update(c, s, op) = UpdateRoles(c, s, op, rq[s].in)
    BY <1>2 DEF Update
  <2> QED BY <1>2, <2>1, RolesWhole DEF WriteOps, RoleActions
<1>3. CASE op \notin {"CreateOIDCProvider", "CreateRole", "CreateSession"}
                    \cup RoleActions \cup ProviderActions
  <2>1. Update(c, s, op) = UpdateUsers(c, s, op, rq[s].in)
    BY <1>3 DEF Update
  <2> QED BY <1>3, <2>1, UsersWhole DEF WriteOps, RoleActions, ProviderActions
<1> QED BY <1>1, <1>2, <1>3

-----------------------------------------------------------------------------
(* The steps of a request *)

\* The forms of a step are steps.
LEMMA StepForms ==
  ASSUME NEW op
  PROVE  /\ \A d \in Checks : Do(d) \in Steps(op)
         /\ \A d \in {op} \cap ReadOps : Read(d) \in Seq(Steps(op))
         /\ \A d \in {op, "RecordAccessKeyUsage", "CreateSession"} \cap WriteOps :
              Store(d) \in Seq(Steps(op))
<1>1. \A d \in Checks : Do(d) \in Steps(op)
  BY DEF Do, Steps
<1>2. \A d \in {op} \cap ReadOps : [do |-> "Read", op |-> d] \in Steps(op)
  BY DEF Steps
<1>3. \A d \in {op, "RecordAccessKeyUsage", "CreateSession"} \cap WriteOps :
        [do |-> "Store", op |-> d] \in Steps(op)
  BY DEF Steps
<1> QED BY <1>1, <1>2, <1>3 DEF Read, Store

\* Steps after steps are steps.
LEMMA StepsJoined ==
  ASSUME NEW op, NEW a \in Seq(Steps(op))
  PROVE  Checked(a) \in Seq(Steps(op)) /\ \A b \in Seq(Steps(op)) : a \o b \in Seq(Steps(op))
<1>1. "Valid" \in Checks
  BY DEF Checks
<1>2. Do("Valid") \in Steps(op)
  BY <1>1, StepForms
<1> QED BY <1>2 DEF Checked

\* Lists of checks are steps.
LEMMA StepList ==
  ASSUME NEW op
  PROVE  /\ \A d \in Checks : <<Do(d)>> \in Seq(Steps(op))
         /\ \A d, e \in Checks : <<Do(d), Do(e)>> \in Seq(Steps(op))
         /\ <<Do("AssumedRole"), Do("TrustDecision"), Do("Provider"), Do("Signature"),
              Do("Expiry")>> \in Seq(Steps(op))
<1>1. \A d \in Checks : Do(d) \in Steps(op)
  BY StepForms
<1>2. {"AssumedRole", "TrustDecision", "Provider", "Signature", "Expiry"} \subseteq Checks
  BY DEF Checks
<1> QED BY <1>1, <1>2

\* A handler that is one write, or one read.
LEMMA Simple ==
  /\ \A op \in WriteOps : Checked(Store(op)) \in Seq(Steps(op))
  /\ \A op \in ReadOps : Checked(Read(op)) \in Seq(Steps(op)) /\ Read(op) \in Seq(Steps(op))
<1>1. ASSUME NEW op \in WriteOps PROVE Checked(Store(op)) \in Seq(Steps(op))
  BY StepForms, StepsJoined
<1>2. ASSUME NEW op \in ReadOps
      PROVE  Checked(Read(op)) \in Seq(Steps(op)) /\ Read(op) \in Seq(Steps(op))
  BY StepForms, StepsJoined
<1> QED BY <1>1, <1>2

\* Most handlers are of that form ...
LEMMA HandlersSimple ==
  /\ HandleCreateUser \in Seq(Steps("CreateUser"))
  /\ HandleDeleteUser \in Seq(Steps("DeleteUser"))
  /\ HandleListUsers \in Seq(Steps("ListUsers"))
  /\ HandleTagUser \in Seq(Steps("TagUser"))
  /\ HandleUntagUser \in Seq(Steps("UntagUser"))
  /\ HandleListUserTags \in Seq(Steps("ListUserTags"))
  /\ HandleCreateAccessKey \in Seq(Steps("CreateAccessKey"))
  /\ HandleUpdateAccessKey \in Seq(Steps("UpdateAccessKey"))
  /\ HandleDeleteAccessKey \in Seq(Steps("DeleteAccessKey"))
  /\ HandleGetAccessKeyLastUsed \in Seq(Steps("GetAccessKeyLastUsed"))
  /\ HandleListAccessKeys \in Seq(Steps("ListAccessKeys"))
  /\ HandleGetUserPolicy \in Seq(Steps("GetUserPolicy"))
  /\ HandleDeleteUserPolicy \in Seq(Steps("DeleteUserPolicy"))
  /\ HandleListUserPolicies \in Seq(Steps("ListUserPolicies"))
  /\ HandleGetRole \in Seq(Steps("GetRole"))
  /\ HandleListRoles \in Seq(Steps("ListRoles"))
  /\ HandleDeleteRole \in Seq(Steps("DeleteRole"))
  /\ HandleTagRole \in Seq(Steps("TagRole"))
  /\ HandleUntagRole \in Seq(Steps("UntagRole"))
  /\ HandleListRoleTags \in Seq(Steps("ListRoleTags"))
  /\ HandleGetRolePolicy \in Seq(Steps("GetRolePolicy"))
  /\ HandleDeleteRolePolicy \in Seq(Steps("DeleteRolePolicy"))
  /\ HandleListRolePolicies \in Seq(Steps("ListRolePolicies"))
  /\ HandleGetOpenIDConnectProvider \in Seq(Steps("GetOIDCProvider"))
  /\ HandleListOpenIDConnectProviders \in Seq(Steps("ListOIDCProviders"))
  /\ HandleDeleteOpenIDConnectProvider \in Seq(Steps("DeleteOIDCProvider"))
  /\ HandleAddClientID \in Seq(Steps("AddClientIDToOIDCProvider"))
  /\ HandleRemoveClientID \in Seq(Steps("RemoveClientIDFromOIDCProvider"))
  /\ HandleUpdateThumbprint \in Seq(Steps("UpdateOIDCProviderThumbprint"))
  /\ HandleTagOpenIDConnectProvider \in Seq(Steps("TagOIDCProvider"))
  /\ HandleUntagOpenIDConnectProvider \in Seq(Steps("UntagOIDCProvider"))
  /\ HandleListOpenIDConnectProviderTags \in Seq(Steps("ListOIDCProviderTags"))
BY Simple, Zenon DEF HandleCreateUser, HandleDeleteUser, HandleListUsers, HandleTagUser,
   HandleUntagUser, HandleListUserTags, HandleCreateAccessKey, HandleUpdateAccessKey,
   HandleDeleteAccessKey, HandleGetAccessKeyLastUsed, HandleListAccessKeys, HandleGetUserPolicy,
   HandleDeleteUserPolicy, HandleListUserPolicies, HandleGetRole, HandleListRoles,
   HandleDeleteRole, HandleTagRole, HandleUntagRole, HandleListRoleTags, HandleGetRolePolicy,
   HandleDeleteRolePolicy, HandleListRolePolicies, HandleGetOpenIDConnectProvider,
   HandleListOpenIDConnectProviders, HandleDeleteOpenIDConnectProvider, HandleAddClientID,
   HandleRemoveClientID, HandleUpdateThumbprint, HandleTagOpenIDConnectProvider,
   HandleUntagOpenIDConnectProvider, HandleListOpenIDConnectProviderTags, WriteOps, ReadOps

\* ... and the others read or check something before.
LEMMA HandlersOther ==
  /\ \A in : HandleGetUser(in) \in Seq(Steps("GetUser"))
  /\ HandleUpdateUser \in Seq(Steps("UpdateUser"))
  /\ HandlePutUserPolicy \in Seq(Steps("PutUserPolicy"))
  /\ HandleCreateRole \in Seq(Steps("CreateRole"))
  /\ HandleUpdateAssumeRolePolicy \in Seq(Steps("UpdateAssumeRolePolicy"))
  /\ HandlePutRolePolicy \in Seq(Steps("PutRolePolicy"))
  /\ HandleCreateOpenIDConnectProvider \in Seq(Steps("CreateOIDCProvider"))
  /\ HandleAssumeRoleWithWebIdentity \in Seq(Steps("AssumeRoleWithWebIdentity"))
  /\ HandleGetCallerIdentity \in Seq(Steps("GetCallerIdentity"))
<1>1. {"User", "Role", "Policy", "Trust", "Thumbprint", "Caller"} \subseteq Checks
  BY DEF Checks
<1>2. {"UpdateUser", "PutUserPolicy", "CreateRole", "UpdateAssumeRolePolicy", "PutRolePolicy",
       "CreateOIDCProvider", "CreateSession"} \subseteq WriteOps /\ "GetUser" \in ReadOps
  BY DEF WriteOps, ReadOps
<1>3. \A op \in WriteOps : Store(op) \in Seq(Steps(op))
  BY StepForms
<1>4. \A op : Store("CreateSession") \in Seq(Steps(op))
  BY <1>2, StepForms
<1>5. \A in : HandleGetUser(in) \in Seq(Steps("GetUser"))
  BY <1>1, <1>2, Simple, StepList DEF HandleGetUser
<1>6. HandleUpdateUser \in Seq(Steps("UpdateUser"))
  BY <1>1, <1>2, <1>3, StepList, StepsJoined DEF HandleUpdateUser
<1>7. HandlePutUserPolicy \in Seq(Steps("PutUserPolicy"))
  BY <1>1, <1>2, <1>3, StepList, StepsJoined DEF HandlePutUserPolicy
<1>8. HandleCreateRole \in Seq(Steps("CreateRole"))
  BY <1>1, <1>2, <1>3, StepList, StepsJoined DEF HandleCreateRole
<1>9. HandleUpdateAssumeRolePolicy \in Seq(Steps("UpdateAssumeRolePolicy"))
  BY <1>1, <1>2, <1>3, StepList, StepsJoined DEF HandleUpdateAssumeRolePolicy
<1>10. HandlePutRolePolicy \in Seq(Steps("PutRolePolicy"))
  BY <1>1, <1>2, <1>3, StepList, StepsJoined DEF HandlePutRolePolicy
<1>11. HandleCreateOpenIDConnectProvider \in Seq(Steps("CreateOIDCProvider"))
  BY <1>1, <1>2, <1>3, StepList, StepsJoined DEF HandleCreateOpenIDConnectProvider
<1>12. HandleAssumeRoleWithWebIdentity \in Seq(Steps("AssumeRoleWithWebIdentity"))
  BY <1>4, StepList, StepsJoined DEF HandleAssumeRoleWithWebIdentity
<1>13. HandleGetCallerIdentity \in Seq(Steps("GetCallerIdentity"))
  BY <1>1, StepList DEF HandleGetCallerIdentity
<1> QED BY <1>5, <1>6, <1>7, <1>8, <1>9, <1>10, <1>11, <1>12, <1>13

\* dispatch makes a program of such steps for each request.
LEMMA ActionSteps ==
  ASSUME NEW in, NEW a \in DOMAIN actions(in) PROVE actions(in)[a] \in Seq(Steps(a))
<1>1. a \in
     {"CreateUser", "DeleteUser", "GetUser", "ListUsers", "UpdateUser", "TagUser",
       "UntagUser", "ListUserTags", "CreateAccessKey", "UpdateAccessKey",
       "DeleteAccessKey", "GetAccessKeyLastUsed", "ListAccessKeys", "PutUserPolicy",
       "GetUserPolicy", "DeleteUserPolicy", "ListUserPolicies", "CreateRole", "GetRole",
       "ListRoles", "DeleteRole", "UpdateAssumeRolePolicy", "TagRole", "UntagRole",
       "ListRoleTags", "PutRolePolicy", "GetRolePolicy", "DeleteRolePolicy",
       "ListRolePolicies", "CreateOIDCProvider", "GetOIDCProvider", "ListOIDCProviders",
       "DeleteOIDCProvider", "AddClientIDToOIDCProvider",
       "RemoveClientIDFromOIDCProvider", "UpdateOIDCProviderThumbprint",
       "TagOIDCProvider", "UntagOIDCProvider", "ListOIDCProviderTags",
       "AssumeRoleWithWebIdentity", "GetCallerIdentity"}
  BY Zenon DEF actions
<1>2. /\ actions(in).CreateUser = HandleCreateUser
      /\ actions(in).DeleteUser = HandleDeleteUser
      /\ actions(in).GetUser = HandleGetUser(in)
      /\ actions(in).ListUsers = HandleListUsers
      /\ actions(in).UpdateUser = HandleUpdateUser
      /\ actions(in).TagUser = HandleTagUser
      /\ actions(in).UntagUser = HandleUntagUser
  BY DEF actions
<1>3. /\ actions(in).ListUserTags = HandleListUserTags
      /\ actions(in).CreateAccessKey = HandleCreateAccessKey
      /\ actions(in).UpdateAccessKey = HandleUpdateAccessKey
      /\ actions(in).DeleteAccessKey = HandleDeleteAccessKey
      /\ actions(in).GetAccessKeyLastUsed = HandleGetAccessKeyLastUsed
      /\ actions(in).ListAccessKeys = HandleListAccessKeys
      /\ actions(in).PutUserPolicy = HandlePutUserPolicy
  BY DEF actions
<1>4. /\ actions(in).GetUserPolicy = HandleGetUserPolicy
      /\ actions(in).DeleteUserPolicy = HandleDeleteUserPolicy
      /\ actions(in).ListUserPolicies = HandleListUserPolicies
      /\ actions(in).CreateRole = HandleCreateRole
      /\ actions(in).GetRole = HandleGetRole
      /\ actions(in).ListRoles = HandleListRoles
      /\ actions(in).DeleteRole = HandleDeleteRole
  BY DEF actions
<1>5. /\ actions(in).UpdateAssumeRolePolicy = HandleUpdateAssumeRolePolicy
      /\ actions(in).TagRole = HandleTagRole
      /\ actions(in).UntagRole = HandleUntagRole
      /\ actions(in).ListRoleTags = HandleListRoleTags
      /\ actions(in).PutRolePolicy = HandlePutRolePolicy
      /\ actions(in).GetRolePolicy = HandleGetRolePolicy
      /\ actions(in).DeleteRolePolicy = HandleDeleteRolePolicy
  BY DEF actions
<1>6. /\ actions(in).ListRolePolicies = HandleListRolePolicies
      /\ actions(in).CreateOIDCProvider = HandleCreateOpenIDConnectProvider
      /\ actions(in).GetOIDCProvider = HandleGetOpenIDConnectProvider
      /\ actions(in).ListOIDCProviders = HandleListOpenIDConnectProviders
      /\ actions(in).DeleteOIDCProvider = HandleDeleteOpenIDConnectProvider
      /\ actions(in).AddClientIDToOIDCProvider = HandleAddClientID
      /\ actions(in).RemoveClientIDFromOIDCProvider = HandleRemoveClientID
  BY DEF actions
<1>7. /\ actions(in).UpdateOIDCProviderThumbprint = HandleUpdateThumbprint
      /\ actions(in).TagOIDCProvider = HandleTagOpenIDConnectProvider
      /\ actions(in).UntagOIDCProvider = HandleUntagOpenIDConnectProvider
      /\ actions(in).ListOIDCProviderTags = HandleListOpenIDConnectProviderTags
      /\ actions(in).AssumeRoleWithWebIdentity = HandleAssumeRoleWithWebIdentity
      /\ actions(in).GetCallerIdentity = HandleGetCallerIdentity
  BY DEF actions
<1> QED BY <1>1, <1>2, <1>3, <1>4, <1>5, <1>6, <1>7, HandlersSimple, HandlersOther, Zenon

\* dispatch: the steps of a request are steps of its action.
LEMMA Dispatched == ASSUME NEW in PROVE dispatch(in) \in Seq(Steps(in.op))
<1>1. {"Resolve", "Authorize", "Target", "InvalidAction"} \subseteq Checks
  BY DEF Checks
<1>2. <<>> \in Seq(Steps(in.op))
  OBVIOUS
<1>3. (IF in.op \in DOMAIN actions(in) THEN actions(in)[in.op] ELSE <<Do("InvalidAction")>>)
        \in Seq(Steps(in.op))
  BY <1>1, ActionSteps, StepList
<1>4. (IF in.op = "UpdateUser" THEN <<Do("Target")>> ELSE <<>>) \in Seq(Steps(in.op))
  BY <1>1, <1>2, StepList
<1>5. /\ <<Do("Resolve")>> \in Seq(Steps(in.op))
      /\ <<Do("Resolve"), Do("Authorize")>> \in Seq(Steps(in.op))
  BY <1>1, StepList
<1> QED BY <1>2, <1>3, <1>4, <1>5, StepsJoined DEF dispatch

-----------------------------------------------------------------------------
(* Steps of the specification *)

\* The fields of a request.
LEMMA RequestFields ==
  ASSUME NEW r, RequestFits(r)
  PROVE  {"status", "in", "todo", "id", "name", "user", "raw", "try", "role", "granted", "basis",
          "dead", "wait", "tried", "answer", "listed", "through", "lostMarker"} \subseteq DOMAIN r
BY DEF RequestFits, Idle

\* Requests go on, each as it must; nobody takes or leaves a lock.
LEMMA RequestsGoOn ==
  ASSUME IInv, rq' = [t \in Slots |-> rq'[t]],
         \A t \in Slots : RequestFits(rq'[t]) /\ rq'[t].raw \in {rq[t].raw, EmptyMap},
         UNCHANGED <<mix, file, lock, tool>>
  PROVE  IInv'
<1>1. \A t \in Slots : At(t)' = At(t)
  BY DEF At
<1>2. LocksHeld'
  BY <1>1 DEF IInv, LocksHeld
<1>3. OneServer' = OneServer
  BY <1>1 DEF OneServer
<1>4. ReadCurrent'
  BY <1>3 DEF IInv, ReadCurrent
<1> QED BY <1>2, <1>4 DEF IInv

\* One request goes on.
LEMMA RequestGoesOn ==
  ASSUME IInv, NEW s \in Slots, NEW r, RequestFits(r), r.raw \in {rq[s].raw, EmptyMap},
         rq' = [rq EXCEPT ![s] = r], UNCHANGED <<mix, file, lock, tool>>
  PROVE  IInv'
<1>1. rq = [t \in Slots |-> rq[t]] /\ \A t \in Slots : RequestFits(rq[t])
  BY DEF IInv
<1>2. rq' = [t \in Slots |-> rq'[t]] /\ rq'[s] = r /\ \A t \in Slots : t # s => rq'[t] = rq[t]
  BY <1>1
<1>3. \A t \in Slots : RequestFits(rq'[t]) /\ rq'[t].raw \in {rq[t].raw, EmptyMap}
  BY <1>1, <1>2
<1> QED BY <1>2, <1>3, RequestsGoOn

\* A step of a request that does not hold the lock.
LEMMA StepOf ==
  ASSUME IInv, NEW s \in Slots, NEW step, Next_(s, step), step # "Store"
  PROVE  /\ RequestFits(rq[s]) /\ rq[s].raw = EmptyMap /\ rq[s].todo \in Seq(Steps(rq[s].in.op))
         /\ rq[s].status = "run" /\ rq[s].todo # <<>> /\ (rq[s].wait => step = "Signature")
BY DEF IInv, RequestFits, Next_

\* A step that fails ends the request.
LEMMA FailKeeps ==
  ASSUME IInv, NEW s \in Slots, NEW step, Next_(s, step), step # "Store",
         step = "Signature" => ~rq[s].wait, Fail(s), UNCHANGED <<mix, file, lock, tool>>
  PROVE  IInv'
<1> DEFINE r == [rq[s] EXCEPT !.status = "error", !.todo = <<>>]
<1>1. /\ RequestFits(rq[s]) /\ rq[s].raw = EmptyMap /\ ~rq[s].wait
      /\ rq = [t \in Slots |-> rq[t]]
  BY StepOf DEF IInv
<1>2. rq' = [rq EXCEPT ![s] = r]
  BY <1>1 DEF Fail
<1>3. /\ DOMAIN r = DOMAIN rq[s] /\ r.in = rq[s].in /\ r.todo = <<>>
      /\ r.raw = rq[s].raw /\ r.wait = rq[s].wait
  BY <1>1
<1>4. RequestFits(r) /\ r.raw = EmptyMap
  BY <1>1, <1>3 DEF RequestFits
<1> HIDE DEF r
<1> QED BY <1>2, <1>4, RequestGoesOn

\* First and other steps.
LEMMA Rest ==
  ASSUME NEW S, NEW t \in Seq(S), t # <<>> PROVE Head(t) \in S /\ Tail(t) \in Seq(S)
OBVIOUS

\* Steps that a request puts in after its first one.
LEMMA Inserted ==
  ASSUME NEW S, NEW t \in Seq(S), t # <<>>, NEW x \in S
  PROVE  /\ <<Head(t), x>> \o Tail(t) \in Seq(S) /\ <<Head(t), x>> \o Tail(t) # <<>>
         /\ <<Head(t)>> \o <<x>> \o Tail(t) \in Seq(S) /\ <<Head(t)>> \o <<x>> \o Tail(t) # <<>>
<1>1. Head(t) \in S /\ Tail(t) \in Seq(S)
  OBVIOUS
<1>2. <<Head(t), x>> \in Seq(S) /\ <<Head(t)>> \o <<x>> \in Seq(S)
  BY <1>1
<1>3. Len(<<Head(t), x>>) = 2 /\ Len(<<Head(t)>> \o <<x>>) = 2
  BY <1>1
<1>4. \A a, b \in Seq(S) : a \o b \in Seq(S) /\ Len(a \o b) = Len(a) + Len(b) /\ Len(b) \in Nat
  OBVIOUS
<1>5. \A a \in Seq(S) : Len(a) > 0 => a # <<>>
  OBVIOUS
<1> QED BY <1>1, <1>2, <1>3, <1>4, <1>5

\* What Advance needs of the request r it goes on with.
Alike(r, q) == /\ DOMAIN r = DOMAIN q /\ r.in = q.in /\ r.status = q.status /\ r.raw = q.raw
              /\ r.wait = q.wait /\ r.todo # <<>> /\ r.todo \in Seq(Steps(q.in.op))

\* A step that succeeds leaves the steps after it.
LEMMA AdvanceKeeps ==
  ASSUME IInv, NEW s \in Slots, NEW step, Next_(s, step), step # "Store",
         step = "Signature" => ~rq[s].wait, NEW r, Alike(r, rq[s]),
         Advance(s, r), UNCHANGED <<mix, file, lock, tool>>
  PROVE  IInv'
<1> DEFINE q == [r EXCEPT !.todo = Tail(@)]
<1>1. /\ RequestFits(rq[s]) /\ rq[s].raw = EmptyMap /\ ~rq[s].wait
  BY StepOf
<1>2. rq' = [rq EXCEPT ![s] = q]
  BY DEF Advance
<1>3. /\ DOMAIN q = DOMAIN rq[s] /\ q.in = rq[s].in /\ q.todo = Tail(r.todo)
      /\ q.raw = rq[s].raw /\ q.wait = rq[s].wait
  BY <1>1 DEF Alike
<1>4. Tail(r.todo) \in Seq(Steps(rq[s].in.op))
  BY Rest DEF Alike
<1>5. RequestFits(q) /\ q.raw = EmptyMap
  BY <1>1, <1>3, <1>4 DEF RequestFits
<1> HIDE DEF q
<1> QED BY <1>2, <1>5, RequestGoesOn

\* A request is like itself.
LEMMA AlikeItself ==
  ASSUME IInv, NEW s \in Slots, NEW step, Next_(s, step), step # "Store" PROVE Alike(rq[s], rq[s])
BY StepOf DEF Alike

\* Begin.
LEMMA BeginKeeps == ASSUME IInv, NEW s \in Slots, Begin(s) PROVE IInv'
<1>1. PICK i \in DOMAIN Mixes[mix].inputs[s] : LET in == Mixes[mix].inputs[s][i] IN
        rq' = [rq EXCEPT ![s] = [Idle EXCEPT !.status = "run", !.in = in, !.todo = dispatch(in),
                 !.dead = Dead(At(s))]]
  BY DEF Begin
<1> DEFINE in == Mixes[mix].inputs[s][i]
           d == Dead(At(s))
           r == [Idle EXCEPT !.status = "run", !.in = in, !.todo = dispatch(in), !.dead = d]
<1>2. InputFits(in)
  BY MixAssumption DEF IInv
<1>3. dispatch(in) \in Seq(Steps(in.op))
  BY Dispatched
<1>4. rq' = [rq EXCEPT ![s] = r] /\ UNCHANGED <<mix, file, lock, tool>>
  BY <1>1 DEF Begin, Local, store
<1> HIDE DEF in, d
<1>5. /\ DOMAIN r = DOMAIN Idle /\ r.in = in /\ r.todo = dispatch(in) /\ r.raw = EmptyMap
      /\ r.wait = FALSE
  BY DEF Idle
<1>6. RequestFits(r)
  BY <1>2, <1>3, <1>5 DEF RequestFits
<1> HIDE DEF r
<1> QED BY <1>4, <1>5, <1>6, RequestGoesOn

\* NextPage: a request for a list starts anew, from the marker.
LEMMA NextPageKeeps == ASSUME IInv, NEW s \in Slots, NextPage(s) PROVE IInv'
<1> DEFINE m == rq[s].answer.marker
           in == [rq[s].in EXCEPT !.marker = m]
           r == [rq[s] EXCEPT !.status = "run", !.todo = dispatch(rq[s].in), !.in = in]
<1>1. RequestFits(rq[s]) /\ rq = [t \in Slots |-> rq[t]]
  BY DEF IInv
<1>2. /\ rq' = [rq EXCEPT ![s] = r] /\ UNCHANGED <<mix, file, lock, tool>> /\ rq[s].status = "ok"
  <2>1. rq' = [rq EXCEPT ![s].status = "run", ![s].todo = dispatch(rq[s].in),
                         ![s].in.marker = rq[s].answer.marker]
    BY DEF NextPage
  <2>2. "marker" \in DOMAIN rq[s].in /\ "in" \in DOMAIN rq[s]
    BY <1>1, RequestFields DEF RequestFits, InputFits
  <2>3. rq' = [rq EXCEPT ![s] = r]
    BY <2>1, <2>2, <1>1
  <2> QED BY <2>3 DEF NextPage, Local, store
<1>3. rq[s].raw = EmptyMap /\ ~rq[s].wait
  BY <1>1, <1>2 DEF RequestFits
<1>4. InputFits(in) /\ in.op = rq[s].in.op
  BY <1>1 DEF RequestFits, InputFits
<1>5. dispatch(rq[s].in) \in Seq(Steps(in.op))
  BY <1>4, Dispatched
<1> HIDE DEF m, in
<1>6. /\ DOMAIN r = DOMAIN rq[s] /\ r.in = in /\ r.todo = dispatch(rq[s].in)
      /\ r.raw = rq[s].raw /\ r.wait = rq[s].wait
  BY <1>1
<1>7. RequestFits(r)
  BY <1>1, <1>3, <1>4, <1>5, <1>6 DEF RequestFits
<1> HIDE DEF r
<1> QED BY <1>2, <1>3, <1>6, <1>7, RequestGoesOn

\* ProcessHandlers: the answer.
LEMMA ProcessHandlersKeeps == ASSUME IInv, NEW s \in Slots, ProcessHandlers(s) PROVE IInv'
<1> DEFINE r == [rq[s] EXCEPT !.status = "ok"]
<1>1. RequestFits(rq[s]) /\ rq = [t \in Slots |-> rq[t]]
  BY DEF IInv
<1>2. rq' = [rq EXCEPT ![s] = r] /\ UNCHANGED <<mix, file, lock, tool>> /\ rq[s].todo = <<>>
  BY <1>1 DEF ProcessHandlers, Local, store
<1>3. rq[s].raw = EmptyMap /\ ~rq[s].wait
  BY <1>1, <1>2 DEF RequestFits
<1>4. /\ DOMAIN r = DOMAIN rq[s] /\ r.in = rq[s].in /\ r.todo = rq[s].todo
      /\ r.raw = rq[s].raw /\ r.wait = rq[s].wait
  BY <1>1
<1>5. RequestFits(r)
  BY <1>1, <1>3, <1>4 DEF RequestFits
<1> HIDE DEF r
<1> QED BY <1>2, <1>3, <1>4, <1>5, RequestGoesOn

\* Steps that only go on or fail.
LEMMA ChecksKeep ==
  ASSUME IInv, NEW s \in Slots,
         \/ Validate(s) \/ routeAction(s) \/ Caller(s) \/ FetchThumbprint(s) \/ ParsePolicy(s)
         \/ ParseTrust(s) \/ VerifyCached(s) \/ RefreshRefused(s) \/ Expiry(s)
  PROVE  IInv'
<1>1. /\ UNCHANGED <<mix, file, lock, tool>> /\ (Fail(s) \/ Advance(s, rq[s]))
      /\ \E step \in {"Valid", "InvalidAction", "Caller", "Thumbprint", "Policy", "Trust",
                      "Signature", "Expiry"} : Next_(s, step) /\ (step = "Signature" => ~rq[s].wait)
  BY DEF Validate, routeAction, Caller, FetchThumbprint, ParsePolicy, ParseTrust, VerifyCached,
     RefreshRefused, JwksStep, Expiry, Local, store
<1>2. PICK step \in {"Valid", "InvalidAction", "Caller", "Thumbprint", "Policy", "Trust",
                     "Signature", "Expiry"} : Next_(s, step) /\ (step = "Signature" => ~rq[s].wait)
  BY <1>1
<1>3. Alike(rq[s], rq[s])
  BY <1>2, AlikeItself
<1> QED BY <1>1, <1>2, <1>3, FailKeeps, AdvanceKeeps

\* ResolveRoot.
LEMMA ResolveRootKeeps == ASSUME IInv, NEW s \in Slots, ResolveRoot(s) PROVE IInv'
<1> DEFINE i == [Nobody EXCEPT !.kind = "root"]
           r == [rq[s] EXCEPT !.id = i]
<1>1. Next_(s, "Resolve") /\ Advance(s, r) /\ UNCHANGED <<mix, file, lock, tool>>
  BY DEF ResolveRoot, Local, store
<1> HIDE DEF i
<1>2. Alike(r, rq[s])
  BY <1>1, StepOf DEF Alike
<1> HIDE DEF r
<1> QED BY <1>1, <1>2, AdvanceKeeps

\* A step that reads the store goes on with r or fails.
LEMMA ReadingKeeps ==
  ASSUME IInv, NEW s \in Slots, NEW step, Next_(s, step), step \notin {"Store", "Signature"},
         NEW r, Alike(r, rq[s]), Fail(s) \/ Advance(s, r), UNCHANGED <<mix, file, lock, tool>>
  PROVE  IInv'
BY FailKeeps, AdvanceKeeps

\* The steps that authentication puts in.
LEMMA PutIn ==
  ASSUME IInv, NEW s \in Slots, NEW step, Next_(s, step), step # "Store"
  PROVE  LET t == rq[s].todo
             Fit(u) == u \in Seq(Steps(rq[s].in.op)) /\ u # <<>>
         IN  /\ Fit(<<Head(t), Do("ResolveUser")>> \o Tail(t))
             /\ Fit(<<Head(t), Do("ResolveRole")>> \o Tail(t))
             /\ Fit(<<Head(t)>> \o Store("RecordAccessKeyUsage") \o Tail(t))
<1> DEFINE S == Steps(rq[s].in.op)
<1>1. rq[s].todo \in Seq(S) /\ rq[s].todo # <<>>
  BY StepOf
<1>2. /\ {"ResolveUser", "ResolveRole"} \subseteq Checks /\ "RecordAccessKeyUsage" \in WriteOps
  BY DEF Checks, WriteOps
<1>3. {Do("ResolveUser"), Do("ResolveRole")} \subseteq S
  BY <1>2, StepForms
<1>4. [do |-> "Store", op |-> "RecordAccessKeyUsage"] \in S
  BY <1>2 DEF Steps
<1> HIDE DEF S
<1> QED BY <1>1, <1>3, <1>4, Inserted DEF Store, S

\* ResolveIndex: the second read of the user is put in.
LEMMA ResolveIndexKeeps == ASSUME IInv, NEW s \in Slots, ResolveIndex(s) PROVE IInv'
<1> DEFINE n == Conf(At(s)).keyIndex[rq[s].in.cred]
           t == <<Head(rq[s].todo), Do("ResolveUser")>> \o Tail(rq[s].todo)
           r == [rq[s] EXCEPT !.name = n, !.todo = t]
<1>1. Next_(s, "Resolve") /\ (Fail(s) \/ Advance(s, r)) /\ UNCHANGED <<mix, file, lock, tool>>
  BY DEF ResolveIndex, Reading
<1>2. t \in Seq(Steps(rq[s].in.op)) /\ t # <<>>
  BY <1>1, PutIn
<1> HIDE DEF n, t
<1>3. Alike(r, rq[s])
  BY <1>1, <1>2 DEF Alike
<1> HIDE DEF r
<1> QED BY <1>1, <1>3, ReadingKeeps

\* ResolveUserIdentity: the write of the time of use is put in.
LEMMA ResolveUserIdentityKeeps == ASSUME IInv, NEW s \in Slots, ResolveUserIdentity(s) PROVE IInv'
<1> DEFINE u == Conf(At(s)).users[lookupUser(Conf(At(s)), rq[s].name)]
           i == [Nobody EXCEPT !.kind = "user", !.key = rq[s].in.cred, !.uid = u.id, !.arn = u.arn,
                   !.tags = u.tags, !.docs = {Documents[d] : d \in Range(u.policies)}]
           t == <<Head(rq[s].todo)>> \o Store("RecordAccessKeyUsage") \o Tail(rq[s].todo)
           r == [rq[s] EXCEPT !.id = i, !.todo = t]
<1>1. Next_(s, "ResolveUser") /\ (Fail(s) \/ Advance(s, r)) /\ UNCHANGED <<mix, file, lock, tool>>
  BY DEF ResolveUserIdentity, Reading
<1>2. t \in Seq(Steps(rq[s].in.op)) /\ t # <<>>
  BY <1>1, PutIn
<1> HIDE DEF i, t
<1>3. Alike(r, rq[s])
  BY <1>1, <1>2 DEF Alike
<1> HIDE DEF r
<1> QED BY <1>1, <1>3, ReadingKeeps

\* ResolveSession: the read of the role is put in.
LEMMA ResolveSessionKeeps == ASSUME IInv, NEW s \in Slots, ResolveSession(s) PROVE IInv'
<1> DEFINE k == rq[s].in.cred
           c == Conf(At(s))
           i == [Nobody EXCEPT !.kind = "session", !.key = k,
                   !.arn = c.sessions[k].arn, !.roleId = c.sessions[k].roleId,
                   !.sessionPolicy = {Documents[d] : d \in c.sessions[k].policy}]
           n == c.sessions[k].role
           t == <<Head(rq[s].todo), Do("ResolveRole")>> \o Tail(rq[s].todo)
           r == [rq[s] EXCEPT !.id = i, !.name = n, !.todo = t]
<1>1. Next_(s, "Resolve") /\ (Fail(s) \/ Advance(s, r)) /\ UNCHANGED <<mix, file, lock, tool>>
  BY DEF ResolveSession, Reading
<1>2. t \in Seq(Steps(rq[s].in.op)) /\ t # <<>>
  BY <1>1, PutIn
<1> HIDE DEF i, n, t
<1>3. Alike(r, rq[s])
  BY <1>1, <1>2 DEF Alike
<1> HIDE DEF r
<1> QED BY <1>1, <1>3, ReadingKeeps

\* ResolveSessionByToken: goes on even when the role cannot be read.
LEMMA ResolveSessionByTokenKeeps ==
  ASSUME IInv, NEW s \in Slots, ResolveSessionByToken(s) PROVE IInv'
<1> DEFINE c == Conf(At(s))
           n == lookupRole(c, rq[s].name)
           d == {Documents[x] : x \in Range(c.roles[n].policies)}
           q == [rq[s] EXCEPT !.id.docs = d, !.id.tags = c.roles[n].tags,
                              !.id.fromRole = c.roles[n].id]
           r == IF n # "" /\ SameRole(c.roles[n], rq[s].id) THEN q ELSE rq[s]
<1>1. /\ Next_(s, "ResolveRole") /\ (Fail(s) \/ Advance(s, r) \/ Advance(s, rq[s]))
      /\ UNCHANGED <<mix, file, lock, tool>>
  BY DEF ResolveSessionByToken, Reading, Local, store
<1> HIDE DEF c, n, d
<1>2. Alike(q, rq[s]) /\ Alike(rq[s], rq[s])
  BY <1>1, StepOf, RequestFields DEF Alike
<1>3. Alike(r, rq[s])
  BY <1>2
<1> HIDE DEF r
<1> QED BY <1>1, <1>2, <1>3, ReadingKeeps

\* VerifyIAMPolicy.
LEMMA VerifyIAMPolicyKeeps == ASSUME IInv, NEW s \in Slots, VerifyIAMPolicy(s) PROVE IInv'
<1> DEFINE a == resourceForAction(Conf(At(s)), rq[s]).arn
           v == ReadIAMData(At(s)).ver
           r == [rq[s] EXCEPT !.granted = @ \cup {a}, !.basis = v]
<1>1. Next_(s, "Authorize") /\ (Fail(s) \/ Advance(s, r)) /\ UNCHANGED <<mix, file, lock, tool>>
  BY DEF VerifyIAMPolicy, Reading
<1> HIDE DEF a, v
<1>2. Alike(r, rq[s])
  BY <1>1, StepOf DEF Alike
<1> HIDE DEF r
<1> QED BY <1>1, <1>2, ReadingKeeps

\* updateUserTargetResource.
LEMMA UpdateUserTargetKeeps == ASSUME IInv, NEW s \in Slots, updateUserTargetResource(s) PROVE IInv'
<1> DEFINE c == Conf(At(s))
           u == c.users[lookupUser(c, rq[s].in.on)]
           a == UserArn(IF rq[s].in.y = "" THEN u.path ELSE rq[s].in.y,
                        IF rq[s].in.x = "" THEN lookupUser(c, rq[s].in.on) ELSE rq[s].in.x)
           q == [rq[s] EXCEPT !.granted = @ \cup {a}]
           r == IF lookupUser(c, rq[s].in.on) # "" /\ (rq[s].in.x # "" \/ rq[s].in.y # "")
                THEN q ELSE rq[s]
<1>1. Next_(s, "Target") /\ (Fail(s) \/ Advance(s, r)) /\ UNCHANGED <<mix, file, lock, tool>>
  BY DEF updateUserTargetResource, Reading
<1> HIDE DEF c, a
<1>2. Alike(q, rq[s]) /\ Alike(rq[s], rq[s])
  BY <1>1, StepOf, RequestFields DEF Alike
<1>3. Alike(r, rq[s])
  BY <1>2
<1> HIDE DEF r
<1> QED BY <1>1, <1>3, ReadingKeeps

\* ReadUser.
LEMMA ReadUserKeeps == ASSUME IInv, NEW s \in Slots, ReadUser(s) PROVE IInv'
<1> DEFINE u == [name |-> lookupUser(Conf(At(s)), rq[s].in.on),
                 path |-> Conf(At(s)).users[lookupUser(Conf(At(s)), rq[s].in.on)].path]
           r == [rq[s] EXCEPT !.user = u]
<1>1. Next_(s, "User") /\ (Fail(s) \/ Advance(s, r)) /\ UNCHANGED <<mix, file, lock, tool>>
  BY DEF ReadUser, Reading
<1> HIDE DEF u
<1>2. Alike(r, rq[s])
  BY <1>1, StepOf DEF Alike
<1> HIDE DEF r
<1> QED BY <1>1, <1>2, ReadingKeeps

\* Answer.
LEMMA AnswerKeeps == ASSUME IInv, NEW s \in Slots, Answer(s) PROVE IInv'
<1> DEFINE c == Conf(At(s))
           page == Listing(c, Op(s), rq[s].in)
           all == Listed(c, Op(s), rq[s].in)
           l == rq[s].listed \cup page.names
           h == IF rq[s].in.marker = "" THEN all ELSE rq[s].through \cap all
           k == rq[s].lostMarker \/ (rq[s].in.marker # "" /\ rq[s].in.marker \notin all)
           r == [rq[s] EXCEPT !.answer = page, !.listed = l, !.through = h, !.lostMarker = k]
<1>1. Next_(s, "Read") /\ (Fail(s) \/ Advance(s, r)) /\ UNCHANGED <<mix, file, lock, tool>>
  BY DEF Answer, Reading
<1> HIDE DEF page, l, h, k
<1>2. Alike(r, rq[s])
  BY <1>1, StepOf DEF Alike
<1> HIDE DEF r
<1> QED BY <1>1, <1>2, ReadingKeeps

\* AssumedRole.
LEMMA AssumedRoleKeeps == ASSUME IInv, NEW s \in Slots, AssumedRole(s) PROVE IInv'
<1> DEFINE c == Conf(At(s))
           n == lookupRole(c, rq[s].in.on)
           e == [name |-> n, id |-> c.roles[n].id, arn |-> c.roles[n].arn,
                 trust |-> c.roles[n].trust]
           r == [rq[s] EXCEPT !.role = e]
<1>1. Next_(s, "AssumedRole") /\ (Fail(s) \/ Advance(s, r)) /\ UNCHANGED <<mix, file, lock, tool>>
  BY DEF AssumedRole, Reading
<1> HIDE DEF e
<1>2. Alike(r, rq[s])
  BY <1>1, StepOf DEF Alike
<1> HIDE DEF r
<1> QED BY <1>1, <1>2, ReadingKeeps

\* Steps that read only to see whether they may go on.
LEMMA LooksKeep ==
  ASSUME IInv, NEW s \in Slots, ReadRole(s) \/ TrustDecision(s) \/ ClientAllowed(s) PROVE IInv'
<1>1. /\ (Fail(s) \/ Advance(s, rq[s])) /\ UNCHANGED <<mix, file, lock, tool>>
      /\ \E step \in {"Role", "TrustDecision", "Provider"} : Next_(s, step)
  BY DEF ReadRole, TrustDecision, ClientAllowed, Reading
<1>2. PICK step \in {"Role", "TrustDecision", "Provider"} : Next_(s, step)
  BY <1>1
<1>3. Alike(rq[s], rq[s])
  BY <1>2, AlikeItself
<1> QED BY <1>1, <1>2, <1>3, ReadingKeeps

\* A request that waits for signing keys.
LEMMA JoinKeeps ==
  ASSUME IInv, NEW s \in Slots, forceRefreshJWKSCache(s) \/ cachedJWKS(s) PROVE IInv'
<1>1. RequestFits(rq[s]) /\ rq = [t \in Slots |-> rq[t]]
  BY DEF IInv
<1>2. PICK forced \in BOOLEAN :
        /\ rq' = [rq EXCEPT ![s].wait = TRUE, ![s].tried = forced]
        /\ UNCHANGED <<mix, file, lock, tool>> /\ Next_(s, "Signature")
  BY DEF forceRefreshJWKSCache, cachedJWKS, Join, JwksStep, store
<1> DEFINE r == [rq[s] EXCEPT !.wait = TRUE, !.tried = forced]
<1>3. rq' = [rq EXCEPT ![s] = r]
  BY <1>1, <1>2
<1>4. /\ DOMAIN r = DOMAIN rq[s] /\ r.in = rq[s].in /\ r.todo = rq[s].todo
      /\ r.raw = rq[s].raw /\ r.status = rq[s].status
  BY <1>1
<1>5. /\ rq[s].raw = EmptyMap /\ rq[s].status = "run" /\ rq[s].todo # <<>>
      /\ Head(rq[s].todo).do = "Signature"
  BY <1>2, StepOf DEF Next_
<1>6. RequestFits(r)
  BY <1>1, <1>4, <1>5 DEF RequestFits
<1> HIDE DEF r
<1> QED BY <1>2, <1>3, <1>4, <1>6, RequestGoesOn

\* The keys arrive, or do not: everybody who waits goes on or fails.
LEMMA FetchKeeps ==
  ASSUME IInv, NEW g, fetchAndCacheJWKS(g) \/ FetchFails(g) PROVE IInv'
<1>1. rq = [t \in Slots |-> rq[t]] /\ \A t \in Slots : RequestFits(rq[t])
  BY DEF IInv
<1>2. /\ rq' = [t \in Slots |-> rq'[t]] /\ UNCHANGED <<mix, file, lock, tool>>
      /\ \A t \in Slots : \/ rq'[t] = rq[t]
                          \/ rq[t].wait /\ rq'[t] = [rq[t] EXCEPT !.wait = FALSE, !.todo = Tail(@)]
                          \/ rq[t].wait /\ rq'[t] = [rq[t] EXCEPT !.wait = FALSE]
                          \/ /\ rq[t].wait
                             /\ rq'[t] = [rq[t] EXCEPT !.wait = FALSE, !.status = "error",
                                                       !.todo = <<>>]
  BY DEF fetchAndCacheJWKS, FetchFails, Waiting, store
<1>3. ASSUME NEW t \in Slots PROVE RequestFits(rq'[t]) /\ rq'[t].raw \in {rq[t].raw, EmptyMap}
  <2>1. RequestFits(rq[t])
    BY <1>1
  <2>2. CASE rq'[t] = rq[t]
    BY <2>1, <2>2
  <2>3. CASE rq[t].wait /\ rq'[t] = [rq[t] EXCEPT !.wait = FALSE, !.todo = Tail(@)]
    <3>1. /\ rq[t].raw = EmptyMap /\ rq[t].todo # <<>> /\ rq[t].todo \in Seq(Steps(rq[t].in.op))
      BY <2>1, <2>3 DEF RequestFits
    <3>2. Tail(rq[t].todo) \in Seq(Steps(rq[t].in.op))
      BY <3>1, Rest
    <3>3. /\ DOMAIN rq'[t] = DOMAIN rq[t] /\ rq'[t].in = rq[t].in /\ rq'[t].todo = Tail(rq[t].todo)
          /\ rq'[t].raw = rq[t].raw /\ rq'[t].wait = FALSE
      BY <2>1, <2>3
    <3> QED BY <2>1, <3>1, <3>2, <3>3 DEF RequestFits
  <2>4. CASE rq[t].wait /\ rq'[t] = [rq[t] EXCEPT !.wait = FALSE, !.status = "error", !.todo = <<>>]
    <3>1. /\ rq[t].raw = EmptyMap
      BY <2>1, <2>4 DEF RequestFits
    <3>3. /\ DOMAIN rq'[t] = DOMAIN rq[t] /\ rq'[t].in = rq[t].in /\ rq'[t].todo = <<>>
          /\ rq'[t].raw = rq[t].raw /\ rq'[t].wait = FALSE
      BY <2>1, <2>4
    <3> QED BY <2>1, <3>1, <3>3 DEF RequestFits
  <2>5. CASE rq[t].wait /\ rq'[t] = [rq[t] EXCEPT !.wait = FALSE]
    <3>1. /\ DOMAIN rq'[t] = DOMAIN rq[t] /\ rq'[t].in = rq[t].in /\ rq'[t].todo = rq[t].todo
          /\ rq'[t].raw = rq[t].raw /\ rq'[t].wait = FALSE /\ rq'[t].status = rq[t].status
      BY <2>1, <2>5
    <3> QED BY <2>1, <3>1 DEF RequestFits
  <2> QED BY <1>2, <2>2, <2>3, <2>4, <2>5
<1> QED BY <1>2, <1>3, RequestsGoOn

\* A request that holds the lock: what it is about to do, and that nobody else
\* holds the lock of its server.
LEMMA Holder ==
  ASSUME IInv, NEW s \in Slots, Holds(s)
  PROVE  /\ RequestFits(rq[s]) /\ FileSound(rq[s].raw) /\ rq[s].todo # <<>> /\ lock[At(s)] = s
         /\ rq[s].todo \in Seq(Steps(rq[s].in.op)) /\ ~rq[s].wait
         /\ Op(s) \in {rq[s].in.op, "RecordAccessKeyUsage", "CreateSession"} \cap WriteOps
         /\ \A t \in Slots : t # s /\ rq[t].raw # EmptyMap => At(t) # At(s)
<1>1. /\ RequestFits(rq[s]) /\ FileSound(rq[s].raw) /\ rq[s].todo # <<>> /\ ~rq[s].wait
      /\ rq[s].todo \in Seq(Steps(rq[s].in.op)) /\ Head(rq[s].todo).do = "Store"
  BY DEF IInv, Holds, RequestFits
<1>2. lock[At(s)] = s /\ \A t \in Slots : t # s /\ rq[t].raw # EmptyMap => At(t) # At(s)
  BY DEF IInv, LocksHeld, Holds
<1>3. Head(rq[s].todo) \in Steps(rq[s].in.op)
  BY <1>1
<1>4. Head(rq[s].todo).op \in {rq[s].in.op, "RecordAccessKeyUsage", "CreateSession"} \cap WriteOps
  BY <1>1, <1>3 DEF Steps, Checks
<1> QED BY <1>1, <1>2, <1>4 DEF Op

\* Every request is on one of the servers.
LEMMA ServerOf == ASSUME IInv, NEW s \in Slots PROVE At(s) \in Servers
BY MixAssumption DEF IInv, At

\* The holder lets go of the lock; the others go on as before.  What it leaves in
\* the file is sound, and when the file is new nobody else on the server has read.
LEMMA HolderLeaves ==
  ASSUME IInv, NEW s \in Slots, Holds(s), Unlock(s), UNCHANGED <<mix, tool>>,
         rq' = [t \in Slots |-> rq'[t]], rq'[s].raw = EmptyMap, FileSound(file'),
         \A t \in Slots : RequestFits(rq'[t]) /\ (t # s => rq'[t].raw = rq[t].raw)
  PROVE  IInv'
<1>1. \A t \in Slots : At(t)' = At(t)
  BY DEF At
<1>2. /\ At(s) \in DOMAIN lock /\ DOMAIN lock' = Servers
      /\ \A g \in Servers : g # At(s) => lock'[g] = lock[g]
  BY ServerOf DEF IInv, Unlock
<1>3. LocksHeld'
  BY <1>1, <1>2, Holder, ServerOf DEF IInv, LocksHeld
<1>4. OneServer' = OneServer
  BY <1>1 DEF OneServer
<1>5. ReadCurrent'
  <2> SUFFICES ASSUME OneServer
               PROVE  /\ tool.todo = <<>> /\ tool.read = EmptyMap
                      /\ \A t \in Slots : rq'[t].raw = EmptyMap
    BY <1>4 DEF ReadCurrent
  <2>1. \A t \in Slots : At(t) = At(s)
    BY DEF OneServer
  <2> QED BY <2>1, Holder DEF IInv, ReadCurrent
<1> QED BY <1>2, <1>3, <1>5 DEF IInv

\* StoreWrite: what was read is sound, so what is written is.
LEMMA StoreWriteKeeps == ASSUME IInv, NEW s \in Slots, StoreWrite(s) PROVE IInv'
<1> DEFINE c == normalizeIAMConfig(rq[s].raw.conf)
           result == Update(c, s, Op(s))
           new == [fmt |-> rq[s].raw.fmt, conf |-> result.conf, ver |-> file.ver + 1]
           live == ActiveKeys(result.conf)
<1>1. /\ Holds(s) /\ result.ok /\ file' = new /\ Unlock(s) /\ UNCHANGED <<mix, tool>>
      /\ rq' = [t \in Slots |->
                  LET r == [rq[t] EXCEPT !.dead = @ \ live]
                  IN  IF t = s THEN [r EXCEPT !.todo = Tail(@), !.raw = EmptyMap, !.try = 1] ELSE r]
  BY DEF StoreWrite
<1>2. Sound(rq[s].raw.conf)
  BY <1>1, Holder DEF FileSound
<1>3. Whole(c)
  BY <1>2, Normalized
<1> HIDE DEF c
<1>4. Whole(result.conf)
  <2>1. InputFits(rq[s].in)
    BY <1>1, Holder DEF RequestFits
  <2>2. /\ Op(s) \in WriteOps
        /\ Op(s) \notin {"RecordAccessKeyUsage", "CreateSession"} => rq[s].in.op = Op(s)
    BY <1>1, Holder
  <2> QED BY <1>1, <1>3, <2>1, <2>2, UpdateWhole
<1> HIDE DEF result, live
<1>5. FileSound(new)
  BY <1>4 DEF FileSound, Whole
<1> HIDE DEF new
<1>6. \A t \in Slots : RequestFits(rq[t])
  BY DEF IInv
<1>7. ASSUME NEW t \in Slots, t # s PROVE RequestFits(rq'[t]) /\ rq'[t].raw = rq[t].raw
  <2>1. RequestFits(rq[t]) /\ rq'[t] = [rq[t] EXCEPT !.dead = @ \ live]
    BY <1>1, <1>6, <1>7
  <2>2. /\ DOMAIN rq'[t] = DOMAIN rq[t] /\ rq'[t].in = rq[t].in /\ rq'[t].todo = rq[t].todo
        /\ rq'[t].raw = rq[t].raw /\ rq'[t].wait = rq[t].wait /\ rq'[t].status = rq[t].status
    BY <2>1
  <2> QED BY <2>1, <2>2 DEF RequestFits
<1>8. RequestFits(rq'[s]) /\ rq'[s].raw = EmptyMap
  <2>1. /\ RequestFits(rq[s])
        /\ rq'[s] = [rq[s] EXCEPT !.dead = @ \ live, !.todo = Tail(@), !.raw = EmptyMap, !.try = 1]
    BY <1>1, <1>6
  <2>2. /\ DOMAIN rq'[s] = DOMAIN rq[s] /\ rq'[s].in = rq[s].in /\ rq'[s].todo = Tail(rq[s].todo)
        /\ rq'[s].raw = EmptyMap /\ rq'[s].wait = rq[s].wait
    BY <2>1
  <2>3. Tail(rq[s].todo) \in Seq(Steps(rq[s].in.op)) /\ ~rq[s].wait
    BY <1>1, Holder, Rest
  <2> QED BY <2>1, <2>2, <2>3 DEF RequestFits
<1>9. rq' = [t \in Slots |-> rq'[t]]
  BY <1>1
<1> QED BY <1>1, <1>5, <1>7, <1>8, <1>9, HolderLeaves

\* The write is refused, or fails: the file stays.
LEMMA StoreGivenUpKeeps ==
  ASSUME IInv, NEW s \in Slots, StoreRefused(s) \/ StoreFails(s) PROVE IInv'
<1>1. rq = [t \in Slots |-> rq[t]] /\ (\A t \in Slots : RequestFits(rq[t])) /\ FileSound(file)
  BY DEF IInv
<1> DEFINE a == [[rq[s] EXCEPT !.raw = EmptyMap] EXCEPT !.todo = Tail(@)]
           b == [rq[s] EXCEPT !.try = @ + 1, !.raw = EmptyMap]
           e == [rq[s] EXCEPT !.status = "error", !.todo = <<>>, !.raw = EmptyMap]
<1>2. Holds(s) /\ Unlock(s) /\ UNCHANGED <<mix, tool, file>>
  BY DEF StoreRefused, StoreFails
<1>3. \E q \in {a, b, e} : rq' = [rq EXCEPT ![s] = q]
  BY <1>1 DEF StoreRefused, StoreFails, Advance
<1>4. PICK q \in {a, b, e} : rq' = [rq EXCEPT ![s] = q]
  BY <1>3
<1>5. /\ RequestFits(rq[s]) /\ ~rq[s].wait /\ rq[s].todo \in Seq(Steps(rq[s].in.op))
      /\ Tail(rq[s].todo) \in Seq(Steps(rq[s].in.op))
  BY <1>2, Holder, Rest
<1>6. /\ DOMAIN q = DOMAIN rq[s] /\ q.in = rq[s].in /\ q.raw = EmptyMap /\ q.wait = rq[s].wait
      /\ q.todo \in {rq[s].todo, Tail(rq[s].todo), <<>>}
  BY <1>5, RequestFields
<1> HIDE DEF a, b, e
<1>7. q.todo \in Seq(Steps(rq[s].in.op))
  <2>1. <<>> \in Seq(Steps(rq[s].in.op))
    OBVIOUS
  <2> QED BY <1>5, <1>6, <2>1
<1>8. RequestFits(q)
  BY <1>5, <1>6, <1>7 DEF RequestFits
<1>9. /\ rq' = [t \in Slots |-> rq'[t]] /\ rq'[s] = q /\ \A t \in Slots : t # s => rq'[t] = rq[t]
  BY <1>1, <1>4
<1> QED BY <1>1, <1>2, <1>6, <1>8, <1>9, HolderLeaves

\* StoreLock: the lock was free, so nobody on the server has read.
LEMMA StoreLockKeeps == ASSUME IInv, NEW s \in Slots, StoreLock(s) PROVE IInv'
<1>1. rq = [t \in Slots |-> rq[t]] /\ (\A t \in Slots : RequestFits(rq[t])) /\ FileSound(file)
  BY DEF IInv
<1>2. /\ Next_(s, "Store") /\ lock[At(s)] = "free" /\ UNCHANGED <<mix, file, tool>>
  BY DEF StoreLock
<1>3. \A t \in Slots : rq[t].raw # EmptyMap => At(t) # At(s)
  BY <1>2, FreeAssumption DEF IInv, LocksHeld
<1>4. rq[s].raw = EmptyMap
  BY <1>3
<1>5. /\ ~rq[s].wait /\ rq[s].todo # <<>> /\ rq[s].status = "run" /\ Head(rq[s].todo).do = "Store"
      /\ rq[s].todo \in Seq(Steps(rq[s].in.op)) /\ RequestFits(rq[s])
  BY <1>1, <1>2 DEF RequestFits, Next_
<1>6. CASE Readable(At(s), file)
  <2> DEFINE r == [rq[s] EXCEPT !.raw = file]
  <2>1. rq' = [rq EXCEPT ![s] = r] /\ lock' = [lock EXCEPT ![At(s)] = s]
    BY <1>1, <1>6 DEF StoreLock
  <2>2. /\ DOMAIN r = DOMAIN rq[s] /\ r.in = rq[s].in /\ r.raw = file /\ r.wait = rq[s].wait
        /\ r.todo = rq[s].todo /\ r.status = rq[s].status
    BY <1>5
  <2>3. RequestFits(r)
    BY <1>1, <1>5, <2>2 DEF RequestFits
  <2> HIDE DEF r
  <2>4. /\ rq' = [t \in Slots |-> rq'[t]] /\ rq'[s] = r /\ \A t \in Slots : t # s => rq'[t] = rq[t]
    BY <1>1, <2>1
  <2>5. \A t \in Slots : At(t)' = At(t)
    BY <1>2 DEF At
  <2>6. /\ DOMAIN lock' = Servers /\ lock'[At(s)] = s
        /\ \A t \in Slots : At(t) # At(s) => lock'[At(t)] = lock[At(t)]
    BY <2>1, ServerOf DEF IInv
  <2>7. LocksHeld'
    BY <1>3, <2>4, <2>5, <2>6 DEF IInv, LocksHeld
  <2>8. OneServer' = OneServer
    BY <1>2, <2>5 DEF OneServer
  <2>9. ReadCurrent'
    BY <1>2, <2>2, <2>4, <2>8 DEF IInv, ReadCurrent
  <2> QED BY <1>1, <1>2, <2>3, <2>4, <2>6, <2>7, <2>9 DEF IInv
<1>7. CASE ~Readable(At(s), file)
  <2> DEFINE a == [rq[s] EXCEPT !.todo = Tail(@)]
             e == [rq[s] EXCEPT !.status = "error", !.todo = <<>>]
  <2>1. (\E q \in {a, e} : rq' = [rq EXCEPT ![s] = q]) /\ lock' = lock
    BY <1>1, <1>7 DEF StoreLock, Advance, Fail
  <2>2. PICK q \in {a, e} : rq' = [rq EXCEPT ![s] = q]
    BY <2>1
  <2>3. /\ DOMAIN q = DOMAIN rq[s] /\ q.in = rq[s].in /\ q.raw = rq[s].raw /\ q.wait = rq[s].wait
        /\ q.todo \in {Tail(rq[s].todo), <<>>}
    BY <1>5, RequestFields
  <2>4. Tail(rq[s].todo) \in Seq(Steps(rq[s].in.op))
    BY <1>5, Rest
  <2> HIDE DEF a, e
  <2>5. q.todo \in Seq(Steps(rq[s].in.op))
    <3>1. <<>> \in Seq(Steps(rq[s].in.op))
      OBVIOUS
    <3> QED BY <2>3, <2>4, <3>1
  <2>6. RequestFits(q)
    BY <1>4, <1>5, <2>3, <2>5 DEF RequestFits
  <2> QED BY <1>2, <2>1, <2>2, <2>3, <2>6, RequestGoesOn
<1> QED BY <1>6, <1>7

\* The migration tool: not there while there is one server only.
LEMMA MigrateReadKeeps == ASSUME IInv, MigrateRead PROVE IInv'
<1>1. /\ tool' = [tool EXCEPT !.read = file] /\ tool.todo # <<>>
      /\ UNCHANGED <<mix, file, lock, rq>>
  BY DEF MigrateRead, store
<1>2. {"todo", "read"} \subseteq DOMAIN tool' /\ tool'.read = file
  BY <1>1 DEF IInv
<1>3. \A t \in Slots : At(t)' = At(t)
  BY <1>1 DEF At
<1>4. LocksHeld' /\ OneServer' = OneServer
  BY <1>1, <1>3 DEF IInv, LocksHeld, OneServer
<1>5. ReadCurrent'
  BY <1>1, <1>4 DEF IInv, ReadCurrent
<1> QED BY <1>1, <1>2, <1>4, <1>5 DEF IInv

\* MigrateWrite: the document in the file it read, maybe an old one, but sound.
LEMMA MigrateWriteKeeps == ASSUME IInv, MigrateWrite PROVE IInv'
<1> DEFINE how == Head(tool.todo)
           new == Converted(how, tool.read)
           skipped == how # "rewrap" /\ new = tool.read
           live == ActiveKeys(IF skipped THEN file.conf ELSE new.conf)
<1>1. /\ file' = IF skipped THEN file ELSE [new EXCEPT !.ver = file.ver + 1]
      /\ rq' = [t \in Slots |-> [rq[t] EXCEPT !.dead = @ \ live]]
      /\ tool' = [todo |-> Tail(tool.todo), read |-> EmptyMap] /\ tool.read # EmptyMap
      /\ UNCHANGED <<mix, lock>>
  BY DEF MigrateWrite
<1>2. FileSound(tool.read) /\ FileSound(file) /\ \A t \in Slots : RequestFits(rq[t])
  BY <1>1 DEF IInv
<1>3. /\ {"fmt", "conf", "ver"} \subseteq DOMAIN new /\ new.conf = tool.read.conf
  BY <1>2 DEF Converted, FileSound
<1> HIDE DEF new, skipped, live
<1>4. FileSound(file')
  BY <1>1, <1>2, <1>3 DEF FileSound
<1>5. ASSUME NEW t \in Slots PROVE RequestFits(rq'[t]) /\ rq'[t].raw = rq[t].raw
  <2>1. RequestFits(rq[t]) /\ rq'[t] = [rq[t] EXCEPT !.dead = @ \ live]
    BY <1>1, <1>2
  <2>2. /\ DOMAIN rq'[t] = DOMAIN rq[t] /\ rq'[t].in = rq[t].in /\ rq'[t].todo = rq[t].todo
        /\ rq'[t].raw = rq[t].raw /\ rq'[t].wait = rq[t].wait /\ rq'[t].status = rq[t].status
    BY <2>1
  <2> QED BY <2>1, <2>2 DEF RequestFits
<1>6. rq' = [t \in Slots |-> rq'[t]]
  BY <1>1
<1>7. \A t \in Slots : At(t)' = At(t)
  BY <1>1 DEF At
<1>8. LocksHeld'
  BY <1>1, <1>5, <1>7 DEF IInv, LocksHeld
<1>9. OneServer' = OneServer
  BY <1>1, <1>7 DEF OneServer
<1>10. ReadCurrent'
  BY <1>1, <1>9 DEF IInv, ReadCurrent
<1>11. {"todo", "read"} \subseteq DOMAIN tool' /\ tool'.read = EmptyMap
  BY <1>1
<1> QED BY <1>1, <1>4, <1>5, <1>6, <1>8, <1>10, <1>11 DEF IInv

\* Time and signing keys are no part of it.
LEMMA OthersKeep == ASSUME IInv, Rotate \/ Tick \/ UNCHANGED vars PROVE IInv'
<1>1. UNCHANGED <<mix, file, lock, tool, rq>>
  BY DEF Rotate, Tick, vars, store
<1>2. /\ rq' = [t \in Slots |-> rq'[t]]
      /\ \A t \in Slots : RequestFits(rq'[t]) /\ rq'[t].raw \in {rq[t].raw, EmptyMap}
  BY <1>1 DEF IInv
<1> QED BY <1>1, <1>2, RequestsGoOn

\* The worlds that the mixes start with are sound.
LEMMA InitSound == Init => IInv
<1> SUFFICES ASSUME Init PROVE IInv
  OBVIOUS
<1>1. mix \in DOMAIN Mixes /\ FileSound(file)
  BY MixAssumption DEF Init, FileSound
<1>2. /\ {"todo", "read"} \subseteq DOMAIN tool /\ tool.read = EmptyMap
      /\ tool.todo = Mixes[mix].tool
  BY DEF Init
<1>3. rq = [s \in Slots |-> Idle]
  BY DEF Init
<1>4. InputFits(NoInput)
  BY DEF InputFits, NoInput
<1>5. Idle.in = NoInput /\ Idle.todo = <<>> /\ Idle.raw = EmptyMap /\ Idle.wait = FALSE
  BY DEF Idle
<1>6. RequestFits(Idle)
  BY <1>4, <1>5 DEF RequestFits
<1>7. LocksHeld
  BY <1>3, <1>5 DEF LocksHeld
<1>8. ReadCurrent
  BY <1>2, <1>3, <1>5 DEF ReadCurrent, OneServer
<1>9. DOMAIN lock = Servers
  BY DEF Init
<1> QED BY <1>1, <1>2, <1>3, <1>6, <1>7, <1>8, <1>9 DEF IInv

\* IInv holds of every reachable state: file, writers and tool hold sound documents,
\* requests take steps of their action, and a writer holds the lock (engine.go).
THEOREM InductiveInvariant == Spec => []IInv
<1>1. IInv /\ [Next]_vars => IInv'
  <2> SUFFICES ASSUME IInv, [Next]_vars PROVE IInv'
    OBVIOUS
  <2>1. ASSUME NEW s \in Slots,
               \/ Begin(s) \/ NextPage(s) \/ ProcessHandlers(s) \/ Validate(s) \/ routeAction(s)
               \/ Caller(s) \/ FetchThumbprint(s) \/ ResolveRoot(s)
               \/ ParsePolicy(s) \/ ParseTrust(s) \/ VerifyCached(s) \/ RefreshRefused(s)
               \/ Expiry(s)
        PROVE  IInv'
    BY <2>1, BeginKeeps, NextPageKeeps, ProcessHandlersKeeps, ChecksKeep, ResolveRootKeeps
  <2>2. ASSUME NEW s \in Slots,
               \/ ResolveIndex(s) \/ ResolveUserIdentity(s) \/ ResolveSession(s)
               \/ ResolveSessionByToken(s) \/ VerifyIAMPolicy(s) \/ updateUserTargetResource(s)
               \/ ReadUser(s) \/ ReadRole(s) \/ Answer(s) \/ AssumedRole(s) \/ TrustDecision(s)
               \/ ClientAllowed(s)
        PROVE  IInv'
    BY <2>2, ResolveIndexKeeps, ResolveUserIdentityKeeps, ResolveSessionKeeps,
       ResolveSessionByTokenKeeps, VerifyIAMPolicyKeeps, UpdateUserTargetKeeps, ReadUserKeeps,
       AnswerKeeps, AssumedRoleKeeps, LooksKeep
  <2>3. ASSUME NEW s \in Slots,
               \/ StoreLock(s) \/ StoreWrite(s) \/ StoreRefused(s) \/ StoreFails(s)
               \/ forceRefreshJWKSCache(s) \/ cachedJWKS(s)
        PROVE  IInv'
    BY <2>3, StoreLockKeeps, StoreWriteKeeps, StoreGivenUpKeeps, JoinKeeps
  <2> QED BY <2>1, <2>2, <2>3, FetchKeeps, MigrateReadKeeps, MigrateWriteKeeps, OthersKeep DEF Next
<1> QED BY <1>1, InitSound, PTL DEF Spec

\* The indexes of a whole document say the same as its users and roles.
LEMMA IndexSound ==
  ASSUME IInv PROVE IndexConsistent
<1> DEFINE c == normalizeIAMConfig(file.conf)
<1>1. Whole(c)
  BY Normalized DEF IInv, FileSound
<1> HIDE DEF c
<1>2. DOMAIN c.users \subseteq Names /\ DOMAIN c.roles \subseteq Names /\ "" \notin Names
  BY <1>1, Parts DEF NamesSound, Names
<1>3. ASSUME NEW n \in DOMAIN c.users PROVE lookupUser(c, Fold(n)) = n
  <2>1. Fold(Fold(n)) = Fold(n)
    BY <1>2, ConfigAssumption
  <2>2. /\ Fold(n) \in DOMAIN c.userIndex /\ c.userIndex[Fold(n)] \in DOMAIN c.users
        /\ c.userIndex[Fold(n)] = n
    BY <1>1, Parts DEF Whole, NamesSound
  <2> QED BY <2>1, <2>2 DEF lookupUser
<1>4. ASSUME NEW n \in DOMAIN c.roles PROVE lookupRole(c, Fold(n)) = n
  <2>1. Fold(Fold(n)) = Fold(n)
    BY <1>2, ConfigAssumption
  <2>2. /\ Fold(n) \in DOMAIN c.roleIndex /\ c.roleIndex[Fold(n)] \in DOMAIN c.roles
        /\ c.roleIndex[Fold(n)] = n
    BY <1>1, Parts DEF Whole, NamesSound
  <2> QED BY <2>1, <2>2 DEF lookupRole
<1>5. KeysSound(c)
  BY <1>1, Parts
<1>6. \A n \in DOMAIN c.users : \A k \in DOMAIN c.users[n].keys : ownerOf(c, k) = n
  BY <1>5 DEF KeysSound, ownerOf
<1>7. \A k \in DOMAIN c.keyIndex : ownerOf(c, k) # ""
  BY <1>2, <1>5 DEF KeysSound, ownerOf
<1>8. /\ \A i \in DOMAIN c.userIndex : c.userIndex[i] \in DOMAIN c.users
      /\ \A m, n \in DOMAIN c.users : m # n => c.users[m].id # c.users[n].id
  BY <1>1, Parts DEF NamesSound
<1> QED BY <1>3, <1>4, <1>6, <1>7, <1>8 DEF IndexConsistent, c

\* The limits of a sound document.
LEMMA LimitsSound ==
  ASSUME IInv PROVE LimitsHold
<1> DEFINE c == file.conf
<1>1. Sound(c)
  BY DEF IInv, FileSound
<1>2. \A n \in DOMAIN c.users : Cardinality(DOMAIN c.users[n].keys) <= MaxKeys
  BY <1>1 DEF Sound, UserSound
<1>3. \A p \in DOMAIN c.providers : Cardinality(c.providers[p].clients) <= MaxClients
  BY <1>1 DEF Sound, ProviderSound
<1>4. ASSUME NEW arn PROVE activeSessionCountForRole(c, arn) <= MaxSessions
  <2> DEFINE S == {x \in DOMAIN c.sessions : c.sessions[x].arn = arn}
  <2>0. activeSessionCountForRole(c, arn) = Cardinality(S)
    BY DEF activeSessionCountForRole
  <2>1. CASE S = {}
    <3>1. Cardinality(S) = 0
      BY <2>1, FS_EmptySet
    <3> QED BY <2>0, <3>1, ConfigAssumption
  <2>2. CASE S # {}
    <3>1. PICK t \in DOMAIN c.sessions : c.sessions[t].arn = arn
      BY <2>2
    <3>2. SessionsSound(c.sessions)
      BY <1>1 DEF Sound
    <3>3. Cardinality({u \in DOMAIN c.sessions : c.sessions[u].arn = c.sessions[t].arn})
            <= MaxSessions
      BY <3>2 DEF SessionsSound
    <3> QED BY <3>1, <3>3 DEF activeSessionCountForRole
  <2> QED BY <2>1, <2>2
<1> QED BY <1>2, <1>3, <1>4 DEF LimitsHold

\* For every set of servers, clients and limits, the name and key indexes of the
\* store file agree with its users and roles and the limits hold, racing writers on
\* several servers, renames and the migration tool included (internal.go, common.go).
THEOREM StoreSound == Spec => []StoreConsistent
<1>1. IInv => StoreConsistent
  BY IndexSound, LimitsSound DEF StoreConsistent
<1> QED BY <1>1, InductiveInvariant, PTL

\* While all writers are on one server each write builds on the file as it is
\* (StoreIAM under the lock, engine.go): no update is lost.
THEOREM WritesSerial == Spec => [][UpdatesSerial]_vars
<1>1. IInv => UpdatesSerial
  BY DEF IInv, ReadCurrent, UpdatesSerial, Stores, Holds
<1> QED BY <1>1, InductiveInvariant, PTL

-----------------------------------------------------------------------------
(* Names in the order of lists *)

\* The names of users and roles have places in the order of lists, each its own.
LEMMA Positions ==
  /\ \A n \in Names : Position(n) \in 1..Len(Order) /\ Order[Position(n)] = n
  /\ \A n \in Names : Position(n) \in Nat
  /\ \A m, n \in Names : Position(m) = Position(n) => m = n
<1>1. DOMAIN Order = 1..Len(Order) /\ Len(Order) \in Nat
  BY ConfigAssumption
<1>2. ASSUME NEW n \in Names
      PROVE  Position(n) \in 1..Len(Order) /\ Order[Position(n)] = n /\ Position(n) \in Nat
  <2>1. \E i \in DOMAIN Order : Order[i] = n
    BY DEF Names
  <2> QED BY <1>1, <2>1 DEF Position
<1> QED BY <1>2

\* Names are finitely many, so that a part of them can be counted; a part of a
\* part counts less.
LEMMA NamesCounted ==
  ASSUME NEW S \in SUBSET Names
  PROVE  /\ IsFiniteSet(S) /\ Cardinality(S) \in Nat
         /\ \A T \in SUBSET S : Cardinality(T) <= Cardinality(S) /\ Cardinality(T) \in Nat
<1>1. DOMAIN Order = 1..Len(Order) /\ Len(Order) \in Nat
  BY ConfigAssumption
<1>2. IsFiniteSet(1..Len(Order))
  BY <1>1, FS_Interval
<1> DEFINE R == {Order[i] : i \in 1..Len(Order)}
<1>3. IsFiniteSet(R)
  <2>1. Order \in [1..Len(Order) -> STRING]
    BY ConfigAssumption
  <2>2. Order \in [1..Len(Order) -> R]
    BY <2>1
  <2>3. \A t \in R : \E i \in 1..Len(Order) : Order[i] = t
    OBVIOUS
  <2> HIDE DEF R
  <2>4. Order \in Surjection(1..Len(Order), R)
    BY <2>2, <2>3, Zenon DEF Surjection
  <2> QED BY <1>2, <2>4, FS_Surjection
<1>4. Names \subseteq R
  BY <1>1 DEF Names
<1>5. IsFiniteSet(S)
  BY <1>3, <1>4, FS_Subset
<1>6. Cardinality(S) \in Nat
  BY <1>5, FS_CardinalityType
<1>7. ASSUME NEW T \in SUBSET S PROVE Cardinality(T) <= Cardinality(S) /\ Cardinality(T) \in Nat
  BY <1>5, FS_Subset, FS_CardinalityType
<1> QED BY <1>5, <1>6, <1>7

\* A set of natural numbers that is not empty has a least one: the next name
\* that a list is to show.
LEMMA LeastExists ==
  ASSUME NEW S \in SUBSET Nat, S # {} PROVE \E x \in S : \A y \in S : x <= y
<1>1. \E x \in S : \A y \in S : ~(<<y, x>> \in OpToRel(<, Nat))
  BY NatLessThanWellFounded, WFMin, Zenon
<1>2. ASSUME NEW x \in S, NEW y \in S, ~(<<y, x>> \in OpToRel(<, Nat)) PROVE x <= y
  <2>1. <<y, x>> \in Nat \X Nat
    OBVIOUS
  <2>2. ~(y < x)
    BY <1>2, <2>1, Zenon DEF OpToRel
  <2> QED BY <2>2
<1> QED BY <1>1, <1>2

\* A bounded one has a greatest: the last name of a page.
LEMMA GreatestExists ==
  ASSUME NEW m \in Nat, NEW S \in SUBSET (0..m), S # {} PROVE \E x \in S : \A y \in S : x >= y
<1> DEFINE T == {n \in Nat : \E x \in S : n = m - x}
<1>1. T # {}
  <2>1. PICK x : x \in S
    OBVIOUS
  <2>2. x \in 0..m /\ m - x \in Nat
    BY <2>1
  <2> QED BY <2>1, <2>2
<1>2. PICK t \in T : \A u \in T : t <= u
  BY <1>1, LeastExists
<1>3. PICK x \in S : t = m - x
  OBVIOUS
<1>4. ASSUME NEW y \in S PROVE x >= y
  <2>1. m - y \in T /\ x \in 0..m /\ y \in 0..m
    OBVIOUS
  <2>2. m - x <= m - y
    BY <1>2, <1>3, <2>1
  <2> QED BY <2>1, <2>2
<1> QED BY <1>4

\* The first and the last of a set of names.
LEMMA Extremes ==
  ASSUME NEW S \in SUBSET Names, S # {}
  PROVE  /\ \E n \in S : \A m \in S : Position(n) <= Position(m)
         /\ \E n \in S : \A m \in S : Position(m) <= Position(n)
<1> DEFINE P == {Position(n) : n \in S}
<1>1. P \in SUBSET (0..Len(Order)) /\ P \in SUBSET Nat /\ P # {} /\ Len(Order) \in Nat
  BY Positions, ConfigAssumption
<1>2. \E x \in P : \A y \in P : x <= y
  BY <1>1, LeastExists
<1>3. \E x \in P : \A y \in P : x >= y
  BY <1>1, GreatestExists
<1>4. \A x \in P, y \in P : x >= y => y <= x
  BY <1>1
<1> QED BY <1>2, <1>3, <1>4

\* Page: a page that is not the last has a name to go on from, and every name of the
\* list between the marker and that name; the last one has all that are left.
LEMMA PageRight ==
  ASSUME NEW S \in SUBSET Names, NEW marker, NEW max \in Nat
  PROVE  /\ Page(S, marker, max).truncated \in BOOLEAN
         /\ ~Page(S, marker, max).truncated => AfterMarker(S, marker) = Page(S, marker, max).names
         /\ Page(S, marker, max).truncated =>
              /\ Page(S, marker, max).marker \in Names
              /\ \A n \in AfterMarker(S, marker) :
                   Position(n) <= Position(Page(S, marker, max).marker) =>
                     n \in Page(S, marker, max).names
<1> DEFINE rest == AfterMarker(S, marker)
           page == FirstOf(rest, max)
           UpTo(n) == {m \in rest : Position(m) <= Position(n)}
<1>1. /\ Page(S, marker, max).truncated = (page # rest) /\ Page(S, marker, max).names = page
      /\ page # rest => Page(S, marker, max).marker = LastOf(page)
  BY DEF Page
<1>2. rest \in SUBSET Names
  BY DEF AfterMarker
<1>3. page = {n \in rest : max > 0 => Cardinality(UpTo(n)) <= max}
  BY DEF FirstOf
<1>4. ASSUME page # rest
      PROVE  /\ LastOf(page) \in page
             /\ \A n \in rest : Position(n) <= Position(LastOf(page)) => n \in page
  <2>1. max > 0 /\ rest # {}
    BY <1>3, <1>4
  <2>2. PICK f \in rest : \A m \in rest : Position(f) <= Position(m)
    BY <1>2, <2>1, Extremes
  <2>3. UpTo(f) = {f}
    <3>1. \A m \in UpTo(f) : Position(m) = Position(f)
      BY <1>2, <2>2, Positions
    <3> QED BY <1>2, <2>2, <3>1, Positions
  <2>4. Cardinality({f}) = 1
    BY FS_Singleton
  <2>5. f \in page
    BY <1>3, <2>1, <2>2, <2>3, <2>4
  <2>6. page \in SUBSET Names /\ page # {}
    BY <1>2, <1>3, <2>5
  <2>7. LastOf(page) \in page /\ \A m \in page : Position(m) <= Position(LastOf(page))
    BY <2>6, Extremes DEF LastOf
  <2> DEFINE l == LastOf(page)
  <2>8. ASSUME NEW n \in rest, Position(n) <= Position(l) PROVE n \in page
    <3>1. l \in rest /\ Cardinality(UpTo(l)) <= max
      BY <1>3, <2>1, <2>7
    <3>2. {Position(n), Position(l)} \subseteq Nat /\ \A m \in rest : Position(m) \in Nat
      BY <1>2, <3>1, Positions
    <3>3. UpTo(n) \in SUBSET UpTo(l) /\ UpTo(l) \in SUBSET Names
      BY <1>2, <2>8, <3>2
    <3>4. Cardinality(UpTo(n)) <= Cardinality(UpTo(l)) /\ Cardinality(UpTo(n)) \in Nat
          /\ Cardinality(UpTo(l)) \in Nat
      BY <3>3, NamesCounted
    <3> QED BY <1>3, <3>1, <3>4
  <2> QED BY <2>7, <2>8
<1> HIDE DEF page
<1>5. page \subseteq rest
  BY <1>3
<1> QED BY <1>1, <1>2, <1>4, <1>5

-----------------------------------------------------------------------------
(* What a step leaves alone *)

\* No request changes in the fields F.
Kept(F) == \A t \in Slots : \A f \in F : rq'[t][f] = rq[t][f]

\* What a list in pages has come to, who asks, and the keys that must not count for it.
ListFields == {"in", "answer", "listed", "through", "lostMarker"}
SteadyFields == ListFields \cup {"id"}
PlainFields == SteadyFields \cup {"dead"}

\* One request goes on with r.
LEMMA OneKeeps ==
  ASSUME IInv, NEW s \in Slots, NEW r, rq' = [rq EXCEPT ![s] = r], NEW F,
         \A f \in F : r[f] = rq[s][f]
  PROVE  Kept(F)
BY DEF IInv, Kept

\* A step that fails, or advances with r.
LEMMA StepKeeps ==
  ASSUME IInv, NEW s \in Slots, NEW r, NEW F \in SUBSET PlainFields,
         DOMAIN r = DOMAIN rq[s], \A f \in F : r[f] = rq[s][f], Fail(s) \/ Advance(s, r)
  PROVE  Kept(F)
<1>1. PlainFields \subseteq DOMAIN rq[s] /\ rq = [t \in Slots |-> rq[t]]
  BY RequestFields DEF IInv, PlainFields, SteadyFields, ListFields
<1>2. ASSUME Fail(s) PROVE Kept(F)
  <2> DEFINE q == [rq[s] EXCEPT !.status = "error", !.todo = <<>>]
  <2>1. rq' = [rq EXCEPT ![s] = q]
    BY <1>1, <1>2 DEF Fail
  <2>2. \A f \in F : q[f] = rq[s][f]
    BY <1>1 DEF PlainFields, SteadyFields, ListFields
  <2> HIDE DEF q
  <2> QED BY <2>1, <2>2, OneKeeps
<1>3. ASSUME Advance(s, r) PROVE Kept(F)
  <2> DEFINE q == [r EXCEPT !.todo = Tail(@)]
  <2>1. rq' = [rq EXCEPT ![s] = q]
    BY <1>3 DEF Advance
  <2>2. \A f \in F : q[f] = rq[s][f]
    BY <1>1 DEF PlainFields, SteadyFields, ListFields
  <2> HIDE DEF q
  <2> QED BY <2>1, <2>2, OneKeeps
<1> QED BY <1>2, <1>3

\* Steps that check or read something else.
LEMMA PlainKeeps ==
  ASSUME IInv, NEW s \in Slots,
         \/ Validate(s) \/ routeAction(s) \/ Caller(s) \/ FetchThumbprint(s) \/ ParsePolicy(s)
         \/ ParseTrust(s) \/ VerifyCached(s) \/ RefreshRefused(s) \/ Expiry(s)
         \/ ReadRole(s) \/ TrustDecision(s) \/ ClientAllowed(s)
  PROVE  Kept(PlainFields)
<1>1. Fail(s) \/ Advance(s, rq[s])
  BY DEF Validate, routeAction, Caller, FetchThumbprint, ParsePolicy, ParseTrust, VerifyCached,
     RefreshRefused, Expiry, ReadRole, TrustDecision, ClientAllowed, Reading
<1> QED BY <1>1, StepKeeps

\* Steps that keep what they have read, or were granted, for later.
LEMMA ReadsKeep ==
  ASSUME IInv, NEW s \in Slots,
         VerifyIAMPolicy(s) \/ updateUserTargetResource(s) \/ ReadUser(s) \/ AssumedRole(s)
  PROVE  Kept(PlainFields)
<1> DEFINE Same_(r) == DOMAIN r = DOMAIN rq[s] /\ \A f \in PlainFields : r[f] = rq[s][f]
<1>1. /\ \A g, b : Same_([rq[s] EXCEPT !.granted = g, !.basis = b])
      /\ \A g : Same_([rq[s] EXCEPT !.granted = g])
      /\ \A u : Same_([rq[s] EXCEPT !.user = u])
      /\ \A e : Same_([rq[s] EXCEPT !.role = e])
      /\ Same_(rq[s])
  BY DEF PlainFields, SteadyFields, ListFields
<1>2. \E r : Same_(r) /\ (Fail(s) \/ Advance(s, r))
  <2>1. CASE VerifyIAMPolicy(s)
    <3> DEFINE a == resourceForAction(Conf(At(s)), rq[s]).arn
               r == [rq[s] EXCEPT !.granted = @ \cup {a}, !.basis = ReadIAMData(At(s)).ver]
    <3>1. Fail(s) \/ Advance(s, r)
      BY <2>1 DEF VerifyIAMPolicy, Reading
    <3> HIDE DEF a
    <3>2. Same_(r)
      BY DEF PlainFields, SteadyFields, ListFields
    <3> QED BY <3>1, <3>2
  <2>2. CASE updateUserTargetResource(s)
    <3> DEFINE c == Conf(At(s))
               u == c.users[lookupUser(c, rq[s].in.on)]
               a == UserArn(IF rq[s].in.y = "" THEN u.path ELSE rq[s].in.y,
                            IF rq[s].in.x = "" THEN lookupUser(c, rq[s].in.on) ELSE rq[s].in.x)
               q == [rq[s] EXCEPT !.granted = @ \cup {a}]
               r == IF lookupUser(c, rq[s].in.on) # "" /\ (rq[s].in.x # "" \/ rq[s].in.y # "")
                    THEN q ELSE rq[s]
    <3>1. Fail(s) \/ Advance(s, r)
      BY <2>2 DEF updateUserTargetResource, Reading
    <3> HIDE DEF c, a
    <3>2. Same_(q) /\ Same_(rq[s])
      BY DEF PlainFields, SteadyFields, ListFields
    <3>3. Same_(r)
      BY <3>2
    <3> QED BY <3>1, <3>3
  <2>3. CASE ReadUser(s)
    <3> DEFINE u == [name |-> lookupUser(Conf(At(s)), rq[s].in.on),
                     path |-> Conf(At(s)).users[lookupUser(Conf(At(s)), rq[s].in.on)].path]
    <3>1. Fail(s) \/ Advance(s, [rq[s] EXCEPT !.user = u])
      BY <2>3 DEF ReadUser, Reading
    <3> QED BY <1>1, <3>1
  <2>4. CASE AssumedRole(s)
    <3> DEFINE c == Conf(At(s))
               n == lookupRole(c, rq[s].in.on)
               e == [name |-> n, id |-> c.roles[n].id, arn |-> c.roles[n].arn,
                     trust |-> c.roles[n].trust]
    <3>1. Fail(s) \/ Advance(s, [rq[s] EXCEPT !.role = e])
      BY <2>4 DEF AssumedRole, Reading
    <3> QED BY <1>1, <3>1
  <2> QED BY <2>1, <2>2, <2>3, <2>4
<1> HIDE DEF Same_
<1>3. PICK r : Same_(r) /\ (Fail(s) \/ Advance(s, r))
  BY <1>2
<1> QED BY <1>3, StepKeeps DEF Same_

\* Waiting for signing keys, and writing.
LEMMA WaitsKeep ==
  ASSUME IInv, \/ \E s \in Slots : forceRefreshJWKSCache(s) \/ cachedJWKS(s)
               \/ \E g \in Servers : fetchAndCacheJWKS(g) \/ FetchFails(g)
  PROVE  Kept(PlainFields)
<1>1. \A t \in Slots : PlainFields \subseteq DOMAIN rq[t]
  BY RequestFields DEF IInv, PlainFields, SteadyFields, ListFields
<1>2. \A t \in Slots : \/ rq'[t] = rq[t]
                        \/ \E forced \in BOOLEAN :
                             rq'[t] = [rq[t] EXCEPT !.wait = TRUE, !.tried = forced]
                        \/ rq'[t] = [rq[t] EXCEPT !.wait = FALSE]
                        \/ rq'[t] = [rq[t] EXCEPT !.wait = FALSE, !.todo = Tail(@)]
                        \/ rq'[t] = [rq[t] EXCEPT !.wait = FALSE, !.status = "error", !.todo = <<>>]
  <2>1. CASE \E s \in Slots : forceRefreshJWKSCache(s) \/ cachedJWKS(s)
    BY <2>1 DEF IInv, forceRefreshJWKSCache, cachedJWKS, Join
  <2>2. CASE \E g \in Servers : fetchAndCacheJWKS(g) \/ FetchFails(g)
    BY <2>2 DEF fetchAndCacheJWKS, FetchFails
  <2> QED BY <2>1, <2>2
<1>3. ASSUME NEW t \in Slots, NEW f \in PlainFields PROVE rq'[t][f] = rq[t][f]
  <2>1. f \in DOMAIN rq[t] /\ f \notin {"wait", "tried", "todo", "status"}
    BY <1>1 DEF PlainFields, SteadyFields, ListFields
  <2>2. CASE rq'[t] = rq[t]
    BY <2>2
  <2>3. CASE \E forced \in BOOLEAN : rq'[t] = [rq[t] EXCEPT !.wait = TRUE, !.tried = forced]
    BY <2>1, <2>3
  <2>4. CASE rq'[t] = [rq[t] EXCEPT !.wait = FALSE, !.todo = Tail(@)]
    BY <2>1, <2>4
  <2>5. CASE rq'[t] = [rq[t] EXCEPT !.wait = FALSE, !.status = "error", !.todo = <<>>]
    BY <2>1, <2>5
  <2>6. CASE rq'[t] = [rq[t] EXCEPT !.wait = FALSE]
    BY <2>1, <2>6
  <2> QED BY <1>2, <2>2, <2>3, <2>4, <2>5, <2>6
<1> QED BY <1>3 DEF Kept

\* The steps of a write that leave the file as it is.
LEMMA WritesKeep ==
  ASSUME IInv, \/ \E s \in Slots : StoreLock(s) \/ StoreRefused(s) \/ StoreFails(s)
               \/ Rotate \/ MigrateRead \/ Tick \/ UNCHANGED vars
  PROVE  Kept(PlainFields)
<1>1. /\ \A t \in Slots : PlainFields \subseteq DOMAIN rq[t] /\ RequestFits(rq[t])
      /\ rq = [t \in Slots |-> rq[t]]
  BY RequestFields DEF IInv, PlainFields, SteadyFields, ListFields
<1>2. ASSUME NEW s \in Slots, StoreLock(s) PROVE Kept(PlainFields)
  <2>1. CASE rq' = [rq EXCEPT ![s].raw = file]
    BY <1>1, <2>1 DEF Kept, PlainFields, SteadyFields, ListFields
  <2>2. CASE Fail(s) \/ Advance(s, rq[s])
    BY <2>2, StepKeeps
  <2> QED BY <1>2, <2>1, <2>2 DEF StoreLock
<1>4. ASSUME NEW s \in Slots, StoreRefused(s) \/ StoreFails(s) PROVE Kept(PlainFields)
  <2> DEFINE a == [[rq[s] EXCEPT !.raw = EmptyMap] EXCEPT !.todo = Tail(@)]
             b == [rq[s] EXCEPT !.try = @ + 1, !.raw = EmptyMap]
             e == [rq[s] EXCEPT !.status = "error", !.todo = <<>>, !.raw = EmptyMap]
  <2>1. \E q \in {a, b, e} : rq' = [rq EXCEPT ![s] = q]
    BY <1>1, <1>4 DEF StoreRefused, StoreFails, Advance
  <2>2. \A f \in PlainFields : a[f] = rq[s][f] /\ b[f] = rq[s][f] /\ e[f] = rq[s][f]
    BY <1>1 DEF PlainFields, SteadyFields, ListFields
  <2> HIDE DEF a, b, e
  <2>3. PICK q \in {a, b, e} : rq' = [rq EXCEPT ![s] = q]
    BY <2>1
  <2>4. \A f \in PlainFields : q[f] = rq[s][f]
    BY <2>2, <2>3
  <2> QED BY <2>3, <2>4, OneKeeps
<1>6. ASSUME Rotate \/ MigrateRead \/ Tick \/ UNCHANGED vars PROVE Kept(PlainFields)
  BY <1>6 DEF Rotate, MigrateRead, Tick, vars, Kept
<1> QED BY <1>2, <1>4, <1>6

\* The tool writes what it has converted, or leaves the file.
LEMMA Migrated ==
  ASSUME IInv, MigrateWrite
  PROVE  /\ rq' = [t \in Slots |-> [rq[t] EXCEPT !.dead = @ \ ActiveKeys(file'.conf)]]
         /\ off' = Delete(Over([k \in Revoked(file.conf, file'.conf) |->
                                  [by |-> "tool", at |-> now]], off), ActiveKeys(file'.conf))
<1> DEFINE new == Converted(Head(tool.todo), tool.read)
           skipped == Head(tool.todo) # "rewrap" /\ new = tool.read
           kept == IF skipped THEN file.conf ELSE new.conf
<1>1. /\ rq' = [t \in Slots |-> [rq[t] EXCEPT !.dead = @ \ ActiveKeys(kept)]]
      /\ off' = Delete(Over([k \in Revoked(file.conf, kept) |-> [by |-> "tool", at |-> now]], off),
                       ActiveKeys(kept))
      /\ file' = IF skipped THEN file ELSE [new EXCEPT !.ver = file.ver + 1]
  BY DEF MigrateWrite
<1>2. FileSound(tool.read) /\ FileSound(file)
  BY DEF IInv, MigrateWrite
<1>3. "conf" \in DOMAIN new
  BY <1>2 DEF Converted, FileSound
<1> HIDE DEF new
<1>4. file'.conf = kept
  BY <1>1, <1>3
<1> QED BY <1>1, <1>4

\* A step that replaces the file: a key that it makes active may count again.
LEMMA FileWritesKeep ==
  ASSUME IInv, (\E s \in Slots : StoreWrite(s)) \/ MigrateWrite
  PROVE  /\ Kept(SteadyFields)
         /\ \A t \in Slots : rq'[t].dead = rq[t].dead \ ActiveKeys(file'.conf)
<1>1. /\ \A t \in Slots : PlainFields \subseteq DOMAIN rq[t] /\ "raw" \in DOMAIN rq[t]
      /\ rq = [t \in Slots |-> rq[t]]
  BY RequestFields DEF IInv, PlainFields, SteadyFields, ListFields
<1> DEFINE live == ActiveKeys(file'.conf)
<1>2. ASSUME NEW s \in Slots, StoreWrite(s)
      PROVE  rq' = [t \in Slots |->
                      LET r == [rq[t] EXCEPT !.dead = @ \ live]
                      IN  IF t = s THEN [r EXCEPT !.todo = Tail(@), !.raw = EmptyMap, !.try = 1]
                          ELSE r]
  <2> DEFINE conf == Update(normalizeIAMConfig(rq[s].raw.conf), s, Op(s)).conf
  <2>1. file'.conf = conf
    BY <1>2 DEF StoreWrite
  <2> QED BY <1>2, <2>1 DEF StoreWrite
<1>3. ASSUME MigrateWrite PROVE rq' = [t \in Slots |-> [rq[t] EXCEPT !.dead = @ \ live]]
  BY <1>3, Migrated
<1> HIDE DEF live
<1>4. ASSUME NEW s \in Slots, StoreWrite(s)
      PROVE  Kept(SteadyFields) /\ \A t \in Slots : rq'[t].dead = rq[t].dead \ live
  <2>1. ASSUME NEW t \in Slots
        PROVE  rq'[t].dead = rq[t].dead \ live /\ \A f \in SteadyFields : rq'[t][f] = rq[t][f]
    <3> DEFINE r == [rq[t] EXCEPT !.dead = @ \ live]
               q == [r EXCEPT !.todo = Tail(@), !.raw = EmptyMap, !.try = 1]
    <3>1. rq'[t] = r \/ rq'[t] = q
      BY <1>2, <1>4
    <3>2. r.dead = rq[t].dead \ live /\ q.dead = r.dead
      BY <1>1 DEF PlainFields
    <3>3. \A f \in SteadyFields : r[f] = rq[t][f] /\ q[f] = rq[t][f]
      BY <1>1 DEF PlainFields, SteadyFields, ListFields
    <3> HIDE DEF r, q
    <3> QED BY <3>1, <3>2, <3>3
  <2> QED BY <2>1 DEF Kept
<1>5. ASSUME MigrateWrite
      PROVE  Kept(SteadyFields) /\ \A t \in Slots : rq'[t].dead = rq[t].dead \ live
  BY <1>1, <1>3, <1>5 DEF Kept, PlainFields, SteadyFields, ListFields
<1> QED BY <1>4, <1>5 DEF live

\* Finding out who asks changes no list.
LEMMA ResolvesKeep ==
  ASSUME IInv, NEW s \in Slots,
         \/ ResolveRoot(s) \/ ResolveIndex(s) \/ ResolveUserIdentity(s) \/ ResolveSession(s)
         \/ ResolveSessionByToken(s)
  PROVE  Kept(ListFields \cup {"dead"})
<1> DEFINE Same_(r) == /\ DOMAIN r = DOMAIN rq[s]
                       /\ \A f \in ListFields \cup {"dead"} : r[f] = rq[s][f]
<1>0. /\ ListFields \cup {"dead"} \subseteq DOMAIN rq[s]
      /\ ListFields \cup {"dead"} \in SUBSET PlainFields
  BY RequestFields DEF IInv, PlainFields, SteadyFields, ListFields
<1>1. \E r : Same_(r) /\ (Fail(s) \/ Advance(s, r))
  <2>1. CASE ResolveRoot(s)
    <3> DEFINE i == [Nobody EXCEPT !.kind = "root"]
               r == [rq[s] EXCEPT !.id = i]
    <3>1. Advance(s, r)
      BY <2>1 DEF ResolveRoot
    <3> HIDE DEF i
    <3>2. Same_(r)
      BY <1>0 DEF ListFields
    <3> HIDE DEF r
    <3> QED BY <3>1, <3>2
  <2>2. CASE ResolveIndex(s)
    <3> DEFINE n == Conf(At(s)).keyIndex[rq[s].in.cred]
               t == <<Head(rq[s].todo), Do("ResolveUser")>> \o Tail(rq[s].todo)
               r == [rq[s] EXCEPT !.name = n, !.todo = t]
    <3>1. Fail(s) \/ Advance(s, r)
      BY <2>2 DEF ResolveIndex, Reading
    <3> HIDE DEF n, t
    <3>2. Same_(r)
      BY <1>0 DEF ListFields
    <3> HIDE DEF r
    <3> QED BY <3>1, <3>2
  <2>3. CASE ResolveUserIdentity(s)
    <3> DEFINE u == Conf(At(s)).users[lookupUser(Conf(At(s)), rq[s].name)]
               i == [Nobody EXCEPT !.kind = "user", !.key = rq[s].in.cred, !.uid = u.id,
                       !.arn = u.arn, !.tags = u.tags,
                       !.docs = {Documents[d] : d \in Range(u.policies)}]
               t == <<Head(rq[s].todo)>> \o Store("RecordAccessKeyUsage") \o Tail(rq[s].todo)
               r == [rq[s] EXCEPT !.id = i, !.todo = t]
    <3>1. Fail(s) \/ Advance(s, r)
      BY <2>3 DEF ResolveUserIdentity, Reading
    <3> HIDE DEF i, t
    <3>2. Same_(r)
      BY <1>0 DEF ListFields
    <3> HIDE DEF r
    <3> QED BY <3>1, <3>2
  <2>4. CASE ResolveSession(s)
    <3> DEFINE k == rq[s].in.cred
               c == Conf(At(s))
               i == [Nobody EXCEPT !.kind = "session", !.key = k,
                       !.arn = c.sessions[k].arn, !.roleId = c.sessions[k].roleId,
                       !.sessionPolicy = {Documents[d] : d \in c.sessions[k].policy}]
               n == c.sessions[k].role
               t == <<Head(rq[s].todo), Do("ResolveRole")>> \o Tail(rq[s].todo)
               r == [rq[s] EXCEPT !.id = i, !.name = n, !.todo = t]
    <3>1. Fail(s) \/ Advance(s, r)
      BY <2>4 DEF ResolveSession, Reading
    <3> HIDE DEF i, n, t
    <3>2. Same_(r)
      BY <1>0 DEF ListFields
    <3> HIDE DEF r
    <3> QED BY <3>1, <3>2
  <2>5. CASE ResolveSessionByToken(s)
    <3> DEFINE c == Conf(At(s))
               n == lookupRole(c, rq[s].name)
               d == {Documents[x] : x \in Range(c.roles[n].policies)}
               q == [rq[s] EXCEPT !.id.docs = d, !.id.tags = c.roles[n].tags,
                                  !.id.fromRole = c.roles[n].id]
               r == IF n # "" /\ SameRole(c.roles[n], rq[s].id) THEN q ELSE rq[s]
    <3>1. Fail(s) \/ Advance(s, r) \/ Advance(s, rq[s])
      BY <2>5 DEF ResolveSessionByToken, Reading
    <3> HIDE DEF c, n, d
    <3>2. Same_(q) /\ Same_(rq[s])
      BY <1>0 DEF ListFields
    <3>3. Same_(r)
      BY <3>2
    <3> HIDE DEF r
    <3> QED BY <3>1, <3>2, <3>3
  <2> QED BY <2>1, <2>2, <2>3, <2>4, <2>5
<1>2. PICK r : Same_(r) /\ (Fail(s) \/ Advance(s, r))
  BY <1>1
<1> QED BY <1>0, <1>2, StepKeeps

-----------------------------------------------------------------------------
(* Lists in pages *)

\* A step writes the file, lets time pass, or does neither: then a cache is left, is
\* filled from the file or is dropped, and no key is revoked.
Drop(g) == cache' = [cache EXCEPT ![g] = [valid |-> FALSE, at |-> now, file |-> EmptyMap]]
Quiet == /\ UNCHANGED <<file, off, now>>
         /\ cache' = cache \/ \E g \in Servers : AfterRead(g) \/ Drop(g)

LEMMA StoreSteps ==
  ASSUME IInv, [Next]_vars
  PROVE  mix' = mix /\ (Quiet \/ Tick \/ MigrateWrite \/ \E s \in Slots : StoreWrite(s))
<1>1. \A s \in Slots : At(s) \in Servers
  BY ServerOf
<1>2. ASSUME NEW s \in Slots,
             \/ Begin(s) \/ NextPage(s) \/ ProcessHandlers(s) \/ Validate(s) \/ routeAction(s)
             \/ Caller(s) \/ FetchThumbprint(s) \/ ResolveRoot(s)
             \/ ParsePolicy(s) \/ ParseTrust(s) \/ VerifyCached(s) \/ RefreshRefused(s)
             \/ Expiry(s) \/ StoreLock(s) \/ StoreRefused(s)
             \/ forceRefreshJWKSCache(s) \/ cachedJWKS(s)
      PROVE  mix' = mix /\ Quiet
  BY <1>2 DEF Begin, NextPage, ProcessHandlers, Validate, routeAction, Caller, FetchThumbprint,
     ResolveRoot, ParsePolicy, ParseTrust, VerifyCached, RefreshRefused, Expiry, StoreLock,
     StoreRefused, forceRefreshJWKSCache, cachedJWKS, Local, store, history, Quiet
<1>3. ASSUME NEW s \in Slots,
             \/ ResolveIndex(s) \/ ResolveUserIdentity(s) \/ ResolveSession(s)
             \/ ResolveSessionByToken(s) \/ VerifyIAMPolicy(s) \/ updateUserTargetResource(s)
             \/ ReadUser(s) \/ ReadRole(s) \/ Answer(s) \/ AssumedRole(s) \/ TrustDecision(s)
             \/ ClientAllowed(s)
      PROVE  mix' = mix /\ Quiet
  <2>1. /\ UNCHANGED <<mix, file, now, history>>
        /\ cache' = cache \/ AfterRead(At(s))
    BY <1>3 DEF ResolveIndex, ResolveUserIdentity, ResolveSession, ResolveSessionByToken,
       VerifyIAMPolicy, updateUserTargetResource, ReadUser, ReadRole, Answer, AssumedRole,
       TrustDecision, ClientAllowed, Reading, Local, store
  <2> QED BY <1>1, <2>1 DEF Quiet, history
<1>4. ASSUME NEW s \in Slots, StoreFails(s) PROVE mix' = mix /\ Quiet
  BY <1>1, <1>4 DEF StoreFails, Quiet, Drop, history
<1>5. ASSUME \/ \E g \in Servers : fetchAndCacheJWKS(g) \/ FetchFails(g)
             \/ Rotate \/ MigrateRead \/ UNCHANGED vars
      PROVE  mix' = mix /\ Quiet
  BY <1>5 DEF fetchAndCacheJWKS, FetchFails, Rotate, MigrateRead, vars, store, history, Quiet
<1>6. ASSUME Tick \/ MigrateWrite \/ \E s \in Slots : StoreWrite(s) PROVE mix' = mix
  BY <1>6 DEF Tick, MigrateWrite, StoreWrite
<1> QED BY <1>2, <1>3, <1>4, <1>5, <1>6 DEF Next

\* What is cached stays sound: it is the file, or nothing.
LEMMA CachesStay ==
  ASSUME IInv, IInv', CachesSound, [Next]_vars PROVE CachesSound'
<1>1. /\ FileSound(file) /\ FileSound(file') /\ DOMAIN cache = Servers
      /\ \A s \in Slots : At(s) \in Servers
  BY ServerOf DEF IInv, CachesSound
<1>2. CASE Quiet
  BY <1>1, <1>2 DEF Quiet, CachesSound, AfterRead, Drop
<1>3. CASE Tick \/ MigrateWrite
  BY <1>1, <1>3 DEF Tick, MigrateWrite, CachesSound, store
<1>4. ASSUME NEW s \in Slots, StoreWrite(s) PROVE CachesSound'
  <2>1. cache' = [cache EXCEPT ![At(s)] = [valid |-> TRUE, at |-> now, file |-> file']]
    BY <1>4 DEF StoreWrite
  <2> QED BY <1>1, <2>1 DEF CachesSound
<1> QED BY <1>2, <1>3, <1>4, StoreSteps

\* The document that a server reads is whole.
LEMMA ConfWhole ==
  ASSUME IInv, CachesSound, NEW g \in Servers PROVE Whole(Conf(g))
<1>1. Sound(ReadIAMData(g).conf)
  BY DEF IInv, CachesSound, ReadIAMData, cachedPlaintext, FileSound
<1> QED BY <1>1, Normalized DEF Conf

\* A list that stays as it was.
LEMMA ListsStay ==
  ASSUME Kept(ListFields), NEW s \in Slots, PagesFit(rq[s]) PROVE PagesFit(rq'[s])
<1>1. /\ rq'[s].in = rq[s].in /\ rq'[s].answer = rq[s].answer /\ rq'[s].listed = rq[s].listed
      /\ rq'[s].through = rq[s].through /\ rq'[s].lostMarker = rq[s].lostMarker
  BY DEF Kept, ListFields
<1> QED BY <1>1 DEF PagesFit

\* Of two places one is not after the other.
LEMMA Compared == \A i, j \in Nat : i <= j \/ i > j
OBVIOUS

\* A page goes on where the one before it ended: L has been listed, and T is who
\* was there all the time.
LEMMA PageGoesOn ==
  ASSUME NEW S \in SUBSET Names, NEW m, m = "" \/ m \in S, NEW y \in Nat, NEW T \in SUBSET S, NEW L,
         m # "" => ListedUpTo(T, L, m), NEW p, p = Page(S, m, y)
  PROVE  /\ p.truncated => p.marker # "" /\ ListedUpTo(T, L \cup p.names, p.marker)
         /\ ~p.truncated => T \subseteq L \cup p.names
<1>1. ASSUME NEW n \in T PROVE n \in AfterMarker(S, m) \/ n \in L
  <2>1. CASE m = ""
    BY <2>1 DEF AfterMarker
  <2>2. CASE m # ""
    <3>1. n \in S /\ m \in S /\ Position(n) \in Nat /\ Position(m) \in Nat
      BY <2>2, Positions
    <3>2. CASE Position(n) <= Position(m)
      BY <2>2, <3>2 DEF ListedUpTo
    <3>3. CASE Position(n) > Position(m)
      BY <3>1, <3>3 DEF AfterMarker
    <3> QED BY <3>1, <3>2, <3>3, Compared, Zenon
  <2> QED BY <2>1, <2>2
<1>2. /\ ~p.truncated => AfterMarker(S, m) = p.names
      /\ p.truncated => /\ p.marker \in Names
                        /\ \A n \in AfterMarker(S, m) :
                             Position(n) <= Position(p.marker) => n \in p.names
  BY PageRight
<1>3. "" \notin Names
  BY DEF Names
<1> QED BY <1>1, <1>2, <1>3 DEF ListedUpTo

\* Answer: so the list is as it should be after it.
LEMMA PageFits ==
  ASSUME NEW r, NEW q, PagesFit(r), NEW S \in SUBSET Names, r.in.y \in Nat,
         r.in.op \in {"ListUsers", "ListRoles"}, q.answer = Page(S, r.in.marker, r.in.y),
         q.in = r.in, q.listed = r.listed \cup q.answer.names,
         q.through = IF r.in.marker = "" THEN S ELSE r.through \cap S,
         q.lostMarker <=> (r.lostMarker \/ (r.in.marker # "" /\ r.in.marker \notin S))
  PROVE  PagesFit(q)
<1> SUFFICES ASSUME ~q.lostMarker
             PROVE  /\ r.in.marker # "" => ListedUpTo(q.through, q.listed, r.in.marker)
                    /\ q.answer.truncated =>
                         q.answer.marker # "" /\ ListedUpTo(q.through, q.listed, q.answer.marker)
                    /\ ~q.answer.truncated => q.through \subseteq q.listed
  BY DEF PagesFit
<1> DEFINE m == r.in.marker
           y == r.in.y
<1>1. ~r.lostMarker /\ (m = "" \/ m \in S) /\ q.through \in SUBSET S /\ y \in Nat
  OBVIOUS
<1>2. m # "" => ListedUpTo(r.through, r.listed, m) /\ q.through \subseteq r.through
  BY <1>1 DEF PagesFit
<1>3. m # "" => ListedUpTo(q.through, r.listed, m) /\ ListedUpTo(q.through, q.listed, m)
  BY <1>2 DEF ListedUpTo
<1> DEFINE p == q.answer
           T == q.through
           L == r.listed
<1>4. /\ p = Page(S, m, y) /\ T \in SUBSET S /\ q.listed = L \cup p.names
      /\ m # "" => ListedUpTo(T, L, m)
  BY <1>1, <1>3
<1> HIDE DEF m, y, p, T, L
<1>5. /\ p.truncated => p.marker # "" /\ ListedUpTo(T, L \cup p.names, p.marker)
      /\ ~p.truncated => T \subseteq L \cup p.names
  BY <1>1, <1>4, PageGoesOn
<1> QED BY <1>3, <1>4, <1>5 DEF m, p, T

\* Begin, NextPage and Answer: the steps that change what a list has come to.
LEMMA BeginLists ==
  ASSUME IInv, ListInv, NEW s \in Slots, Begin(s) PROVE \A t \in Slots : PagesFit(rq'[t])
<1>1. PICK in, d : rq' = [rq EXCEPT ![s] = [Idle EXCEPT !.status = "run", !.in = in,
                                              !.todo = dispatch(in), !.dead = d]]
  BY DEF Begin
<1> DEFINE r == [Idle EXCEPT !.status = "run", !.in = in, !.todo = dispatch(in), !.dead = d]
<1>2. /\ r.through = {} /\ ~r.answer.truncated
  BY DEF Idle
<1>3. PagesFit(r)
  BY <1>2 DEF PagesFit, ListedUpTo
<1> HIDE DEF r
<1>4. rq' = [rq EXCEPT ![s] = r] /\ rq = [t \in Slots |-> rq[t]]
  BY <1>1 DEF r, IInv
<1> QED BY <1>3, <1>4 DEF ListInv

LEMMA NextPageLists ==
  ASSUME IInv, ListInv, NEW s \in Slots, NextPage(s) PROVE \A t \in Slots : PagesFit(rq'[t])
<1> DEFINE m == rq[s].answer.marker
           in == [rq[s].in EXCEPT !.marker = m]
           r == [rq[s] EXCEPT !.status = "run", !.todo = dispatch(rq[s].in), !.in = in]
<1>1. /\ RequestFits(rq[s]) /\ rq = [t \in Slots |-> rq[t]] /\ rq[s].answer.truncated
      /\ PagesFit(rq[s])
  BY DEF IInv, ListInv, NextPage
<1>2. "marker" \in DOMAIN rq[s].in /\ "in" \in DOMAIN rq[s]
  BY <1>1, RequestFields DEF RequestFits, InputFits
<1>3. rq' = [rq EXCEPT ![s] = r]
  BY <1>1, <1>2 DEF NextPage
<1>4. /\ r.in.op = rq[s].in.op /\ r.in.marker = m /\ r.answer = rq[s].answer
      /\ r.listed = rq[s].listed /\ r.through = rq[s].through /\ r.lostMarker = rq[s].lostMarker
  <2>1. in.op = rq[s].in.op /\ in.marker = m
    BY <1>1, <1>2 DEF RequestFits, InputFits
  <2> HIDE DEF in, m
  <2>2. /\ r.in = in /\ r.answer = rq[s].answer /\ r.listed = rq[s].listed
        /\ r.through = rq[s].through /\ r.lostMarker = rq[s].lostMarker
    BY <1>1, RequestFields
  <2> QED BY <2>1, <2>2
<1> HIDE DEF r
<1>5. PagesFit(r)
  BY <1>1, <1>4 DEF PagesFit
<1> QED BY <1>1, <1>3, <1>5 DEF ListInv

LEMMA AnswerLists ==
  ASSUME IInv, ListInv, NEW s \in Slots, Answer(s) PROVE \A t \in Slots : PagesFit(rq'[t])
<1> DEFINE c == Conf(At(s))
           op == Op(s)
           in == rq[s].in
           page == Listing(c, op, in)
           all == Listed(c, op, in)
           l == rq[s].listed \cup page.names
           h == IF in.marker = "" THEN all ELSE rq[s].through \cap all
           k == rq[s].lostMarker \/ (in.marker # "" /\ in.marker \notin all)
           r == [rq[s] EXCEPT !.answer = page, !.listed = l, !.through = h, !.lostMarker = k]
           q == [r EXCEPT !.todo = Tail(@)]
<1>1. Next_(s, "Read") /\ (Fail(s) \/ Advance(s, r))
  BY DEF Answer, Reading
<1>2. /\ RequestFits(rq[s]) /\ rq = [t \in Slots |-> rq[t]]
      /\ \A t \in Slots : PagesFit(rq[t])
  BY DEF IInv, ListInv
<1>3. CASE Fail(s)
  <2>1. Kept(ListFields)
    BY <1>3, StepKeeps DEF PlainFields, SteadyFields
  <2> QED BY <1>2, <2>1, ListsStay
<1>4. CASE Advance(s, r)
  <2>1. rq' = [rq EXCEPT ![s] = q]
    BY <1>4 DEF Advance
  <2>2. op = in.op
    <3>1. rq[s].todo \in Seq(Steps(in.op)) /\ rq[s].todo # <<>> /\ Head(rq[s].todo).do = "Read"
      BY <1>1, <1>2 DEF RequestFits, Next_
    <3>2. Head(rq[s].todo) \in Steps(in.op)
      BY <3>1
    <3> QED BY <3>1, <3>2 DEF Steps, Checks, Op
  <2>3. InputFits(in) /\ Whole(c)
    BY <1>2, ConfWhole, ServerOf DEF RequestFits, ListInv
  <2>4. DOMAIN c.users \subseteq Names /\ DOMAIN c.roles \subseteq Names
    BY <2>3, Parts DEF NamesSound
  <2>5. ASSUME in.op \in {"ListUsers", "ListRoles"}
        PROVE  all \in SUBSET Names /\ page = Page(all, in.marker, in.y) /\ in.y \in Nat
    <3>1. in.y \in Nat
      BY <2>3, <2>5 DEF InputFits
    <3>2. CASE in.op = "ListUsers"
      <4>1. all = Under(c.users, in.x) /\ page = ListUsers(c, in.x, in.marker, in.y)
        BY <2>2, <3>2 DEF Listed, Listing
      <4> QED BY <2>4, <3>1, <4>1 DEF ListUsers, Under
    <3>3. CASE in.op = "ListRoles"
      <4>1. all = Under(c.roles, in.x) /\ page = ListRoles(c, in.x, in.marker, in.y)
        BY <2>2, <3>3 DEF Listed, Listing
      <4> QED BY <2>4, <3>1, <4>1 DEF ListRoles, Under
    <3> QED BY <2>5, <3>2, <3>3
  <2> HIDE DEF c, op, page, all, h, l, k
  <2>6. /\ q.answer = page /\ q.listed = l /\ q.through = h /\ q.lostMarker = k /\ q.in = in
    BY <1>2, RequestFields
  <2> HIDE DEF q
  <2>7. PagesFit(q)
    <3>1. CASE in.op \notin {"ListUsers", "ListRoles"}
      BY <2>6, <3>1 DEF PagesFit
    <3>2. CASE in.op \in {"ListUsers", "ListRoles"}
      <4>1. /\ q.answer = Page(all, in.marker, in.y) /\ q.listed = rq[s].listed \cup q.answer.names
            /\ q.through = IF in.marker = "" THEN all ELSE rq[s].through \cap all
            /\ q.lostMarker <=> (rq[s].lostMarker \/ (in.marker # "" /\ in.marker \notin all))
        BY <2>5, <2>6, <3>2 DEF l, h, k
      <4> QED BY <1>2, <2>5, <2>6, <3>2, <4>1, PageFits
    <3> QED BY <3>1, <3>2
  <2> QED BY <1>2, <2>1, <2>7
<1> QED BY <1>1, <1>3, <1>4

\* Every other step leaves the lists alone.
LEMMA ListInvNext ==
  ASSUME IInv, IInv', ListInv, [Next]_vars PROVE ListInv'
<1>1. CachesSound'
  BY CachesStay DEF ListInv
<1>2. ASSUME Kept(ListFields) PROVE \A t \in Slots : PagesFit(rq'[t])
  BY <1>2, ListsStay DEF ListInv
<1>3. ASSUME Kept(PlainFields) \/ Kept(SteadyFields) \/ Kept(ListFields \cup {"dead"})
      PROVE  Kept(ListFields)
  BY <1>3 DEF Kept, PlainFields, SteadyFields
<1>4. ASSUME NEW s \in Slots, ProcessHandlers(s) PROVE Kept(PlainFields)
  <2> DEFINE r == [rq[s] EXCEPT !.status = "ok"]
  <2>1. rq' = [rq EXCEPT ![s] = r] /\ PlainFields \subseteq DOMAIN rq[s]
    BY <1>4, RequestFields DEF ProcessHandlers, IInv, PlainFields, SteadyFields, ListFields
  <2>2. \A f \in PlainFields : r[f] = rq[s][f]
    BY <2>1 DEF PlainFields, SteadyFields, ListFields
  <2> HIDE DEF r
  <2> QED BY <2>1, <2>2, OneKeeps
<1>5. ASSUME NEW s \in Slots,
             \/ Begin(s) \/ NextPage(s) \/ ProcessHandlers(s) \/ Validate(s) \/ routeAction(s)
             \/ Caller(s) \/ FetchThumbprint(s) \/ ResolveRoot(s) \/ ResolveIndex(s)
             \/ ResolveUserIdentity(s) \/ ResolveSession(s) \/ ResolveSessionByToken(s)
             \/ ParsePolicy(s) \/ ParseTrust(s) \/ VerifyCached(s) \/ RefreshRefused(s)
             \/ Expiry(s)
      PROVE  \A t \in Slots : PagesFit(rq'[t])
  BY <1>2, <1>3, <1>4, <1>5, BeginLists, NextPageLists, PlainKeeps, ResolvesKeep
<1>6. ASSUME NEW s \in Slots,
             \/ VerifyIAMPolicy(s) \/ updateUserTargetResource(s) \/ ReadUser(s) \/ ReadRole(s)
             \/ Answer(s) \/ StoreLock(s) \/ StoreWrite(s) \/ StoreRefused(s) \/ StoreFails(s)
             \/ AssumedRole(s) \/ TrustDecision(s) \/ ClientAllowed(s)
             \/ forceRefreshJWKSCache(s) \/ cachedJWKS(s)
      PROVE  \A t \in Slots : PagesFit(rq'[t])
  BY <1>2, <1>3, <1>6, AnswerLists, ReadsKeep, PlainKeeps, WritesKeep, FileWritesKeep,
     WaitsKeep
<1>7. ASSUME \/ \E g \in Servers : fetchAndCacheJWKS(g) \/ FetchFails(g)
             \/ Rotate \/ MigrateRead \/ MigrateWrite \/ Tick \/ UNCHANGED vars
      PROVE  \A t \in Slots : PagesFit(rq'[t])
  BY <1>2, <1>3, <1>7, WritesKeep, FileWritesKeep, WaitsKeep
<1>8. \A t \in Slots : PagesFit(rq'[t])
  BY <1>5, <1>6, <1>7 DEF Next
<1>9. (\A t \in Slots : PagesFit(rq[t]))'
  BY <1>8
<1> QED BY <1>1, <1>9 DEF ListInv

\* A list of users or roles that is read in pages to its end names everyone who was
\* there all the time (ListUsers, ListRoles, internal.go:254), for every page size,
\* path, order of names and other requests.
THEOREM ListsComplete == Spec => []ListComplete
<1>1. Init => ListInv
  <2> SUFFICES ASSUME Init PROVE ListInv
    OBVIOUS
  <2>1. CachesSound
    BY DEF Init, CachesSound
  <2>2. /\ Idle.through = {} /\ Idle.answer.truncated = FALSE
    BY DEF Idle
  <2>3. PagesFit(Idle)
    BY <2>2 DEF PagesFit, ListedUpTo
  <2>4. \A t \in Slots : rq[t] = Idle
    BY DEF Init
  <2> QED BY <2>1, <2>3, <2>4 DEF ListInv
<1>2. IInv /\ IInv' /\ ListInv /\ [Next]_vars => ListInv'
  BY ListInvNext
<1>3. ListInv => ListComplete
  BY DEF ListInv, PagesFit, ListComplete
<1> QED BY <1>1, <1>2, <1>3, InductiveInvariant, PTL DEF Spec

-----------------------------------------------------------------------------
(* Revoked keys *)

\* A write by b, which may fill a cache with what it writes.
LEMMA WriteRevokes ==
  ASSUME KeysGone, NEW b, now' = now,
         off' = Delete(Over([k \in Revoked(file.conf, file'.conf) |-> [by |-> b, at |-> now]], off),
                       ActiveKeys(file'.conf)),
         \A g \in Servers : \/ b # g /\ cache'[g] = cache[g]
                            \/ cache'[g].at = now /\ cache'[g].file.conf = file'.conf
  PROVE  KeysGone' /\ \A g : Dead(g) \ ActiveKeys(file'.conf) \subseteq Dead(g)'
<1> DEFINE R == Revoked(file.conf, file'.conf)
           live == ActiveKeys(file'.conf)
           e == [by |-> b, at |-> now]
           f == [k \in R |-> e]
<1>1. off' = Delete(Over(f, off), live)
  OBVIOUS
<1>2. R \cap DOMAIN off = {}
  BY DEF KeysGone, Revoked
<1>3. e.by = b /\ e.at = now /\ DOMAIN e = {"by", "at"}
  OBVIOUS
<1> HIDE DEF R, live, e
<1>4. DOMAIN f = R /\ \A k \in R : f[k] = e
  OBVIOUS
<1> HIDE DEF f
<1>5. /\ DOMAIN off' = (R \cup DOMAIN off) \ live
      /\ \A k \in DOMAIN off' : off'[k] = IF k \in R THEN e ELSE off[k]
  <2>1. /\ DOMAIN off' = (DOMAIN f \cup DOMAIN off) \ live
        /\ \A k \in DOMAIN off' : off'[k] = IF k \in DOMAIN f THEN f[k] ELSE off[k]
    BY ONLY <1>1 DEF Delete, Over, Restrict
  <2> QED BY <1>4, <2>1
<1>6. \A k \in DOMAIN off' : \/ k \in R /\ off'[k].by = b /\ off'[k].at = now
                             \/ k \in DOMAIN off /\ off'[k] = off[k]
  BY <1>5, <1>3
<1>7. \A k \in DOMAIN off' : {"by", "at"} \subseteq DOMAIN off'[k] /\ off'[k].at \in 0..now
  BY <1>5, <1>3 DEF KeysGone
<1>8. now \in Nat /\ \A g \in Servers : cache'[g].at \in 0..now
  BY DEF KeysGone
<1>9. \A k \in DOMAIN off' : k \notin live
  BY <1>5
<1>10. \A g \in Servers : b # g => Dead(g)' \subseteq Dead(g)
  BY <1>6, <1>8 DEF Dead
<1>11. ASSUME NEW g \in Servers, cachedPlaintext(g)'
      PROVE  Dead(g)' \cap ActiveKeys(cache'[g].file.conf) = {}
  <2>1. CASE b # g /\ cache'[g] = cache[g]
    <3>1. cachedPlaintext(g)
      BY <1>11, <2>1 DEF cachedPlaintext
    <3> QED BY <1>10, <2>1, <3>1 DEF KeysGone
  <2>2. CASE cache'[g].file.conf = file'.conf
    <3>1. Dead(g)' \subseteq DOMAIN off'
      BY DEF Dead
    <3> QED BY <1>9, <2>2, <3>1 DEF live
  <2> QED BY <2>1, <2>2
<1>12. ASSUME NEW g PROVE Dead(g) \ live \subseteq Dead(g)'
  BY <1>5, <1>2, <1>6 DEF Dead
<1> QED BY <1>7, <1>8, <1>9, <1>11, <1>12 DEF KeysGone, live

\* Every step keeps it so; a key may count again only when a write makes it active.
LEMMA KeysGoneStep ==
  ASSUME IInv, KeysGone, DOMAIN cache = Servers, [Next]_vars
  PROVE  /\ KeysGone'
         /\ \/ \A g : Dead(g) \subseteq Dead(g)'
            \/ /\ MigrateWrite \/ \E s \in Slots : StoreWrite(s)
               /\ \A g : Dead(g) \ ActiveKeys(file'.conf) \subseteq Dead(g)'
<1>1. CASE Quiet
  <2>1. \A g : Dead(g)' = Dead(g)
    BY <1>1 DEF Quiet, Dead
  <2>2. /\ UNCHANGED <<file, off, now>> /\ now \in Nat
        /\ \A g \in Servers : Dead(g) \cap ActiveKeys(file.conf) = {}
    BY <1>1 DEF Quiet, KeysGone, Dead
  <2>3. ASSUME NEW g \in Servers
        PROVE  /\ cache'[g].at \in 0..now
               /\ cachedPlaintext(g)' => Dead(g) \cap ActiveKeys(cache'[g].file.conf) = {}
    <3>1. CASE cache'[g] = cache[g]
      BY <2>2, <3>1 DEF KeysGone, cachedPlaintext
    <3>2. CASE cache'[g] = [valid |-> TRUE, at |-> now, file |-> file]
      BY <2>2, <3>2
    <3>3. CASE cache'[g] = [valid |-> FALSE, at |-> now, file |-> EmptyMap]
      BY <2>2, <3>3 DEF cachedPlaintext
    <3> QED BY <1>1, <3>1, <3>2, <3>3 DEF Quiet, AfterRead, Drop
  <2> QED BY <2>1, <2>2, <2>3 DEF KeysGone
<1>2. CASE Tick
  <2>1. UNCHANGED <<file, off, cache>> /\ now' = now + 1 /\ now \in Nat
    BY <1>2 DEF Tick, store, history, KeysGone
  <2>2. \A g \in Servers : ~cachedPlaintext(g)'
    BY <2>1 DEF KeysGone, cachedPlaintext
  <2>3. \A g : Dead(g) \subseteq Dead(g)'
    BY <2>1 DEF KeysGone, Dead
  <2> QED BY <2>1, <2>2, <2>3 DEF KeysGone
<1>3. CASE MigrateWrite
  <2>1. /\ UNCHANGED <<now, cache>>
        /\ off' = Delete(Over([k \in Revoked(file.conf, file'.conf) |->
                                 [by |-> "tool", at |-> now]], off), ActiveKeys(file'.conf))
    BY <1>3, Migrated DEF MigrateWrite
  <2>2. \A g \in Servers : "tool" # g
    BY FreeAssumption
  <2> QED BY <1>3, <2>1, <2>2, WriteRevokes
<1>4. ASSUME NEW s \in Slots, StoreWrite(s)
      PROVE  KeysGone' /\ \A g : Dead(g) \ ActiveKeys(file'.conf) \subseteq Dead(g)'
  <2>1. /\ now' = now /\ file'.conf = Update(normalizeIAMConfig(rq[s].raw.conf), s, Op(s)).conf
        /\ cache' = [cache EXCEPT ![At(s)] = [valid |-> TRUE, at |-> now, file |-> file']]
        /\ Noted(s, file'.conf)
    BY <1>4 DEF StoreWrite
  <2>2. \A g \in Servers : \/ At(s) # g /\ cache'[g] = cache[g]
                           \/ cache'[g].at = now /\ cache'[g].file.conf = file'.conf
    BY <2>1
  <2> QED BY <2>1, <2>2, WriteRevokes DEF Noted
<1> QED BY <1>1, <1>2, <1>3, <1>4, StoreSteps

-----------------------------------------------------------------------------
(* Who asks *)

\* Begin, NextPage, Answer and the end of a request.
LEMMA BeginIdentity ==
  ASSUME IInv, NEW s \in Slots, Begin(s)
  PROVE  /\ \A t \in Slots \ {s} : rq'[t] = rq[t]
         /\ rq'[s].id = Nobody /\ rq'[s].dead = Dead(At(s))
<1>1. PICK in : rq' = [rq EXCEPT ![s] = [Idle EXCEPT !.status = "run", !.in = in,
                                           !.todo = dispatch(in), !.dead = Dead(At(s))]]
  BY DEF Begin
<1> DEFINE d == Dead(At(s))
           r == [Idle EXCEPT !.status = "run", !.in = in, !.todo = dispatch(in), !.dead = d]
<1> HIDE DEF d
<1>2. r.id = Nobody /\ r.dead = d
  BY DEF Idle
<1> HIDE DEF r
<1>3. rq' = [rq EXCEPT ![s] = r] /\ rq = [t \in Slots |-> rq[t]]
  BY <1>1 DEF r, d, IInv
<1> QED BY <1>2, <1>3 DEF d

LEMMA OthersKeepId ==
  ASSUME IInv, NEW s \in Slots, NextPage(s) \/ Answer(s) \/ ProcessHandlers(s)
  PROVE  Kept({"id", "dead"})
<1>1. /\ RequestFits(rq[s]) /\ rq = [t \in Slots |-> rq[t]] /\ {"id", "dead"} \in SUBSET PlainFields
      /\ {"id", "dead"} \subseteq DOMAIN rq[s]
  BY RequestFields DEF IInv, PlainFields, SteadyFields
<1>2. ASSUME NextPage(s) PROVE Kept({"id", "dead"})
  <2> DEFINE m == rq[s].answer.marker
             in == [rq[s].in EXCEPT !.marker = m]
             r == [rq[s] EXCEPT !.status = "run", !.todo = dispatch(rq[s].in), !.in = in]
  <2>1. "marker" \in DOMAIN rq[s].in /\ "in" \in DOMAIN rq[s]
    BY <1>1, RequestFields DEF RequestFits, InputFits
  <2>2. rq' = [rq EXCEPT ![s] = r]
    BY <1>1, <1>2, <2>1 DEF NextPage
  <2> HIDE DEF in
  <2>3. \A f \in {"id", "dead"} : r[f] = rq[s][f]
    BY <1>1
  <2> HIDE DEF r
  <2> QED BY <2>2, <2>3, OneKeeps
<1>3. ASSUME Answer(s) PROVE Kept({"id", "dead"})
  <2>1. PICK p, l, h, k : Fail(s) \/ Advance(s, [rq[s] EXCEPT !.answer = p, !.listed = l,
                                                     !.through = h, !.lostMarker = k])
    BY <1>3 DEF Answer, Reading
  <2> DEFINE r == [rq[s] EXCEPT !.answer = p, !.listed = l, !.through = h, !.lostMarker = k]
  <2>2. DOMAIN r = DOMAIN rq[s] /\ \A f \in {"id", "dead"} : r[f] = rq[s][f]
    BY <1>1
  <2> HIDE DEF r
  <2> QED BY <1>1, <2>1, <2>2, StepKeeps DEF r
<1>4. ASSUME ProcessHandlers(s) PROVE Kept({"id", "dead"})
  BY <1>1, <1>4 DEF ProcessHandlers, Kept
<1> QED BY <1>2, <1>3, <1>4

\* Every step that neither writes the file nor is the first of a request leaves the
\* keys that must not count, and one that does not find out who asks the identity.
Resolves(s) == \/ ResolveRoot(s) \/ ResolveIndex(s) \/ ResolveUserIdentity(s)
               \/ ResolveSession(s) \/ ResolveSessionByToken(s)

LEMMA RestKeeps ==
  ASSUME IInv, [Next]_vars
  PROVE  \/ Kept({"id", "dead"})
         \/ MigrateWrite \/ \E s \in Slots : StoreWrite(s) \/ Begin(s)
         \/ Kept({"dead"}) /\ \E s \in Slots : Resolves(s)
<1>1. ASSUME Kept(PlainFields) PROVE Kept({"id", "dead"})
  BY <1>1 DEF Kept, PlainFields, SteadyFields
<1>2. ASSUME NEW s \in Slots,
             \/ NextPage(s) \/ ProcessHandlers(s) \/ Validate(s) \/ routeAction(s)
             \/ Caller(s) \/ FetchThumbprint(s) \/ ParsePolicy(s) \/ ParseTrust(s)
             \/ VerifyCached(s) \/ RefreshRefused(s) \/ Expiry(s)
             \/ VerifyIAMPolicy(s) \/ updateUserTargetResource(s) \/ ReadUser(s) \/ ReadRole(s)
             \/ Answer(s) \/ StoreLock(s) \/ StoreRefused(s) \/ StoreFails(s)
             \/ AssumedRole(s) \/ TrustDecision(s) \/ ClientAllowed(s)
             \/ forceRefreshJWKSCache(s) \/ cachedJWKS(s)
      PROVE  Kept({"id", "dead"})
  BY <1>1, <1>2, OthersKeepId, PlainKeeps, ReadsKeep, WritesKeep, WaitsKeep
<1>3. ASSUME NEW s \in Slots, Resolves(s) PROVE Kept({"dead"})
  <2>1. Kept(ListFields \cup {"dead"})
    BY <1>3, ResolvesKeep DEF Resolves
  <2> QED BY <2>1 DEF Kept
<1>4. ASSUME \/ \E g \in Servers : fetchAndCacheJWKS(g) \/ FetchFails(g)
             \/ Rotate \/ MigrateRead \/ Tick \/ UNCHANGED vars
      PROVE  Kept({"id", "dead"})
  BY <1>1, <1>4, WritesKeep, WaitsKeep
<1> QED BY <1>2, <1>3, <1>4 DEF Next, Resolves

\* A key that a server finds active is one that counts.
LEMMA ActiveCounts ==
  ASSUME IInv, CachesSound, KeysGone, NEW g \in Servers, NEW n \in DOMAIN Conf(g).users, NEW k,
         HasActiveKey(Conf(g).users[n], k)
  PROVE  k \notin Dead(g)
<1> DEFINE f == ReadIAMData(g)
<1>1. Sound(f.conf)
  BY DEF IInv, CachesSound, ReadIAMData, cachedPlaintext, FileSound
<1>2. Conf(g).users = f.conf.users
  <2>1. "users" \in DOMAIN f.conf
    BY <1>1 DEF Sound, defaultIAMConfig
  <2> HIDE DEF f
  <2>2. normalizeIAMConfig(f.conf).users = f.conf.users
    BY <2>1 DEF normalizeIAMConfig
  <2> QED BY <2>2 DEF Conf, f
<1>3. k \in ActiveKeys(f.conf)
  BY <1>2 DEF HasActiveKey, ActiveKeys
<1>4. CASE cachedPlaintext(g)
  BY <1>3, <1>4 DEF KeysGone, ReadIAMData
<1>5. CASE ~cachedPlaintext(g)
  BY <1>3, <1>5 DEF KeysGone, ReadIAMData, Dead
<1> QED BY <1>4, <1>5

\* A request goes on with identity i, or fails.
LEMMA IdentityTaken ==
  ASSUME IInv, NEW s \in Slots, NEW r, "id" \in DOMAIN r, Fail(s) \/ Advance(s, r)
  PROVE  /\ \A t \in Slots \ {s} : rq'[t] = rq[t]
         /\ rq'[s].id \in {rq[s].id, r.id}
<1>1. rq = [t \in Slots |-> rq[t]] /\ "id" \in DOMAIN rq[s]
  BY RequestFields DEF IInv
<1>2. CASE Fail(s)
  <2> DEFINE q == [rq[s] EXCEPT !.status = "error", !.todo = <<>>]
  <2>1. rq' = [rq EXCEPT ![s] = q] /\ q.id = rq[s].id
    BY <1>1, <1>2 DEF Fail
  <2> HIDE DEF q
  <2> QED BY <1>1, <2>1
<1>3. CASE Advance(s, r)
  <2> DEFINE q == [r EXCEPT !.todo = Tail(@)]
  <2>1. rq' = [rq EXCEPT ![s] = q] /\ q.id = r.id
    BY <1>3 DEF Advance
  <2> HIDE DEF q
  <2> QED BY <1>1, <2>1
<1> QED BY <1>2, <1>3

\* Finding out who asks: a session has the policies of its own role, and a user has
\* signed with a key that counts.
LEMMA ResolvesRight ==
  ASSUME IInv, CachesSound, KeysGone, NEW s \in Slots,
         rq[s].dead \subseteq Dead(At(s)), IdentityFits(rq[s]),
         Resolves(s)
  PROVE  (\A t \in Slots \ {s} : rq'[t] = rq[t]) /\ IdentityFits(rq'[s])
<1> DEFINE g == At(s)
           c == Conf(g)
           k == rq[s].in.cred
           Fits(i) == /\ DOMAIN Nobody \subseteq DOMAIN i
                      /\ i.kind = "session" /\ i.docs # {} => i.fromRole = i.roleId
                      /\ i.kind = "user" => i.key \notin rq[s].dead
<1>1. "id" \in DOMAIN rq[s] /\ Fits(rq[s].id) /\ g \in Servers
  BY RequestFields, ServerOf DEF IInv, IdentityFits
<1>2. rq'[s].dead = rq[s].dead
  BY ResolvesKeep DEF Kept, Resolves
<1>3. \E r : "id" \in DOMAIN r /\ (Fail(s) \/ (Advance(s, r) /\ Fits(r.id)))
  <2>1. CASE ResolveRoot(s)
    <3> DEFINE i == [Nobody EXCEPT !.kind = "root"]
               r == [rq[s] EXCEPT !.id = i]
    <3>1. Advance(s, r)
      BY <2>1 DEF ResolveRoot
    <3>2. Fits(i)
      BY DEF Nobody
    <3> HIDE DEF i, Fits
    <3>3. "id" \in DOMAIN r /\ r.id = i
      BY <1>1
    <3> HIDE DEF r
    <3> QED BY <3>1, <3>2, <3>3
  <2>2. CASE ResolveIndex(s)
    <3> DEFINE n == c.keyIndex[k]
               t == <<Head(rq[s].todo), Do("ResolveUser")>> \o Tail(rq[s].todo)
               r == [rq[s] EXCEPT !.name = n, !.todo = t]
    <3>1. Fail(s) \/ Advance(s, r)
      BY <2>2 DEF ResolveIndex, Reading
    <3> HIDE DEF n, t, Fits
    <3>2. "id" \in DOMAIN r /\ r.id = rq[s].id
      BY <1>1
    <3> HIDE DEF r
    <3> QED BY <1>1, <3>1, <3>2
  <2>3. CASE ResolveUserIdentity(s)
    <3> DEFINE n == lookupUser(c, rq[s].name)
               u == c.users[n]
               docs == {Documents[d] : d \in Range(u.policies)}
               i == [Nobody EXCEPT !.kind = "user", !.key = k, !.uid = u.id, !.arn = u.arn,
                                   !.tags = u.tags, !.docs = docs]
               t == <<Head(rq[s].todo)>> \o Store("RecordAccessKeyUsage") \o Tail(rq[s].todo)
               r == [rq[s] EXCEPT !.id = i, !.todo = t]
    <3>1. Fail(s) \/ (Advance(s, r) /\ n # "" /\ HasActiveKey(u, k))
      BY <2>3 DEF ResolveUserIdentity, Reading
    <3>2. ASSUME n # "", HasActiveKey(u, k) PROVE k \notin rq[s].dead
      <4>1. n \in DOMAIN Conf(g).users /\ HasActiveKey(Conf(g).users[n], k)
        BY <3>2 DEF lookupUser
      <4> HIDE DEF n, k, u, g
      <4>2. k \notin Dead(g)
        BY <1>1, <4>1, ActiveCounts
      <4> QED BY <4>2 DEF g
    <3> HIDE DEF c, u, t, k, docs, n
    <3>3. DOMAIN i = DOMAIN Nobody /\ i.kind = "user" /\ i.key = k
      BY DEF Nobody
    <3> HIDE DEF i
    <3>4. "id" \in DOMAIN r /\ r.id = i
      BY <1>1
    <3> HIDE DEF r
    <3>5. k \notin rq[s].dead => Fits(i)
      BY <3>3
    <3> HIDE DEF Fits
    <3> QED BY <3>1, <3>2, <3>4, <3>5
  <2>4. CASE ResolveSession(s)
    <3> DEFINE a == c.sessions[k].arn
               o == c.sessions[k].roleId
               p == {Documents[d] : d \in c.sessions[k].policy}
               i == [Nobody EXCEPT !.kind = "session", !.key = k, !.arn = a, !.roleId = o,
                                   !.sessionPolicy = p]
               n == c.sessions[k].role
               t == <<Head(rq[s].todo), Do("ResolveRole")>> \o Tail(rq[s].todo)
               r == [rq[s] EXCEPT !.id = i, !.name = n, !.todo = t]
    <3>1. Fail(s) \/ Advance(s, r)
      BY <2>4 DEF ResolveSession, Reading
    <3> HIDE DEF a, o, p, n, t, k
    <3>2. DOMAIN i = DOMAIN Nobody /\ i.kind = "session" /\ i.docs = {}
      BY DEF Nobody
    <3> HIDE DEF i
    <3>3. "id" \in DOMAIN r /\ r.id = i /\ Fits(i)
      BY <1>1, <3>2
    <3> HIDE DEF r, Fits
    <3> QED BY <3>1, <3>3
  <2>5. CASE ResolveSessionByToken(s)
    <3> DEFINE n == lookupRole(c, rq[s].name)
               d == {Documents[x] : x \in Range(c.roles[n].policies)}
               tags == c.roles[n].tags
               o == c.roles[n].id
               i == [rq[s].id EXCEPT !.docs = d, !.tags = tags, !.fromRole = o]
               q == [rq[s] EXCEPT !.id = i]
               same == n # "" /\ SameRole(c.roles[n], rq[s].id)
               r == IF same THEN q ELSE rq[s]
    <3>1. Fail(s) \/ Advance(s, r) \/ Advance(s, rq[s])
      BY <2>5 DEF ResolveSessionByToken, Reading
    <3>2. same => o = rq[s].id.roleId
      BY DEF SameRole
    <3> HIDE DEF d, tags, o, same
    <3>3. {"kind", "key", "roleId", "docs", "fromRole"} \subseteq DOMAIN rq[s].id
      BY <1>1 DEF Nobody
    <3>4. /\ DOMAIN i = DOMAIN rq[s].id /\ i.kind = rq[s].id.kind /\ i.key = rq[s].id.key
          /\ i.fromRole = o /\ i.roleId = rq[s].id.roleId
      BY <3>3
    <3> HIDE DEF i
    <3>5. same => Fits(i)
      BY <1>1, <3>2, <3>4
    <3>6. "id" \in DOMAIN q /\ q.id = i
      BY <1>1
    <3> HIDE DEF q, Fits
    <3>7. "id" \in DOMAIN r /\ Fits(r.id)
      BY <1>1, <3>5, <3>6
    <3> HIDE DEF r
    <3> QED BY <1>1, <3>1, <3>7
  <2> QED BY <2>1, <2>2, <2>3, <2>4, <2>5 DEF Resolves
<1> HIDE DEF Fits
<1>4. PICK r : "id" \in DOMAIN r /\ (Fail(s) \/ (Advance(s, r) /\ Fits(r.id)))
  BY <1>3
<1>5. (\A t \in Slots \ {s} : rq'[t] = rq[t]) /\ Fits(rq'[s].id)
  <2>1. CASE Fail(s)
    <3>1. Kept({"id"})
      BY <2>1, StepKeeps DEF PlainFields, SteadyFields
    <3>2. rq'[s].id = rq[s].id
      BY <3>1 DEF Kept
    <3> QED BY <1>1, <1>4, <3>2, IdentityTaken
  <2>2. CASE Advance(s, r) /\ Fits(r.id)
    <3>1. \A t \in Slots \ {s} : rq'[t] = rq[t]
      BY <1>4, IdentityTaken
    <3>2. rq'[s].id \in {rq[s].id, r.id}
      BY <1>4, IdentityTaken
    <3> QED BY <1>1, <1>4, <2>2, <3>1, <3>2
  <2> QED BY <1>4, <2>1, <2>2
<1> QED BY <1>2, <1>5 DEF IdentityFits, Fits

\* Whatever a step does to a request, its keys that must not count are among those
\* that must not count on its server.
LEMMA DeadStep ==
  ASSUME IInv, IdentityInv, [Next]_vars, CachesSound
  PROVE  \A t \in Slots : rq'[t].dead \subseteq (Dead(At(t)))'
<1>1. /\ \A t \in Slots : rq[t].dead \subseteq Dead(At(t)) /\ At(t)' = At(t)
      /\ KeysGone /\ DOMAIN cache = Servers
  BY StoreSteps DEF IdentityInv, At, CachesSound
<1>2. CASE MigrateWrite \/ \E s \in Slots : StoreWrite(s)
  <2>1. \A g : Dead(g) \ ActiveKeys(file'.conf) \subseteq Dead(g)'
    BY <1>1, KeysGoneStep
  <2>2. \A t \in Slots : rq'[t].dead = rq[t].dead \ ActiveKeys(file'.conf)
    BY <1>2, FileWritesKeep
  <2> QED BY <1>1, <2>1, <2>2
<1>3. CASE ~(MigrateWrite \/ \E s \in Slots : StoreWrite(s))
  <2>1. \A g : Dead(g) \subseteq Dead(g)'
    BY <1>1, <1>3, KeysGoneStep
  <2>2. ASSUME Kept({"dead"}) PROVE \A t \in Slots : rq'[t].dead \subseteq (Dead(At(t)))'
    BY <1>1, <2>1, <2>2 DEF Kept
  <2>3. ASSUME NEW s \in Slots, Begin(s)
        PROVE  \A t \in Slots : rq'[t].dead \subseteq (Dead(At(t)))'
    BY <1>1, <2>1, <2>3, BeginIdentity
  <2>4. Kept({"dead"}) \/ \E s \in Slots : Begin(s)
    BY <1>3, RestKeeps DEF Kept, PlainFields
  <2> QED BY <2>2, <2>3, <2>4
<1> QED BY <1>2, <1>3

\* Who has not been found out yet is nobody.
LEMMA NobodyFits == ASSUME NEW r, r.id = Nobody PROVE IdentityFits(r)
<1>1. Nobody.kind = "none"
  BY DEF Nobody
<1> QED BY <1>1 DEF IdentityFits

LEMMA IdentityStep ==
  ASSUME IInv, CachesSound, IdentityInv, [Next]_vars PROVE IdentityInv'
<1>1. KeysGone' /\ \A t \in Slots : rq'[t].dead \subseteq (Dead(At(t)))'
  BY KeysGoneStep, DeadStep DEF IdentityInv, CachesSound
<1>2. /\ \A t \in Slots : rq[t].dead \subseteq Dead(At(t)) /\ IdentityFits(rq[t])
      /\ KeysGone
  BY DEF IdentityInv
<1>3. CASE Kept({"id", "dead"})
  <2>1. \A t \in Slots : rq'[t].id = rq[t].id /\ rq'[t].dead = rq[t].dead
    BY <1>3 DEF Kept
  <2>2. \A t \in Slots : IdentityFits(rq'[t])
    BY <1>2, <2>1 DEF IdentityFits
  <2> QED BY <1>1, <2>2 DEF IdentityInv
<1>4. CASE MigrateWrite \/ \E s \in Slots : StoreWrite(s)
  <2>1. \A t \in Slots : rq'[t].id = rq[t].id /\ rq'[t].dead \subseteq rq[t].dead
    BY <1>4, FileWritesKeep DEF Kept, SteadyFields
  <2>2. \A t \in Slots : IdentityFits(rq'[t])
    BY <1>2, <2>1 DEF IdentityFits
  <2> QED BY <1>1, <2>2 DEF IdentityInv
<1>5. ASSUME NEW s \in Slots, Begin(s) PROVE IdentityInv'
  <2>1. \A t \in Slots \ {s} : rq'[t] = rq[t]
    BY <1>5, BeginIdentity
  <2>2. IdentityFits(rq'[s])
    BY <1>5, BeginIdentity, NobodyFits
  <2>3. \A t \in Slots : IdentityFits(rq'[t])
    BY <1>2, <2>1, <2>2
  <2> QED BY <1>1, <2>3 DEF IdentityInv
<1>6. ASSUME NEW s \in Slots, Resolves(s) PROVE IdentityInv'
  <2>1. (\A t \in Slots \ {s} : rq'[t] = rq[t]) /\ IdentityFits(rq'[s])
    BY <1>2, <1>6, ResolvesRight
  <2>2. \A t \in Slots : IdentityFits(rq'[t])
    BY <1>2, <2>1
  <2> QED BY <1>1, <2>2 DEF IdentityInv
<1> QED BY <1>3, <1>4, <1>5, <1>6, RestKeeps

LEMMA IdentityInit == Init => CachesSound /\ IdentityInv
<1> SUFFICES ASSUME Init PROVE CachesSound /\ IdentityInv
  OBVIOUS
<1>1. CachesSound
  BY DEF Init, CachesSound
<1>2. /\ now = 0 /\ DOMAIN off = {} /\ \A g \in Servers : cache[g].at = 0 /\ ~cache[g].valid
  BY DEF Init, EmptyMap
<1>3. KeysGone
  BY <1>2 DEF KeysGone, cachedPlaintext
<1>4. Idle.id = Nobody /\ Idle.dead = {}
  BY DEF Idle
<1>5. IdentityFits(Idle)
  BY <1>4, NobodyFits
<1>6. \A t \in Slots : rq[t] = Idle
  BY DEF Init
<1> QED BY <1>1, <1>3, <1>4, <1>5, <1>6 DEF IdentityInv

-----------------------------------------------------------------------------
(* Withdrawn signing keys *)

\* What happens to the signing keys: nothing, a fetch begins or ends, one is withdrawn.
LEMMA SigningSteps ==
  ASSUME IInv, [Next]_vars
  PROVE  \/ UNCHANGED <<now, keys>>
         \/ Tick \/ Rotate
         \/ \E g \in Servers : fetchAndCacheJWKS(g) \/ FetchFails(g)
         \/ \E s \in Slots : forceRefreshJWKSCache(s) \/ cachedJWKS(s)
<1>1. ASSUME NEW s \in Slots,
             \/ Begin(s) \/ NextPage(s) \/ ProcessHandlers(s) \/ Validate(s) \/ routeAction(s)
             \/ Caller(s) \/ FetchThumbprint(s) \/ ResolveRoot(s) \/ ParsePolicy(s)
             \/ ParseTrust(s) \/ VerifyCached(s) \/ RefreshRefused(s) \/ Expiry(s)
             \/ StoreLock(s) \/ StoreWrite(s) \/ StoreRefused(s) \/ StoreFails(s)
      PROVE  UNCHANGED <<now, keys>>
  BY <1>1 DEF Begin, NextPage, ProcessHandlers, Validate, routeAction, Caller, FetchThumbprint,
     ResolveRoot, ParsePolicy, ParseTrust, VerifyCached, RefreshRefused, Expiry, StoreLock,
     StoreWrite, StoreRefused, StoreFails, Local
<1>2. ASSUME NEW s \in Slots,
             \/ ResolveIndex(s) \/ ResolveUserIdentity(s) \/ ResolveSession(s)
             \/ ResolveSessionByToken(s) \/ VerifyIAMPolicy(s) \/ updateUserTargetResource(s)
             \/ ReadUser(s) \/ ReadRole(s) \/ Answer(s) \/ AssumedRole(s) \/ TrustDecision(s)
             \/ ClientAllowed(s)
      PROVE  UNCHANGED <<now, keys>>
  BY <1>2 DEF ResolveIndex, ResolveUserIdentity, ResolveSession, ResolveSessionByToken,
     VerifyIAMPolicy, updateUserTargetResource, ReadUser, ReadRole, Answer, AssumedRole,
     TrustDecision, ClientAllowed, Reading, Local
<1>3. ASSUME MigrateRead \/ MigrateWrite \/ UNCHANGED vars PROVE UNCHANGED <<now, keys>>
  BY <1>3 DEF MigrateRead, MigrateWrite, vars
<1> QED BY <1>1, <1>2, <1>3 DEF Next

LEMMA SigningStep ==
  ASSUME IInv, SigningInv, [Next]_vars PROVE SigningInv'
<1>0. JwksTTL \in Nat /\ now \in Nat /\ \A s \in Slots : At(s) \in Servers
  BY JwksAssumption, ServerOf DEF SigningInv
<1>1. CASE UNCHANGED <<now, keys>>
  BY <1>1 DEF SigningInv, keys
<1>2. CASE Tick
  BY <1>0, <1>2 DEF SigningInv, keys, Tick
<1>3. CASE Rotate
  BY <1>0, <1>3 DEF SigningInv, Rotate, Put
<1>4. ASSUME NEW g \in Servers, fetchAndCacheJWKS(g) PROVE SigningInv'
  <2> DEFINE e == [jwks[g] EXCEPT !.kid = flight[g], !.expires = now + JwksTTL, !.known = TRUE]
  <2>1. /\ DOMAIN e = DOMAIN jwks[g] /\ e.kid = flight[g] /\ e.expires = now + JwksTTL
    BY <1>4 DEF SigningInv
  <2>2. /\ jwks' = [jwks EXCEPT ![g] = e] /\ flight' = [flight EXCEPT ![g] = "none"]
        /\ UNCHANGED <<now, idp, retired>>
    BY <1>4 DEF fetchAndCacheJWKS
  <2> HIDE DEF e
  <2>3. /\ "none" \notin DOMAIN retired
        /\ \A k \in DOMAIN retired : retired[k] \in 0..now
        /\ flight[g] \in DOMAIN retired => now = retired[flight[g]]
    BY DEF SigningInv
  <2>4. ASSUME NEW h \in Servers
        PROVE  /\ {"kid", "expires", "forced", "known"} \subseteq DOMAIN jwks'[h]
               /\ jwks'[h].expires \in 0..(now + JwksTTL)
               /\ jwks'[h].kid \in DOMAIN retired =>
                    jwks'[h].expires <= retired[jwks'[h].kid] + JwksTTL
               /\ flight'[h] \in DOMAIN retired => now = retired[flight'[h]]
    <3>1. CASE h = g
      BY <1>0, <2>1, <2>2, <2>3, <3>1 DEF SigningInv
    <3>2. CASE h # g
      BY <2>2, <3>2 DEF SigningInv
    <3> QED BY <3>1, <3>2
  <2>5. /\ DOMAIN flight' = Servers /\ DOMAIN jwks' = Servers
    BY <2>2 DEF SigningInv
  <2> QED BY <2>2, <2>4, <2>5 DEF SigningInv
<1>5. ASSUME NEW g \in Servers, FetchFails(g) PROVE SigningInv'
  BY <1>0, <1>5 DEF SigningInv, FetchFails
<1>6. ASSUME NEW s \in Slots, forceRefreshJWKSCache(s) PROVE SigningInv'
  BY <1>0, <1>6 DEF SigningInv, forceRefreshJWKSCache, Join
<1>7. ASSUME NEW s \in Slots, cachedJWKS(s) PROVE SigningInv'
  BY <1>0, <1>7 DEF SigningInv, cachedJWKS, Join
<1> QED BY <1>1, <1>2, <1>3, <1>4, <1>5, <1>6, <1>7, SigningSteps

\* A request that verifies a token goes on by these steps only; the others wait on
\* it, or make it fail.
LEMMA SignatureWaits ==
  ASSUME IInv, [Next]_vars, NEW t \in Slots, Next_(t, "Signature")
  PROVE  \/ rq'[t].todo = rq[t].todo \/ rq'[t].status = "error"
         \/ VerifyCached(t) \/ \E g \in Servers : fetchAndCacheJWKS(g)
<1>1. rq = [u \in Slots |-> rq[u]] /\ DOMAIN Idle \subseteq DOMAIN rq[t]
  BY DEF IInv, RequestFits
<1>2. {"todo", "dead", "wait", "tried", "status"} \subseteq DOMAIN rq[t]
  BY <1>1 DEF Idle
<1>3. ASSUME NEW s \in Slots, ~Next_(s, "Signature"), NEW r, rq' = [rq EXCEPT ![s] = r]
      PROVE  rq'[t].todo = rq[t].todo
  BY <1>1, <1>3
<1>4. ASSUME NEW s \in Slots,
             \/ Validate(s) \/ routeAction(s) \/ Caller(s) \/ FetchThumbprint(s) \/ ResolveRoot(s)
             \/ ParsePolicy(s) \/ ParseTrust(s) \/ Expiry(s) \/ Begin(s) \/ ProcessHandlers(s)
      PROVE  rq'[t].todo = rq[t].todo
  <2>1. ~Next_(s, "Signature")
    BY <1>4 DEF Next_, Validate, routeAction, Caller, FetchThumbprint, ResolveRoot, ParsePolicy,
       ParseTrust, Expiry, Begin, ProcessHandlers
  <2>2. \E r : rq' = [rq EXCEPT ![s] = r]
    BY <1>1, <1>4 DEF Validate, routeAction, Caller, FetchThumbprint, ResolveRoot, ParsePolicy,
       ParseTrust, Expiry, Begin, ProcessHandlers, Advance, Fail
  <2> QED BY <1>3, <2>1, <2>2
<1>5. ASSUME NEW s \in Slots,
             \/ ResolveIndex(s) \/ ResolveUserIdentity(s) \/ ResolveSession(s)
             \/ ResolveSessionByToken(s) \/ VerifyIAMPolicy(s) \/ updateUserTargetResource(s)
             \/ ReadUser(s) \/ ReadRole(s) \/ Answer(s) \/ AssumedRole(s) \/ TrustDecision(s)
             \/ ClientAllowed(s)
      PROVE  rq'[t].todo = rq[t].todo
  <2>1. ~Next_(s, "Signature")
    BY <1>5 DEF Next_, ResolveIndex, ResolveUserIdentity, ResolveSession, ResolveSessionByToken,
       VerifyIAMPolicy, updateUserTargetResource, ReadUser, ReadRole, Answer, AssumedRole,
       TrustDecision, ClientAllowed, Reading
  <2>2. \E r : Fail(s) \/ Advance(s, r)
    BY <1>5 DEF ResolveIndex, ResolveUserIdentity, ResolveSession, ResolveSessionByToken,
       VerifyIAMPolicy, updateUserTargetResource, ReadUser, ReadRole, Answer, AssumedRole,
       TrustDecision, ClientAllowed, Reading
  <2>3. \E r : rq' = [rq EXCEPT ![s] = r]
    BY <1>1, <2>2 DEF Fail, Advance
  <2> QED BY <1>3, <2>1, <2>3
<1>6. ASSUME NEW s \in Slots, NextPage(s) \/ StoreLock(s) \/ StoreRefused(s) \/ StoreFails(s)
      PROVE  rq'[t].todo = rq[t].todo
  <2>1. ~Next_(s, "Signature")
    BY <1>6 DEF IInv, RequestFits, Next_, NextPage, StoreLock, StoreRefused, StoreFails, Holds
  <2>2. \E r : rq' = [rq EXCEPT ![s] = r]
    BY <1>1, <1>6 DEF NextPage, StoreLock, StoreRefused, StoreFails, Advance, Fail
  <2> QED BY <1>3, <2>1, <2>2
<1>7. ASSUME NEW s \in Slots, StoreWrite(s) PROVE rq'[t].todo = rq[t].todo
  <2>1. ~Next_(s, "Signature")
    BY <1>7 DEF IInv, RequestFits, Next_, StoreWrite, Holds
  <2>2. \E d : rq'[t] = [rq[t] EXCEPT !.dead = d]
    BY <1>7, <2>1 DEF StoreWrite
  <2> QED BY <1>2, <2>2
<1>8. ASSUME NEW s \in Slots, RefreshRefused(s)
      PROVE  rq'[t].todo = rq[t].todo \/ rq'[t].status = "error"
  BY <1>1, <1>2, <1>8 DEF RefreshRefused, Fail
<1>9. ASSUME NEW s \in Slots, forceRefreshJWKSCache(s) \/ cachedJWKS(s)
      PROVE  rq'[t].todo = rq[t].todo
  BY <1>1, <1>2, <1>9 DEF forceRefreshJWKSCache, cachedJWKS, Join
<1>10. ASSUME NEW s \in Slots, VerifyCached(s)
       PROVE  rq'[t].todo = rq[t].todo \/ VerifyCached(t)
  BY <1>1, <1>10 DEF VerifyCached, Advance
<1>11. ASSUME NEW g \in Servers, FetchFails(g)
       PROVE  rq'[t].todo = rq[t].todo \/ rq'[t].status = "error"
  BY <1>2, <1>11 DEF FetchFails
<1>12. ASSUME Rotate \/ MigrateRead \/ MigrateWrite \/ Tick \/ UNCHANGED vars
       PROVE  rq'[t].todo = rq[t].todo
  <2>1. CASE MigrateWrite
    <3>1. rq'[t] = [rq[t] EXCEPT !.dead = @ \ ActiveKeys(file'.conf)]
      BY <2>1, Migrated
    <3> QED BY <1>2, <3>1
  <2> QED BY <1>12, <2>1 DEF Rotate, MigrateRead, Tick, vars
<1> QED BY <1>4, <1>5, <1>6, <1>7, <1>8, <1>9, <1>10, <1>11, <1>12 DEF Next

\* A token is accepted only by a key that is published, or was a short time ago.
LEMMA TokenRefused ==
  ASSUME IInv, SigningInv, [Next]_vars PROVE RetiredKeyRefused
<1> SUFFICES ASSUME NEW s \in Slots, Next_(s, "Signature"), rq'[s].status = "run",
                    rq'[s].todo # <<>>, Head(rq'[s].todo).do = "Expiry",
                    rq[s].in.y.kid \in DOMAIN retired
             PROVE  now <= retired[rq[s].in.y.kid] + JwksTTL
  BY DEF RetiredKeyRefused
<1> DEFINE k == rq[s].in.y.kid
<1>1. /\ retired[k] \in 0..now /\ now \in Nat /\ JwksTTL \in Nat /\ At(s) \in Servers
  BY JwksAssumption, ServerOf DEF SigningInv
<1>2. rq'[s].todo # rq[s].todo
  BY DEF Next_
<1>3. CASE VerifyCached(s)
  <2>1. jwks[At(s)].kid = k /\ now < jwks[At(s)].expires
    BY <1>3 DEF VerifyCached, Fresh
  <2> QED BY <1>1, <2>1 DEF SigningInv
<1>4. ASSUME NEW g \in Servers, fetchAndCacheJWKS(g) PROVE now <= retired[k] + JwksTTL
  <2>1. /\ s \notin Waiting(g) => rq'[s] = rq[s]
        /\ s \in Waiting(g) /\ k # flight[g] =>
             rq'[s] \in {[rq[s] EXCEPT !.wait = FALSE, !.status = "error", !.todo = <<>>],
                        [rq[s] EXCEPT !.wait = FALSE]}
    BY <1>4 DEF fetchAndCacheJWKS
  <2>2. {"status", "todo", "wait"} \subseteq DOMAIN rq[s]
    BY RequestFields DEF IInv
  <2>3. k = flight[g]
    BY <1>2, <2>1, <2>2
  <2> QED BY <1>1, <2>3 DEF SigningInv
<1> QED BY <1>2, <1>3, <1>4, SignatureWaits

\* A key that was revoked, here or longer ago than a cache lives, authenticates nobody;
\* a session has its policies from the role it was made for; a token is refused once
\* its signing key has been withdrawn for as long as a cached key set lives
\* (engine.go:188, 286, identity.go:100, 136, webidentity.go:577, 619).  For any
\* number of servers and requests, any files they start from and any TTL.
THEOREM CredentialsCount == Spec => CredentialsCurrent
<1>1. Init => SigningInv
  <2> SUFFICES ASSUME Init PROVE SigningInv
    OBVIOUS
  <2>1. DOMAIN retired = {} /\ JwksTTL \in Nat
    BY JwksAssumption DEF Init, EmptyMap
  <2> QED BY <2>1 DEF Init, SigningInv
<1>2. Init => CachesSound /\ IdentityInv
  BY IdentityInit
<1>3. IInv /\ IInv' /\ CachesSound /\ IdentityInv /\ SigningInv /\ [Next]_vars
        => CachesSound' /\ IdentityInv' /\ SigningInv' /\ RetiredKeyRefused
  BY CachesStay, IdentityStep, SigningStep, TokenRefused
<1>4. IdentityInv => RevokedKeyRefused /\ SessionAuthority
  BY DEF IdentityInv, IdentityFits, RevokedKeyRefused, SessionAuthority
<1>5. IdentityInv' => RevokedKeyRefused' /\ SessionAuthority'
  BY <1>4, PTL
<1>6. IInv /\ IInv' /\ CachesSound /\ IdentityInv /\ SigningInv /\ [Next]_vars
        => [RevokedKeyRefused' /\ SessionAuthority' /\ RetiredKeyRefused]_vars
  BY <1>3, <1>5
<1> QED BY <1>1, <1>2, <1>3, <1>6, InductiveInvariant, PTL DEF Spec, CredentialsCurrent
=============================================================================
