---------------------------- MODULE IamAccounts ----------------------------
(***************************************************************************)
(* The accounts of the gateways: requests of several gateways that look up *)
(* and change accounts in one IAM service, step by step as AccountOps says, *)
(* each gateway with its own lock, login and cache.  The services behind   *)
(* (the directory, Vault, the other S3 server...) are external: they are   *)
(* modelled from how src/auth uses them.  What request s writes is called  *)
(* s; IDs stands for the user, group and project ID.                       *)
(***************************************************************************)
EXTENDS AccountOps, FiniteSets, TLC

CONSTANTS
  Gateways,
  Slots,          \* requests
  GatewayOf,      \* GatewayOf[s]: the gateway of request s
  Keys, Root,     \* access keys; the one of the root account
  Sessions,       \* access keys of sessions (standalone IAM service)
  Inputs,         \* Inputs[m][s]: what request s may ask for, in a mix m of clients
  Worlds          \* Worlds[m]: services and accounts to begin with

VARIABLES
  mix,            \* the mix of clients
  kind, cached,   \* the IAM service, and whether it is behind a cache
  store,          \* is the file or object there, and the accounts of the service
  server,         \* the protocol of the standalone service, next to the gateway's
  gw,             \* gw[g]: gateway g
  req,            \* req[s]: request s
  past            \* what the service has held (history variable)

vars == <<mix, kind, cached, store, server, gw, req, past>>

None == "none"
Fields == {"Secret", "Role", "IDs"}
NoAccount == [there |-> FALSE, of |-> [f \in Fields |-> None]]
Account(v) == [there |-> TRUE, of |-> [f \in Fields |-> v]]
RootAccount == Account("root")
NoAccounts == [a \in Keys |-> NoAccount]
NoItem == [there |-> FALSE, fresh |-> FALSE, value |-> NoAccount]
\* lock: the request that holds it; live: logged in, connected; plain: the
\* file as this process last read it.
Gateway(up) ==
  [up |-> up, lock |-> None, live |-> TRUE,
   plain |-> [valid |-> FALSE, fresh |-> FALSE, acc |-> NoAccounts],
   cache |-> [a \in Keys |-> NoItem]]
Idle ==
  [status |-> "idle", why |-> None, in |-> [op |-> None], todo |-> <<>>, key |-> None,
   conf |-> NoAccounts, acc |-> NoAccount, missing |-> {}, decision |-> <<>>,
   met |-> {}, after |-> {}]

\* One type invariant: a lock belongs to a request of that gateway that runs,
\* and the services that must not be cached are not.
TypeOK ==
  /\ \A g \in Gateways :
       /\ gw[g].lock \in {None} \cup {s \in Slots : req[s].status = "run" /\ GatewayOf[s] = g}
       /\ ~cached => \A a \in Keys : gw[g].cache[a] = NoItem
  /\ cached => Cacheable(kind)
  /\ \A a \in Keys : ~store.acc[a].there => store.acc[a] = NoAccount

Held(accounts) == {<<a, f, accounts[a].of[f]>> : a \in {b \in Keys : accounts[b].there}, f \in Fields}

Init ==
  \E m \in DOMAIN Inputs : \E w \in Worlds[m] :
    /\ mix = m /\ kind = w.kind /\ cached = w.cached
    /\ store = w.store /\ server = w.server /\ gw = w.gw
    /\ req = [s \in Slots |-> Idle]
    /\ past = Held(w.store.acc)

-----------------------------------------------------------------------------
(* How a request goes on *)

At(s, what) ==
  /\ req[s].status = "run"
  /\ req[s].todo # <<>>
  /\ Head(req[s].todo).do \in what
Step(s) == Head(req[s].todo)
In(s) == req[s].in
Mine(s) == gw[GatewayOf[s]]
Unlocked(s) == IF Mine(s).lock = s THEN [Mine(s) EXCEPT !.lock = None] ELSE Mine(s)

\* What is left from the next step of that name on.
From(todo, what) ==
  LET at == {i \in DOMAIN todo : todo[i].do = what} IN SubSeq(todo, CHOOSE i \in at : \A j \in at : i <= j, Len(todo))
Skip(r, what) == [r EXCEPT !.todo = From(@, what)]
Next_(r) == [r EXCEPT !.todo = Tail(@)]

\* Mutant: in a loop over keys (the standalone service is asked for all of them at
\* once) an answer that does not come is taken for "no such user".
AnyIsMissing(why) ==
  why \in {"no such user", "user not found"} \/ (why = "fault" /\ kind # "standalone")
\* An error ends the request, unless it says of one key of several that it
\* is not there.
IsMissing(why) == why \in {"no such user", "user not found"}
Failed(s, why) ==
  IF In(s).op = "ResolveAccounts" /\ IsMissing(why)
  THEN [Skip(req[s], "Found") EXCEPT !.missing = @ \cup {req[s].key}]
  ELSE [Idle EXCEPT !.status = "error", !.why = why, !.in = In(s), !.met = req[s].met, !.after = req[s].after]
Stopped(s, g) == IF In(s).op = "Open" THEN [g EXCEPT !.up = "failed"] ELSE g
Fail(s, why) ==
  /\ req' = [req EXCEPT ![s] = Failed(s, why)]
  /\ gw' = [gw EXCEPT ![GatewayOf[s]] = Stopped(s, Unlocked(s))]
  /\ UNCHANGED <<mix, kind, cached, store, server, past>>
Advance(s, r) ==
  /\ req' = [req EXCEPT ![s] = Next_(r)]
  /\ UNCHANGED <<mix, kind, cached, store, server, gw, past>>
AdvanceWith(s, g) ==
  /\ req' = [req EXCEPT ![s] = Next_(req[s])]
  /\ gw' = [gw EXCEPT ![GatewayOf[s]] = g]
  /\ UNCHANGED <<mix, kind, cached, store, server, past>>
\* A write to the service is answered, or takes effect without an answer.
Written(s, accounts) ==
  /\ store' = [there |-> TRUE, acc |-> accounts]
  /\ past' = past \cup Held(accounts)
  /\ UNCHANGED <<mix, kind, cached, server>>
Write(s, accounts, g) ==
  /\ Written(s, accounts)
  /\ \/ req' = [req EXCEPT ![s] = Next_(req[s])] /\ gw' = [gw EXCEPT ![GatewayOf[s]] = g]
     \/ /\ req' = [req EXCEPT ![s] = Failed(s, "fault")]
        /\ gw' = [gw EXCEPT ![GatewayOf[s]] = Unlocked(s)]

\* `met` are the requests that ran at the same time, `after` those that had
\* ended before; the properties speak of them.
Start(s) ==
  /\ req[s].status = "idle"
  /\ \E in \in Inputs[mix][s] :
       /\ Mine(s).up = IF in.op = "Open" THEN "no" ELSE "yes"
       /\ req' = [t \in Slots |->
            IF t = s
            THEN [Idle EXCEPT !.status = "run", !.in = in, !.key = in.a,
                              !.todo = ProgramOf(kind, cached, in),
                              !.met = {u \in Slots : req[u].status = "run"},
                              !.after = {u \in Slots : req[u].status \in {"ok", "error"}}]
            ELSE IF req[t].status = "run" THEN [req[t] EXCEPT !.met = @ \cup {s}] ELSE req[t]]
  /\ UNCHANGED <<mix, kind, cached, store, server, gw, past>>
Finish(s) ==
  /\ req[s].status = "run" /\ req[s].todo = <<>>
  /\ req' = [req EXCEPT ![s] = [req[s] EXCEPT !.status = "ok", !.conf = NoAccounts, !.key = None]]
  /\ gw' = IF In(s).op = "Open" THEN [gw EXCEPT ![GatewayOf[s]].up = "yes"] ELSE gw
  /\ UNCHANGED <<mix, kind, cached, store, server, past>>
\* A call of the service that fails, without effect.
Calls ==
  {"ReadFile", "WriteFile", "GetIAM", "InitRead", "InitWrite", "GetAccounts", "ReadAccounts", "StoreAccts",
   "KvWrite", "KvRead", "KvDelete", "KvList", "AppRoleLogin", "DialAndBind", "Add", "Search",
   "Modify", "Del", "SearchAll", "Private", "VaultConfigShow"}
CallFails(s) == At(s, Calls) /\ Fail(s, "fault")

-----------------------------------------------------------------------------
(* Local steps *)

RootAnswered(s) ==
  /\ At(s, {"AnswerRoot"})
  /\ IF req[s].key = Root
     THEN /\ req' = [req EXCEPT ![s] = [Skip(req[s], "Got") EXCEPT !.acc = RootAccount]]
          /\ UNCHANGED <<mix, kind, cached, store, server, gw, past>>
     ELSE Advance(s, req[s])
RootRefused(s) ==
  /\ At(s, {"RefuseRoot"})
  /\ IF In(s).a = Root THEN Fail(s, "user exists") ELSE Advance(s, req[s])
RootTokenRefused(s) ==
  /\ At(s, {"RefuseRootToken"})
  /\ IF In(s).a = Root /\ In(s).token THEN Fail(s, "invalid token") ELSE Advance(s, req[s])
Refused(s) ==
  \/ At(s, {"NotSupported"}) /\ Fail(s, "not supported")
  \/ At(s, {"UserNotFound"}) /\ Fail(s, "user not found")
Mark(s) == At(s, {"Got", "Found"}) /\ Advance(s, req[s])
TakeKey(s) == At(s, {"Key"}) /\ Advance(s, [req[s] EXCEPT !.key = Step(s).a])

updateAcc(acc, props, v) == [acc EXCEPT !.of = [f \in Fields |-> IF f \in props THEN v ELSE @[f]]]
UpdateRead(s) ==
  At(s, {"UpdateAcc"}) /\ Advance(s, [req[s] EXCEPT !.acc = updateAcc(@, In(s).props, s)])

\* The accounts as read, with this change made to them.
Changed(s) ==
  LET a == In(s).a IN
  CASE In(s).op = "CreateAccount" -> [req[s].conf EXCEPT ![a] = Account(s)]
    [] In(s).op = "UpdateUserAccount" -> [req[s].conf EXCEPT ![a] = updateAcc(@, In(s).props, s)]
    [] In(s).op = "DeleteUserAccount" -> [req[s].conf EXCEPT ![a] = NoAccount]
EditAccounts(s) ==
  /\ At(s, {"Edit"})
  /\ LET there == req[s].conf[In(s).a].there IN
     CASE In(s).op = "CreateAccount" /\ there -> Fail(s, "user exists")
       [] In(s).op = "UpdateUserAccount" /\ ~there -> Fail(s, "no such user")
       [] In(s).op = "DeleteUserAccount" /\ ~there /\ kind = "s3" -> Fail(s, "does not exist")
       [] OTHER -> Advance(s, [req[s] EXCEPT !.conf = Changed(s)])
PickAccount(s) ==
  /\ At(s, {"Pick"})
  /\ IF req[s].conf[Step(s).a].there THEN Advance(s, [req[s] EXCEPT !.acc = req[s].conf[Step(s).a]])
     ELSE Fail(s, "no such user")
PickAccounts(s) == At(s, {"PickAll"}) /\ Advance(s, req[s])
\* Mutant: the lock is not waited for.
LockIgnored(s) == At(s, {"Lock"}) /\ AdvanceWith(s, Mine(s))
TakeLock(s) ==
  /\ At(s, {"Lock"})
  /\ Mine(s).lock = None
  /\ AdvanceWith(s, [Mine(s) EXCEPT !.lock = s])
DropLock(s) == At(s, {"Unlock"}) /\ AdvanceWith(s, Unlocked(s))

-----------------------------------------------------------------------------
(* The cache of a gateway *)

CacheGet(s) ==
  /\ At(s, {"CacheGet"})
  /\ LET item == Mine(s).cache[Step(s).a] IN
     IF item.there /\ item.fresh
     THEN /\ req' = [req EXCEPT ![s] = [Skip(req[s], "Found") EXCEPT !.acc = item.value]]
          /\ UNCHANGED <<mix, kind, cached, store, server, gw, past>>
     ELSE Advance(s, req[s])
Item(acc) == [there |-> TRUE, fresh |-> TRUE, value |-> acc]
CacheSet(s) ==
  At(s, {"CacheSet"}) /\ AdvanceWith(s, [Mine(s) EXCEPT !.cache[Step(s).a] = Item(req[s].acc)])
\* The copy that is kept of a new account has no IDs.
CacheCreated(s) ==
  /\ At(s, {"CacheCreated"})
  /\ AdvanceWith(s, [Mine(s) EXCEPT
       !.cache[In(s).a] = Item([Account(s) EXCEPT !.of["IDs"] = "zero"])])
CacheDelete(s) == At(s, {"CacheDelete"}) /\ AdvanceWith(s, [Mine(s) EXCEPT !.cache[In(s).a] = NoItem])
\* An account in the cache, expired or not, is fresh again.
CacheUpdate(s) ==
  /\ At(s, {"CacheUpdate"})
  /\ LET item == Mine(s).cache[In(s).a] IN
     AdvanceWith(s, [Mine(s) EXCEPT
       !.cache[In(s).a] = IF item.there THEN Item(updateAcc(item.value, In(s).props, s)) ELSE item])
\* Time passes at any moment; it tells only when the cache is looked at.
LooksAtCache(g, a) ==
  \E s \in Slots :
    /\ GatewayOf[s] = g
    /\ \/ At(s, {"CacheGet"}) /\ Step(s).a = a
       \/ At(s, {"CacheUpdate"}) /\ In(s).a = a
Expire(g, a) ==
  /\ gw[g].cache[a].fresh /\ LooksAtCache(g, a)
  /\ gw' = [gw EXCEPT ![g].cache[a].fresh = FALSE]
  /\ UNCHANGED <<mix, kind, cached, store, server, req, past>>
gcCache(g) ==
  /\ \E a \in Keys : gw[g].cache[a].there /\ ~gw[g].cache[a].fresh /\ LooksAtCache(g, a)
  /\ gw' = [gw EXCEPT ![g].cache = [a \in Keys |-> IF @[a].fresh THEN @[a] ELSE NoItem]]
  /\ UNCHANGED <<mix, kind, cached, store, server, req, past>>
CacheSteps(s) ==
  CacheGet(s) \/ CacheSet(s) \/ CacheCreated(s) \/ CacheDelete(s) \/ CacheUpdate(s)

-----------------------------------------------------------------------------
(* The file, and the object of the other server *)

\* A lookup waits for a change of the same process.
NotLocked(s) == Mine(s).lock \in {None, s}
Read(s) == [req[s] EXCEPT !.conf = store.acc]
Plain(acc) == [valid |-> TRUE, fresh |-> TRUE, acc |-> acc]
ReadToChange(s) == At(s, {"ReadFile", "GetAccounts"}) /\ Advance(s, Read(s))
GetIAM(s) ==
  /\ At(s, {"GetIAM"}) /\ NotLocked(s)
  /\ LET plain == Mine(s).plain IN
     IF plain.valid /\ plain.fresh THEN Advance(s, [req[s] EXCEPT !.conf = plain.acc])
     ELSE /\ store.there
          /\ req' = [req EXCEPT ![s] = Next_(Read(s))]
          /\ gw' = [gw EXCEPT ![GatewayOf[s]].plain = Plain(store.acc)]
          /\ UNCHANGED <<mix, kind, cached, store, server, past>>
ReadAccounts(s) == At(s, {"ReadAccounts"}) /\ NotLocked(s) /\ Advance(s, Read(s))
WriteFile(s) ==
  /\ At(s, {"WriteFile"})
  /\ Write(s, req[s].conf, [Mine(s) EXCEPT !.plain = Plain(req[s].conf)])
StoreAccts(s) == At(s, {"StoreAccts"}) /\ Write(s, req[s].conf, Mine(s))
InitRead(s) ==
  /\ At(s, {"InitRead"})
  /\ IF store.there
     THEN Advance(s, [req[s] EXCEPT !.todo = Tail(@)])
     ELSE Advance(s, req[s])
InitWrite(s) == At(s, {"InitWrite"}) /\ Write(s, NoAccounts, Mine(s))
\* cacheValidity: for a second the file is not read again.
PlainExpires(g) ==
  /\ gw[g].plain.fresh
  /\ \E s \in Slots : GatewayOf[s] = g /\ At(s, {"GetIAM"})
  /\ gw' = [gw EXCEPT ![g].plain.fresh = FALSE]
  /\ UNCHANGED <<mix, kind, cached, store, server, req, past>>
FileSteps(s) ==
  \/ ReadToChange(s) \/ GetIAM(s) \/ ReadAccounts(s) \/ WriteFile(s) \/ StoreAccts(s)
  \/ InitRead(s) \/ InitWrite(s)

-----------------------------------------------------------------------------
(* Calls that are made once more: reAuthIfNeeded, LDAP's execute *)

Logins == [KvWrite |-> login, KvRead |-> login, KvDelete |-> login, KvList |-> login,
           Add |-> dial, Search |-> dial, Modify |-> dial, Del |-> dial, SearchAll |-> dial]
Again(s) ==
  [req[s] EXCEPT !.todo = <<Logins[Step(s).do], [Step(s) EXCEPT !.again = FALSE]>> \o Tail(@)]
\* The login has run out, or the connection is gone.
Turned(s) ==
  /\ At(s, DOMAIN Logins)
  /\ ~Mine(s).live
  /\ IF Step(s).again
     THEN /\ req' = [req EXCEPT ![s] = Again(s)]
          /\ UNCHANGED <<mix, kind, cached, store, server, gw, past>>
     ELSE Fail(s, "fault")
Ready(s, what) == At(s, {what}) /\ Mine(s).live
\* LDAP: the change was made and the connection broke before the answer.
BrokenOff(s, accounts) ==
  /\ Step(s).again
  /\ Written(s, accounts)
  /\ req' = [req EXCEPT ![s] = Again(s)]
  /\ gw' = [gw EXCEPT ![GatewayOf[s]].live = FALSE]
Login(s) ==
  /\ At(s, {"AppRoleLogin", "DialAndBind"})
  /\ AdvanceWith(s, [Mine(s) EXCEPT !.live = TRUE])
LoginLost(g) ==
  /\ kind \in {"vault", "ldap"} /\ gw[g].live
  /\ \E s \in Slots : GatewayOf[s] = g /\ At(s, DOMAIN Logins)
  /\ gw' = [gw EXCEPT ![g].live = FALSE]
  /\ UNCHANGED <<mix, kind, cached, store, server, req, past>>

\* An account whose IDs are not numbers is an error to Vault and LDAP.
Parseable(acc) == acc.of["IDs"] # "bad"
Put(a, acc) == [store.acc EXCEPT ![a] = acc]
\* The new account; of an update, what was read and changed.
ToWrite(s) == IF In(s).op = "UpdateUserAccount" THEN req[s].acc ELSE Account(s)
KvWrite(s) ==
  /\ Ready(s, "KvWrite")
  /\ IF store.acc[Step(s).a].there THEN Fail(s, "user exists")
     ELSE Write(s, Put(Step(s).a, ToWrite(s)), Mine(s))
KvRead(s) ==
  /\ Ready(s, "KvRead")
  /\ LET acc == store.acc[Step(s).a] IN
     IF ~acc.there THEN Fail(s, "404")
     ELSE IF ~Parseable(acc) THEN Fail(s, "invalid")
     ELSE Advance(s, [req[s] EXCEPT !.acc = acc])
KvDelete(s) == Ready(s, "KvDelete") /\ Write(s, Put(Step(s).a, NoAccount), Mine(s))
KvEach(keys) == FlattenSeq([i \in DOMAIN keys |-> <<[do |-> "Key", a |-> keys[i]]>> \o VaultGetUserAccount(keys[i])])
KvList(s) ==
  /\ Ready(s, "KvList")
  /\ LET keys == SetToSeq({a \in Keys : store.acc[a].there}) IN
     /\ req' = [req EXCEPT ![s].todo = KvEach(keys) \o Tail(@)]
     /\ UNCHANGED <<mix, kind, cached, store, server, gw, past>>
VaultSteps(s) == KvWrite(s) \/ KvRead(s) \/ KvDelete(s) \/ KvList(s)

LdapChange(s, accounts) == Write(s, accounts, Mine(s)) \/ BrokenOff(s, accounts)
LdapAdd(s) ==
  /\ Ready(s, "Add")
  /\ IF store.acc[Step(s).a].there THEN Fail(s, "already exists") ELSE LdapChange(s, Put(Step(s).a, Account(s)))
LdapModify(s) ==
  /\ Ready(s, "Modify")
  /\ LET acc == store.acc[Step(s).a] IN
     IF ~acc.there THEN Fail(s, "no such object")
     ELSE LdapChange(s, Put(Step(s).a, updateAcc(acc, In(s).props, s)))
LdapDel(s) ==
  /\ Ready(s, "Del")
  /\ IF ~store.acc[Step(s).a].there THEN Fail(s, "no such object") ELSE LdapChange(s, Put(Step(s).a, NoAccount))
LdapSearch(s) == (Ready(s, "Search") \/ Ready(s, "SearchAll")) /\ Advance(s, Read(s))
ParseEntry(s) ==
  /\ At(s, {"ParseEntry"})
  /\ LET acc == req[s].conf[Step(s).a] IN
     IF ~acc.there THEN Fail(s, "no such user")
     ELSE IF ~Parseable(acc) THEN Fail(s, "invalid")
     ELSE Advance(s, [req[s] EXCEPT !.acc = acc])
ParseEntries(s) ==
  /\ At(s, {"ParseEntries"})
  /\ IF \A a \in Keys : Parseable(req[s].conf[a]) THEN Advance(s, req[s]) ELSE Fail(s, "invalid")
LdapSteps(s) == LdapAdd(s) \/ LdapModify(s) \/ LdapDel(s) \/ LdapSearch(s)

-----------------------------------------------------------------------------
(* FreeIPA *)

\* isRetryable: end of file, a timeout, a reset connection.
TriedAgain(s) ==
  /\ At(s, {"IpaLogin", "UserShow", "VaultRetrieve", "VaultConfigShow"})
  /\ IF Step(s).tries > 1
     THEN /\ req' = [req EXCEPT ![s].todo = <<[Step(s) EXCEPT !.tries = @ - 1]>> \o Tail(@)]
          /\ UNCHANGED <<mix, kind, cached, store, server, gw, past>>
     ELSE Fail(s, "fault")
IpaLogin(s) == At(s, {"IpaLogin"}) /\ (Advance(s, req[s]) \/ Fail(s, "fault"))
UserShow(s) ==
  /\ At(s, {"UserShow"})
  /\ LET acc == store.acc[Step(s).a] IN
     IF ~acc.there THEN Fail(s, "rpc error")
     ELSE IF ~Parseable(acc) THEN Fail(s, "invalid")
     ELSE Advance(s, [req[s] EXCEPT !.acc = [Account("user") EXCEPT !.of["IDs"] = acc.of["IDs"]]])
VaultRetrieve(s) ==
  /\ At(s, {"VaultRetrieve"})
  /\ LET acc == store.acc[Step(s).a] IN
     IF ~acc.there THEN Fail(s, "rpc error")
     ELSE Advance(s, [req[s] EXCEPT !.acc.of["Secret"] = acc.of["Secret"]])
\* The vault's certificate must parse, and its algorithm be supported.
VaultConfigShow(s) == At(s, {"VaultConfigShow"}) /\ (Advance(s, req[s]) \/ Fail(s, "not supported"))
pkcs7Unpad(s) == At(s, {"Unpad"}) /\ (Advance(s, req[s]) \/ Fail(s, "invalid"))
\* The directory is administered elsewhere.
DirectoryChanges(a) ==
  /\ \E s \in Slots : At(s, {"UserShow", "VaultRetrieve"}) /\ Step(s).a = a
  /\ store.acc[a] # Account("elsewhere")
  /\ \E acc \in {NoAccount, Account("elsewhere")} :
       /\ store' = [store EXCEPT !.acc[a] = acc]
       /\ past' = past \cup Held(store'.acc)
  /\ UNCHANGED <<mix, kind, cached, server, gw, req>>
IpaSteps(s) == IpaLogin(s) \/ UserShow(s) \/ VaultRetrieve(s) \/ VaultConfigShow(s)

-----------------------------------------------------------------------------
(* The standalone IAM service *)

\* Protocols: a service may be older, ours, newer, or "raised": newer, with a
\* minimum that this gateway does not reach.
Protocols == {"older", "ours", "newer", "raised"}
\* A response of an older service, or of something else, is not looked at.
checkServerProtocol == server # "older"
\* A newer service says how old a gateway may be.
Refuses == server = "raised"
accountFor(a) == [Account("default") EXCEPT !.of["Secret"] = None, !.of["Role"] = "user"]
\* standaloneResponseError: the service refuses a gateway that is too old.
Private(s) ==
  /\ At(s, {"Private"})
  /\ LET a == Step(s).a IN
     CASE ~checkServerProtocol \/ Refuses -> Fail(s, "mismatch")
       [] OTHER ->
            CASE Step(s).path = "resolve" ->
                   IF store.acc[a].there THEN Advance(s, [req[s] EXCEPT !.acc = accountFor(a)])
                   ELSE Fail(s, "no such user")
              [] Step(s).path = "derive" ->
                   IF ~store.acc[a].there THEN Fail(s, "no such user")
                   ELSE IF (a \in Sessions) # In(s).token THEN Fail(s, "invalid token")
                   ELSE Advance(s, [req[s] EXCEPT !.acc = accountFor(a)])
              [] OTHER -> Advance(s, req[s])
\* A session is not an account that others may be told about.
resolveAccountDetails(s) ==
  /\ At(s, {"Resolved"})
  /\ Advance(s, [req[s] EXCEPT
       !.missing = {a \in Range(In(s).keys) \ {Root} : ~store.acc[a].there \/ a \in Sessions}])
\* The decisions: one of each resource on each action, of the identity and of
\* a session's own policy.
WireValues == {"Allow", "NoMatch", "Deny", "other"}
decisionFromWireValue(v) ==
  IF v = "Allow" THEN "allow" ELSE IF v = "NoMatch" THEN "no match" ELSE "deny"
decisionMatrixFromWire(row) == [i \in DOMAIN row |-> decisionFromWireValue(row[i])]
Decide(s) ==
  /\ At(s, {"Decisions"})
  /\ \E row, session \in {<<v>> : v \in WireValues} \cup {<<>>}, hasSession \in BOOLEAN :
       IF row = <<>> \/ (hasSession /\ session = <<>>) THEN Fail(s, "invalid")
       ELSE Advance(s, [req[s] EXCEPT
              !.decision = decisionMatrixFromWire(row)
                           \o (IF hasSession THEN decisionMatrixFromWire(session) ELSE <<>>)])
\* A mismatch or a service that is not reached is tried again for a while.
\* After it, a mismatch ends the start; for anything else there is a warning.
probe(s) ==
  /\ At(s, {"Probe"})
  /\ \/ (~checkServerProtocol \/ Refuses) /\ Fail(s, "mismatch")
     \/ Advance(s, req[s])
\* The service is upgraded, or put back.
ServerChanges ==
  /\ kind = "standalone"
  /\ server' \in Protocols \ {server}
  /\ \E s \in Slots : At(s, {"Private", "Probe"})
  /\ UNCHANGED <<mix, kind, cached, store, gw, req, past>>
StandaloneSteps(s) == Private(s) \/ resolveAccountDetails(s) \/ Decide(s) \/ probe(s)

-----------------------------------------------------------------------------
\* Steps that touch nothing of another request, and the release of a lock:
\* they come with the step before them.
Local ==
  {"AnswerRoot", "RefuseRoot", "RefuseRootToken", "NotSupported", "UserNotFound", "Got", "Found", "Key",
   "UpdateAcc", "Edit", "Pick", "PickAll", "ParseEntry", "ParseEntries", "Unpad", "Unlock"}
IsLocal(s) == At(s, Local) \/ (req[s].status = "run" /\ req[s].todo = <<>>)
LocalSteps(s) ==
  \/ Finish(s) \/ RootAnswered(s) \/ RootRefused(s) \/ RootTokenRefused(s) \/ Refused(s) \/ Mark(s)
  \/ TakeKey(s) \/ UpdateRead(s) \/ EditAccounts(s) \/ PickAccount(s) \/ PickAccounts(s)
  \/ ParseEntry(s) \/ ParseEntries(s) \/ pkcs7Unpad(s) \/ DropLock(s)
SharedSteps(s) ==
  \/ Start(s) \/ CallFails(s) \/ TakeLock(s) \/ CacheSteps(s) \/ FileSteps(s)
  \/ Turned(s) \/ Login(s) \/ VaultSteps(s) \/ LdapSteps(s) \/ TriedAgain(s) \/ IpaSteps(s)
  \/ StandaloneSteps(s)
Next ==
  \/ \E s \in Slots : LocalSteps(s)
  \/ /\ \A s \in Slots : ~IsLocal(s)
     /\ \/ \E s \in Slots : SharedSteps(s)
        \/ \E g \in Gateways : gcCache(g) \/ PlainExpires(g) \/ LoginLost(g)
        \/ \E g \in Gateways, a \in Keys : Expire(g, a)
        \/ \E a \in Keys : DirectoryChanges(a)
        \/ ServerChanges

Spec == Init /\ [][Next]_vars

-----------------------------------------------------------------------------
(* Properties *)

Started(s) == req[s].status # "idle"
Ended(s) == req[s].status \in {"ok", "error"}
IsChange(s) == Started(s) /\ In(s).op \in {"CreateAccount", "UpdateUserAccount", "DeleteUserAccount"}
LooksUp(s, a) ==
  \/ In(s).op = "GetUserAccount" /\ In(s).a = a
  \/ In(s).op = "ResolveAccounts" /\ a \in Range(In(s).keys)
\* The file and the object are written as a whole, and only the requests of
\* one gateway take turns.
WrittenAsOne == kind \in {"internal", "s3"}
Disturbs(u, s) ==
  \/ IsChange(u) /\ (In(u).a = In(s).a \/ (WrittenAsOne /\ GatewayOf[u] # GatewayOf[s]))
  \/ Started(u) /\ In(u).op = "Open"
\* s changed its account, and nothing since could have undone that.
LastChange(s) ==
  /\ IsChange(s) /\ req[s].status = "ok" /\ In(s).a # Root
  /\ \A u \in Slots \ {s} : Disturbs(u, s) => u \in req[s].after
Reflects(acc, s, fields) ==
  CASE In(s).op = "DeleteUserAccount" -> ~acc.there
    [] In(s).op = "CreateAccount" -> acc.there /\ \A f \in fields : acc.of[f] = s
    [] In(s).op = "UpdateUserAccount" -> acc.there /\ \A f \in fields \cap In(s).props : acc.of[f] = s

\* A change that was acknowledged stays in the service, whatever is done to
\* other accounts at the same time: through the same gateway where all
\* accounts are written as one, through any gateway elsewhere
\* (iam_internal.go:80, iam_s3_object.go:114, iam_vault.go:196, iam_ldap.go:265).
ChangesKept == \A s \in Slots : LastChange(s) => Reflects(store.acc[In(s).a], s, Fields)

\* The cache keeps an account that is created through it without its user, group
\* and project ID (iam_cache.go:145): until that copy expires, t may be served zeros.
WithoutIDs(t, acc) ==
  /\ cached /\ acc.of["IDs"] = "zero"
  /\ \E u \in Slots : /\ In(u).op = "CreateAccount" /\ In(u).a = In(t).a
                      /\ GatewayOf[u] = GatewayOf[t]
Served(t) == Fields \ (IF WithoutIDs(t, req[t].acc) THEN {"IDs"} ELSE {})

\* After a change was acknowledged, its gateway serves it, though it had the
\* account cached: nothing of a deleted account, nothing from before an update,
\* if no lookup ran during the change (iam_cache.go:181, :191).  The IDs of an
\* account that was created through the cache are excepted: WithoutIDs.
OwnChangesSeen ==
  \A s, t \in Slots :
    /\ LastChange(s) /\ Ended(t) /\ s \in req[t].after
    /\ GatewayOf[s] = GatewayOf[t]
    /\ In(t).op = "GetUserAccount" /\ In(t).a = In(s).a
    /\ \A u \in req[s].met : ~(GatewayOf[u] = GatewayOf[s] /\ LooksUp(u, In(s).a))
    => IF req[t].status = "ok" THEN Reflects(req[t].acc, s, Served(t))
       ELSE In(s).op = "DeleteUserAccount" \/ ~IsMissing(req[t].why)

\* Secret, role and IDs that are served for an account were ones that the service
\* held for it: a change that the service refused is not served from the cache
\* (iam_cache.go:192).  Excepted are the IDs of WithoutIDs, and the role FreeIPA
\* does not have.
ServedWasStored ==
  \A s \in Slots :
    req[s].status = "ok" /\ In(s).op = "GetUserAccount" /\ In(s).a # Root /\ kind # "standalone"
    => \A f \in Served(s) \ (IF kind = "ipa" THEN {"Role"} ELSE {}) :
         <<In(s).a, f, req[s].acc.of[f]>> \in past

\* Of two gateways, or two requests of one, that create the same account only
\* one is told that it did, if it was not deleted in between; across gateways
\* where the service itself compares (iam_vault.go:202, iam_ldap.go:150).
CreatedOnce ==
  \A s, t \in Slots :
    /\ s # t /\ req[s].status = "ok" /\ req[t].status = "ok"
    /\ In(s).op = "CreateAccount" /\ In(t).op = "CreateAccount" /\ In(s).a = In(t).a
    /\ WrittenAsOne => GatewayOf[s] = GatewayOf[t]
    => \E u \in Slots \ {s, t} : Disturbs(u, s)

\* The root account is served as it was configured, whatever is asked to be
\* done to it (iam_internal.go:76 and :107, and the same in each service).
RootServed ==
  \A s \in Slots :
    req[s].status = "ok" /\ In(s).op \in {"GetUserAccount", "DeriveSigningKey"} /\ In(s).a = Root
    => req[s].acc = RootAccount

\* ResolveAccounts looks up several keys, each of which may be found in the cache,
\* be missing or fail (iam.go:31): a key is said to be missing only if it never was
\* there, or a change of it was made or under way that may have removed it, never
\* because a service did not answer; one that is not said to be missing was there
\* once, and is none of a session.  A key whose deletion the same gateway
\* acknowledged before, with no lookup during it, is missing.
WasThere(a) == \E h \in past : h[1] = a
ResolvesRight ==
  \A s \in Slots : req[s].status = "ok" /\ In(s).op = "ResolveAccounts"
    => \A a \in Range(In(s).keys) \ {Root} :
         IF a \in req[s].missing
         THEN \/ ~WasThere(a) \/ (kind = "standalone" /\ a \in Sessions)
              \/ \E u \in Slots : /\ IsChange(u) /\ In(u).a = a
                                  /\ u \notin req[s].after \/ In(u).op = "DeleteUserAccount"
         ELSE /\ WasThere(a) /\ ~(kind = "standalone" /\ a \in Sessions)
              /\ \A u \in req[s].after :
                   /\ LastChange(u) /\ In(u).op = "DeleteUserAccount" /\ In(u).a = a
                   /\ GatewayOf[u] = GatewayOf[s]
                   => \E v \in req[u].met : GatewayOf[v] = GatewayOf[s] /\ LooksUp(v, a)

\* An acknowledged change is in the service, and of two that exclude each other
\* only one is acknowledged: ChangesKept and CreatedOnce.
ChangesHold == ChangesKept /\ CreatedOnce

\* What is served is what the service holds, or held a moment ago, cache or no
\* cache: OwnChangesSeen, ServedWasStored and RootServed.
ServedCurrent == OwnChangesSeen /\ ServedWasStored /\ RootServed
=============================================================================
