--------------------------- MODULE MCIamAccounts ---------------------------
(* Instances of IamAccounts for TLC: two gateways, three requests, mixes of
   clients; a request is made at most once. *)
EXTENDS IamAccounts

CONSTANT Chosen                \* the mixes of this run

MCGateways == {"g1", "g2"}
MCSlots == {"r1", "r2", "r3"}
MCGatewayOf == [s \in MCSlots |-> IF s = "r3" THEN "g2" ELSE "g1"]
MCKeys == {"a", "b", "root", "asia"}
MCSessions == {"asia"}

Ask(op, a) == [op |-> op, a |-> a, keys |-> <<>>, props |-> {}, token |-> FALSE]
Create(a) == Ask("CreateAccount", a)
Get(a) == Ask("GetUserAccount", a)
Update(a, props) == [Ask("UpdateUserAccount", a) EXCEPT !.props = props]
Drop(a) == Ask("DeleteUserAccount", a)
List == Ask("ListUserAccounts", "a")
Resolve(keys) == [Ask("ResolveAccounts", "a") EXCEPT !.keys = keys]
Derive(a, token) == [Ask("DeriveSigningKey", a) EXCEPT !.token = token]
Evaluate == Ask("EvaluatePolicy", "a")
OpenIt == Ask("Open", "a")

Quiet == [s \in MCSlots |-> {}]
MCInputs ==
  [changes |->
     [r1 |-> {Create("b"), Update("a", {"Secret"}), Drop("a")},
      r2 |-> {Create("b"), Update("a", {"Role"}), Get("b")},
      r3 |-> {Create("b"), Update("a", {"IDs"})}],
   lookups |->
     [r1 |-> {Create("b"), Update("a", Fields), Drop("a")},
      r2 |-> {Get("a"), Get("b"), Resolve(<<"b", "a">>)},
      r3 |-> {Get("a")}],
   lists |->
     [Quiet EXCEPT !["r1"] = {List}, !["r2"] = {Drop("a"), Create("b"), Get("b")}],
   roots |->
     [r1 |-> {Create("root"), Update("root", {"Secret"}), Drop("root")},
      r2 |-> {Get("root"), Resolve(<<"root", "b">>)},
      r3 |-> {Get("root")}],
   opens |->
     [r1 |-> {Create("b")}, r2 |-> {Get("b")}, r3 |-> {OpenIt}],
   remote |->
     [r1 |-> {Get("a"), Get("b"), Get("root"), Derive("asia", TRUE), Derive("asia", FALSE), Derive("root", TRUE),
              Derive("root", FALSE), Create("b")},
      r2 |-> {Evaluate, Resolve(<<"a", "root", "asia">>), Update("a", {"Role"}), Drop("a"), List},
      r3 |-> {OpenIt}],
   ipa |->
     [r1 |-> {Get("a"), Resolve(<<"root", "a">>)}, r2 |-> {Create("b")}, r3 |-> {OpenIt}],
   single |->
     [r1 |-> {Get("a"), Get("root"), Resolve(<<"a", "root">>)},
      r2 |-> {Create("b"), Update("a", {"Role"}), Drop("a"), List},
      r3 |-> {OpenIt}]]
MCChosen == [m \in Chosen |-> MCInputs[m]]

\* Account a is there, and cached by both gateways or by none.
Stored(there) ==
  [there |-> there, acc |-> [NoAccounts EXCEPT !["a"] = IF there THEN Account("old") ELSE @]]
World(k, c, warm, up) ==
  [kind |-> k, cached |-> c, store |-> Stored(TRUE), server |-> "ours",
   gw |-> [g \in MCGateways |->
     [Gateway(IF g = "g2" THEN up ELSE "yes") EXCEPT
       !.cache = IF c /\ warm THEN [@ EXCEPT !["a"] = Item(Account("old"))] ELSE @]]]
Kinds == {"internal", "s3", "vault", "ldap"}
\* Account b, in the directory or in Vault, has IDs that are not numbers.
Malformed(k) ==
  [World(k, TRUE, FALSE, "yes") EXCEPT
    !.store.acc["b"] = [Account("old") EXCEPT !.of["IDs"] = "bad"]]
MCWorlds ==
  [changes |-> {World(k, FALSE, FALSE, "yes") : k \in Kinds},
   lookups |-> {World(k, TRUE, TRUE, "yes") : k \in Kinds},
   lists |-> {World(k, FALSE, FALSE, "yes") : k \in Kinds} \cup {Malformed("vault"), Malformed("ldap")},
   roots |-> {World(k, TRUE, FALSE, "yes") : k \in Kinds},
   opens |-> {[World(k, TRUE, FALSE, "no") EXCEPT !.store = Stored(t)] : k \in Kinds, t \in BOOLEAN},
   remote |-> {[World("standalone", FALSE, FALSE, "no") EXCEPT
                  !.server = v, !.store.acc["asia"] = Account("old")] : v \in {"older", "newer"}},
   ipa |-> {World("ipa", c, FALSE, "no") : c \in BOOLEAN}
           \cup {[World("ipa", FALSE, FALSE, "no") EXCEPT !.store.acc["a"].of["IDs"] = "bad"]},
   single |-> {[World("single", FALSE, FALSE, "no") EXCEPT !.store = Stored(FALSE)]}]
=============================================================================
