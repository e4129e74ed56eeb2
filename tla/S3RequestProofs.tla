--------------------------- MODULE S3RequestProofs ---------------------------
(***************************************************************************)
(* S3Request for any number of requests and objects, any policies, locks   *)
(* and interleavings: a version is removed, and a retention weakened, only *)
(* on the grounds of locks that the request could see (LocksHold,          *)
(* RetentionsHold).                                                        *)
(*                                                                         *)
(* A step of a request is first reduced to what it does to the program     *)
(* that is left (Stepped).  The invariants say how far a program has come  *)
(* and which grounds for the rest of it the request has seen; what has     *)
(* been seen only grows, so that other requests take no grounds away.      *)
(***************************************************************************)
EXTENDS S3Request, TLAPS

-----------------------------------------------------------------------------
(* Sequences: programs and the history *)

\* A sequence over any set is one.
LEMMA OfSeq ==
  ASSUME NEW S, NEW q \in Seq(S) PROVE IsSeq(q)
  BY DEF IsSeq, Range

\* The length and the places of a sequence.
LEMMA SeqLen ==
  ASSUME NEW q, IsSeq(q)
  PROVE  /\ Len(q) \in Nat /\ DOMAIN q = 1 .. Len(q)
         /\ q = <<>> <=> Len(q) = 0
  BY DEF IsSeq, Range

\* What is left of a program after its first step.
LEMMA TailStep ==
  ASSUME NEW q, IsSeq(q), q # <<>>
  PROVE  /\ IsSeq(Tail(q)) /\ Len(q) \in Nat \ {0} /\ Len(Tail(q)) = Len(q) - 1
         /\ \A i \in 1 .. Len(q) - 1 : Tail(q)[i] = q[i + 1]
         /\ Head(q) = q[1]
<1> DEFINE S == Range(q)
<1>1. q \in Seq(S)
  BY DEF IsSeq
<1> HIDE DEF S
<1>2. Tail(q) \in Seq(S) /\ Len(q) \in Nat \ {0} /\ Len(Tail(q)) = Len(q) - 1
  BY <1>1
<1>3. \A i \in 1 .. Len(q) - 1 : Tail(q)[i] = q[i + 1]
  BY <1>1
<1>4. Head(q) = q[1]
  BY <1>1
<1> QED BY <1>2, <1>3, <1>4, OfSeq

\* What is put before a program comes first, then the program as it was.
LEMMA ConcatStep ==
  ASSUME NEW p, IsSeq(p), NEW q, IsSeq(q)
  PROVE  /\ IsSeq(p \o q) /\ Len(p \o q) = Len(p) + Len(q)
         /\ \A i \in 1 .. Len(p) : (p \o q)[i] = p[i]
         /\ \A i \in 1 .. Len(q) : (p \o q)[Len(p) + i] = q[i]
<1> DEFINE S == Range(p) \cup Range(q)
<1>1. p \in Seq(S) /\ q \in Seq(S)
  BY DEF IsSeq
<1> HIDE DEF S
<1>2. p \o q \in Seq(S) /\ Len(p \o q) = Len(p) + Len(q)
  BY <1>1
<1>3. \A i \in 1 .. Len(p) : (p \o q)[i] = p[i]
  BY <1>1
<1>4. \A i \in 1 .. Len(q) : (p \o q)[Len(p) + i] = q[i]
  BY <1>1
<1> QED BY <1>2, <1>3, <1>4, OfSeq

\* A step that takes the place of the first.
LEMMA OnTop ==
  ASSUME NEW q, IsSeq(q), q # <<>>, NEW x
  PROVE  /\ IsSeq(<<x>> \o Tail(q)) /\ Len(<<x>> \o Tail(q)) = Len(q)
         /\ (<<x>> \o Tail(q))[1] = x
         /\ \A i \in 2 .. Len(q) : (<<x>> \o Tail(q))[i] = q[i]
<1> DEFINE t == Tail(q)
           S == Range(q) \cup {x}
<1>1. q \in Seq(S) /\ x \in S
  BY DEF IsSeq
<1> HIDE DEF S
<1>2. <<x>> \in Seq(S) /\ t \in Seq(S) /\ Len(t) = Len(q) - 1 /\ Len(q) \in Nat \ {0}
  BY <1>1
<1>3. \A i \in 1 .. Len(q) - 1 : t[i] = q[i + 1]
  BY <1>1
<1> HIDE DEF t
<1>4. <<x>> \o t \in Seq(S) /\ Len(<<x>> \o t) = Len(q) /\ (<<x>> \o t)[1] = x
  BY <1>2
<1>5. \A i \in 2 .. Len(q) : (<<x>> \o t)[i] = t[i - 1]
  BY <1>2
<1>6. \A i \in 2 .. Len(q) : (<<x>> \o t)[i] = q[i]
  BY <1>2, <1>3, <1>5
<1> QED BY <1>4, <1>6, OfSeq DEF t

\* Nothing put before a program leaves it as it is.
LEMMA NothingOnTop ==
  ASSUME NEW q, IsSeq(q) PROVE <<>> \o q = q
  BY DEF IsSeq

\* Programs that are written out are sequences.
LEMMA Tuples ==
  /\ IsSeq(<<>>)
  /\ \A a : IsSeq(<<a>>)
  /\ \A a, b : IsSeq(<<a, b>>)
  /\ \A a, b, c : IsSeq(<<a, b, c>>)
  /\ \A a, b, c, d : IsSeq(<<a, b, c, d>>)
  /\ \A a, b, c, d, e : IsSeq(<<a, b, c, d, e>>)
  /\ \A a, b, c, d, e, f : IsSeq(<<a, b, c, d, e, f>>)
  /\ \A a, b, c, d, e, f, g : IsSeq(<<a, b, c, d, e, f, g>>)
  BY DEF IsSeq, Range

-----------------------------------------------------------------------------
(* What a step does to a request *)

\* Every other request stays, and of this one what identifies it.
Keeps(s) ==
  /\ req' = [t \in Slots |-> req'[t]]
  /\ \A t \in Slots \ {s} : req'[t] = req[t]
  /\ DOMAIN Idle \subseteq DOMAIN req'[s]
  /\ req'[s].in = req[s].in /\ req'[s].row = req[s].row /\ req'[s].since = req[s].since
\* ... and the account, the locks read and the keys refused.
KeepsAll(s) ==
  /\ Keeps(s)
  /\ req'[s].acc = req[s].acc /\ req'[s].lock = req[s].lock /\ req'[s].refused = req[s].refused
Fits(s) ==
  /\ req = [t \in Slots |-> req[t]]
  /\ DOMAIN Idle \subseteq DOMAIN req[s]

\* Fail: the request ends with an error and nothing else changes.
LEMMA FailDoes ==
  ASSUME NEW s \in Slots, Fits(s), Fail(s)
  PROVE  KeepsAll(s) /\ req'[s].status = "error" /\ req'[s].todo = <<>> /\ UNCHANGED Shared
  BY DEF Fits, Fail, Keeps, KeepsAll, Idle

\* Advance: the first step is done, the rest is left.
LEMMA AdvanceDoes ==
  ASSUME NEW s \in Slots, Fits(s), NEW r, DOMAIN Idle \subseteq DOMAIN r, Advance(s, r),
         r.in = req[s].in, r.row = req[s].row, r.since = req[s].since, r.todo = req[s].todo,
         r.status = req[s].status
  PROVE  /\ Keeps(s) /\ req'[s].status = req[s].status /\ req'[s].todo = Tail(req[s].todo)
         /\ UNCHANGED Shared
         /\ req'[s].acc = r.acc /\ req'[s].lock = r.lock /\ req'[s].refused = r.refused
  BY DEF Fits, Advance, Keeps, Idle

\* AdvanceBy: steps take the place of the first one.
LEMMA AdvanceByDoes ==
  ASSUME NEW s \in Slots, Fits(s), NEW more, AdvanceBy(s, more)
  PROVE  /\ KeepsAll(s) /\ req'[s].status = req[s].status
         /\ req'[s].todo = more \o Tail(req[s].todo) /\ UNCHANGED Shared
  BY DEF Fits, AdvanceBy, Keeps, KeepsAll, Idle

\* The request is over; it goes on; it goes on with steps that were put in front.
Over(s) ==
  /\ req[s].status = "run" /\ req'[s].status \notin {"run", "idle"}
  /\ KeepsAll(s) /\ req'[s].todo = <<>> /\ UNCHANGED Shared
PlainDo ==
  {"Valid", "Public", "Signature", "IsAdmin", "ParseAcl", "Authorize", "Copy", "Source", "Objects",
   "ListAll", "MayCreate", "Owner", "AclsUsed", "Ownership", "Resolve", "OwnersVary",
   "NoOverrides", "Encrypt"}
Running(s) == req[s].status = "run" /\ req'[s].status = "run" /\ req[s].todo # <<>>
Went(s) ==
  /\ Running(s) /\ Keeps(s) /\ UNCHANGED Shared
  /\ req'[s].todo = Tail(req[s].todo) /\ Head(req[s].todo).do \in PlainDo
  /\ Head(req[s].todo).do # "Signature" => req'[s].acc = req[s].acc
  /\ Head(req[s].todo).do # "Objects" => req'[s].refused = req[s].refused
  /\ req'[s].lock = req[s].lock
Put(s, more) ==
  Running(s) /\ KeepsAll(s) /\ req'[s].todo = more \o Tail(req[s].todo) /\ UNCHANGED Shared
Passed(s) ==
  Running(s) /\ KeepsAll(s) /\ req'[s].todo = Tail(req[s].todo) /\ UNCHANGED Shared

\* An error is the end of a request that runs.
LEMMA FailOver ==
  ASSUME NEW s \in Slots, Fits(s), req[s].status = "run", Fail(s) PROVE Over(s)
  BY FailDoes DEF Over

\* A step that leaves nothing in the request is passed.
LEMMA AdvancePassed ==
  ASSUME NEW s \in Slots, Fits(s), req[s].status = "run", req[s].todo # <<>>, Advance(s, req[s])
  PROVE  Passed(s)
  BY AdvanceDoes DEF Passed, Running, Keeps, KeepsAll, Fits

\* Likewise for a step that has no part in the locks.
LEMMA PassedWent ==
  ASSUME NEW s \in Slots, Passed(s), Head(req[s].todo).do \in PlainDo PROVE Went(s)
  BY DEF Passed, Went, KeepsAll

\* Steps that are put in place of the first one.
LEMMA AdvanceByPut ==
  ASSUME NEW s \in Slots, Fits(s), req[s].status = "run", req[s].todo # <<>>,
         NEW more, AdvanceBy(s, more)
  PROVE  Put(s, more)
  BY AdvanceByDoes DEF Put, Running

\* A check that only lets through or refuses.
LEMMA GateWent ==
  ASSUME NEW s \in Slots, Fits(s), NEW ok, Gate(s, ok), NEW d \in PlainDo, At(s, d)
  PROVE  Over(s) \/ Went(s)
<1>1. CASE Advance(s, req[s])
  BY <1>1, AdvancePassed, PassedWent DEF At
<1>2. CASE Fail(s)
  BY <1>2, FailOver DEF At
<1> QED BY <1>1, <1>2 DEF Gate

\* Validation, middlewares and access checks end the request or go on with the next step.
LEMMA PlainSteps ==
  ASSUME NEW s \in Slots, Fits(s),
         \/ Validate(s) \/ AuthorizePublicBucketAccess(s) \/ VerifyV4Signature(s) \/ IsAdmin(s)
         \/ ParseAcl(s) \/ verifyAccess(s) \/ VerifySource(s) \/ VerifyObjectsAccess(s)
         \/ OtherChecks(s) \/ ProcessController(s)
  PROVE  Over(s) \/ Went(s)
<1> DEFINE d == Head(req[s].todo).do
<1>a. ASSUME NEW x \in PlainDo, At(s, x), Advance(s, req[s]) \/ Fail(s) PROVE Over(s) \/ Went(s)
  BY <1>a, AdvancePassed, PassedWent, FailOver DEF At
<1>b. ASSUME NEW r, DOMAIN Idle \subseteq DOMAIN r, Advance(s, r), NEW x \in PlainDo, At(s, x),
             r.in = req[s].in, r.row = req[s].row, r.since = req[s].since, r.todo = req[s].todo,
             r.status = req[s].status, r.lock = req[s].lock,
             x # "Signature" => r.acc = req[s].acc, x # "Objects" => r.refused = req[s].refused
      PROVE  Went(s)
  BY <1>b, AdvanceDoes DEF Went, Running, At
<1>1. CASE Validate(s)
  BY <1>1, <1>a DEF Validate, PlainDo
<1>2. CASE AuthorizePublicBucketAccess(s)
  <2>1. At(s, "Public") /\ "Public" \in PlainDo
    BY <1>2 DEF AuthorizePublicBucketAccess, PlainDo
  <2>2. Advance(s, req[s]) \/ Fail(s)
    BY <1>2 DEF AuthorizePublicBucketAccess, Gate
  <2> QED BY <2>1, <2>2, <1>a
<1>3. CASE VerifyV4Signature(s)
  <2>1. At(s, "Signature") /\ "Signature" \in PlainDo
    BY <1>3 DEF VerifyV4Signature, PlainDo
  <2>2. CASE Advance(s, req[s]) \/ Fail(s)
    BY <2>1, <2>2, <1>a
  <2>3. ASSUME NEW a, Advance(s, [req[s] EXCEPT !.acc = a]) PROVE Went(s)
    <3> DEFINE r == [req[s] EXCEPT !.acc = a]
    <3>1. /\ DOMAIN Idle \subseteq DOMAIN r
          /\ r.in = req[s].in /\ r.row = req[s].row /\ r.since = req[s].since
          /\ r.todo = req[s].todo /\ r.status = req[s].status /\ r.lock = req[s].lock
          /\ r.refused = req[s].refused
      BY DEF Fits, Idle
    <3>2. Advance(s, r)
      BY <2>3
    <3> HIDE DEF r
    <3> QED BY <3>1, <3>2, <2>1, <1>b
  <2> QED BY <1>3, <2>2, <2>3 DEF VerifyV4Signature
<1>4. CASE IsAdmin(s)
  BY <1>4, <1>a DEF IsAdmin, Gate, PlainDo
<1>5. CASE ParseAcl(s)
  <2>1. At(s, "ParseAcl") /\ "ParseAcl" \in PlainDo
    BY <1>5 DEF ParseAcl, PlainDo
  <2> DEFINE r == [req[s] EXCEPT !.acl = bkt.acl]
  <2>2. CASE Fail(s)
    BY <2>1, <2>2, FailOver DEF At
  <2>3. CASE Advance(s, r)
    <3>1. /\ DOMAIN Idle \subseteq DOMAIN r
          /\ r.in = req[s].in /\ r.row = req[s].row /\ r.since = req[s].since
          /\ r.todo = req[s].todo /\ r.status = req[s].status /\ r.lock = req[s].lock
          /\ r.refused = req[s].refused /\ r.acc = req[s].acc
      BY DEF Fits, Idle
    <3> HIDE DEF r
    <3> QED BY <3>1, <2>1, <2>3, <1>b
  <2> QED BY <1>5, <2>2, <2>3 DEF ParseAcl
<1>6. CASE verifyAccess(s)
  BY <1>6, <1>a DEF verifyAccess, Gate, PlainDo
<1>7. CASE VerifySource(s)
  BY <1>7, <1>a DEF VerifySource, Gate, PlainDo
<1>8. CASE VerifyObjectsAccess(s)
  <2>1. At(s, "Objects") /\ "Objects" \in PlainDo
    BY <1>8 DEF VerifyObjectsAccess, PlainDo
  <2>2. CASE Fail(s)
    BY <2>1, <2>2, FailOver DEF At
  <2>3. ASSUME NEW x, Advance(s, [req[s] EXCEPT !.refused = x]) PROVE Went(s)
    <3> DEFINE r == [req[s] EXCEPT !.refused = x]
    <3>1. /\ DOMAIN Idle \subseteq DOMAIN r
          /\ r.in = req[s].in /\ r.row = req[s].row /\ r.since = req[s].since
          /\ r.todo = req[s].todo /\ r.status = req[s].status /\ r.lock = req[s].lock
          /\ r.acc = req[s].acc
      BY DEF Fits, Idle
    <3>2. Advance(s, r)
      BY <2>3
    <3> HIDE DEF r
    <3> QED BY <3>1, <3>2, <2>1, <1>b
  <2> QED BY <1>8, <2>2, <2>3 DEF VerifyObjectsAccess
<1>9. CASE OtherChecks(s)
  BY <1>9, <1>a, FailOver DEF OtherChecks, Gate, PlainDo, At
<1>10. CASE ProcessController(s)
  BY <1>10 DEF ProcessController, Over, Keeps, KeepsAll, Fits, Idle
<1> QED BY <1>1, <1>2, <1>3, <1>4, <1>5, <1>6, <1>7, <1>8, <1>9, <1>10

\* VerifyObjectCopyAccess may have the source of the copy checked next.
LEMMA CopySteps ==
  ASSUME NEW s \in Slots, Fits(s), VerifyObjectCopyAccess(s)
  PROVE  Over(s) \/ Went(s) \/ (At(s, "Copy") /\ Put(s, <<Do("Source")>>))
<1>1. At(s, "Copy") /\ "Copy" \in PlainDo
  BY DEF VerifyObjectCopyAccess, PlainDo
<1>2. Fail(s) \/ Advance(s, req[s]) \/ AdvanceBy(s, <<Do("Source")>>)
  BY DEF VerifyObjectCopyAccess
<1> QED BY <1>1, <1>2, FailOver, AdvancePassed, PassedWent, AdvanceByPut DEF At

\* An object is refused: the request ends, or the batch goes on without it.
Refuses(s, key) ==
  \/ Over(s)
  \/ /\ Batch(req[s]) /\ Running(s) /\ Keeps(s) /\ UNCHANGED Shared
     /\ req'[s].todo = Tail(req[s].todo) /\ req'[s].refused = req[s].refused \cup {key}
     /\ req'[s].acc = req[s].acc /\ req'[s].lock = req[s].lock

\* A locked object ends the request or, in a batch, is left out of it.
LEMMA RefuseKeyDoes ==
  ASSUME NEW s \in Slots, Fits(s), req[s].status = "run", req[s].todo # <<>>,
         NEW key, RefuseKey(s, key)
  PROVE  Refuses(s, key)
<1>1. CASE ~ Batch(req[s])
  BY <1>1, FailOver DEF RefuseKey, Refuses
<1>2. CASE Batch(req[s])
  <2> DEFINE r == [req[s] EXCEPT !.refused = @ \cup {key}]
  <2>1. /\ DOMAIN Idle \subseteq DOMAIN r
        /\ r.in = req[s].in /\ r.row = req[s].row /\ r.since = req[s].since
        /\ r.todo = req[s].todo /\ r.status = req[s].status /\ r.lock = req[s].lock
        /\ r.acc = req[s].acc /\ r.refused = req[s].refused \cup {key}
    BY DEF Fits, Idle
  <2>2. Advance(s, r)
    BY <1>2 DEF RefuseKey
  <2> HIDE DEF r
  <2> QED BY <1>2, <2>1, <2>2, AdvanceDoes DEF Refuses, Running
<1> QED BY <1>1, <1>2

Loads(s) ==
  /\ Running(s) /\ Keeps(s) /\ UNCHANGED Shared
  /\ req'[s].acc = req[s].acc /\ req'[s].refused = req[s].refused
  /\ req'[s].lock = loadObjectLockState(bkt.versioning, bkt.lock, Step(s).overwrite)
ChecksLeft(s) ==
  [i \in DOMAIN Checked(req[s]) |->
     CheckOf("CheckRetention", Checked(req[s])[i], Step(s).bypass,
             req[s].in.version /\ ~ Step(s).overwrite)]

\* loadObjectLockState: either the configuration of the bucket protects nothing that the
\* request removes, or a check of every object comes next.
LEMMA LoadDoes ==
  ASSUME NEW s \in Slots, Fits(s), LoadLockState(s)
  PROVE  /\ At(s, "LoadLock") /\ Loads(s)
         /\ \/ /\ \/ ~ bkt.lock.enabled
                  \/ bkt.versioning = "Enabled" /\ (~ req[s].in.version \/ Step(s).overwrite)
               /\ req'[s].todo = <<>> \o Tail(req[s].todo)
            \/ req'[s].todo = ChecksLeft(s) \o Tail(req[s].todo)
<1> DEFINE st == loadObjectLockState(bkt.versioning, bkt.lock, Step(s).overwrite)
           more == IF st.applies /\ ~ (st.enabled /\ (~ req[s].in.version \/ Step(s).overwrite))
                   THEN ChecksLeft(s) ELSE <<>>
<1>1. /\ At(s, "LoadLock") /\ UNCHANGED Shared
      /\ req' = [req EXCEPT ![s].lock = st, ![s].todo = more \o Tail(@)]
  BY DEF LoadLockState, ChecksLeft
<1>2. \/ /\ \/ ~ bkt.lock.enabled
            \/ bkt.versioning = "Enabled" /\ (~ req[s].in.version \/ Step(s).overwrite)
         /\ more = <<>>
      \/ more = ChecksLeft(s)
  BY DEF loadObjectLockState
<1> HIDE DEF st, more
<1>3. /\ Keeps(s) /\ req'[s].status = req[s].status /\ req'[s].acc = req[s].acc
      /\ req'[s].refused = req[s].refused /\ req'[s].lock = st
      /\ req'[s].todo = more \o Tail(req[s].todo)
  BY <1>1 DEF Fits, Keeps, Idle
<1> QED BY <1>1, <1>2, <1>3 DEF Loads, Running, At, st

\* checkObject, the retention: what each way on says about the stored retention.
LEMMA RetentionDoes ==
  ASSUME NEW s \in Slots, Fits(s), CheckRetentionStep(s)
  PROVE  LET k == Step(s).key
             lock == StoredLock(obj[k], Step(s).named)
         IN  /\ At(s, "CheckRetention")
             /\ \/ Batch(req[s]) /\ k \in req[s].refused /\ Passed(s)
                \/ (lock = Absent \/ (lock.mode # "none" /\ lock.until = 0)) /\ Passed(s)
                \/ Refuses(s, k)
                \/ lock.mode = "none" /\ Put(s, <<HoldOf(Step(s))>>)
                \/ /\ lock.mode # "COMPLIANCE" /\ Step(s).bypass # "none"
                   /\ Put(s, <<Bypass(k, Step(s).bypass, Step(s).named, TRUE, TRUE)>>)
<1> DEFINE k == Step(s).key
           lock == StoredLock(obj[k], Step(s).named)
           hold == HoldOf(Step(s))
           by == <<Bypass(k, Step(s).bypass, Step(s).named, TRUE, TRUE)>>
           says == IF lock = Absent THEN "free" ELSE checkRetention(lock, Step(s).bypass)
<1>1. /\ At(s, "CheckRetention")
      /\ IF Batch(req[s]) /\ k \in req[s].refused THEN Advance(s, req[s])
         ELSE CASE says = "free" -> Advance(s, req[s])
                [] says = "locked" -> RefuseKey(s, k)
                [] says = "hold" -> AdvanceBy(s, <<hold>>)
                [] OTHER -> AdvanceBy(s, by)
  BY DEF CheckRetentionStep
<1>2. /\ says = "free" => lock = Absent \/ (lock.mode # "none" /\ lock.until = 0)
      /\ says = "hold" => lock.mode = "none"
      /\ says \notin {"free", "locked", "hold"} => lock.mode # "COMPLIANCE" /\ Step(s).bypass # "none"
  BY DEF checkRetention
<1> HIDE DEF k, lock, hold, by, says
<1>3. \/ Batch(req[s]) /\ k \in req[s].refused /\ Advance(s, req[s])
      \/ says = "free" /\ Advance(s, req[s])
      \/ RefuseKey(s, k)
      \/ says = "hold" /\ AdvanceBy(s, <<hold>>)
      \/ says \notin {"free", "locked", "hold"} /\ AdvanceBy(s, by)
  BY <1>1
<1>4. req[s].status = "run" /\ req[s].todo # <<>>
  BY <1>1 DEF At
<1>5. Advance(s, req[s]) => Passed(s)
  BY <1>4, AdvancePassed
<1>6. RefuseKey(s, k) => Refuses(s, k)
  BY <1>4, RefuseKeyDoes
<1>7. AdvanceBy(s, <<hold>>) => Put(s, <<hold>>)
  BY <1>4, AdvanceByPut
<1>8. AdvanceBy(s, by) => Put(s, by)
  BY <1>4, AdvanceByPut
<1> QED BY <1>1, <1>2, <1>3, <1>5, <1>6, <1>7, <1>8 DEF k, lock, hold, by

\* checkObject, the legal hold and the default retention of the bucket.
LEMMA HoldDoes ==
  ASSUME NEW s \in Slots, Fits(s), CheckHoldStep(s)
  PROVE  LET k == Step(s).key
             lock == StoredLock(obj[k], Step(s).named)
         IN  /\ At(s, "CheckHold")
             /\ \/ (lock = Absent \/ (~ lock.hold /\ req[s].lock.default = "none")) /\ Passed(s)
                \/ Refuses(s, k)
                \/ /\ ~ lock.hold /\ req[s].lock.default # "COMPLIANCE" /\ Step(s).bypass # "none"
                   /\ Put(s, <<Bypass(k, Step(s).bypass, Step(s).named, TRUE, FALSE)>>)
<1> DEFINE k == Step(s).key
           lock == StoredLock(obj[k], Step(s).named)
           by == <<Bypass(k, Step(s).bypass, Step(s).named, TRUE, FALSE)>>
           says == IF lock = Absent THEN "free" ELSE checkHold(lock, req[s].lock, Step(s).bypass)
<1>1. /\ At(s, "CheckHold")
      /\ CASE says = "free" -> Advance(s, req[s])
           [] says = "locked" -> RefuseKey(s, k)
           [] OTHER -> AdvanceBy(s, by)
  BY DEF CheckHoldStep
<1>2. /\ says = "free" => lock = Absent \/ (~ lock.hold /\ req[s].lock.default = "none")
      /\ says \notin {"free", "locked"} =>
           ~ lock.hold /\ req[s].lock.default # "COMPLIANCE" /\ Step(s).bypass # "none"
  BY DEF checkHold
<1> HIDE DEF k, lock, by, says
<1>3. \/ says = "free" /\ Advance(s, req[s])
      \/ RefuseKey(s, k)
      \/ says \notin {"free", "locked"} /\ AdvanceBy(s, by)
  BY <1>1
<1>4. req[s].status = "run" /\ req[s].todo # <<>>
  BY <1>1 DEF At
<1>5. Advance(s, req[s]) => Passed(s)
  BY <1>4, AdvancePassed
<1>6. RefuseKey(s, k) => Refuses(s, k)
  BY <1>4, RefuseKeyDoes
<1>7. AdvanceBy(s, by) => Put(s, by)
  BY <1>4, AdvanceByPut
<1> QED BY <1>1, <1>2, <1>3, <1>5, <1>6, <1>7 DEF k, lock, by

\* verifyBypassGovernancePermission: the request goes on only with the permission.
LEMMA BypassDoes ==
  ASSUME NEW s \in Slots, Fits(s), BypassStep(s)
  PROVE  /\ At(s, "Bypass")
         /\ \/ Refuses(s, Step(s).key)
            \/ /\ verifyBypassGovernancePermission(bkt.policy, cfg.iam, Account(req[s], Step(s).pub),
                                                   Step(s).key, Step(s).bypass)
               /\ Put(s, IF Step(s).hold THEN <<HoldOf(Step(s))>> ELSE <<>>)
<1>1. At(s, "Bypass") /\ req[s].status = "run" /\ req[s].todo # <<>>
  BY DEF BypassStep, At
<1>2. \/ RefuseKey(s, Step(s).key)
      \/ /\ verifyBypassGovernancePermission(bkt.policy, cfg.iam, Account(req[s], Step(s).pub),
                                             Step(s).key, Step(s).bypass)
         /\ AdvanceBy(s, IF Step(s).hold THEN <<HoldOf(Step(s))>> ELSE <<>>)
  BY DEF BypassStep
<1>3. RefuseKey(s, Step(s).key) => Refuses(s, Step(s).key)
  BY <1>1, RefuseKeyDoes
<1>4. ASSUME NEW more, AdvanceBy(s, more) PROVE Put(s, more)
  BY <1>1, <1>4, AdvanceByPut
<1> QED BY <1>1, <1>2, <1>3, <1>4

\* IsObjectLockRetentionPutAllowed: what each way on says about the stored retention.
LEMMA RetainDoes ==
  ASSUME NEW s \in Slots, Fits(s), RetentionPutAllowed(s)
  PROVE  LET lock == StoredLock(obj[req[s].in.key], req[s].in.version)
             new == req[s].in.arg.lock
         IN  /\ At(s, "Retain")
             /\ \/ Over(s)
                \/ /\ lock.mode = "none" \/ (lock.mode = new.mode /\ new.until >= lock.until)
                   /\ Passed(s)
                \/ /\ lock.mode # "COMPLIANCE" /\ req[s].in.bypass
                   /\ Put(s, <<Bypass(req[s].in.key, "requested", req[s].in.version, FALSE, FALSE)>>)
<1> DEFINE lock == StoredLock(obj[req[s].in.key], req[s].in.version)
           new == req[s].in.arg.lock
           by == <<Bypass(req[s].in.key, "requested", req[s].in.version, FALSE, FALSE)>>
           says == IF lock = Absent THEN "locked"
                   ELSE IsObjectLockRetentionPutAllowed(lock, new, req[s].in.bypass)
<1>1. /\ At(s, "Retain")
      /\ CASE says = "free" -> Advance(s, req[s])
           [] says = "locked" -> Fail(s)
           [] OTHER -> AdvanceBy(s, by)
  BY DEF RetentionPutAllowed
<1>2. /\ says = "free" => lock.mode = "none" \/ (lock.mode = new.mode /\ new.until >= lock.until)
      /\ says \notin {"free", "locked"} => lock.mode # "COMPLIANCE" /\ req[s].in.bypass
  BY DEF IsObjectLockRetentionPutAllowed
<1> HIDE DEF lock, new, by, says
<1>3. \/ says = "free" /\ Advance(s, req[s])
      \/ Fail(s)
      \/ says \notin {"free", "locked"} /\ AdvanceBy(s, by)
  BY <1>1
<1>4. req[s].status = "run" /\ req[s].todo # <<>>
  BY <1>1 DEF At
<1>5. Advance(s, req[s]) => Passed(s)
  BY <1>4, AdvancePassed
<1>6. Fail(s) => Over(s)
  BY <1>4, FailOver
<1>7. AdvanceBy(s, by) => Put(s, by)
  BY <1>4, AdvanceByPut
<1> QED BY <1>1, <1>2, <1>3, <1>5, <1>6, <1>7 DEF lock, new, by

\* The backend call that is answered.
Acts(s) ==
  /\ At(s, "Call") /\ Running(s) /\ KeepsAll(s) /\ req'[s].todo = Tail(req[s].todo)
  /\ bkt' = BucketAfter(Step(s).name, req[s]) /\ obj' = ObjectsAfter(Step(s).name, s, req[s])
  /\ role' = RolesAfter(Step(s).name, req[s]) /\ cfg' = cfg
  /\ hist' = IF <<bkt, obj, role>>' = <<bkt, obj, role>> THEN hist
             ELSE Append(hist, [bkt |-> bkt', obj |-> obj', role |-> role'])

\* A backend call fails without an effect or acts.
LEMMA CallDoes ==
  ASSUME NEW s \in Slots, Fits(s), CallBackend(s) PROVE Over(s) \/ Acts(s)
<1>1. CASE Fail(s)
  BY <1>1, FailOver DEF CallBackend, At
<1>2. CASE ~ Fail(s)
  <2>1. /\ At(s, "Call") /\ req' = [req EXCEPT ![s].todo = Tail(@)]
        /\ bkt' = BucketAfter(Step(s).name, req[s]) /\ obj' = ObjectsAfter(Step(s).name, s, req[s])
        /\ role' = RolesAfter(Step(s).name, req[s]) /\ cfg' = cfg
        /\ hist' = IF <<bkt, obj, role>>' = <<bkt, obj, role>> THEN hist
                   ELSE Append(hist, [bkt |-> bkt', obj |-> obj', role |-> role'])
    BY <1>2 DEF CallBackend
  <2>2. KeepsAll(s) /\ req'[s].status = req[s].status /\ req'[s].todo = Tail(req[s].todo)
    BY <2>1 DEF Fits, Keeps, KeepsAll, Idle
  <2> QED BY <2>1, <2>2 DEF Acts, Running, At
<1> QED BY <1>1, <1>2

\* Every step of a request is one of these.
Stepped(s) ==
  \/ Begin(s) \/ Over(s) \/ Went(s) \/ (At(s, "Copy") /\ Put(s, <<Do("Source")>>))
  \/ LoadLockState(s) \/ CheckRetentionStep(s) \/ CheckHoldStep(s) \/ BypassStep(s)
  \/ RetentionPutAllowed(s) \/ Acts(s)

\* Every step of a request is of one of the kinds above.
LEMMA StepIs ==
  ASSUME NEW s \in Slots, Fits(s), RequestStep(s) PROVE Stepped(s)
  BY PlainSteps, CopySteps, CallDoes DEF RequestStep, Stepped

-----------------------------------------------------------------------------
(* The programs *)

\* Every controller is a sequence of steps; none calls what removes but the five,
\* and the form upload.
LEMMA ControllerIsSeq ==
  ASSUME NEW name, NEW r PROVE IsSeq(Controller(name, r))
<1>1. IsSeq(AdminCreateBucket)
  BY Tuples, ConcatStep DEF AdminCreateBucket, CreateBucket
<1> QED
  BY <1>1, Tuples DEF Controller, ListBuckets, CreateBucket, HeadBucket, GetBucketLocation, DeleteBucket,
    ListObjects, ListObjectsV2, ListObjectVersions, ListMultipartUploads, GetBucketTagging,
    PutBucketTagging, DeleteBucketTagging, GetBucketOwnershipControls, PutBucketOwnershipControls,
    DeleteBucketOwnershipControls, GetBucketVersioning, PutBucketVersioning,
    GetObjectLockConfiguration, PutObjectLockConfiguration, GetBucketCors, PutBucketCors,
    DeleteBucketCors, CORSOptions, GetBucketWebsite, PutBucketWebsite, DeleteBucketWebsite,
    GetBucketPolicy, GetBucketPolicyStatus, PutBucketPolicy, DeleteBucketPolicy, GetBucketAcl,
    PutBucketAcl, GetBucketEncryption, PutBucketEncryption, DeleteBucketEncryption,
    GetBucketLifecycleConfiguration, PutBucketLifecycleConfiguration, DeleteBucketLifecycle,
    GetObject, HeadObject, GetObjectAttributes, GetObjectAcl, PutObjectAcl, SelectObjectContent,
    RestoreObject, GetObjectTagging, PutObjectTagging, DeleteObjectTagging, GetObjectRetention,
    PutObjectRetention, GetObjectLegalHold, PutObjectLegalHold, PutObject, POSTObject, CopyObject,
    DeleteObject, DeleteObjects, CreateMultipartUpload, UploadPart, UploadPartCopy, ListParts,
    AbortMultipartUpload, CompleteMultipartUpload, CreateUser, UpdateUser, DeleteUser, ListUsers,
    AdminListBuckets, ChangeBucketOwner, HandleErrorRoute

Mild(x) ==
  /\ x.do = "Call" => x.name \notin Removers
  /\ x.do \notin {"LoadLock", "CheckRetention", "CheckHold", "Bypass"}

\* The steps that handlers are made of, but for calls that remove and lock checks.
LEMMA MildSteps ==
  /\ \A perm, on, actions, pub : Mild(Authorize(perm, on, actions, pub))
  /\ \A actions, pub : Mild(CopyAccess(actions, pub))
  /\ Mild(Valid) /\ Mild(ResolveEncryption)
  /\ \A w \in {"ListAll", "MayCreate", "Resolve", "Owner", "AclsUsed", "Ownership", "NoOverrides",
              "Retain", "OwnersVary", "Refuse", "Valid", "Public", "Signature", "IsAdmin", "ParseAcl"} :
       Mild(Do(w))
  /\ \A n : n \notin Removers => Mild(Call(n))
  BY DEF Mild, Authorize, CopyAccess, Valid, ResolveEncryption, Do, Call

\* Short programs of such steps.
LEMMA MildTuples ==
  /\ Harmless(<<>>)
  /\ \A a : Mild(a) => Harmless(<<a>>)
  /\ \A a, b : Mild(a) /\ Mild(b) => Harmless(<<a, b>>)
  /\ \A a, b, c : Mild(a) /\ Mild(b) /\ Mild(c) => Harmless(<<a, b, c>>)
  /\ \A a, b, c, d : Mild(a) /\ Mild(b) /\ Mild(c) /\ Mild(d) => Harmless(<<a, b, c, d>>)
  /\ \A a, b, c, d, e, f, g :
       Mild(a) /\ Mild(b) /\ Mild(c) /\ Mild(d) /\ Mild(e) /\ Mild(f) /\ Mild(g)
       => Harmless(<<a, b, c, d, e, f, g>>)
  BY DEF Mild, Harmless

\* Two programs one after the other.
LEMMA HarmlessConcat ==
  ASSUME NEW p, IsSeq(p), Harmless(p), NEW q, IsSeq(q), Harmless(q) PROVE Harmless(p \o q)
<1>1. /\ IsSeq(p \o q) /\ Len(p \o q) = Len(p) + Len(q)
      /\ \A i \in 1 .. Len(p) : (p \o q)[i] = p[i]
      /\ \A i \in 1 .. Len(q) : (p \o q)[Len(p) + i] = q[i]
  BY ConcatStep
<1>2. /\ DOMAIN p = 1 .. Len(p) /\ DOMAIN q = 1 .. Len(q) /\ DOMAIN (p \o q) = 1 .. Len(p \o q)
      /\ Len(p) \in Nat /\ Len(q) \in Nat
  BY <1>1, SeqLen
<1>3. ASSUME NEW i \in DOMAIN (p \o q)
      PROVE  \/ i \in DOMAIN p /\ (p \o q)[i] = p[i]
             \/ i - Len(p) \in DOMAIN q /\ (p \o q)[i] = q[i - Len(p)]
  <2>1. CASE i <= Len(p)
    BY <2>1, <1>1, <1>2
  <2>2. CASE i > Len(p)
    <3>1. i - Len(p) \in 1 .. Len(q) /\ Len(p) + (i - Len(p)) = i
      BY <2>2, <1>1, <1>2
    <3> QED BY <3>1, <1>1, <1>2
  <2> QED BY <2>1, <2>2, <1>1, <1>2
<1> QED BY <1>3 DEF Harmless

\* No controller but those in Removers and the form upload has a call that removes.
LEMMA ControllerHarmless ==
  ASSUME NEW name, name \notin Removers \cup {"POSTObject"}, NEW r PROVE Harmless(Controller(name, r))
<1>1. Harmless(AdminCreateBucket)
  <2>1. Harmless(<<Valid, Do("Resolve")>>)
    BY MildSteps, MildTuples
  <2>2. Harmless(CreateBucket)
    BY MildSteps, MildTuples DEF CreateBucket, Removers
  <2>3. IsSeq(<<Valid, Do("Resolve")>>) /\ IsSeq(CreateBucket)
    BY Tuples DEF CreateBucket
  <2> QED BY <2>1, <2>2, <2>3, HarmlessConcat DEF AdminCreateBucket
<1> QED
  BY <1>1, MildSteps, MildTuples DEF Removers, BucketStep, ObjectStep, authorizeEncryption, authorizeLifecycle, Controller, ListBuckets, CreateBucket, HeadBucket, GetBucketLocation, DeleteBucket,
    ListObjects, ListObjectsV2, ListObjectVersions, ListMultipartUploads, GetBucketTagging,
    PutBucketTagging, DeleteBucketTagging, GetBucketOwnershipControls, PutBucketOwnershipControls,
    DeleteBucketOwnershipControls, GetBucketVersioning, PutBucketVersioning,
    GetObjectLockConfiguration, PutObjectLockConfiguration, GetBucketCors, PutBucketCors,
    DeleteBucketCors, CORSOptions, GetBucketWebsite, PutBucketWebsite, DeleteBucketWebsite,
    GetBucketPolicy, GetBucketPolicyStatus, PutBucketPolicy, DeleteBucketPolicy, GetBucketAcl,
    PutBucketAcl, GetBucketEncryption, PutBucketEncryption, DeleteBucketEncryption,
    GetBucketLifecycleConfiguration, PutBucketLifecycleConfiguration, DeleteBucketLifecycle,
    GetObject, HeadObject, GetObjectAttributes, GetObjectAcl, PutObjectAcl, SelectObjectContent,
    RestoreObject, GetObjectTagging, PutObjectTagging, DeleteObjectTagging, GetObjectRetention,
    PutObjectRetention, GetObjectLegalHold, PutObjectLegalHold, PutObject, POSTObject, CopyObject,
    DeleteObject, DeleteObjects, CreateMultipartUpload, UploadPart, UploadPartCopy, ListParts,
    AbortMultipartUpload, CompleteMultipartUpload, CreateUser, UpdateUser, DeleteUser, ListUsers,
    AdminListBuckets, ChangeBucketOwner, HandleErrorRoute

\* The handlers of a route come first, then its controller.
FirstDo == {"Valid", "Public", "Signature", "IsAdmin", "ParseAcl"}

\* ProcessHandlers: middlewares first, then the controller.
LEMMA HandlersAre ==
  ASSUME NEW row, NEW in
  PROVE  \E p : /\ IsSeq(p) /\ ProcessHandlers(row, in) = p \o Controller(row.controller, in)
               /\ \A i \in 1 .. Len(p) : p[i].do \in FirstDo
<1> DEFINE acl == IF row.acl THEN <<Do("ParseAcl")>> ELSE <<>>
           pre == IF row.auth = "admin" THEN <<Do("Signature"), Do("IsAdmin")>>
                  ELSE IF row.auth = "none" THEN IF row.acl THEN <<Do("Valid")>> ELSE <<>>
                  ELSE IF row.controller = "POSTObject" THEN <<Do("Valid"), Do("Signature"), Do("Public")>>
                  ELSE <<Do("Valid"), Do("Public"), Do("Signature"), Do("Valid")>>
           p == pre \o acl
<1>1. IsSeq(acl) /\ IsSeq(pre)
  BY Tuples
<1>2. ProcessHandlers(row, in) = p \o Controller(row.controller, in)
  BY DEF ProcessHandlers
<1>3. \A i \in 1 .. Len(acl) : acl[i].do \in FirstDo
  BY DEF Do, FirstDo
<1>4. \A i \in 1 .. Len(pre) : pre[i].do \in FirstDo
  BY DEF Do, FirstDo
<1> HIDE DEF acl, pre
<1>5. /\ IsSeq(p) /\ Len(p) = Len(pre) + Len(acl) /\ Len(pre) \in Nat /\ Len(acl) \in Nat
      /\ \A i \in 1 .. Len(pre) : p[i] = pre[i]
      /\ \A i \in 1 .. Len(acl) : p[Len(pre) + i] = acl[i]
  BY <1>1, ConcatStep, SeqLen
<1>6. ASSUME NEW i \in 1 .. Len(p) PROVE p[i].do \in FirstDo
  <2>1. CASE i <= Len(pre)
    BY <2>1, <1>4, <1>5
  <2>2. CASE i > Len(pre)
    <3>1. i - Len(pre) \in 1 .. Len(acl) /\ i = Len(pre) + (i - Len(pre))
      BY <2>2, <1>5
    <3> QED BY <3>1, <1>3, <1>5
  <2> QED BY <2>1, <2>2, <1>5
<1> QED BY <1>2, <1>5, <1>6

\* The program of a request is a sequence.
LEMMA HandlersIsSeq ==
  ASSUME NEW row, NEW in PROVE IsSeq(ProcessHandlers(row, in))
<1>1. PICK p : IsSeq(p) /\ ProcessHandlers(row, in) = p \o Controller(row.controller, in)
  BY HandlersAre
<1> QED BY <1>1, ControllerIsSeq, ConcatStep

\* ControllerHarmless for the whole program of a route.
LEMMA HandlersHarmless ==
  ASSUME NEW row, row.controller \notin Removers \cup {"POSTObject"}, NEW in
  PROVE  Harmless(ProcessHandlers(row, in))
<1>1. PICK p : /\ IsSeq(p) /\ ProcessHandlers(row, in) = p \o Controller(row.controller, in)
               /\ \A i \in 1 .. Len(p) : p[i].do \in FirstDo
  BY HandlersAre
<1>2. Harmless(p)
  BY <1>1, SeqLen DEF Harmless, FirstDo
<1> QED BY <1>1, <1>2, ControllerHarmless, ControllerIsSeq, HarmlessConcat

-----------------------------------------------------------------------------
(* What a request has seen *)

Grows == hist' = hist \/ \E x : hist' = Append(hist, x)

\* The history only grows.
LEMMA Grown ==
  ASSUME IsSeq(hist), Grows
  PROVE  IsSeq(hist') /\ Len(hist') >= Len(hist) /\ \A i \in 1 .. Len(hist) : hist'[i] = hist[i]
<1>1. CASE hist' = hist
  BY <1>1, SeqLen
<1>2. ASSUME NEW x, hist' = Append(hist, x)
      PROVE  IsSeq(hist') /\ Len(hist') >= Len(hist) /\ \A i \in 1 .. Len(hist) : hist'[i] = hist[i]
  <2> DEFINE S == Range(hist) \cup {x}
  <2>1. hist \in Seq(S) /\ x \in S
    BY DEF IsSeq
  <2> HIDE DEF S
  <2>2. hist' \in Seq(S) /\ Len(hist') = Len(hist) + 1 /\ \A i \in 1 .. Len(hist) : hist'[i] = hist[i]
    BY <1>2, <2>1
  <2> QED BY <2>1, <2>2, OfSeq
<1> QED BY <1>1, <1>2 DEF Grows

\* What a request has seen stays seen.
LEMMA SeenGrows ==
  ASSUME Recorded, Grows, NEW s \in Slots, req[s].status # "idle", req'[s].since = req[s].since
  PROVE  Seen(s) \subseteq Seen(s)'
<1>1. /\ IsSeq(hist') /\ Len(hist') >= Len(hist) /\ \A i \in 1 .. Len(hist) : hist'[i] = hist[i]
      /\ Len(hist) \in Nat /\ Len(hist') \in Nat
  BY Grown, SeqLen DEF Recorded
<1>2. req[s].since \in 1 .. Len(hist)
  BY DEF Recorded
<1>3. ASSUME NEW i \in req[s].since .. Len(hist)
      PROVE  i \in req'[s].since .. Len(hist') /\ hist'[i] = hist[i]
  BY <1>1, <1>2
<1> QED BY <1>3 DEF Seen

\* A request that has begun has seen what is.
LEMMA SeesNow ==
  ASSUME Recorded, NEW s \in Slots, req[s].status # "idle"
  PROVE  \E h \in Seen(s) : h.bkt = bkt /\ h.obj = obj /\ h.role = role
<1>1. Len(hist) \in req[s].since .. Len(hist)
  BY SeqLen DEF Recorded
<1>2. hist[Len(hist)] \in Seen(s)
  BY <1>1 DEF Seen
<1> QED BY <1>2 DEF Recorded

\* Recorded says of a request what the lemmas about single steps need.
LEMMA RecordedFits ==
  ASSUME Recorded, NEW s \in Slots PROVE Fits(s)
  BY DEF Recorded, Fits

\* In the beginning no request runs.
LEMMA InitIdle == Init => \A s \in Slots : req[s].status = "idle"
<1>1. Init => \A s \in Slots : req[s] = Idle
  BY DEF Init
<1>2. Idle.status = "idle"
  BY DEF Idle
<1> QED BY <1>1, <1>2

\* In the beginning the history is what is.
LEMMA InitRecorded == Init => Recorded
<1> SUFFICES ASSUME Init PROVE Recorded
  OBVIOUS
<1>1. PICK w \in Worlds :
        /\ cfg = w.cfg /\ bkt = w.bkt /\ obj = w.obj /\ role = w.role
        /\ hist = <<[bkt |-> w.bkt, obj |-> w.obj, role |-> w.role]>>
        /\ req = [s \in Slots |-> Idle]
  BY DEF Init
<1>2. IsSeq(hist) /\ hist # <<>> /\ Len(hist) = 1 /\ hist[1] = [bkt |-> bkt, obj |-> obj, role |-> role]
  BY <1>1, Tuples
<1>3. cfg.mix \in DOMAIN Inputs /\ obj \in [AllKeys -> Objects]
  BY <1>1, WorldsAssumption
<1>4. \A s \in Slots : req[s] = Idle
  BY <1>1
<1>5. Idle.todo = <<>> /\ Idle.status = "idle"
  BY DEF Idle
<1> QED BY <1>1, <1>2, <1>3, <1>4, <1>5, Tuples DEF Recorded

\* A step adds to the history, if anything, what it has made.
LEMMA StepGrows ==
  ASSUME Recorded, NEW s \in Slots, Stepped(s)
  PROVE  /\ Grows /\ cfg' = cfg /\ req' = [t \in Slots |-> req'[t]]
         /\ \A t \in Slots \ {s} : req'[t] = req[t]
         /\ hist' # <<>> /\ hist'[Len(hist')] = [bkt |-> bkt', obj |-> obj', role |-> role']
<1>0. Fits(s)
  BY RecordedFits
<1>1. CASE UNCHANGED Shared /\ req' = [t \in Slots |-> req'[t]] /\ \A t \in Slots \ {s} : req'[t] = req[t]
  BY <1>1 DEF Recorded, Shared, Grows
<1>2. CASE Begin(s)
  BY <1>2, <1>1 DEF Begin, Recorded
<1>3. CASE Over(s)
  BY <1>3, <1>1 DEF Over, KeepsAll, Keeps
<1>4. CASE Went(s)
  BY <1>4, <1>1 DEF Went, Keeps
<1>5. CASE \E more : Put(s, more)
  BY <1>5, <1>1 DEF Put, KeepsAll, Keeps
<1>6. CASE LoadLockState(s)
  BY <1>6, <1>1, <1>0, LoadDoes DEF Loads, Keeps
<1>7. CASE Passed(s)
  BY <1>7, <1>1 DEF Passed, KeepsAll, Keeps
<1>8. CASE \E k : Refuses(s, k)
  BY <1>8, <1>3, <1>1 DEF Refuses, Keeps
<1>9. CASE Acts(s)
  <2>1. /\ Keeps(s) /\ cfg' = cfg
        /\ \/ hist' = hist /\ UNCHANGED <<bkt, obj, role>>
           \/ hist' = Append(hist, [bkt |-> bkt', obj |-> obj', role |-> role'])
    BY <1>9 DEF Acts, KeepsAll
  <2>2. CASE hist' = hist /\ UNCHANGED <<bkt, obj, role>>
    BY <2>1, <2>2 DEF Grows, Keeps, Recorded
  <2>3. ASSUME NEW x, hist' = Append(hist, x) PROVE hist' # <<>> /\ hist'[Len(hist')] = x
    <3> DEFINE S == Range(hist) \cup {x}
    <3>1. hist \in Seq(S) /\ x \in S
      BY DEF IsSeq, Recorded
    <3> HIDE DEF S
    <3> QED BY <2>3, <3>1
  <2> QED BY <2>1, <2>2, <2>3 DEF Grows, Keeps
<1>10. CASE CheckRetentionStep(s)
  BY <1>0, <1>10, RetentionDoes, <1>5, <1>7, <1>8
<1>11. CASE CheckHoldStep(s)
  BY <1>0, <1>11, HoldDoes, <1>5, <1>7, <1>8
<1>12. CASE BypassStep(s)
  BY <1>0, <1>12, BypassDoes, <1>5, <1>8
<1>13. CASE RetentionPutAllowed(s)
  BY <1>0, <1>13, RetainDoes, <1>3, <1>5, <1>7
<1> QED BY <1>2, <1>3, <1>4, <1>5, <1>6, <1>9, <1>10, <1>11, <1>12, <1>13 DEF Stepped

\* A check for every object that the request means.
LEMMA ChecksAre ==
  ASSUME Recorded, NEW s \in Slots, req[s].status # "idle"
  PROVE  /\ IsSeq(ChecksLeft(s)) /\ Len(ChecksLeft(s)) = Len(Checked(req[s])) /\ IsSeq(Checked(req[s]))
         /\ \A i \in 1 .. Len(ChecksLeft(s)) :
              /\ Checked(req[s])[i] \in AllKeys
              /\ ChecksLeft(s)[i] = CheckOf("CheckRetention", Checked(req[s])[i], Step(s).bypass,
                                            req[s].in.version /\ ~ Step(s).overwrite)
         /\ \A k \in Targets(req[s]) : \E i \in 1 .. Len(ChecksLeft(s)) : Checked(req[s])[i] = k
<1> DEFINE q == Checked(req[s])
<1>0. req[s].in.key \in AllKeys
  <2>1. req[s].in \in Inputs[cfg.mix][s] /\ cfg.mix \in DOMAIN Inputs
    BY DEF Recorded
  <2> QED BY <2>1, InputsAssumption
<1>1. q \in Seq(AllKeys)
  BY <1>0, KeysAssumption DEF Checked
<1>2. IsSeq(q) /\ Len(q) \in Nat /\ DOMAIN q = 1 .. Len(q)
  BY <1>1, OfSeq, SeqLen
<1>3. \A k \in Targets(req[s]) : \E i \in 1 .. Len(q) : q[i] = k
  <2>1. CASE Batch(req[s])
    <3>1. q = Keys
      BY <2>1 DEF Checked
    <3>2. \A k \in Targets(req[s]) : \E i \in DOMAIN Keys : Keys[i] = k
      BY <2>1 DEF Targets, AllKeys
    <3> QED BY <3>1, <3>2, <1>2
  <2>2. CASE ~ Batch(req[s])
    <3>1. q = <<req[s].in.key>> /\ Targets(req[s]) = {req[s].in.key}
      BY <2>2 DEF Checked, Targets
    <3>2. 1 \in 1 .. Len(q) /\ q[1] = req[s].in.key
      BY <3>1
    <3> QED BY <3>1, <3>2
  <2> QED BY <2>1, <2>2
<1> HIDE DEF q
<1>5. ChecksLeft(s) = [i \in 1 .. Len(q) |-> CheckOf("CheckRetention", q[i], Step(s).bypass,
                                                    req[s].in.version /\ ~ Step(s).overwrite)]
  BY <1>2 DEF ChecksLeft, q
<1>6. IsSeq(ChecksLeft(s)) /\ Len(ChecksLeft(s)) = Len(q)
  <2> DEFINE f == ChecksLeft(s)
             S == {f[i] : i \in 1 .. Len(q)}
  <2>1. f \in [1 .. Len(q) -> S]
    BY <1>5
  <2> HIDE DEF f, S
  <2>2. f \in Seq(S) /\ Len(f) = Len(q)
    BY <1>2, <2>1
  <2> QED BY <2>2, OfSeq DEF f
<1>7. \A i \in 1 .. Len(q) :
        /\ q[i] \in AllKeys
        /\ ChecksLeft(s)[i] = CheckOf("CheckRetention", q[i], Step(s).bypass,
                                      req[s].in.version /\ ~ Step(s).overwrite)
  BY <1>1, <1>2, <1>5
<1> QED BY <1>2, <1>3, <1>6, <1>7 DEF q

\* The program stays one.
LEMMA StepWell ==
  ASSUME Recorded, NEW s \in Slots, Stepped(s)
  PROVE  DOMAIN Idle \subseteq DOMAIN req'[s] /\ IsSeq(req'[s].todo)
<1>0. Fits(s) /\ IsSeq(req[s].todo)
  BY RecordedFits DEF Recorded
<1>1. CASE Begin(s)
  <2>1. PICK in, row : req' = [req EXCEPT ![s] = [Idle EXCEPT
          !.status = "run", !.in = in, !.row = row, !.since = Len(hist),
          !.todo = ProcessHandlers(row, in)]]
    BY <1>1 DEF Begin
  <2>2. DOMAIN req'[s] = DOMAIN Idle /\ req'[s].todo = ProcessHandlers(row, in)
    BY <2>1, <1>0 DEF Fits, Idle
  <2> QED BY <2>2, HandlersIsSeq
<1>2. CASE Over(s)
  BY <1>2, Tuples DEF Over, KeepsAll, Keeps
<1>3. CASE Keeps(s) /\ req[s].todo # <<>> /\ req'[s].todo = Tail(req[s].todo)
  BY <1>3, <1>0, TailStep DEF Keeps
<1>4. ASSUME NEW more, IsSeq(more),
             Keeps(s) /\ req[s].todo # <<>> /\ req'[s].todo = more \o Tail(req[s].todo)
      PROVE  DOMAIN Idle \subseteq DOMAIN req'[s] /\ IsSeq(req'[s].todo)
  BY <1>4, <1>0, TailStep, ConcatStep DEF Keeps
<1>5. CASE Went(s)
  BY <1>5, <1>3 DEF Went, Running
<1>6. ASSUME NEW x, Put(s, <<x>>) PROVE DOMAIN Idle \subseteq DOMAIN req'[s] /\ IsSeq(req'[s].todo)
  BY <1>6, <1>4, Tuples DEF Put, Running, KeepsAll
<1>7. CASE Put(s, <<>>)
  BY <1>7, <1>4, Tuples DEF Put, Running, KeepsAll
<1>8. CASE Passed(s) \/ Acts(s)
  BY <1>8, <1>3 DEF Passed, Acts, Running, KeepsAll
<1>9. CASE \E k : Refuses(s, k)
  BY <1>9, <1>2, <1>3 DEF Refuses, Running
<1>10. CASE LoadLockState(s)
  <2>1. IsSeq(ChecksLeft(s))
    BY <1>10, ChecksAre DEF LoadLockState, At
  <2> QED BY <1>10, <1>0, <1>4, <2>1, LoadDoes, Tuples DEF Loads, Running
<1>11. CASE CheckRetentionStep(s)
  BY <1>0, <1>11, RetentionDoes, <1>6, <1>8, <1>9
<1>12. CASE CheckHoldStep(s)
  BY <1>0, <1>12, HoldDoes, <1>6, <1>8, <1>9
<1>13. CASE BypassStep(s)
  BY <1>0, <1>13, BypassDoes, <1>6, <1>7, <1>9
<1>14. CASE RetentionPutAllowed(s)
  BY <1>0, <1>14, RetainDoes, <1>2, <1>6, <1>8
<1> QED BY <1>1, <1>2, <1>5, <1>6, <1>8, <1>10, <1>11, <1>12, <1>13, <1>14 DEF Stepped

\* No step but Begin changes what a request asks for.
LEMMA StepSame ==
  ASSUME NEW s \in Slots, Fits(s), Stepped(s), ~ Begin(s) PROVE Keeps(s) /\ req[s].status = "run"
<1>1. CASE Over(s) \/ Went(s) \/ Acts(s) \/ Passed(s) \/ \E more : Put(s, more)
  BY <1>1 DEF Over, Went, Acts, Passed, Put, Running, KeepsAll
<1>2. CASE \E k : Refuses(s, k)
  BY <1>1, <1>2 DEF Refuses, Running
<1>3. CASE LoadLockState(s)
  BY <1>3, LoadDoes DEF Loads, Running
<1>4. CASE CheckRetentionStep(s)
  BY <1>4, RetentionDoes, <1>1, <1>2
<1>5. CASE CheckHoldStep(s)
  BY <1>5, HoldDoes, <1>1, <1>2
<1>6. CASE BypassStep(s)
  BY <1>6, BypassDoes, <1>1, <1>2
<1>7. CASE RetentionPutAllowed(s)
  BY <1>7, RetainDoes, <1>1
<1> QED BY <1>1, <1>3, <1>4, <1>5, <1>6, <1>7 DEF Stepped

\* What the backend does to an object leaves an object.
LEMMA WrittenObject ==
  ASSUME NEW o \in Objects, NEW s \in Slots, NEW lock \in Locks, NEW versioning
  PROVE  Written(o, s, lock, versioning) \in Objects
  BY DEF Written, Objects, Versions

\* A version that is removed leaves an object.
LEMMA WithoutObject ==
  ASSUME NEW o \in Objects, NEW v \in Versions PROVE Without(o, v) \in Objects
<1> DEFINE locks == [o.locks EXCEPT ![v] = Absent]
           left == {x \in Versions : locks[x] # Absent}
           cur == IF o.cur # v THEN o.cur
                  ELSE IF left = {} THEN "none" ELSE CHOOSE x \in left : TRUE
           null == IF o.null = v THEN "none" ELSE o.null
<1>1. locks \in [Versions -> Locks \cup {Absent}]
  BY DEF Objects
<1>2. left # {} => (CHOOSE x \in left : TRUE) \in Versions
  BY DEF left
<1> HIDE DEF left, locks
<1>3. cur \in Versions \cup {"marker", "none"} /\ null \in Versions \cup {"none"}
  BY <1>2 DEF Objects
<1>4. Without(o, v) = [o EXCEPT !.locks = locks, !.cur = cur, !.null = null]
  BY DEF Without, left, locks, Objects
<1> HIDE DEF cur, null
<1> QED BY <1>1, <1>3, <1>4 DEF Objects

\* So does a delete.
LEMMA DeletedObject ==
  ASSUME NEW o \in Objects, NEW version, NEW versioning PROVE Deleted(o, version, versioning) \in Objects
<1> DEFINE rest == IF o.null = "none" THEN o ELSE Without(o, o.null)
<1>1. "old" \in Versions /\ Without(o, "old") \in Objects
  BY WithoutObject DEF Versions
<1>2. rest \in Objects
  BY WithoutObject DEF Objects
<1> HIDE DEF rest
<1>3. \A r \in Objects : \A c \in {"marker", "none"} : [r EXCEPT !.cur = c] \in Objects
  BY DEF Objects
<1> QED BY <1>1, <1>2, <1>3 DEF Deleted, rest

\* A backend call leaves objects with their locks.
LEMMA ActsObjects ==
  ASSUME Recorded, NEW s \in Slots, Acts(s) PROVE obj' \in [AllKeys -> Objects]
<1> DEFINE r == req[s]
           k == r.in.key
           name == Step(s).name
           v == LockTarget(r)
<1>1. /\ obj' = ObjectsAfter(name, s, r) /\ obj \in [AllKeys -> Objects]
      /\ k \in AllKeys /\ r.in.arg.lock \in Locks
  <2>1. r.in \in Inputs[cfg.mix][s] /\ cfg.mix \in DOMAIN Inputs
    BY DEF Acts, Running, Recorded
  <2> QED BY <2>1, InputsAssumption DEF Acts, Recorded
<1>2. HeaderLock(r.in) \in Locks
  BY DEF HeaderLock, Locks
<1>3. \A x \in AllKeys : Written(obj[x], s, HeaderLock(r.in), bkt.versioning) \in Objects
  BY <1>1, <1>2, WrittenObject
<1>4. \A x \in AllKeys : Deleted(obj[x], r.in.version, bkt.versioning) \in Objects
  BY <1>1, DeletedObject
<1>5. ASSUME NEW lock \in Locks, v \in Versions
      PROVE  [obj EXCEPT ![k].locks[v] = lock] \in [AllKeys -> Objects]
  BY <1>1, <1>5 DEF Objects
<1>6. ASSUME Lockable(r)
      PROVE  /\ v \in Versions /\ obj[k].locks[v] \in Locks
             /\ [r.in.arg.lock EXCEPT !.hold = obj[k].locks[v].hold] \in Locks
             /\ [obj[k].locks[v] EXCEPT !.hold = r.in.arg.lock.hold] \in Locks
  <2>1. v \in Versions /\ obj[k].locks[v] # Absent
    BY <1>6 DEF Lockable
  <2>2. obj[k].locks[v] \in Locks
    BY <1>1, <2>1 DEF Objects
  <2> QED BY <1>1, <2>1, <2>2 DEF Locks
<1>7. ASSUME Lockable(r)
      PROVE  [obj EXCEPT ![k].locks[v].hold = r.in.arg.lock.hold]
               = [obj EXCEPT ![k].locks[v] = [obj[k].locks[v] EXCEPT !.hold = r.in.arg.lock.hold]]
  BY <1>1, <1>6, <1>7 DEF Objects
<1> HIDE DEF r, k, name, v
<1>8. CASE name \in {"PutObject", "CopyObject", "CompleteMultipartUpload"}
  <2>1. obj' = [obj EXCEPT ![k] = Written(@, s, HeaderLock(r.in), bkt.versioning)]
    BY <1>1, <1>8 DEF ObjectsAfter, k
  <2> QED BY <1>1, <1>3, <2>1
<1>9. CASE name = "DeleteObject"
  <2>1. obj' = [obj EXCEPT ![k] = Deleted(@, r.in.version, bkt.versioning)]
    BY <1>1, <1>9 DEF ObjectsAfter, k
  <2> QED BY <1>1, <1>4, <2>1
<1>10. CASE name = "DeleteObjects"
  <2>1. obj' = [x \in AllKeys |-> IF x \in r.refused THEN obj[x]
                                  ELSE Deleted(obj[x], r.in.version, bkt.versioning)]
    BY <1>1, <1>10 DEF ObjectsAfter, k
  <2> QED BY <1>1, <1>4, <2>1
<1>11. CASE name = "PutObjectRetention" /\ Lockable(r)
  <2>1. obj' = [obj EXCEPT ![k].locks[v] = [r.in.arg.lock EXCEPT !.hold = obj[k].locks[v].hold]]
    BY <1>1, <1>11 DEF ObjectsAfter, k, v
  <2> QED BY <1>5, <1>6, <1>11, <2>1
<1>12. CASE name = "PutObjectLegalHold" /\ Lockable(r)
  <2>1. obj' = [obj EXCEPT ![k].locks[v].hold = r.in.arg.lock.hold]
    BY <1>1, <1>12 DEF ObjectsAfter, k, v
  <2> QED BY <1>5, <1>6, <1>7, <1>12, <2>1
<1>13. CASE /\ name \notin {"PutObject", "CopyObject", "CompleteMultipartUpload", "DeleteObject",
                            "DeleteObjects"}
            /\ ~ (name \in {"PutObjectRetention", "PutObjectLegalHold"} /\ Lockable(r))
  <2>1. obj' = obj
    BY <1>1, <1>13 DEF ObjectsAfter
  <2> QED BY <1>1, <2>1
<1> QED BY <1>8, <1>9, <1>10, <1>11, <1>12, <1>13

\* So does every step.
LEMMA StepObjects ==
  ASSUME Recorded, NEW s \in Slots, Stepped(s) PROVE obj' \in [AllKeys -> Objects]
<1>0. Fits(s)
  BY RecordedFits
<1>1. CASE Acts(s)
  BY <1>1, ActsObjects
<1>2. CASE UNCHANGED Shared
  BY <1>2 DEF Shared, Recorded
<1>3. CASE Begin(s) \/ Over(s) \/ Went(s) \/ Passed(s) \/ (\E more : Put(s, more)) \/ \E k : Refuses(s, k)
  BY <1>3, <1>2 DEF Begin, Over, Went, Passed, Put, Refuses
<1>4. CASE LoadLockState(s)
  BY <1>4, <1>2 DEF LoadLockState
<1>5. CASE CheckRetentionStep(s)
  BY <1>0, <1>5, RetentionDoes, <1>3
<1>6. CASE CheckHoldStep(s)
  BY <1>0, <1>6, HoldDoes, <1>3
<1>7. CASE BypassStep(s)
  BY <1>0, <1>7, BypassDoes, <1>3
<1>8. CASE RetentionPutAllowed(s)
  BY <1>0, <1>8, RetainDoes, <1>3
<1> QED BY <1>1, <1>3, <1>4, <1>5, <1>6, <1>7, <1>8 DEF Stepped

\* A request that begins.
LEMMA BeginDoes ==
  ASSUME Recorded, NEW s \in Slots, Begin(s)
  PROVE  \E in \in Inputs[cfg.mix][s] : \E row :
           /\ req'[s].status = "run" /\ req'[s].in = in /\ req'[s].row = row
           /\ req'[s].since = Len(hist) /\ req'[s].todo = ProcessHandlers(row, in)
<1>1. PICK in \in Inputs[cfg.mix][s] : \E row : req' = [req EXCEPT ![s] = [Idle EXCEPT
          !.status = "run", !.in = in, !.row = row, !.since = Len(hist),
          !.todo = ProcessHandlers(row, in)]]
  BY DEF Begin
<1>2. PICK row : req' = [req EXCEPT ![s] = [Idle EXCEPT
          !.status = "run", !.in = in, !.row = row, !.since = Len(hist),
          !.todo = ProcessHandlers(row, in)]]
  BY <1>1
<1>3. /\ req'[s].status = "run" /\ req'[s].in = in /\ req'[s].row = row
      /\ req'[s].since = Len(hist) /\ req'[s].todo = ProcessHandlers(row, in)
  BY <1>2 DEF Recorded, Idle
<1> QED BY <1>3

\* Every step keeps the history and the requests in order.
LEMMA StepRecorded ==
  ASSUME Recorded, NEW s \in Slots, Stepped(s) PROVE Recorded'
<1>1. /\ Grows /\ cfg' = cfg /\ req' = [t \in Slots |-> req'[t]]
      /\ \A t \in Slots \ {s} : req'[t] = req[t]
      /\ hist' # <<>> /\ hist'[Len(hist')] = [bkt |-> bkt', obj |-> obj', role |-> role']
  BY StepGrows
<1>2. DOMAIN Idle \subseteq DOMAIN req'[s] /\ IsSeq(req'[s].todo)
  BY StepWell
<1>3. /\ IsSeq(hist') /\ Len(hist') >= Len(hist) /\ Len(hist) \in Nat \ {0} /\ Len(hist') \in Nat
  BY <1>1, Grown, SeqLen DEF Recorded
<1>4. req'[s].status # "idle" =>
        req'[s].since \in 1 .. Len(hist') /\ req'[s].in \in Inputs[cfg'.mix][s]
  <2>1. CASE Begin(s)
    <3>1. req'[s].since = Len(hist) /\ req'[s].in \in Inputs[cfg.mix][s]
      BY <2>1, BeginDoes
    <3> QED BY <3>1, <1>1, <1>3
  <2>2. CASE ~ Begin(s)
    <3>1. Keeps(s) /\ req[s].status = "run"
      BY <2>2, StepSame, RecordedFits
    <3>2. req[s].since \in 1 .. Len(hist) /\ req[s].in \in Inputs[cfg.mix][s]
      BY <3>1 DEF Recorded
    <3>3. req'[s].since = req[s].since /\ req'[s].in = req[s].in
      BY <3>1 DEF Keeps
    <3> QED BY <3>2, <3>3, <1>1, <1>3
  <2> QED BY <2>1, <2>2
<1>5. ASSUME NEW t \in Slots \ {s}
      PROVE  /\ DOMAIN Idle \subseteq DOMAIN req'[t] /\ IsSeq(req'[t].todo)
             /\ req'[t].status # "idle" =>
                  req'[t].since \in 1 .. Len(hist') /\ req'[t].in \in Inputs[cfg'.mix][t]
  BY <1>1, <1>3 DEF Recorded
<1>6. cfg'.mix \in DOMAIN Inputs /\ obj' \in [AllKeys -> Objects]
  BY <1>1, StepObjects DEF Recorded
<1> QED BY <1>1, <1>2, <1>3, <1>4, <1>5, <1>6 DEF Recorded, IsSeq

\* What stays is as it was.
LEMMA Stutters == Recorded /\ UNCHANGED vars => Recorded'
  BY DEF Recorded, vars, IsSeq

\* The history of bucket, objects and accounts ends with their state, each request works
\* on input it was given and began within the history: what Seen means in the properties.
THEOREM AlwaysRecorded == Spec => []Recorded
<1>1. ASSUME Recorded, [Next]_vars PROVE Recorded'
  <2>1. CASE UNCHANGED vars
    BY <1>1, <2>1, Stutters
  <2>2. CASE Next
    BY <1>1, <2>2, RecordedFits, StepIs, StepRecorded DEF Next
  <2> QED BY <1>1, <2>1, <2>2
<1> QED BY <1>1, InitRecorded, PTL DEF Spec

-----------------------------------------------------------------------------
(* Retentions *)

\* Programs of one and of two steps.
LEMMA ShortSeqs ==
  ASSUME NEW q, IsSeq(q)
  PROVE  /\ Len(q) = 1 => q = <<q[1]>>
         /\ Len(q) = 2 => q = <<q[1], q[2]>>
  BY DEF IsSeq, Range

\* What is left of them, and put before them.
LEMMA PairTail ==
  \A a, b : /\ Tail(<<a, b>>) = <<b>> /\ Head(<<a, b>>) = a /\ Tail(<<a>>) = <<>> /\ Head(<<a>>) = a
            /\ <<a>> \o <<b>> = <<a, b>> /\ <<>> \o <<a>> = <<a>>
<1>1. \A a, b : Tail(<<a, b>>) = <<b>> /\ Head(<<a, b>>) = a /\ Tail(<<a>>) = <<>> /\ Head(<<a>>) = a
  OBVIOUS
<1>2. ASSUME NEW a, NEW b PROVE <<a>> \o <<b>> = <<a, b>>
  <2> DEFINE p == <<a>>
             q == <<b>>
  <2>1. IsSeq(p) /\ IsSeq(q) /\ Len(p) = 1 /\ Len(q) = 1 /\ p[1] = a /\ q[1] = b
    BY Tuples
  <2> HIDE DEF p, q
  <2>2. /\ IsSeq(p \o q) /\ Len(p \o q) = Len(p) + Len(q)
        /\ \A i \in 1 .. Len(p) : (p \o q)[i] = p[i]
        /\ \A i \in 1 .. Len(q) : (p \o q)[Len(p) + i] = q[i]
    <3>1. IsSeq(p) /\ IsSeq(q)
      BY <2>1
    <3> QED BY <3>1, ConcatStep
  <2>3. Len(p \o q) = 2 /\ (p \o q)[1] = a /\ (p \o q)[2] = b
    <3>1. 1 \in 1 .. Len(p) /\ 1 \in 1 .. Len(q) /\ Len(p) + 1 = 2 /\ Len(p) + Len(q) = 2
      BY <2>1
    <3>2. (p \o q)[1] = p[1] /\ (p \o q)[Len(p) + 1] = q[1]
      BY <2>2, <3>1
    <3> QED BY <2>1, <2>2, <3>1, <3>2, Zenon
  <2>4. p \o q = <<a, b>>
    BY <2>2, <2>3, ShortSeqs
  <2> QED BY <2>4 DEF p, q
<1>3. \A a : <<>> \o <<a>> = <<a>>
  BY Tuples, NothingOnTop
<1> QED BY <1>1, <1>2, <1>3

\* The programs of such a request, up to the check.
LEMMA RetainHead ==
  ASSUME NEW q, IsSeq(q), BeforeRetain(q)
  PROVE  /\ q # <<>>
         /\ Head(q).do \in {"Retain", "Valid", "Public", "Signature", "IsAdmin", "ParseAcl", "Authorize"}
         /\ Head(q).do # "Retain" => BeforeRetain(Tail(q))
         /\ Head(q).do = "Retain" => Tail(q) = <<Call("PutObjectRetention")>>
<1>1. Len(q) \in Nat /\ q # <<>>
  BY SeqLen DEF BeforeRetain
<1>2. /\ IsSeq(Tail(q)) /\ Len(Tail(q)) = Len(q) - 1 /\ Head(q) = q[1]
      /\ \A i \in 1 .. Len(q) - 1 : Tail(q)[i] = q[i + 1]
  BY <1>1, TailStep
<1>3. CASE Len(q) = 2
  <2>1. Head(q) = Do("Retain") /\ Len(Tail(q)) = 1 /\ Tail(q)[1] = Call("PutObjectRetention")
    BY <1>2, <1>3 DEF BeforeRetain
  <2>2. Tail(q) = <<Call("PutObjectRetention")>>
    BY <2>1, <1>2, ShortSeqs
  <2>3. Head(q).do = "Retain"
    BY <2>1 DEF Do
  <2> QED BY <1>1, <2>2, <2>3
<1>4. CASE Len(q) > 2
  <2>1. Head(q).do \in {"Valid", "Public", "Signature", "IsAdmin", "ParseAcl", "Authorize"}
    BY <1>1, <1>2, <1>4 DEF BeforeRetain
  <2>2. BeforeRetain(Tail(q))
    BY <1>1, <1>2, <1>4 DEF BeforeRetain
  <2> QED BY <1>1, <2>1, <2>2
<1>5. Len(q) >= 2
  BY DEF BeforeRetain
<1>6. Len(q) = 2 \/ Len(q) > 2
  <2>1. \A n \in Nat : n >= 2 => n = 2 \/ n > 2
    OBVIOUS
  <2> QED BY <1>1, <1>5, <2>1, Zenon
<1> QED BY <1>3, <1>4, <1>6, Zenon

\* PutObjectRetention compares the stored retention right before its call.
LEMMA RetentionProgram ==
  ASSUME NEW row, row.controller = "PutObjectRetention", NEW in
  PROVE  BeforeRetain(ProcessHandlers(row, in))
<1> DEFINE D == {"Valid", "Public", "Signature", "IsAdmin", "ParseAcl", "Authorize"}
           a == ObjectStep("WRITE", "PutObjectRetention")
           con == <<a, Valid, Do("Retain"), Call("PutObjectRetention")>>
<1>1. con = Controller(row.controller, in)
  BY DEF Controller, PutObjectRetention
<1>2. PICK p : /\ IsSeq(p) /\ ProcessHandlers(row, in) = p \o con
               /\ \A i \in 1 .. Len(p) : p[i].do \in D
  BY <1>1, HandlersAre DEF FirstDo
<1>3. con[1].do \in D /\ con[2].do \in D /\ con[3] = Do("Retain") /\ con[4] = Call("PutObjectRetention")
  BY DEF ObjectStep, Authorize, Valid
<1>4. IsSeq(con) /\ Len(con) = 4
  BY Tuples
<1> HIDE DEF con
<1> DEFINE q == p \o con
<1>5. /\ IsSeq(q) /\ Len(q) = Len(p) + 4 /\ Len(p) \in Nat
      /\ \A i \in 1 .. Len(p) : q[i] = p[i]
      /\ \A i \in 1 .. 4 : q[Len(p) + i] = con[i]
  <2>1. IsSeq(p) /\ IsSeq(con)
    BY <1>2, <1>4
  <2>2. Len(p) \in Nat /\ IsSeq(q) /\ Len(q) = Len(p) + Len(con)
    BY <2>1, ConcatStep, SeqLen
  <2>3. /\ \A i \in 1 .. Len(p) : (p \o con)[i] = p[i]
        /\ \A i \in 1 .. Len(con) : (p \o con)[Len(p) + i] = con[i]
    BY <2>1, ConcatStep
  <2> QED BY <2>2, <2>3, <1>4
<1> HIDE DEF q
<1>6. /\ q[Len(p) + 1] = con[1] /\ q[Len(p) + 2] = con[2]
      /\ q[Len(p) + 3] = con[3] /\ q[Len(p) + 4] = con[4]
  BY <1>5
<1>7. ASSUME NEW i \in 1 .. Len(q) - 2 PROVE q[i].do \in D
  <2>1. CASE i \in 1 .. Len(p)
    BY <2>1, <1>2, <1>5
  <2>2. CASE i = Len(p) + 1 \/ i = Len(p) + 2
    BY <2>2, <1>3, <1>6
  <2> QED BY <2>1, <2>2, <1>5
<1> QED BY <1>2, <1>3, <1>5, <1>6, <1>7 DEF BeforeRetain, q

\* What a request has found out holds as long as the request knows what it knew.
LEMMA RetentionKnown ==
  ASSUME NEW t \in Slots, cfg' = cfg, req'[t].in = req[t].in, req'[t].acc = req[t].acc,
         Seen(t) \subseteq Seen(t)', NEW old, NEW new, MayReplace(t, old, new)
  PROVE  MayReplace(t, old, new)'
  BY DEF MayReplace, Account

\* A step of another request leaves what this one has found.
LEMMA RetentionOthers ==
  ASSUME NEW t \in Slots, cfg' = cfg, req'[t] = req[t], Seen(t) \subseteq Seen(t)', RetentionStage(t)
  PROVE  RetentionStage(t)'
<1> DEFINE q == req[t].todo
           put == Call("PutObjectRetention")
           by == Bypass(req[t].in.key, "requested", req[t].in.version, FALSE, FALSE)
<1>1. CASE BeforeRetain(q) \/ q = <<>>
  BY <1>1 DEF RetentionStage
<1>2. CASE q = <<by, put>> /\ \E h \in Seen(t) : Meant(h, t).mode # "COMPLIANCE" /\ req[t].in.bypass
  BY <1>2 DEF RetentionStage, Meant
<1>3. CASE q = <<put>> /\ \E h \in Seen(t) : MayReplace(t, Meant(h, t), req[t].in.arg.lock)
  <2>1. PICK h \in Seen(t) : MayReplace(t, Meant(h, t), req[t].in.arg.lock)
    BY <1>3
  <2> DEFINE old == StoredLock(h.obj[req[t].in.key], req[t].in.version)
             new == req[t].in.arg.lock
  <2>2. ASSUME NEW o, NEW n, MayReplace(t, o, n) PROVE MayReplace(t, o, n)'
    BY <2>2, RetentionKnown
  <2>3. \E g \in Seen(t)' : MayReplace(t, Meant(g, t), req[t].in.arg.lock)'
    BY <2>1, <2>2 DEF Meant, MayReplace
  <2> QED BY <1>3, <2>3 DEF RetentionStage
<1> QED BY <1>1, <1>2, <1>3 DEF RetentionStage

\* The first step that is left, and what it stands for.
LEMMA RetentionHead ==
  ASSUME Recorded, NEW s \in Slots, RetentionStage(s), req[s].todo # <<>>
  PROVE  LET q == req[s].todo
             put == Call("PutObjectRetention")
         IN  \/ /\ Head(q).do \in {"Valid", "Public", "Signature", "IsAdmin", "ParseAcl", "Authorize"}
                /\ BeforeRetain(Tail(q))
             \/ Head(q).do = "Retain" /\ Tail(q) = <<put>>
             \/ /\ Head(q) = Bypass(req[s].in.key, "requested", req[s].in.version, FALSE, FALSE)
                /\ Tail(q) = <<put>>
                /\ \E h \in Seen(s) : Meant(h, s).mode # "COMPLIANCE" /\ req[s].in.bypass
             \/ /\ Head(q) = put /\ Tail(q) = <<>>
                /\ \E h \in Seen(s) : MayReplace(s, Meant(h, s), req[s].in.arg.lock)
<1>1. IsSeq(req[s].todo)
  BY DEF Recorded
<1>2. CASE BeforeRetain(req[s].todo)
  BY <1>1, <1>2, RetainHead
<1>3. CASE ~ BeforeRetain(req[s].todo)
  BY <1>3, PairTail DEF RetentionStage
<1> QED BY <1>2, <1>3

\* A step of PutObjectRetention itself: the comparison finds what the call needs.
LEMMA RetentionStep ==
  ASSUME Recorded, NEW s \in Slots, req[s].status = "run", req'[s].status = "run",
         req[s].row.controller = "PutObjectRetention", RetentionStage(s), Stepped(s)
  PROVE  RetentionStage(s)'
<1> DEFINE q == req[s].todo
           put == Call("PutObjectRetention")
           by == Bypass(req[s].in.key, "requested", req[s].in.version, FALSE, FALSE)
<1>0. Fits(s) /\ Recorded' /\ Grows /\ cfg' = cfg
  BY RecordedFits, StepRecorded, StepGrows
<1>1. ~ Begin(s) /\ ~ Over(s)
  BY DEF Begin, Over
<1>2. Keeps(s)
  BY <1>0, <1>1, StepSame
<1>3. /\ Seen(s) \subseteq Seen(s)' /\ req'[s].in = req[s].in /\ req'[s].row = req[s].row
  BY <1>0, <1>2, SeenGrows DEF Keeps
<1>4. ~ Batch(req[s])
  BY DEF Batch
<1>5. \A k : ~ Refuses(s, k)
  BY <1>1, <1>4 DEF Refuses
<1>6. q # <<>>
  BY <1>1 DEF Stepped, Went, Running, Acts, At, LoadLockState, CheckRetentionStep, CheckHoldStep,
    BypassStep, RetentionPutAllowed
<1> DEFINE Early == /\ Head(q).do \in {"Valid", "Public", "Signature", "IsAdmin", "ParseAcl", "Authorize"}
                    /\ BeforeRetain(Tail(q))
           Check == Head(q).do = "Retain" /\ Tail(q) = <<put>>
           Ask == /\ Head(q) = by /\ Tail(q) = <<put>>
                  /\ \E h \in Seen(s) : Meant(h, s).mode # "COMPLIANCE" /\ req[s].in.bypass
           Last == /\ Head(q) = put /\ Tail(q) = <<>>
                   /\ \E h \in Seen(s) : MayReplace(s, Meant(h, s), req[s].in.arg.lock)
<1>7. Early \/ Check \/ Ask \/ Last
  BY <1>6, RetentionHead
<1>8. by.do = "Bypass" /\ put.do = "Call"
  BY DEF Bypass, Call
<1>9. /\ Early => Head(q).do \in {"Valid", "Public", "Signature", "IsAdmin", "ParseAcl", "Authorize"}
      /\ Check => Head(q).do = "Retain"
      /\ Ask => Head(q).do = "Bypass"
      /\ Last => Head(q).do = "Call"
  BY <1>8
<1>10. CASE Went(s)
  <2>1. Early /\ req'[s].todo = Tail(q)
    BY <1>7, <1>9, <1>10 DEF Went, PlainDo
  <2> QED BY <2>1 DEF RetentionStage
<1>11. CASE Acts(s)
  <2>1. Last /\ req'[s].todo = Tail(q)
    BY <1>7, <1>9, <1>11 DEF Acts, At
  <2> QED BY <2>1 DEF RetentionStage
<1>12. CASE RetentionPutAllowed(s)
  <2> DEFINE lock == StoredLock(obj[req[s].in.key], req[s].in.version)
             new == req[s].in.arg.lock
  <2>1. /\ At(s, "Retain")
        /\ \/ /\ lock.mode = "none" \/ (lock.mode = new.mode /\ new.until >= lock.until)
              /\ Passed(s)
           \/ lock.mode # "COMPLIANCE" /\ req[s].in.bypass /\ Put(s, <<by>>)
    BY <1>0, <1>1, <1>12, RetainDoes
  <2>2. Check
    BY <2>1, <1>7, <1>9 DEF At
  <2>3. PICK h \in Seen(s) : h.obj = obj
    BY SeesNow
  <2>4. h \in Seen(s)' /\ Meant(h, s)' = lock
    BY <1>3, <2>3 DEF Meant
  <2>5. CASE /\ lock.mode = "none" \/ (lock.mode = new.mode /\ new.until >= lock.until)
             /\ Passed(s)
    <3>1. req'[s].todo = <<put>>
      BY <2>2, <2>5 DEF Passed
    <3>2. LET l == StoredLock(h.obj[req'[s].in.key], req'[s].in.version)
              n == req'[s].in.arg.lock
          IN  l.mode = "none" \/ (l.mode = n.mode /\ n.until >= l.until)
      BY <2>3, <2>5, <1>3
    <3>3. \E g \in Seen(s)' : MayReplace(s, Meant(g, s), req[s].in.arg.lock)'
      BY <2>4, <3>2 DEF MayReplace, Meant
    <3> QED BY <3>1, <3>3 DEF RetentionStage
  <2>6. CASE lock.mode # "COMPLIANCE" /\ req[s].in.bypass /\ Put(s, <<by>>)
    <3>1. req'[s].todo = <<by, put>>
      BY <2>2, <2>6, PairTail DEF Put
    <3>2. \E g \in Seen(s)' : Meant(g, s)'.mode # "COMPLIANCE" /\ req'[s].in.bypass
      BY <2>4, <2>6, <1>3
    <3> QED BY <3>1, <3>2, <1>3 DEF RetentionStage, Meant
  <2> QED BY <2>1, <2>5, <2>6
<1>13. CASE BypassStep(s)
  <2>1. Ask
    BY <1>0, <1>7, <1>9, <1>13, BypassDoes DEF At
  <2>2. /\ verifyBypassGovernancePermission(bkt.policy, cfg.iam, Account(req[s], FALSE),
                                            req[s].in.key, "requested")
        /\ Put(s, <<>>)
    <3>1. Step(s) = by
      BY <2>1 DEF Step
    <3>2. by.pub = FALSE /\ by.hold = FALSE /\ by.key = req[s].in.key /\ by.bypass = "requested"
      BY DEF Bypass
    <3> HIDE DEF by
    <3>3. /\ verifyBypassGovernancePermission(bkt.policy, cfg.iam, Account(req[s], by.pub),
                                              by.key, by.bypass)
          /\ Put(s, IF by.hold THEN <<HoldOf(by)>> ELSE <<>>)
      BY <1>0, <1>5, <1>13, <3>1, BypassDoes
    <3> QED BY <3>2, <3>3
  <2>3. req'[s].todo = <<put>>
    BY <2>1, <2>2, PairTail DEF Put
  <2>4. PICK p \in Seen(s) : p.bkt = bkt
    BY SeesNow
  <2>5. PICK h \in Seen(s) : Meant(h, s).mode # "COMPLIANCE" /\ req[s].in.bypass
    BY <2>1
  <2>6. req'[s].acc = req[s].acc
    BY <2>2 DEF Put, KeepsAll
  <2>7. \E g \in Seen(s)' : MayReplace(s, Meant(g, s), req[s].in.arg.lock)'
    <3>1. p \in Seen(s)' /\ h \in Seen(s)'
      BY <1>3
    <3>2. /\ StoredLock(h.obj[req'[s].in.key], req'[s].in.version).mode # "COMPLIANCE"
          /\ req'[s].in.bypass
      BY <2>5, <1>3 DEF Meant
    <3>3. verifyBypassGovernancePermission(p.bkt.policy, cfg'.iam, [req'[s].acc EXCEPT !.public = @ /\ FALSE],
                                            req'[s].in.key, "requested")
      BY <2>2, <2>4, <2>6, <1>0, <1>3 DEF Account
    <3> QED BY <3>1, <3>2, <3>3 DEF MayReplace, Meant, Account
  <2> QED BY <2>3, <2>7 DEF RetentionStage
<1>14. ASSUME \/ At(s, "Copy") \/ At(s, "LoadLock") \/ At(s, "CheckRetention") \/ At(s, "CheckHold")
       PROVE FALSE
  BY <1>14, <1>7, <1>9 DEF At
<1>15. \/ RetentionPutAllowed(s) \/ BypassStep(s) \/ Acts(s) \/ Went(s)
  BY <1>1, <1>14 DEF Stepped, LoadLockState, CheckRetentionStep, CheckHoldStep
<1> QED BY <1>10, <1>11, <1>12, <1>13, <1>15

\* RetentionInv is kept by every step.
LEMMA StepRetention ==
  ASSUME Recorded, RetentionInv, NEW s \in Slots, Stepped(s) PROVE RetentionInv'
<1>1. ASSUME NEW t \in Slots, req'[t].status = "run", req'[t].row.controller = "PutObjectRetention"
      PROVE  RetentionStage(t)'
  <2>1. /\ Grows /\ cfg' = cfg /\ \A u \in Slots \ {s} : req'[u] = req[u]
    BY StepGrows
  <2>2. CASE t # s
    <3>1. req'[t] = req[t] /\ Seen(t) \subseteq Seen(t)' /\ RetentionStage(t)
      BY <1>1, <2>1, <2>2, SeenGrows DEF RetentionInv
    <3> QED BY <3>1, <2>1, RetentionOthers
  <2>3. CASE t = s /\ Begin(s)
    <3>1. \E in, row : row.controller = "PutObjectRetention" /\ req'[s].todo = ProcessHandlers(row, in)
      BY <1>1, <2>3, BeginDoes
    <3>2. BeforeRetain(req'[s].todo)
      BY <3>1, RetentionProgram
    <3> QED BY <3>2, <2>3 DEF RetentionStage
  <2>4. CASE t = s /\ ~ Begin(s)
    <3>1. Keeps(s) /\ req[s].status = "run"
      BY <2>4, StepSame, RecordedFits
    <3>2. req[s].row.controller = "PutObjectRetention"
      BY <1>1, <2>4, <3>1 DEF Keeps
    <3> QED BY <1>1, <2>4, <3>1, <3>2, RetentionStep DEF RetentionInv
  <2> QED BY <2>2, <2>3, <2>4
<1> QED BY <1>1 DEF RetentionInv

\* Only the answered backend call of the request serves it.
LEMMA ServesActs ==
  ASSUME Recorded, Next, NEW s \in Slots, Serves(s) PROVE Acts(s)
<1>1. PICK t \in Slots : Stepped(t)
  BY RecordedFits, StepIs DEF Next
<1>2. At(s, "Call") /\ Len(req'[s].todo) < Len(req[s].todo) /\ req'[s].status = "run"
  BY DEF Serves
<1>3. t = s
  <2>1. CASE t # s
    <3>1. req'[s] = req[s]
      BY <1>1, <2>1, StepGrows
    <3>2. Len(req[s].todo) \in Nat
      BY SeqLen DEF Recorded
    <3> QED BY <1>2, <3>1, <3>2
  <2> QED BY <2>1
<1>4. ~ Begin(s) /\ ~ Over(s) /\ ~ Went(s)
  BY <1>2 DEF At, Begin, Over, Went, PlainDo
<1>5. /\ ~ At(s, "Copy") /\ ~ At(s, "LoadLock") /\ ~ At(s, "CheckRetention") /\ ~ At(s, "CheckHold")
      /\ ~ At(s, "Bypass") /\ ~ At(s, "Retain")
  BY <1>2 DEF At
<1> QED BY <1>1, <1>3, <1>4, <1>5 DEF Stepped, LoadLockState, CheckRetentionStep, CheckHoldStep,
  BypassStep, RetentionPutAllowed

\* When PutObjectRetention changes a retention it has seen one that it may replace.
LEMMA RetentionCall ==
  ASSUME Recorded, RetentionInv, NEW s \in Slots, Acts(s),
         req[s].row.controller = "PutObjectRetention",
         NEW k \in AllKeys, NEW v \in Versions, obj[k].locks[v] # obj'[k].locks[v]
  PROVE  \E h \in Seen(s) : \/ MayReplace(s, h.obj[k].locks[v], obj'[k].locks[v])
                            \/ ~ req[s].in.version /\ h.obj[k].cur # v
<1> DEFINE r == req[s]
           new == [r.in.arg.lock EXCEPT !.hold = obj[r.in.key].locks[LockTarget(r)].hold]
<1>1. At(s, "Call") /\ r.status = "run" /\ r.todo # <<>>
  BY DEF Acts, At
<1>2. RetentionStage(s)
  BY <1>1 DEF RetentionInv
<1>3. Head(r.todo).do = "Call"
  BY <1>1 DEF At
<1>4. Head(r.todo) = Call("PutObjectRetention") /\ \E h \in Seen(s) : MayReplace(s, Meant(h, s), r.in.arg.lock)
  <2>1. ASSUME NEW a, NEW b, NEW c PROVE Bypass(a, b, c, FALSE, FALSE).do = "Bypass"
    BY DEF Bypass
  <2> QED BY <1>1, <1>2, <1>3, <2>1, RetentionHead
<1>5. PICK h \in Seen(s) : MayReplace(s, Meant(h, s), r.in.arg.lock)
  BY <1>4
<1>6. Step(s).name = "PutObjectRetention"
  BY <1>4 DEF Step, Call
<1>7. /\ obj' = ObjectsAfter("PutObjectRetention", s, r) /\ obj \in [AllKeys -> Objects]
      /\ r.in.key \in AllKeys /\ r.in.arg.lock \in Locks /\ r.in.version \in BOOLEAN
  <2>1. r.in \in Inputs[cfg.mix][s] /\ cfg.mix \in DOMAIN Inputs
    BY <1>1 DEF Recorded
  <2> QED BY <1>6, <2>1, InputsAssumption DEF Acts, Recorded
<1>8. Lockable(r) /\ obj' = [obj EXCEPT ![r.in.key].locks[LockTarget(r)] = new]
  <2>1. CASE Lockable(r)
    BY <1>7, <2>1 DEF ObjectsAfter
  <2>2. CASE ~ Lockable(r)
    BY <1>7, <2>2 DEF ObjectsAfter
  <2> QED BY <2>1, <2>2
<1>9. LockTarget(r) \in Versions
  BY <1>8 DEF Lockable
<1>10. k = r.in.key /\ v = LockTarget(r) /\ obj'[k].locks[v] = new
  <2> DEFINE w == LockTarget(r)
             x == r.in.key
  <2> HIDE DEF w, x, new
  <2>1. /\ obj' = [obj EXCEPT ![x].locks[w] = new] /\ w \in Versions /\ x \in AllKeys
        /\ obj \in [AllKeys -> Objects]
    BY <1>7, <1>8, <1>9 DEF w, x
  <2>2. k = x /\ v = w /\ obj'[k].locks[v] = new
    BY <2>1 DEF Objects
  <2> QED BY <2>2 DEF w, x
<1>11. new.mode = r.in.arg.lock.mode /\ new.until = r.in.arg.lock.until
  BY <1>7 DEF Locks
<1>12. ASSUME NEW old, MayReplace(s, old, r.in.arg.lock) PROVE MayReplace(s, old, new)
  <2> HIDE DEF new
  <2> QED BY <1>11, <1>12 DEF MayReplace
<1>13. CASE r.in.version
  <2>1. Meant(h, s) = h.obj[k].locks[v]
    BY <1>10, <1>13 DEF Meant, StoredLock, LockTarget, Versions
  <2> QED BY <1>5, <1>10, <1>12, <2>1
<1>14. CASE ~ r.in.version /\ h.obj[k].cur = v
  <2>1. Meant(h, s) = h.obj[k].locks[v]
    BY <1>10, <1>14 DEF Meant, StoredLock
  <2> QED BY <1>5, <1>10, <1>12, <2>1
<1> QED BY <1>13, <1>14

\* PutObjectRetention weakens a retention only from a state in which it could be weakened,
\* by who could bypass it: for compliance never.
THEOREM RetentionsHold == Spec => RetentionKept
<1> DEFINE Keep(s, k, v) ==
             Serves(s) /\ req[s].row.controller = "PutObjectRetention"
               /\ obj[k].locks[v] \notin {obj'[k].locks[v], Absent} =>
               \E h \in Seen(s) : \/ MayReplace(s, h.obj[k].locks[v], obj'[k].locks[v])
                                  \/ ~ req[s].in.version /\ h.obj[k].cur # v
<1>1. Init => RetentionInv
  BY InitIdle DEF RetentionInv
<1>2. ASSUME Recorded, RetentionInv, [Next]_vars PROVE RetentionInv'
  <2>1. CASE UNCHANGED vars
    BY <1>2, <2>1, RetentionOthers DEF RetentionInv, vars, Seen
  <2>2. CASE Next
    BY <1>2, <2>2, RecordedFits, StepIs, StepRetention DEF Next
  <2> QED BY <1>2, <2>1, <2>2
<1>3. ASSUME Recorded, RetentionInv, Next, NEW s \in Slots, NEW k \in AllKeys, NEW v \in Versions
      PROVE  Keep(s, k, v)
  BY <1>3, ServesActs, RetentionCall
<1>4. ASSUME Recorded, RetentionInv, [Next]_vars
      PROVE  [\A s \in Slots, k \in AllKeys, v \in Versions : Keep(s, k, v)]_vars
  BY <1>3, <1>4
<1>5. Spec => [][\A s \in Slots, k \in AllKeys, v \in Versions : Keep(s, k, v)]_vars
  <2> HIDE DEF Keep
  <2> QED BY <1>1, <1>2, <1>4, AlwaysRecorded, PTL DEF Spec
<1> QED BY <1>5 DEF RetentionKept

-----------------------------------------------------------------------------
(* Locks *)

\* The request is the one it was, and has seen no less.
Knows(t) ==
  /\ cfg' = cfg /\ Seen(t) \subseteq Seen(t)'
  /\ req'[t].in = req[t].in /\ req'[t].row = req[t].row /\ req'[t].acc = req[t].acc

\* What a request asks for, and how its locks are judged, stays.
LEMMA SameRequest ==
  ASSUME NEW t \in Slots, Knows(t)
  PROVE  /\ Mode(req'[t]) = Mode(req[t]) /\ Names(req'[t]) = Names(req[t])
         /\ Overwrites(req'[t]) = Overwrites(req[t]) /\ Batch(req'[t]) = Batch(req[t])
         /\ Account(req'[t], TRUE) = Account(req[t], TRUE)
  BY DEF Knows, Mode, Names, Overwrites, Batch, Account

\* A permission to bypass that was seen stays seen.
LEMMA BypassKnown ==
  ASSUME NEW t \in Slots, Knows(t), NEW k, MayBypass(t, k) PROVE MayBypass(t, k)'
<1>1. PICK p \in Seen(t) : verifyBypassGovernancePermission(
        p.bkt.policy, cfg.iam, Account(req[t], TRUE), k, Mode(req[t]))
  BY DEF MayBypass
<1>2. /\ p \in Seen(t)' /\ cfg' = cfg /\ Account(req'[t], TRUE) = Account(req[t], TRUE)
      /\ Mode(req'[t]) = Mode(req[t]) /\ Mode(req[t]) # "none"
  BY SameRequest DEF Knows, MayBypass
<1>3. verifyBypassGovernancePermission(p.bkt.policy, cfg'.iam, Account(req'[t], TRUE), k, Mode(req'[t]))
  BY <1>1, <1>2
<1>4. /\ Mode(req'[t]) # "none"
      /\ \E x \in Seen(t)' : verifyBypassGovernancePermission(
           x.bkt.policy, cfg'.iam, Account(req'[t], TRUE), k, Mode(req'[t]))
  BY <1>2, <1>3
<1> QED BY <1>4 DEF MayBypass

\* An object that was found free stays found free.
LEMMA FreeKnown ==
  ASSUME NEW t \in Slots, Knows(t), NEW k, Free(t, k) PROVE Free(t, k)'
<1>1. ASSUME NEW v \in Versions, Names(req'[t]) => v = "old"
      PROVE  \E c, h, g \in Seen(t)' : LetsGo(c, h, g, t, k, v)'
  <2>1. Names(req'[t]) = Names(req[t])
    BY SameRequest
  <2>2. PICK c, h, g \in Seen(t) : LetsGo(c, h, g, t, k, v)
    BY <1>1, <2>1 DEF Free
  <2>3. MayBypass(t, k) => MayBypass(t, k)'
    BY BypassKnown
  <2>4. LetsGo(c, h, g, t, k, v)'
    BY <2>1, <2>2, <2>3 DEF LetsGo
  <2>5. c \in Seen(t)' /\ h \in Seen(t)' /\ g \in Seen(t)'
    BY DEF Knows
  <2> QED BY <2>4, <2>5
<1> QED BY <1>1 DEF Free

\* A retention that let the request pass stays seen.
LEMMA PassedKnown ==
  ASSUME NEW t \in Slots, Knows(t), NEW k, RetentionPassed(t, k) PROVE RetentionPassed(t, k)'
<1>1. PICK h \in Seen(t) : \/ Stored(h, t, k).mode = "none"
                           \/ Stored(h, t, k).mode # "COMPLIANCE" /\ MayBypass(t, k)
  BY DEF RetentionPassed
<1>2. h \in Seen(t)' /\ Stored(h, t, k)' = Stored(h, t, k)
  BY SameRequest DEF Knows, Stored
<1>3. MayBypass(t, k) => MayBypass(t, k)'
  BY BypassKnown
<1>4. h \in Seen(t)' /\ (\/ Stored(h, t, k)'.mode = "none"
                         \/ Stored(h, t, k)'.mode # "COMPLIANCE" /\ MayBypass(t, k)')
  BY <1>1, <1>2, <1>3
<1> QED BY <1>4 DEF RetentionPassed, Stored

\* The steps that may be pending, by their name.
LEMMA PendingIs ==
  ASSUME NEW s, NEW x, Pending(s, x)
  PROVE  \E k \in AllKeys :
           /\ x.key = k /\ x.bypass = Mode(req[s]) /\ x.named = Names(req[s])
           /\ \/ x = CheckOf("CheckRetention", k, Mode(req[s]), Names(req[s])) /\ x.do = "CheckRetention"
              \/ /\ x = CheckOf("CheckHold", k, Mode(req[s]), Names(req[s])) /\ x.do = "CheckHold"
                 /\ RetentionPassed(s, k)
              \/ /\ x = Bypass(k, Mode(req[s]), Names(req[s]), TRUE, TRUE)
                 /\ x.do = "Bypass" /\ x.hold = TRUE /\ x.pub = TRUE
                 /\ Mode(req[s]) # "none" /\ \E h \in Seen(s) : Stored(h, s, k).mode # "COMPLIANCE"
              \/ /\ x = Bypass(k, Mode(req[s]), Names(req[s]), TRUE, FALSE)
                 /\ x.do = "Bypass" /\ x.hold = FALSE /\ x.pub = TRUE
                 /\ Mode(req[s]) # "none" /\ RetentionPassed(s, k)
                 /\ req[s].lock.default # "COMPLIANCE" /\ \E g \in Seen(s) : ~ Stored(g, s, k).hold
<1> DEFINE m == Mode(req[s])
           n == Names(req[s])
<1>1. \A k : /\ CheckOf("CheckRetention", k, m, n).do = "CheckRetention"
             /\ CheckOf("CheckHold", k, m, n).do = "CheckHold"
             /\ CheckOf("CheckRetention", k, m, n).key = k /\ CheckOf("CheckHold", k, m, n).key = k
             /\ CheckOf("CheckRetention", k, m, n).bypass = m /\ CheckOf("CheckHold", k, m, n).bypass = m
             /\ CheckOf("CheckRetention", k, m, n).named = n /\ CheckOf("CheckHold", k, m, n).named = n
  BY DEF CheckOf
<1>2. \A k, b : LET x2 == Bypass(k, m, n, TRUE, b)
                IN  /\ x2.do = "Bypass" /\ x2.key = k /\ x2.bypass = m /\ x2.named = n
                    /\ x2.pub = TRUE /\ x2.hold = b
  BY DEF Bypass
<1>3. PICK k \in AllKeys :
        \/ x = CheckOf("CheckRetention", k, m, n)
        \/ x = CheckOf("CheckHold", k, m, n) /\ RetentionPassed(s, k)
        \/ /\ x = Bypass(k, m, n, TRUE, TRUE)
           /\ m # "none" /\ \E h \in Seen(s) : Stored(h, s, k).mode # "COMPLIANCE"
        \/ /\ x = Bypass(k, m, n, TRUE, FALSE)
           /\ m # "none" /\ RetentionPassed(s, k) /\ req[s].lock.default # "COMPLIANCE"
           /\ \E g \in Seen(s) : ~ Stored(g, s, k).hold
  BY DEF Pending
<1> HIDE DEF m, n
<1>4. CASE x = CheckOf("CheckRetention", k, m, n)
  <2>1. x.key = k /\ x.bypass = m /\ x.named = n /\ x.do = "CheckRetention"
    BY <1>1, <1>4
  <2> QED BY <1>4, <2>1 DEF m, n
<1>5. CASE x = CheckOf("CheckHold", k, m, n) /\ RetentionPassed(s, k)
  <2>1. x.key = k /\ x.bypass = m /\ x.named = n /\ x.do = "CheckHold"
    BY <1>1, <1>5
  <2> QED BY <1>5, <2>1 DEF m, n
<1>6. CASE /\ x = Bypass(k, m, n, TRUE, TRUE)
           /\ m # "none" /\ \E h \in Seen(s) : Stored(h, s, k).mode # "COMPLIANCE"
  <2>1. x.key = k /\ x.bypass = m /\ x.named = n /\ x.do = "Bypass" /\ x.hold = TRUE /\ x.pub = TRUE
    BY <1>2, <1>6
  <2> QED BY <1>6, <2>1 DEF m, n
<1>7. CASE /\ x = Bypass(k, m, n, TRUE, FALSE)
           /\ m # "none" /\ RetentionPassed(s, k) /\ req[s].lock.default # "COMPLIANCE"
           /\ \E g \in Seen(s) : ~ Stored(g, s, k).hold
  <2>1. x.key = k /\ x.bypass = m /\ x.named = n /\ x.do = "Bypass" /\ x.hold = FALSE /\ x.pub = TRUE
    BY <1>2, <1>7
  <2> QED BY <1>7, <2>1 DEF m, n
<1> QED BY <1>3, <1>4, <1>5, <1>6, <1>7

\* A check that is left keeps the grounds it was left on.
LEMMA PendingKnown ==
  ASSUME NEW t \in Slots, Knows(t), req'[t].lock = req[t].lock, NEW x, Pending(t, x) PROVE Pending(t, x)'
<1>1. Mode(req'[t]) = Mode(req[t]) /\ Names(req'[t]) = Names(req[t]) /\ Seen(t) \subseteq Seen(t)'
  BY SameRequest DEF Knows
<1>2. \A k : RetentionPassed(t, k) => RetentionPassed(t, k)'
  BY PassedKnown
<1>3. \A h, k : Stored(h, t, k)' = Stored(h, t, k)
  BY <1>1 DEF Stored
<1> QED BY <1>1, <1>2, <1>3 DEF Pending, Stored

\* The program of a request that removes or overwrites comes to the lock first.
EarlyDo ==
  {"Valid", "Public", "Signature", "IsAdmin", "ParseAcl", "Authorize", "Copy", "Source", "Objects",
   "Encrypt"}

\* Every handler in Removers comes to CheckObjectAccess before its call, and after it only
\* to validation, encryption and that call.
LEMMA LockProgram ==
  ASSUME NEW r, r.row.controller \in Removers, r.todo = ProcessHandlers(r.row, r.in)
  PROVE  BeforeLock(r)
<1> DEFINE c == r.row.controller
           con == Controller(c, r.in)
           load == CheckObjectAccess(Mode(r), Overwrites(r))
<1>1. PICK p : /\ IsSeq(p) /\ r.todo = p \o con
               /\ \A i \in 1 .. Len(p) : p[i].do \in FirstDo
  BY HandlersAre
<1>2. IsSeq(con)
  BY ControllerIsSeq
<1>3. \E j \in 1 .. Len(con) :
        /\ \A i \in 1 .. j - 1 : con[i].do \in EarlyDo
        /\ con[j] = load
        /\ \A i \in j + 1 .. Len(con) : Late(con[i], c)
  <2>1. ASSUME NEW q, NEW j \in Nat, con = q, j \in 1 .. Len(q),
               \A i \in 1 .. j - 1 : q[i].do \in EarlyDo, q[j] = load,
               \A i \in j + 1 .. Len(q) : Late(q[i], c)
        PROVE  \E n \in 1 .. Len(con) :
                 /\ \A i \in 1 .. n - 1 : con[i].do \in EarlyDo
                 /\ con[n] = load
                 /\ \A i \in n + 1 .. Len(con) : Late(con[i], c)
    BY <2>1
  <2>2. /\ \A perm, on, actions, pub : Authorize(perm, on, actions, pub).do = "Authorize"
        /\ \A actions, pub : CopyAccess(actions, pub).do = "Copy"
        /\ Valid.do = "Valid" /\ ResolveEncryption.do = "Encrypt" /\ Do("Objects").do = "Objects"
    BY DEF Authorize, CopyAccess, Valid, ResolveEncryption, Do
  <2>3. /\ Late(Valid, c) /\ Late(ResolveEncryption, c) /\ Late(Call(c), c)
    BY <2>2 DEF Late
  <2>4. c \in {"DeleteObject", "DeleteObjects"} => load = CheckObjectAccess(BypassModeForRequest(r.in), FALSE)
    <3>1. ASSUME c \in {"DeleteObject", "DeleteObjects"}
          PROVE  (Overwrites(r) = FALSE) /\ Mode(r) = BypassModeForRequest(r.in)
      BY <3>1 DEF Mode, Overwrites
    <3> QED BY <3>1
  <2>5. c \in {"PutObject", "CopyObject", "CompleteMultipartUpload"} => load = CheckObjectAccess("overwrite", TRUE)
    BY DEF Mode, Overwrites
  <2>6. CASE c = "PutObject"
    <3> DEFINE a == Authorize("WRITE", "object", WriteActions(r.in), TRUE)
               q == <<a, Valid, load, Valid, ResolveEncryption, Call("PutObject")>>
    <3>1. con = q
      BY <2>5, <2>6 DEF Controller, PutObject
    <3>2. a.do = "Authorize"
      BY <2>2
    <3> HIDE DEF a, load, con, c
    <3>3. /\ 3 \in 1 .. Len(q) /\ q[3] = load /\ \A i \in 1 .. 3 - 1 : q[i].do \in EarlyDo
      BY <2>2, <3>2 DEF EarlyDo
    <3>4. \A i \in 3 + 1 .. Len(q) : Late(q[i], c)
      BY <2>3, <2>6
    <3> HIDE DEF q
    <3> QED BY <2>1, <3>1, <3>3, <3>4
  <2>7. CASE c = "CopyObject"
    <3> DEFINE a == CopyAccess(WriteActions(r.in), FALSE)
               q == <<Valid, a, Valid, ResolveEncryption, load, Call("CopyObject")>>
    <3>1. con = q
      BY <2>5, <2>7 DEF Controller, CopyObject
    <3>2. a.do = "Copy"
      BY <2>2
    <3> HIDE DEF a, load, con, c
    <3>3. /\ 5 \in 1 .. Len(q) /\ q[5] = load /\ \A i \in 1 .. 5 - 1 : q[i].do \in EarlyDo
      BY <2>2, <3>2 DEF EarlyDo
    <3>4. \A i \in 5 + 1 .. Len(q) : Late(q[i], c)
      BY <2>3, <2>7
    <3> HIDE DEF q
    <3> QED BY <2>1, <3>1, <3>3, <3>4
  <2>8. CASE c = "CompleteMultipartUpload"
    <3> DEFINE a == ObjectStep("WRITE", "PutObject")
               q == <<a, Valid, load, Call("CompleteMultipartUpload")>>
    <3>1. con = q
      BY <2>5, <2>8 DEF Controller, CompleteMultipartUpload
    <3>2. a.do = "Authorize"
      BY <2>2 DEF ObjectStep
    <3> HIDE DEF a, load, con, c
    <3>3. /\ 3 \in 1 .. Len(q) /\ q[3] = load /\ \A i \in 1 .. 3 - 1 : q[i].do \in EarlyDo
      BY <2>2, <3>2 DEF EarlyDo
    <3>4. \A i \in 3 + 1 .. Len(q) : Late(q[i], c)
      BY <2>3, <2>8
    <3> HIDE DEF q
    <3> QED BY <2>1, <3>1, <3>3, <3>4
  <2>9. CASE c = "DeleteObject"
    <3> DEFINE a == ObjectStep("WRITE", OfVersion(r.in, "DeleteObject", "DeleteObjectVersion"))
               q == <<a, load, Call("DeleteObject")>>
    <3>1. con = q
      BY <2>4, <2>9 DEF Controller, DeleteObject
    <3>2. a.do = "Authorize"
      BY <2>2 DEF ObjectStep
    <3> HIDE DEF a, load, con, c
    <3>3. /\ 2 \in 1 .. Len(q) /\ q[2] = load /\ \A i \in 1 .. 2 - 1 : q[i].do \in EarlyDo
      BY <2>2, <3>2 DEF EarlyDo
    <3>4. \A i \in 2 + 1 .. Len(q) : Late(q[i], c)
      BY <2>3, <2>9
    <3> HIDE DEF q
    <3> QED BY <2>1, <3>1, <3>3, <3>4
  <2>10. CASE c = "DeleteObjects"
    <3> DEFINE q == <<Valid, Do("Objects"), load, Call("DeleteObjects")>>
    <3>1. con = q
      BY <2>4, <2>10 DEF Controller, DeleteObjects
    <3> HIDE DEF load, con, c
    <3>3. /\ 3 \in 1 .. Len(q) /\ q[3] = load /\ \A i \in 1 .. 3 - 1 : q[i].do \in EarlyDo
      BY <2>2 DEF EarlyDo
    <3>4. \A i \in 3 + 1 .. Len(q) : Late(q[i], c)
      BY <2>3, <2>10
    <3> HIDE DEF q
    <3> QED BY <2>1, <3>1, <3>3, <3>4
  <2> QED BY <2>6, <2>7, <2>8, <2>9, <2>10 DEF Removers
<1> HIDE DEF con, load, c
<1>4. PICK j \in 1 .. Len(con) :
        /\ \A i \in 1 .. j - 1 : con[i].do \in EarlyDo
        /\ con[j] = load
        /\ \A i \in j + 1 .. Len(con) : Late(con[i], c)
  BY <1>3
<1>5. /\ IsSeq(r.todo) /\ Len(r.todo) = Len(p) + Len(con) /\ Len(p) \in Nat /\ Len(con) \in Nat
      /\ \A i \in 1 .. Len(p) : r.todo[i] = p[i]
      /\ \A i \in 1 .. Len(con) : r.todo[Len(p) + i] = con[i]
  BY <1>1, <1>2, ConcatStep, SeqLen
<1>6. Len(p) + j \in 1 .. Len(r.todo) /\ r.todo[Len(p) + j] = load
  BY <1>4, <1>5
<1>7. ASSUME NEW i \in 1 .. (Len(p) + j) - 1 PROVE r.todo[i].do \in EarlyDo
  <2>1. CASE i <= Len(p)
    BY <2>1, <1>1, <1>5 DEF FirstDo, EarlyDo
  <2>2. CASE i > Len(p)
    <3>1. i - Len(p) \in 1 .. j - 1 /\ i - Len(p) \in 1 .. Len(con) /\ i = Len(p) + (i - Len(p))
      BY <2>2, <1>4, <1>5
    <3> QED BY <3>1, <1>4, <1>5
  <2> QED BY <2>1, <2>2, <1>5
<1>8. ASSUME NEW i \in (Len(p) + j) + 1 .. Len(r.todo) PROVE Late(r.todo[i], c)
  <2>1. i - Len(p) \in j + 1 .. Len(con) /\ i - Len(p) \in 1 .. Len(con) /\ i = Len(p) + (i - Len(p))
    BY <1>4, <1>5
  <2> QED BY <2>1, <1>4, <1>5
<1> QED BY <1>6, <1>7, <1>8 DEF BeforeLock, load, c, EarlyDo

\* An object is found free: by what is stored now ...
LEMMA FreeNow ==
  ASSUME Recorded, NEW s \in Slots, req[s].status = "run", NEW k,
         \/ StoredLock(obj[k], Names(req[s])) = Absent
         \/ /\ StoredLock(obj[k], Names(req[s])).mode # "none"
            /\ StoredLock(obj[k], Names(req[s])).until = 0
  PROVE  Free(s, k)
<1>1. PICK h \in Seen(s) : h.obj = obj
  BY SeesNow
<1>2. ASSUME NEW v \in Versions, Names(req[s]) => v = "old" PROVE LetsGo(h, h, h, s, k, v)
  <2>1. CASE ~ Names(req[s]) /\ obj[k].cur # v
    BY <1>1, <2>1 DEF LetsGo
  <2>2. CASE Names(req[s]) \/ obj[k].cur = v
    <3>1. StoredLock(obj[k], Names(req[s])) = obj[k].locks[v]
      BY <1>2, <2>2 DEF StoredLock
    <3> QED BY <1>1, <3>1 DEF LetsGo
  <2> QED BY <2>1, <2>2
<1> QED BY <1>1, <1>2 DEF Free

\* A bucket that protects nothing the request removes makes every object free.
LEMMA FreeConfig ==
  ASSUME Recorded, NEW s \in Slots, req[s].status = "run", NEW k,
         ~ bkt.lock.enabled \/ (bkt.versioning = "Enabled" /\ ~ Names(req[s]))
  PROVE  Free(s, k)
<1>1. PICK h \in Seen(s) : h.bkt = bkt
  BY SeesNow
<1>2. \A v : LetsGo(h, h, h, s, k, v)
  BY <1>1 DEF LetsGo
<1> QED BY <1>1, <1>2 DEF Free

\* ... or by its retention, its legal hold and the bucket's retention.
LEMMA FreeHold ==
  ASSUME NEW s \in Slots, NEW k, RetentionPassed(s, k), NEW g \in Seen(s), ~ Stored(g, s, k).hold,
         NEW c \in Seen(s),
         c.bkt.lock.default = "none" \/ (c.bkt.lock.default # "COMPLIANCE" /\ MayBypass(s, k))
  PROVE  Free(s, k)
<1>1. PICK h \in Seen(s) : \/ Stored(h, s, k).mode = "none"
                           \/ Stored(h, s, k).mode # "COMPLIANCE" /\ MayBypass(s, k)
  BY DEF RetentionPassed
<1>2. ASSUME NEW v \in Versions, Names(req[s]) => v = "old"
      PROVE  LetsGo(c, h, g, s, k, v) \/ LetsGo(c, g, g, s, k, v)
  <2>1. CASE ~ Names(req[s]) /\ h.obj[k].cur # v
    BY <2>1 DEF LetsGo
  <2>2. CASE ~ Names(req[s]) /\ g.obj[k].cur # v
    BY <2>2 DEF LetsGo
  <2>3. CASE Names(req[s]) \/ (h.obj[k].cur = v /\ g.obj[k].cur = v)
    <3>1. Stored(h, s, k) = h.obj[k].locks[v] /\ Stored(g, s, k) = g.obj[k].locks[v]
      BY <1>2, <2>3 DEF Stored, StoredLock
    <3> QED BY <1>1, <3>1 DEF LetsGo
  <2> QED BY <2>1, <2>2, <2>3
<1> QED BY <1>1, <1>2 DEF Free

\* The first step that is left is done ...
LEMMA AfterTail ==
  ASSUME NEW s \in Slots, Knows(s), IsSeq(req[s].todo), req[s].todo # <<>>, AfterLock(s),
         req'[s].lock = req[s].lock, req'[s].todo = Tail(req[s].todo),
         \A k \in Targets(req'[s]) :
           /\ k \in Targets(req[s])
           /\ Pending(s, Head(req[s].todo)) /\ Head(req[s].todo).key = k => Free(s, k)
  PROVE  AfterLock(s)'
<1> DEFINE q == req[s].todo
           t == req'[s].todo
           c == req[s].row.controller
<1>1. PICK n \in 0 .. Len(q) :
        /\ \A i \in 1 .. n : Pending(s, q[i])
        /\ \A i \in n + 1 .. Len(q) : Late(q[i], c)
        /\ \A k \in Targets(req[s]) : Free(s, k) \/ \E i \in 1 .. n : q[i].key = k
  BY DEF AfterLock
<1>2. /\ Len(q) \in Nat \ {0} /\ Len(t) = Len(q) - 1 /\ Head(q) = q[1]
      /\ \A i \in 1 .. Len(q) - 1 : t[i] = q[i + 1]
  BY TailStep
<1>3. \E d \in Seen(s)' : req'[s].lock.default = d.bkt.lock.default
  BY DEF AfterLock, Knows
<1>4. req'[s].row.controller = c
  BY DEF Knows
<1>5. ASSUME NEW k, Free(s, k) PROVE Free(s, k)'
  BY <1>5, FreeKnown
<1>6. ASSUME NEW x, Pending(s, x) PROVE Pending(s, x)'
  BY <1>6, PendingKnown
<1> DEFINE m == IF n = 0 THEN 0 ELSE n - 1
<1>7. m \in 0 .. Len(t) /\ (n = 0 \/ m = n - 1) /\ (n = 0 => m = 0)
  BY <1>2
<1> HIDE DEF q, t, c, m
<1>8. ASSUME NEW i \in 1 .. m PROVE Pending(s, req[s].todo[i])'
  <2>1. t[i] = q[i + 1] /\ i + 1 \in 1 .. n
    BY <1>1, <1>2, <1>7
  <2>2. PICK x : x = q[i + 1]
    OBVIOUS
  <2>3. Pending(s, x)'
    BY <2>1, <2>2, <1>1, <1>6
  <2>4. req'[s].todo[i] = x
    BY <2>1, <2>2 DEF t
  <2> QED BY <2>3, <2>4
<1>9. ASSUME NEW i \in m + 1 .. Len(t) PROVE Late(t[i], c)
  <2>1. i \in 1 .. Len(q) - 1 /\ i + 1 \in n + 1 .. Len(q)
    BY <1>2, <1>7
  <2> QED BY <1>1, <1>2, <2>1
<1>10. ASSUME NEW k \in Targets(req'[s]) PROVE Free(s, k)' \/ \E i \in 1 .. m : t[i].key = k
  <2>1. CASE Free(s, k)
    BY <2>1, <1>5
  <2>2. CASE ~ Free(s, k)
    <3>1. PICK i \in 1 .. n : q[i].key = k
      BY <1>1, <2>2
    <3>2. i # 1
      BY <1>1, <1>2, <2>2, <3>1 DEF q
    <3>3. i - 1 \in 1 .. m /\ i - 1 \in 1 .. Len(q) - 1 /\ (i - 1) + 1 = i
      BY <1>1, <1>2, <1>7, <3>1, <3>2
    <3>4. t[i - 1] = q[i]
      BY <1>2, <3>3
    <3> QED BY <3>1, <3>3, <3>4
  <2> QED BY <2>1, <2>2
<1> QED BY <1>3, <1>4, <1>7, <1>8, <1>9, <1>10 DEF AfterLock, t

\* ... or takes another form.
LEMMA AfterTop ==
  ASSUME NEW s \in Slots, Knows(s), IsSeq(req[s].todo), req[s].todo # <<>>, AfterLock(s),
         req'[s].lock = req[s].lock, req'[s].refused = req[s].refused,
         ~ Late(Head(req[s].todo), req[s].row.controller),
         NEW x, Pending(s, x), x.key = Head(req[s].todo).key,
         req'[s].todo = <<x>> \o Tail(req[s].todo)
  PROVE  AfterLock(s)'
<1> DEFINE q == req[s].todo
           t == req'[s].todo
           c == req[s].row.controller
<1>1. PICK n \in 0 .. Len(q) :
        /\ \A i \in 1 .. n : Pending(s, q[i])
        /\ \A i \in n + 1 .. Len(q) : Late(q[i], c)
        /\ \A k \in Targets(req[s]) : Free(s, k) \/ \E i \in 1 .. n : q[i].key = k
  BY DEF AfterLock
<1>2. /\ Len(q) \in Nat \ {0} /\ Head(q) = q[1]
  BY TailStep
<1>3. Len(t) = Len(q) /\ t[1] = x /\ \A i \in 2 .. Len(q) : t[i] = q[i]
  BY OnTop
<1>4. \E d \in Seen(s)' : req'[s].lock.default = d.bkt.lock.default
  BY DEF AfterLock, Knows
<1>5. req'[s].row.controller = c /\ Targets(req'[s]) = Targets(req[s])
  BY DEF Knows, Targets, Batch
<1>6. ASSUME NEW k, Free(s, k) PROVE Free(s, k)'
  BY <1>6, FreeKnown
<1>7. ASSUME NEW y, Pending(s, y) PROVE Pending(s, y)'
  BY <1>7, PendingKnown
<1>8. n >= 1 /\ x.key = q[1].key
  BY <1>1, <1>2
<1> HIDE DEF q, t, c
<1>9. ASSUME NEW i \in 1 .. n PROVE Pending(s, req[s].todo[i])'
  <2>1. CASE i = 1
    <3>1. Pending(s, x)'
      BY <1>7
    <3>2. req'[s].todo[i] = x
      BY <2>1, <1>3 DEF t
    <3> QED BY <3>1, <3>2
  <2>2. CASE i # 1
    <3>1. t[i] = q[i] /\ Pending(s, q[i])
      BY <1>1, <1>2, <1>3, <2>2
    <3>2. PICK y : y = q[i]
      OBVIOUS
    <3>3. Pending(s, y)'
      BY <3>1, <3>2, <1>7
    <3>4. req'[s].todo[i] = y
      BY <3>1, <3>2 DEF t
    <3> QED BY <3>3, <3>4
  <2> QED BY <2>1, <2>2
<1>10. ASSUME NEW i \in n + 1 .. Len(t) PROVE Late(t[i], c)
  BY <1>1, <1>2, <1>3, <1>8
<1>11. ASSUME NEW k \in Targets(req'[s]) PROVE Free(s, k)' \/ \E i \in 1 .. n : t[i].key = k
  <2>1. CASE Free(s, k)
    BY <2>1, <1>6
  <2>2. CASE ~ Free(s, k)
    <3>1. PICK i \in 1 .. n : q[i].key = k
      BY <1>1, <1>5, <2>2
    <3>2. t[i].key = k
      BY <1>1, <1>2, <1>3, <1>8, <3>1
    <3> QED BY <3>2
  <2> QED BY <2>1, <2>2
<1> QED BY <1>1, <1>3, <1>4, <1>5, <1>9, <1>10, <1>11 DEF AfterLock, t

\* The next step after the lock configuration was read: a check, or the rest.
LEMMA AfterHead ==
  ASSUME NEW s \in Slots, IsSeq(req[s].todo), req[s].todo # <<>>, AfterLock(s)
  PROVE  \/ /\ Pending(s, Head(req[s].todo)) /\ ~ Late(Head(req[s].todo), req[s].row.controller)
            /\ Head(req[s].todo).do \in {"CheckRetention", "CheckHold", "Bypass"}
         \/ /\ ~ Pending(s, Head(req[s].todo)) /\ Late(Head(req[s].todo), req[s].row.controller)
            /\ Head(req[s].todo).do \in {"Valid", "Encrypt", "Call"}
<1> DEFINE x == Head(req[s].todo)
           c == req[s].row.controller
<1>1. PICK n \in 0 .. Len(req[s].todo) :
        /\ \A i \in 1 .. n : Pending(s, req[s].todo[i])
        /\ \A i \in n + 1 .. Len(req[s].todo) : Late(req[s].todo[i], c)
  BY DEF AfterLock
<1>2. Len(req[s].todo) \in Nat \ {0} /\ x = req[s].todo[1]
  BY TailStep
<1> HIDE DEF x, c
<1>3. Pending(s, x) \/ Late(x, c)
  <2>1. CASE n = 0
    BY <1>1, <1>2, <2>1
  <2>2. CASE n # 0
    BY <1>1, <1>2, <2>2
  <2> QED BY <2>1, <2>2
<1>4. Pending(s, x) => x.do \in {"CheckRetention", "CheckHold", "Bypass"}
  BY PendingIs
<1>5. Late(x, c) => x.do \in {"Valid", "Encrypt", "Call"}
  BY DEF Late, Call
<1> QED BY <1>3, <1>4, <1>5 DEF x, c

\* The next step before it was read.
LEMMA BeforeHead ==
  ASSUME NEW r, IsSeq(r.todo), BeforeLock(r)
  PROVE  /\ r.todo # <<>>
         /\ \/ Head(r.todo).do \in EarlyDo
            \/ /\ Head(r.todo) = CheckObjectAccess(Mode(r), Overwrites(r))
               /\ \A i \in 1 .. Len(Tail(r.todo)) : Late(Tail(r.todo)[i], r.row.controller)
<1>1. PICK j \in 1 .. Len(r.todo) :
        /\ \A i \in 1 .. j - 1 : r.todo[i].do \in EarlyDo
        /\ r.todo[j] = CheckObjectAccess(Mode(r), Overwrites(r))
        /\ \A i \in j + 1 .. Len(r.todo) : Late(r.todo[i], r.row.controller)
  BY DEF BeforeLock, EarlyDo
<1>2. r.todo # <<>> /\ Len(r.todo) \in Nat
  BY <1>1, SeqLen
<1>3. /\ Len(Tail(r.todo)) = Len(r.todo) - 1 /\ Head(r.todo) = r.todo[1]
      /\ \A i \in 1 .. Len(r.todo) - 1 : Tail(r.todo)[i] = r.todo[i + 1]
  BY <1>2, TailStep
<1>4. CASE j = 1
  <2>1. ASSUME NEW i \in 1 .. Len(Tail(r.todo)) PROVE Late(Tail(r.todo)[i], r.row.controller)
    BY <1>1, <1>2, <1>3, <1>4
  <2> QED BY <1>1, <1>2, <1>3, <1>4, <2>1
<1>5. CASE j # 1
  BY <1>1, <1>2, <1>3, <1>5
<1> QED BY <1>4, <1>5

\* A step before it was read leaves the reading to come.
LEMMA BeforeRest ==
  ASSUME NEW r, IsSeq(r.todo), BeforeLock(r), Head(r.todo).do # "LoadLock",
         NEW u, u.in = r.in, u.row = r.row,
         u.todo = Tail(r.todo) \/ \E x : x.do \in EarlyDo /\ u.todo = <<x>> \o Tail(r.todo)
  PROVE  BeforeLock(u)
<1> DEFINE c == r.row.controller
           load == CheckObjectAccess(Mode(r), Overwrites(r))
           q == r.todo
           w == u.todo
<1>1. PICK j \in 1 .. Len(q) :
        /\ \A i \in 1 .. j - 1 : q[i].do \in EarlyDo
        /\ q[j] = load
        /\ \A i \in j + 1 .. Len(q) : Late(q[i], c)
  BY DEF BeforeLock, EarlyDo
<1>2. q # <<>> /\ Len(q) \in Nat
  BY <1>1, SeqLen
<1>3. /\ Len(Tail(q)) = Len(q) - 1 /\ Head(q) = q[1]
      /\ \A i \in 1 .. Len(q) - 1 : Tail(q)[i] = q[i + 1]
  BY <1>2, TailStep
<1>4. load.do = "LoadLock"
  BY DEF CheckObjectAccess
<1>5. j \in 2 .. Len(q)
  BY <1>1, <1>2, <1>3, <1>4
<1>6. u.row.controller = c /\ CheckObjectAccess(Mode(u), Overwrites(u)) = load
  BY DEF Mode, Overwrites
<1>7. ASSUME NEW m \in 1 .. Len(w), \A i \in 1 .. m - 1 : w[i].do \in EarlyDo, w[m] = load,
             \A i \in m + 1 .. Len(w) : Late(w[i], c)
      PROVE  BeforeLock(u)
  BY <1>6, <1>7 DEF BeforeLock, EarlyDo
<1> HIDE DEF q, w, load, c
<1>8. CASE w = Tail(q)
  <2>1. j - 1 \in 1 .. Len(w) /\ w[j - 1] = load
    <3>1. j - 1 \in 1 .. Len(q) - 1 /\ (j - 1) + 1 = j
      BY <1>2, <1>5
    <3> QED BY <1>1, <1>3, <1>8, <3>1
  <2>2. ASSUME NEW i \in 1 .. (j - 1) - 1 PROVE w[i].do \in EarlyDo
    BY <1>1, <1>2, <1>3, <1>5, <1>8
  <2>3. ASSUME NEW i \in (j - 1) + 1 .. Len(w) PROVE Late(w[i], c)
    BY <1>1, <1>2, <1>3, <1>5, <1>8
  <2> QED BY <2>1, <2>2, <2>3, <1>7
<1>9. ASSUME NEW x, x.do \in EarlyDo, w = <<x>> \o Tail(q) PROVE BeforeLock(u)
  <2>1. Len(w) = Len(q) /\ w[1] = x /\ \A i \in 2 .. Len(q) : w[i] = q[i]
    BY <1>2, <1>9, OnTop DEF q
  <2>2. j \in 1 .. Len(w) /\ w[j] = load
    BY <1>1, <1>5, <2>1
  <2>3. ASSUME NEW i \in 1 .. j - 1 PROVE w[i].do \in EarlyDo
    BY <1>1, <1>2, <1>5, <1>9, <2>1
  <2>4. ASSUME NEW i \in j + 1 .. Len(w) PROVE Late(w[i], c)
    BY <1>1, <1>2, <1>5, <2>1
  <2> QED BY <2>2, <2>3, <2>4, <1>7
<1> QED BY <1>8, <1>9 DEF q, w

\* Reading the configuration: nothing protects any object, or all are to be checked.
LEMMA LoadStep ==
  ASSUME Recorded, NEW s \in Slots, req[s].status = "run", BeforeLock(req[s]), LoadLockState(s), Knows(s)
  PROVE  AfterLock(s)'
<1> DEFINE r == req[s]
           q == r.todo
           c == r.row.controller
           w == req'[s].todo
           p == ChecksLeft(s)
<1>0. Fits(s) /\ IsSeq(q)
  BY RecordedFits DEF Recorded
<1>1. /\ At(s, "LoadLock") /\ Loads(s)
      /\ \/ /\ \/ ~ bkt.lock.enabled
               \/ bkt.versioning = "Enabled" /\ (~ r.in.version \/ Step(s).overwrite)
            /\ w = <<>> \o Tail(q)
         \/ w = p \o Tail(q)
  BY <1>0, LoadDoes
<1>2. /\ q # <<>> /\ Head(q) = CheckObjectAccess(Mode(r), Overwrites(r))
      /\ \A i \in 1 .. Len(Tail(q)) : Late(Tail(q)[i], c)
  BY <1>0, <1>1, BeforeHead DEF At, EarlyDo
<1>3. Step(s).bypass = Mode(r) /\ (Step(s).overwrite <=> Overwrites(r))
  BY <1>2 DEF Step, CheckObjectAccess
<1>4. IsSeq(Tail(q)) /\ Len(Tail(q)) \in Nat
  BY <1>0, <1>2, TailStep, SeqLen
<1>5. (r.in.version /\ ~ Step(s).overwrite) = Names(r)
  BY <1>3 DEF Names
<1>6. req'[s].row.controller = c /\ req'[s].refused = r.refused /\ Targets(req'[s]) = Targets(r)
  BY <1>1 DEF Loads, Keeps, Targets, Batch
<1>7. \E d \in Seen(s)' : req'[s].lock.default = d.bkt.lock.default
  <2>1. PICK h \in Seen(s) : h.bkt = bkt
    BY SeesNow
  <2>2. req'[s].lock.default = bkt.lock.default
    BY <1>1 DEF Loads, loadObjectLockState
  <2> QED BY <2>1, <2>2 DEF Knows
<1>8. CASE /\ ~ bkt.lock.enabled \/ (bkt.versioning = "Enabled" /\ (~ r.in.version \/ Step(s).overwrite))
           /\ w = <<>> \o Tail(q)
  <2>1. w = Tail(q)
    BY <1>4, <1>8, NothingOnTop
  <2>2. ~ bkt.lock.enabled \/ (bkt.versioning = "Enabled" /\ ~ Names(r))
    BY <1>3, <1>8 DEF Names
  <2>3. ASSUME NEW k PROVE Free(s, k)'
    BY <2>2, FreeConfig, FreeKnown
  <2>4. 0 \in 0 .. Len(w) /\ \A i \in 0 + 1 .. Len(w) : Late(w[i], c)
    BY <1>2, <1>4, <2>1
  <2>5. \A i \in 1 .. 0 : Pending(s, req[s].todo[i])'
    OBVIOUS
  <2> QED BY <1>6, <1>7, <2>3, <2>4, <2>5 DEF AfterLock
<1>9. CASE w = p \o Tail(q)
  <2> DEFINE keys == Checked(r)
             t == Tail(q)
  <2>1. /\ IsSeq(p) /\ Len(p) = Len(keys) /\ Len(p) \in Nat
        /\ \A i \in 1 .. Len(p) :
              keys[i] \in AllKeys /\ p[i] = CheckOf("CheckRetention", keys[i], Mode(r), Names(r))
        /\ \A k \in Targets(r) : \E i \in 1 .. Len(p) : keys[i] = k
    BY <1>3, <1>5, ChecksAre, SeqLen
  <2>2. \A i \in 1 .. Len(t) : Late(t[i], c)
    BY <1>2
  <2> HIDE DEF keys, t, p
  <2>3. /\ Len(w) = Len(p) + Len(t) /\ Len(t) \in Nat
        /\ \A i \in 1 .. Len(p) : w[i] = p[i]
        /\ \A i \in 1 .. Len(t) : w[Len(p) + i] = t[i]
    <3>1. IsSeq(p) /\ IsSeq(t) /\ w = p \o t
      BY <1>4, <1>9, <2>1 DEF t
    <3>2. Len(t) \in Nat
      BY <1>4 DEF t
    <3> QED BY <3>1, <3>2, ConcatStep
  <2>4. ASSUME NEW i \in 1 .. Len(p) PROVE Pending(s, req[s].todo[i])'
    <3>1. PICK k \in AllKeys : k = keys[i] /\ p[i] = CheckOf("CheckRetention", k, Mode(r), Names(r))
      BY <2>1
    <3>2. PICK x : x = CheckOf("CheckRetention", k, Mode(r), Names(r))
      OBVIOUS
    <3>3. Mode(req'[s]) = Mode(r) /\ Names(req'[s]) = Names(r)
      BY SameRequest
    <3>4. x = CheckOf("CheckRetention", k, Mode(req'[s]), Names(req'[s]))
      BY <3>2, <3>3
    <3>5. Pending(s, x)'
      BY <3>4 DEF Pending
    <3>6. req'[s].todo[i] = x
      BY <2>3, <3>1, <3>2
    <3> QED BY <3>5, <3>6
  <2>5. ASSUME NEW i \in Len(p) + 1 .. Len(w) PROVE Late(w[i], c)
    <3>1. i - Len(p) \in 1 .. Len(t) /\ i = Len(p) + (i - Len(p))
      BY <2>1, <2>3
    <3> QED BY <3>1, <2>2, <2>3
  <2>6. ASSUME NEW k \in Targets(r) PROVE \E i \in 1 .. Len(p) : w[i].key = k
    <3>1. PICK i \in 1 .. Len(p) : keys[i] = k
      BY <2>1
    <3>2. w[i] = CheckOf("CheckRetention", k, Mode(r), Names(r))
      BY <2>1, <2>3, <3>1
    <3>3. w[i].key = k
      BY <3>2 DEF CheckOf
    <3> QED BY <3>3
  <2>7. Len(p) \in 0 .. Len(w)
    BY <2>1, <2>3
  <2> QED BY <1>6, <1>7, <2>4, <2>5, <2>6, <2>7 DEF AfterLock
<1> QED BY <1>1, <1>8, <1>9

\* The step of a request that removes or overwrites, before the locks are read ...
LEMMA BeforeStep ==
  ASSUME Recorded, NEW s \in Slots, req[s].status = "run", req'[s].status = "run",
         BeforeLock(req[s]), Stepped(s)
  PROVE  BeforeLock(req'[s]) \/ AfterLock(s)'
<1> DEFINE r == req[s]
           x == Head(r.todo)
<1>0. Fits(s) /\ IsSeq(r.todo) /\ Grows /\ cfg' = cfg
  BY RecordedFits, StepGrows DEF Recorded
<1>1. ~ Begin(s) /\ ~ Over(s)
  BY DEF Begin, Over
<1>2. Keeps(s)
  BY <1>0, <1>1, StepSame
<1>3. /\ Seen(s) \subseteq Seen(s)' /\ req'[s].in = r.in /\ req'[s].row = r.row
  BY <1>0, <1>2, SeenGrows DEF Keeps
<1>4. r.todo # <<>> /\ x.do \in EarlyDo \cup {"LoadLock"}
  <2>1. CheckObjectAccess(Mode(r), Overwrites(r)).do = "LoadLock"
    BY DEF CheckObjectAccess
  <2>2. r.todo # <<>> /\ (x.do \in EarlyDo \/ x = CheckObjectAccess(Mode(r), Overwrites(r)))
    BY <1>0, BeforeHead
  <2> QED BY <2>1, <2>2
<1>5. CASE LoadLockState(s)
  <2>1. Knows(s)
    BY <1>0, <1>3, <1>5, LoadDoes DEF Knows, Loads
  <2> QED BY <1>5, <2>1, LoadStep
<1>6. CASE Went(s)
  <2>1. req'[s].todo = Tail(r.todo) /\ x.do # "LoadLock"
    BY <1>6 DEF Went, PlainDo
  <2> QED BY <1>0, <1>3, <2>1, BeforeRest
<1>7. CASE At(s, "Copy") /\ Put(s, <<Do("Source")>>)
  <2>1. req'[s].todo = <<Do("Source")>> \o Tail(r.todo) /\ x.do # "LoadLock" /\ Do("Source").do \in EarlyDo
    BY <1>7 DEF Put, At, Do, EarlyDo
  <2> QED BY <1>0, <1>3, <2>1, BeforeRest
<1>8. /\ ~ At(s, "CheckRetention") /\ ~ At(s, "CheckHold") /\ ~ At(s, "Bypass") /\ ~ At(s, "Retain")
      /\ ~ At(s, "Call")
  BY <1>4 DEF At, EarlyDo
<1>9. LoadLockState(s) \/ Went(s) \/ (At(s, "Copy") /\ Put(s, <<Do("Source")>>))
  BY <1>1, <1>8 DEF Stepped, Acts, CheckRetentionStep, CheckHoldStep, BypassStep, RetentionPutAllowed
<1> QED BY <1>5, <1>6, <1>7, <1>9

\* ... and after.
LEMMA AfterStep ==
  ASSUME Recorded, NEW s \in Slots, req[s].status = "run", req'[s].status = "run",
         AfterLock(s), Stepped(s)
  PROVE  AfterLock(s)'
<1> DEFINE r == req[s]
           x == Head(r.todo)
<1>0. Fits(s) /\ IsSeq(r.todo) /\ Grows /\ cfg' = cfg
  BY RecordedFits, StepGrows DEF Recorded
<1>1. ~ Begin(s) /\ ~ Over(s)
  BY DEF Begin, Over
<1>2. Keeps(s)
  BY <1>0, <1>1, StepSame
<1>3. /\ Seen(s) \subseteq Seen(s)' /\ req'[s].in = r.in /\ req'[s].row = r.row
  BY <1>0, <1>2, SeenGrows DEF Keeps
<1>4. r.todo # <<>>
  BY <1>1 DEF Stepped, Went, Running, Acts, At, LoadLockState, CheckRetentionStep, CheckHoldStep,
    BypassStep, RetentionPutAllowed
<1>5. \/ /\ Pending(s, x) /\ ~ Late(x, r.row.controller) /\ x.do \in {"CheckRetention", "CheckHold", "Bypass"}
      \/ /\ ~ Pending(s, x) /\ x.do \in {"Valid", "Encrypt", "Call"}
  BY <1>0, <1>4, AfterHead
<1>6. x = Step(s)
  BY DEF Step
<1>7. req'[s].acc = r.acc => Knows(s)
  BY <1>0, <1>3 DEF Knows
<1> HIDE DEF x
<1>8. CASE Went(s) \/ Acts(s)
  <2>1. /\ req'[s].acc = r.acc /\ req'[s].lock = r.lock /\ req'[s].todo = Tail(r.todo)
        /\ req'[s].refused = r.refused /\ ~ Pending(s, x)
    BY <1>5, <1>8 DEF Went, Acts, At, PlainDo, KeepsAll, x
  <2>2. Targets(req'[s]) = Targets(r)
    BY <1>3, <2>1 DEF Targets, Batch
  <2> QED BY <1>0, <1>4, <1>7, <2>1, <2>2, AfterTail DEF x
\* How the check of an object ends, and how it goes on.
<1>9. ASSUME NEW k, Pending(s, x), x.key = k, Passed(s), k \notin Targets(r) \/ Free(s, k)
      PROVE  AfterLock(s)'
  <2>1. /\ req'[s].acc = r.acc /\ req'[s].lock = r.lock /\ req'[s].todo = Tail(r.todo)
        /\ req'[s].refused = r.refused
    BY <1>9 DEF Passed, KeepsAll
  <2>2. Targets(req'[s]) = Targets(r)
    BY <1>3, <2>1 DEF Targets, Batch
  <2> QED BY <1>0, <1>4, <1>7, <1>9, <2>1, <2>2, AfterTail DEF x
<1>10. ASSUME Refuses(s, x.key) PROVE AfterLock(s)'
  <2>1. /\ Batch(r) /\ req'[s].acc = r.acc /\ req'[s].lock = r.lock /\ req'[s].todo = Tail(r.todo)
        /\ req'[s].refused = r.refused \cup {x.key}
    BY <1>1, <1>10 DEF Refuses
  <2>2. \A k \in Targets(req'[s]) : k \in Targets(r) /\ k # x.key
    BY <1>3, <2>1 DEF Targets, Batch
  <2> QED BY <1>0, <1>4, <1>7, <2>1, <2>2, AfterTail DEF x
<1>11. ASSUME NEW y, Pending(s, x), Pending(s, y), y.key = x.key, Put(s, <<y>>) PROVE AfterLock(s)'
  <2>1. /\ req'[s].acc = r.acc /\ req'[s].lock = r.lock /\ req'[s].refused = r.refused
        /\ req'[s].todo = <<y>> \o Tail(r.todo)
    BY <1>11 DEF Put, KeepsAll
  <2>2. ~ Late(x, r.row.controller)
    BY <1>5, <1>11
  <2> QED BY <1>0, <1>4, <1>7, <1>11, <2>1, <2>2, AfterTop DEF x
<1>12. PICK now \in Seen(s) : now.bkt = bkt /\ now.obj = obj
  BY SeesNow
<1>13. \A k : Stored(now, s, k) = StoredLock(obj[k], Names(r))
  BY <1>12 DEF Stored
<1>14. CASE CheckRetentionStep(s)
  <2> DEFINE k == x.key
             lock == StoredLock(obj[k], x.named)
             hold == HoldOf(x)
             by == Bypass(k, x.bypass, x.named, TRUE, TRUE)
  <2>1. /\ x.do = "CheckRetention"
        /\ \/ Batch(r) /\ k \in r.refused /\ Passed(s)
           \/ (lock = Absent \/ (lock.mode # "none" /\ lock.until = 0)) /\ Passed(s)
           \/ Refuses(s, k)
           \/ lock.mode = "none" /\ Put(s, <<hold>>)
           \/ lock.mode # "COMPLIANCE" /\ x.bypass # "none" /\ Put(s, <<by>>)
    BY <1>0, <1>6, <1>14, RetentionDoes DEF At, x
  <2>2. Pending(s, x)
    BY <1>5, <2>1
  <2>3. k \in AllKeys /\ x.bypass = Mode(r) /\ x.named = Names(r)
    BY <2>2, PendingIs
  <2>4. lock = StoredLock(obj[k], Names(r)) /\ lock = Stored(now, s, k)
    BY <1>13, <2>3
  <2>5. /\ hold = CheckOf("CheckHold", k, Mode(r), Names(r)) /\ hold.key = k
        /\ by = Bypass(k, Mode(r), Names(r), TRUE, TRUE) /\ by.key = k
    BY <2>3 DEF HoldOf, CheckOf, Bypass
  <2> HIDE DEF k, lock, hold, by
  <2>6. CASE Batch(r) /\ k \in r.refused /\ Passed(s)
    <3>1. k \notin Targets(r)
      BY <2>6 DEF Targets
    <3> QED BY <2>2, <2>6, <3>1, <1>9 DEF k
  <2>7. CASE (lock = Absent \/ (lock.mode # "none" /\ lock.until = 0)) /\ Passed(s)
    <3>1. Free(s, k)
      BY <2>4, <2>7, FreeNow
    <3> QED BY <2>2, <2>7, <3>1, <1>9 DEF k
  <2>8. CASE lock.mode = "none" /\ Put(s, <<hold>>)
    <3>1. RetentionPassed(s, k)
      BY <2>4, <2>8 DEF RetentionPassed
    <3>2. Pending(s, hold)
      BY <2>3, <2>5, <3>1 DEF Pending
    <3> QED BY <2>2, <2>5, <2>8, <3>2, <1>11 DEF k
  <2>9. CASE lock.mode # "COMPLIANCE" /\ x.bypass # "none" /\ Put(s, <<by>>)
    <3>1. Pending(s, by)
      BY <2>3, <2>4, <2>5, <2>9 DEF Pending
    <3> QED BY <2>2, <2>5, <2>9, <3>1, <1>11 DEF k
  <2> QED BY <2>1, <2>6, <2>7, <2>8, <2>9, <1>10 DEF k
<1>15. CASE CheckHoldStep(s)
  <2> DEFINE k == x.key
             lock == StoredLock(obj[k], x.named)
             by == Bypass(k, x.bypass, x.named, TRUE, FALSE)
  <2>1. /\ x.do = "CheckHold"
        /\ \/ (lock = Absent \/ (~ lock.hold /\ r.lock.default = "none")) /\ Passed(s)
           \/ Refuses(s, k)
           \/ ~ lock.hold /\ r.lock.default # "COMPLIANCE" /\ x.bypass # "none" /\ Put(s, <<by>>)
    BY <1>0, <1>6, <1>15, HoldDoes DEF At, x
  <2>2. Pending(s, x)
    BY <1>5, <2>1
  <2>3. k \in AllKeys /\ x.bypass = Mode(r) /\ x.named = Names(r) /\ RetentionPassed(s, k)
    BY <2>1, <2>2, PendingIs
  <2>4. lock = StoredLock(obj[k], Names(r)) /\ lock = Stored(now, s, k)
    BY <1>13, <2>3
  <2>5. by = Bypass(k, Mode(r), Names(r), TRUE, FALSE) /\ by.key = k
    BY <2>3 DEF Bypass
  <2>6. PICK c \in Seen(s) : r.lock.default = c.bkt.lock.default
    BY DEF AfterLock
  <2> HIDE DEF k, lock, by
  <2>7. CASE (lock = Absent \/ (~ lock.hold /\ r.lock.default = "none")) /\ Passed(s)
    <3>1. CASE lock = Absent
      BY <2>2, <2>4, <2>7, <3>1, FreeNow, <1>9 DEF k
    <3>2. CASE ~ lock.hold /\ r.lock.default = "none"
      <4>1. Free(s, k)
        BY <2>3, <2>4, <2>6, <3>2, FreeHold
      <4> QED BY <2>2, <2>7, <4>1, <1>9 DEF k
    <3> QED BY <2>7, <3>1, <3>2
  <2>8. CASE ~ lock.hold /\ r.lock.default # "COMPLIANCE" /\ x.bypass # "none" /\ Put(s, <<by>>)
    <3>1. Pending(s, by)
      BY <2>3, <2>4, <2>5, <2>8 DEF Pending
    <3> QED BY <2>2, <2>5, <2>8, <3>1, <1>11 DEF k
  <2> QED BY <2>1, <2>7, <2>8, <1>10 DEF k
<1>16. CASE BypassStep(s)
  <2> DEFINE k == x.key
             hold == HoldOf(x)
  <2>1. /\ x.do = "Bypass"
        /\ \/ Refuses(s, k)
           \/ /\ verifyBypassGovernancePermission(bkt.policy, cfg.iam, Account(r, x.pub), k, x.bypass)
              /\ Put(s, IF x.hold THEN <<hold>> ELSE <<>>)
    BY <1>0, <1>6, <1>16, BypassDoes DEF At, x
  <2>2. Pending(s, x)
    BY <1>5, <2>1
  <2>3. /\ k \in AllKeys /\ x.bypass = Mode(r) /\ x.named = Names(r) /\ x.pub = TRUE /\ Mode(r) # "none"
        /\ \/ x.hold = TRUE /\ \E h \in Seen(s) : Stored(h, s, k).mode # "COMPLIANCE"
           \/ /\ x.hold = FALSE /\ RetentionPassed(s, k) /\ r.lock.default # "COMPLIANCE"
              /\ \E g \in Seen(s) : ~ Stored(g, s, k).hold
    <3>1. PICK y \in AllKeys :
            /\ x.key = y /\ x.bypass = Mode(r) /\ x.named = Names(r)
            /\ \/ x.do = "CheckRetention"
               \/ x.do = "CheckHold"
               \/ /\ x.hold = TRUE /\ x.pub = TRUE
                  /\ Mode(r) # "none" /\ \E h \in Seen(s) : Stored(h, s, y).mode # "COMPLIANCE"
               \/ /\ x.hold = FALSE /\ x.pub = TRUE
                  /\ Mode(r) # "none" /\ RetentionPassed(s, y)
                  /\ r.lock.default # "COMPLIANCE" /\ \E g \in Seen(s) : ~ Stored(g, s, y).hold
      BY <2>2, PendingIs
    <3> QED BY <2>1, <3>1
  <2>4. hold = CheckOf("CheckHold", k, Mode(r), Names(r)) /\ hold.key = k
    BY <2>3 DEF HoldOf, CheckOf
  <2>5. PICK c \in Seen(s) : r.lock.default = c.bkt.lock.default
    BY DEF AfterLock
  <2> HIDE DEF k, hold
  <2>6. ASSUME verifyBypassGovernancePermission(bkt.policy, cfg.iam, Account(r, x.pub), k, x.bypass)
        PROVE  MayBypass(s, k)
    BY <1>12, <2>3, <2>6 DEF MayBypass
  <2>7. CASE /\ verifyBypassGovernancePermission(bkt.policy, cfg.iam, Account(r, x.pub), k, x.bypass)
             /\ x.hold = TRUE /\ Put(s, <<hold>>)
             /\ \E h \in Seen(s) : Stored(h, s, k).mode # "COMPLIANCE"
    <3>1. RetentionPassed(s, k)
      BY <2>6, <2>7 DEF RetentionPassed
    <3>2. Pending(s, hold)
      BY <2>3, <2>4, <3>1 DEF Pending
    <3> QED BY <2>2, <2>4, <2>7, <3>2, <1>11 DEF k
  <2>8. CASE /\ verifyBypassGovernancePermission(bkt.policy, cfg.iam, Account(r, x.pub), k, x.bypass)
             /\ x.hold = FALSE /\ Put(s, <<>>)
             /\ RetentionPassed(s, k) /\ r.lock.default # "COMPLIANCE"
             /\ \E g \in Seen(s) : ~ Stored(g, s, k).hold
    <3>1. Free(s, k)
      BY <2>5, <2>6, <2>8, FreeHold
    <3>2. Passed(s)
      BY <1>0, <1>4, <2>8, TailStep, NothingOnTop DEF Put, Passed
    <3> QED BY <2>2, <3>1, <3>2, <1>9 DEF k
  <2>9. \/ Refuses(s, k)
        \/ /\ verifyBypassGovernancePermission(bkt.policy, cfg.iam, Account(r, x.pub), k, x.bypass)
           /\ \/ x.hold = TRUE /\ Put(s, <<hold>>)
              \/ x.hold = FALSE /\ Put(s, <<>>)
    BY <2>1, <2>3
  <2> QED BY <2>3, <2>7, <2>8, <2>9, <1>10 DEF k
<1>17. ~ At(s, "Copy") /\ ~ At(s, "LoadLock") /\ ~ At(s, "Retain")
  BY <1>5 DEF At, x
<1> QED BY <1>1, <1>8, <1>14, <1>15, <1>16, <1>17 DEF Stepped, LoadLockState, RetentionPutAllowed

\* A step of a harmless program leaves a harmless one.
LEMMA HarmlessRest ==
  ASSUME NEW q, IsSeq(q), q # <<>>, Harmless(q)
  PROVE  /\ Harmless(Tail(q))
         /\ \A x : x.do \in {"Source"} \/ (x.do = "Bypass" /\ x.hold = FALSE) => Harmless(<<x>> \o Tail(q))
<1>1. /\ IsSeq(Tail(q)) /\ Len(q) \in Nat \ {0} /\ Len(Tail(q)) = Len(q) - 1
      /\ \A i \in 1 .. Len(q) - 1 : Tail(q)[i] = q[i + 1]
  BY TailStep
<1>2. DOMAIN q = 1 .. Len(q) /\ DOMAIN Tail(q) = 1 .. Len(Tail(q))
  BY <1>1, SeqLen
<1>3. Harmless(Tail(q))
  <2> SUFFICES ASSUME NEW i \in DOMAIN Tail(q)
               PROVE  \E j \in DOMAIN q : Tail(q)[i] = q[j]
    BY DEF Harmless
  <2>1. i + 1 \in DOMAIN q /\ Tail(q)[i] = q[i + 1]
    BY <1>1, <1>2
  <2> QED BY <2>1
<1>4. ASSUME NEW x, x.do \in {"Source"} \/ (x.do = "Bypass" /\ x.hold = FALSE)
      PROVE  Harmless(<<x>> \o Tail(q))
  <2> DEFINE w == <<x>> \o Tail(q)
  <2>1. IsSeq(w) /\ Len(w) = Len(q) /\ w[1] = x /\ \A i \in 2 .. Len(q) : w[i] = q[i]
    BY OnTop
  <2>2. DOMAIN w = 1 .. Len(w)
    BY <2>1, SeqLen
  <2> HIDE DEF w
  <2>3. ASSUME NEW i \in DOMAIN w PROVE w[i] = x \/ (i \in DOMAIN q /\ w[i] = q[i])
    BY <1>1, <1>2, <2>1, <2>2
  <2>4. /\ x.do = "Call" => x.name \notin Removers
        /\ x.do \notin {"LoadLock", "CheckRetention", "CheckHold"}
        /\ x.do = "Bypass" => ~ x.hold
    BY <1>4
  <2> QED BY <2>3, <2>4 DEF Harmless, w
<1> QED BY <1>3, <1>4

\* So does every step of such a request.
LEMMA HarmlessStep ==
  ASSUME Recorded, NEW s \in Slots, req[s].status = "run", req'[s].status = "run",
         Harmless(req[s].todo), Stepped(s)
  PROVE  Harmless(req'[s].todo)
<1> DEFINE q == req[s].todo
           x == Head(q)
<1>0. Fits(s) /\ IsSeq(q)
  BY RecordedFits DEF Recorded
<1>1. ~ Begin(s) /\ ~ Over(s)
  BY DEF Begin, Over
<1>2. q # <<>>
  BY <1>1 DEF Stepped, Went, Running, Acts, At, LoadLockState, CheckRetentionStep, CheckHoldStep,
    BypassStep, RetentionPutAllowed
<1>3. /\ x.do \notin {"LoadLock", "CheckRetention", "CheckHold"}
      /\ x.do = "Bypass" => ~ x.hold
  <2>1. x = q[1] /\ 1 \in DOMAIN q
    BY <1>0, <1>2, TailStep, SeqLen
  <2> QED BY <2>1 DEF Harmless
<1>4. CASE req'[s].todo = Tail(q)
  BY <1>0, <1>2, <1>4, HarmlessRest
<1>5. ASSUME NEW y, y.do \in {"Source"} \/ (y.do = "Bypass" /\ y.hold = FALSE), Put(s, <<y>>)
      PROVE  Harmless(req'[s].todo)
  BY <1>0, <1>2, <1>5, HarmlessRest DEF Put
<1>6. CASE Went(s) \/ Acts(s) \/ Passed(s) \/ \E k : Refuses(s, k)
  BY <1>1, <1>4, <1>6 DEF Went, Acts, Passed, Refuses
<1>7. CASE At(s, "Copy") /\ Put(s, <<Do("Source")>>)
  BY <1>5, <1>7 DEF Do
<1>8. CASE RetentionPutAllowed(s)
  <2>1. ASSUME NEW k, NEW v PROVE LET y == Bypass(k, "requested", v, FALSE, FALSE)
                                  IN  y.do = "Bypass" /\ y.hold = FALSE
    BY DEF Bypass
  <2>2. Passed(s) \/ Put(s, <<Bypass(req[s].in.key, "requested", req[s].in.version, FALSE, FALSE)>>)
    BY <1>0, <1>1, <1>8, RetainDoes
  <2> QED BY <1>5, <1>6, <2>1, <2>2
<1>9. CASE BypassStep(s)
  <2>1. x.do = "Bypass" /\ x = Step(s)
    BY <1>9 DEF BypassStep, At, Step
  <2>2. ~ Step(s).hold
    BY <1>3, <2>1
  <2>3. Refuses(s, Step(s).key) \/ Put(s, <<>>)
    BY <1>0, <1>9, <2>2, BypassDoes
  <2>4. CASE Put(s, <<>>)
    <3>1. req'[s].todo = Tail(q)
      BY <1>0, <1>2, <2>4, TailStep, NothingOnTop DEF Put
    <3> QED BY <3>1, <1>4
  <2> QED BY <2>3, <2>4, <1>6
<1>10. ~ At(s, "LoadLock") /\ ~ At(s, "CheckRetention") /\ ~ At(s, "CheckHold")
  BY <1>3 DEF At
<1> QED BY <1>1, <1>6, <1>7, <1>8, <1>9, <1>10 DEF Stepped, LoadLockState, CheckRetentionStep, CheckHoldStep

\* What another request has found out.
LEMMA AfterOthers ==
  ASSUME NEW t \in Slots, Knows(t), req'[t] = req[t], AfterLock(t) PROVE AfterLock(t)'
<1> DEFINE q == req[t].todo
           c == req[t].row.controller
<1>1. PICK n \in 0 .. Len(q) :
        /\ \A i \in 1 .. n : Pending(t, q[i])
        /\ \A i \in n + 1 .. Len(q) : Late(q[i], c)
        /\ \A k \in Targets(req[t]) : Free(t, k) \/ \E i \in 1 .. n : q[i].key = k
  BY DEF AfterLock
<1>2. \E d \in Seen(t)' : req'[t].lock.default = d.bkt.lock.default
  BY DEF AfterLock, Knows
<1>3. ASSUME NEW k, Free(t, k) PROVE Free(t, k)'
  BY <1>3, FreeKnown
<1>4. ASSUME NEW y, Pending(t, y) PROVE Pending(t, y)'
  BY <1>4, PendingKnown
<1>5. ASSUME NEW i \in 1 .. n PROVE Pending(t, req[t].todo[i])'
  <2>1. PICK y : y = req[t].todo[i]
    OBVIOUS
  <2>2. Pending(t, y)'
    BY <1>1, <1>4, <2>1
  <2>3. req'[t].todo[i] = y
    BY <2>1
  <2> QED BY <2>2, <2>3
<1>6. n \in 0 .. Len(req'[t].todo) /\ \A i \in n + 1 .. Len(req'[t].todo) : Late(req'[t].todo[i], req'[t].row.controller)
  BY <1>1
<1>7. ASSUME NEW k \in Targets(req'[t]) PROVE Free(t, k)' \/ \E i \in 1 .. n : req'[t].todo[i].key = k
  <2>1. Free(t, k) \/ \E i \in 1 .. n : req'[t].todo[i].key = k
    BY <1>1
  <2> QED BY <2>1, <1>3
<1> QED BY <1>2, <1>5, <1>6, <1>7 DEF AfterLock

\* LockInv is kept by every step.
LEMMA StepLock ==
  ASSUME Recorded, LockInv, NEW s \in Slots, Stepped(s) PROVE LockInv'
<1>1. ASSUME NEW t \in Slots, req'[t].status = "run"
      PROVE  /\ req'[t].row.controller \in Removers => BeforeLock(req'[t]) \/ AfterLock(t)'
             /\ req'[t].row.controller \notin Removers \cup {"POSTObject"} => Harmless(req'[t].todo)
  <2>1. /\ Grows /\ cfg' = cfg /\ \A u \in Slots \ {s} : req'[u] = req[u]
    BY StepGrows
  <2>2. CASE t # s
    <3>1. req'[t] = req[t]
      BY <2>1, <2>2
    <3>2. Seen(t) \subseteq Seen(t)'
      BY <1>1, <2>1, <3>1, SeenGrows
    <3>3. Knows(t)
      BY <2>1, <3>1, <3>2 DEF Knows
    <3>4. AfterLock(t) => AfterLock(t)'
      BY <3>1, <3>3, AfterOthers
    <3>5. /\ req[t].row.controller \in Removers => BeforeLock(req[t]) \/ AfterLock(t)
          /\ req[t].row.controller \notin Removers \cup {"POSTObject"} => Harmless(req[t].todo)
      BY <1>1, <3>1 DEF LockInv
    <3> QED BY <3>1, <3>4, <3>5
  <2>3. CASE t = s /\ Begin(s)
    <3>1. req'[s].todo = ProcessHandlers(req'[s].row, req'[s].in)
      BY <2>3, BeginDoes
    <3>2. PICK u : u = req'[s]
      OBVIOUS
    <3>3. u.row.controller \in Removers => BeforeLock(u)
      BY <3>1, <3>2, LockProgram
    <3>4. u.row.controller \notin Removers \cup {"POSTObject"} => Harmless(u.todo)
      BY <3>1, <3>2, HandlersHarmless
    <3> QED BY <2>3, <3>2, <3>3, <3>4
  <2>4. CASE t = s /\ ~ Begin(s)
    <3>1. Keeps(s) /\ req[s].status = "run"
      BY <2>4, StepSame, RecordedFits
    <3>2. req'[s].row = req[s].row
      BY <3>1 DEF Keeps
    <3>3. /\ req[s].row.controller \in Removers => BeforeLock(req[s]) \/ AfterLock(s)
          /\ req[s].row.controller \notin Removers \cup {"POSTObject"} => Harmless(req[s].todo)
      BY <3>1 DEF LockInv
    <3> QED BY <1>1, <2>4, <3>1, <3>2, <3>3, BeforeStep, AfterStep, HarmlessStep
  <2> QED BY <2>2, <2>3, <2>4
<1> QED BY <1>1 DEF LockInv

\* When the call comes nothing is left to check.
LEMMA AfterCall ==
  ASSUME NEW s \in Slots, IsSeq(req[s].todo), req[s].todo # <<>>, AfterLock(s), Head(req[s].todo).do = "Call"
  PROVE  /\ Head(req[s].todo) = Call(req[s].row.controller)
         /\ \A k \in Targets(req[s]) : Free(s, k)
<1>1. ~ Pending(s, Head(req[s].todo)) /\ Late(Head(req[s].todo), req[s].row.controller)
  BY AfterHead
<1>2. Head(req[s].todo) = req[s].todo[1] /\ Len(req[s].todo) \in Nat
  BY TailStep, SeqLen
<1>3. PICK n \in 0 .. Len(req[s].todo) :
        /\ \A i \in 1 .. n : Pending(s, req[s].todo[i])
        /\ \A k \in Targets(req[s]) : Free(s, k) \/ \E i \in 1 .. n : req[s].todo[i].key = k
  BY DEF AfterLock
<1>4. n = 0
  <2>1. CASE n >= 1
    BY <1>1, <1>2, <1>3, <2>1
  <2> QED BY <1>2, <2>1
<1> QED BY <1>1, <1>3, <1>4 DEF Late

\* Which versions a backend call removes.
LEMMA Removes ==
  ASSUME Recorded, NEW s \in Slots, Acts(s), NEW k \in AllKeys, NEW v \in Versions,
         obj[k].locks[v] # Absent, obj'[k].locks[v] = Absent
  PROVE  LET name == Step(s).name
             r == req[s]
         IN  /\ name \in Removers
             /\ name = "DeleteObjects" => k \notin r.refused
             /\ name # "DeleteObjects" => k = r.in.key
             /\ name \in {"DeleteObject", "DeleteObjects"} /\ r.in.version => v = "old"
<1> DEFINE r == req[s]
           name == Step(s).name
           w == LockTarget(r)
           y == r.in.key
<1>1. /\ obj' = ObjectsAfter(name, s, r) /\ obj \in [AllKeys -> Objects]
      /\ y \in AllKeys /\ r.in.arg.lock \in Locks
  <2>1. r.in \in Inputs[cfg.mix][s] /\ cfg.mix \in DOMAIN Inputs
    BY DEF Acts, Running, Recorded
  <2> QED BY <2>1, InputsAssumption DEF Acts, Recorded
<1>2. ASSUME NEW o \in Objects, NEW versioning, r.in.version
      PROVE  Deleted(o, r.in.version, versioning).locks[v] = Absent => v = "old" \/ o.locks[v] = Absent
  BY <1>2 DEF Deleted, Without, Objects, Versions
<1>3. \A x \in AllKeys : obj[x] \in Objects
  BY <1>1
<1>4. Absent \notin Locks /\ \A lock \in Locks : lock.mode # Absent.mode
  BY DEF Absent, Locks
<1> HIDE DEF r, name, w, y
<1>5. CASE name \in {"PutObject", "CopyObject", "CompleteMultipartUpload"}
  <2>1. obj' = [obj EXCEPT ![y] = Written(@, s, HeaderLock(r.in), bkt.versioning)]
    BY <1>1, <1>5 DEF ObjectsAfter, y
  <2>2. k = y
    BY <1>1, <2>1
  <2> QED BY <1>5, <2>2 DEF Removers, name, r, y
<1>6. CASE name = "DeleteObject"
  <2>1. obj' = [obj EXCEPT ![y] = Deleted(@, r.in.version, bkt.versioning)]
    BY <1>1, <1>6 DEF ObjectsAfter, y
  <2>2. k = y /\ obj'[k] = Deleted(obj[k], r.in.version, bkt.versioning)
    BY <1>1, <2>1
  <2>3. r.in.version => v = "old"
    BY <1>2, <1>3, <2>2
  <2> QED BY <1>6, <2>2, <2>3 DEF Removers, name, r, y
<1>7. CASE name = "DeleteObjects"
  <2>1. obj' = [x \in AllKeys |-> IF x \in r.refused THEN obj[x]
                                  ELSE Deleted(obj[x], r.in.version, bkt.versioning)]
    BY <1>1, <1>7 DEF ObjectsAfter, y
  <2>2. k \notin r.refused /\ obj'[k] = Deleted(obj[k], r.in.version, bkt.versioning)
    BY <2>1
  <2>3. r.in.version => v = "old"
    BY <1>2, <1>3, <2>2
  <2> QED BY <1>7, <2>2, <2>3 DEF Removers, name, r, y
<1>8. ASSUME NEW lock \in Locks, w \in Versions, obj' = [obj EXCEPT ![y].locks[w] = lock] PROVE FALSE
  <2>1. obj'[k].locks[v] = obj[k].locks[v] \/ obj'[k].locks[v] = lock
    BY <1>1, <1>8 DEF Objects
  <2> QED BY <1>4, <1>8, <2>1
<1>9. ASSUME Lockable(r)
      PROVE  /\ w \in Versions /\ obj[y].locks[w] \in Locks
             /\ [r.in.arg.lock EXCEPT !.hold = obj[y].locks[w].hold] \in Locks
             /\ [obj[y].locks[w] EXCEPT !.hold = r.in.arg.lock.hold] \in Locks
  <2>1. w \in Versions /\ obj[y].locks[w] # Absent
    BY <1>9 DEF Lockable, w, y
  <2>2. obj[y].locks[w] \in Locks
    BY <1>1, <2>1 DEF Objects
  <2> QED BY <1>1, <2>1, <2>2 DEF Locks
<1>10. CASE name = "PutObjectRetention" /\ Lockable(r)
  <2>1. obj' = [obj EXCEPT ![y].locks[w] = [r.in.arg.lock EXCEPT !.hold = obj[y].locks[w].hold]]
    BY <1>1, <1>10 DEF ObjectsAfter, y, w
  <2> QED BY <1>8, <1>9, <1>10, <2>1
<1>11. CASE name = "PutObjectLegalHold" /\ Lockable(r)
  <2>1. obj' = [obj EXCEPT ![y].locks[w].hold = r.in.arg.lock.hold]
    BY <1>1, <1>11 DEF ObjectsAfter, y, w
  <2>2. obj' = [obj EXCEPT ![y].locks[w] = [obj[y].locks[w] EXCEPT !.hold = r.in.arg.lock.hold]]
    BY <1>1, <1>9, <1>11, <2>1 DEF Objects
  <2> QED BY <1>8, <1>9, <1>11, <2>2
<1>12. CASE /\ name \notin {"PutObject", "CopyObject", "CompleteMultipartUpload", "DeleteObject",
                            "DeleteObjects"}
            /\ ~ (name \in {"PutObjectRetention", "PutObjectLegalHold"} /\ Lockable(r))
  <2>1. obj' = obj
    BY <1>1, <1>12 DEF ObjectsAfter
  <2> QED BY <2>1
<1> QED BY <1>5, <1>6, <1>7, <1>10, <1>11, <1>12

\* When a call removes a version, the request has found it free.
LEMMA LockCall ==
  ASSUME Recorded, LockInv, NEW s \in Slots, Acts(s), req[s].row.controller # "POSTObject",
         NEW k \in AllKeys, NEW v \in Versions, obj[k].locks[v] # Absent, obj'[k].locks[v] = Absent
  PROVE  \E c, h, g \in Seen(s) : LetsGo(c, h, g, s, k, v)
<1> DEFINE r == req[s]
           name == Step(s).name
<1>1. /\ name \in Removers
      /\ name = "DeleteObjects" => k \notin r.refused
      /\ name # "DeleteObjects" => k = r.in.key
      /\ name \in {"DeleteObject", "DeleteObjects"} /\ r.in.version => v = "old"
  BY Removes
<1>2. /\ r.status = "run" /\ r.todo # <<>> /\ Head(r.todo).do = "Call" /\ Head(r.todo) = Step(s)
      /\ IsSeq(r.todo)
  BY DEF Acts, At, Step, Recorded
<1>3. r.row.controller \in Removers
  <2>1. Head(r.todo) = r.todo[1] /\ 1 \in DOMAIN r.todo
    BY <1>2, TailStep, SeqLen
  <2>2. ~ Harmless(r.todo)
    BY <1>1, <1>2, <2>1 DEF Harmless
  <2> QED BY <1>2, <2>2 DEF LockInv
<1>4. AfterLock(s)
  <2>1. CheckObjectAccess(Mode(r), Overwrites(r)).do = "LoadLock"
    BY DEF CheckObjectAccess
  <2>2. ~ BeforeLock(r)
    <3>1. ASSUME BeforeLock(r) PROVE FALSE
      <4>1. Head(r.todo).do \in EarlyDo \/ Head(r.todo) = CheckObjectAccess(Mode(r), Overwrites(r))
        BY <1>2, <3>1, BeforeHead
      <4> QED BY <1>2, <2>1, <4>1 DEF EarlyDo
    <3> QED BY <3>1
  <2> QED BY <1>2, <1>3, <2>2 DEF LockInv
<1>5. Step(s) = Call(r.row.controller) /\ \A x \in Targets(r) : Free(s, x)
  BY <1>2, <1>4, AfterCall
<1>6. name = r.row.controller
  BY <1>5 DEF Call
<1>7. k \in Targets(r) /\ (Names(r) => v = "old")
  BY <1>1, <1>3, <1>6 DEF Targets, Batch, Names, Overwrites, Removers
<1> QED BY <1>5, <1>7 DEF Free

\* Whatever route and controller serve a request, and whatever other requests change in
\* between: a version goes only if nothing that protects it did so all through the request.
THEOREM LocksHold == Spec => LockKept
<1> DEFINE Keep(s, k, v) ==
             Serves(s) /\ obj[k].locks[v] # Absent /\ obj'[k].locks[v] = Absent =>
               \/ req[s].row.controller = "POSTObject"
               \/ \E c, h, g \in Seen(s) : LetsGo(c, h, g, s, k, v)
<1>1. Init => LockInv
  BY InitIdle DEF LockInv
<1>2. ASSUME Recorded, LockInv, [Next]_vars PROVE LockInv'
  <2>1. CASE UNCHANGED vars
    <3>1. \A t \in Slots : Knows(t) /\ req'[t] = req[t]
      BY <2>1 DEF Knows, vars, Seen
    <3>2. \A t \in Slots : AfterLock(t) => AfterLock(t)'
      BY <3>1, AfterOthers
    <3> QED BY <1>2, <3>1, <3>2 DEF LockInv
  <2>2. CASE Next
    BY <1>2, <2>2, RecordedFits, StepIs, StepLock DEF Next
  <2> QED BY <1>2, <2>1, <2>2
<1>3. ASSUME Recorded, LockInv, Next, NEW s \in Slots, NEW k \in AllKeys, NEW v \in Versions
      PROVE  Keep(s, k, v)
  <2>1. ASSUME Serves(s), obj[k].locks[v] # Absent, obj'[k].locks[v] = Absent,
               req[s].row.controller # "POSTObject"
        PROVE  \E c, h, g \in Seen(s) : LetsGo(c, h, g, s, k, v)
    <3>1. Acts(s)
      BY <1>3, <2>1, ServesActs
    <3> QED BY <1>3, <2>1, <3>1, LockCall
  <2> QED BY <2>1
<1>4. ASSUME Recorded, LockInv, [Next]_vars
      PROVE  [\A s \in Slots, k \in AllKeys, v \in Versions : Keep(s, k, v)]_vars
  BY <1>3, <1>4
<1>5. Spec => [][\A s \in Slots, k \in AllKeys, v \in Versions : Keep(s, k, v)]_vars
  <2> HIDE DEF Keep
  <2> QED BY <1>1, <1>2, <1>4, AlwaysRecorded, PTL DEF Spec
<1> QED BY <1>5 DEF LockKept

=============================================================================
