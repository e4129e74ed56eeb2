----------------------------- MODULE AzureBlobs -----------------------------
(***************************************************************************)
(* The operations of AzureOps on one container of the blob service: a step *)
(* is one call of one request, which may fail, take effect without being   *)
(* answered, or find what other requests have done since its last call.    *)
(* The service itself is external: it is modelled from how src/backend/    *)
(* azure uses it.  What request s writes is called s.                      *)
(***************************************************************************)
EXTENDS AzureOps, FiniteSets, FiniteSetsExt

CONSTANTS
  Slots,          \* requests
  Keys, Uploads,  \* keys of objects, IDs of uploads
  Inputs,         \* Inputs[m][s]: what request s may ask for, in a mix m of clients
  Worlds          \* Worlds[m]: states of the container to begin with

VARIABLES
  mix,            \* the mix of clients
  container,      \* is it there, and its metadata
  blob,           \* blob[b]: the blob of that name
  lease,          \* the request that has the lease of the container, None for none
  req,            \* req[s]: request s
  done            \* completions of uploads that took effect (history variable)

vars == <<mix, container, blob, lease, req, done>>

Names == {Obj(k) : k \in Keys} \cup {createMetaTmpPath(u) : u \in Uploads}
         \cup {azureMultipartPartPath(u, PartNumbers[i]) : u \in Uploads, i \in DOMAIN PartNumbers}
Settings == {"acl", "ownership", "tags", "policy", "cors", "website", "lock", "encryption", "lifecycle"}
NoSettings == [a \in Settings |-> None]
\* enc: the object is said to be encrypted; mp: the upload it came from; state:
\* the upload is an encrypted one; zero: its parts without bytes.
NoMeta ==
  [user |-> None, redirect |-> None, hold |-> None, retention |-> None, enc |-> FALSE,
   mp |-> None, state |-> FALSE, zero |-> {}]
\* Bytes: by whom, for which part of which upload, and how many; a part of Full
\* bytes may be followed by another.
Full == 2
Sized(s, u, n, size) == [by |-> s, u |-> u, n |-> n, size |-> size]
Chunk(s, u, n) == Sized(s, u, n, Full)
\* sealed: the identity that the bytes are encrypted for; staged: uncommitted
\* blocks.  Deleting a blob keeps the count that its ETags are made of.
NoBlob ==
  [there |-> FALSE, data |-> <<>>, sealed |-> <<>>, etag |-> 0, meta |-> NoMeta, tags |-> None,
   staged |-> {}, copy |-> None]
NoNote == [object |-> 0, upload |-> None, tags |-> None, hold |-> None, retention |-> None]
Idle ==
  [status |-> "idle", fault |-> FALSE, in |-> [op |-> None], todo |-> <<>>,
   cmeta |-> NoSettings, obj |-> NoBlob, tmp |-> NoBlob, tags |-> None,
   open |-> NoBlob, body |-> [data |-> <<>>, sealed |-> <<>>],
   list |-> [i \in DOMAIN PartNumbers |-> <<>>], blocks |-> {}, zero |-> {},
   first |-> NoNote, again |-> NoNote, lost |-> FALSE, seen |-> <<>>, met |-> {}]

\* One type invariant: a lease belongs to a worker that runs, a blob that is
\* not there has no contents, and blocks are staged on objects only.
TypeOK ==
  /\ \A s \in Slots : req[s].status \in {"idle", "run", "ok", "error"}
  /\ lease \in {None} \cup {s \in Slots : req[s].status = "run"}
  /\ \A b \in Names : /\ ~blob[b].there => blob[b].data = <<>> /\ blob[b].meta = NoMeta
                      /\ blob[b].staged # {} => b[1] = "object"

Init ==
  \E m \in DOMAIN Inputs : \E w \in Worlds[m] :
    /\ mix = m
    /\ container = w.container /\ blob = w.blob
    /\ lease = None /\ done = {}
    /\ req = [s \in Slots |-> Idle]

-----------------------------------------------------------------------------
(* How a request goes on *)

At(s, what) ==
  /\ req[s].status = "run"
  /\ req[s].todo # <<>>
  /\ Head(req[s].todo).do = what
Step(s) == Head(req[s].todo)
In(s) == req[s].in

Next_(s, r) == [r EXCEPT !.todo = Tail(@)]
Ended(s, how, fault) == [req[s] EXCEPT !.status = how, !.fault = fault, !.todo = <<>>]
\* DeleteObjects goes to its next key, whatever came of this one.
Rest(s) == {i \in DOMAIN req[s].todo : req[s].todo[i].do = "NextKey"}
Failed(s, fault) ==
  IF Rest(s) = {} THEN Ended(s, "error", fault)
  ELSE [req[s] EXCEPT !.todo = SubSeq(@, Max(Rest(s)), Len(@))]
\* The worker of the lifecycle releases its lease however it ends.
Given(r, s) == IF lease = s /\ r.status # "run" THEN None ELSE lease
Fail(s, fault) ==
  /\ req' = [req EXCEPT ![s] = Failed(s, fault)]
  /\ lease' = Given(req'[s], s)
  /\ UNCHANGED <<mix, container, blob, done>>
Advance(s, change) ==
  /\ req' = [req EXCEPT ![s] = Next_(s, change)]
  /\ UNCHANGED <<mix, container, blob, lease, done>>
\* A call that writes may take effect and be answered by an error.
Answered(s) ==
  /\ \E lost \in BOOLEAN :
       req' = [req EXCEPT ![s] = IF lost THEN Failed(s, TRUE) ELSE Next_(s, req[s])]
  /\ lease' = Given(req'[s], s)
Write(s, b, new) ==
  /\ blob' = [blob EXCEPT ![b] = [new EXCEPT !.etag = blob[b].etag + 1]]
  /\ Answered(s)
  /\ UNCHANGED <<mix, container, done>>

\* `seen` is what was there, and `met` the requests that ran at the same time;
\* the properties speak of them.
Start(s) ==
  /\ req[s].status = "idle"
  /\ \E in \in Inputs[mix][s] :
       req' = [t \in Slots |->
         IF t = s
         THEN [Idle EXCEPT !.status = "run", !.in = in, !.todo = ProgramOf(in),
                           !.seen = [container |-> container, blob |-> blob],
                           !.met = {u \in Slots : req[u].status = "run"}]
         ELSE IF req[t].status = "run" THEN [req[t] EXCEPT !.met = @ \cup {s}] ELSE req[t]]
  /\ UNCHANGED <<mix, container, blob, lease, done>>
Finish(s) ==
  /\ req[s].status = "run" /\ req[s].todo = <<>>
  /\ req' = [req EXCEPT ![s] = Ended(s, "ok", FALSE)]
  /\ lease' = Given(req'[s], s)
  /\ UNCHANGED <<mix, container, blob, done>>
\* A call that is not answered, or not made because the gateway stopped.
CallFails(s) ==
  /\ req[s].status = "run" /\ req[s].todo # <<>>
  /\ Step(s).do \notin {"Check", "Either", "NextKey", "Note", "Need", "StartCopy"}
  /\ Step(s).do = "GetTags" => Step(s).missing = "fail"
  /\ Fail(s, TRUE)
NextKey(s) == At(s, "NextKey") /\ Advance(s, req[s])

-----------------------------------------------------------------------------
(* The container *)

ReadContainer(s) ==
  /\ At(s, "ContainerProps")
  /\ IF container.there THEN Advance(s, [req[s] EXCEPT !.cmeta = container.meta]) ELSE Fail(s, FALSE)
NeedSetting(s) ==
  /\ At(s, "Need")
  /\ IF req[s].cmeta[Step(s).attr] = None THEN Fail(s, FALSE) ELSE Advance(s, req[s])
WriteContainer(s) ==
  /\ At(s, "SetContainer")
  /\ LET base == IF Step(s).base = "read" THEN req[s].cmeta ELSE NoSettings IN
     IF ~container.there THEN Fail(s, FALSE)
     ELSE /\ container' = [container EXCEPT !.meta = [base EXCEPT ![Step(s).attr] = Step(s).value]]
          /\ Answered(s)
          /\ UNCHANGED <<mix, blob, done>>
CreateContainer(s) ==
  /\ At(s, "CreateContainer")
  /\ IF container.there THEN Fail(s, FALSE)
     ELSE /\ container' =
               [there |-> TRUE,
                meta |-> [a \in Settings |->
                  IF a \in {"acl", "ownership"} \cup In(s).with THEN s ELSE None]]
          /\ Answered(s)
          /\ UNCHANGED <<mix, blob, done>>
Objects == {Obj(k) : k \in Keys}
CheckNoObjects(s) ==
  /\ At(s, "NoObjects")
  /\ IF container.there /\ \A b \in Objects : ~blob[b].there THEN Advance(s, req[s]) ELSE Fail(s, FALSE)
\* A container with a lease is deleted only by who gives the lease.
DeleteContainer(s) ==
  /\ At(s, "DeleteContainer")
  /\ IF ~container.there \/ lease # None THEN Fail(s, FALSE)
     ELSE /\ container' = [there |-> FALSE, meta |-> NoSettings]
          /\ blob' = [b \in Names |-> [NoBlob EXCEPT !.etag = blob[b].etag]]
          /\ Answered(s)
          /\ UNCHANGED <<mix, done>>
ListBlobs(s) ==
  /\ At(s, "ListBlobs")
  /\ IF container.there THEN Advance(s, req[s]) ELSE Fail(s, FALSE)

-----------------------------------------------------------------------------
(* Blobs *)

GetProperties(s) ==
  /\ At(s, "Props")
  /\ LET b == Step(s).b IN
     IF ~blob[b].there /\ Step(s).missing = "fail" THEN Fail(s, FALSE)
     ELSE Advance(s, IF b[1] = "upload" THEN [req[s] EXCEPT !.tmp = blob[b]]
                     ELSE [req[s] EXCEPT !.obj = blob[b]])

\* A request may bring no metadata of the user's.
OwnMeta(s) ==
  [NoMeta EXCEPT !.user = IF "bare" \in In(s).with THEN None ELSE s,
                 !.redirect = IF "redirect" \in In(s).with THEN s ELSE None]
NewMeta(s, kind) ==
  CASE kind = "hold" -> [req[s].obj.meta EXCEPT !.hold = s]
    [] kind = "retention" -> [req[s].obj.meta EXCEPT !.retention = s]
    [] kind = "zero" -> [req[s].tmp.meta EXCEPT !.zero = @ \cup {In(s).n}]
    [] kind = "request" -> OwnMeta(s)
    [] kind = "clear" -> NoMeta
SetMetadata(s) ==
  /\ At(s, "SetMeta")
  /\ LET b == Step(s).b IN
     IF ~blob[b].there THEN Fail(s, FALSE)
     ELSE Write(s, b, [blob[b] EXCEPT !.meta = NewMeta(s, Step(s).kind)])
SetHTTPHeaders(s) ==
  /\ At(s, "SetHeaders")
  /\ LET b == Obj(In(s).k) IN IF ~blob[b].there THEN Fail(s, FALSE) ELSE Write(s, b, blob[b])

\* Tags are not among what an ETag stands for.
ReadTags(s) ==
  /\ At(s, "GetTags")
  /\ \/ blob[Step(s).b].there /\ Advance(s, [req[s] EXCEPT !.tags = blob[Step(s).b].tags])
     \/ Step(s).missing = "go" /\ Advance(s, [req[s] EXCEPT !.tags = None])
     \/ Step(s).missing = "fail" /\ ~blob[Step(s).b].there /\ Fail(s, FALSE)
WriteTags(s) ==
  /\ At(s, "SetTags")
  /\ LET b == Step(s).b
         tags == CASE Step(s).from = "request" -> s [] Step(s).from = "read" -> req[s].tags [] OTHER -> None
     IN  IF ~blob[b].there THEN Fail(s, FALSE)
         ELSE /\ blob' = [blob EXCEPT ![b].tags = tags]
              /\ Answered(s)
              /\ UNCHANGED <<mix, container, done>>

\* openEncryptedReader: what the metadata says, and the bytes, must agree, and
\* the bytes must have been sealed for this very object.
OpenReader(s) ==
  /\ At(s, "Open")
  /\ LET b == Step(s).b IN
     IF ~blob[b].there \/ (req[s].obj.meta.enc /\ blob[b].sealed = <<>>) \/ blob[b].sealed \notin {<<>>, b}
     THEN Fail(s, FALSE)
     ELSE Advance(s, [req[s] EXCEPT !.open = blob[b]])
\* Ranges of a sealed object that was replaced do not authenticate.
DownloadStream(s) ==
  /\ At(s, "Download")
  /\ LET b == Step(s).b IN
     IF ~blob[b].there \/ (~Step(s).all /\ req[s].open.sealed # <<>> /\ req[s].open.data # blob[b].data)
     THEN Fail(s, FALSE)
     ELSE Advance(s, [req[s] EXCEPT
            !.body = [data |-> blob[b].data, sealed |-> IF Step(s).all THEN blob[b].sealed ELSE <<>>],
            !.obj = IF Step(s).all THEN blob[b] ELSE @])

\* What an upload of each kind makes of a blob.  A download writes on what it
\* has read, sealed or not; an envelope seals anew.
Sealed(s) == IF "encrypt" \in In(s).with THEN Obj(In(s).k) ELSE <<>>
NewBlob(s, kind) ==
  LET r == req[s]
      i == In(s)
      tags == IF "tags" \in i.with THEN s ELSE None
      own == [OwnMeta(s) EXCEPT !.enc = "encrypt" \in i.with]
      Make(data, seal, meta, t) ==
        [NoBlob EXCEPT !.there = TRUE, !.data = data, !.sealed = seal, !.meta = meta, !.tags = t]
  IN CASE kind = "body" -> Make(<<Chunk(s, None, 0)>>, Sealed(s), own, tags)
       [] kind = "marker" ->
            Make(<<>>, <<>>, [OwnMeta(s) EXCEPT
              !.state = "encrypt" \in i.with,
              !.hold = IF "hold" \in i.with THEN s ELSE None,
              !.retention = IF "retention" \in i.with THEN s ELSE None], tags)
       [] kind = "part" ->
            Make(<<Sized(s, i.u, i.n, IF "short" \in i.with THEN Full - 1 ELSE Full)>>, <<i.u, i.n>>,
                 [NoMeta EXCEPT !.enc = TRUE], None)
       [] kind = "complete" ->
            Make(r.body.data, Obj(i.k),
                 [r.tmp.meta EXCEPT !.state = FALSE, !.zero = {}, !.mp = i.u, !.enc = TRUE], r.tags)
       [] kind = "envelope" ->
            Make(r.body.data, Sealed(s),
                 IF "meta" \in i.with THEN own
                 ELSE [NoMeta EXCEPT !.user = r.obj.meta.user, !.enc = "encrypt" \in i.with], tags)
       [] kind = "download" ->
            Make(r.body.data, r.body.sealed,
                 IF "meta" \in i.with THEN OwnMeta(s) ELSE [r.obj.meta EXCEPT !.redirect = None], tags)
\* The parts the client lists, by number and ETag, are the ones it saw when it began.
SeenPart(s, n) == req[s].seen.blob[azureMultipartPartPath(In(s).u, n)].data
\* UploadStream commits a new blob: blocks that were staged on it are dropped.
UploadBlob(s) ==
  /\ At(s, "Upload")
  /\ LET b == Step(s).b IN
     IF ~container.there \/ blob[b].copy = "pending" THEN Fail(s, FALSE)
     ELSE /\ blob' = [blob EXCEPT ![b] = [NewBlob(s, Step(s).kind) EXCEPT !.etag = blob[b].etag + 1]]
          /\ done' = IF Step(s).kind # "complete" THEN done
                     ELSE done \cup {[u |-> In(s).u, parts |-> In(s).parts, data |-> req[s].body.data,
                                      sealed |-> TRUE, met |-> req[s].met,
                                      asked |-> [i \in DOMAIN In(s).parts |-> SeenPart(s, In(s).parts[i])[1]]]}
          /\ Answered(s)
          /\ UNCHANGED <<mix, container>>

\* convertAzureEtag drops the quotes and appends "-1": no ETag of the service.
convertAzureEtag(etag) == 0 - etag
DeleteBlob(s) ==
  /\ At(s, "Delete")
  /\ LET b == Step(s).b IN
     IF ~blob[b].there
     THEN IF Step(s).missing = "go" THEN Advance(s, req[s]) ELSE Fail(s, FALSE)
     ELSE IF Step(s).match /\ blob[b].etag # convertAzureEtag(req[s].again.object) THEN Fail(s, FALSE)
     ELSE Write(s, b, NoBlob)

-----------------------------------------------------------------------------
(* Copies by the service *)

CopiedMeta(s) ==
  IF "meta" \in In(s).with THEN OwnMeta(s) ELSE [req[s].obj.meta EXCEPT !.redirect = None]
\* Whatever comes of the call but an answer, the copy is made by download.
FallBack(s) == req' = [req EXCEPT ![s].todo = Step(s).fallback]
StartCopyFromURL(s) ==
  /\ At(s, "StartCopy")
  /\ LET b == Obj(In(s).k)
         from == blob[Obj(In(s).from)]
         meta == IF CopiedMeta(s) = NoMeta THEN from.meta ELSE CopiedMeta(s)
     IN  \/ FallBack(s) /\ UNCHANGED blob
         \/ /\ from.there /\ blob[b].copy # "pending"
            /\ \E how \in {None, "pending"} :
                 blob' = [blob EXCEPT ![b] =
                   [from EXCEPT !.meta = meta, !.staged = {}, !.copy = how, !.etag = blob[b].etag + 1,
                                !.tags = IF "tags" \in In(s).with THEN s ELSE None]]
            /\ FallBack(s) \/ req' = [req EXCEPT ![s] = Next_(s, @)]
  /\ UNCHANGED <<mix, container, lease, done>>
\* External: the service ends a copy, which may have failed.
CopyEnds(b) ==
  /\ blob[b].copy = "pending"
  /\ \E how \in {None, "failed"} :
       blob' = [blob EXCEPT ![b].copy = how, ![b].data = IF how = None THEN @ ELSE <<>>]
  /\ UNCHANGED <<mix, container, lease, req, done>>
waitForCopy(s) ==
  /\ At(s, "WaitForCopy")
  /\ LET b == blob[Obj(In(s).k)] IN
     /\ b.copy # "pending"
     /\ IF ~b.there \/ b.copy = "failed" THEN Fail(s, FALSE) ELSE Advance(s, req[s])

-----------------------------------------------------------------------------
(* Uploads *)

\* A block replaces the one of its number, by whichever upload it was staged.
StageBlock(s) ==
  /\ At(s, "StageBlock") \/ At(s, "StageFromURL")
  /\ LET b == Obj(In(s).k) IN
     IF ~container.there THEN Fail(s, FALSE)
     ELSE /\ blob' = [blob EXCEPT ![b].staged =
               {c \in @ : c.n # In(s).n} \cup {Chunk(s, In(s).u, In(s).n)}]
          /\ Answered(s)
          /\ UNCHANGED <<mix, container, done>>
GetBlockList(s) ==
  /\ At(s, "BlockList")
  /\ Advance(s, [req[s] EXCEPT !.blocks = {c.n : c \in blob[Obj(In(s).k)].staged}])
PartBlob(s, i) == blob[azureMultipartPartPath(In(s).u, PartNumbers[i])]
ListPartBlobs(s) ==
  /\ At(s, "ListParts")
  /\ Advance(s, [req[s] EXCEPT !.list = [i \in DOMAIN PartNumbers |-> PartBlob(s, i).data]])
ListedPart(s, n) == req[s].list[CHOOSE i \in DOMAIN PartNumbers : PartNumbers[i] = n]
Listed(s, n) == ListedPart(s, n) # <<>>
CleanPart(s) ==
  /\ At(s, "CleanPart")
  /\ IF Listed(s, Step(s).n) /\ blob[Step(s).b].there THEN Write(s, Step(s).b, NoBlob)
     ELSE Advance(s, req[s])
\* A part is read by its path: only its size is compared with the listing's.
ReadPart(s) ==
  /\ At(s, "ReadPart")
  /\ LET part == blob[Step(s).b] IN
     IF part.there /\ part.data[1].size = ListedPart(s, Step(s).n)[1].size
     THEN Advance(s, [req[s] EXCEPT !.body.data = @ \o part.data])
     ELSE Fail(s, FALSE)
ReadZeroParts(s) ==
  /\ At(s, "ZeroParts")
  /\ LET marker == blob[Step(s).b] IN
     IF marker.there THEN Advance(s, [req[s] EXCEPT !.zero = marker.meta.zero]) ELSE Fail(s, FALSE)

\* A block is looked for among the staged ones, then in the blob itself.
BlocksOf(b, n) ==
  LET staged == {c \in b.staged : c.n = n} IN
  IF staged # {} THEN staged ELSE {b.data[i] : i \in {i \in DOMAIN b.data : b.data[i].n = n}}
CommitBlockList(s) ==
  /\ At(s, "Commit")
  /\ LET b == Obj(In(s).k)
         ids == SelectSeq(In(s).parts, LAMBDA n : n \in req[s].blocks)
         data == [i \in DOMAIN ids |-> CHOOSE c \in BlocksOf(blob[b], ids[i]) : TRUE]
     IN  IF ~container.there \/ \E i \in DOMAIN ids : BlocksOf(blob[b], ids[i]) = {} THEN Fail(s, FALSE)
         ELSE /\ blob' = [blob EXCEPT ![b] =
                   [NoBlob EXCEPT !.there = TRUE, !.data = data, !.etag = blob[b].etag + 1,
                      !.meta = [req[s].tmp.meta EXCEPT !.zero = {}, !.mp = In(s).u], !.tags = req[s].tags]]
              /\ done' = done \cup {[u |-> In(s).u, parts |-> SelectSeq(In(s).parts, LAMBDA n : n \notin req[s].zero),
                                     data |-> data, sealed |-> FALSE]}
              /\ Answered(s)
              /\ UNCHANGED <<mix, container>>

-----------------------------------------------------------------------------
(* Lifecycle *)

AcquireLease(s) ==
  /\ At(s, "Acquire")
  /\ IF lease # None \/ ~container.there THEN Fail(s, FALSE)
     ELSE /\ lease' = s
          /\ req' = [req EXCEPT ![s] = Next_(s, req[s])]
          /\ UNCHANGED <<mix, container, blob, done>>
ReleaseLease(s) ==
  /\ At(s, "Release")
  /\ lease' = IF lease = s THEN None ELSE lease
  /\ req' = [req EXCEPT ![s] = Next_(s, req[s])]
  /\ UNCHANGED <<mix, container, blob, done>>
\* The lease runs out at the service; the worker learns it when it renews.
LeaseExpires(s) == lease = s /\ lease' = None /\ UNCHANGED <<mix, container, blob, req, done>>
RenewFails(s) ==
  /\ req[s].status = "run" /\ ~req[s].lost /\ lease # s
  /\ In(s).op \in {"LifecycleDelete", "LifecycleAbort"} /\ ~At(s, "Acquire")
  /\ req' = [req EXCEPT ![s].lost = TRUE]
  /\ UNCHANGED <<mix, container, blob, lease, done>>
\* lifecycleObjectCandidate: locks count in a bucket with a lock configuration.
Locked(s, value) == IF req[s].cmeta["lock"] = None THEN None ELSE value
Noted(s, note) ==
  CASE Step(s).what = "object" -> [note EXCEPT !.object = req[s].obj.etag]
    [] Step(s).what = "upload" -> [note EXCEPT !.upload = In(s).u]
    [] Step(s).what = "hold" -> [note EXCEPT !.tags = req[s].tags, !.hold = Locked(s, req[s].obj.meta.hold)]
    [] Step(s).what = "retention" -> [note EXCEPT !.retention = Locked(s, req[s].obj.meta.retention)]
NoteCandidate(s) ==
  /\ At(s, "Note")
  /\ Advance(s, IF Step(s).to = "first" THEN [req[s] EXCEPT !.first = Noted(s, @)]
                ELSE [req[s] EXCEPT !.again = Noted(s, @)])

-----------------------------------------------------------------------------
(* Decisions of the gateway *)

Increasing(parts) == \A i, j \in DOMAIN parts : i < j => parts[i] < parts[j]
SeenEtag(s) == req[s].seen.blob[Obj(In(s).k)].etag
\* Each part listed is there, the one its ETag says, and only the last is short.
PartsListed(s) ==
  /\ Increasing(In(s).parts)
  /\ \A i \in DOMAIN In(s).parts :
       LET part == ListedPart(s, In(s).parts[i]) IN
       /\ part # <<>> /\ part = SeenPart(s, In(s).parts[i])
       /\ part[1].size = Full \/ i = Len(In(s).parts)
\* Every block and every empty part is listed, and only the last may be empty.
BlocksListed(s) ==
  LET parts == In(s).parts
      zero == req[s].zero
  IN  /\ Cardinality(req[s].blocks) + Cardinality(zero) = Len(parts)
      /\ Increasing(parts)
      /\ \A i \in DOMAIN parts :
           parts[i] \in req[s].blocks \/ (parts[i] \in zero /\ i = Len(parts))
FromThisUpload(s) == req[s].obj.there /\ req[s].obj.meta.mp = In(s).u
evaluate(s, what) ==
  LET i == In(s)  r == req[s] IN
  CASE what = "read" -> {i.cond # "same" \/ r.obj.etag = SeenEtag(s)}
    [] what = "write" -> {IF i.cond = "absent" THEN ~r.obj.there
                          ELSE r.obj.there /\ r.obj.etag = SeenEtag(s)}
    [] what = "delete" -> {r.obj.there => r.obj.etag = SeenEtag(s)}
    [] what = "copy to itself" -> {i.from # i.k \/ {"meta", "encrypt"} \cap i.with # {}}
    [] what = "object found" -> {r.obj.there}
    [] what = "envelope" -> {r.open.sealed # <<>> \/ "encrypt" \in i.with}
    [] what = "service copies" -> BOOLEAN
    [] what = "empty metadata" -> {"meta" \notin i.with /\ CopiedMeta(s) = NoMeta}
    [] what = "hold" -> {r.obj.meta.hold # None}
    [] what = "retention" -> {r.obj.meta.retention # None}
    [] what = "held" -> {Locked(s, r.obj.meta.hold) # None}
    [] what = "upload found" -> {r.tmp.there}
    [] what = "encrypted upload" -> {r.tmp.meta.state}
    [] what = "from this upload" -> {FromThisUpload(s)}
    [] what = "initiated" -> {r.tmp.etag = 1}
    [] what = "encrypted parts" -> {PartsListed(s)}
    [] what = "blocks" -> {BlocksListed(s)}
    [] what \in {"block sizes", "object size"} -> BOOLEAN
    [] what = "lease" -> {~r.lost}
    [] what = "same candidate" -> {r.first = r.again /\ r.again.hold = None /\ r.again.retention = None}
CheckCondition(s) ==
  /\ At(s, "Check")
  /\ \E yes \in evaluate(s, Step(s).what) : IF yes THEN Advance(s, req[s]) ELSE Fail(s, FALSE)
Choose(s) ==
  /\ At(s, "Either")
  /\ \E yes \in evaluate(s, Step(s).what) :
       req' = [req EXCEPT ![s].todo = (IF yes THEN Step(s).yes ELSE Step(s).no) \o Tail(@)]
  /\ UNCHANGED <<mix, container, blob, lease, done>>

-----------------------------------------------------------------------------

RequestStep(s) ==
  \/ Start(s) \/ Finish(s) \/ CallFails(s) \/ NextKey(s)
  \/ ReadContainer(s) \/ NeedSetting(s) \/ WriteContainer(s) \/ CreateContainer(s)
  \/ CheckNoObjects(s) \/ DeleteContainer(s) \/ ListBlobs(s)
  \/ GetProperties(s) \/ SetMetadata(s) \/ SetHTTPHeaders(s) \/ ReadTags(s) \/ WriteTags(s)
  \/ OpenReader(s) \/ DownloadStream(s) \/ UploadBlob(s) \/ DeleteBlob(s)
  \/ StartCopyFromURL(s) \/ waitForCopy(s)
  \/ StageBlock(s) \/ GetBlockList(s) \/ ListPartBlobs(s) \/ CleanPart(s) \/ ReadPart(s) \/ ReadZeroParts(s)
  \/ CommitBlockList(s) \/ AcquireLease(s) \/ ReleaseLease(s) \/ NoteCandidate(s)
  \/ CheckCondition(s) \/ Choose(s)
Next ==
  \/ \E s \in Slots : RequestStep(s) \/ LeaseExpires(s) \/ RenewFails(s)
  \/ \E b \in Names : CopyEnds(b)
Spec == Init /\ [][Next]_vars

-----------------------------------------------------------------------------
(* Properties *)

Alone(s) == req[s].met = {}
Ends(s) == req[s].status = "run" /\ req'[s].status = "ok"

\* completeEncryptedMultipart and CommitBlockList: a completed upload holds parts
\* of the numbers its client listed, in that order.  An encrypted one holds the
\* very parts listed, by number and ETag, of no other upload; a part that is
\* uploaded again while the completion runs may take the place of one of its
\* size, as it is read by path after its ETag was compared.  (The blocks of
\* plain uploads of one key share the blob of the object: those do mix.)
AssembledFromUpload ==
  \A d \in done :
    /\ [i \in DOMAIN d.data |-> d.data[i].n] = d.parts
    /\ d.sealed => \A i \in DOMAIN d.data :
         /\ d.data[i].u = d.u /\ d.data[i].size = d.asked[i].size
         /\ d.data[i] = d.asked[i] \/ d.data[i].by \in d.met

\* CompleteMultipartUpload: a completion is a success only of an upload that was
\* made an object, once or by an earlier try that was not answered.
CompleteAnswered ==
  \A s \in Slots :
    req[s].status = "ok" /\ In(s).op = "CompleteMultipartUpload" => \E d \in done : d.u = In(s).u

\* cleanupEncryptedMultipart: once the marker of an encrypted upload is gone, so
\* are its parts, though any deletion may fail and be tried again; only a part
\* whose upload began before the cleanup and ended after it is left.
PartsGone ==
  \A u \in Uploads :
    /\ ~blob[createMetaTmpPath(u)].there
    /\ \A s \in Slots : req[s].status = "run" => In(s).op = "UploadPart" \/ In(s).u # u
    => \A i \in DOMAIN PartNumbers :
         \/ ~blob[azureMultipartPartPath(u, PartNumbers[i])].there
         \/ \E s \in Slots : /\ In(s).op \in {"UploadPart", "UploadPartCopy"} /\ In(s).u = u
                            /\ ~Alone(s)

\* resumeCompletedEncryptedMultipart: a completion that made the object and then
\* failed can be tried again: the retry, running alone, fails only by a fault.
CompletionResumes ==
  \A s \in Slots :
    /\ req[s].status = "error" /\ ~req[s].fault /\ Alone(s)
    /\ In(s).op = "CompleteMultipartUpload" /\ In(s).cond = None
    => \A d \in done :
         d.u = In(s).u /\ d.sealed => req[s].seen.blob[Obj(In(s).k)].meta.mp # d.u

\* PutObjectLegalHold and PutObjectRetention write all of the metadata: each
\* keeps what the other stored, on an object that is not written in between.
LocksAccumulate ==
  \A s \in Slots : Ends(s) /\ Alone(s) /\ In(s).op \in {"PutObjectLegalHold", "PutObjectRetention"}
    => LET b == Obj(In(s).k)
           was == req[s].seen.blob[b].meta
       IN blob[b].meta = [was EXCEPT !.hold = IF In(s).op = "PutObjectLegalHold" THEN s ELSE @,
                                     !.retention = IF In(s).op = "PutObjectRetention" THEN s ELSE @]

\* setContainerMetaData: a setting stored by a request that ran alone leaves every
\* other setting of the bucket as it was.
SettingsKept ==
  \A s \in Slots : Ends(s) /\ Alone(s)
    => Cardinality({a \in Settings : container.meta[a] # req[s].seen.container.meta[a]})
         <= (CASE In(s).op \in {"CreateBucket", "DeleteBucket"} -> Cardinality(Settings)
               [] In(s).op = "ChangeBucketOwner" -> 2
               [] OTHER -> 1)

\* CopyObject: whichever of its ways it takes, a copy that ran alone has the bytes,
\* the tags and the metadata asked for, can be read, and has not the source's
\* website redirect.  The exception is a copy by the service that replaces the
\* metadata by none: it inherits all of the source's, with its redirect.
Inherits(s) ==
  /\ {"meta", "bare"} \subseteq In(s).with /\ "redirect" \notin In(s).with
  /\ In(s).from # In(s).k
CopyFaithful ==
  \A s \in Slots : Ends(s) /\ Alone(s) /\ In(s).op = "CopyObject"
    => LET new == blob[Obj(In(s).k)]
           src == req[s].seen.blob[Obj(In(s).from)]
       IN /\ new.data = src.data
          /\ new.sealed \in {<<>>, Obj(In(s).k)} /\ new.meta.enc = (new.sealed # <<>>)
          /\ new.tags = IF "tags" \in In(s).with THEN s ELSE src.tags
          /\ \/ /\ new.meta.user = IF "meta" \in In(s).with THEN OwnMeta(s).user ELSE src.meta.user
                /\ new.meta.redirect = IF "meta" \in In(s).with THEN OwnMeta(s).redirect ELSE None
             \/ /\ Inherits(s) /\ src.sealed = <<>> /\ new.sealed = <<>>
                /\ new.meta.user = src.meta.user /\ new.meta.redirect = src.meta.redirect

\* AbortMultipartUpload deletes the marker and then the blob of the object, as a
\* client's request or the lifecycle's: it takes away no object whose making was
\* answered, however the two calls fall between those of the completion.  (A retry
\* that is answered for what an earlier try made may be overtaken: the marker is
\* gone then, and the object not yet.)
AbortSpares ==
  [][\A s, t \in Slots :
       /\ At(s, "Delete") /\ In(s).op \in {"AbortMultipartUpload", "LifecycleAbort"}
       /\ req[t].status = "ok" /\ In(t).op = "CompleteMultipartUpload" /\ req[t].blocks # {}
       /\ In(t).u = In(s).u /\ blob[Obj(In(t).k)].meta.mp = In(t).u
       => blob'[Obj(In(t).k)].there]_vars

\* A multipart upload becomes the object its client asked for, is answered so, can
\* be completed again after a failure and leaves nothing behind: AssembledFromUpload,
\* CompleteAnswered, CompletionResumes and PartsGone.
UploadsWhole == AssembledFromUpload /\ CompleteAnswered /\ CompletionResumes /\ PartsGone

\* Metadata is written as a whole, yet a request changes what it was asked to and
\* nothing else: LocksAccumulate, SettingsKept and CopyFaithful.
MetadataKept == [][LocksAccumulate /\ SettingsKept /\ CopyFaithful]_vars
=============================================================================
