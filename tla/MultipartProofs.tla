--------------------------- MODULE MultipartProofs ---------------------------
(***************************************************************************)
(* Multipart for every set of parts, requests and attributes and every     *)
(* bound: what a client was told of stays until an abort or a completion,  *)
(* a completion that lists it is not refused, and the object is made of    *)
(* the parts that were listed.  The invariant is in parts (IInv); the      *)
(* lemmas about one part have a case for each step of a request.           *)
(***************************************************************************)
EXTENDS Multipart, NaturalsInduction, WellFoundedInduction, TLAPS

\* A set of natural numbers that is not empty has a least one: the next part number that
\* CompleteMultipartUpload copies.
LEMMA LeastExists ==
  ASSUME NEW S \in SUBSET Nat, S # {} PROVE \E x \in S : \A y \in S : x <= y
<1>1. \E x \in S : \A y \in S : ~(<<y, x>> \in OpToRel(<, Nat))
  BY NatLessThanWellFounded, WFMin, Zenon
<1>2. ASSUME NEW x \in S, NEW y \in S, ~(<<y, x>> \in OpToRel(<, Nat)) PROVE x <= y
  <2>1. <<y, x>> \in Nat \X Nat
    OBVIOUS
  <2>2. ~(y < x)
    BY <1>2, <2>1, Zenon DEF OpToRel
  <2> QED BY <2>2
<1> QED BY <1>1, <1>2

\* No directory and no content are among the values of their fields.
LEMMA Zero == 0 \in 0..MaxDirs /\ 0 \in Contents
BY MultipartAssumption DEF Contents

\* A body without parts.
LEMMA EmptyBody == Empty \in Bodies
BY MultipartAssumption DEF Empty, Bodies, Contents

\* A body with one part replaced.
LEMMA BodyUpdate ==
  ASSUME NEW b \in Bodies, NEW p \in Parts, NEW c \in Contents
  PROVE  /\ [b EXCEPT ![p] = c] \in Bodies
         /\ [b EXCEPT ![p] = c][p] = c
         /\ \A q \in Parts \ {p} : [b EXCEPT ![p] = c][q] = b[q]
BY DEF Bodies

\* The records of requests that do not run.
LEMMA NoRequests == NoUp \in UploadRecords /\ NoComp \in CompleteRecords /\ NoAb \in AbortRecords
BY MultipartAssumption, EmptyBody DEF NoUp, NoComp, NoAb, UploadRecords, CompleteRecords,
   AbortRecords, Contents

\* The types of the fields that the steps use.
LEMMA Fields ==
  ASSUME TypeOK
  PROVE  /\ comp.list \in Bodies /\ comp.body \in Bodies /\ comp.dir \in 0..MaxDirs
         /\ comp.enc \in BOOLEAN /\ ab.dir \in 0..MaxDirs
         /\ \A u \in Uploaders : up[u].content \in Contents /\ up[u].dir \in 0..MaxDirs
         /\ \A b \in Bodies, p \in Parts : b[p] \in Contents
         /\ \A d \in Dirs : dirs[d] \in Bodies
BY DEF TypeOK, UploadRecords, CompleteRecords, AbortRecords, Bodies

\* CompleteMultipartUpload takes the next part of the list from those that are left.
LEMMA NextPartUncopied == Uncopied # {} => NextPart \in Uncopied
<1>1. Uncopied \in SUBSET Nat
  BY MultipartAssumption DEF Uncopied
<1> QED BY <1>1, LeastExists DEF NextPart

\* CreateMultipartUpload stores one of the attributes it was asked for.
LEMMA StoredNext ==
  ASSUME StoreAttribute, Missing # {}
  PROVE  \E a \in opts : attrs' = [attrs EXCEPT ![1] = @ \cup {a}]
<1>1. Missing \in SUBSET Nat
  BY DEF Missing, AttributeOrder
<1>2. \E i \in Missing : \A j \in Missing : i <= j
  BY <1>1, LeastExists
<1>3. PICK i \in Missing : attrs' = [attrs EXCEPT ![1] = @ \cup {AttributeOrder[i]}]
  BY <1>2 DEF StoreAttribute
<1> QED BY <1>3 DEF Missing

\* Storing and answering the checksum of a part leaves its encryption.
LEMMA KindSum ==
  ASSUME NEW k \in Kinds, NEW a, NEW sum
  PROVE  LET j == [k EXCEPT !.sum = HasSum(a), !.told = AnsweredSum(a, sum)]
         IN  j \in Kinds /\ j.sum = HasSum(a) /\ (j.sum => j.told) /\ j.enc = k.enc
BY DEF Kinds, HasSum, AnsweredSum

\* The same for a part that is copied.
LEMMA CopiedKind ==
  ASSUME NEW a
  PROVE  LET j == [NoKind EXCEPT !.sum = CopiedSum(a), !.told = HasSum(a)]
         IN  j \in Kinds /\ j.sum = HasSum(a) /\ (j.sum => j.told) /\ ~j.enc
BY DEF NoKind, Kinds, CopiedSum, HasSum

\* What UploadPart finds out about the part it receives concerns no part of an object,
\* so EncryptedAsAsked stays if the part is encrypted for an encrypted upload only.
LEMMA GoesEncrypted ==
  ASSUME TypeOK, OneContent, EncryptedAsAsked, NEW u \in Uploaders, up[u].pc # "idle",
         NEW pc, NEW k \in Kinds, Goes(u, pc, k), k.enc => loadMultipartEncryption(opts),
         UNCHANGED <<opts, comp, named, made>>
  PROVE  EncryptedAsAsked'
<1>1. \A c \in 1..MaxContents : kind'[c] = IF c = up[u].content THEN k ELSE kind[c]
  BY DEF TypeOK, Goes
<1>2. ASSUME NEW c \in 1..MaxContents PROVE kind'[c].enc => loadMultipartEncryption(opts)
  BY <1>1 DEF EncryptedAsAsked
<1>3. ASSUME NEW p \in Parts, comp.body[p] # 0, comp.enc PROVE kind'[comp.body[p]].enc
  <2>1. comp.body[p] # up[u].content
    BY DEF OneContent
  <2>2. comp.body[p] \in 1..MaxContents
    BY <1>3, Fields, MultipartAssumption DEF Contents
  <2> QED BY <1>1, <1>3, <2>1, <2>2 DEF EncryptedAsAsked
<1>4. comp' = comp /\ opts' = opts /\ named' = named /\ made' = made
  OBVIOUS
<1> QED BY <1>2, <1>3, <1>4 DEF EncryptedAsAsked

\* The steps in which UploadPart and UploadPartCopy receive a part: they change that
\* request only, and at most end it.
LEMMA ReceiveStep ==
  ASSUME TypeOK, NEW u \in Uploaders, LoadPart(u) \/ CopySource(u) \/ ReceivePart(u) \/ CopyData(u)
  PROVE  /\ up[u].pc \in {"load", "sums"} /\ UNCHANGED NotUploads
         /\ \A v \in Uploaders \ {u} : up'[v] = up[v]
         /\ up'[u] # NoUp => /\ up'[u].content = up[u].content /\ up'[u].part = up[u].part
                            /\ up'[u].dir = up[u].dir /\ up'[u].pc \in {"load", "sums", "link"}
<1>1. ASSUME NEW pc \in {"sums", "link"}, NEW k, Goes(u, pc, k)
      PROVE  /\ \A v \in Uploaders \ {u} : up'[v] = up[v]
             /\ up'[u].content = up[u].content /\ up'[u].part = up[u].part
             /\ up'[u].dir = up[u].dir /\ up'[u].pc = pc
  BY <1>1 DEF Goes, TypeOK
<1>2. ASSUME Turned(u) PROVE (\A v \in Uploaders \ {u} : up'[v] = up[v]) /\ up'[u] = NoUp
  BY <1>2 DEF Turned, TypeOK
<1>3. CASE LoadPart(u)
  BY <1>1, <1>2, <1>3 DEF LoadPart
<1>4. CASE CopySource(u)
  <2>1. CASE up' = [up EXCEPT ![u].copy = "through"]
    BY <1>4, <2>1 DEF CopySource, TypeOK
  <2> QED BY <1>1, <1>2, <1>4, <2>1 DEF CopySource
<1>5. CASE ReceivePart(u)
  BY <1>1, <1>2, <1>5 DEF ReceivePart
<1>6. CASE CopyData(u)
  BY <1>1, <1>6 DEF CopyData
<1> QED BY <1>3, <1>4, <1>5, <1>6

\* The steps in which CompleteMultipartUpload looks for the encryption change nothing
\* but that request, and claim nothing.
LEMMA LookStep ==
  ASSUME TypeOK, LoadUpload \/ LookForClaim
  PROVE  /\ comp.pc \in {"load", "look"}
         /\ UNCHANGED <<upload, kind, named, claims, dirs, made, obj, n, acked, up, ab, faults, ghosts>>
         /\ \/ comp' = NoComp
            \/ /\ comp'.body = comp.body /\ comp'.dir = comp.dir /\ comp'.list = comp.list
               /\ comp'.pc = "claim" \/ (comp'.pc = "look" /\ comp'.enc = comp.enc)
<1>1. ASSUME NEW known, NEW key, comp' = Resolved(known, key)
      PROVE  \/ comp' = NoComp
             \/ comp'.body = comp.body /\ comp'.dir = comp.dir /\ comp'.list = comp.list /\ comp'.pc = "claim"
  BY <1>1 DEF Resolved, TypeOK, CompleteRecords
<1>2. ASSUME comp' = [comp EXCEPT !.pc = "look"]
      PROVE  /\ comp'.body = comp.body /\ comp'.dir = comp.dir /\ comp'.list = comp.list
             /\ comp'.pc = "look" /\ comp'.enc = comp.enc
  BY <1>2 DEF TypeOK, CompleteRecords
<1>3. (\E known, key : comp' = Resolved(known, key)) \/ comp' = [comp EXCEPT !.pc = "look"]
  BY Zenon DEF LoadUpload, LookForClaim
<1>4. /\ comp.pc \in {"load", "look"}
      /\ UNCHANGED <<upload, kind, named, claims, dirs, made, obj, n, acked, up, ab, faults, ghosts>>
  BY Zenon DEF LoadUpload, LookForClaim
<1> QED BY <1>1, <1>2, <1>3, <1>4

\* A new UploadPart has a content of its own.
LEMMA StatContent ==
  ASSUME TypeOK, OneContent, NEW u \in Uploaders, NEW copy, StatUpload(u, copy)
  PROVE  OneContent'
<1>1. n \in Nat /\ n' = n + 1 /\ UNCHANGED <<dirs, comp>>
  BY MultipartAssumption DEF TypeOK, Contents, StatUpload
<1>2. /\ \A v \in Uploaders \ {u} : up'[v] = up[v]
      /\ up'[u].content = n'
  BY DEF StatUpload, TypeOK
<1>3. \A d \in Dirs, p \in Parts : dirs[d][p] \in Nat /\ dirs[d][p] <= n
  <2>1. \A d \in Dirs, p \in Parts : dirs[d][p] \in Contents
    BY Fields
  <2> QED BY <2>1, MultipartAssumption DEF OneContent, Contents
<1>4. \A p \in Parts : comp.body[p] \in Nat /\ comp.body[p] <= n
  BY Fields, MultipartAssumption DEF OneContent, Contents
<1>5. ASSUME NEW v \in Uploaders, up'[v].pc # "idle"
      PROVE  /\ up'[v].content \in 1..n'
             /\ \A w \in Uploaders : w # v /\ up'[w].pc # "idle" => up'[w].content # up'[v].content
             /\ \A d \in Dirs, p \in Parts : dirs[d][p] # up'[v].content
             /\ \A p \in Parts : comp.body[p] # up'[v].content
  BY <1>1, <1>2, <1>3, <1>4, <1>5 DEF OneContent
<1>6. /\ \A d \in Dirs, p \in Parts : dirs'[d][p] <= n'
      /\ \A p \in Parts : comp'.body[p] <= n'
  BY <1>1, <1>3, <1>4
<1> QED BY <1>1, <1>5, <1>6 DEF OneContent

\* Linking a part: what was of one request is now of one file.
LEMMA PutContent ==
  ASSUME TypeOK, OneContent, Requests, NEW u \in Uploaders, up[u].pc # "idle",
           NEW d \in Dirs, PutPart(u, d),
         UNCHANGED <<n, comp>>
  PROVE  OneContent'
<1>1. \A e \in Dirs, p \in Parts : dirs'[e][p] \in {dirs[e][p], up[u].content}
  BY DEF PutPart, TypeOK, Bodies
<1>2. \A v \in Uploaders : up'[v].pc # "idle" => v # u /\ up'[v] = up[v]
  BY DEF PutPart, TypeOK, NoUp
<1>3. n \in Nat /\ up[u].content \in 1..n
  BY MultipartAssumption DEF TypeOK, Contents, OneContent
<1>4. \A e \in Dirs, p \in Parts : dirs'[e][p] <= n
  BY <1>1, <1>3 DEF OneContent
<1> QED BY <1>1, <1>2, <1>3, <1>4 DEF OneContent

\* Nothing is in a body without parts.
LEMMA EmptyAt == \A p \in Parts : Empty[p] = 0 /\ NoComp.body[p] = 0
BY DEF Empty, NoComp

\* OneContent stays if nothing is copied but parts that are stored and no request
\* starts.
LEMMA ContentKept ==
  ASSUME TypeOK, OneContent, n' = n,
         \A u \in Uploaders : up'[u].pc # "idle" => up[u].pc # "idle" /\ up'[u].content = up[u].content,
         \A d \in Dirs, p \in Parts : dirs'[d][p] \in {0, dirs[d][p]},
         \A p \in Parts : \/ comp'.body[p] \in {0, comp.body[p]}
                          \/ \E d \in Dirs, q \in Parts : comp'.body[p] = dirs[d][q]
  PROVE  OneContent'
<1>1. n \in Nat
  BY MultipartAssumption DEF TypeOK, Contents
<1>2. \A d \in Dirs, p \in Parts : dirs'[d][p] <= n'
  BY <1>1 DEF OneContent
<1>3. \A p \in Parts : comp'.body[p] <= n'
  BY <1>1 DEF OneContent
<1>4. ASSUME NEW u \in Uploaders, up'[u].pc # "idle"
      PROVE  /\ up'[u].content \in 1..n'
             /\ \A v \in Uploaders : v # u /\ up'[v].pc # "idle" => up'[v].content # up'[u].content
             /\ \A d \in Dirs, p \in Parts : dirs'[d][p] # up'[u].content
             /\ \A p \in Parts : comp'.body[p] # up'[u].content
  BY <1>1, <1>4 DEF OneContent
<1> QED BY <1>2, <1>3, <1>4 DEF OneContent

\* SumsStored stays if no part comes to be stored or received.
LEMMA SumsKept ==
  ASSUME SumsStored, UNCHANGED <<opts, kind, blind>>,
         \A u \in Uploaders : up'[u].pc \in {"link", "linkat"} =>
           up[u].pc \in {"link", "linkat"} /\ up'[u].content = up[u].content,
         \A d \in Dirs, p \in Parts : dirs'[d][p] \in {0, dirs[d][p]}
  PROVE  SumsStored'
BY DEF SumsStored

\* A part that is linked has the checksum it was received with.
LEMMA PutSums ==
  ASSUME TypeOK, SumsStored, NEW u \in Uploaders, up[u].pc \in {"link", "linkat"},
           NEW d \in Dirs, PutPart(u, d),
         UNCHANGED <<opts, kind, blind>>
  PROVE  SumsStored'
<1>1. \A e \in Dirs, p \in Parts : dirs'[e][p] \in {dirs[e][p], up[u].content}
  BY DEF PutPart, TypeOK, Bodies
<1>2. \A v \in Uploaders : up'[v].pc \in {"link", "linkat"} => up'[v] = up[v]
  BY DEF PutPart, TypeOK, NoUp
<1> QED BY <1>1, <1>2 DEF SumsStored

\* A request that is turned down stores nothing.
LEMMA TurnedSums ==
  ASSUME TypeOK, SumsStored, NEW u \in Uploaders, Turned(u), UNCHANGED <<opts, dirs>>
  PROVE  SumsStored'
<1>1. \A v \in Uploaders : up'[v].pc \in {"link", "linkat"} => up'[v] = up[v]
  BY DEF Turned, TypeOK, NoUp
<1> QED BY <1>1, SumsKept DEF Turned

\* A part that is received while the attributes of the upload can be read gets a
\* checksum if they have an algorithm.
LEMMA GoesSums ==
  ASSUME TypeOK, OneContent, SumsStored, NEW u \in Uploaders, up[u].pc # "idle",
         NEW pc \in {"sums", "link"}, NEW k, Goes(u, pc, k), pc = "link" => k.sum = HasSum(Known),
         k.sum => k.told, UNCHANGED <<opts, dirs>>
  PROVE  SumsStored'
<1>1. \A c \in 1..MaxContents : kind'[c] = IF c = up[u].content THEN k ELSE kind[c]
  BY DEF TypeOK, Goes
<1>2. \A c \in Contents : c \notin blind' => c \notin blind /\ (c = up[u].content => Known = opts)
  BY DEF Goes
<1>3. \A v \in Uploaders : up'[v].content = up[v].content /\ up'[v].pc = IF v = u THEN pc ELSE up[v].pc
  BY DEF Goes, TypeOK
<1>4. ASSUME NEW d \in Dirs, NEW p \in Parts, dirs[d][p] \notin blind' \cup {0}
      PROVE  kind'[dirs[d][p]].sum = HasSum(opts)
  <2>1. dirs[d][p] \in 1..MaxContents /\ dirs[d][p] # up[u].content
    BY <1>4, Fields, MultipartAssumption DEF Contents, OneContent
  <2>2. dirs[d][p] \notin blind
    BY <1>2, <1>4, <2>1 DEF Contents
  <2> QED BY <1>1, <1>4, <2>1, <2>2 DEF SumsStored
<1>5. ASSUME NEW v \in Uploaders, up'[v].pc \in {"link", "linkat"}, up'[v].content \notin blind'
      PROVE  kind'[up'[v].content].sum = HasSum(opts)
  <2>1. up[v].content \in 1..MaxContents
    BY <1>3, <1>5, Fields, MultipartAssumption DEF Contents, OneContent
  <2>2. CASE v = u
    BY <1>1, <1>2, <1>3, <1>5, <2>1, <2>2 DEF Contents
  <2>3. CASE v # u
    BY <1>1, <1>2, <1>3, <1>5, <2>1, <2>3 DEF Contents, OneContent, SumsStored
  <2> QED BY <2>2, <2>3
<1>6. dirs' = dirs /\ opts' = opts
  OBVIOUS
<1>7. \A c \in 1..MaxContents : kind'[c].sum => kind'[c].told
  BY <1>1 DEF SumsStored
<1> QED BY <1>4, <1>5, <1>6, <1>7 DEF SumsStored

\* PartsStored stays if a directory that has a part keeps it and keeps a name.
LEMMA StillKept ==
  ASSUME PartsStored, aborted => aborted', stored => stored',
         \A p \in Parts : acked'[p] # 0 =>
           \/ acked[p] # 0
           \/ \E d \in Dirs : Linked(d)' /\ dirs'[d][p] # 0,
         \A d \in Dirs, p \in Parts : Linked(d) /\ dirs[d][p] # 0 => Linked(d)' /\ dirs'[d][p] # 0
  PROVE  PartsStored'
BY DEF PartsStored

\* The deferred rename of CompleteMultipartUpload takes no name from a directory with
\* parts.
LEMMA RenameKeeps ==
  ASSUME RenameBack, NEW d \in Dirs, NEW p \in Parts, Linked(d), dirs[d][p] # 0
  PROVE  Linked(d)'
<1>1. dirs[d] # Empty
  BY EmptyAt
<1>2. CASE d = named
  <2>1. named # 0
    BY <1>2, MultipartAssumption DEF Dirs
  <2> QED BY <1>1, <1>2, <2>1 DEF RenameBack, Linked
<1>3. CASE d # named
  <2>1. PICK c \in claims : c.dir = d
    BY <1>3 DEF Linked
  <2> QED BY <2>1 DEF RenameBack, Linked
<1> QED BY <1>2, <1>3

\* A part that is linked, and answered, is in a directory with a name.
LEMMA PutKeeps ==
  ASSUME TypeOK, OneContent, Requests, PartsStored, NEW u \in Uploaders, up[u].pc # "idle",
         NEW d \in Dirs, Linked(d), PutPart(u, d), UNCHANGED <<named, claims, aborted, stored>>
  PROVE  PartsStored'
<1>1. up[u].part \in Parts /\ up[u].content # 0
  BY DEF Requests, OneContent
<1>2. \A e \in Dirs, p \in Parts :
        dirs'[e][p] = IF e = d /\ p = up[u].part THEN up[u].content ELSE dirs[e][p]
  BY <1>1 DEF PutPart, TypeOK, Bodies
<1>3. \A p \in Parts : acked'[p] = IF p = up[u].part THEN up[u].content ELSE acked[p]
  BY <1>1 DEF PutPart, TypeOK, Bodies
<1>4. \A e : Linked(e)' <=> Linked(e)
  BY DEF Linked
<1> QED BY <1>1, <1>2, <1>3, <1>4, StillKept

\* A completion whose client lists the checksums it was told or those of the algorithm
\* it asked for, of parts that are there and were received with the attributes at hand,
\* is not refused: ToldCompletes.
LEMMA SoundAccepted ==
  ASSUME TypeOK, SumsStored, Requests, comp.pc = "check", NEW wish \in Honest, Sound(wish)
  PROVE  ~Refuses(wish)
<1>1. comp.dir \in Dirs /\ attrs[comp.dir] = opts
  BY Fields DEF Sound, Requests, Claimed, Dirs
<1>2. wish \in {"told", "sums", "no sums"}
  BY DEF Honest
<1>3. ASSUME NEW p \in Listed
      PROVE  /\ dirs[comp.dir][p] = comp.list[p] /\ p \in Parts
             /\ kind[comp.list[p]].sum = HasSum(opts)
             /\ numberOfChecksums(opts, kind[comp.list[p]], wish) = IF HasSum(opts) THEN 1 ELSE 0
  <2>1. /\ p \in Parts /\ comp.list[p] # 0 /\ dirs[comp.dir][p] = comp.list[p]
        /\ dirs[comp.dir][p] \notin blind
        /\ wish = "told" /\ kind[comp.list[p]].told => kind[comp.list[p]].sum
    BY DEF Listed, Sound
  <2>2. kind[comp.list[p]].sum = HasSum(opts)
    BY <1>1, <2>1 DEF SumsStored
  <2>3. comp.list[p] \in 1..MaxContents
    BY <2>1, Fields, MultipartAssumption DEF Contents
  <2>4. kind[comp.list[p]].sum => kind[comp.list[p]].told
    BY <2>3 DEF SumsStored
  <2>5. numberOfChecksums(opts, kind[comp.list[p]], wish) = IF HasSum(opts) THEN 1 ELSE 0
    <3>1. CASE wish = "told"
      BY <2>1, <2>2, <2>4, <3>1 DEF numberOfChecksums
    <3>2. CASE wish = IF HasSum(opts) THEN "sums" ELSE "no sums"
      BY <3>2 DEF numberOfChecksums
    <3> QED BY <3>1, <3>2 DEF Honest
  <2> QED BY <2>1, <2>2, <2>5
<1>4. ASSUME NEW p \in Listed PROVE ~PartRefused(p, wish)
  <2>1. validatePartChecksum(kind[comp.list[p]], numberOfChecksums(opts, kind[comp.list[p]], wish))
    BY <1>3 DEF validatePartChecksum
  <2>2. comp.list[p] \in Small => \A q \in Listed : ~(q > p)
    BY <1>3, MultipartAssumption DEF Sound, Listed
  <2> QED BY <1>3, <2>1, <2>2 DEF PartRefused
<1>5. ~SumsMissing(wish)
  BY <1>1, <1>3 DEF SumsMissing
<1>6. ~PreconditionFails(wish) /\ ~TotalsWrong(attrs[comp.dir], wish)
  BY <1>2 DEF PreconditionFails, TotalsWrong
<1> QED BY <1>2, <1>4, <1>5, <1>6 DEF Refuses

----------------------------------------------------------------------------
\* Every step preserves the type invariant.
LEMMA TypeNext == TypeOK /\ Requests /\ OneContent /\ [Next]_vars => TypeOK'
<1> SUFFICES ASSUME TypeOK, Requests, OneContent, [Next]_vars PROVE TypeOK'
  OBVIOUS
<1> USE MultipartAssumption, Fields, NoRequests DEF TypeOK, upload, ghosts
<1>1. CASE CreateUpload
  BY <1>1 DEF CreateUpload
<1>2. CASE StoreAttribute
  <2>1. attrs' \in [Dirs -> SUBSET Attributes]
    <3>1. CASE Missing = {}
      BY <1>2, <3>1 DEF StoreAttribute
    <3>2. CASE Missing # {}
      <4>1. PICK i : attrs' = [attrs EXCEPT ![1] = @ \cup {AttributeOrder[i]}] /\ i \in Missing
        <5>1. Missing \in SUBSET Nat
          BY DEF Missing, AttributeOrder
        <5>2. \E i \in Missing : \A j \in Missing : i <= j
          BY <5>1, <3>2, LeastExists
        <5> QED BY <5>2, <3>2, <1>2 DEF StoreAttribute
      <4>2. {AttributeOrder[i]} \subseteq Attributes
        BY <4>1 DEF Missing
      <4> QED BY <4>1, <4>2 DEF Dirs
    <3> QED BY <3>1, <3>2
  <2> QED BY <1>2, <2>1 DEF StoreAttribute
<1>3. CASE CreateFails
  BY <1>3 DEF CreateFails
<1>4. CASE ListParts
  <2>1. acked' \in Bodies
    BY <1>4 DEF ListParts, Dirs, Bodies
  <2> QED BY <1>4, <2>1 DEF ListParts
<1>5. CASE StartComplete
  <2>1. comp' \in CompleteRecords
    BY <1>5 DEF StartComplete, Lists, CompleteRecords
  <2> QED BY <1>5, <2>1 DEF StartComplete
<1>6. CASE LoadUpload \/ LookForClaim
  <2>1. \A known, key : Resolved(known, key) \in CompleteRecords
    BY DEF Resolved, CompleteRecords, loadMultipartEncryption
  <2>2. [comp EXCEPT !.pc = "look"] \in CompleteRecords
    BY DEF CompleteRecords
  <2>3. comp' \in CompleteRecords
    <3>1. CASE LoadUpload
      BY <2>1, <2>2, <3>1 DEF LoadUpload
    <3>2. CASE LookForClaim
      BY <2>1, <3>2 DEF LookForClaim
    <3> QED BY <1>6, <3>1, <3>2
  <2> QED BY <1>6, <2>3 DEF LoadUpload, LookForClaim
<1>7. CASE Claim
  <2>1. comp' \in CompleteRecords
    BY <1>7 DEF Claim, CompleteRecords
  <2>2. claims' \subseteq ClaimRecords
    BY <1>7 DEF Claim, ClaimRecords, Dirs
  <2> QED BY <1>7, <2>1, <2>2 DEF Claim
<1>8. CASE ClaimMissing
  BY <1>8 DEF ClaimMissing, Answer
<1>9. CASE InvalidPart
  BY <1>9 DEF InvalidPart, RenameBack
<1>10. CASE CheckParts
  <2>1. comp' \in CompleteRecords
    BY <1>10 DEF CheckParts, CompleteRecords
  <2> QED BY <1>10, <2>1 DEF CheckParts
<1>11. CASE CopyPart
  <2>1. comp' \in CompleteRecords
    <3>1. CASE comp' = NoComp
      BY <3>1
    <3>2. CASE comp' = [comp EXCEPT !.body[NextPart] = dirs[comp.dir][NextPart]]
      <4>1. comp.dir \in Dirs /\ NextPart \in Parts
        BY <1>11, NextPartUncopied DEF CopyPart, Requests, Claimed, Dirs, Uncopied
      <4>2. [comp.body EXCEPT ![NextPart] = dirs[comp.dir][NextPart]] \in Bodies
        BY <4>1, BodyUpdate
      <4> QED BY <3>2, <4>2 DEF CompleteRecords
    <3> QED BY <1>11, <3>1, <3>2 DEF CopyPart
  <2> QED BY <1>11, <2>1 DEF CopyPart, RenameBack
<1>12. CASE LinkObject
  <2>1. comp' \in CompleteRecords
    BY <1>12 DEF LinkObject, CompleteRecords
  <2> QED BY <1>12, <2>1 DEF LinkObject
<1>13. CASE RemoveParts
  <2>1. comp' \in CompleteRecords
    BY <1>13 DEF RemoveParts, CompleteRecords
  <2>2. dirs' \in [Dirs -> Bodies]
    BY <1>13, EmptyBody DEF RemoveParts
  <2> QED BY <1>13, <2>1, <2>2 DEF RemoveParts
<1>14. CASE Return
  BY <1>14 DEF Return, Answer, RenameBack
<1>15. CASE CompleteFails
  BY <1>15 DEF CompleteFails, RenameBack
<1>16. CASE Abort
  BY <1>16 DEF Abort, AbortRecords
<1>17. CASE AbortOpen
  BY <1>17 DEF AbortOpen, AbortRecords
<1>18. CASE AbortRemove
  <2>1. ab' \in AbortRecords
    BY <1>18 DEF AbortRemove, AbortRecords
  <2>2. dirs' \in [Dirs -> Bodies]
    <3>1. CASE dirs' = dirs
      BY <3>1
    <3>2. ASSUME NEW p \in Parts, dirs' = [dirs EXCEPT ![ab.dir][p] = 0]
          PROVE dirs' \in [Dirs -> Bodies]
      BY <3>2, Zero DEF Bodies
    <3> QED BY <1>18, <3>1, <3>2 DEF AbortRemove
  <2> QED BY <1>18, <2>1, <2>2 DEF AbortRemove
<1>19. CASE AbortRmdir
  BY <1>19 DEF AbortRmdir
<1>20. CASE OtherWriter
  BY <1>20, EmptyBody DEF OtherWriter
<1>21. CASE Crash
  BY <1>21 DEF Crash
<1>22. ASSUME NEW u \in Uploaders, NEW copy \in {"no", "yes"}, StatUpload(u, copy) PROVE TypeOK'
  <2>1. n' \in Contents
    BY <1>22 DEF StatUpload, Contents
  <2>2. up' \in [Uploaders -> UploadRecords]
    <3>1. PICK p \in Parts :
            up' = [up EXCEPT ![u] = [NoUp EXCEPT !.pc = "load", !.part = p, !.content = n',
                !.copy = copy]]
      BY <1>22 DEF StatUpload
    <3>2. [NoUp EXCEPT !.pc = "load", !.part = p, !.content = n', !.copy = copy] \in UploadRecords
      BY <2>1 DEF UploadRecords
    <3> QED BY <3>1, <3>2
  <2> QED BY <1>22, <2>1, <2>2 DEF StatUpload
<1>23. ASSUME NEW u \in Uploaders, NEW pc \in {"sums", "link"},
                NEW k \in Kinds, Goes(u, pc, k), UNCHANGED NotUploads
       PROVE  TypeOK'
  <2>1. up' \in [Uploaders -> UploadRecords]
    BY <1>23 DEF Goes, UploadRecords
  <2> QED BY <1>23, <2>1 DEF Goes, NotUploads
<1>24. ASSUME NEW u \in Uploaders, Turned(u), UNCHANGED NotUploads PROVE  TypeOK'
  BY <1>24 DEF Turned, NotUploads
<1>25. ASSUME NEW u \in Uploaders, LoadPart(u) PROVE TypeOK'
  <2>1. [NoKind EXCEPT !.enc = loadMultipartEncryption(Known)] \in Kinds
    BY DEF NoKind, Kinds, loadMultipartEncryption
  <2> QED BY <1>23, <1>24, <1>25, <2>1 DEF LoadPart
<1>26. ASSUME NEW u \in Uploaders, CopySource(u) PROVE TypeOK'
  <2>1. NoKind \in Kinds
    BY DEF NoKind, Kinds
  <2>2. CASE up' = [up EXCEPT ![u].copy = "through"] /\ UNCHANGED <<kind, blind>>
    <3>1. up' \in [Uploaders -> UploadRecords]
      BY <2>2 DEF UploadRecords
    <3> QED BY <1>26, <2>2, <3>1 DEF CopySource, NotUploads
  <2> QED BY <1>23, <1>24, <1>26, <2>1, <2>2 DEF CopySource
<1>27. ASSUME NEW u \in Uploaders, ReceivePart(u) PROVE TypeOK'
  <2>1. kind[up[u].content] \in Kinds
    BY <1>27 DEF ReceivePart, OneContent, Contents
  <2>2. \A sum : [kind[up[u].content] EXCEPT !.sum = HasSum(Known), !.told = AnsweredSum(Known, sum)] \in Kinds
    BY <2>1, KindSum
  <2> QED BY <1>23, <1>24, <1>27, <2>2 DEF ReceivePart
<1>28. ASSUME NEW u \in Uploaders, CopyData(u) PROVE TypeOK'
  <2> QED BY <1>23, <1>28, CopiedKind DEF CopyData
<1>29. ASSUME NEW u \in Uploaders, NEW d, PutPart(u, d), d \in Dirs
       PROVE  dirs' \in [Dirs -> Bodies] /\ acked' \in Bodies /\ up' \in [Uploaders -> UploadRecords]
  BY <1>29 DEF PutPart, Bodies
<1>30. ASSUME NEW u \in Uploaders, LinkMkdir(u) PROVE TypeOK'
  BY <1>30 DEF LinkMkdir
<1>31. ASSUME NEW u \in Uploaders, LinkRename(u) PROVE TypeOK'
  <2>1. named \in Dirs
    BY <1>31 DEF LinkRename, Dirs
  <2> QED BY <1>29, <1>31, <2>1 DEF LinkRename
<1>32. ASSUME NEW u \in Uploaders, LinkOpen(u) PROVE TypeOK'
  <2>1. up' \in [Uploaders -> UploadRecords]
    BY <1>32 DEF LinkOpen, UploadRecords
  <2> QED BY <1>32, <2>1 DEF LinkOpen
<1>33. ASSUME NEW u \in Uploaders, LinkAt(u) PROVE TypeOK'
  <2>1. CASE Linked(up[u].dir)
    <3>1. up[u].dir \in Dirs
      BY <1>33 DEF LinkAt, Requests, Dirs
    <3> QED BY <1>29, <1>33, <2>1, <3>1 DEF LinkAt
  <2>2. CASE ~Linked(up[u].dir)
    <3>1. up' = [up EXCEPT ![u].pc = "link", ![u].dir = 0]
      BY <1>33, <2>2 DEF LinkAt
    <3>2. up' \in [Uploaders -> UploadRecords]
      BY <3>1, Zero DEF UploadRecords
    <3> QED BY <1>33, <2>2, <3>2 DEF LinkAt
  <2> QED BY <2>1, <2>2
<1>34. CASE UNCHANGED vars
  BY <1>34 DEF vars
<1>35. \A u \in Uploaders : Upload(u) => TypeOK'
  BY <1>22, <1>25, <1>26, <1>27, <1>28, <1>30, <1>31, <1>32, <1>33 DEF Upload, UploadPart,
     UploadPartCopy
<1> QED
  BY <1>1, <1>2, <1>3, <1>4, <1>5, <1>6, <1>7, <1>8, <1>9, <1>10, <1>11, <1>12, <1>13, <1>14,
     <1>15, <1>16, <1>17, <1>18, <1>19, <1>20, <1>21, <1>34, <1>35 DEF Next, Create, Complete,
     AbortUpload

\* Every step preserves OneName: a directory is renamed, never linked twice.
LEMMA OneNameNext ==
  ASSUME TypeOK, OneName, Requests, Unused, [Next]_vars PROVE OneName'
<1> USE MultipartAssumption DEF TypeOK, OneName, Requests, Unused, Claimed, Dirs
<1>1. CASE CreateUpload
  BY <1>1, Fields DEF CreateUpload
<1>2. CASE StoreAttribute
  BY <1>2 DEF StoreAttribute
<1>3. CASE CreateFails
  BY <1>3 DEF CreateFails
<1>4. ASSUME NEW u \in Uploaders, LinkMkdir(u) PROVE OneName'
  <2>1. made' = made + 1 /\ named' = made + 1 /\ UNCHANGED <<create, claims, comp>>
    BY <1>4 DEF LinkMkdir, upload
  <2>2. made \in Nat /\ comp.dir \in Nat /\ \A c \in claims : c.dir \in Nat
    BY Fields DEF ClaimRecords
  <2>3. create # "new" /\ create # "storing"
    BY <1>4 DEF LinkMkdir, NoUp
  <2> QED BY <2>1, <2>2, <2>3
<1>5. CASE StartComplete
  BY <1>5 DEF StartComplete, Lists, upload
<1>6. CASE LoadUpload \/ LookForClaim
  BY <1>6, LookStep DEF NoComp, upload
<1>7. CASE Claim
  <2>1. CASE comp' = NoComp /\ UNCHANGED <<named, claims>>
    BY <1>7, <2>1 DEF Claim, NoComp, upload
  <2>2. CASE /\ claims' = (claims \ ClaimsOf(comp.list)) \cup {[list |-> comp.list, dir |-> named]}
             /\ named' = 0
             /\ comp' = [comp EXCEPT !.pc = "check", !.dir = named]
    <3>1. \A c \in claims' : c.dir \in Nat \ {0} /\ c.dir <= made
      BY <1>7, <2>2 DEF Claim, ClaimRecords
    <3>2. comp'.dir = named
      BY <2>2
    <3>3. create # "new" /\ create # "storing"
      BY <1>7 DEF Claim, NoComp
    <3> QED BY <1>7, <2>2, <3>1, <3>2, <3>3 DEF Claim, upload
  <2> QED BY <1>7, <2>1, <2>2 DEF Claim
<1>8. CASE ClaimMissing
  BY <1>8 DEF ClaimMissing, NoComp, Answer, upload
<1>9. CASE InvalidPart
  BY <1>9 DEF InvalidPart, NoComp, RenameBack, upload
<1>10. CASE CheckParts
  BY <1>10 DEF CheckParts, upload
<1>11. CASE CopyPart
  <2>1. comp' = NoComp \/ (comp'.dir = comp.dir /\ UNCHANGED <<named, claims>>)
    BY <1>11 DEF CopyPart, CompleteRecords
  <2> QED BY <1>11, <2>1 DEF CopyPart, RenameBack, NoComp, upload
<1>12. CASE LinkObject
  BY <1>12 DEF LinkObject, Uncopied, upload
<1>13. CASE RemoveParts
  BY <1>13 DEF RemoveParts, upload
<1>14. CASE Return
  BY <1>14 DEF Return, NoComp, Answer, RenameBack, upload
<1>15. CASE CompleteFails
  BY <1>15 DEF CompleteFails, NoComp, RenameBack, upload
<1>16. CASE AbortRmdir
  <2>1. (named' = named \/ named' = 0) /\ UNCHANGED <<create, made, claims, comp>>
    BY <1>16 DEF AbortRmdir, upload
  <2>2. \A c \in claims : c.dir \in Nat \ {0}
    BY DEF ClaimRecords
  <2>3. create # "new" /\ create # "storing"
    BY <1>16 DEF AbortRmdir, NoAb
  <2> QED BY <2>1, <2>2, <2>3
<1>17. CASE Crash
  BY <1>17 DEF Crash, NoComp
<1>18. ASSUME NEW u \in Uploaders, UploadPart(u) \/ UploadPartCopy(u) \/ LoadPart(u) \/ CopySource(u)
                \/ ReceivePart(u) \/ CopyData(u) \/ LinkRename(u) \/ LinkOpen(u) \/ LinkAt(u)
                   PROVE OneName'
  BY <1>18 DEF UploadPart, StatUpload, UploadPartCopy, LoadPart, NotUploads, CopySource,
     ReceivePart, CopyData, LinkRename, LinkOpen, LinkAt, upload
<1>19. CASE ListParts \/ Abort \/ AbortOpen \/ AbortRemove \/ OtherWriter \/ UNCHANGED vars
  BY <1>19 DEF ListParts, Abort, AbortOpen, AbortRemove, OtherWriter, vars, upload
<1> QED
  BY <1>1, <1>2, <1>3, <1>4, <1>5, <1>6, <1>7, <1>8, <1>9, <1>10, <1>11, <1>12, <1>13, <1>14,
     <1>15, <1>16, <1>17, <1>18, <1>19 DEF Next, Create, Upload, Complete, AbortUpload

\* Every step preserves AttrsStored: attributes are stored by CreateMultipartUpload
\* only, and it answers when none is missing.
LEMMA AttrsNext ==
  ASSUME TypeOK, OneName, AttrsStored, [Next]_vars PROVE AttrsStored'
<1> USE MultipartAssumption DEF TypeOK, AttrsStored, OneName, Dirs
<1>1. CASE CreateUpload
  BY <1>1 DEF CreateUpload
<1>2. CASE StoreAttribute
  <2>1. CASE Missing = {}
    <3>1. opts \subseteq attrs[1]
      BY <2>1 DEF Missing, Attributes
    <3>2. UNCHANGED <<opts, attrs, made, named>>
      BY <1>2, <2>1 DEF StoreAttribute
    <3>3. 1 \in Dirs
      OBVIOUS
    <3>4. attrs[1] \subseteq opts
      BY <3>3
    <3>5. attrs[1] = opts
      BY <3>1, <3>4
    <3> QED BY <3>2, <3>5
  <2>2. CASE Missing # {}
    <3>1. PICK a \in opts : attrs' = [attrs EXCEPT ![1] = @ \cup {a}]
      BY <1>2, <2>2, StoredNext
    <3>2. create' = "storing" /\ opts' = opts
      BY <1>2, <2>2 DEF StoreAttribute
    <3> QED BY <3>1, <3>2
  <2> QED BY <2>1, <2>2
<1>3. CASE CreateFails
  BY <1>3 DEF CreateFails
<1>4. CASE Crash
  BY <1>4 DEF Crash
<1>5. ASSUME NEW u \in Uploaders, UploadPart(u) \/ UploadPartCopy(u) \/ LoadPart(u) \/ CopySource(u)
               \/ ReceivePart(u) \/ CopyData(u) \/ LinkMkdir(u) \/ LinkRename(u) \/ LinkOpen(u)
                    \/ LinkAt(u) PROVE AttrsStored'
  BY <1>5 DEF UploadPart, StatUpload, UploadPartCopy, LoadPart, NotUploads, CopySource,
     ReceivePart, CopyData, LinkMkdir, LinkRename, LinkOpen, LinkAt, upload
<1>6. CASE ListParts \/ StartComplete \/ LoadUpload \/ LookForClaim \/ Claim \/ ClaimMissing
             \/ InvalidPart \/ CheckParts \/ CopyPart \/ LinkObject \/ RemoveParts \/ Return \/ CompleteFails
                  \/ Abort \/ AbortOpen \/ AbortRemove \/ AbortRmdir \/ OtherWriter \/ UNCHANGED vars
  BY <1>6 DEF ListParts, StartComplete, LoadUpload, LookForClaim, Claim, ClaimMissing, InvalidPart, CheckParts,
     CopyPart, LinkObject, RemoveParts, Return, CompleteFails, Abort, AbortOpen, AbortRemove,
     AbortRmdir, OtherWriter, vars, upload
<1> QED BY <1>1, <1>2, <1>3, <1>4, <1>5, <1>6 DEF Next, Create, Upload, Complete, AbortUpload

\* Every step preserves Unused: the other requests look for the upload first.
LEMMA UnusedNext ==
  ASSUME TypeOK, Unused, OneName, [Next]_vars PROVE Unused'
<1> USE MultipartAssumption DEF TypeOK, Unused, OneName
<1>1. CASE CreateUpload
  BY <1>1 DEF CreateUpload
<1>2. CASE StoreAttribute
  BY <1>2 DEF StoreAttribute
<1>3. CASE CreateFails
  BY <1>3 DEF CreateFails
<1>4. CASE ListParts
  BY <1>4 DEF ListParts, upload
<1>5. ASSUME NEW u \in Uploaders, UploadPart(u) PROVE Unused'
  BY <1>5 DEF UploadPart, StatUpload, upload
<1>6. ASSUME NEW u \in Uploaders, UploadPartCopy(u) PROVE Unused'
  BY <1>6 DEF UploadPartCopy, StatUpload, upload
<1>7. ASSUME NEW u \in Uploaders, LoadPart(u) PROVE Unused'
  BY <1>7 DEF LoadPart, Goes, Turned, NotUploads, NoKind, upload, UploadRecords, NoUp
<1>8. ASSUME NEW u \in Uploaders, CopySource(u) PROVE Unused'
  BY <1>8 DEF CopySource, Goes, Turned, NotUploads, NoKind, upload, UploadRecords, NoUp
<1>9. ASSUME NEW u \in Uploaders, ReceivePart(u) PROVE Unused'
  BY <1>9 DEF ReceivePart, Goes, Turned, NotUploads, upload, UploadRecords, NoUp
<1>10. ASSUME NEW u \in Uploaders, CopyData(u) PROVE Unused'
  BY <1>10 DEF CopyData, Goes, NotUploads, NoKind, UploadRecords
<1>11. ASSUME NEW u \in Uploaders, LinkRename(u) PROVE Unused'
  BY <1>11 DEF LinkRename, PutPart, upload, UploadRecords, NoUp
<1>12. ASSUME NEW u \in Uploaders, LinkOpen(u) PROVE Unused'
  BY <1>12 DEF LinkOpen, upload, NoUp
<1>13. ASSUME NEW u \in Uploaders, LinkAt(u) PROVE Unused'
  BY <1>13 DEF LinkAt, PutPart, upload, NoUp
<1>14. CASE StartComplete
  BY <1>14 DEF StartComplete, Lists, upload
<1>15. CASE LoadUpload \/ LookForClaim
  <2>1. comp.pc \in {"load", "look"} /\ UNCHANGED create
    BY <1>15, LookStep DEF upload
  <2>2. create = "done"
    BY <2>1 DEF NoComp
  <2> QED BY <2>1, <2>2
<1>16. CASE Claim
  BY <1>16 DEF Claim, NoComp, ClaimsOf, upload
<1>17. CASE ClaimMissing
  BY <1>17 DEF ClaimMissing, Answer, upload
<1>18. CASE InvalidPart
  BY <1>18 DEF InvalidPart, RenameBack, upload
<1>19. CASE CheckParts
  BY <1>19 DEF CheckParts, upload, NoComp
<1>20. CASE CopyPart
  BY <1>20 DEF CopyPart, NoComp, Uncopied, upload
<1>21. CASE LinkObject
  BY <1>21 DEF LinkObject, Uncopied, upload, CompleteRecords, NoComp
<1>22. CASE RemoveParts
  BY <1>22 DEF RemoveParts, upload, CompleteRecords, NoComp
<1>23. CASE Return
  BY <1>23 DEF Return, Answer, RenameBack, upload
<1>24. CASE CompleteFails
  BY <1>24 DEF CompleteFails, RenameBack, upload
<1>25. CASE Abort
  BY <1>25 DEF Abort, upload
<1>26. CASE AbortOpen
  BY <1>26 DEF AbortOpen, NoAb, upload, ghosts
<1>27. CASE AbortRemove
  BY <1>27 DEF AbortRemove, upload, AbortRecords, NoAb
<1>28. CASE AbortRmdir
  BY <1>28 DEF AbortRmdir, upload
<1>29. CASE Crash
  BY <1>29 DEF Crash
<1>30. ASSUME NEW u \in Uploaders, LinkMkdir(u) PROVE Unused'
  BY <1>30 DEF LinkMkdir, upload
<1>31. CASE OtherWriter \/ UNCHANGED vars
  BY <1>31 DEF OtherWriter, vars, upload
<1> QED
  BY <1>1, <1>2, <1>3, <1>4, <1>5, <1>6, <1>7, <1>8, <1>9, <1>10, <1>11, <1>12, <1>13, <1>14,
     <1>15, <1>16, <1>17, <1>18, <1>19, <1>20, <1>21, <1>22, <1>23, <1>24, <1>25, <1>26, <1>27,
     <1>28, <1>29, <1>30, <1>31 DEF Next, Create, Upload, Complete, AbortUpload

\* Every step preserves Requests.
LEMMA RequestsNext ==
  ASSUME TypeOK, Requests, OneName, [Next]_vars PROVE Requests'
<1> USE MultipartAssumption DEF TypeOK, Requests, OneName, PatientDone, Claimed, Uncopied
<1>1. ASSUME NEW u \in Uploaders, UploadPart(u) PROVE Requests'
  BY <1>1 DEF UploadPart, StatUpload, upload, ghosts, NoComp, NoAb
<1>2. ASSUME NEW u \in Uploaders, UploadPartCopy(u) PROVE Requests'
  BY <1>2 DEF UploadPartCopy, StatUpload, upload, ghosts, NoComp, NoAb
<1>3. ASSUME NEW u \in Uploaders, LoadPart(u) PROVE Requests'
  <2>1. CASE Turned(u)
    BY <1>3, <2>1 DEF LoadPart, Turned, NotUploads, NoUp
  <2>2. ASSUME NEW k, Goes(u, "sums", k) PROVE Requests'
    BY <1>3, <2>2 DEF LoadPart, Goes, NotUploads, NoUp
  <2> QED BY <1>3, <2>1, <2>2 DEF LoadPart
<1>4. ASSUME NEW u \in Uploaders, CopySource(u) PROVE Requests'
  <2>1. CASE Turned(u)
    BY <1>4, <2>1 DEF CopySource, Turned, NotUploads, NoUp
  <2>2. ASSUME NEW k, Goes(u, "sums", k) PROVE Requests'
    BY <1>4, <2>2 DEF CopySource, Goes, NotUploads, NoUp
  <2>3. CASE up' = [up EXCEPT ![u].copy = "through"]
    BY <1>4, <2>3 DEF CopySource, NotUploads, NoUp
  <2> QED BY <1>4, <2>1, <2>2, <2>3 DEF CopySource
<1>5. ASSUME NEW u \in Uploaders, ReceivePart(u) PROVE Requests'
  <2>1. CASE Turned(u)
    BY <1>5, <2>1 DEF ReceivePart, Turned, NotUploads, NoUp
  <2>2. ASSUME NEW k, Goes(u, "link", k) PROVE Requests'
    BY <1>5, <2>2 DEF ReceivePart, Goes, NotUploads, NoUp
  <2> QED BY <1>5, <2>1, <2>2 DEF ReceivePart
<1>6. ASSUME NEW u \in Uploaders, CopyData(u) PROVE Requests'
  BY <1>6 DEF CopyData, Goes, NotUploads, NoKind, NoUp
<1>7. ASSUME NEW u \in Uploaders, LinkRename(u) PROVE Requests'
  BY <1>7 DEF LinkRename, PutPart, ghosts, NoUp
<1>8. ASSUME NEW u \in Uploaders, LinkOpen(u) PROVE Requests'
  BY <1>8 DEF LinkOpen, ghosts, NoUp
<1>9. ASSUME NEW u \in Uploaders, LinkAt(u) PROVE Requests'
  <2>1. CASE PutPart(u, up[u].dir)
    BY <1>9, <2>1 DEF LinkAt, PutPart, NoUp, ghosts
  <2>2. CASE up' = [up EXCEPT ![u].pc = "link", ![u].dir = 0]
    BY <1>9, <2>2 DEF LinkAt, UploadRecords
  <2> QED BY <1>9, <2>1, <2>2 DEF LinkAt
<1>10. CASE StartComplete
  BY <1>10 DEF StartComplete, NoComp, Lists, ghosts
<1>11. CASE LoadUpload \/ LookForClaim
  BY <1>11, LookStep DEF NoComp, ghosts
<1>12. CASE Claim
  <2>1. CASE comp' = NoComp
    BY <1>12, <2>1 DEF Claim, NoComp, ghosts
  <2>2. CASE comp' = [comp EXCEPT !.pc = "check", !.dir = named]
    <3>1. comp'.pc = "check" /\ comp'.dir = named /\ comp'.body = comp.body
      BY <2>2
    <3> QED BY <1>12, <3>1 DEF Claim, ghosts
  <2> QED BY <1>12, <2>1, <2>2 DEF Claim
<1>13. CASE ClaimMissing
  BY <1>13 DEF ClaimMissing, NoComp, Answer
<1>14. CASE InvalidPart
  BY <1>14 DEF InvalidPart, NoComp
<1>15. CASE CheckParts
  BY <1>15 DEF CheckParts, ghosts
<1>16. CASE CopyPart
  BY <1>16, Fields DEF CopyPart, NoComp, Uncopied, ghosts, CompleteRecords, NoUp
<1>17. CASE LinkObject
  BY <1>17 DEF LinkObject, Uncopied
<1>18. CASE RemoveParts
  BY <1>18 DEF RemoveParts, ghosts
<1>19. CASE Return
  BY <1>19 DEF Return, NoComp, Answer
<1>20. CASE CompleteFails
  BY <1>20 DEF CompleteFails, NoComp, ghosts
<1>21. CASE Abort
  BY <1>21 DEF Abort
<1>22. CASE AbortOpen
  BY <1>22 DEF AbortOpen, NoAb, ghosts
<1>23. CASE AbortRemove
  BY <1>23 DEF AbortRemove, ghosts, AbortRecords
<1>24. CASE AbortRmdir
  BY <1>24 DEF AbortRmdir, NoAb, ghosts
<1>25. CASE Crash
  BY <1>25 DEF Crash, NoComp, NoAb, NoUp
<1>26. ASSUME NEW u \in Uploaders, LinkMkdir(u) PROVE Requests'
  BY <1>26 DEF LinkMkdir, ghosts
<1>27. CASE CreateUpload \/ StoreAttribute \/ CreateFails \/ ListParts \/ OtherWriter \/ UNCHANGED vars
  BY <1>27 DEF CreateUpload, StoreAttribute, CreateFails, ListParts, OtherWriter, vars, ghosts
<1> QED
  BY <1>1, <1>2, <1>3, <1>4, <1>5, <1>6, <1>7, <1>8, <1>9, <1>10, <1>11, <1>12, <1>13, <1>14,
     <1>15, <1>16, <1>17, <1>18, <1>19, <1>20, <1>21, <1>22, <1>23, <1>24, <1>25, <1>26, <1>27 DEF
     Next, Create, Upload, Complete, AbortUpload

\* Every step preserves OneContent.
LEMMA ContentNext ==
  ASSUME TypeOK, OneContent, Requests, [Next]_vars PROVE OneContent'
<1> USE MultipartAssumption DEF TypeOK
<1>1. ASSUME NEW u \in Uploaders, UploadPart(u) PROVE OneContent'
  BY <1>1, StatContent DEF UploadPart
<1>2. ASSUME NEW u \in Uploaders, UploadPartCopy(u) PROVE OneContent'
  BY <1>2, StatContent DEF UploadPartCopy
<1>3. ASSUME NEW u \in Uploaders, LoadPart(u) PROVE OneContent'
  <2>1. \A v \in Uploaders : up'[v].pc # "idle" => up[v].pc # "idle" /\ up'[v].content = up[v].content
    BY <1>3, ReceiveStep DEF NoUp
  <2> QED BY <1>3, <2>1, ReceiveStep, ContentKept DEF NotUploads
<1>4. ASSUME NEW u \in Uploaders, CopySource(u) PROVE OneContent'
  <2>1. \A v \in Uploaders : up'[v].pc # "idle" => up[v].pc # "idle" /\ up'[v].content = up[v].content
    BY <1>4, ReceiveStep DEF NoUp
  <2> QED BY <1>4, <2>1, ReceiveStep, ContentKept DEF NotUploads
<1>5. ASSUME NEW u \in Uploaders, ReceivePart(u) PROVE OneContent'
  <2>1. \A v \in Uploaders : up'[v].pc # "idle" => up[v].pc # "idle" /\ up'[v].content = up[v].content
    BY <1>5, ReceiveStep DEF NoUp
  <2> QED BY <1>5, <2>1, ReceiveStep, ContentKept DEF NotUploads
<1>6. ASSUME NEW u \in Uploaders, CopyData(u) PROVE OneContent'
  <2>1. \A v \in Uploaders : up'[v].pc # "idle" => up[v].pc # "idle" /\ up'[v].content = up[v].content
    BY <1>6, ReceiveStep DEF NoUp
  <2> QED BY <1>6, <2>1, ReceiveStep, ContentKept DEF NotUploads
<1>7. ASSUME NEW u \in Uploaders, LinkRename(u) PROVE OneContent'
  <2>1. named \in Dirs
    BY <1>7 DEF LinkRename, Dirs
  <2> QED BY <1>7, <2>1, PutContent DEF LinkRename
<1>8. ASSUME NEW u \in Uploaders, LinkOpen(u) PROVE OneContent'
  BY <1>8, ContentKept DEF LinkOpen
<1>9. ASSUME NEW u \in Uploaders, LinkAt(u) PROVE OneContent'
  <2>1. CASE PutPart(u, up[u].dir)
    <3>1. up[u].dir \in Dirs
      BY <1>9, Fields DEF LinkAt, Requests, Dirs
    <3> QED BY <1>9, <2>1, <3>1, PutContent DEF LinkAt
  <2>2. CASE up' = [up EXCEPT ![u].pc = "link", ![u].dir = 0] /\ UNCHANGED <<dirs, acked>>
    <3>1. \A v \in Uploaders : up'[v].pc # "idle" => up[v].pc # "idle" /\ up'[v].content = up[v].content
      BY <1>9, <2>2 DEF LinkAt
    <3> QED BY <1>9, <2>2, <3>1, ContentKept DEF LinkAt
  <2> QED BY <1>9, <2>1, <2>2 DEF LinkAt
<1>10. CASE StartComplete
  BY <1>10, ContentKept DEF StartComplete, Lists
<1>11. CASE LoadUpload \/ LookForClaim
  BY <1>11, LookStep, ContentKept, EmptyAt
<1>12. CASE Claim
  BY <1>12, ContentKept, EmptyAt DEF Claim, ClaimsOf, CompleteRecords
<1>13. CASE ClaimMissing
  BY <1>13, ContentKept, EmptyAt DEF ClaimMissing, Answer
<1>14. CASE InvalidPart
  BY <1>14, ContentKept, EmptyAt DEF InvalidPart, Answer
<1>15. CASE CheckParts
  BY <1>15, ContentKept DEF CheckParts
<1>16. CASE CopyPart
  <2>1. CASE comp' = NoComp
    BY <1>16, <2>1, ContentKept, EmptyAt DEF CopyPart
  <2>2. CASE comp' = [comp EXCEPT !.body[NextPart] = dirs[comp.dir][NextPart]]
    <3>1. comp.dir \in Dirs /\ NextPart \in Parts
      BY <1>16, Fields, NextPartUncopied DEF CopyPart, Requests, Claimed, Dirs, Uncopied
    <3>2. \A p \in Parts : comp'.body[p] \in {comp.body[p], dirs[comp.dir][NextPart]}
      BY <2>2 DEF Bodies
    <3> QED BY <1>16, <3>1, <3>2, ContentKept DEF CopyPart
  <2> QED BY <1>16, <2>1, <2>2 DEF CopyPart
<1>17. CASE LinkObject
  BY <1>17, ContentKept DEF LinkObject, Uncopied
<1>18. CASE RemoveParts
  <2>1. \A d \in Dirs, p \in Parts : dirs'[d][p] \in {0, dirs[d][p]}
    BY <1>18, EmptyAt DEF RemoveParts
  <2>2. comp'.body = comp.body
    BY <1>18 DEF RemoveParts
  <2> QED BY <1>18, <2>1, <2>2, ContentKept DEF RemoveParts
<1>19. CASE Return
  BY <1>19, ContentKept, EmptyAt DEF Return, Answer
<1>20. CASE CompleteFails
  BY <1>20, ContentKept, EmptyAt DEF CompleteFails, Answer
<1>21. CASE AbortRemove
  <2>1. \A d \in Dirs, p \in Parts : dirs'[d][p] \in {0, dirs[d][p]}
    <3>1. CASE dirs' = dirs
      BY <3>1
    <3>2. ASSUME NEW q \in Parts, dirs' = [dirs EXCEPT ![ab.dir][q] = 0]
          PROVE  \A d \in Dirs, p \in Parts : dirs'[d][p] \in {0, dirs[d][p]}
      BY <3>2 DEF Bodies
    <3> QED BY <1>21, <3>1, <3>2 DEF AbortRemove
  <2> QED BY <1>21, <2>1, ContentKept DEF AbortRemove
<1>22. CASE Crash
  BY <1>22, ContentKept, EmptyAt DEF Crash, NoUp
<1>23. ASSUME NEW u \in Uploaders, LinkMkdir(u) PROVE OneContent'
  BY <1>23, ContentKept DEF LinkMkdir
<1>24. CASE CreateUpload \/ StoreAttribute \/ CreateFails \/ ListParts \/ Abort \/ AbortOpen
              \/ AbortRmdir \/ OtherWriter \/ UNCHANGED vars
  BY <1>24, ContentKept DEF CreateUpload, StoreAttribute, CreateFails, ListParts, Abort, AbortOpen,
     AbortRmdir, OtherWriter, vars
<1> QED
  BY <1>1, <1>2, <1>3, <1>4, <1>5, <1>6, <1>7, <1>8, <1>9, <1>10, <1>11, <1>12, <1>13, <1>14,
     <1>15, <1>16, <1>17, <1>18, <1>19, <1>20, <1>21, <1>22, <1>23, <1>24 DEF Next, Create, Upload,
     Complete, AbortUpload

\* Every step preserves EncryptedAsAsked: a completion reads the encryption by the
\* upload ID before the claim, and what has that name when it claims is the same
\* directory unless another was made.
LEMMA EncryptedNext ==
  ASSUME TypeOK, OneName, AttrsStored, Requests, Unused, OneContent, EncryptedAsAsked, [Next]_vars
  PROVE EncryptedAsAsked'
<1> USE MultipartAssumption DEF TypeOK, EncryptedAsAsked, Claimed
<1>1. CASE CreateUpload
  <2>1. comp = NoComp /\ UNCHANGED <<comp, opts, kind>>
    BY <1>1 DEF CreateUpload, Unused
  <2> QED BY <2>1 DEF NoComp
<1>2. CASE CreateFails
  BY <1>2 DEF CreateFails
<1>3. ASSUME NEW u \in Uploaders, LoadPart(u) PROVE EncryptedAsAsked'
  <2>1. CASE Turned(u)
    BY <1>3, <2>1 DEF LoadPart, Turned, NotUploads, upload
  <2>2. ASSUME NEW k \in Kinds, NEW pc, Goes(u, pc, k), k.enc => loadMultipartEncryption(opts)
        PROVE EncryptedAsAsked'
    <3>1. up[u].pc # "idle" /\ UNCHANGED <<opts, comp, named, made>>
      BY <1>3 DEF LoadPart, NotUploads, upload
    <3> QED BY <2>2, <3>1, GoesEncrypted
  <2>3. loadMultipartEncryption(Known) => loadMultipartEncryption(opts)
    BY DEF Known, AttrsStored, loadMultipartEncryption, Dirs
  <2>4. /\ [NoKind EXCEPT !.enc = loadMultipartEncryption(Known)] \in Kinds
        /\ [NoKind EXCEPT !.enc = loadMultipartEncryption(Known)].enc = loadMultipartEncryption(Known)
    BY DEF NoKind, Kinds, loadMultipartEncryption
  <2> QED BY <1>3, <2>1, <2>2, <2>3, <2>4 DEF LoadPart
<1>4. ASSUME NEW u \in Uploaders, CopySource(u) PROVE EncryptedAsAsked'
  <2>1. CASE Turned(u)
    BY <1>4, <2>1 DEF CopySource, Turned, NotUploads, upload
  <2>2. ASSUME NEW k \in Kinds, NEW pc, Goes(u, pc, k), k.enc => loadMultipartEncryption(opts)
        PROVE EncryptedAsAsked'
    <3>1. up[u].pc # "idle" /\ UNCHANGED <<opts, comp, named, made>>
      BY <1>4 DEF CopySource, NotUploads, upload
    <3> QED BY <2>2, <3>1, GoesEncrypted
  <2>3. NoKind \in Kinds /\ ~NoKind.enc
    BY DEF NoKind, Kinds
  <2>4. CASE up' = [up EXCEPT ![u].copy = "through"] /\ UNCHANGED <<kind, blind>>
    BY <1>4, <2>4 DEF CopySource, NotUploads, upload
  <2> QED BY <1>4, <2>1, <2>2, <2>3, <2>4 DEF CopySource
<1>5. ASSUME NEW u \in Uploaders, ReceivePart(u) PROVE EncryptedAsAsked'
  <2>1. CASE Turned(u)
    BY <1>5, <2>1 DEF ReceivePart, Turned, NotUploads, upload
  <2>2. ASSUME NEW k \in Kinds, NEW pc, Goes(u, pc, k), k.enc => loadMultipartEncryption(opts)
        PROVE EncryptedAsAsked'
    <3>1. up[u].pc # "idle" /\ UNCHANGED <<opts, comp, named, made>>
      BY <1>5 DEF ReceivePart, NotUploads, upload
    <3> QED BY <2>2, <3>1, GoesEncrypted
  <2>3. up[u].content \in 1..MaxContents
    BY <1>5 DEF ReceivePart, OneContent, Contents
  <2>4. kind[up[u].content] \in Kinds
    BY <2>3
  <2>5. \A sum :
          /\ [kind[up[u].content] EXCEPT !.sum = HasSum(Known), !.told = AnsweredSum(Known, sum)] \in Kinds
          /\ [kind[up[u].content] EXCEPT !.sum = HasSum(Known), !.told = AnsweredSum(Known, sum)].enc
               = kind[up[u].content].enc
    <3>1. PICK k \in Kinds : k = kind[up[u].content]
      BY <2>4
    <3>2. \A a, sum : /\ [k EXCEPT !.sum = HasSum(a), !.told = AnsweredSum(a, sum)] \in Kinds
                     /\ [k EXCEPT !.sum = HasSum(a), !.told = AnsweredSum(a, sum)].enc = k.enc
      BY DEF Kinds, HasSum, AnsweredSum
    <3> QED BY <3>1, <3>2
  <2> QED BY <1>5, <2>1, <2>2, <2>3, <2>5 DEF ReceivePart
<1>6. ASSUME NEW u \in Uploaders, CopyData(u) PROVE EncryptedAsAsked'
  <2>1. ASSUME NEW k \in Kinds, NEW pc, Goes(u, pc, k), k.enc => loadMultipartEncryption(opts)
        PROVE EncryptedAsAsked'
    <3>1. up[u].pc # "idle" /\ UNCHANGED <<opts, comp, named, made>>
      BY <1>6 DEF CopyData, NotUploads, upload
    <3> QED BY <2>1, <3>1, GoesEncrypted
  <2> QED BY <1>6, <2>1, CopiedKind DEF CopyData
<1>7. ASSUME NEW u \in Uploaders, LinkMkdir(u) PROVE EncryptedAsAsked'
  <2>1. made >= 1
    BY <1>7 DEF LinkMkdir, Unused, OneName, NoUp
  <2> QED BY <1>7, <2>1 DEF LinkMkdir, upload
<1>8. CASE StartComplete
  <2>1. UNCHANGED <<opts, kind, named, made>>
    BY <1>8 DEF StartComplete, upload
  <2>2. comp'.pc = "load" /\ comp'.body = Empty /\ ~comp'.enc
    BY <1>8 DEF StartComplete, NoComp
  <2> QED BY <2>1, <2>2, EmptyAt
<1>9. CASE LoadUpload \/ LookForClaim
  <2>1. UNCHANGED <<opts, kind, named, made>> /\ comp.pc \in {"load", "look"} /\ ~comp.enc
    BY <1>9, LookStep DEF upload
  <2>2. \A p \in Parts : comp'.body[p] = 0
    BY <1>9, <2>1, LookStep, EmptyAt DEF Requests
  <2>3. comp'.pc \in {"idle", "look", "claim"} /\ (comp'.pc = "look" => ~comp'.enc)
    BY <1>9, <2>1, LookStep DEF NoComp
  <2>4. ASSUME made = 1, comp'.pc \in {"look", "claim"}, named # 0
        PROVE  comp'.enc = loadMultipartEncryption(opts)
    <3>1. Known = opts
      <4>1. create = "done"
        BY <2>1 DEF Unused, NoComp
      <4>2. named = 1
        BY <2>4 DEF OneName
      <4> QED BY <2>4, <4>1, <4>2 DEF AttrsStored, Known
    <3>2. CASE LoadUpload
      <4>1. PICK key : comp' = IF loadMultipartEncryption(opts) THEN Resolved(opts, key)
                               ELSE [comp EXCEPT !.pc = "look"]
        BY <3>1, <3>2 DEF LoadUpload
      <4>2. CASE loadMultipartEncryption(opts)
        <5>1. comp' = [comp EXCEPT !.pc = "claim", !.enc = loadMultipartEncryption(opts)]
          BY <2>4, <4>1, <4>2 DEF Resolved, NoComp
        <5> QED BY <5>1 DEF CompleteRecords
      <4>3. CASE ~loadMultipartEncryption(opts)
        <5>1. comp'.enc = comp.enc
          BY <4>1, <4>3 DEF CompleteRecords
        <5> QED BY <2>1, <4>3, <5>1 DEF loadMultipartEncryption, CompleteRecords
      <4> QED BY <4>2, <4>3
    <3>3. CASE LookForClaim
      <4>1. ~loadMultipartEncryption(opts)
        BY <2>1, <2>4, <3>3 DEF LookForClaim
      <4>2. \E key : comp' = Resolved({}, key)
        BY <2>4, <3>3 DEF LookForClaim
      <4>3. comp'.enc = loadMultipartEncryption({})
        <5>1. comp' = [comp EXCEPT !.pc = "claim", !.enc = loadMultipartEncryption({})]
          BY <2>4, <4>2 DEF Resolved, NoComp
        <5> QED BY <5>1 DEF CompleteRecords
      <4> QED BY <4>1, <4>3 DEF loadMultipartEncryption
    <3> QED BY <1>9, <3>2, <3>3
  <2> QED BY <2>1, <2>2, <2>3, <2>4
<1>10. CASE Claim
  <2>1. CASE comp' = NoComp
    BY <1>10, <2>1 DEF Claim, NoComp, upload
  <2>2. CASE comp' = [comp EXCEPT !.pc = "check", !.dir = named]
    <3>1. comp'.pc = "check" /\ comp'.enc = comp.enc /\ comp'.body = comp.body
      BY <2>2
    <3> QED BY <1>10, <3>1 DEF Claim, upload
  <2> QED BY <1>10, <2>1, <2>2 DEF Claim
<1>11. CASE ClaimMissing
  BY <1>11 DEF ClaimMissing, NoComp, Answer, upload
<1>12. CASE InvalidPart
  BY <1>12 DEF InvalidPart, NoComp, upload
<1>13. CASE CheckParts
  BY <1>13 DEF CheckParts, upload
<1>14. CASE CopyPart
  <2>1. CASE comp' = NoComp
    BY <1>14, <2>1 DEF CopyPart, NoComp, upload
  <2>2. CASE /\ comp' = [comp EXCEPT !.body[NextPart] = dirs[comp.dir][NextPart]]
             /\ ~(comp.enc /\ ~kind[dirs[comp.dir][NextPart]].enc)
    <3>1. \A p \in Parts : comp'.body[p] = IF p = NextPart THEN dirs[comp.dir][NextPart]
            ELSE comp.body[p]
      BY <2>2, Fields DEF Bodies
    <3>2. comp'.pc = comp.pc /\ comp'.enc = comp.enc
      BY <2>2
    <3> QED BY <1>14, <2>2, <3>1, <3>2 DEF CopyPart, upload
  <2> QED BY <1>14, <2>1, <2>2 DEF CopyPart
<1>15. CASE LinkObject
  BY <1>15 DEF LinkObject, Uncopied, upload
<1>16. CASE RemoveParts
  BY <1>16 DEF RemoveParts, upload
<1>17. CASE Return
  BY <1>17 DEF Return, NoComp, Answer, upload
<1>18. CASE CompleteFails
  BY <1>18 DEF CompleteFails, NoComp, upload
<1>19. CASE AbortRmdir
  BY <1>19 DEF AbortRmdir, upload
<1>20. CASE Crash
  BY <1>20 DEF Crash, NoComp
<1>21. ASSUME NEW u \in Uploaders, UploadPart(u) \/ UploadPartCopy(u) \/ LinkRename(u) \/ LinkOpen(u)
                \/ LinkAt(u) PROVE EncryptedAsAsked'
  BY <1>21 DEF UploadPart, StatUpload, UploadPartCopy, LinkRename, LinkOpen, LinkAt, upload
<1>22. CASE StoreAttribute \/ ListParts \/ Abort \/ AbortOpen \/ AbortRemove \/ OtherWriter
              \/ UNCHANGED vars
  BY <1>22 DEF StoreAttribute, ListParts, Abort, AbortOpen, AbortRemove, OtherWriter, vars, upload
<1> QED
  BY <1>1, <1>2, <1>3, <1>4, <1>5, <1>6, <1>7, <1>8, <1>9, <1>10, <1>11, <1>12, <1>13, <1>14,
     <1>15, <1>16, <1>17, <1>18, <1>19, <1>20, <1>21, <1>22 DEF Next, Create, Upload, Complete,
     AbortUpload

\* Every step preserves SumsStored.
LEMMA SumsNext ==
  ASSUME TypeOK, OneContent, SumsStored, Requests, [Next]_vars PROVE SumsStored'
<1> USE MultipartAssumption DEF TypeOK
<1>1. ASSUME NEW u \in Uploaders, UploadPart(u) PROVE SumsStored'
  BY <1>1, SumsKept DEF UploadPart, StatUpload, upload, ghosts
<1>2. ASSUME NEW u \in Uploaders, UploadPartCopy(u) PROVE SumsStored'
  BY <1>2, SumsKept DEF UploadPartCopy, StatUpload, upload, ghosts
<1>3. ASSUME NEW u \in Uploaders, LoadPart(u) PROVE SumsStored'
  <2>1. CASE Turned(u)
    BY <1>3, <2>1, TurnedSums DEF LoadPart, NotUploads, upload
  <2>2. ASSUME NEW k, Goes(u, "sums", k), ~k.sum PROVE SumsStored'
    BY <1>3, <2>2, GoesSums DEF LoadPart, NotUploads, upload
  <2>3. ~[NoKind EXCEPT !.enc = loadMultipartEncryption(Known)].sum
    BY DEF NoKind
  <2> QED BY <1>3, <2>1, <2>2, <2>3 DEF LoadPart
<1>4. ASSUME NEW u \in Uploaders, CopySource(u) PROVE SumsStored'
  <2>1. CASE Turned(u)
    BY <1>4, <2>1, TurnedSums DEF CopySource, NotUploads, upload
  <2>2. ASSUME Goes(u, "sums", NoKind) PROVE SumsStored'
    BY <1>4, <2>2, GoesSums DEF CopySource, NotUploads, upload, NoKind
  <2>3. CASE up' = [up EXCEPT ![u].copy = "through"] /\ UNCHANGED <<kind, blind>>
    <3>1. \A v \in Uploaders : up'[v].pc = up[v].pc /\ up'[v].content = up[v].content
      BY <2>3
    <3> QED BY <1>4, <2>3, <3>1, SumsKept DEF CopySource, NotUploads, upload
  <2> QED BY <1>4, <2>1, <2>2, <2>3 DEF CopySource
<1>5. ASSUME NEW u \in Uploaders, ReceivePart(u) PROVE SumsStored'
  <2>1. CASE Turned(u)
    BY <1>5, <2>1, TurnedSums DEF ReceivePart, NotUploads, upload
  <2>2. ASSUME NEW sum,
               Goes(u, "link", [kind[up[u].content] EXCEPT !.sum = HasSum(Known), !.told = AnsweredSum(Known, sum)])
        PROVE  SumsStored'
    <3>1. kind[up[u].content] \in Kinds
      BY <1>5 DEF ReceivePart, OneContent, Contents
    <3> QED BY <1>5, <2>2, <3>1, KindSum, GoesSums DEF ReceivePart, NotUploads, upload
  <2> QED BY <1>5, <2>1, <2>2 DEF ReceivePart
<1>6. ASSUME NEW u \in Uploaders, CopyData(u) PROVE SumsStored'
  BY <1>6, CopiedKind, GoesSums DEF CopyData, NotUploads, upload
<1>7. ASSUME NEW u \in Uploaders, LinkRename(u) PROVE SumsStored'
  <2>1. named \in Dirs
    BY <1>7 DEF LinkRename, Dirs
  <2> QED BY <1>7, <2>1, PutSums DEF LinkRename, upload, ghosts
<1>8. ASSUME NEW u \in Uploaders, LinkOpen(u) PROVE SumsStored'
  BY <1>8, SumsKept DEF LinkOpen, upload, ghosts
<1>9. ASSUME NEW u \in Uploaders, LinkAt(u) PROVE SumsStored'
  <2>1. CASE PutPart(u, up[u].dir)
    <3>1. up[u].dir \in Dirs
      BY <1>9, Fields DEF LinkAt, Requests, Dirs
    <3> QED BY <1>9, <2>1, <3>1, PutSums DEF LinkAt, upload, ghosts
  <2>2. CASE up' = [up EXCEPT ![u].pc = "link", ![u].dir = 0] /\ UNCHANGED <<dirs, acked>>
    <3>1. \A v \in Uploaders : up'[v].pc \in {"link", "linkat"} =>
            up[v].pc \in {"link", "linkat"} /\ up'[v].content = up[v].content
      BY <1>9, <2>2 DEF LinkAt
    <3> QED BY <1>9, <2>2, <3>1, SumsKept DEF LinkAt, upload, ghosts
  <2> QED BY <1>9, <2>1, <2>2 DEF LinkAt
<1>10. CASE RemoveParts
  <2>1. \A d \in Dirs, p \in Parts : dirs'[d][p] \in {0, dirs[d][p]}
    BY <1>10, EmptyAt DEF RemoveParts
  <2> QED BY <1>10, <2>1, SumsKept DEF RemoveParts, upload, ghosts
<1>11. CASE AbortRemove
  <2>1. \A d \in Dirs, p \in Parts : dirs'[d][p] \in {0, dirs[d][p]}
    <3>1. CASE dirs' = dirs
      BY <3>1
    <3>2. ASSUME NEW q \in Parts, dirs' = [dirs EXCEPT ![ab.dir][q] = 0]
          PROVE  \A d \in Dirs, p \in Parts : dirs'[d][p] \in {0, dirs[d][p]}
      BY <3>2 DEF Bodies
    <3> QED BY <1>11, <3>1, <3>2 DEF AbortRemove
  <2> QED BY <1>11, <2>1, SumsKept DEF AbortRemove, upload, ghosts
<1>12. CASE Crash
  BY <1>12, SumsKept DEF Crash, NoUp
<1>13. ASSUME NEW u \in Uploaders, LinkMkdir(u) PROVE SumsStored'
  BY <1>13, SumsKept DEF LinkMkdir, upload, ghosts
<1>14. CASE CreateUpload \/ StoreAttribute \/ CreateFails \/ ListParts \/ StartComplete \/ LoadUpload
              \/ LookForClaim \/ Claim \/ ClaimMissing \/ InvalidPart \/ CheckParts \/ CopyPart \/ LinkObject
                   \/ Return \/ CompleteFails \/ Abort \/ AbortOpen \/ AbortRmdir \/ OtherWriter
                        \/ UNCHANGED vars
  BY <1>14, SumsKept DEF CreateUpload, StoreAttribute, CreateFails, ListParts, StartComplete,
     LoadUpload, LookForClaim, Claim, ClaimMissing, InvalidPart, CheckParts, CopyPart, LinkObject, Return,
     CompleteFails, Abort, AbortOpen, AbortRmdir, OtherWriter, vars, upload, ghosts
<1> QED
  BY <1>1, <1>2, <1>3, <1>4, <1>5, <1>6, <1>7, <1>8, <1>9, <1>10, <1>11, <1>12, <1>13, <1>14 DEF
     Next, Create, Upload, Complete, AbortUpload

\* Every step preserves ToldCompletes.
LEMMA ToldNext ==
  ASSUME TypeOK, ToldCompletes, SumsStored, Requests, [Next]_vars PROVE ToldCompletes'
<1> USE MultipartAssumption DEF TypeOK, ToldCompletes
<1>1. CASE InvalidPart
  BY <1>1, SoundAccepted DEF InvalidPart
<1>2. ASSUME NEW u \in Uploaders, UploadPart(u) \/ UploadPartCopy(u) \/ LoadPart(u) \/ CopySource(u)
               \/ ReceivePart(u) \/ CopyData(u) \/ LinkMkdir(u) \/ LinkRename(u) \/ LinkOpen(u)
                    \/ LinkAt(u) PROVE ToldCompletes'
  BY <1>2 DEF UploadPart, StatUpload, UploadPartCopy, LoadPart, NotUploads, CopySource,
     ReceivePart, CopyData, LinkMkdir, LinkRename, LinkOpen, LinkAt, ghosts
<1>3. CASE CreateUpload \/ StoreAttribute \/ CreateFails \/ ListParts \/ StartComplete \/ LoadUpload
             \/ LookForClaim \/ Claim \/ ClaimMissing \/ CheckParts \/ CopyPart \/ LinkObject \/ RemoveParts \/ Return
                  \/ CompleteFails \/ Abort \/ AbortOpen \/ AbortRemove \/ AbortRmdir \/ OtherWriter
                       \/ Crash \/ UNCHANGED vars
  BY <1>3 DEF CreateUpload, StoreAttribute, CreateFails, ListParts, StartComplete, LoadUpload,
     LookForClaim, Claim, ClaimMissing, CheckParts, CopyPart, LinkObject, RemoveParts, Return, CompleteFails,
     Abort, AbortOpen, AbortRemove, AbortRmdir, OtherWriter, Crash, vars, ghosts
<1> QED BY <1>1, <1>2, <1>3 DEF Next, Create, Upload, Complete, AbortUpload

\* Every step preserves PartsStored: a directory that loses its name is empty, and parts
\* are removed by an abort or after the object is made.
LEMMA PartsStoredNext ==
  ASSUME TypeOK, PartsStored, OneName, Unused, Requests, OneContent, [Next]_vars PROVE PartsStored'
<1> USE MultipartAssumption DEF TypeOK, Linked
<1>1. CASE CreateUpload
  <2>1. acked' = Empty
    BY <1>1 DEF CreateUpload, OneName, Unused
  <2> QED BY <2>1, EmptyAt DEF PartsStored
<1>2. CASE CreateFails
  <2>1. acked' = Empty
    BY <1>2 DEF CreateFails, OneName, Unused
  <2> QED BY <2>1, EmptyAt DEF PartsStored
<1>3. CASE ListParts
  <2>1. named \in Dirs /\ UNCHANGED <<named, claims, dirs, aborted, stored>>
    BY <1>3 DEF ListParts, Dirs, ghosts
  <2>2. \A p \in Parts : acked'[p] = IF dirs[named][p] = 0 THEN acked[p] ELSE dirs[named][p]
    BY <1>3 DEF ListParts
  <2> QED BY <2>1, <2>2, StillKept
<1>4. ASSUME NEW u \in Uploaders, LinkMkdir(u) PROVE PartsStored'
  <2>1. named = 0 /\ UNCHANGED <<claims, dirs, acked, aborted, stored>>
    BY <1>4 DEF LinkMkdir, ghosts
  <2> QED BY <2>1, StillKept DEF Dirs
<1>5. ASSUME NEW u \in Uploaders, LinkRename(u) PROVE PartsStored'
  <2>1. named \in Dirs /\ Linked(named)
    BY <1>5 DEF LinkRename, Dirs
  <2> QED BY <1>5, <2>1, PutKeeps DEF LinkRename, ghosts
<1>6. ASSUME NEW u \in Uploaders, LinkAt(u) PROVE PartsStored'
  <2>1. CASE Linked(up[u].dir) /\ PutPart(u, up[u].dir)
    <3>1. up[u].dir \in Dirs
      BY <1>6, Fields DEF LinkAt, Requests, Dirs
    <3> QED BY <1>6, <2>1, <3>1, PutKeeps DEF LinkAt, ghosts
  <2>2. CASE UNCHANGED <<dirs, acked>>
    BY <1>6, <2>2, StillKept DEF LinkAt, ghosts
  <2> QED BY <1>6, <2>1, <2>2 DEF LinkAt
<1>7. CASE Claim
  <2>1. UNCHANGED <<dirs, acked, aborted, stored>>
    BY <1>7 DEF Claim, ghosts
  <2>2. ASSUME NEW d \in Dirs, NEW p \in Parts, Linked(d), dirs[d][p] # 0 PROVE Linked(d)'
    <3>1. CASE UNCHANGED <<named, claims>>
      BY <2>2, <3>1
    <3>2. CASE /\ \A c \in ClaimsOf(comp.list) : dirs[c.dir] = Empty
               /\ claims' = (claims \ ClaimsOf(comp.list)) \cup {[list |-> comp.list, dir |-> named]}
      <4>1. \A c \in claims : c.dir = d => c \in claims'
        BY <2>2, <3>2, EmptyAt
      <4>2. [list |-> comp.list, dir |-> named] \in claims'
              /\ [list |-> comp.list, dir |-> named].dir = named
        BY <3>2
      <4> QED BY <2>2, <4>1, <4>2
    <3> QED BY <1>7, <3>1, <3>2 DEF Claim
  <2> QED BY <2>1, <2>2, StillKept
<1>8. CASE InvalidPart
  BY <1>8, RenameKeeps, StillKept DEF InvalidPart
<1>9. CASE CopyPart
  <2>1. RenameBack \/ UNCHANGED <<named, claims>>
    BY <1>9 DEF CopyPart
  <2>2. UNCHANGED <<dirs, acked, aborted, stored>>
    BY <1>9 DEF CopyPart, ghosts
  <2> QED BY <2>1, <2>2, RenameKeeps, StillKept
<1>10. CASE LinkObject
  BY <1>10, StillKept DEF LinkObject, Uncopied
<1>11. CASE RemoveParts
  BY <1>11 DEF RemoveParts, ghosts, Requests, PartsStored
<1>12. CASE Return
  BY <1>12 DEF Return, Requests, PartsStored
<1>13. CASE CompleteFails
  BY <1>13, RenameKeeps, StillKept DEF CompleteFails, ghosts
<1>14. CASE Abort
  BY <1>14, StillKept DEF Abort
<1>15. CASE AbortRemove
  BY <1>15 DEF AbortRemove, ghosts, Requests, PartsStored
<1>16. CASE AbortRmdir
  BY <1>16 DEF AbortRmdir, ghosts, Requests, PartsStored
<1>17. ASSUME NEW u \in Uploaders, UploadPart(u) \/ UploadPartCopy(u) \/ LoadPart(u) \/ CopySource(u)
                \/ ReceivePart(u) \/ CopyData(u) \/ LinkOpen(u) PROVE PartsStored'
  BY <1>17, StillKept DEF UploadPart, StatUpload, UploadPartCopy, LoadPart, NotUploads, CopySource,
     ReceivePart, CopyData, LinkOpen, ghosts
<1>18. CASE StoreAttribute \/ StartComplete \/ LoadUpload \/ LookForClaim \/ ClaimMissing \/ CheckParts
              \/ AbortOpen \/ OtherWriter \/ Crash \/ UNCHANGED vars
  BY <1>18, StillKept DEF StoreAttribute, StartComplete, LoadUpload, LookForClaim, ClaimMissing,
     CheckParts, AbortOpen, OtherWriter, Crash, vars, ghosts
<1> QED
  BY <1>1, <1>2, <1>3, <1>4, <1>5, <1>6, <1>7, <1>8, <1>9, <1>10, <1>11, <1>12, <1>13, <1>14,
     <1>15, <1>16, <1>17, <1>18 DEF Next, Create, Upload, Complete, AbortUpload

\* The rename back cannot fail while there is one directory.
LEMMA RenamedBack ==
  ASSUME TypeOK, OneName, ClaimsUsed, RenameBack, comp' = NoComp, UNCHANGED <<made, crashed>>,
         comp.pc \in Claimed, Requests
  PROVE  ClaimsUsed'
<1> SUFFICES ASSUME ~crashed, made = 1 PROVE claims' = {}
  BY DEF ClaimsUsed
<1>1. named = 0
  BY Fields, MultipartAssumption DEF TypeOK, OneName, Requests
<1> QED BY <1>1 DEF RenameBack, ClaimsUsed

\* Every step preserves ClaimsUsed.
LEMMA ClaimsUsedNext ==
  ASSUME TypeOK, OneName, Unused, Requests, ClaimsUsed, [Next]_vars PROVE ClaimsUsed'
<1> USE MultipartAssumption DEF TypeOK
<1>1. CASE CreateUpload
  BY <1>1 DEF CreateUpload, Unused, ClaimsUsed
<1>2. ASSUME NEW u \in Uploaders, LinkMkdir(u) PROVE ClaimsUsed'
  <2>1. made >= 1 /\ made' = made + 1
    BY <1>2 DEF LinkMkdir, Unused, OneName, NoUp
  <2> QED BY <2>1 DEF ClaimsUsed
<1>3. CASE StartComplete
  BY <1>3 DEF StartComplete, NoComp, ghosts, ClaimsUsed
<1>4. CASE LoadUpload \/ LookForClaim
  <2>1. comp.dir = 0 /\ comp'.dir = 0
    BY <1>4, LookStep DEF Requests, Claimed, NoComp
  <2> QED BY <1>4, <2>1, LookStep DEF ghosts, ClaimsUsed
<1>5. CASE Claim
  <2>1. comp.dir = 0 /\ UNCHANGED <<made, crashed>>
    BY <1>5 DEF Claim, Requests, Claimed, ghosts
  <2>2. CASE comp' = NoComp /\ UNCHANGED claims
    BY <2>1, <2>2 DEF ClaimsUsed, NoComp
  <2>3. CASE /\ claims' = (claims \ ClaimsOf(comp.list)) \cup {[list |-> comp.list, dir |-> named]}
             /\ comp' = [comp EXCEPT !.pc = "check", !.dir = named]
    <3>1. ~crashed /\ made = 1 => claims = {}
      BY <2>1 DEF ClaimsUsed, ClaimRecords, Dirs
    <3>2. comp'.dir = named
      BY <2>3 DEF CompleteRecords
    <3> QED BY <2>1, <2>3, <3>1, <3>2 DEF ClaimsUsed
  <2> QED BY <1>5, <2>2, <2>3 DEF Claim
<1>6. CASE ClaimMissing
  <2>1. comp.dir = 0 /\ comp' = NoComp /\ UNCHANGED <<claims, made, crashed>>
    BY <1>6 DEF ClaimMissing, Answer, Requests, Claimed
  <2> QED BY <2>1 DEF ClaimsUsed, NoComp
<1>7. CASE InvalidPart
  BY <1>7, RenamedBack DEF InvalidPart, Claimed
<1>8. CASE CheckParts
  BY <1>8 DEF CheckParts, ghosts, ClaimsUsed
<1>9. CASE CopyPart
  <2>1. CASE comp' = NoComp /\ RenameBack
    BY <1>9, <2>1, RenamedBack DEF CopyPart, ghosts, Claimed
  <2>2. CASE comp'.dir = comp.dir /\ UNCHANGED claims
    BY <1>9, <2>2 DEF CopyPart, ghosts, ClaimsUsed
  <2>3. [comp EXCEPT !.body[NextPart] = dirs[comp.dir][NextPart]].dir = comp.dir
    BY DEF CompleteRecords
  <2> QED BY <1>9, <2>1, <2>2, <2>3 DEF CopyPart
<1>10. CASE LinkObject
  BY <1>10 DEF LinkObject, ClaimsUsed
<1>11. CASE RemoveParts
  BY <1>11 DEF RemoveParts, ghosts, ClaimsUsed
<1>12. CASE Return
  <2>1. CASE RenameBack
    BY <1>12, <2>1, RenamedBack DEF Return, Answer, Claimed
  <2>2. CASE claims' = {c \in claims : c.dir # comp.dir}
    BY <1>12, <2>2 DEF Return, Answer, ClaimsUsed
  <2> QED BY <1>12, <2>1, <2>2 DEF Return
<1>13. CASE CompleteFails
  BY <1>13, RenamedBack DEF CompleteFails, ghosts, Claimed
<1>14. CASE Crash
  BY <1>14 DEF Crash, ClaimsUsed
<1>15. ASSUME NEW u \in Uploaders, UploadPart(u) \/ UploadPartCopy(u) \/ LoadPart(u) \/ CopySource(u)
                \/ ReceivePart(u) \/ CopyData(u) \/ LinkRename(u) \/ LinkOpen(u) \/ LinkAt(u)
                   PROVE ClaimsUsed'
  BY <1>15 DEF UploadPart, StatUpload, UploadPartCopy, LoadPart, NotUploads, CopySource,
     ReceivePart, CopyData, LinkRename, LinkOpen, LinkAt, ghosts, ClaimsUsed
<1>16. CASE StoreAttribute \/ CreateFails \/ ListParts \/ Abort \/ AbortOpen \/ AbortRemove \/ AbortRmdir
              \/ OtherWriter \/ UNCHANGED vars
  BY <1>16 DEF StoreAttribute, CreateFails, ListParts, Abort, AbortOpen, AbortRemove, AbortRmdir,
     OtherWriter, vars, ghosts, ClaimsUsed
<1> QED
  BY <1>1, <1>2, <1>3, <1>4, <1>5, <1>6, <1>7, <1>8, <1>9, <1>10, <1>11, <1>12, <1>13, <1>14,
     <1>15, <1>16 DEF Next, Create, Upload, Complete, AbortUpload

\* Every step preserves UploadListed: a completion that fails gives the name back.
LEMMA UploadListedNext ==
  ASSUME TypeOK, UploadListed, OneName, Requests, [Next]_vars PROVE UploadListed'
<1> USE MultipartAssumption DEF TypeOK, UploadListed, Visible, Requests, OneName, Claimed
<1>1. CASE CreateUpload
  BY <1>1 DEF CreateUpload
<1>2. CASE StoreAttribute
  BY <1>2 DEF StoreAttribute
<1>3. CASE CreateFails
  BY <1>3 DEF CreateFails
<1>4. ASSUME NEW u \in Uploaders, LinkMkdir(u) PROVE UploadListed'
  BY <1>4 DEF LinkMkdir, NoComp
<1>5. CASE StartComplete
  BY <1>5 DEF StartComplete, Lists, ghosts
<1>6. CASE LoadUpload \/ LookForClaim
  BY <1>6, LookStep DEF upload, ghosts
<1>7. CASE Claim
  BY <1>7 DEF Claim, ClaimsOf, CompleteRecords
<1>8. CASE ClaimMissing
  BY <1>8 DEF ClaimMissing, Answer, upload
<1>9. CASE InvalidPart
  BY <1>9 DEF InvalidPart, RenameBack
<1>10. CASE CheckParts
  BY <1>10 DEF CheckParts
<1>11. CASE CopyPart
  BY <1>11 DEF CopyPart, RenameBack, Uncopied, CompleteRecords
<1>12. CASE LinkObject
  BY <1>12 DEF LinkObject, Uncopied
<1>13. CASE RemoveParts
  BY <1>13 DEF RemoveParts
<1>14. CASE Return
  BY <1>14 DEF Return, Answer
<1>15. CASE CompleteFails
  BY <1>15 DEF CompleteFails, RenameBack
<1>16. CASE Abort
  BY <1>16 DEF Abort
<1>17. CASE AbortRmdir
  BY <1>17 DEF AbortRmdir, ghosts
<1>18. CASE Crash
  BY <1>18 DEF Crash
<1>19. ASSUME NEW u \in Uploaders, UploadPart(u) \/ UploadPartCopy(u) \/ LoadPart(u) \/ CopySource(u)
                \/ ReceivePart(u) \/ CopyData(u) \/ LinkRename(u) \/ LinkOpen(u) \/ LinkAt(u)
                   PROVE UploadListed'
  BY <1>19 DEF UploadPart, StatUpload, UploadPartCopy, LoadPart, NotUploads, CopySource,
     ReceivePart, CopyData, LinkRename, LinkOpen, LinkAt, upload, ghosts
<1>20. CASE ListParts \/ AbortOpen \/ AbortRemove \/ OtherWriter \/ UNCHANGED vars
  BY <1>20 DEF ListParts, AbortOpen, AbortRemove, OtherWriter, vars, upload, ghosts
<1> QED
  BY <1>1, <1>2, <1>3, <1>4, <1>5, <1>6, <1>7, <1>8, <1>9, <1>10, <1>11, <1>12, <1>13, <1>14,
     <1>15, <1>16, <1>17, <1>18, <1>19, <1>20 DEF Next, Create, Upload, Complete, AbortUpload

\* Every step preserves AnsweredIsStored: a completion that finds no upload takes it for
\* completed, and by UploadListed it is.
LEMMA AnsweredNext ==
  ASSUME TypeOK, AnsweredIsStored, UploadListed, Unused, Requests, [Next]_vars PROVE AnsweredIsStored'
<1> USE MultipartAssumption DEF TypeOK, AnsweredIsStored, Requests, Unused, UploadListed, Visible,
      Claimed
<1>1. CASE ClaimMissing
  BY <1>1 DEF ClaimMissing, NoComp, Answer
<1>2. CASE LinkObject
  BY <1>2 DEF LinkObject, Uncopied
<1>3. CASE Return
  BY <1>3 DEF Return, Answer
<1>4. CASE Abort
  BY <1>4 DEF Abort
<1>5. CASE Crash
  BY <1>5 DEF Crash
<1>6. ASSUME NEW u \in Uploaders, UploadPart(u) \/ UploadPartCopy(u) \/ LoadPart(u) \/ CopySource(u)
               \/ ReceivePart(u) \/ CopyData(u) \/ LinkMkdir(u) \/ LinkRename(u) \/ LinkOpen(u)
                    \/ LinkAt(u) PROVE AnsweredIsStored'
  BY <1>6 DEF UploadPart, StatUpload, UploadPartCopy, LoadPart, NotUploads, CopySource,
     ReceivePart, CopyData, LinkMkdir, LinkRename, LinkOpen, LinkAt, ghosts
<1>7. CASE CreateUpload \/ StoreAttribute \/ CreateFails \/ ListParts \/ StartComplete \/ LoadUpload
             \/ LookForClaim \/ Claim \/ InvalidPart \/ CheckParts \/ CopyPart \/ RemoveParts \/ CompleteFails
                  \/ AbortOpen \/ AbortRemove \/ AbortRmdir \/ OtherWriter \/ UNCHANGED vars
  BY <1>7 DEF CreateUpload, StoreAttribute, CreateFails, ListParts, StartComplete, LoadUpload,
     LookForClaim, Claim, InvalidPart, CheckParts, CopyPart, RemoveParts, CompleteFails, AbortOpen, AbortRemove,
     AbortRmdir, OtherWriter, vars, ghosts
<1> QED BY <1>1, <1>2, <1>3, <1>4, <1>5, <1>6, <1>7 DEF Next, Create, Upload, Complete, AbortUpload

\* Every step preserves CheckedKept, if no linkat is under way in the directory that is
\* claimed.
LEMMA CheckedNext ==
  ASSUME TypeOK, CheckedKept, Requests, OneName, OTmpfile \subseteq Patient, [Next]_vars
  PROVE CheckedKept'
<1> USE MultipartAssumption DEF TypeOK, CheckedKept, AssembledAsListed, Claimed
<1>1. ASSUME NEW u \in Uploaders, LinkRename(u) PROVE CheckedKept'
  BY <1>1 DEF LinkRename, PutPart, Requests, OneName
<1>2. ASSUME NEW u \in Uploaders, LinkAt(u) PROVE CheckedKept'
  <2>1. u \in Patient
    BY <1>2 DEF LinkAt, Requests
  <2>2. comp = NoComp
    BY <1>2, <2>1 DEF LinkAt, Requests, PatientDone, NoUp
  <2> QED BY <1>2, <2>2 DEF LinkAt, NoComp
<1>3. CASE StartComplete
  BY <1>3 DEF StartComplete, Lists, Requests, OneName
<1>4. CASE LoadUpload \/ LookForClaim
  BY <1>4, LookStep DEF NoComp, Requests, OneName
<1>5. CASE Claim
  <2>1. CASE comp' = NoComp
    BY <2>1 DEF NoComp
  <2>2. CASE comp' = [comp EXCEPT !.pc = "check", !.dir = named]
    <3>1. comp'.pc = "check"
      BY <2>2
    <3> QED BY <3>1
  <2> QED BY <1>5, <2>1, <2>2 DEF Claim
<1>6. CASE ClaimMissing
  BY <1>6 DEF ClaimMissing, NoComp, Answer, Requests, OneName
<1>7. CASE InvalidPart
  BY <1>7 DEF InvalidPart, NoComp, Requests, OneName
<1>8. CASE CheckParts
  <2>1. comp'.pc = "copy" /\ comp'.list = comp.list /\ comp'.body = Empty /\ comp'.dir = comp.dir
          /\ dirs' = dirs
    BY <1>8 DEF CheckParts, Requests
  <2>2. ASSUME NEW p \in Parts, comp.list[p] # 0 PROVE dirs[comp.dir][p] = comp.list[p]
    BY <1>8, <2>2 DEF CheckParts, Refuses, Listed, PartRefused
  <2> QED BY <2>1, <2>2, EmptyAt
<1>9. CASE CopyPart
  <2>1. CASE comp' = NoComp
    BY <2>1 DEF NoComp
  <2>2. CASE comp' = [comp EXCEPT !.body[NextPart] = dirs[comp.dir][NextPart]]
    <3>1. comp'.pc = comp.pc /\ comp'.list = comp.list /\ comp'.dir = comp.dir
      BY <2>2
    <3>2. \A p \in Parts : comp'.body[p] = IF p = NextPart THEN dirs[comp.dir][NextPart]
            ELSE comp.body[p]
      BY <2>2, Fields DEF Bodies
    <3>3. NextPart \in Parts /\ comp.list[NextPart] # 0
      BY <1>9, NextPartUncopied DEF CopyPart, Uncopied
    <3> QED BY <1>9, <3>1, <3>2, <3>3 DEF CopyPart
  <2> QED BY <1>9, <2>1, <2>2 DEF CopyPart
<1>10. CASE LinkObject
  <2>1. comp'.pc = "remove" /\ comp'.list = comp.list /\ comp'.body = comp.body
    BY <1>10 DEF LinkObject
  <2>2. \A p \in Parts : comp.body[p] = comp.list[p]
    BY <1>10 DEF LinkObject, Uncopied
  <2>3. comp.body \in Bodies /\ comp.list \in Bodies
    BY Fields
  <2>4. comp.body = comp.list
    BY <2>2, <2>3 DEF Bodies
  <2> QED BY <2>1, <2>4
<1>11. CASE RemoveParts
  BY <1>11 DEF RemoveParts, Requests, OneName
<1>12. CASE Return
  BY <1>12 DEF Return, NoComp, Answer, Requests, OneName
<1>13. CASE CompleteFails
  BY <1>13 DEF CompleteFails, NoComp, Requests, OneName
<1>14. CASE AbortRemove
  <2>1. \A d \in Dirs, p \in Parts : dirs'[d][p] \in {0, dirs[d][p]}
    <3>1. CASE dirs' = dirs
      BY <3>1
    <3>2. ASSUME NEW q \in Parts, dirs' = [dirs EXCEPT ![ab.dir][q] = 0]
          PROVE  \A d \in Dirs, p \in Parts : dirs'[d][p] \in {0, dirs[d][p]}
      BY <3>2 DEF Bodies
    <3> QED BY <1>14, <3>1, <3>2 DEF AbortRemove
  <2>2. comp' = comp /\ (comp.pc = "copy" => comp.dir \in Dirs)
    BY <1>14, Fields DEF AbortRemove, Requests, Dirs
  <2> QED BY <2>1, <2>2
<1>15. CASE Crash
  BY <1>15 DEF Crash, NoComp, Requests, OneName
<1>16. ASSUME NEW u \in Uploaders, UploadPart(u) \/ UploadPartCopy(u) \/ LoadPart(u) \/ CopySource(u)
                \/ ReceivePart(u) \/ CopyData(u) \/ LinkMkdir(u) \/ LinkOpen(u) PROVE CheckedKept'
  BY <1>16 DEF UploadPart, StatUpload, UploadPartCopy, LoadPart, NotUploads, CopySource,
     ReceivePart, CopyData, LinkMkdir, LinkOpen
<1>17. CASE CreateUpload \/ StoreAttribute \/ CreateFails \/ ListParts \/ Abort \/ AbortOpen
              \/ AbortRmdir \/ OtherWriter \/ UNCHANGED vars
  BY <1>17 DEF CreateUpload, StoreAttribute, CreateFails, ListParts, Abort, AbortOpen, AbortRmdir,
     OtherWriter, vars
<1> QED
  BY <1>1, <1>2, <1>3, <1>4, <1>5, <1>6, <1>7, <1>8, <1>9, <1>10, <1>11, <1>12, <1>13, <1>14,
     <1>15, <1>16, <1>17 DEF Next, Create, Upload, Complete, AbortUpload

----------------------------------------------------------------------------
\* With no content, no part and no uploader at work there is nothing OneContent could
\* find twice.
LEMMA NoContent ==
  ASSUME n = 0, \A u \in Uploaders : up[u].pc = "idle",
         \A d \in Dirs, p \in Parts : dirs[d][p] = 0, \A p \in Parts : comp.body[p] = 0
  PROVE  OneContent
<1>1. /\ \A d \in Dirs, p \in Parts : dirs[d][p] <= n
      /\ \A p \in Parts : comp.body[p] <= n
  BY SMT
<1>2. \A u \in Uploaders : ~(up[u].pc # "idle")
  BY Zenon
<1> QED BY <1>1, <1>2, Zenon DEF OneContent

\* The invariant holds initially.
LEMMA InitIInv == Init => IInvPatient
<1> SUFFICES ASSUME Init PROVE IInvPatient
  OBVIOUS
<1> USE MultipartAssumption, EmptyBody, NoRequests, EmptyAt, Zero DEF Init
<1>1. TypeOK
  <2>1. NoKind \in Kinds
    BY DEF NoKind, Kinds
  <2>2. n \in Contents /\ named \in 0..MaxDirs /\ made \in 0..MaxDirs /\ faults \in 0..MaxFaults
    OBVIOUS
  <2>3. attrs \in [Dirs -> SUBSET Attributes] /\ kind \in [1..MaxContents -> Kinds]
          /\ opts \subseteq Attributes
    BY <2>1
  <2>4. dirs \in [Dirs -> Bodies] /\ up \in [Uploaders -> UploadRecords]
          /\ obj \in Bodies \cup {Foreign}
    OBVIOUS
  <2> QED BY <2>2, <2>3, <2>4 DEF TypeOK
<1>2. OneName /\ AttrsStored /\ Unused
  BY DEF OneName, AttrsStored, Unused, NoComp
<1>3. Requests
  BY DEF Requests, NoUp, NoComp, NoAb, Claimed
<1>4. OneContent
  <2>1. \A u \in Uploaders : up[u].pc = "idle"
    BY DEF NoUp
  <2>2. /\ \A d \in Dirs, p \in Parts : dirs[d][p] = 0
        /\ \A p \in Parts : comp.body[p] = 0
    BY Zenon
  <2>3. n = 0
    OBVIOUS
  <2> QED BY <2>1, <2>2, <2>3, NoContent, Zenon
<1>5. EncryptedAsAsked /\ CheckedKept
  <2>1. comp.pc = "idle" /\ \A p \in Parts : comp.body[p] = 0
    BY DEF NoComp
  <2>2. \A c \in 1..MaxContents : ~kind[c].enc
    BY DEF NoKind
  <2> QED BY <2>1, <2>2 DEF EncryptedAsAsked, CheckedKept, AssembledAsListed, Claimed
<1>6. SumsStored /\ ToldCompletes
  <2>1. \A u \in Uploaders : up[u].pc = "idle"
    BY DEF NoUp
  <2>2. \A c \in 1..MaxContents : ~kind[c].sum
    BY DEF NoKind
  <2>3. (\A d \in Dirs, p \in Parts : dirs[d][p] = 0) /\ ~refused
    BY Zenon
  <2> HIDE DEF Init
  <2> QED BY <2>1, <2>2, <2>3 DEF SumsStored, ToldCompletes
<1>7. ClaimsUsed /\ PartsStored /\ UploadListed /\ AnsweredIsStored
  BY DEF ClaimsUsed, PartsStored, UploadListed, AnsweredIsStored
<1> QED BY <1>1, <1>2, <1>3, <1>4, <1>5, <1>6, <1>7 DEF IInvPatient, IInv

\* Every step preserves the invariant.
LEMMA NextIInv == IInv /\ [Next]_vars => IInv'
BY TypeNext, OneNameNext, AttrsNext, UnusedNext, RequestsNext, ContentNext, EncryptedNext,
   SumsNext, ToldNext, ClaimsUsedNext, PartsStoredNext, UploadListedNext, AnsweredNext DEF IInv

\* IInv holds in every reachable state, whatever the clients do.
THEOREM InductiveInvariant == Spec => []IInv
<1>1. Init => IInv
  BY InitIInv DEF IInvPatient
<1> QED BY <1>1, NextIInv, PTL DEF Spec

\* Every variable keeps its type.
THEOREM TypeCorrect == Spec => []TypeOK
<1>1. IInv => TypeOK
  BY DEF IInv
<1> QED BY <1>1, InductiveInvariant, PTL

\* Until the object is made the parts the client was told of are under the upload's
\* name or in the directory a completion works on, the upload is listed and no
\* completion is answered with success, for any number of parts, requests, I/O errors
\* and crashes at any step of CompleteMultipartUpload (after a crash, or when a late
\* part made another directory, parts may be left under the name of a claim).
THEOREM PartsSurvive == Spec => []UploadKept
<1>1. IInv => PartsKept
  <2> SUFFICES ASSUME IInv PROVE PartsKept
    OBVIOUS
  <2>1. CASE crashed \/ made > 1
    BY <2>1 DEF IInv, PartsStored, PartsKept
  <2>2. CASE ~crashed /\ ~(made > 1)
    <3>1. made \in {0, 1}
      BY <2>2, MultipartAssumption DEF IInv, TypeOK
    <3>2. made = 0 => acked = Empty
      BY DEF IInv, OneName, Unused
    <3>3. made = 1 => \A d \in Dirs : Linked(d) => d \in {named, comp.dir}
      BY <2>2 DEF IInv, ClaimsUsed, Linked
    <3> QED BY <3>1, <3>2, <3>3, EmptyAt DEF IInv, PartsStored, PartsKept
  <2> QED BY <2>1, <2>2
<1>2. IInv => UploadKept
  BY <1>1 DEF IInv, UploadKept
<1> QED BY <1>2, InductiveInvariant, PTL

\* A completion whose client lists the checksums it was answered, or those of the
\* algorithm it created the upload with, is not turned down, for any number of parts,
\* of requests that store them, and of directories made by late ones; unless, in an
\* upload without an algorithm, an answered checksum that was not stored is listed.
THEOREM CompletionAccepted == Spec => []ToldCompletes
<1>1. IInv => ToldCompletes
  BY DEF IInv
<1> QED BY <1>1, InductiveInvariant, PTL

\* The first directory has the attributes the upload was created with, and the object
\* its encryption.
LEMMA AskedFor == IInv => CreatedAsAsked
<1> SUFFICES ASSUME IInv, comp.pc \in {"remove", "return"}, made = 1
             PROVE  /\ attrs[comp.dir] = opts
                    /\ comp.enc = loadMultipartEncryption(opts)
                    /\ \A p \in Listed : kind[comp.body[p]].enc = comp.enc
  BY DEF CreatedAsAsked
<1> USE DEF IInv
<1>1. create = "done"
  BY DEF Unused, NoComp
<1>2. comp.dir = 1
  BY Fields DEF OneName, Requests, Claimed
<1>3. attrs[comp.dir] = opts
  BY <1>1, <1>2 DEF AttrsStored
<1>4. comp.enc = loadMultipartEncryption(opts)
  BY DEF EncryptedAsAsked, Claimed
<1>5. ASSUME NEW p \in Listed PROVE kind[comp.body[p]].enc = comp.enc
  <2>1. p \in Parts /\ comp.body[p] # 0
    BY DEF Listed, Requests, Uncopied
  <2>2. comp.body[p] \in 1..MaxContents
    BY <2>1, Fields, MultipartAssumption DEF Contents
  <2>3. kind[comp.body[p]].enc \in BOOLEAN /\ comp.enc \in BOOLEAN
    BY <2>2, Fields DEF TypeOK, Kinds
  <2> QED BY <1>4, <2>1, <2>2, <2>3 DEF EncryptedAsAsked
<1> QED BY <1>3, <1>4, <1>5

\* The object has the attributes and the encryption the upload was created with,
\* whatever the clients do: ObjectAsAsked without a condition but for its first part.
THEOREM EncryptionAsAsked == Spec => []CreatedAsAsked
BY InductiveInvariant, AskedFor, PTL

\* The object is made of the parts that were listed and as it was asked for, if no
\* client completes an upload while a part of it is between open and linkat: such a
\* part lands in the claimed directory.
THEOREM ObjectCorrect == OTmpfile \subseteq Patient => (Spec => []ObjectAsAsked)
<1> SUFFICES ASSUME OTmpfile \subseteq Patient PROVE Spec => []ObjectAsAsked
  OBVIOUS
<1>1. IInvPatient /\ [Next]_vars => IInvPatient'
  BY NextIInv, CheckedNext DEF IInvPatient, IInv
<1>2. IInvPatient => ObjectAsAsked
  BY AskedFor DEF IInvPatient, CheckedKept, ObjectAsAsked
<1> QED BY <1>1, <1>2, InitIInv, PTL DEF Spec
=============================================================================
