------------------------------- MODULE Listing -------------------------------
(***************************************************************************)
(* A client that lists a bucket of the POSIX backend page by page, with       *)
(* ListObjects, ListObjectsV2 or ListObjectVersions, while others store and   *)
(* delete objects between two pages.  Nothing is kept for the client: each    *)
(* page is found from the marker of the one before.                          *)
(***************************************************************************)
EXTENDS VersionWalk

CONSTANTS Keys,        \* object keys; one that ends in "/" is a directory object
          Buckets,     \* Buckets[kind]: what keys may have before a listing of that kind
          Requests,    \* requests: kind, prefix, delim, max and the marker to start after
          MaxChanges,  \* MaxChanges[kind]: bound on objects stored and deleted meanwhile
          MaxPages     \* bound on the pages that are asked for

ASSUME ListingAssumption == /\ MaxPages \in Nat /\ \A r \in Requests : MaxChanges[r.kind] \in Nat
                            /\ \A r \in Requests : r.max \in Nat \ {0}

VARIABLES req,      \* the request
          bucket,   \* key -> its versions, the current one first
          marker,   \* the marker of the next page: a key and a version ID
          out,      \* the entries of all pages so far
          pages,    \* how many those were
          done,     \* whether the last one was not truncated
          changes,
          stable,   \* the keys that were listable all the time
          lived,    \* the keys that were listable at some time
          seen,     \* the keys that were there at some time, be it as a delete marker
          same,     \* version listing: the keys whose versions did not change
          fit       \* version listing: nothing happened that ListObjectVersions does not bear

history == <<stable, lived, seen, same, fit>>
vars == <<req, bucket, marker, out, pages, done, changes, history>>

IsDirKey(k) == k[Len(k)] = SEP
Present(b) == {k \in Keys : b[k] # <<>>}
Live(b) == {k \in Present(b) : ~Head(b[k]).del}

\* A directory is there as long as something is in it, or it is an object itself:
\* removeParents.
Ancestors(k) == {SubSeq(k, 1, i - 1) : i \in Slashes(k)}
Dirs(b) == UNION {Ancestors(k) : k \in Present(b)} \cup {Tmp}

TreeOf(b) == LET files == {k \in Present(b) : ~IsDirKey(k)}
             IN  [files |-> files, dirs |-> Dirs(b), dirobjs |-> {k \in Present(b) : IsDirKey(k)},
                  deleted |-> files \ Live(b), versions |-> b]

\* What ListObjectVersions does not bear: a page that ends at a directory object
\* lists it again, one that ends at a null version that is not current again and
\* again.
Bearable(b) == \A k \in Present(b) : ~IsDirKey(k) /\ \A i \in 2..Len(b[k]) : b[k][i].id # NullId

Init == /\ req \in Requests
        /\ bucket \in Buckets[req.kind]
        /\ marker = [key |-> req.startAfter, id |-> NoId]
        /\ out = <<>> /\ pages = 0 /\ done = FALSE /\ changes = 0
        /\ stable = Live(bucket) /\ lived = Live(bucket) /\ seen = Present(bucket)
        /\ same = Keys /\ fit = Bearable(bucket)

Query == [prefix |-> req.prefix, delim |-> req.delim, max |-> req.max, marker |-> marker.key, idMarker |-> marker.id]

Page == With(TreeOf(bucket),
             LAMBDA tree : With(Query, LAMBDA q : IF req.kind = "objects" THEN Walk(tree, q) ELSE WalkVersions(tree, q)))

Lists == req.kind = "objects"
NewId == 50       \* IDs of versions that are newer than all others
NewMarker == 60

Asks(kind) == ~done /\ pages < MaxPages /\ req.kind = kind

Answers(page, id) == /\ out' = out \o page.out
                     /\ marker' = [key |-> page.newMarker, id |-> id]
                     /\ done' = ~page.truncated
                     /\ pages' = pages + 1
                     /\ UNCHANGED <<req, bucket, changes, history>>

ListObjects == Asks("objects") /\ \E page \in {Page} : Answers(page, NoId)

ListObjectVersions == Asks("versions") /\ \E page \in {Page} : Answers(page, page.newIdMarker)

\* The version at which the last page ended is looked for from the key on.
MarkerFound(b) == \/ marker.id = NoId
                  \/ marker.key \in Keys /\ \E i \in DOMAIN b[marker.key] : b[marker.key][i].id = marker.id

\* PutObject and DeleteObject between two pages.
Change(k, vs) == /\ ~done /\ pages > 0 /\ changes < MaxChanges[req.kind]
                 /\ changes' = changes + 1
                 /\ bucket' = [bucket EXCEPT ![k] = vs]
                 /\ stable' = stable \cap Live(bucket')
                 /\ lived' = lived \cup Live(bucket')
                 /\ seen' = seen \cup Present(bucket')
                 /\ same' = IF req.kind = "objects" THEN same ELSE same \ {k}
                 /\ fit' = (fit /\ Bearable(bucket') /\ MarkerFound(bucket'))
                 /\ UNCHANGED <<req, marker, out, pages, done>>

Put(k) == bucket[k] = <<>> /\ Change(k, <<[id |-> NullId, del |-> FALSE]>>)
PutVersion(k) == /\ ~Lists /\ ~IsDirKey(k) /\ \A i \in DOMAIN bucket[k] : bucket[k][i].id # NewId
                 /\ Change(k, <<[id |-> NewId, del |-> FALSE]>> \o bucket[k])
Delete(k) == bucket[k] # <<>> /\ Change(k, <<>>)
DeleteMarker(k) == /\ k \in Live(bucket) /\ ~IsDirKey(k)
                   /\ Change(k, <<[id |-> NewMarker, del |-> TRUE]>> \o bucket[k])

Next == \/ ListObjects \/ ListObjectVersions
        \/ \E k \in Keys : Put(k) \/ PutVersion(k) \/ Delete(k) \/ DeleteMarker(k)

Spec == Init /\ [][Next]_vars

----------------------------------------------------------------------------
TypeOK == /\ req \in Requests
          /\ \A k \in Keys : \A i \in DOMAIN bucket[k] : bucket[k][i].id \in Nat /\ bucket[k][i].del \in BOOLEAN
          /\ marker.id \in Nat /\ \A i \in DOMAIN marker.key : marker.key[i] \in 1..3
          /\ pages \in 0..MaxPages /\ done \in BOOLEAN /\ changes \in 0..MaxChanges[req.kind]
          /\ same \subseteq Keys /\ fit \in BOOLEAN
          /\ stable \subseteq lived /\ lived \subseteq seen /\ seen \subseteq Keys

Wanted(k) == IsPrefix(req.prefix, k) /\ Before(req.startAfter, k)

\* What stands for a key in a listing of objects.
Q == [prefix |-> req.prefix, delim |-> req.delim, max |-> req.max, marker |-> <<>>]
Stands(k) == IF RollsUp(Q, k) THEN [key |-> CommonPrefix(Q, k), cp |-> TRUE] ELSE [key |-> k, cp |-> FALSE]

\* The entries of all pages are in the order of their names and none comes twice,
\* whatever is stored and deleted between pages.
InOrder == Lists => \A i \in 1..Len(out) - 1 : Before(out[i].key, out[i + 1].key)

\* A key that is there from the first page to the last is listed, or its common
\* prefix is, however the tree around it changes between pages: no directory is
\* passed over for the marker.
NothingMissed ==
  Lists /\ done => \A k \in stable : Wanted(k) =>
    \/ Contains(out, Stands(k))
    \/ RollsUp(Q, k) /\ ~Before(req.startAfter, CommonPrefix(Q, k))

\* Nothing is listed that was not there during the listing, and no key whose
\* current version was a delete marker all the time (a common prefix may stand
\* for nothing else).
NothingInvented ==
  Lists => \A i \in DOMAIN out : \E k \in IF out[i].cp THEN seen ELSE lived : Wanted(k) /\ out[i] = Stands(k)

\* A page that says there is more has as many entries as were asked for, and no
\* page has more: with InOrder and NothingInvented, a client that goes on asking
\* comes to the last page.
PagesFull == Lists => IF done THEN Len(out) <= pages * req.max ELSE Len(out) = pages * req.max

\* The pages of ListObjects hold what is there, each entry once and in order, and
\* come to an end: InOrder, NothingInvented and PagesFull.
PagesRight == InOrder /\ NothingInvented /\ PagesFull

----------------------------------------------------------------------------
(* ListObjectVersions is right for a listing without a delimiter, as long as `fit`: *)
(* of a version that is deleted after a page ended at it, the walk finds no end,    *)
(* and leaves out every key that follows.                                           *)

PlainVersions == ~Lists /\ fit /\ req.delim = <<>>

RECURSIVE AllVersions(_)
AllVersions(ks) == IF ks = <<>> THEN <<>>
                   ELSE [i \in DOMAIN bucket[Head(ks)] |-> Entry(Head(ks), bucket[Head(ks)][i])] \o AllVersions(Tail(ks))

\* The pages of a version listing, put together, are every version of every key
\* that does not change once, the keys in order and the versions of each from the
\* newest on, wherever the pages end and whatever is stored and deleted around them;
\* and a page that says there is more is full.
VersionsListed ==
  PlainVersions =>
    LET all == AllVersions(SetToSortSeq({k \in same \cap Present(bucket) : IsPrefix(req.prefix, k)}, Before))
        listed == SelectSeq(out, LAMBDA e : e.key \in same)
    IN  IF done THEN listed = all ELSE IsPrefix(listed, all) /\ Len(out) = pages * req.max
=============================================================================
