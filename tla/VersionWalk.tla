----------------------------- MODULE VersionWalk -----------------------------
(***************************************************************************)
(* ListObjectVersions: WalkVersions of backend/walk.go over the directory    *)
(* tree, and fileToObjVersions of backend/posix/posix.go over the versions   *)
(* of one key.  tree.versions gives the versions of a file, the current one  *)
(* first and the others from the newest to the oldest, each with its ID and   *)
(* whether it is a delete marker; the null version has the ID 0.             *)
(***************************************************************************)
EXTENDS WalkRules

NullId == 0
NoId == 99       \* no version ID marker

\* The page so far; `past` and `pastId`: the key and version markers were met.
EmptyVersions(q) == [out |-> <<>>, past |-> q.marker = <<>>, pastId |-> q.idMarker = NoId,
                     truncated |-> FALSE, newMarker |-> <<>>, newIdMarker |-> NoId]

Entry(key, v) == [key |-> key, cp |-> FALSE, id |-> v.id, del |-> v.del]

Stop(w, key, id) == [w EXCEPT !.truncated = TRUE, !.newMarker = key, !.newIdMarker = id]

\* One more version is listed, and the page may be full.
AddVersion(q, w, key, v) ==
  With(Append(w.out, Entry(key, v)),
       LAMBDA out : IF Len(out) = q.max THEN [Stop(w, key, v.id) EXCEPT !.out = out] ELSE [w EXCEPT !.out = out])

\* The null version is among the others by its time, and is listed wherever the
\* marker is.
AlwaysListed(v) == v.id = NullId

RECURSIVE NoncurrentVersions(_, _, _, _)

\* The versions behind the current one: those up to the marker are left out, but
\* for the null version.
NoncurrentVersions(q, w, key, vs) ==
  IF vs = <<>> \/ w.truncated THEN w
  ELSE LET v == Head(vs)
       IN  With(IF AlwaysListed(v) \/ w.pastId THEN AddVersion(q, w, key, v)
                ELSE [w EXCEPT !.pastId = v.id = q.idMarker],
                LAMBDA listed : NoncurrentVersions(q, listed, key, Tail(vs)))

\* Mutant: the version of the marker is listed again.
CurrentVersionAgain(q, w, key, v) ==
  LET here == w.pastId \/ v.id = q.idMarker
  IN  IF here THEN AddVersion(q, [w EXCEPT !.pastId = TRUE], key, v) ELSE w

\* The current version is left out up to the marker, which it may be itself.
CurrentVersion(q, w, key, v) ==
  IF w.pastId THEN AddVersion(q, w, key, v) ELSE [w EXCEPT !.pastId = v.id = q.idMarker]

\* A directory object has one version and no marker of its own.
DirVersion(tree, q, w, path) ==
  IF path \o <<SEP>> \notin tree.dirobjs THEN w
  ELSE With(AddVersion(q, w, path \o <<SEP>>, [id |-> NullId, del |-> FALSE]),
            LAMBDA listed : IF listed.truncated THEN [listed EXCEPT !.newMarker = path, !.newIdMarker = NoId] ELSE listed)

fileToObjVersions(tree, q, w, path) ==
  IF Len(w.out) >= q.max THEN Stop(w, path, NoId)
  ELSE IF path \in tree.dirs THEN DirVersion(tree, q, w, path)
  ELSE With(CurrentVersion(q, w, path, Head(tree.versions[path])),
            LAMBDA listed : NoncurrentVersions(q, listed, path, Tail(tree.versions[path])))

----------------------------------------------------------------------------
AddPrefix(w, p) == LET e == [key |-> p, cp |-> TRUE, id |-> NoId, del |-> FALSE]
                   IN  IF Contains(w.out, e) THEN w ELSE [w EXCEPT !.out = Append(@, e)]

\* The files of the page that count to its size when a prefix is added: delete
\* markers do not.
Sized(w) == Cardinality({i \in DOMAIN w.out : ~w.out[i].del})

VisitFile(tree, q, w, path) ==
  IF ~IsPrefix(q.prefix, path) THEN w
  ELSE IF ~RollsUp(q, path) THEN fileToObjVersions(tree, q, w, path)
  ELSE With(AddPrefix(w, CommonPrefix(q, path)),
            LAMBDA listed : IF Sized(listed) = q.max THEN Stop(listed, path, NoId) ELSE listed)

\* A directory is left out, rolled up, passed on the way to the prefix, or listed;
\* the walk goes into it in the last two cases.
VisitDir(tree, q, w, path) ==
  LET name == path \o <<SEP>>
  IN  CASE ~IsPrefix(q.prefix, name) /\ ~IsPrefix(name, q.prefix) -> [w |-> w, into |-> FALSE]
        [] q.delim = <<SEP>> /\ q.prefix # name /\ IsPrefix(q.prefix, name) ->
             [w |-> AddPrefix(w, name), into |-> FALSE]
        [] IsPrefix(name, q.prefix) /\ name # q.prefix -> [w |-> w, into |-> TRUE]
        [] OTHER -> [w |-> fileToObjVersions(tree, q, w, path), into |-> TRUE]

\* The names of a directory, those of directories as if they ended in "/".
SortedNames(tree, path) ==
  LET Name(n) == IF makeFullObjectName(path, n) \in tree.dirs THEN n \o <<SEP>> ELSE n
      Less(a, b) == Before(Name(a), Name(b))
  IN  SortSeq(ReadDirNames(tree, path), Less)

RECURSIVE walkDir(_, _, _, _, _)

\* Whether a name is looked at: from the marker on.
BeyondMarker(q, w, path) == w.past \/ ~Before(path, q.marker)

Visited(tree, q, w, path) ==
  IF ~BeyondMarker(q, w, path) THEN [w |-> w, into |-> path \in tree.dirs]
  ELSE With([w EXCEPT !.past = @ \/ path = q.marker],
            LAMBDA met : IF path \in tree.dirs THEN VisitDir(tree, q, met, path)
                         ELSE [w |-> VisitFile(tree, q, met, path), into |-> FALSE])

Visit(tree, q, w, path) ==
  With(Visited(tree, q, w, path),
       LAMBDA r : IF r.w.truncated \/ ~r.into THEN r.w ELSE walkDir(tree, q, r.w, path, SortedNames(tree, path)))

walkDir(tree, q, w, path, names) ==
  IF names = <<>> \/ w.truncated THEN w
  ELSE IF Head(names) = Tmp THEN walkDir(tree, q, w, path, Tail(names))
  ELSE With(Visit(tree, q, w, makeFullObjectName(path, Head(names))),
            LAMBDA listed : walkDir(tree, q, listed, path, Tail(names)))

WalkVersions(tree, q) == walkDir(tree, q, EmptyVersions(q), <<>>, SortedNames(tree, <<>>))
=============================================================================
