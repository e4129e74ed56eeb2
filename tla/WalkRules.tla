----------------------------- MODULE WalkRules -----------------------------
(***************************************************************************)
(* backend/walk.go: how Walk turns a directory tree into one page of a      *)
(* listing.  Names are compared character by character, and a directory     *)
(* sorts as if its name ended in "/" though the file system sorts it without *)
(* it: what matters of a character is its order and whether it is that one.  *)
(*                                                                         *)
(* A tree is a record: its files, its directories, the directories that are  *)
(* objects themselves and the files that are delete markers.  A request has  *)
(* a prefix, a delimiter (empty for none), the marker of the page before and *)
(* the most entries a page may have.                                        *)
(***************************************************************************)
EXTENDS Naturals, Sequences, SequencesExt, FiniteSets

SEP == 2                  \* "/"; 1 is a character before it, such as ".", 3 one after it
Tmp == <<1>>              \* MetaTmpDir

\* The order of Go strings.
Before(a, b) == \E i \in 0..Len(a) :
                  /\ i < Len(b) /\ SubSeq(a, 1, i) = SubSeq(b, 1, i)
                  /\ i = Len(a) \/ a[i + 1] < b[i + 1]

\* F(x), with x evaluated once.
With(x, F(_)) == CHOOSE y \in {F(z) : z \in {x}} : TRUE

makeFullObjectName(path, name) == IF path = <<>> THEN name ELSE path \o <<SEP>> \o name

Slashes(s) == {i \in DOMAIN s : s[i] = SEP}
Greatest(S) == CHOOSE i \in S : \A j \in S : j <= i
Least(S) == CHOOSE i \in S : \A j \in S : i <= j
ParentOf(path) == IF Slashes(path) = {} THEN <<>> ELSE SubSeq(path, 1, Greatest(Slashes(path)) - 1)
BaseOf(path) == IF Slashes(path) = {} THEN path ELSE SubSeq(path, Greatest(Slashes(path)) + 1, Len(path))

\* fs.ReadDir: the names in a directory, in their order.
ReadDirNames(tree, path) ==
  SetToSortSeq({BaseOf(p) : p \in {f \in tree.files \cup tree.dirs : ParentOf(f) = path}}, Before)

\* The common prefix of a name: up to the first delimiter after the prefix.
Cuts(q, name) == {i \in Len(q.prefix) + 1 .. Len(name) - Len(q.delim) + 1 :
                    SubSeq(name, i, i + Len(q.delim) - 1) = q.delim}
RollsUp(q, name) == q.delim # <<>> /\ Cuts(q, name) # {}
CommonPrefix(q, name) == SubSeq(name, 1, Least(Cuts(q, name)) + Len(q.delim) - 1)

----------------------------------------------------------------------------
(* The page so far: its entries in the order they were found, whether it is  *)
(* full, the marker of the next one and whether something was left out.      *)

EmptyPage == [out |-> <<>>, pastMax |-> FALSE, newMarker |-> <<>>, truncated |-> FALSE]

\* addObject and addCommonPrefix; common prefixes are a set.
AddEntry(q, w, e) ==
  With(IF e.cp /\ Contains(w.out, e) THEN w.out ELSE Append(w.out, e),
       LAMBDA out : LET full == Len(out) >= q.max
                    IN  [w EXCEPT !.out = out, !.pastMax = @ \/ full, !.newMarker = IF full THEN e.key ELSE @])

Truncate(w) == [w EXCEPT !.truncated = TRUE]

\* checkAndMaybeAddCommonPrefix: a name outside the prefix, or behind a
\* delimiter, is dealt with.
DealtWith(q, name) == ~IsPrefix(q.prefix, name) \/ RollsUp(q, name)
AddCommonPrefix(q, w, name) ==
  IF IsPrefix(q.prefix, name) /\ RollsUp(q, name) /\ Before(q.marker, CommonPrefix(q, name))
  THEN AddEntry(q, w, [key |-> CommonPrefix(q, name), cp |-> TRUE]) ELSE w

\* FileToObj leaves out a delete marker, and a directory that is no object.
FileToObj(tree, name) == name \in (tree.files \ tree.deleted) \cup tree.dirobjs

addContentEntry(tree, q, w, name) ==
  IF FileToObj(tree, name) THEN AddEntry(q, w, [key |-> name, cp |-> FALSE]) ELSE w

\* A file of a directory, if it is after the marker.
Content(tree, q, w, name) == IF ~Before(q.marker, name) THEN w
                             ELSE IF DealtWith(q, name) THEN AddCommonPrefix(q, w, name)
                             ELSE addContentEntry(tree, q, w, name)

RECURSIVE readDirEntries(_, _, _, _, _, _, _), processDir(_, _, _, _, _, _)

readDir(tree, q, path, w) ==
  With(ReadDirNames(tree, path), LAMBDA names : readDirEntries(tree, q, path, names, 1, <<>>, w).w)

\* The entries from the i-th on that are before `bound` (empty for no bound);
\* the index of the first that is not, and the page.
readDirEntries(tree, q, path, entries, i, bound, w) ==
  IF i > Len(entries) \/ (bound # <<>> /\ ~Before(entries[i], bound)) THEN [i |-> i, w |-> w]
  ELSE IF entries[i] = Tmp THEN readDirEntries(tree, q, path, entries, i + 1, bound, w)
  ELSE IF w.pastMax THEN [i |-> i, w |-> Truncate(w)]
  ELSE LET full == makeFullObjectName(path, entries[i])
       IN  With(IF full \in tree.dirs THEN processDir(tree, q, path, entries, i, w)
                ELSE [i |-> i + 1, w |-> Content(tree, q, w, full)],
                LAMBDA r : readDirEntries(tree, q, path, entries, r.i, bound, r.w))

\* Mutant: a directory is listed where the file system has it.
PrecedingNone(tree, q, path, entries, i, w) == [i |-> i + 1, w |-> w]

\* First the entries that are before the directory's name with its "/" ...
Preceding(tree, q, path, entries, i, w) ==
  readDirEntries(tree, q, path, entries, i + 1, entries[i] \o <<SEP>>, w)

\* Mutant: a directory whose name is not after the marker is done with.
EntersNone(q, name) == FALSE

\* A directory that is not after the marker may hold names that are if it is on
\* the marker's path.
Enters(q, name) == IsPrefix(q.marker, name) \/ IsPrefix(name, q.marker)

\* ... then the directory itself, and what is in it unless it was rolled up.
DirEntry(tree, q, full, w) ==
  LET name == full \o <<SEP>>
      Inside(listed) == IF ~Before(q.marker, name) THEN Enters(q, name)
                        ELSE ~DealtWith(q, name) \/ (IsPrefix(name, q.prefix) /\ ~listed.pastMax)
  IN  With(Content(tree, q, w, name),
           LAMBDA listed : IF ~Inside(listed) THEN listed
                           ELSE IF listed.pastMax THEN Truncate(listed)
                           ELSE readDir(tree, q, full, listed))

processDir(tree, q, path, entries, i, w) ==
  With(Preceding(tree, q, path, entries, i, w),
       LAMBDA before : [before EXCEPT !.w = IF @.pastMax THEN Truncate(@)
                                            ELSE DirEntry(tree, q, makeFullObjectName(path, entries[i]), @)])

\* quickWalk starts in the directory of the prefix if that has entries.
quickWalk(tree, q) ==
  LET root == ParentOf(q.prefix)
  IN  With(ReadDirNames(tree, root),
           LAMBDA entries :
             IF root = <<>> \/ root \notin tree.dirs \/ entries = <<>> THEN readDir(tree, q, <<>>, EmptyPage)
             ELSE IF BaseOf(root) = Tmp THEN EmptyPage
             ELSE With(Content(tree, q, EmptyPage, root \o <<SEP>>),
                       LAMBDA first : readDirEntries(tree, q, root, entries, 1, <<>>, first).w))

Walk(tree, q) ==
  With(IF q.max = 0 THEN EmptyPage ELSE quickWalk(tree, q),
       LAMBDA w : [w EXCEPT !.newMarker = IF w.truncated THEN @ ELSE <<>>])
=============================================================================
