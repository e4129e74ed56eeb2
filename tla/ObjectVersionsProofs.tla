------------------------ MODULE ObjectVersionsProofs ------------------------
(***************************************************************************)
(* ObjectVersions for every number of writes and of failures: no version   *)
(* is lost unless CompleteMultipartUpload runs in a suspended bucket, and  *)
(* without deletes there either the files are the versions S3 promises and *)
(* a GET of an older version returns its own bytes.  The invariant has     *)
(* three layers (BaseInv, KeepInv, FilesInv with GetFits), each with a     *)
(* step for every action that can disturb it.                              *)
(***************************************************************************)
EXTENDS ObjectVersions, NaturalsInduction, WellFoundedInduction, TLAPS

\* A set of natural numbers that is not empty has a least one.
LEMMA LeastExists ==
  ASSUME NEW S \in SUBSET Nat, S # {} PROVE \E x \in S : \A y \in S : x <= y
<1>1. \E x \in S : \A y \in S : ~(<<y, x>> \in OpToRel(<, Nat))
  BY NatLessThanWellFounded, WFMin, Zenon
<1>2. ASSUME NEW x \in S, NEW y \in S, ~(<<y, x>> \in OpToRel(<, Nat)) PROVE x <= y
  <2>1. <<y, x>> \in Nat \X Nat
    OBVIOUS
  <2>2. ~(y < x)
    BY <1>2, <2>1, Zenon DEF OpToRel
  <2> QED BY <2>2
<1> QED BY <1>1, <1>2

\* A bounded one has a greatest: the newest entry of the versioning directory.
LEMMA GreatestExists ==
  ASSUME NEW m \in Nat, NEW S \in SUBSET (0..m), S # {} PROVE \E x \in S : \A y \in S : x >= y
<1> DEFINE T == {n \in Nat : \E x \in S : n = m - x}
<1>1. T # {}
  <2>1. PICK x : x \in S
    OBVIOUS
  <2>2. x \in 0..m /\ m - x \in Nat
    BY <2>1
  <2> QED BY <2>1, <2>2
<1>2. PICK t \in T : \A u \in T : t <= u
  BY <1>1, LeastExists
<1>3. PICK x \in S : t = m - x
  OBVIOUS
<1>4. ASSUME NEW y \in S PROVE x >= y
  <2>1. m - y \in T /\ x \in 0..m /\ y \in 0..m
    OBVIOUS
  <2>2. m - x <= m - y
    BY <1>2, <1>3, <2>1
  <2> QED BY <2>1, <2>2
<1> QED BY <1>4

\* The entry that DeleteObject promotes is in the versioning directory.
LEMMA SourceIsEntry == TypeOK /\ Entries # {} => Source \in Entries
<1> SUFFICES ASSUME TypeOK, Entries # {} PROVE Source \in Entries
  OBVIOUS
<1>1. Entries \in SUBSET (0..MaxWrites) /\ MaxWrites \in Nat
  BY VersionsAssumption DEF Entries, Vids, Stamps, Null
<1>2. \E x \in Entries : \A y \in Entries : x >= y
  BY <1>1, GreatestExists
<1> QED BY <1>2 DEF Source, Max

\* The write that a request is making is within the bound and has a fresh version ID, or none.
LEMMA NextStamp ==
  ASSUME BaseInv, op.kind \in {"put", "complete", "delete"}
  PROVE  /\ writes \in Nat /\ writes + 1 \in Stamps /\ writes + 1 \in Vids
              /\ writes + 1 \in 0..MaxWrites
         /\ NewVid \in Vids /\ NewVid \in {Null, writes + 1}
BY VersionsAssumption DEF BaseInv, OpFits, TypeOK, Vids, Stamps, Null, NewVid

\* A new version leaves one promise for each version ID.
LEMMA PromiseKept ==
  ASSUME BaseInv, op.kind \in {"put", "complete", "delete"}, NEW m \in BOOLEAN
  PROVE  /\ Promise(m) \in SUBSET Promises
         /\ \A x \in Promise(m) : x.vid <= writes + 1 /\ (x.vid # Null => x.at = x.vid)
         /\ \A x, y \in Promise(m) : x.vid = y.vid => x = y
<1> DEFINE new == [vid |-> NewVid, at |-> writes + 1, marker |-> m]
<1>1. new \in Promises /\ new.vid = NewVid /\ new.at = writes + 1
  BY NextStamp DEF Promises
<1>2. new.vid <= writes + 1 /\ (new.vid # Null => new.at = new.vid)
  BY NextStamp, <1>1 DEF Null
<1>3. \A x \in Promise(m) : x = new \/ (x \in contract /\ x.vid # NewVid)
  BY DEF Promise
<1>4. \A x \in contract : x \in Promises /\ x.vid <= writes + 1 /\ (x.vid # Null => x.at = x.vid)
  BY DEF BaseInv, PromisesNamed, TypeOK, Promises, Vids, Stamps, Null
<1>5. \A x, y \in contract : x.vid = y.vid => x = y
  BY DEF BaseInv, PromisesNamed
<1> HIDE DEF new
<1> QED BY <1>1, <1>2, <1>3, <1>4, <1>5

\* An open descriptor whose path changed is a GET still.
LEMMA GetUnlinked == ASSUME NEW g \in GetRecords PROVE Unlinked(g) \in GetRecords
BY DEF GetRecords, Unlinked

\* A file with an attribute changed is a file.
LEMMA FileUpdates ==
  ASSUME NEW f \in File, NEW v \in Vids, NEW b \in BOOLEAN
  PROVE  /\ f.vid \in Vids /\ f.at \in Vids /\ f.etag \in Vids /\ f.marker \in BOOLEAN
              /\ f.full \in BOOLEAN
         /\ [f EXCEPT !.vid = v] \in File /\ [f EXCEPT !.etag = v] \in File
         /\ [f EXCEPT !.marker = b] \in File /\ [f EXCEPT !.full = b] \in File
BY DEF File

\* The null version ID is one.
LEMMA VidZero == Null \in Vids /\ 0 \in Vids
BY DEF Vids, Null

\* A step that leaves the variables of a part alone keeps that part.
LEMMA Frames ==
  /\ OpFits /\ UNCHANGED <<live, vdir, writes, op>> => OpFits'
  /\ NeverVersioned /\ UNCHANGED <<status, live, vdir, op, contract>> => NeverVersioned'
  /\ FilesNamed /\ UNCHANGED <<live, vdir, writes>> => FilesNamed'
  /\ PromisesNamed /\ UNCHANGED <<writes, contract>> => PromisesNamed'
  /\ Preserved /\ UNCHANGED <<live, vdir, op>> => Preserved'
  /\ ObjectsWhole /\ UNCHANGED <<live, vdir, op, emptied, contract>> => ObjectsWhole'
  /\ Harmless /\ UNCHANGED <<op, failures, emptied>> => Harmless'
  /\ EntriesPromised /\ UNCHANGED <<vdir, failures, contract>> => EntriesPromised'
  /\ StoredSettled /\ UNCHANGED <<live, vdir, op, failures, contract>> => StoredSettled'
  /\ StoredReplacing /\ UNCHANGED <<vdir, op, failures, contract>> => StoredReplacing'
  /\ StoredPromoting /\ UNCHANGED <<vdir, op, failures, contract>> => StoredPromoting'
  /\ GetFits /\ UNCHANGED <<writes, failures, emptied, contract, get>> => GetFits'
<1>1. OpFits /\ UNCHANGED <<live, vdir, writes, op>> => OpFits'
  BY DEF OpFits, At, Entries, Source
<1>2. NeverVersioned /\ UNCHANGED <<status, live, vdir, op, contract>> => NeverVersioned'
  BY DEF NeverVersioned, Entries
<1>3. FilesNamed /\ UNCHANGED <<live, vdir, writes>> => FilesNamed'
  BY DEF FilesNamed, Entries, Genuine
<1>4. PromisesNamed /\ UNCHANGED <<writes, contract>> => PromisesNamed'
  BY DEF PromisesNamed
<1>5. Preserved /\ UNCHANGED <<live, vdir, op>> => Preserved'
  BY DEF Preserved, Replacing, At
<1>6. ObjectsWhole /\ UNCHANGED <<live, vdir, op, emptied, contract>> => ObjectsWhole'
  BY DEF ObjectsWhole, At
<1>7. Harmless /\ UNCHANGED <<op, failures, emptied>> => Harmless'
  BY DEF Harmless
<1>8. EntriesPromised /\ UNCHANGED <<vdir, failures, contract>> => EntriesPromised'
  BY DEF EntriesPromised, Entries
<1>9. StoredSettled /\ UNCHANGED <<live, vdir, op, failures, contract>> => StoredSettled'
  BY DEF StoredSettled, Entries, EntryOf
<1>10. StoredReplacing /\ UNCHANGED <<vdir, op, failures, contract>> => StoredReplacing'
  BY DEF StoredReplacing, EntryOf
<1>11. StoredPromoting /\ UNCHANGED <<vdir, op, failures, contract>> => StoredPromoting'
  BY DEF StoredPromoting, EntryOf
<1>12. GetFits /\ UNCHANGED <<writes, failures, emptied, contract, get>> => GetFits'
  BY DEF GetFits
<1> QED BY <1>1, <1>2, <1>3, <1>4, <1>5, <1>6, <1>7, <1>8, <1>9, <1>10, <1>11, <1>12

\* A step of any request keeps what holds of every bucket: files and promises carry the IDs of
\* the writes that made them, and each writer knows where the files are.
LEMMA BaseStep ==
  ASSUME BaseInv, Next PROVE BaseInv'
<1> USE VersionsAssumption, NoFileAssumption
<1>1. ASSUME NEW s \in Statuses, PutBucketVersioning(s) PROVE BaseInv'
  <2>1. TypeOK'
    BY <1>1 DEF PutBucketVersioning, BaseInv, TypeOK, OpRecords, GetRecords, Promises, File, Vids,
       Stamps, Null, Writers, Steps, AllStatuses
  <2>2. NeverVersioned'
    BY <1>1 DEF PutBucketVersioning, Idle, BaseInv, NeverVersioned, Entries
  <2> QED BY <1>1, <2>1, <2>2, Frames DEF PutBucketVersioning, BaseInv
<1>2. ASSUME NEW k \in {"put", "complete"}, StartWrite(k) PROVE BaseInv'
  <2>1. TypeOK'
    BY <1>2 DEF StartWrite, Idle, BaseInv, TypeOK, OpRecords, GetRecords, Promises, File, Vids,
       Stamps, Null, Writers, Steps, AllStatuses
  <2>2. OpFits'
    BY <1>2 DEF StartWrite, At, Idle, BaseInv, OpFits, Entries, Source
  <2>3. NeverVersioned'
    BY <1>2 DEF StartWrite, Idle, BaseInv, NeverVersioned, Entries
  <2> QED BY <1>2, <2>1, <2>2, <2>3, Frames DEF StartWrite, BaseInv
<1>3. CASE PutPreserve
  <2>1. TypeOK'
    BY <1>3 DEF PutPreserve, At, Goto, CreateObjVersion, BaseInv, TypeOK, OpRecords, GetRecords,
       Promises, File, Vids, Stamps, Null, Writers, Steps, AllStatuses
  <2>2. OpFits'
    BY <1>3 DEF PutPreserve, At, Goto, CreateObjVersion, Idle, BaseInv, OpFits, Entries, Source
  <2>3. NeverVersioned'
    BY <1>3 DEF PutPreserve, At, Goto, CreateObjVersion, Idle, BaseInv, NeverVersioned, Entries
  <2>4. FilesNamed'
    BY <1>3 DEF PutPreserve, At, Goto, CreateObjVersion, Idle, BaseInv, FilesNamed, Genuine,
       TypeOK, Entries, Vids, Null, Stamps
  <2> QED BY <1>3, <2>1, <2>2, <2>3, <2>4, Frames DEF PutPreserve, BaseInv
<1>4. CASE PutDropNull
  <2>1. TypeOK'
    BY <1>4 DEF PutDropNull, At, Goto, BaseInv, TypeOK, OpRecords, GetRecords, Promises, File,
       Vids, Stamps, Null, Writers, Steps, AllStatuses
  <2>2. OpFits'
    BY <1>4 DEF PutDropNull, At, Goto, Idle, BaseInv, OpFits, Entries, Source
  <2>3. NeverVersioned'
    BY <1>4 DEF PutDropNull, At, Goto, Idle, BaseInv, NeverVersioned, Entries
  <2>4. FilesNamed'
    BY <1>4 DEF PutDropNull, At, Goto, BaseInv, FilesNamed, Genuine, Entries, Vids, Null, Stamps
  <2> QED BY <1>4, <2>1, <2>2, <2>3, <2>4, Frames DEF PutDropNull, BaseInv
<1>5. CASE PutDropId
  <2>1. TypeOK'
    BY <1>5 DEF PutDropId, At, Goto, BaseInv, TypeOK, OpRecords, GetRecords, Promises, File, Vids,
       Stamps, Null, Writers, Steps, AllStatuses
  <2>2. OpFits'
    BY <1>5 DEF PutDropId, At, Goto, Idle, BaseInv, OpFits, Entries, Source
  <2>3. NeverVersioned'
    BY <1>5 DEF PutDropId, At, Goto, Idle, BaseInv, NeverVersioned, Entries
  <2>4. FilesNamed'
    BY <1>5 DEF PutDropId, At, Goto, Idle, BaseInv, FilesNamed, Genuine, TypeOK, Entries, Vids,
       Null, Stamps
  <2> QED BY <1>5, <2>1, <2>2, <2>3, <2>4, Frames DEF PutDropId, BaseInv
<1>6. CASE CompletePreserve
  <2>1. TypeOK'
    BY <1>6 DEF CompletePreserve, At, Goto, CreateObjVersion, BaseInv, TypeOK, OpRecords,
       GetRecords, Promises, File, Vids, Stamps, Null, Writers, Steps, AllStatuses
  <2>2. OpFits'
    BY <1>6 DEF CompletePreserve, At, Goto, CreateObjVersion, Idle, BaseInv, OpFits, Entries, Source
  <2>3. NeverVersioned'
    BY <1>6 DEF CompletePreserve, At, Goto, CreateObjVersion, Idle, BaseInv, NeverVersioned, Entries
  <2>4. FilesNamed'
    BY <1>6 DEF CompletePreserve, At, Goto, CreateObjVersion, Idle, BaseInv, FilesNamed, Genuine,
       TypeOK, Entries, Vids, Null, Stamps
  <2> QED BY <1>6, <2>1, <2>2, <2>3, <2>4, Frames DEF CompletePreserve, BaseInv
<1>7. CASE Link
  <2>1. TypeOK'
    <3>1. live' \in File
      BY <1>7, NextStamp DEF Link, File, At, BaseInv
    <3>2. contract' \in SUBSET Promises
      BY <1>7, PromiseKept DEF Link, At
    <3>3. get' \in GetRecords
      BY <1>7, GetUnlinked DEF Link, BaseInv, TypeOK
    <3>4. op' \in OpRecords
      BY <1>7, VidZero DEF Link, Finish, Idle, OpRecords, Steps, AllStatuses
    <3> QED BY <1>7, <3>1, <3>2, <3>3, <3>4, NextStamp DEF Link, BaseInv, TypeOK, At
  <2>2. OpFits'
    BY <1>7 DEF Link, At, Finish, NewVid, Promise, Unlinked, Idle, BaseInv, OpFits, Entries, Source
  <2>3. NeverVersioned'
    BY <1>7 DEF Link, At, Finish, NewVid, Promise, Unlinked, Idle, BaseInv, NeverVersioned, Entries
  <2>4. FilesNamed'
    BY <1>7 DEF Link, At, Finish, NewVid, Promise, Unlinked, Idle, BaseInv, FilesNamed, Genuine,
       TypeOK, Entries, File, Vids, Null, Stamps
  <2>5. PromisesNamed'
    BY <1>7, PromiseKept DEF Link, PromisesNamed, At
  <2> QED BY <1>7, <2>1, <2>2, <2>3, <2>4, <2>5 DEF Link, BaseInv
<1>8. CASE StartDelete
  <2>1. TypeOK'
    BY <1>8 DEF StartDelete, Idle, BaseInv, TypeOK, OpRecords, GetRecords, Promises, File, Vids,
       Stamps, Null, Writers, Steps, AllStatuses
  <2>2. OpFits'
    BY <1>8 DEF StartDelete, At, Idle, BaseInv, OpFits, Entries, Source
  <2>3. NeverVersioned'
    BY <1>8 DEF StartDelete, Idle, BaseInv, NeverVersioned, Entries
  <2> QED BY <1>8, <2>1, <2>2, <2>3, Frames DEF StartDelete, BaseInv
<1>9. CASE DeletePreserve
  <2>1. TypeOK'
    BY <1>9 DEF DeletePreserve, At, Goto, CreateObjVersion, BaseInv, TypeOK, OpRecords, GetRecords,
       Promises, File, Vids, Stamps, Null, Writers, Steps, AllStatuses
  <2>2. OpFits'
    BY <1>9 DEF DeletePreserve, At, Goto, CreateObjVersion, Idle, BaseInv, OpFits, Entries, Source
  <2>3. NeverVersioned'
    BY <1>9 DEF DeletePreserve, At, Goto, CreateObjVersion, Idle, BaseInv, NeverVersioned, Entries,
       AllStatuses, OpFits
  <2>4. FilesNamed'
    BY <1>9 DEF DeletePreserve, At, Goto, CreateObjVersion, Idle, BaseInv, FilesNamed, Genuine,
       TypeOK, Entries, Vids, Null, Stamps
  <2> QED BY <1>9, <2>1, <2>2, <2>3, <2>4, Frames DEF DeletePreserve, BaseInv
<1>10. CASE DeleteTruncate
  <2>1. TypeOK'
    BY <1>10, SourceIsEntry, NextStamp DEF DeleteTruncate, At, Goto, NewVid, Idle, GetPath,
       Attributes, BaseInv, TypeOK, OpRecords, GetRecords, Promises, File, Vids, Stamps, Null,
       Writers, Steps, AllStatuses, OpFits, NeverVersioned, FilesNamed, Genuine, PromisesNamed
  <2>2. OpFits'
    <3>0. live \in File /\ op \in OpRecords
      BY <1>10 DEF DeleteTruncate, At, BaseInv, TypeOK, OpFits
    <3>01. live' \in File
      BY <1>10, <3>0, VidZero DEF DeleteTruncate, File
    <3>1. live \in File /\ live' \in File /\ live' # NoFile /\ op \in OpRecords
      BY <1>10, <3>0, <3>01
    <3>2. op'.kind = op.kind /\ op'.st = op.st /\ op'.step = "clear"
      BY <1>10, <3>1 DEF DeleteTruncate, Goto, OpRecords
    <3>3. op.kind = "delete" /\ op.st # "Unset" /\ writes' < MaxWrites
      BY <1>10 DEF DeleteTruncate, At, BaseInv, OpFits
    <3>4. /\ op'.step \in {"mark", "stamp"} => live'.vid = Null /\ live'.etag = 0
          /\ op'.step = "stamp" => live'.marker
      BY <1>10, <3>1, <3>2 DEF DeleteTruncate, BaseInv, At, Null
    <3> QED BY <1>10, <3>1, <3>2, <3>3, <3>4 DEF OpFits, At
  <2>3. NeverVersioned'
    BY <1>10 DEF DeleteTruncate, At, Goto, Idle, BaseInv, NeverVersioned, Entries, AllStatuses,
       OpFits
  <2>4. FilesNamed'
    BY <1>10 DEF DeleteTruncate, At, Goto, BaseInv, FilesNamed, Genuine, Entries, File, Vids, Null,
       Stamps, OpFits
  <2> QED BY <1>10, <2>1, <2>2, <2>3, <2>4, Frames DEF DeleteTruncate, BaseInv
<1>11. CASE DeleteClear
  <2>1. TypeOK'
    <3>1. live' \in File
      BY <1>11, VidZero DEF DeleteClear, File, At, BaseInv, TypeOK, OpFits
    <3>4. op' \in OpRecords
      BY <1>11 DEF DeleteClear, Goto, OpRecords, Steps, BaseInv, TypeOK
    <3> QED BY <1>11, <3>1, <3>4 DEF DeleteClear, BaseInv, TypeOK
  <2>2. OpFits'
    <3>0. live \in File /\ op \in OpRecords
      BY <1>11 DEF DeleteClear, At, BaseInv, TypeOK, OpFits
    <3>01. live' \in File
      BY <1>11, <3>0, VidZero DEF DeleteClear, File
    <3>1. live \in File /\ live' \in File /\ live' # NoFile /\ op \in OpRecords
      BY <1>11, <3>0, <3>01
    <3>2. op'.kind = op.kind /\ op'.st = op.st /\ op'.step = "mark"
      BY <1>11, <3>1 DEF DeleteClear, Goto, OpRecords
    <3>3. op.kind = "delete" /\ op.st # "Unset" /\ writes' < MaxWrites
      BY <1>11 DEF DeleteClear, At, BaseInv, OpFits
    <3>4. /\ op'.step \in {"mark", "stamp"} => live'.vid = Null /\ live'.etag = 0
          /\ op'.step = "stamp" => live'.marker
      BY <1>11, <3>1, <3>2 DEF DeleteClear, BaseInv, At, Null
    <3> QED BY <1>11, <3>1, <3>2, <3>3, <3>4 DEF OpFits, At
  <2>3. NeverVersioned'
    BY <1>11 DEF DeleteClear, At, Goto, Idle, BaseInv, NeverVersioned, Entries
  <2>4. FilesNamed'
    BY <1>11 DEF DeleteClear, At, Goto, Idle, BaseInv, FilesNamed, Genuine, TypeOK, Entries, Vids,
       Null, Stamps
  <2> QED BY <1>11, <2>1, <2>2, <2>3, <2>4, Frames DEF DeleteClear, BaseInv
<1>12. CASE DeleteMark
  <2>1. TypeOK'
    <3>1. live' \in File
      BY <1>12, FileUpdates, VidZero DEF DeleteMark, At, BaseInv, TypeOK, OpFits
    <3>4. op' \in OpRecords
      BY <1>12 DEF DeleteMark, Goto, OpRecords, Steps, BaseInv, TypeOK
    <3> QED BY <1>12, <3>1, <3>4 DEF DeleteMark, BaseInv, TypeOK
  <2>2. OpFits'
    <3>0. live \in File /\ op \in OpRecords
      BY <1>12 DEF DeleteMark, At, BaseInv, TypeOK, OpFits
    <3>01. live' \in File
      BY <1>12, <3>0, VidZero DEF DeleteMark, File
    <3>1. live \in File /\ live' \in File /\ live' # NoFile /\ op \in OpRecords
      BY <1>12, <3>0, <3>01
    <3>2. op'.kind = op.kind /\ op'.st = op.st /\ op'.step = "stamp"
      BY <1>12, <3>1 DEF DeleteMark, Goto, OpRecords
    <3>3. op.kind = "delete" /\ op.st # "Unset" /\ writes' < MaxWrites
      BY <1>12 DEF DeleteMark, At, BaseInv, OpFits
    <3>4. /\ op'.step \in {"mark", "stamp"} => live'.vid = Null /\ live'.etag = 0
          /\ op'.step = "stamp" => live'.marker
      BY <1>12, <3>1, <3>2 DEF DeleteMark, BaseInv, OpFits, At, Null
    <3> QED BY <1>12, <3>1, <3>2, <3>3, <3>4 DEF OpFits, At
  <2>3. NeverVersioned'
    BY <1>12 DEF DeleteMark, At, Goto, Idle, BaseInv, NeverVersioned, Entries, AllStatuses, OpFits
  <2>4. FilesNamed'
    BY <1>12 DEF DeleteMark, At, Goto, BaseInv, FilesNamed, Genuine, Entries, File, Vids, Null,
       Stamps, OpFits
  <2> QED BY <1>12, <2>1, <2>2, <2>3, <2>4, Frames DEF DeleteMark, BaseInv
<1>13. CASE DeleteStamp
  <2>1. TypeOK'
    <3>1. live' \in File
      BY <1>13, NextStamp DEF DeleteStamp, File, At, BaseInv, TypeOK, OpFits
    <3>2. contract' \in SUBSET Promises
      BY <1>13, PromiseKept DEF DeleteStamp, At
    <3>4. op' \in OpRecords
      BY <1>13, VidZero DEF DeleteStamp, Finish, Idle, OpRecords, Steps, AllStatuses
    <3> QED BY <1>13, <3>1, <3>2, <3>4, NextStamp DEF DeleteStamp, BaseInv, TypeOK, At
  <2>2. OpFits'
    BY <1>13 DEF DeleteStamp, At, Finish, NewVid, Promise, Idle, BaseInv, OpFits, Entries, Source
  <2>3. NeverVersioned'
    BY <1>13 DEF DeleteStamp, At, Finish, NewVid, Promise, Idle, BaseInv, NeverVersioned, Entries
  <2>4. FilesNamed'
    BY <1>13 DEF DeleteStamp, At, Finish, NewVid, Promise, Idle, BaseInv, FilesNamed, Genuine,
       TypeOK, Entries, File, Vids, Null, Stamps, OpFits
  <2>5. PromisesNamed'
    BY <1>13, PromiseKept DEF DeleteStamp, PromisesNamed, At
  <2> QED BY <1>13, <2>1, <2>2, <2>3, <2>4, <2>5 DEF DeleteStamp, BaseInv
<1>14. CASE DeleteRemove
  <2>1. TypeOK'
    BY <1>14, SourceIsEntry, NextStamp DEF DeleteRemove, At, Finish, NewVid, Unlinked, Idle,
       GetPath, Attributes, BaseInv, TypeOK, OpRecords, GetRecords, Promises, File, Vids, Stamps,
       Null, Writers, Steps, AllStatuses, OpFits, NeverVersioned, FilesNamed, Genuine,
       PromisesNamed
  <2>2. OpFits'
    BY <1>14 DEF DeleteRemove, At, Finish, Unlinked, Idle, BaseInv, OpFits, Entries, Source
  <2>3. NeverVersioned'
    BY <1>14 DEF DeleteRemove, At, Finish, Unlinked, Idle, BaseInv, NeverVersioned, Entries
  <2>4. FilesNamed'
    BY <1>14 DEF DeleteRemove, At, Finish, Unlinked, Idle, BaseInv, FilesNamed, Genuine, Entries,
       Vids, Null, Stamps
  <2>5. PromisesNamed'
    BY <1>14 DEF DeleteRemove, At, Finish, Unlinked, Idle, BaseInv, PromisesNamed, Null
  <2> QED BY <1>14, <2>1, <2>2, <2>3, <2>4, <2>5 DEF DeleteRemove, BaseInv
<1>15. ASSUME NEW v \in Vids, StartDeleteVersion(v) PROVE BaseInv'
  <2>1. TypeOK'
    BY <1>15 DEF StartDeleteVersion, Idle, Assigned, BaseInv, TypeOK, OpRecords, GetRecords,
       Promises, File, Vids, Stamps, Null, Writers, Steps, AllStatuses
  <2>2. OpFits'
    BY <1>15 DEF StartDeleteVersion, At, Idle, Assigned, BaseInv, OpFits, Entries, Source
  <2>3. NeverVersioned'
    BY <1>15 DEF StartDeleteVersion, Idle, Assigned, BaseInv, NeverVersioned, Entries
  <2> QED BY <1>15, <2>1, <2>2, <2>3, Frames DEF StartDeleteVersion, BaseInv
<1>16. CASE DeleteOldVersion
  <2>1. TypeOK'
    BY <1>16 DEF DeleteOldVersion, At, Finish, DropPromise, Idle, BaseInv, TypeOK, OpRecords,
       GetRecords, Promises, File, Vids, Stamps, Null, Writers, Steps, AllStatuses
  <2>2. OpFits'
    BY <1>16 DEF DeleteOldVersion, At, Finish, DropPromise, Idle, BaseInv, OpFits, Entries, Source
  <2>3. NeverVersioned'
    BY <1>16 DEF DeleteOldVersion, At, Finish, DropPromise, Idle, BaseInv, NeverVersioned, Entries
  <2>4. FilesNamed'
    BY <1>16 DEF DeleteOldVersion, At, Finish, DropPromise, Idle, BaseInv, FilesNamed, Genuine,
       Entries, Vids, Null, Stamps
  <2>5. PromisesNamed'
    BY <1>16 DEF DeleteOldVersion, At, Finish, DropPromise, Idle, BaseInv, PromisesNamed, Null
  <2> QED BY <1>16, <2>1, <2>2, <2>3, <2>4, <2>5 DEF DeleteOldVersion, BaseInv
<1>17. CASE DeleteCurrent
  <2>1. TypeOK'
    <3>2. contract' \in SUBSET Promises
      BY <1>17 DEF DeleteCurrent, DropPromise, BaseInv, TypeOK
    <3>3. get' \in GetRecords
      BY <1>17, GetUnlinked DEF DeleteCurrent, BaseInv, TypeOK
    <3>4. op' \in OpRecords
      BY <1>17, VidZero DEF DeleteCurrent, Finish, Goto, Idle, OpRecords, Steps, AllStatuses,
         BaseInv, TypeOK
    <3> QED BY <1>17, <3>2, <3>3, <3>4 DEF DeleteCurrent, BaseInv, TypeOK
  <2>2. OpFits'
    BY <1>17 DEF DeleteCurrent, At, Goto, Finish, Unlinked, DropPromise, Idle, BaseInv, OpFits,
       TypeOK, OpRecords, Entries, Source
  <2>3. NeverVersioned'
    BY <1>17 DEF DeleteCurrent, At, Goto, Finish, Unlinked, DropPromise, Idle, BaseInv,
       NeverVersioned, TypeOK, Entries, OpRecords
  <2>4. FilesNamed'
    BY <1>17 DEF DeleteCurrent, At, Goto, Finish, Unlinked, DropPromise, Idle, BaseInv, FilesNamed,
       Genuine, Entries, Vids, Null, Stamps
  <2>5. PromisesNamed'
    BY <1>17 DEF DeleteCurrent, At, Goto, Finish, Unlinked, DropPromise, Idle, BaseInv,
       PromisesNamed, Null
  <2> QED BY <1>17, <2>1, <2>2, <2>3, <2>4, <2>5 DEF DeleteCurrent, BaseInv
<1>18. CASE Promote
  <2>1. TypeOK'
    <3>1. Source \in Vids /\ vdir[Source] \in File
      BY <1>18, SourceIsEntry DEF Promote, BaseInv, OpFits, TypeOK, At, Entries
    <3>2. live' \in File
      BY <1>18, <3>1, VidZero DEF Promote, File
    <3>4. op' \in OpRecords
      BY <1>18 DEF Promote, Goto, OpRecords, Steps, BaseInv, TypeOK
    <3> QED BY <1>18, <3>2, <3>4 DEF Promote, BaseInv, TypeOK
  <2>2. OpFits'
    <3>01. Source \in Vids /\ vdir[Source] \in File
      BY <1>18, SourceIsEntry DEF Promote, BaseInv, OpFits, TypeOK, At, Entries
    <3>02. live' \in File
      BY <1>18, <3>01, VidZero DEF Promote, File
    <3>0. live' # NoFile
      BY <1>18, <3>02
    <3>1. live' # NoFile /\ op \in OpRecords /\ op.kind = "deleteVersion" /\ Entries # {}
      BY <1>18, <3>0 DEF Promote, File, At, BaseInv, TypeOK, OpFits
    <3>2. op'.kind = op.kind /\ op'.st = op.st /\ op'.step = "attrs"
      BY <1>18, <3>1 DEF Promote, Goto, OpRecords
    <3>3. Source' = Source /\ Entries' = Entries /\ vdir' = vdir
      BY <1>18 DEF Promote, Source, Entries
    <3>4. live'.at = vdir[Source].at /\ live'.full = vdir[Source].full /\ live'.vid = Null
            /\ live'.etag = 0
      BY <1>18 DEF Promote
    <3> QED BY <1>18, <3>1, <3>2, <3>3, <3>4 DEF OpFits, At
  <2>3. NeverVersioned'
    BY <1>18 DEF Promote, At, Goto, Idle, BaseInv, NeverVersioned, Entries
  <2>4. FilesNamed'
    BY <1>18 DEF Promote, At, Goto, Idle, BaseInv, FilesNamed, Genuine, TypeOK, Entries, Vids,
       Null, Stamps
  <2> QED BY <1>18, <2>1, <2>2, <2>3, <2>4, Frames DEF Promote, BaseInv
<1>19. CASE PromoteAttr
  <2>1. TypeOK'
    <3>1. Source \in Vids /\ vdir[Source] \in File /\ live \in File
      BY <1>19, SourceIsEntry DEF PromoteAttr, BaseInv, OpFits, TypeOK, At, Entries
    <3>2. PICK a \in Attributes : live' = [live EXCEPT ![a] = vdir[Source][a]]
      BY <1>19 DEF PromoteAttr
    <3>3. CASE a = "vid"
      BY <1>19, <3>1, <3>2, <3>3 DEF File, PromoteAttr, BaseInv, TypeOK
    <3>4. CASE a = "etag"
      BY <1>19, <3>1, <3>2, <3>4 DEF File, PromoteAttr, BaseInv, TypeOK
    <3>5. CASE a = "marker"
      BY <1>19, <3>1, <3>2, <3>5 DEF File, PromoteAttr, BaseInv, TypeOK
    <3> QED BY <1>19, <3>2, <3>3, <3>4, <3>5 DEF Attributes
  <2>2. OpFits'
    BY <1>19, SourceIsEntry, NextStamp DEF PromoteAttr, At, NewVid, Idle, GetPath, Attributes,
       BaseInv, OpFits, TypeOK, OpRecords, Entries, Source, File, Writers, NeverVersioned,
       FilesNamed, Genuine, PromisesNamed
  <2>3. NeverVersioned'
    BY <1>19 DEF PromoteAttr, At, Idle, Attributes, BaseInv, NeverVersioned, Entries, AllStatuses,
       OpFits
  <2>4. FilesNamed'
    BY <1>19, SourceIsEntry DEF PromoteAttr, At, Attributes, BaseInv, FilesNamed, Genuine, Entries,
       File, Vids, Null, Stamps, OpFits
  <2> QED BY <1>19, <2>1, <2>2, <2>3, <2>4, Frames DEF PromoteAttr, BaseInv
<1>20. CASE PromoteUnlink
  <2>1. TypeOK'
    BY <1>20, SourceIsEntry DEF PromoteUnlink, At, Finish, Idle, Attributes, BaseInv, TypeOK,
       OpRecords, GetRecords, Promises, File, Vids, Stamps, Null, Writers, Steps, AllStatuses,
       OpFits, FilesNamed, Genuine
  <2>2. OpFits'
    BY <1>20, SourceIsEntry, NextStamp DEF PromoteUnlink, At, Finish, NewVid, Idle, GetPath,
       Attributes, BaseInv, OpFits, TypeOK, OpRecords, Entries, Source, File, Writers,
       NeverVersioned, FilesNamed, Genuine, PromisesNamed
  <2>3. NeverVersioned'
    BY <1>20 DEF PromoteUnlink, At, Finish, Idle, Attributes, BaseInv, NeverVersioned, Entries
  <2>4. FilesNamed'
    BY <1>20 DEF PromoteUnlink, At, Finish, Idle, Attributes, BaseInv, FilesNamed, Genuine,
       Entries, Vids, Null, Stamps
  <2> QED BY <1>20, <2>1, <2>2, <2>3, <2>4, Frames DEF PromoteUnlink, BaseInv
<1>21. CASE Fail
  <2>1. TypeOK'
    BY <1>21 DEF Fail, At, Finish, Idle, BaseInv, TypeOK, OpRecords, GetRecords, Promises, File,
       Vids, Stamps, Null, Writers, Steps, AllStatuses
  <2>2. OpFits'
    BY <1>21 DEF Fail, At, Finish, Idle, BaseInv, OpFits, Entries, Source
  <2>3. NeverVersioned'
    BY <1>21 DEF Fail, At, Finish, Idle, BaseInv, NeverVersioned, Entries
  <2> QED BY <1>21, <2>1, <2>2, <2>3, Frames DEF Fail, BaseInv
<1>22. ASSUME NEW want \in Vids, GetResolve(want) PROVE BaseInv'
  <2>1. TypeOK'
    <3>1. get' \in GetRecords
      BY <1>22 DEF GetResolve, GetRecords, BaseInv, TypeOK
    <3> QED BY <1>22, <3>1 DEF GetResolve, BaseInv, TypeOK
  <2> QED BY <1>22, <2>1, Frames DEF GetResolve, BaseInv
<1>23. CASE GetStat
  <2>1. TypeOK'
    BY <1>23 DEF GetStat, GetPath, BaseInv, TypeOK, OpRecords, GetRecords, Promises, File, Vids,
       Stamps, Null, Writers, Steps, AllStatuses
  <2> QED BY <1>23, <2>1, Frames DEF GetStat, BaseInv
<1>24. CASE GetEtag
  <2>1. TypeOK'
    <3>1. GetPath \in File \cup {NoFile}
      BY <1>24 DEF GetPath, BaseInv, TypeOK, GetRecords
    <3>2. get' \in GetRecords
      BY <1>24, <3>1, VidZero, FileUpdates DEF GetEtag, GetRecords, BaseInv, TypeOK
    <3> QED BY <1>24, <3>2 DEF GetEtag, BaseInv, TypeOK
  <2> QED BY <1>24, <2>1, Frames DEF GetEtag, BaseInv
<1>25. CASE GetOpen
  <2>1. TypeOK'
    <3>1. GetPath \in File \cup {NoFile}
      BY <1>25 DEF GetPath, BaseInv, TypeOK, GetRecords
    <3>2. get' \in GetRecords
      <4>1. CASE GetPath = NoFile
        BY <1>25, <4>1 DEF GetOpen, GetRecords, BaseInv, TypeOK
      <4>2. CASE GetPath # NoFile
        <5>1. GetPath.at \in Vids /\ GetPath.full \in BOOLEAN
          BY <1>25, <3>1, <4>2 DEF File
        <5>2. get' = [get EXCEPT !.pc = "body", !.body = GetPath.at, !.full = GetPath.full,
                !.onLive = ~get.inVdir]
          BY <1>25, <4>2 DEF GetOpen
        <5> HIDE DEF GetPath
        <5> QED BY <1>25, <5>1, <5>2 DEF GetRecords, BaseInv, TypeOK
      <4> QED BY <1>25, <4>1, <4>2
    <3> QED BY <1>25, <3>2 DEF GetOpen, BaseInv, TypeOK
  <2> QED BY <1>25, <2>1, Frames DEF GetOpen, BaseInv
<1>26. CASE GetSend
  <2>1. TypeOK'
    <3>1. get' \in GetRecords
      BY <1>26 DEF GetSend, GetRecords, BaseInv, TypeOK
    <3> QED BY <1>26, <3>1 DEF GetSend, BaseInv, TypeOK
  <2> QED BY <1>26, <2>1, Frames DEF GetSend, BaseInv
<1>27. CASE GetAgain
  <2>1. TypeOK'
    BY <1>27 DEF GetAgain, BaseInv, TypeOK, OpRecords, GetRecords, Promises, File, Vids, Stamps,
       Null, NoGet, Writers, Steps, AllStatuses
  <2> QED BY <1>27, <2>1, Frames DEF GetAgain, BaseInv
<1> QED
  BY <1>1, <1>2, <1>3, <1>4, <1>5, <1>6, <1>7, <1>8, <1>9, <1>10, <1>11, <1>12, <1>13, <1>14,
     <1>15, <1>16, <1>17, <1>18, <1>19, <1>20, <1>21, <1>22, <1>23, <1>24, <1>25, <1>26, <1>27 DEF
     Next, Write, Delete, DeleteVersion, Get

\* A version ID is in the directory before the live file loses it: CompleteMultipartUpload does
\* not see to it in a suspended bucket.
LEMMA KeepStep ==
  ASSUME BaseInv, KeepInv, "complete" \notin Requests["Suspended"], Next PROVE KeepInv'
<1> USE VersionsAssumption, NoFileAssumption
<1>1. ASSUME NEW k \in {"put", "complete"}, StartWrite(k) PROVE KeepInv'
  <2>1. Preserved'
    BY <1>1 DEF StartWrite, At, Idle, BaseInv, Preserved, Replacing, KeepInv
  <2>2. ObjectsWhole'
    BY <1>1 DEF StartWrite, At, Idle, BaseInv, ObjectsWhole, Object, KeepInv, Stamps, Null
  <2> QED BY <1>1, <2>1, <2>2 DEF StartWrite, KeepInv
<1>2. CASE PutPreserve
  <2>1. Preserved'
    BY <1>2 DEF PutPreserve, At, Goto, NewVid, CreateObjVersion, Idle, BaseInv, Preserved,
       Replacing, KeepInv, OpRecords, File, NeverVersioned, TypeOK, Entries
  <2>2. ObjectsWhole'
    BY <1>2 DEF PutPreserve, At, Goto, CreateObjVersion, BaseInv, ObjectsWhole, Object, KeepInv,
       File, Vids, Stamps, Null, OpFits, TypeOK
  <2> QED BY <1>2, <2>1, <2>2 DEF PutPreserve, KeepInv
<1>3. CASE PutDropNull
  <2>1. Preserved'
    BY <1>3 DEF PutDropNull, At, Goto, BaseInv, Preserved, Replacing, KeepInv
  <2>2. ObjectsWhole'
    BY <1>3 DEF PutDropNull, At, Goto, BaseInv, ObjectsWhole, Object, KeepInv, Stamps, Null
  <2> QED BY <1>3, <2>1, <2>2 DEF PutDropNull, KeepInv
<1>4. CASE PutDropId
  <2>1. Preserved'
    BY <1>4 DEF PutDropId, At, Goto, BaseInv, Preserved, Replacing, KeepInv
  <2>2. ObjectsWhole'
    BY <1>4 DEF PutDropId, At, Goto, NewVid, BaseInv, Preserved, Replacing, ObjectsWhole, Object,
       KeepInv, Stamps, Null, NeverVersioned
  <2> QED BY <1>4, <2>1, <2>2 DEF PutDropId, KeepInv
<1>5. CASE CompletePreserve
  <2>1. Preserved'
    BY <1>5 DEF CompletePreserve, At, Goto, NewVid, CreateObjVersion, Idle, BaseInv, Preserved,
       Replacing, KeepInv, OpRecords, File, Vids, AllStatuses, NeverVersioned, TypeOK, Entries
  <2>2. ObjectsWhole'
    BY <1>5 DEF CompletePreserve, At, Goto, CreateObjVersion, BaseInv, ObjectsWhole, Object,
       KeepInv, File, Vids, Stamps, TypeOK, Entries
  <2> QED BY <1>5, <2>1, <2>2 DEF CompletePreserve, KeepInv
<1>6. CASE Link
  <2>1. Preserved'
    BY <1>6 DEF Link, At, Finish, NewVid, Promise, Unlinked, Idle, BaseInv, Preserved, Replacing,
       KeepInv
  <2>2. ObjectsWhole'
    <3> SUFFICES ASSUME ~emptied, NEW v \in Stamps, Object(v) \in contract'
                 PROVE  /\ vdir[v] # NoFile \/ live'.vid = v
                        /\ vdir[v] # NoFile => vdir[v].full
                        /\ live' # NoFile /\ live'.full
      BY <1>6 DEF ObjectsWhole, Link
    <3>1. live' \in File /\ live'.vid = NewVid /\ live'.full
      BY <1>6, NextStamp DEF Link, File, At
    <3>2. v # Null
      BY <1>6 DEF Stamps, Null
    <3>3. CASE v = NewVid
      <4>1. vdir[v] = NoFile
        <5>1. v = writes + 1 /\ v \in Vids /\ writes \in Nat
          BY <1>6, <3>2, <3>3, NextStamp DEF Link, At
        <5> QED BY <1>6, <5>1 DEF BaseInv, FilesNamed, Genuine, Entries
      <4> QED BY <1>6, <3>1, <3>3, <4>1
    <3>4. CASE v # NewVid
      <4>1. Object(v) \in contract
        BY <1>6, <3>4 DEF Link, Promise, Object
      <4>2. vdir[v] # NoFile \/ (live # NoFile /\ live.vid = v)
        BY <1>6, <4>1 DEF KeepInv, ObjectsWhole
      <4>3. vdir[v] # NoFile => vdir[v].full
        BY <1>6, <4>1 DEF KeepInv, ObjectsWhole
      <4>4. Replacing
        BY <1>6 DEF Link, Replacing
      <4> QED BY <1>6, <3>1, <3>2, <4>2, <4>3, <4>4 DEF KeepInv, Preserved
    <3> QED BY <1>6, <3>3, <3>4
  <2> QED BY <1>6, <2>1, <2>2 DEF Link, KeepInv
<1>7. CASE StartDelete
  <2>1. Preserved'
    BY <1>7 DEF StartDelete, At, Idle, BaseInv, Preserved, Replacing, KeepInv
  <2>2. ObjectsWhole'
    BY <1>7 DEF StartDelete, At, Idle, BaseInv, ObjectsWhole, Object, KeepInv, Stamps, Null
  <2> QED BY <1>7, <2>1, <2>2 DEF StartDelete, KeepInv
<1>8. CASE DeletePreserve
  <2>1. Preserved'
    BY <1>8 DEF DeletePreserve, At, Goto, CreateObjVersion, BaseInv, Preserved, Replacing, KeepInv,
       File, TypeOK, Entries
  <2>2. ObjectsWhole'
    BY <1>8 DEF DeletePreserve, At, Goto, CreateObjVersion, BaseInv, ObjectsWhole, Object, KeepInv,
       File, Vids, Stamps, Null, OpFits, TypeOK
  <2> QED BY <1>8, <2>1, <2>2 DEF DeletePreserve, KeepInv
<1>9. CASE DeleteTruncate
  <2>1. Preserved'
    BY <1>9 DEF DeleteTruncate, At, Goto, BaseInv, Preserved, Replacing, KeepInv, Writers, OpFits
  <2>2. ObjectsWhole'
    BY <1>9 DEF DeleteTruncate, At, Goto, NewVid, BaseInv, Preserved, Replacing, ObjectsWhole,
       Object, KeepInv, Stamps, Null, OpFits, NeverVersioned
  <2> QED BY <1>9, <2>1, <2>2 DEF DeleteTruncate, KeepInv
<1>10. CASE DeleteClear
  <2>1. Preserved'
    BY <1>10 DEF DeleteClear, At, Goto, BaseInv, Preserved, Replacing, KeepInv
  <2>2. ObjectsWhole'
    BY <1>10 DEF DeleteClear, At, Goto, NewVid, BaseInv, Preserved, Replacing, ObjectsWhole,
       Object, KeepInv, Stamps, Null, NeverVersioned
  <2> QED BY <1>10, <2>1, <2>2 DEF DeleteClear, KeepInv
<1>11. CASE DeleteMark
  <2>1. Preserved'
    BY <1>11 DEF DeleteMark, At, Goto, BaseInv, Preserved, Replacing, KeepInv
  <2>2. ObjectsWhole'
    BY <1>11 DEF DeleteMark, At, Goto, BaseInv, ObjectsWhole, Object, KeepInv, Stamps, Null, OpFits
  <2> QED BY <1>11, <2>1, <2>2 DEF DeleteMark, KeepInv
<1>12. CASE DeleteStamp
  <2>1. Preserved'
    BY <1>12 DEF DeleteStamp, At, Finish, NewVid, Promise, Idle, BaseInv, Preserved, Replacing,
       KeepInv
  <2>2. ObjectsWhole'
    BY <1>12 DEF DeleteStamp, At, Finish, NewVid, Promise, Idle, BaseInv, ObjectsWhole, Object,
       KeepInv, Stamps, Null, OpFits, TypeOK
  <2> QED BY <1>12, <2>1, <2>2 DEF DeleteStamp, KeepInv
<1>13. CASE DeleteRemove
  <2>1. Preserved'
    BY <1>13 DEF DeleteRemove, At, Finish, Unlinked, Idle, BaseInv, Preserved, Replacing, KeepInv
  <2>2. ObjectsWhole'
    BY <1>13 DEF DeleteRemove, At, Finish, Unlinked, Idle, BaseInv, Replacing, ObjectsWhole,
       Object, KeepInv, Stamps, Null, OpFits, NeverVersioned, TypeOK
  <2> QED BY <1>13, <2>1, <2>2 DEF DeleteRemove, KeepInv
<1>14. ASSUME NEW v \in Vids, StartDeleteVersion(v) PROVE KeepInv'
  <2>1. Preserved'
    BY <1>14 DEF StartDeleteVersion, At, Idle, Assigned, BaseInv, Preserved, Replacing, KeepInv,
       Vids
  <2>2. ObjectsWhole'
    BY <1>14 DEF StartDeleteVersion, At, Idle, Assigned, BaseInv, ObjectsWhole, Object, KeepInv,
       Vids, Stamps, Null
  <2> QED BY <1>14, <2>1, <2>2 DEF StartDeleteVersion, KeepInv
<1>15. CASE DeleteOldVersion
  <2>1. Preserved'
    BY <1>15 DEF DeleteOldVersion, At, Finish, DropPromise, Idle, BaseInv, Preserved, Replacing,
       KeepInv
  <2>2. ObjectsWhole'
    BY <1>15 DEF DeleteOldVersion, At, Finish, DropPromise, Idle, BaseInv, ObjectsWhole, Object,
       KeepInv, Stamps, Null
  <2> QED BY <1>15, <2>1, <2>2 DEF DeleteOldVersion, KeepInv
<1>16. CASE DeleteCurrent
  <2>1. Preserved'
    BY <1>16 DEF DeleteCurrent, At, Goto, Finish, Unlinked, DropPromise, Idle, BaseInv, Preserved,
       Replacing, KeepInv, OpRecords, File, Vids, TypeOK, Entries
  <2>2. ObjectsWhole'
    BY <1>16 DEF DeleteCurrent, At, Goto, Finish, Unlinked, DropPromise, Idle, BaseInv,
       ObjectsWhole, Object, KeepInv, Vids, Stamps, Null, OpFits, TypeOK, Entries
  <2> QED BY <1>16, <2>1, <2>2 DEF DeleteCurrent, KeepInv
<1>17. CASE Promote
  <2>1. Preserved'
    BY <1>17 DEF Promote, At, Goto, BaseInv, Preserved, Replacing, KeepInv
  <2>2. ObjectsWhole'
    BY <1>17 DEF Promote, At, Goto, BaseInv, ObjectsWhole, Object, KeepInv, Stamps, Null, OpFits,
       TypeOK
  <2> QED BY <1>17, <2>1, <2>2 DEF Promote, KeepInv
<1>18. CASE PromoteAttr
  <2>1. Preserved'
    BY <1>18 DEF PromoteAttr, At, Attributes, BaseInv, Preserved, Replacing, KeepInv
  <2>2. ObjectsWhole'
    BY <1>18, SourceIsEntry DEF PromoteAttr, At, Attributes, BaseInv, ObjectsWhole, Object,
       KeepInv, Stamps, Null, OpFits, FilesNamed, Genuine, TypeOK, Entries
  <2> QED BY <1>18, <2>1, <2>2 DEF PromoteAttr, KeepInv
<1>19. CASE PromoteUnlink
  <2>1. Preserved'
    BY <1>19 DEF PromoteUnlink, At, Finish, Idle, Attributes, BaseInv, Preserved, Replacing, KeepInv
  <2>2. ObjectsWhole'
    BY <1>19 DEF PromoteUnlink, At, Finish, Idle, Attributes, BaseInv, ObjectsWhole, Object,
       KeepInv, Stamps, Null, OpFits, FilesNamed, Genuine, TypeOK, Entries
  <2> QED BY <1>19, <2>1, <2>2 DEF PromoteUnlink, KeepInv
<1>20. CASE Fail
  <2>1. Preserved'
    BY <1>20 DEF Fail, At, Finish, Idle, BaseInv, Preserved, Replacing, KeepInv
  <2>2. ObjectsWhole'
    BY <1>20 DEF Fail, At, Finish, NewVid, Idle, BaseInv, Preserved, Replacing, ObjectsWhole,
       Object, KeepInv, OpRecords, File, Stamps, Null, OpFits, NeverVersioned, TypeOK
  <2> QED BY <1>20, <2>1, <2>2 DEF Fail, KeepInv
<1>21. ASSUME NEW s \in Statuses, PutBucketVersioning(s) PROVE KeepInv'
  BY <1>21, Frames DEF PutBucketVersioning, KeepInv
<1>22. ASSUME NEW want \in Vids, GetResolve(want) PROVE KeepInv'
  BY <1>22, Frames DEF GetResolve, KeepInv
<1>23. CASE GetStat
  BY <1>23, Frames DEF GetStat, KeepInv
<1>24. CASE GetEtag
  BY <1>24, Frames DEF GetEtag, KeepInv
<1>25. CASE GetOpen
  BY <1>25, Frames DEF GetOpen, KeepInv
<1>26. CASE GetSend
  BY <1>26, Frames DEF GetSend, KeepInv
<1>27. CASE GetAgain
  BY <1>27, Frames DEF GetAgain, KeepInv
<1> QED
  BY <1>1, <1>2, <1>3, <1>4, <1>5, <1>6, <1>7, <1>8, <1>9, <1>10, <1>11, <1>12, <1>13, <1>14,
     <1>15, <1>16, <1>17, <1>18, <1>19, <1>20, <1>21, <1>22, <1>23, <1>24, <1>25, <1>26, <1>27 DEF
     Next, Write, Delete, DeleteVersion, Get

\* The new live file completes the promise: the version it replaces is in the directory, or it
\* was the null version and goes.
LEMMA NewVersionStored ==
  ASSUME BaseInv, FilesInv, failures = 0, op.kind \in {"put", "complete", "delete"},
         op.step \in {"link", "stamp"}, NEW m \in BOOLEAN, live' \in File,
         live'.vid = NewVid, live'.at = writes + 1, live'.marker = m,
         contract' = Promise(m), vdir' = vdir
  PROVE  /\ Promised(live)' \in contract' /\ live'.vid \notin Entries'
         /\ \A x \in contract' : Promised(live)' = x \/ EntryOf(x)'
<1>1. Promised(live)' = [vid |-> NewVid, at |-> writes + 1, marker |-> m]
  BY DEF Promised
<1>2. live'.vid \notin Entries'
  <2>1. CASE op.st = "Enabled"
    BY <2>1, NextStamp DEF Entries, BaseInv, FilesNamed, Genuine, NewVid
  <2>2. CASE op.st # "Enabled"
    BY <2>2 DEF Entries, NewVid, FilesInv, StoredReplacing
  <2> QED BY <2>1, <2>2
<1>3. ASSUME NEW x \in contract, x.vid # NewVid PROVE EntryOf(x)'
  <2>1. x.vid # Null \/ op.st = "Enabled"
    BY <1>3 DEF NewVid
  <2>2. EntryOf(x)
    BY <2>1 DEF FilesInv, StoredReplacing
  <2> QED BY <2>2 DEF EntryOf, Promised
<1>4. \A x \in contract' : x = Promised(live)' \/ (x \in contract /\ x.vid # NewVid)
  BY <1>1 DEF Promise
<1>5. Promised(live)' \in contract'
  BY <1>1 DEF Promise
<1> QED BY <1>2, <1>3, <1>4, <1>5

\* While no request has failed the files are those promised, but for what the writer is moving.
\* A delete of a suspended bucket leaves the null version in the directory.
LEMMA FilesStep ==
  ASSUME BaseInv, KeepInv, FilesInv, {"complete", "delete"} \cap Requests["Suspended"] = {}, Next
  PROVE FilesInv'
<1> USE VersionsAssumption, NoFileAssumption
<1>1. ASSUME NEW k \in {"put", "complete"}, StartWrite(k) PROVE FilesInv'
  <2>1. Harmless'
    BY <1>1 DEF StartWrite, Idle, BaseInv, FilesInv, Harmless
  <2>2. StoredSettled'
    BY <1>1 DEF StartWrite, Idle, BaseInv, Promised, EntryOf, StoredSettled, KeepInv, Vids, Stamps,
       Null, FilesInv, Entries
  <2>3. StoredReplacing'
    BY <1>1 DEF StartWrite, Idle, BaseInv, Promised, EntryOf, StoredReplacing, KeepInv, Null,
       FilesInv
  <2>4. StoredPromoting'
    BY <1>1 DEF StartWrite, Idle, BaseInv, Promised, EntryOf, StoredPromoting, KeepInv, Null,
       FilesInv
  <2> QED BY <1>1, <2>1, <2>2, <2>3, <2>4, Frames DEF StartWrite, FilesInv
<1>2. CASE PutPreserve
  <2>1. Harmless'
    BY <1>2 DEF PutPreserve, At, Goto, CreateObjVersion, BaseInv, FilesInv, Harmless
  <2>2. EntriesPromised'
    BY <1>2, SourceIsEntry DEF PutPreserve, At, Goto, CreateObjVersion, BaseInv, Promised, EntryOf,
       StoredSettled, StoredReplacing, KeepInv, Vids, Stamps, Null, FilesInv, EntriesPromised,
       OpFits, TypeOK, Entries
  <2>3. StoredSettled'
    BY <1>2 DEF PutPreserve, At, Goto, CreateObjVersion, Idle, BaseInv, Promised, EntryOf,
       StoredSettled, KeepInv, Vids, Stamps, Null, FilesInv, Entries
  <2>4. StoredReplacing'
    BY <1>2 DEF PutPreserve, At, Goto, CreateObjVersion, Idle, BaseInv, Promised, EntryOf,
       StoredSettled, StoredReplacing, KeepInv, OpRecords, File, Vids, Stamps, Null, FilesInv,
       EntriesPromised, Promises, AllStatuses, Writers, OpFits, NeverVersioned, TypeOK, Entries
  <2>5. StoredPromoting'
    BY <1>2 DEF PutPreserve, At, Goto, CreateObjVersion, BaseInv, Promised, EntryOf,
       StoredPromoting, KeepInv, Null, FilesInv
  <2> QED BY <1>2, <2>1, <2>2, <2>3, <2>4, <2>5 DEF PutPreserve, FilesInv
<1>3. CASE PutDropNull
  <2>1. Harmless'
    BY <1>3 DEF PutDropNull, At, Goto, BaseInv, FilesInv, Harmless
  <2>2. EntriesPromised'
    BY <1>3 DEF PutDropNull, At, Goto, BaseInv, Promised, KeepInv, Vids, Stamps, Null, FilesInv,
       EntriesPromised, Entries
  <2>3. StoredSettled'
    BY <1>3 DEF PutDropNull, At, Goto, Idle, BaseInv, Promised, EntryOf, StoredSettled, KeepInv,
       Vids, Stamps, Null, FilesInv, Entries
  <2>4. StoredReplacing'
    BY <1>3 DEF PutDropNull, At, Goto, Idle, BaseInv, Promised, EntryOf, StoredReplacing, KeepInv,
       OpRecords, File, Vids, Stamps, Null, FilesInv, EntriesPromised, Promises, AllStatuses,
       Writers, OpFits, NeverVersioned, TypeOK, Entries
  <2>5. StoredPromoting'
    BY <1>3 DEF PutDropNull, At, Goto, BaseInv, Promised, EntryOf, StoredPromoting, KeepInv, Null,
       FilesInv
  <2> QED BY <1>3, <2>1, <2>2, <2>3, <2>4, <2>5 DEF PutDropNull, FilesInv
<1>4. CASE PutDropId
  <2>1. Harmless'
    BY <1>4 DEF PutDropId, At, Goto, BaseInv, FilesInv, Harmless
  <2>2. StoredSettled'
    BY <1>4 DEF PutDropId, At, Goto, Idle, BaseInv, Promised, EntryOf, StoredSettled, KeepInv,
       Vids, Stamps, Null, FilesInv, Entries
  <2>3. StoredReplacing'
    BY <1>4 DEF PutDropId, At, Goto, BaseInv, Promised, EntryOf, StoredReplacing, KeepInv, Null,
       FilesInv
  <2>4. StoredPromoting'
    BY <1>4 DEF PutDropId, At, Goto, BaseInv, Promised, EntryOf, StoredPromoting, KeepInv, Null,
       FilesInv
  <2> QED BY <1>4, <2>1, <2>2, <2>3, <2>4, Frames DEF PutDropId, FilesInv
<1>5. CASE CompletePreserve
  <2>1. Harmless'
    BY <1>5 DEF CompletePreserve, At, Goto, CreateObjVersion, BaseInv, FilesInv, Harmless
  <2>2. EntriesPromised'
    BY <1>5, SourceIsEntry DEF CompletePreserve, At, Goto, CreateObjVersion, Idle, BaseInv,
       Promised, StoredSettled, StoredReplacing, KeepInv, Preserved, OpRecords, File, Vids, Stamps,
       Null, FilesInv, Harmless, EntriesPromised, Promises, AllStatuses, Writers, OpFits,
       NeverVersioned, PromisesNamed, TypeOK, Entries
  <2>3. StoredSettled'
    BY <1>5 DEF CompletePreserve, At, Goto, CreateObjVersion, Idle, BaseInv, Promised, EntryOf,
       StoredSettled, KeepInv, Vids, Stamps, Null, FilesInv, Entries
  <2>4. StoredReplacing'
    BY <1>5 DEF CompletePreserve, At, Goto, CreateObjVersion, Idle, BaseInv, Promised, EntryOf,
       StoredSettled, StoredReplacing, StoredPromoting, KeepInv, Preserved, OpRecords, File, Vids,
       Stamps, Null, FilesInv, EntriesPromised, Promises, AllStatuses, Writers, OpFits,
       NeverVersioned, TypeOK, Entries
  <2>5. StoredPromoting'
    BY <1>5 DEF CompletePreserve, At, Goto, CreateObjVersion, BaseInv, Promised, EntryOf,
       StoredPromoting, KeepInv, FilesInv
  <2> QED BY <1>5, <2>1, <2>2, <2>3, <2>4, <2>5 DEF CompletePreserve, FilesInv
<1>6. CASE Link
  <2>1. Harmless'
    BY <1>6 DEF Link, At, Finish, NewVid, Promise, Unlinked, Idle, BaseInv, FilesInv, Harmless
  <2>2. EntriesPromised'
    BY <1>6 DEF Link, At, Finish, NewVid, Promise, Unlinked, Idle, BaseInv, Promised,
       StoredReplacing, StoredPromoting, KeepInv, Preserved, Vids, Stamps, Null, FilesInv,
       EntriesPromised, Writers, OpFits, FilesNamed, Genuine, PromisesNamed, TypeOK, Entries
  <2>3. StoredSettled'
    <3> SUFFICES ASSUME failures = 0
                 PROVE  /\ Promised(live)' \in contract' /\ live'.vid \notin Entries'
                        /\ \A x \in contract' : Promised(live)' = x \/ EntryOf(x)'
                        /\ live' # NoFile
      BY <1>6 DEF StoredSettled, Link
    <3>1. live' \in File /\ live'.vid = NewVid /\ live'.at = writes + 1 /\ live'.marker = FALSE
      BY <1>6, NextStamp DEF Link, File, At, BaseInv
    <3>2. contract' = Promise(FALSE) /\ vdir' = vdir
      BY <1>6 DEF Link
    <3> QED BY <1>6, <3>1, <3>2, NewVersionStored DEF Link, At
  <2>4. StoredReplacing'
    BY <1>6 DEF Link, At, Finish, NewVid, Promise, Unlinked, Idle, BaseInv, Promised, EntryOf,
       StoredReplacing, KeepInv, Null, FilesInv
  <2>5. StoredPromoting'
    BY <1>6 DEF Link, At, Finish, NewVid, Promise, Unlinked, Idle, BaseInv, Promised, EntryOf,
       StoredPromoting, KeepInv, Null, FilesInv
  <2> QED BY <1>6, <2>1, <2>2, <2>3, <2>4, <2>5 DEF Link, FilesInv
<1>7. CASE StartDelete
  <2>1. Harmless'
    BY <1>7 DEF StartDelete, Idle, BaseInv, FilesInv, Harmless
  <2>2. StoredSettled'
    BY <1>7 DEF StartDelete, Idle, BaseInv, Promised, EntryOf, StoredSettled, KeepInv, Vids,
       Stamps, Null, FilesInv, Entries
  <2>3. StoredReplacing'
    BY <1>7 DEF StartDelete, Idle, BaseInv, Promised, EntryOf, StoredReplacing, KeepInv, Null,
       FilesInv
  <2>4. StoredPromoting'
    BY <1>7 DEF StartDelete, Idle, BaseInv, Promised, EntryOf, StoredPromoting, KeepInv, Null,
       FilesInv
  <2> QED BY <1>7, <2>1, <2>2, <2>3, <2>4, Frames DEF StartDelete, FilesInv
<1>8. CASE DeletePreserve
  <2>1. Harmless'
    BY <1>8 DEF DeletePreserve, At, Goto, CreateObjVersion, BaseInv, FilesInv, Harmless
  <2>2. EntriesPromised'
    BY <1>8, SourceIsEntry DEF DeletePreserve, At, Goto, CreateObjVersion, Idle, BaseInv, Promised,
       StoredSettled, StoredReplacing, StoredPromoting, KeepInv, OpRecords, File, Vids, Stamps,
       Null, FilesInv, EntriesPromised, Promises, AllStatuses, Writers, OpFits, NeverVersioned,
       FilesNamed, Genuine, TypeOK, Entries
  <2>3. StoredSettled'
    BY <1>8 DEF DeletePreserve, At, Goto, CreateObjVersion, Idle, BaseInv, Promised, EntryOf,
       StoredSettled, KeepInv, Vids, Stamps, Null, FilesInv, Entries
  <2>4. StoredReplacing'
    BY <1>8 DEF DeletePreserve, At, Goto, CreateObjVersion, Idle, BaseInv, Promised, EntryOf,
       StoredSettled, StoredReplacing, KeepInv, OpRecords, File, Vids, Stamps, Null, FilesInv,
       Harmless, Promises, AllStatuses, Writers, OpFits, TypeOK, Entries
  <2>5. StoredPromoting'
    BY <1>8 DEF DeletePreserve, At, Goto, CreateObjVersion, BaseInv, Promised, EntryOf,
       StoredPromoting, KeepInv, Null, FilesInv
  <2> QED BY <1>8, <2>1, <2>2, <2>3, <2>4, <2>5 DEF DeletePreserve, FilesInv
<1>9. CASE DeleteTruncate
  <2>1. Harmless'
    BY <1>9 DEF DeleteTruncate, At, Goto, BaseInv, FilesInv, Harmless
  <2>2. StoredSettled'
    BY <1>9 DEF DeleteTruncate, At, Goto, Idle, BaseInv, Promised, EntryOf, StoredSettled, KeepInv,
       Vids, Stamps, Null, FilesInv, Entries
  <2>3. StoredReplacing'
    BY <1>9 DEF DeleteTruncate, At, Goto, BaseInv, Promised, EntryOf, StoredReplacing, KeepInv,
       Null, FilesInv
  <2>4. StoredPromoting'
    BY <1>9 DEF DeleteTruncate, At, Goto, BaseInv, Promised, EntryOf, StoredPromoting, KeepInv,
       FilesInv
  <2> QED BY <1>9, <2>1, <2>2, <2>3, <2>4, Frames DEF DeleteTruncate, FilesInv
<1>10. CASE DeleteClear
  <2>1. Harmless'
    BY <1>10 DEF DeleteClear, At, Goto, BaseInv, FilesInv, Harmless
  <2>2. StoredSettled'
    BY <1>10 DEF DeleteClear, At, Goto, Idle, BaseInv, Promised, EntryOf, StoredSettled, KeepInv,
       Vids, Stamps, Null, FilesInv, Entries
  <2>3. StoredReplacing'
    BY <1>10 DEF DeleteClear, At, Goto, BaseInv, Promised, EntryOf, StoredReplacing, KeepInv, Null,
       FilesInv
  <2>4. StoredPromoting'
    BY <1>10 DEF DeleteClear, At, Goto, BaseInv, Promised, EntryOf, StoredPromoting, KeepInv, Null,
       FilesInv
  <2> QED BY <1>10, <2>1, <2>2, <2>3, <2>4, Frames DEF DeleteClear, FilesInv
<1>11. CASE DeleteMark
  <2>1. Harmless'
    BY <1>11 DEF DeleteMark, At, Goto, BaseInv, FilesInv, Harmless
  <2>2. StoredSettled'
    BY <1>11 DEF DeleteMark, At, Goto, Idle, BaseInv, Promised, EntryOf, StoredSettled, KeepInv,
       Vids, Stamps, Null, FilesInv, Entries
  <2>3. StoredReplacing'
    BY <1>11 DEF DeleteMark, At, Goto, BaseInv, Promised, EntryOf, StoredReplacing, KeepInv, Null,
       FilesInv
  <2>4. StoredPromoting'
    BY <1>11 DEF DeleteMark, At, Goto, BaseInv, Promised, EntryOf, StoredPromoting, KeepInv,
       FilesInv
  <2> QED BY <1>11, <2>1, <2>2, <2>3, <2>4, Frames DEF DeleteMark, FilesInv
<1>12. CASE DeleteStamp
  <2>1. Harmless'
    BY <1>12 DEF DeleteStamp, At, Finish, NewVid, Promise, Idle, BaseInv, FilesInv, Harmless
  <2>2. EntriesPromised'
    BY <1>12 DEF DeleteStamp, At, Finish, NewVid, Promise, Idle, BaseInv, Promised, KeepInv,
       OpRecords, File, Vids, Stamps, Null, FilesInv, Harmless, EntriesPromised, Promises,
       AllStatuses, NeverVersioned, Genuine, PromisesNamed, TypeOK, Entries
  <2>3. StoredSettled'
    <3> SUFFICES ASSUME failures = 0
                 PROVE  /\ Promised(live)' \in contract' /\ live'.vid \notin Entries'
                        /\ \A x \in contract' : Promised(live)' = x \/ EntryOf(x)'
                        /\ live' # NoFile
      BY <1>12 DEF StoredSettled, DeleteStamp
    <3>1. live' \in File /\ live'.vid = NewVid /\ live'.at = writes + 1 /\ live'.marker = TRUE
      BY <1>12, NextStamp DEF DeleteStamp, File, At, BaseInv, TypeOK, OpFits
    <3>2. contract' = Promise(TRUE) /\ vdir' = vdir
      BY <1>12 DEF DeleteStamp
    <3> QED BY <1>12, <3>1, <3>2, NewVersionStored DEF DeleteStamp, At
  <2>4. StoredReplacing'
    BY <1>12 DEF DeleteStamp, At, Finish, NewVid, Promise, Idle, BaseInv, Promised, EntryOf,
       StoredReplacing, KeepInv, Null, FilesInv
  <2>5. StoredPromoting'
    BY <1>12 DEF DeleteStamp, At, Finish, NewVid, Promise, Idle, BaseInv, Promised, EntryOf,
       StoredPromoting, KeepInv, Null, FilesInv
  <2> QED BY <1>12, <2>1, <2>2, <2>3, <2>4, <2>5 DEF DeleteStamp, FilesInv
<1>13. CASE DeleteRemove
  <2>1. Harmless'
    BY <1>13 DEF DeleteRemove, At, Finish, Unlinked, Idle, BaseInv, FilesInv, Harmless
  <2>2. EntriesPromised'
    BY <1>13 DEF DeleteRemove, At, Finish, Unlinked, Idle, BaseInv, Promised, KeepInv, Vids,
       Stamps, Null, FilesInv, EntriesPromised, Writers, OpFits, NeverVersioned, Entries
  <2>3. StoredSettled'
    BY <1>13 DEF DeleteRemove, At, Finish, Unlinked, Idle, BaseInv, Promised, EntryOf,
       StoredSettled, KeepInv, Vids, Stamps, Null, FilesInv, EntriesPromised, Writers, OpFits,
       NeverVersioned, Entries
  <2>4. StoredReplacing'
    BY <1>13 DEF DeleteRemove, At, Finish, Unlinked, Idle, BaseInv, Promised, EntryOf,
       StoredReplacing, KeepInv, Null, FilesInv
  <2>5. StoredPromoting'
    BY <1>13 DEF DeleteRemove, At, Finish, Unlinked, Idle, BaseInv, Promised, EntryOf,
       StoredPromoting, KeepInv, Null, FilesInv
  <2> QED BY <1>13, <2>1, <2>2, <2>3, <2>4, <2>5 DEF DeleteRemove, FilesInv
<1>14. ASSUME NEW v \in Vids, StartDeleteVersion(v) PROVE FilesInv'
  <2>1. Harmless'
    BY <1>14 DEF StartDeleteVersion, Idle, Assigned, BaseInv, FilesInv, Harmless
  <2>2. StoredSettled'
    BY <1>14 DEF StartDeleteVersion, Idle, Assigned, BaseInv, Promised, EntryOf, StoredSettled,
       KeepInv, Vids, Stamps, Null, FilesInv, Entries
  <2>3. StoredReplacing'
    BY <1>14 DEF StartDeleteVersion, Idle, Assigned, BaseInv, Promised, EntryOf, StoredReplacing,
       KeepInv, Vids, Stamps, Null, FilesInv
  <2>4. StoredPromoting'
    BY <1>14 DEF StartDeleteVersion, Idle, Assigned, BaseInv, Promised, EntryOf, StoredPromoting,
       KeepInv, Vids, Stamps, Null, FilesInv
  <2> QED BY <1>14, <2>1, <2>2, <2>3, <2>4, Frames DEF StartDeleteVersion, FilesInv
<1>15. CASE DeleteOldVersion
  <2>1. Harmless'
    BY <1>15 DEF DeleteOldVersion, At, Finish, DropPromise, Idle, BaseInv, FilesInv, Harmless
  <2>2. EntriesPromised'
    BY <1>15 DEF DeleteOldVersion, At, Finish, DropPromise, Idle, BaseInv, Promised, KeepInv, Vids,
       Stamps, Null, FilesInv, EntriesPromised, FilesNamed, Genuine, TypeOK, Entries
  <2>3. StoredSettled'
    BY <1>15 DEF DeleteOldVersion, At, Finish, DropPromise, Idle, BaseInv, Promised, EntryOf,
       StoredSettled, KeepInv, Vids, Stamps, Null, FilesInv, Writers, OpFits, Entries
  <2>4. StoredReplacing'
    BY <1>15 DEF DeleteOldVersion, At, Finish, DropPromise, Idle, BaseInv, Promised, EntryOf,
       StoredReplacing, KeepInv, Null, FilesInv
  <2>5. StoredPromoting'
    BY <1>15 DEF DeleteOldVersion, At, Finish, DropPromise, Idle, BaseInv, Promised, EntryOf,
       StoredPromoting, KeepInv, Null, FilesInv
  <2> QED BY <1>15, <2>1, <2>2, <2>3, <2>4, <2>5 DEF DeleteOldVersion, FilesInv
<1>16. CASE DeleteCurrent
  <2>1. Harmless'
    <3>1. op.kind = "deleteVersion" /\ op \in OpRecords
      BY <1>16 DEF DeleteCurrent, At, BaseInv, TypeOK
    <3>2. op'.kind # "delete"
      BY <1>16, <3>1 DEF DeleteCurrent, Finish, Goto, Idle, OpRecords
    <3> QED BY <1>16, <3>2 DEF DeleteCurrent, Harmless, FilesInv
  <2>2. EntriesPromised'
    BY <1>16, NextStamp DEF DeleteCurrent, At, Goto, Finish, Unlinked, DropPromise, Idle, BaseInv,
       Promised, StoredSettled, StoredReplacing, KeepInv, Vids, Stamps, Null, FilesInv,
       EntriesPromised, Writers, OpFits, FilesNamed, Genuine, TypeOK, Entries
  <2>3. StoredSettled'
    BY <1>16 DEF DeleteCurrent, At, Goto, Finish, Unlinked, DropPromise, Idle, BaseInv, Promised,
       EntryOf, StoredSettled, KeepInv, OpRecords, File, Vids, Stamps, Null, FilesInv, Writers,
       OpFits, TypeOK, Entries
  <2>4. StoredReplacing'
    BY <1>16 DEF DeleteCurrent, At, Goto, Finish, Unlinked, DropPromise, Idle, BaseInv, Promised,
       EntryOf, StoredReplacing, KeepInv, OpRecords, File, Vids, Stamps, Null, FilesInv, TypeOK,
       Entries
  <2>5. StoredPromoting'
    BY <1>16 DEF DeleteCurrent, At, Goto, Finish, Unlinked, DropPromise, Idle, BaseInv, Promised,
       EntryOf, StoredSettled, StoredPromoting, KeepInv, Vids, Stamps, Null, FilesInv, Writers,
       OpFits, Entries
  <2> QED BY <1>16, <2>1, <2>2, <2>3, <2>4, <2>5 DEF DeleteCurrent, FilesInv
<1>17. CASE Promote
  <2>1. Harmless'
    BY <1>17 DEF Promote, At, Goto, BaseInv, FilesInv, Harmless
  <2>2. StoredSettled'
    BY <1>17 DEF Promote, At, Goto, Idle, BaseInv, Promised, EntryOf, StoredSettled, KeepInv, Vids,
       Stamps, Null, FilesInv, Entries
  <2>3. StoredReplacing'
    BY <1>17 DEF Promote, At, Goto, BaseInv, Promised, EntryOf, StoredReplacing, KeepInv, Null,
       FilesInv
  <2>4. StoredPromoting'
    BY <1>17 DEF Promote, At, Goto, BaseInv, Promised, EntryOf, StoredPromoting, KeepInv, Null,
       FilesInv
  <2> QED BY <1>17, <2>1, <2>2, <2>3, <2>4, Frames DEF Promote, FilesInv
<1>18. CASE PromoteAttr
  <2>1. StoredSettled'
    BY <1>18, SourceIsEntry, NextStamp DEF PromoteAttr, At, NewVid, Promise, Idle, Attributes,
       BaseInv, Promised, EntryOf, StoredSettled, StoredReplacing, StoredPromoting, KeepInv,
       Preserved, Vids, Stamps, Null, FilesInv, Harmless, EntriesPromised, NeverVersioned,
       FilesNamed, Genuine, PromisesNamed, Entries
  <2> QED BY <1>18, <2>1, Frames DEF PromoteAttr, FilesInv
<1>19. CASE PromoteUnlink
  <2>1. Harmless'
    BY <1>19 DEF PromoteUnlink, At, Finish, Idle, Attributes, BaseInv, FilesInv, Harmless
  <2>2. EntriesPromised'
    BY <1>19 DEF PromoteUnlink, At, Finish, Idle, Attributes, BaseInv, Promised, KeepInv, Vids,
       Stamps, Null, FilesInv, EntriesPromised, Entries
  <2>3. StoredSettled'
    BY <1>19, SourceIsEntry, NextStamp DEF PromoteUnlink, At, Finish, NewVid, Promise, Idle,
       Attributes, BaseInv, Promised, EntryOf, StoredSettled, StoredReplacing, StoredPromoting,
       KeepInv, Preserved, OpRecords, File, Vids, Stamps, Null, FilesInv, Harmless,
       EntriesPromised, Promises, AllStatuses, Writers, OpFits, NeverVersioned, FilesNamed,
       Genuine, PromisesNamed, TypeOK, Entries
  <2>4. StoredReplacing'
    BY <1>19 DEF PromoteUnlink, At, Finish, Idle, Attributes, BaseInv, Promised, EntryOf,
       StoredReplacing, KeepInv, Null, FilesInv
  <2>5. StoredPromoting'
    BY <1>19 DEF PromoteUnlink, At, Finish, Idle, Attributes, BaseInv, Promised, EntryOf,
       StoredPromoting, KeepInv, Null, FilesInv
  <2> QED BY <1>19, <2>1, <2>2, <2>3, <2>4, <2>5 DEF PromoteUnlink, FilesInv
<1>20. CASE Fail
  <2>1. Harmless'
    BY <1>20 DEF Fail, At, Finish, Idle, BaseInv, FilesInv, Harmless, TypeOK, OpFits
  <2>2. EntriesPromised'
    BY <1>20 DEF Fail, At, Finish, Idle, BaseInv, Promised, KeepInv, Vids, Stamps, Null, FilesInv,
       EntriesPromised, TypeOK, Entries
  <2>3. StoredSettled'
    BY <1>20 DEF Fail, At, Finish, Idle, BaseInv, Promised, EntryOf, StoredSettled, KeepInv, Vids,
       Stamps, Null, FilesInv, TypeOK, Entries
  <2>4. StoredReplacing'
    BY <1>20 DEF Fail, At, Finish, Idle, BaseInv, Promised, EntryOf, StoredReplacing, KeepInv,
       Null, FilesInv
  <2>5. StoredPromoting'
    BY <1>20 DEF Fail, At, Finish, Idle, BaseInv, Promised, EntryOf, StoredPromoting, KeepInv,
       Null, FilesInv
  <2> QED BY <1>20, <2>1, <2>2, <2>3, <2>4, <2>5 DEF Fail, FilesInv
<1>21. ASSUME NEW s \in Statuses, PutBucketVersioning(s) PROVE FilesInv'
  BY <1>21, Frames DEF PutBucketVersioning, FilesInv
<1>22. ASSUME NEW want \in Vids, GetResolve(want) PROVE FilesInv'
  BY <1>22, Frames DEF GetResolve, FilesInv
<1>23. CASE GetStat
  BY <1>23, Frames DEF GetStat, FilesInv
<1>24. CASE GetEtag
  BY <1>24, Frames DEF GetEtag, FilesInv
<1>25. CASE GetOpen
  BY <1>25, Frames DEF GetOpen, FilesInv
<1>26. CASE GetSend
  BY <1>26, Frames DEF GetSend, FilesInv
<1>27. CASE GetAgain
  BY <1>27, Frames DEF GetAgain, FilesInv
<1> QED
  BY <1>1, <1>2, <1>3, <1>4, <1>5, <1>6, <1>7, <1>8, <1>9, <1>10, <1>11, <1>12, <1>13, <1>14,
     <1>15, <1>16, <1>17, <1>18, <1>19, <1>20, <1>21, <1>22, <1>23, <1>24, <1>25, <1>26, <1>27 DEF
     Next, Write, Delete, DeleteVersion, Get

\* What GetObject has read of an older version stays right, though the entry comes and goes.
LEMMA GetStep ==
  ASSUME BaseInv, KeepInv, FilesInv, GetFits, Next PROVE GetFits'
<1> USE VersionsAssumption, NoFileAssumption
<1>1. CASE Link
  <2>1. GetFits'
    BY <1>1 DEF Link, At, Finish, NewVid, Promise, Unlinked, Idle, BaseInv, GetFits, GetRecords,
       Object, DeleteMarker, KeepInv, FilesInv, OpRecords, Promises, Vids, Stamps, Null, OpFits,
       TypeOK, Entries
  <2> QED BY <2>1 DEF GetFits
<1>2. CASE DeleteTruncate
  <2>1. GetFits'
    BY <1>2 DEF DeleteTruncate, At, Goto, BaseInv, GetFits, Object, DeleteMarker, KeepInv,
       FilesInv, Null
  <2> QED BY <2>1 DEF GetFits
<1>3. CASE DeleteStamp
  <2>1. GetFits'
    BY <1>3 DEF DeleteStamp, At, Finish, NewVid, Promise, Idle, BaseInv, GetFits, GetRecords,
       Object, DeleteMarker, KeepInv, FilesInv, OpRecords, Promises, Vids, Stamps, Null, OpFits,
       TypeOK, Entries
  <2> QED BY <2>1 DEF GetFits
<1>4. CASE DeleteRemove
  <2>1. GetFits'
    BY <1>4 DEF DeleteRemove, At, Finish, Unlinked, Idle, BaseInv, GetFits, Object, DeleteMarker,
       KeepInv, FilesInv, Null
  <2> QED BY <2>1 DEF GetFits
<1>5. CASE DeleteOldVersion
  <2>1. GetFits'
    BY <1>5 DEF DeleteOldVersion, At, Finish, DropPromise, Idle, BaseInv, GetFits, Object,
       DeleteMarker, KeepInv, FilesInv, Null
  <2> QED BY <2>1 DEF GetFits
<1>6. CASE DeleteCurrent
  <2>1. GetFits'
    BY <1>6 DEF DeleteCurrent, At, Goto, Finish, Unlinked, DropPromise, Idle, BaseInv, GetFits,
       Object, DeleteMarker, KeepInv, FilesInv, Vids, Stamps, Null, Entries
  <2> QED BY <2>1 DEF GetFits
<1>7. CASE Fail
  <2>1. GetFits'
    BY <1>7 DEF Fail, At, Finish, Idle, BaseInv, GetFits, Object, DeleteMarker, KeepInv, FilesInv,
       Null, TypeOK, Entries
  <2> QED BY <2>1 DEF GetFits
<1>8. ASSUME NEW want \in Vids, GetResolve(want) PROVE GetFits'
  <2>1. GetFits'
    BY <1>8 DEF GetResolve, BaseInv, GetFits, Object, DeleteMarker, KeepInv, FilesInv, Vids,
       Stamps, Null
  <2> QED BY <2>1 DEF GetFits
<1>9. CASE GetStat
  <2>1. GetFits'
    <3>1. get \in GetRecords
      BY <1>9 DEF BaseInv, TypeOK
    <3>2. get'.onLive = get.onLive /\ get'.inVdir = get.inVdir /\ get'.want = get.want
            /\ get'.pc \in {"error", "etag"}
      BY <1>9, <3>1 DEF GetStat, GetRecords
    <3>3. ASSUME get.inVdir, get.want # Null, get'.pc = "etag", failures = 0
          PROVE  get.want <= writes /\ DeleteMarker(get.want) \notin contract
      <4> DEFINE f == vdir[get.want]
      <4>1. get.want \in Vids /\ f # NoFile /\ ~f.marker
        BY <1>9, <3>1, <3>3 DEF GetStat, GetRecords, GetPath
      <4>2. get.want \in Entries
        BY <1>9, <4>1 DEF Entries
      <4>3. f.vid = get.want /\ f.at = get.want /\ get.want <= writes /\ f \in File
        BY <1>9, <3>3, <4>1, <4>2 DEF BaseInv, FilesNamed, Genuine, TypeOK
      <4>4. Promised(f) \in contract
        BY <1>9, <3>3, <4>2 DEF FilesInv, EntriesPromised
      <4>5. Promised(f) = Object(get.want)
        BY <1>9, <4>1, <4>3 DEF Promised, Object, File
      <4>6. ASSUME DeleteMarker(get.want) \in contract PROVE FALSE
        BY <1>9, <4>4, <4>5, <4>6 DEF BaseInv, PromisesNamed, Object, DeleteMarker
      <4> QED BY <1>9, <4>3, <4>6
    <3> QED BY <1>9, <3>2, <3>3 DEF GetFits, GetStat, Object, DeleteMarker
  <2> QED BY <2>1 DEF GetFits
<1>10. CASE GetEtag
  <2>1. GetFits'
    BY <1>10 DEF GetEtag, GetPath, BaseInv, GetFits, GetRecords, Object, DeleteMarker, KeepInv,
       FilesInv, Promised, Null, FilesNamed, Genuine, PromisesNamed, TypeOK, Entries
  <2> QED BY <2>1 DEF GetFits
<1>11. CASE GetOpen
  <2>1. GetFits'
    <3>1. get \in GetRecords
      BY <1>11 DEF BaseInv, TypeOK
    <3>2. CASE GetPath = NoFile
      <4>1. get'.onLive = get.onLive /\ get'.pc = "error" /\ ~get.onLive
        BY <1>11, <3>1, <3>2 DEF GetOpen, GetRecords, GetFits
      <4> QED BY <1>11, <4>1 DEF GetFits
    <3>3. CASE GetPath # NoFile
      <4>1. /\ get'.pc = "body" /\ get'.inVdir = get.inVdir /\ get'.onLive = ~get.inVdir
            /\ get'.want = get.want /\ get'.etag = get.etag
            /\ get'.body = GetPath.at /\ get'.full = GetPath.full
        BY <1>11, <3>1, <3>3 DEF GetOpen, GetRecords
      <4>2. ASSUME get.inVdir, get.want # Null
            PROVE  /\ get.etag \in {get.want, 0} /\ GetPath.at = get.want /\ get.want <= writes
                   /\ failures = 0 \/ (~emptied /\ Object(get.want) \in contract) => GetPath.full
        <5> DEFINE f == vdir[get.want]
        <5>1. get.want \in Vids /\ GetPath = f /\ f # NoFile /\ get.want \in Stamps
          BY <1>11, <3>1, <3>3, <4>2 DEF GetPath, GetRecords, Vids
        <5>2. get.want \in Entries
          BY <1>11, <5>1 DEF Entries
        <5>3. f.vid = get.want /\ f.at = get.want /\ get.want <= writes /\ f \in File
          BY <1>11, <4>2, <5>1, <5>2 DEF BaseInv, FilesNamed, Genuine, TypeOK
        <5>4. ASSUME failures = 0 PROVE ~emptied /\ Object(get.want) \in contract
          <6>1. Promised(f) \in contract
            BY <1>11, <5>2, <5>4 DEF FilesInv, EntriesPromised
          <6>2. DeleteMarker(get.want) \notin contract
            BY <1>11, <4>2, <5>4 DEF GetFits, GetOpen
          <6>3. CASE f.marker = TRUE
            BY <1>11, <5>3, <6>1, <6>2, <6>3 DEF Promised, DeleteMarker
          <6>4. CASE f.marker = FALSE
            <7>1. Promised(f) = Object(get.want)
              BY <1>11, <5>3, <6>4 DEF Promised, Object
            <7>2. ~emptied
              BY <1>11, <5>4 DEF FilesInv, Harmless
            <7> QED BY <1>11, <6>1, <7>1, <7>2
          <6> QED BY <1>11, <5>3, <6>3, <6>4 DEF File
        <5>5. ~emptied /\ Object(get.want) \in contract => f.full
          BY <1>11, <5>1 DEF KeepInv, ObjectsWhole
        <5>6. get.etag \in {get.want, 0}
          BY <1>11, <4>2 DEF GetFits, GetOpen
        <5> QED BY <1>11, <5>1, <5>3, <5>4, <5>5, <5>6
      <4>3. UNCHANGED <<writes, failures, emptied, contract>>
        BY <1>11 DEF GetOpen
      <4> HIDE DEF GetPath
      <4> QED BY <1>11, <4>1, <4>2, <4>3 DEF GetFits, Object
    <3> QED BY <1>11, <3>2, <3>3
  <2> QED BY <2>1 DEF GetFits
<1>12. CASE GetSend
  <2>1. GetFits'
    BY <1>12 DEF GetSend, BaseInv, GetFits, Object, DeleteMarker, KeepInv, FilesInv, Null
  <2> QED BY <2>1 DEF GetFits
<1>13. CASE GetAgain
  <2>1. GetFits'
    BY <1>13 DEF GetAgain, BaseInv, GetFits, Object, DeleteMarker, KeepInv, FilesInv, Null, NoGet
  <2> QED BY <2>1 DEF GetFits
<1>14. ASSUME NEW s \in Statuses, PutBucketVersioning(s) PROVE GetFits'
  BY <1>14, Frames DEF PutBucketVersioning, GetFits
<1>15. ASSUME NEW k \in {"put", "complete"}, StartWrite(k) PROVE GetFits'
  BY <1>15, Frames DEF StartWrite, GetFits
<1>16. CASE PutPreserve
  BY <1>16, Frames DEF PutPreserve, GetFits
<1>17. CASE PutDropNull
  BY <1>17, Frames DEF PutDropNull, GetFits
<1>18. CASE PutDropId
  BY <1>18, Frames DEF PutDropId, GetFits
<1>19. CASE CompletePreserve
  BY <1>19, Frames DEF CompletePreserve, GetFits
<1>20. CASE StartDelete
  BY <1>20, Frames DEF StartDelete, GetFits
<1>21. CASE DeletePreserve
  BY <1>21, Frames DEF DeletePreserve, GetFits
<1>22. CASE DeleteClear
  BY <1>22, Frames DEF DeleteClear, GetFits
<1>23. CASE DeleteMark
  BY <1>23, Frames DEF DeleteMark, GetFits
<1>24. ASSUME NEW v \in Vids, StartDeleteVersion(v) PROVE GetFits'
  BY <1>24, Frames DEF StartDeleteVersion, GetFits
<1>25. CASE Promote
  BY <1>25, Frames DEF Promote, GetFits
<1>26. CASE PromoteAttr
  BY <1>26, Frames DEF PromoteAttr, GetFits
<1>27. CASE PromoteUnlink
  BY <1>27, Frames DEF PromoteUnlink, GetFits
<1> QED
  BY <1>1, <1>2, <1>3, <1>4, <1>5, <1>6, <1>7, <1>8, <1>9, <1>10, <1>11, <1>12, <1>13, <1>14,
     <1>15, <1>16, <1>17, <1>18, <1>19, <1>20, <1>21, <1>22, <1>23, <1>24, <1>25, <1>26, <1>27 DEF
     Next, Write, Delete, DeleteVersion, Get

\* A key without files satisfies all of it.
LEMMA InitHolds == Init => BaseInv /\ KeepInv /\ FilesInv /\ GetFits
<1> SUFFICES ASSUME Init PROVE BaseInv /\ KeepInv /\ FilesInv /\ GetFits
  OBVIOUS
<1> USE VersionsAssumption, NoFileAssumption
<1>1. TypeOK
  <2>1. op \in OpRecords
    BY VidZero DEF Init, Idle, OpRecords, Steps, AllStatuses
  <2>2. get \in GetRecords
    BY VidZero DEF Init, NoGet, GetRecords
  <2>3. writes \in 0..MaxWrites /\ failures \in 0..MaxFailures
    BY DEF Init
  <2> QED BY <2>1, <2>2, <2>3 DEF Init, TypeOK
<1>2. Entries = {}
  BY DEF Init, Entries
<1>3. BaseInv
  BY <1>1, <1>2 DEF Init, BaseInv, OpFits, NeverVersioned, FilesNamed, PromisesNamed, Idle, At
<1>4. KeepInv
  BY DEF Init, KeepInv, Preserved, ObjectsWhole, Idle
<1>5. FilesInv
  BY <1>2 DEF Init, FilesInv, Harmless, EntriesPromised, StoredSettled, StoredReplacing,
     StoredPromoting, Idle
<1>6. GetFits
  BY DEF Init, GetFits, NoGet
<1> QED BY <1>3, <1>4, <1>5, <1>6

\* So does a step that changes nothing.
LEMMA Stutters ==
  ASSUME UNCHANGED vars
  PROVE  (BaseInv => BaseInv') /\ (KeepInv => KeepInv') /\ (FilesInv => FilesInv') /\ (GetFits
           => GetFits')
<1>1. TypeOK => TypeOK'
  BY DEF TypeOK, vars
<1> QED BY <1>1, Frames DEF vars, BaseInv, KeepInv, FilesInv

\* The files, promises and requests keep their types, whatever the requests are.
THEOREM TypeCorrect == Spec => []TypeOK
<1>1. BaseInv /\ [Next]_vars => BaseInv'
  BY BaseStep, Stutters
<1>2. BaseInv => TypeOK
  BY DEF BaseInv
<1> QED BY <1>1, <1>2, InitHolds, PTL DEF Spec

\* The kept invariant gives the property.
LEMMA ObjectsStored == BaseInv /\ KeepInv => NoVersionLost
<1> SUFFICES ASSUME BaseInv, KeepInv, ~emptied, NEW x \in contract, x.vid # Null, ~x.marker
             PROVE  \E f \in Versions : f.vid = x.vid /\ f.at = x.at /\ f.full
  BY DEF NoVersionLost
<1>1. x \in Promises /\ x.vid \in Stamps /\ x.at = x.vid
  BY DEF BaseInv, TypeOK, PromisesNamed, Promises, Vids
<1>2. x = Object(x.vid)
  BY <1>1 DEF Promises, Object
<1>3. x.vid \in Vids
  BY <1>1 DEF Vids
<1>4. CASE vdir[x.vid] # NoFile
  <2>1. vdir[x.vid].full
    BY <1>1, <1>2, <1>4 DEF KeepInv, ObjectsWhole
  <2>2. vdir[x.vid].vid = x.vid /\ vdir[x.vid].at = x.at
    BY <1>1, <1>3, <1>4 DEF BaseInv, FilesNamed, Genuine, Entries
  <2> QED BY <1>3, <1>4, <2>1, <2>2 DEF Versions
<1>5. CASE vdir[x.vid] = NoFile
  <2>1. live # NoFile /\ live.vid = x.vid
    BY <1>1, <1>2, <1>5 DEF KeepInv, ObjectsWhole
  <2>2. ~At({"delete"}, "clear")
    BY <1>5, <2>1 DEF KeepInv, Preserved, Replacing
  <2>3. live.full
    BY <1>1, <1>2, <2>1, <2>2 DEF KeepInv, ObjectsWhole
  <2>4. live.at = x.at
    BY <1>1, <2>1 DEF BaseInv, FilesNamed, Genuine
  <2> QED BY <2>1, <2>3, <2>4 DEF Versions
<1> QED BY <1>4, <1>5

\* No version with an ID that no request deleted is lost, at any step of a request and after any
\* number of failed requests, in a bucket whatever its status, as long as
\* CompleteMultipartUpload is not called while versioning is suspended.
THEOREM VersionsKept == "complete" \notin Requests["Suspended"] => (Spec => []NoVersionLost)
<1> SUFFICES ASSUME "complete" \notin Requests["Suspended"] PROVE Spec => []NoVersionLost
  OBVIOUS
<1>1. BaseInv /\ KeepInv /\ [Next]_vars => BaseInv' /\ KeepInv'
  BY BaseStep, KeepStep, Stutters
<1> QED BY <1>1, ObjectsStored, InitHolds, PTL DEF Spec

\* Between requests the live file and the directory are the promised versions.
LEMMA FilesMatch == BaseInv /\ FilesInv => StoredMatchesContract
<1> SUFFICES ASSUME BaseInv, FilesInv, op = Idle, failures = 0
             PROVE  /\ {Promised(f) : f \in Versions} = contract
                    /\ \A v \in Entries : vdir[v].vid = v /\ (live # NoFile => v # live.vid)
                    /\ live = NoFile => Entries = {}
  BY DEF StoredMatchesContract, Promised
<1>1. /\ live # NoFile => Promised(live) \in contract /\ live.vid \notin Entries
      /\ \A x \in contract : (live # NoFile /\ Promised(live) = x) \/ EntryOf(x)
      /\ live = NoFile => Entries = {}
  BY DEF FilesInv, StoredSettled
<1>2. ASSUME NEW f \in Versions PROVE Promised(f) \in contract
  <2>1. CASE f = live /\ live # NoFile
    BY <1>1, <2>1
  <2>2. ASSUME NEW v \in Vids, f = vdir[v], f # NoFile PROVE Promised(f) \in contract
    BY <2>2 DEF FilesInv, EntriesPromised, Entries
  <2> QED BY <2>1, <2>2 DEF Versions
<1>3. ASSUME NEW x \in contract PROVE \E f \in Versions : x = Promised(f)
  <2>1. x.vid \in Vids
    BY DEF BaseInv, TypeOK, Promises
  <2>2. CASE live # NoFile /\ Promised(live) = x
    BY <2>2 DEF Versions
  <2>3. CASE EntryOf(x)
    BY <2>1, <2>3 DEF Versions, EntryOf
  <2> QED BY <1>1, <2>2, <2>3
<1>4. \A v \in Entries : vdir[v].vid = v
  BY DEF BaseInv, FilesNamed
<1> QED BY <1>1, <1>2, <1>3, <1>4

\* What GetFits says of a finished GET.
LEMMA ReadsRight == GetFits => OldVersionReadStable
BY DEF GetFits, OldVersionReadStable, Object

\* The three layers together, for requests without multipart completions and deletes (without
\* a version ID) in a suspended bucket.
THEOREM InductiveInvariant ==
  {"complete", "delete"} \cap Requests["Suspended"] = {} => (Spec => []IInv)
<1> SUFFICES ASSUME {"complete", "delete"} \cap Requests["Suspended"] = {} PROVE Spec => []IInv
  OBVIOUS
<1>1. Init => IInv
  BY InitHolds DEF IInv
<1>2. "complete" \notin Requests["Suspended"]
  OBVIOUS
<1>3. ASSUME IInv, [Next]_vars PROVE IInv'
  <2>1. CASE Next
    BY <1>2, <1>3, <2>1, BaseStep, KeepStep, FilesStep, GetStep DEF IInv
  <2>2. CASE UNCHANGED vars
    BY <1>3, <2>2, Stutters DEF IInv
  <2> QED BY <1>3, <2>1, <2>2
<1> QED BY <1>1, <1>3, PTL DEF Spec

\* Under the same condition the stored files are exactly the versions that S3 promises while no
\* request has failed half way.
THEOREM FilesAsPromised ==
  {"complete", "delete"} \cap Requests["Suspended"] = {} => (Spec => []StoredMatchesContract)
<1> SUFFICES ASSUME {"complete", "delete"} \cap Requests["Suspended"] = {}
             PROVE  Spec => []StoredMatchesContract
  OBVIOUS
<1>1. IInv => StoredMatchesContract
  BY FilesMatch DEF IInv
<1> QED BY <1>1, InductiveInvariant, PTL

\* Under the same condition GetObject of an older version returns its bytes in full with their
\* ETag or the default one, though writers move the files while it reads.
THEOREM OldReadsStable ==
  {"complete", "delete"} \cap Requests["Suspended"] = {} => (Spec => []OldVersionReadStable)
<1> SUFFICES ASSUME {"complete", "delete"} \cap Requests["Suspended"] = {}
             PROVE  Spec => []OldVersionReadStable
  OBVIOUS
<1>1. IInv => OldVersionReadStable
  BY ReadsRight DEF IInv
<1> QED BY <1>1, InductiveInvariant, PTL

=============================================================================
