------------------------------ MODULE Multipart ------------------------------
(***************************************************************************)
(* One multipart upload of backend/posix/posix.go.  The parts are files in  *)
(* a directory named after the upload ID.  UploadPart and                   *)
(* AbortMultipartUpload take no lock; CompleteMultipartUpload holds the     *)
(* object's mutation lock and renames the directory to a claim name made    *)
(* from the ETags it was given, so that UploadPart no longer finds it.      *)
(* Directories have an identity: who holds a descriptor of one still works  *)
(* on it after a rename.                                                    *)
(*                                                                         *)
(* A number stands for the content of one uploaded part and for its ETag;    *)
(* what is decided about parts is in MultipartRules.  The attributes of an   *)
(* upload are extended attributes of its directory.                         *)
(***************************************************************************)
EXTENDS MultipartRules, FiniteSets

CONSTANTS Parts,       \* part numbers
          MaxContents, \* bound on UploadPart calls
          MaxDirs,     \* bound on directories of the upload that are ever made
          MaxFaults,   \* bound on I/O errors and crashes
          Uploaders,   \* concurrent UploadPart requests
          OTmpfile,    \* those with an O_TMPFILE; the others use fallbackLink()
          Patient,     \* those whose client neither completes nor aborts while they run
          Options,     \* the attributes CreateMultipartUpload is asked for
          Small,       \* the contents below MinPartSize
          Foreign      \* an object some other request stored under the key

ASSUME MultipartAssumption == /\ Parts \subseteq Nat /\ IsFiniteSet(Parts)
                              /\ {MaxContents, MaxFaults} \subseteq Nat /\ MaxDirs \in Nat \ {0}
                              /\ OTmpfile \cup Patient \subseteq Uploaders
                              /\ Options \subseteq SUBSET Attributes /\ Small \subseteq Nat

Contents == 0..MaxContents          \* 0: no such part
Dirs == 1..MaxDirs
Bodies == [Parts -> Contents]
Empty == [p \in Parts |-> 0]

VARIABLES create,  \* CreateMultipartUpload: new, storing, done, failed
          opts,    \* what it was asked for
          attrs,   \* directory -> its attributes
          kind,    \* content -> how its part is stored
          named,   \* the directory named <uploadID>, or 0
          claims,  \* the directories with a claim name, and the list that made it
          dirs,    \* directory -> its parts
          made,    \* directories made so far
          obj,     \* the object under the key: a body, Foreign, or Empty if none
          n,       \* UploadPart calls so far
          acked,   \* part -> an ETag the client was told
          up,      \* the UploadPart requests
          comp,    \* the CompleteMultipartUpload request that has the mutation lock
          ab,      \* the AbortMultipartUpload request
          faults,
          blind,   \* the parts received while the attributes of the upload were not to be read
          crashed, \* whether a gateway has died
          refused, \* whether a completion was turned down that had all it was told
          aborted, \* whether an abort has started
          stored,  \* whether a completion has made the object
          answered \* whether a completion was answered with success

upload == <<create, opts, attrs>>
vars == <<create, opts, attrs, kind, named, claims, dirs, made, obj, n, acked, up, comp, ab, faults,
          blind, crashed, refused, aborted, stored, answered>>
ghosts == <<blind, crashed, refused, aborted, stored, answered>>

NoKind == [sum |-> FALSE, told |-> FALSE, enc |-> FALSE]
NoUp == [pc |-> "idle", part |-> 0, content |-> 0, dir |-> 0, copy |-> "no"]
NoComp == [pc |-> "idle", list |-> Empty, body |-> Empty, dir |-> 0, enc |-> FALSE]
NoAb == [pc |-> "idle", dir |-> 0]

UploadRecords == [pc : {"idle", "load", "sums", "link", "linkat"}, part : Parts \cup {0},
                  content : Contents, dir : 0..MaxDirs, copy : {"no", "yes", "through"}]
CompleteRecords == [pc : {"idle", "load", "look", "claim", "check", "copy", "remove", "return"},
                    list : Bodies, body : Bodies, dir : 0..MaxDirs, enc : BOOLEAN]
AbortRecords == [pc : {"idle", "open", "remove", "rmdir"}, dir : 0..MaxDirs]
ClaimRecords == [list : Bodies, dir : Dirs]

TypeOK ==
  /\ create \in {"new", "storing", "done", "failed"}
  /\ opts \subseteq Attributes
  /\ attrs \in [Dirs -> SUBSET Attributes]
  /\ kind \in [1..MaxContents -> Kinds]
  /\ named \in 0..MaxDirs
  /\ claims \subseteq ClaimRecords
  /\ dirs \in [Dirs -> Bodies]
  /\ made \in 0..MaxDirs
  /\ obj \in Bodies \cup {Foreign}
  /\ n \in Contents
  /\ acked \in Bodies
  /\ up \in [Uploaders -> UploadRecords]
  /\ comp \in CompleteRecords
  /\ ab \in AbortRecords
  /\ faults \in 0..MaxFaults
  /\ blind \subseteq Contents
  /\ crashed \in BOOLEAN /\ refused \in BOOLEAN /\ aborted \in BOOLEAN
  /\ stored \in BOOLEAN /\ answered \in BOOLEAN

\* The key may have an object already.
Init == /\ create = "new" /\ opts \in Options
        /\ attrs = [d \in Dirs |-> {}]
        /\ kind = [c \in 1..MaxContents |-> NoKind]
        /\ named = 0 /\ made = 0 /\ claims = {}
        /\ dirs = [d \in Dirs |-> Empty]
        /\ obj \in {Empty, Foreign}
        /\ n = 0 /\ acked = Empty
        /\ up = [u \in Uploaders |-> NoUp]
        /\ comp = NoComp /\ ab = NoAb
        /\ faults = 0
        /\ blind = {} /\ crashed = FALSE /\ refused = FALSE /\ aborted = FALSE
        /\ stored = FALSE /\ answered = FALSE

Linked(d) == d = named \/ \E c \in claims : c.dir = d

----------------------------------------------------------------------------
(* CreateMultipartUpload: nobody else knows the upload ID before it is answered. *)

CreateUpload == /\ create = "new"
                /\ create' = "storing" /\ made' = 1 /\ named' = 1
                /\ UNCHANGED <<opts, attrs, kind, claims, dirs, obj, n, acked, up, comp, ab, faults, ghosts>>

Missing == {i \in DOMAIN AttributeOrder : AttributeOrder[i] \in opts \ attrs[1]}

\* One attribute after the other, and the answer.
StoreAttribute ==
  /\ create = "storing"
  /\ IF Missing = {} THEN create' = "done" /\ attrs' = attrs
     ELSE LET i == CHOOSE i \in Missing : \A j \in Missing : i <= j
          IN  attrs' = [attrs EXCEPT ![1] = @ \cup {AttributeOrder[i]}] /\ create' = create
  /\ UNCHANGED <<opts, kind, named, claims, dirs, made, obj, n, acked, up, comp, ab, faults, ghosts>>

\* An attribute cannot be stored: the directory is removed.
CreateFails == /\ create = "storing" /\ faults < MaxFaults
               /\ faults' = faults + 1
               /\ create' = "failed" /\ named' = 0
               /\ UNCHANGED <<opts, attrs, kind, claims, dirs, made, obj, n, acked, up, comp, ab, ghosts>>

----------------------------------------------------------------------------
(* UploadPart and UploadPartCopy *)

\* The upload directory must exist.
StatUpload(u, copy) ==
  /\ create = "done" /\ up[u] = NoUp /\ n < MaxContents
  /\ u \in Patient => comp = NoComp /\ ab = NoAb
  /\ named # 0
  /\ n' = n + 1
  /\ \E p \in Parts : up' = [up EXCEPT ![u] = [NoUp EXCEPT !.pc = "load", !.part = p, !.content = n', !.copy = copy]]
  /\ UNCHANGED <<upload, kind, named, claims, dirs, made, obj, acked, comp, ab, faults, ghosts>>

UploadPart(u) == StatUpload(u, "no")
UploadPartCopy(u) == StatUpload(u, "yes")

\* Its attributes are read by the upload ID, which may have gone meanwhile.
Known == IF named = 0 THEN {} ELSE attrs[named]

Goes(u, pc, k) == /\ up' = [up EXCEPT ![u].pc = pc, ![u].copy = IF pc = "link" THEN "no" ELSE @]
                  /\ kind' = [kind EXCEPT ![up[u].content] = k]
                  /\ blind' = IF Known = opts THEN blind ELSE blind \cup {up[u].content}

Turned(u) == up' = [up EXCEPT ![u] = NoUp] /\ UNCHANGED <<kind, blind>>

NotUploads == <<upload, named, claims, dirs, made, obj, n, acked, comp, ab, faults,
                crashed, refused, aborted, stored, answered>>

\* The client sends the key the upload was created with.
Key == IF "ssec" \in opts THEN "right" ELSE "none"

\* First the encryption.
LoadPart(u) ==
  /\ up[u].pc = "load" /\ up[u].copy # "yes"
  /\ IF multipartIntent(Known, Key)
     THEN Goes(u, "sums", [NoKind EXCEPT !.enc = loadMultipartEncryption(Known)])
     ELSE Turned(u)
  /\ UNCHANGED NotUploads

\* A copy goes on as an UploadPart, which looks for the upload again, or by itself.
CopySource(u) ==
  /\ up[u].pc = "load" /\ up[u].copy = "yes"
  /\ \E encrypted \in BOOLEAN :
       IF CopyThroughUpload(Known, encrypted)
       THEN IF named = 0 THEN Turned(u)
            ELSE up' = [up EXCEPT ![u].copy = "through"] /\ UNCHANGED <<kind, blind>>
       ELSE Goes(u, "sums", NoKind)
  /\ UNCHANGED NotUploads

\* Then the checksum algorithm; the body is received, its checksum, if the upload has
\* an algorithm, and its encryption are stored with it.
ReceivePart(u) ==
  /\ up[u].pc = "sums" /\ up[u].copy # "yes"
  /\ \E sum \in IF up[u].copy = "no" THEN Declared ELSE {"none"} :
       IF DeclarationFits(Known, sum)
       THEN Goes(u, "link", [kind[up[u].content] EXCEPT !.sum = HasSum(Known), !.told = AnsweredSum(Known, sum)])
       ELSE Turned(u)
  /\ UNCHANGED NotUploads

CopyData(u) ==
  /\ up[u].pc = "sums" /\ up[u].copy = "yes"
  /\ Goes(u, "link", [NoKind EXCEPT !.sum = CopiedSum(Known), !.told = HasSum(Known)])
  /\ UNCHANGED NotUploads

\* MkdirAll makes the upload directory again if it is not there.
LinkMkdir(u) == /\ up[u].pc = "link" /\ named = 0 /\ made < MaxDirs
                /\ made' = made + 1
                /\ named' = made'
                /\ UNCHANGED <<upload, kind, claims, dirs, obj, n, acked, up, comp, ab, faults, ghosts>>

PutPart(u, d) == /\ dirs' = [dirs EXCEPT ![d][up[u].part] = up[u].content]
                 /\ acked' = [acked EXCEPT ![up[u].part] = up[u].content]
                 /\ up' = [up EXCEPT ![u] = NoUp]

\* fallbackLink: os.Rename to the path.
LinkRename(u) == /\ u \notin OTmpfile
                 /\ up[u].pc = "link" /\ named # 0
                 /\ PutPart(u, named)
                 /\ UNCHANGED <<upload, kind, named, claims, made, obj, n, comp, ab, faults, ghosts>>

\* link: os.Open(dir), then linkat in that directory, whatever its name by now.
LinkOpen(u) == /\ u \in OTmpfile
               /\ up[u].pc = "link" /\ named # 0
               /\ up' = [up EXCEPT ![u].pc = "linkat", ![u].dir = named]
               /\ UNCHANGED <<upload, kind, named, claims, dirs, made, obj, n, acked, comp, ab, faults, ghosts>>

LinkAt(u) == /\ up[u].pc = "linkat"
             /\ IF Linked(up[u].dir)
                THEN PutPart(u, up[u].dir)
                ELSE /\ up' = [up EXCEPT ![u].pc = "link", ![u].dir = 0]   \* ENOENT: once more
                     /\ UNCHANGED <<dirs, acked>>
             /\ UNCHANGED <<upload, kind, named, claims, made, obj, n, comp, ab, faults, ghosts>>

----------------------------------------------------------------------------
(* CompleteMultipartUpload *)

\* The lists a client can send: ETags it was told.
Lists == {l \in Bodies : l # Empty /\ \A p \in Parts : l[p] \in {0, acked[p]}}

PatientDone == \A u \in Patient : up[u] = NoUp

StartComplete == /\ create = "done" /\ comp = NoComp /\ PatientDone
                 /\ \E l \in Lists : comp' = [NoComp EXCEPT !.pc = "load", !.list = l]
                 /\ UNCHANGED <<upload, kind, named, claims, dirs, made, obj, n, acked, up, ab, faults, ghosts>>

Answer == comp' = NoComp /\ answered' = TRUE
ClaimsOf(l) == {c \in claims : c.list = l}

\* The key the client sends must fit the encryption that was found.
Resolved(known, key) ==
  IF multipartIntent(known, key)
  THEN [comp EXCEPT !.pc = "claim", !.enc = loadMultipartEncryption(known)] ELSE NoComp

\* The encryption of the object is read before the claim, by the upload ID.
LoadUpload ==
  /\ comp.pc = "load"
  /\ \E key \in {Key, "wrong"} :
       comp' = IF loadMultipartEncryption(Known) THEN Resolved(Known, key) ELSE [comp EXCEPT !.pc = "look"]
  /\ UNCHANGED <<upload, kind, named, claims, dirs, made, obj, n, acked, up, ab, faults, ghosts>>

\* There is none, and perhaps no such directory: then it is read by the claim name.
LookForClaim ==
  /\ comp.pc = "look"
  /\ \E key \in {Key, "wrong"} :
       comp' = Resolved(IF named # 0 THEN {} ELSE UNION {attrs[c.dir] : c \in ClaimsOf(comp.list)}, key)
  /\ UNCHANGED <<upload, kind, named, claims, dirs, made, obj, n, acked, up, ab, faults, ghosts>>

\* Mutant: the parts are used where they are.
ClaimNothing == /\ comp.pc = "claim" /\ named # 0
                /\ claims' = claims \cup {[list |-> comp.list, dir |-> named]}
                /\ comp' = [comp EXCEPT !.pc = "check", !.dir = named]
                /\ UNCHANGED <<upload, kind, named, dirs, made, obj, n, acked, up, ab, faults, ghosts>>

\* The upload directory gets the claim name; a directory that is not empty has it
\* already: an error.
Claim == /\ comp.pc = "claim" /\ named # 0
         /\ IF \E c \in ClaimsOf(comp.list) : dirs[c.dir] # Empty
            THEN comp' = NoComp /\ UNCHANGED <<named, claims>>
            ELSE /\ claims' = (claims \ ClaimsOf(comp.list)) \cup {[list |-> comp.list, dir |-> named]}
                 /\ named' = 0
                 /\ comp' = [comp EXCEPT !.pc = "check", !.dir = named]
         /\ UNCHANGED <<upload, kind, dirs, made, obj, n, acked, up, ab, faults, ghosts>>

\* There is no upload directory.  A claim of the same list, or else an object of
\* any origin, is taken for the work of another call; what is found may not have the
\* attributes to predict an ETag from (dataIntegrityEtag).
ClaimMissing == /\ comp.pc = "claim" /\ named = 0
                /\ \/ (ClaimsOf(comp.list) # {} \/ obj # Empty) /\ Answer
                   \/ comp' = NoComp /\ answered' = answered
                /\ UNCHANGED <<upload, kind, named, claims, dirs, made, obj, n, acked, up, ab, faults, blind, crashed, refused, aborted, stored>>

\* The deferred os.Rename back to the upload ID: it replaces an empty directory
\* and fails at any other.
RenameBack == IF named = 0 \/ dirs[named] = Empty
              THEN /\ named' = comp.dir
                   /\ claims' = {c \in claims : c.dir # comp.dir}
              ELSE UNCHANGED <<named, claims>>

\* EvaluateObjectPutPreconditions
PreconditionFails(wish) == wish = "if none match" /\ obj # Empty

Listed == {p \in Parts : comp.list[p] # 0}

\* A part is missing, has another ETag, is too small to have another after it, or
\* is listed without the checksum that was stored with it.
PartRefused(p, wish) ==
  LET c == dirs[comp.dir][p]
  IN  c = comp.list[p] =>
        \/ c \in Small /\ \E q \in Listed : q > p
        \/ ~validatePartChecksum(kind[c], numberOfChecksums(opts, kind[c], wish))

\* A list without the checksum of a part whose upload has an algorithm ends in
\* the sum of the parts.
SumsMissing(wish) ==
  /\ HasSum(attrs[comp.dir])
  /\ \E p \in Listed : numberOfChecksums(opts, kind[comp.list[p]], wish) = 0
  /\ Cardinality(Listed) > 1 \/ "composite" \in attrs[comp.dir]

\* What the client sent with the list is read here for the first time.
Refuses(wish) == \/ PreconditionFails(wish)
                 \/ wish = "type"
                 \/ \E p \in Listed : PartRefused(p, wish)
                 \/ SumsMissing(wish)
                 \/ TotalsWrong(attrs[comp.dir], wish)

\* Mutant: the claim is removed with its parts.
DiscardClaim == /\ comp.pc = "check" /\ \E wish \in Wishes : Refuses(wish)
                /\ dirs' = [dirs EXCEPT ![comp.dir] = Empty]
                /\ claims' = {c \in claims : c.dir # comp.dir}
                /\ comp' = NoComp
                /\ UNCHANGED <<upload, kind, named, made, obj, n, acked, up, ab, faults, ghosts>>

\* The client sends what it has been told, or what it knows from CreateMultipartUpload.
Honest == {"told", IF HasSum(opts) THEN "sums" ELSE "no sums"}

\* Every part of the list is there as the client was told, was received while the
\* attributes of the upload could be read, and is not listed with a checksum that
\* UploadPart answered and did not store.
Sound(wish) ==
  /\ \A p \in Listed : /\ dirs[comp.dir][p] = comp.list[p]
                       /\ comp.list[p] \in Small => \A q \in Listed : q <= p
                       /\ comp.list[p] \notin blind
                       /\ wish = "told" /\ kind[comp.list[p]].told => kind[comp.list[p]].sum
  /\ attrs[comp.dir] = opts

InvalidPart == /\ comp.pc = "check"
               /\ \E wish \in Wishes : /\ Refuses(wish)
                                       /\ refused' = (refused \/ (wish \in Honest /\ Sound(wish)))
               /\ RenameBack
               /\ comp' = NoComp
               /\ UNCHANGED <<upload, kind, dirs, made, obj, n, acked, up, ab, faults, blind, crashed, aborted, stored, answered>>

CheckParts == /\ comp.pc = "check" /\ \E wish \in Wishes : ~Refuses(wish)
              /\ comp' = [comp EXCEPT !.pc = "copy"]
              /\ UNCHANGED <<upload, kind, named, claims, dirs, made, obj, n, acked, up, ab, faults, ghosts>>

Uncopied == {p \in Parts : comp.list[p] # 0 /\ comp.body[p] = 0}
NextPart == CHOOSE p \in Uncopied : \A q \in Uncopied : p <= q

\* The part is opened again, by its name in the claimed directory.  With an
\* encryption its plain bytes are taken, and it must be encrypted.
CopyPart == /\ comp.pc = "copy" /\ Uncopied # {}
            /\ IF dirs[comp.dir][NextPart] = 0 \/ (comp.enc /\ ~kind[dirs[comp.dir][NextPart]].enc)
               THEN comp' = NoComp /\ RenameBack
               ELSE comp' = [comp EXCEPT !.body[NextPart] = dirs[comp.dir][NextPart]]
                    /\ UNCHANGED <<named, claims>>
            /\ UNCHANGED <<upload, kind, dirs, made, obj, n, acked, up, ab, faults, ghosts>>

\* f.link()
LinkObject == /\ comp.pc = "copy" /\ Uncopied = {}
              /\ obj' = comp.body
              /\ stored' = TRUE
              /\ comp' = [comp EXCEPT !.pc = "remove"]
              /\ UNCHANGED <<upload, kind, named, claims, dirs, made, n, acked, up, ab, faults, blind, crashed, refused, aborted, answered>>

\* os.RemoveAll: first the parts, then the directory unless a part came meanwhile.
RemoveParts == /\ comp.pc = "remove"
               /\ dirs' = [dirs EXCEPT ![comp.dir] = Empty]
               /\ comp' = [comp EXCEPT !.pc = "return"]
               /\ UNCHANGED <<upload, kind, named, claims, made, obj, n, acked, up, ab, faults, ghosts>>

Return == /\ comp.pc = "return"
          /\ Answer
          /\ IF dirs[comp.dir] = Empty
             THEN claims' = {c \in claims : c.dir # comp.dir} /\ named' = named
             ELSE RenameBack
          /\ UNCHANGED <<upload, kind, dirs, made, obj, n, acked, up, ab, faults, blind, crashed, refused, aborted, stored>>

\* An I/O error after the claim.
CompleteFails == /\ comp.pc \in {"check", "copy"} /\ faults < MaxFaults
                 /\ faults' = faults + 1
                 /\ RenameBack
                 /\ comp' = NoComp
                 /\ UNCHANGED <<upload, kind, dirs, made, obj, n, acked, up, ab, ghosts>>

----------------------------------------------------------------------------
(* AbortMultipartUpload, by a client or by a lifecycle rule *)

\* (a caller that names another InitiatedTime changes nothing)
Abort == /\ create = "done" /\ ab = NoAb /\ PatientDone /\ named # 0
         /\ ab' = [NoAb EXCEPT !.pc = "open"]
         /\ aborted' = TRUE
         /\ UNCHANGED <<upload, kind, named, claims, dirs, made, obj, n, acked, up, comp, faults, blind, crashed, refused, stored, answered>>

\* os.RemoveAll opens the directory, or finds nothing to remove.
AbortOpen == /\ ab.pc = "open"
             /\ ab' = IF named = 0 THEN NoAb ELSE [pc |-> "remove", dir |-> named]
             /\ UNCHANGED <<upload, kind, named, claims, dirs, made, obj, n, acked, up, comp, faults, ghosts>>

AbortRemove == /\ ab.pc = "remove"
               /\ IF dirs[ab.dir] = Empty
                  THEN dirs' = dirs /\ ab' = [ab EXCEPT !.pc = "rmdir"]
                  ELSE \E p \in Parts : /\ dirs[ab.dir][p] # 0
                                        /\ dirs' = [dirs EXCEPT ![ab.dir][p] = 0]
                                        /\ ab' = ab
               /\ UNCHANGED <<upload, kind, named, claims, made, obj, n, acked, up, comp, faults, ghosts>>

\* The directory goes by its name, if the one of that name is empty.
AbortRmdir == /\ ab.pc = "rmdir"
              /\ ab' = NoAb
              /\ named' = IF named # 0 /\ dirs[named] = Empty THEN 0 ELSE named
              /\ UNCHANGED <<upload, kind, claims, dirs, made, obj, n, acked, up, comp, faults, ghosts>>

----------------------------------------------------------------------------
\* PutObject or DeleteObject of the key, under the mutation lock.
OtherWriter == /\ comp = NoComp
               /\ obj' \in {Empty, Foreign} \ {obj}
               /\ UNCHANGED <<upload, kind, named, claims, dirs, made, n, acked, up, comp, ab, faults, ghosts>>

\* ListParts: the client learns of the parts that are there.
ListParts == /\ create = "done" /\ named # 0
             /\ acked' = [p \in Parts |-> IF dirs[named][p] = 0 THEN acked[p] ELSE dirs[named][p]]
             /\ UNCHANGED <<upload, kind, named, claims, dirs, made, obj, n, up, comp, ab, faults, ghosts>>

\* ListMultipartUploads skips the names of claims.
Visible == named # 0

\* The gateway dies: what is on disk stays, the lock is free.
Crash == /\ faults < MaxFaults
         /\ faults' = faults + 1
         /\ crashed' = TRUE
         /\ create' = IF create = "done" THEN "done" ELSE "failed"
         /\ up' = [u \in Uploaders |-> NoUp] /\ comp' = NoComp /\ ab' = NoAb
         /\ UNCHANGED <<opts, attrs, kind, named, claims, dirs, made, obj, n, acked, blind, refused, aborted, stored, answered>>

Create == CreateUpload \/ StoreAttribute \/ CreateFails
Upload(u) == \/ UploadPart(u) \/ UploadPartCopy(u) \/ LoadPart(u) \/ CopySource(u) \/ ReceivePart(u) \/ CopyData(u)
             \/ LinkMkdir(u) \/ LinkRename(u) \/ LinkOpen(u) \/ LinkAt(u)
Complete == \/ StartComplete \/ LoadUpload \/ LookForClaim \/ Claim \/ ClaimMissing \/ InvalidPart \/ CheckParts
            \/ CopyPart \/ LinkObject \/ RemoveParts \/ Return \/ CompleteFails
AbortUpload == Abort \/ AbortOpen \/ AbortRemove \/ AbortRmdir

Next == Create \/ ListParts \/ (\E u \in Uploaders : Upload(u)) \/ Complete \/ AbortUpload \/ OtherWriter \/ Crash

Spec == Init /\ [][Next]_vars

----------------------------------------------------------------------------
\* The object CompleteMultipartUpload makes consists of the very parts whose ETags
\* the client listed, though parts are uploaded again and removed meanwhile: the
\* claim protects what was checked until it is copied.
AssembledAsListed == comp.pc \in {"remove", "return"} => comp.body = comp.list

\* A part the client was told of can be listed and completed until an abort or a
\* completion: it is in the directory that has the name of the upload, or in the one
\* a completion at work has claimed and gives back.  Two things leave it under the
\* name of a claim, stored and out of reach until a completion sends the same list: a
\* gateway that dies in a completion, and an UploadPart that found no directory and
\* made another (link makes the directory, with_otmpfile.go 261), so that the rename
\* back fails.
PartsKept ==
  \/ aborted \/ stored
  \/ \A p \in Parts : acked[p] # 0 =>
       \E d \in Dirs : /\ dirs[d][p] # 0 /\ Linked(d)
                      /\ (d \in {named, comp.dir} \/ crashed \/ made > 1)

\* The object has the attributes the upload was created with, and is encrypted as
\* it was asked for, from parts that were: a part that UploadPart stored plain,
\* because it looked for the encryption while the upload was claimed, never gets
\* into it (unless an UploadPart that outlived the directory made another).
CreatedAsAsked ==
  comp.pc \in {"remove", "return"} /\ made = 1 =>
    /\ attrs[comp.dir] = opts
    /\ comp.enc = loadMultipartEncryption(opts)
    /\ \A p \in Listed : kind[comp.body[p]].enc = comp.enc

\* A completion of parts that are there is not turned down if its client lists the
\* checksums it was answered, or one for each part just if it created the upload with
\* an algorithm: what UploadPart and UploadPartCopy stored is what
\* validatePartChecksum asks for.  The one exception is in Sound: a checksum declared
\* for a part of an upload without an algorithm is answered and not stored, and a
\* completion that lists it is refused.
ToldCompletes == ~refused

\* An upload that was neither completed nor aborted is listed, unless a completion
\* is at work, whatever the completions that failed (as long as no gateway dies:
\* nothing gives a claimed directory its name back).
UploadListed == (create = "done" /\ ~crashed /\ ~aborted /\ ~stored /\ comp.dir = 0) => Visible

\* No completion is answered with success before one has made the object, though
\* one that finds the upload gone takes an earlier claim, or any object, for the
\* work of another call (as long as no gateway dies and nobody aborts: then that
\* is a mistake).
AnsweredIsStored == answered => stored \/ crashed \/ aborted

\* The object a completion makes is the one the client asked for: AssembledAsListed
\* and CreatedAsAsked.
ObjectAsAsked == AssembledAsListed /\ CreatedAsAsked

\* Until the object is made the client can go on with the upload, whatever completions
\* fail, but for the parts that PartsKept leaves under the name of a claim:
\* PartsKept, UploadListed and AnsweredIsStored.
UploadKept == PartsKept /\ UploadListed /\ AnsweredIsStored

----------------------------------------------------------------------------
(* The inductive invariant of MultipartProofs, in parts. *)

\* The steps of a completion that has a claim.
Claimed == {"check", "copy", "remove", "return"}

\* Directories are numbered as they are made, and each has one name at most: an
\* UploadPart that looks for the upload does not come to the claimed one.
OneName ==
  /\ named <= made /\ comp.dir <= made
  /\ \A c \in claims : c.dir # named /\ c.dir <= made
  /\ comp.dir # 0 => comp.dir # named
  /\ create = "new" => made = 0 /\ named = 0
  /\ create = "storing" => made = 1 /\ named = 1
  /\ create = "done" => made >= 1

\* Only the first directory has attributes; a client that was answered finds
\* there what it asked for.
AttrsStored ==
  /\ \A d \in Dirs : attrs[d] \subseteq opts /\ (d # 1 => attrs[d] = {})
  /\ create = "done" => attrs[1] = opts

\* Nobody uses an upload before CreateMultipartUpload has answered.
Unused == create # "done" =>
  /\ acked = Empty /\ claims = {} /\ comp = NoComp /\ ab = NoAb
  /\ \A u \in Uploaders : up[u] = NoUp

\* Where the requests are.
Requests ==
  /\ \A u \in Uploaders : /\ IF up[u].pc = "idle" THEN up[u] = NoUp ELSE up[u].part \in Parts
                          /\ up[u].pc = "linkat" => u \in OTmpfile /\ up[u].dir # 0
  /\ comp.pc = "idle" => comp = NoComp
  /\ (comp.dir # 0) <=> (comp.pc \in Claimed)
  /\ comp.pc \in {"load", "look", "claim", "check"} => comp.body = Empty
  /\ comp.pc \in {"remove", "return"} => stored /\ Uncopied = {}
  /\ ab.pc = "idle" => ab = NoAb
  /\ ab.pc \in {"remove", "rmdir"} => ab.dir # 0
  /\ ab.pc # "idle" => aborted
  /\ comp.pc # "idle" \/ ab.pc # "idle" => PatientDone

\* A content belongs to one UploadPart until it is linked, so that what is known
\* of a stored part does not change.
OneContent ==
  /\ \A d \in Dirs, p \in Parts : dirs[d][p] <= n
  /\ \A p \in Parts : comp.body[p] <= n
  /\ \A u \in Uploaders : up[u].pc # "idle" =>
       /\ up[u].content \in 1..n
       /\ \A v \in Uploaders : v # u /\ up[v].pc # "idle" => up[v].content # up[u].content
       /\ \A d \in Dirs, p \in Parts : dirs[d][p] # up[u].content
       /\ \A p \in Parts : comp.body[p] # up[u].content

\* What a completion has checked stays as it was listed until it is copied.
CheckedKept ==
  /\ comp.pc = "copy" => \A p \in Parts :
       /\ comp.body[p] \in {0, comp.list[p]}
       /\ comp.list[p] # 0 => dirs[comp.dir][p] \in {0, comp.list[p]}
  /\ AssembledAsListed

\* No part is encrypted in an upload that is not, and none that is plain is
\* copied where one is asked for; the encryption read before the claim is that
\* of the directory which is claimed, if it is the first.
EncryptedAsAsked ==
  /\ \A c \in 1..MaxContents : kind[c].enc => loadMultipartEncryption(opts)
  /\ \A p \in Parts : comp.body[p] # 0 /\ comp.enc => kind[comp.body[p]].enc
  /\ made = 1 /\ (comp.pc \in Claimed \/ (comp.pc \in {"look", "claim"} /\ named # 0)) =>
       comp.enc = loadMultipartEncryption(opts)
  /\ comp.pc \in {"load", "look"} => ~comp.enc

\* A directory has the name of a claim while a completion works on it, as long as no
\* gateway dies and there is no other for which it cannot be given back.
ClaimsUsed == ~crashed /\ made = 1 => \A c \in claims : c.dir = comp.dir

\* Until an abort or a completion a part is in some directory that has a name.
PartsStored == \/ aborted \/ stored
               \/ \A p \in Parts : acked[p] # 0 => \E d \in Dirs : Linked(d) /\ dirs[d][p] # 0

\* A checksum that is stored is answered.  A part received with the attributes of
\* the upload at hand has one if the upload has an algorithm.
SumsStored ==
  /\ \A c \in 1..MaxContents : kind[c].sum => kind[c].told
  /\ \A d \in Dirs, p \in Parts :
       dirs[d][p] \notin blind \cup {0} => kind[dirs[d][p]].sum = HasSum(opts)
  /\ \A u \in Uploaders :
       up[u].pc \in {"link", "linkat"} /\ up[u].content \notin blind =>
         kind[up[u].content].sum = HasSum(opts)

\* All but CheckedKept holds of any upload; that one needs a client that does not
\* complete an upload while one of its parts is between open and linkat.
IInv == /\ TypeOK /\ OneName /\ AttrsStored /\ Unused /\ Requests /\ OneContent
        /\ EncryptedAsAsked /\ SumsStored /\ ToldCompletes
        /\ ClaimsUsed /\ PartsStored /\ UploadListed /\ AnsweredIsStored
IInvPatient == IInv /\ CheckedKept
=============================================================================
