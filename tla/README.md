# TLA+ models of versitygw

versitygw is a gateway that speaks the S3 protocol and stores buckets and
objects in a file system (the POSIX backend), in Azure blobs, in another S3
service, or in ScoutFS. This directory holds TLA+ models of the parts whose
correctness depends on the order of system calls and remote calls, on failures
and crashes between two of them, on checks that are made before an action, and
on what several requests, goroutines, processes and hosts do at once; TLC
configurations that check the models; and proofs that TLAPS checks.

Paths below are relative to `src/`. `PROJECT.json` maps each definition to the
lines it translates and lists runs, mutants, hazards and theorems.

## 1. Inventory

### Components, their state and how they meet

| Component | State it keeps | Operations | Hard because | What makes it correct |
|---|---|---|---|---|
| Atomic lock files (`backend/posix/atomic_lock_unix.go`) | a lock file with its owner's host, boot, PID and lease ID; a recovery guard per host | acquire, wait, recover, close | goroutines, processes, hosts; dead owners; reused PIDs; failed writes | one holder; only dead local owners are removed; waiters progress |
| Record locks (`backend/posix/lifecycle_lease_unix.go`) | fcntl locks, process-local map and 256 channels, result of the self-test | bucket lease, object mutation lock | fcntl locks belong to processes, not goroutines; closing drops them | one holder per lock file; every call returns; fail closed |
| Object versions (`backend/posix/posix.go`) | the live file, the versioning directory, attributes, the bucket's versioning status | PutObject, CompleteMultipartUpload, DeleteObject, PutBucketVersioning, GetObject | several files change per request; readers take no lock; crash between steps | no version is lost, reads are of one version |
| POSIX tree (`posix.go`, `backend/meta`) | directories, files, attributes beside or in them, action slots | buckets and their settings, tags, locks, reads, writes, copies | a request looks and acts in separate calls; sidecar files are not moved with the object | a request acts on the version it names; a lock stays; a bucket goes only when empty; requests end |
| Multipart uploads (`posix.go`, `with_otmpfile.go`, `encryption.go`) | a directory of parts per upload ID with attributes, renamed while it is claimed | create, UploadPart, UploadPartCopy, complete, abort, list | parts arrive during completion and abort; retried completions | the object consists of the listed parts; acknowledged parts are kept |
| Archive tiers (`backend/posix/archive.go`) | stub file, manifest attribute, archive copies | transition, restore, expire restore, reconcile, delete | each is several file-system steps that a crash may separate | the bytes are in the file or where the manifest points |
| Lifecycle (`internal/lifecycle`, `lifecycle_executor.go`) | rules; a scan's page, cursor, ranks and tokens | list candidates, evaluate, apply | candidates are stale when applied | an action applies to the state it was decided on |
| Listing (`backend/walk.go`, `walker.go`) | none | one page after a marker | markers, delimiters, the order of directories, changes between pages | pages add up to the listing, no key twice |
| Azure (`backend/azure`) | containers, blobs with metadata and tags, uncommitted blocks, the lifecycle lease | the backend interface, lifecycle | calls fail or go unanswered; metadata is written as a whole; leases run out | uploads are whole; metadata and copies are what was asked; an abort spares an object whose completion was answered |
| IAM services (`auth/iam_*.go`) | accounts in a file, an S3 object, Vault, LDAP, IPA, another server; a cache per gateway | create, get, update, delete, list, resolve | gateways share the service; retries; stale caches | acknowledged changes stay and are served |
| IAM API (`iamapi`, `internal/iamstore`) | users, keys, roles, providers, sessions in one file, or in Vault; caches | every IAM and STS action | servers share the file without locks; read, decide, write | indexes agree with entities; rights and limits hold; no update lost on one server |
| Access control (`auth`) | policies, ACLs, lock configuration of a bucket | VerifyAccess, CheckObjectAccess | deny overrides; checked before the mutation | what is done was allowed at some moment of the request |
| S3 API (`s3api`) | none but the request | authenticate, authorise, validate, call the backend | 100 routes; order of the checks | no mutation without its checks |
| Encryption (`internal/encryption`, `encryption*.go`) | containers and their attributes | write, read, rewrap, re-encrypt | bytes and attributes change in separate steps | attributes describe the stored container |
| Events, logs, metrics (`s3event`, `s3log`, `metrics`) | connections, a bounded channel | send | full channels, lost connections | requests do not block |

How they interact: a controller of `s3api` authenticates through an IAM service,
authorises with `auth` and calls the backend. Every writer of the POSIX backend
holds the object's mutation lock (record lock behind a channel) while it changes
files; `GetObject`, `UploadPart`, `AbortMultipartUpload` and the source side of a
copy do not. Every operation holds one of a limited number of slots. The
lifecycle coordinator of each gateway scans every bucket at an interval under a
bucket lease; its actions take the mutation lock, compare the state token and
call `DeleteObject`, the archive transition or `AbortMultipartUpload`.
`ReconcileLifecycle`, the first step of a scan, works under the bucket lease only.

### Modules

Each `MC...` module instantiates the module of that name for TLC.

| Module | Models | Uses |
|---|---|---|
| `ExclusiveLock` | what a lock promises: one holder per key, released by close or by a crash | (abstract specification) |
| `AtomicFileLock`, `AtomicFileLockProofs` | lock files | implements `ExclusiveLock` |
| `RecordLock`, `RecordLockProofs` | leases and mutation locks | implements `ExclusiveLock` |
| `ObjectVersions`, `ObjectVersionsProofs` | the versions of one key | the mutation lock as one `op` at a time |
| `Multipart`, `MultipartRules`, `MultipartProofs` | one upload ID; what is decided about a part | likewise for completions |
| `ArchiveTier`, `ArchiveTierProofs` | one object, its manifest and archive copies, the lifecycle scan | likewise |
| `PosixTree`, `PosixOps` | one bucket: its directories, files and attributes; each operation as a program of calls | the mutation lock as `owner` |
| `Listing`, `WalkRules`, `VersionWalk` | pages of a listing; the walk over a tree; the walk over versions | |
| `AzureBlobs`, `AzureOps` | one container; each operation as a program of calls | |
| `S3Request`, `S3Routes`, `S3Handlers`, `AccessRules`, `S3RequestProofs` | requests from the route to the backend call; the routes; the controllers; the decisions | |
| `IamApi`, `IamHandlers`, `IamConfig`, `IamPolicies`, `IamApiProofs` | servers that share the store file; the actions; the operations on the document; policy documents | |
| `VaultStore`, `VaultOps`, `VaultStoreProofs` | users, roles, OIDC providers and sessions in Vault; the edits | |
| `IamAccounts`, `AccountOps` | the IAM services of gateways and their cache; each method as a program | |

## 2. The models and the code

**Programs.** `PosixTree`, `AzureBlobs`, `S3Request`, `IamApi` and `IamAccounts`
are built alike. A companion module translates each method of the code into the
sequence of steps it takes (`todo` of a request); the main module has one action
per kind of step, with its effect on the shared state and its way out, and lets
the steps of all requests interleave. The order of the steps, which checks come
before which effects and what a failing step leaves behind are the code's; a step
is one system call, one remote call, or one read of shared state.

**AtomicFileLock.** A client is one call of `acquireAtomicFileLock`. `owner` is
whose inode is at the lock path, `written` whose body is complete. `Create` is
the `O_EXCL` open; `WriteBody` and `SyncBody` the writes; `PersistFails` and
`RemoveUnpersisted` the error path that removes the path without the guard;
`EnterGuard`, `ReadOwner`, `Judge`, `Claim` are `recoverLocalAtomicFileLock`
under `withLocalRecoveryLock`; `Close`, `ReadOwn`, `Release` the release.
`Crash` kills a process and frees its guard; PIDs may be used again by a process
that starts later (`StartProcess`).

**RecordLock.** `local` is the map entry or channel token, `record` what the
kernel granted to processes. `TakeLocal`, `Open` (with the one-time self-test),
`SetLk`, `Unlock` and `GiveBack` follow the functions; `LocalBusy`, `OpenFails`
(the self-test may break down too, which refuses leases for good) and `GiveUp` are
the ways out. `Enforced = FALSE` is a shared file system that
ignores record locks.

**ObjectVersions.** `live` and `vdir` are the files, `op` the writer that holds
the mutation lock with its next step, `contract` the versions the finished
requests promise. A step is one file-system effect: keep the live file
(`createObjVersion`), drop the null version, link the new file, truncate, clear
the ID, mark as delete marker, remove, promote, copy attributes, unlink. `Fail`
stops the writer between two steps. `get` is one `GetObject` without a lock:
resolve, stat, read the ETag, open, send.

**Multipart.** Directories have identities, so that a descriptor stays on a
directory that is renamed, and attributes, which `CreateMultipartUpload` stores
one by one. `UploadPart` and `UploadPartCopy` find the upload, read its
encryption and checksum algorithm by its ID, receive or copy the data and link
it, by `linkat` of an `O_TMPFILE` or by the rename of a named temporary file;
`CompleteMultipartUpload` claims the directory by renaming it, checks and copies
the parts, links the object, removes the claim or renames it back;
`AbortMultipartUpload` removes part by part. `Crash` loses every request. What is
checked of checksums, encryption and sizes is in `MultipartRules`.

**ArchiveTier.** The number of a write stands for its bytes, hash, ETag and time.
A scan reconciles (`load`, `size`, `verify`, `release`, `times`, `expire`), lists, and
applies one transition (`begin`, `copy`, `publish`, `truncate`, `retime`,
`dropPrevious`) or expiration. `PutObject`, `DeleteObject` and `RestoreObject`
are the clients. `Colder` is the relation Evaluate allows between classes.

**PosixTree.** `tree` says which file is at the live path and the version paths
of a key, `files` what a file holds, `side` the sidecar attributes of a path,
`bucket` the directory and its attributes, `free` the action slots, `owner` the
mutation locks. With extended attributes what is stored goes to the file, with
the sidecar to the path. A read, a lock lookup or a copy resolves a version to a
path first and uses the path later, as the code does. Keeping a version, marking a
file as deleted, promoting a version and removing a bucket are steps of their own,
each of which may fail: attributes are stripped before the copy is linked, and the
live file goes before the promoted one is in its place.

**Listing.** A name is a sequence of characters of which only the order counts
and whether one is "/". `Walk` and `WalkVersions` are the recursive functions of
the code, over a tree made from the keys that exist; between two pages objects
are stored and deleted, versions among them. The client sends the marker of the page
before.

**AzureBlobs.** A blob has data, metadata (with hold, retention, encryption and
multipart marks), tags, an ETag and uncommitted blocks; a part has a size, and a
completion compares its number and ETag first and its size when it reads it.
A copy inside the service falls back to a download when it is refused. A call may fail, or take
effect and fail (`Answered`); a copy inside the service ends later (`CopyEnds`);
a lease runs out while its worker goes on (`LeaseExpires`, `RenewFails`).

**S3Request.** `S3Routes` is the table of `router.go` in its order; a request is
matched, authenticated (the account is a snapshot), gets the bucket ACL (a
snapshot) and runs the steps of its controller (`S3Handlers`): authorisation with
the policy of that moment, validation, lock checks read by read, the backend
call. `AccessRules` decides. `hist` keeps the states so far, so that properties
can ask what was in force during a request. The check of a lock is several steps:
`LoadLock` reads the configuration and leaves a `CheckRetention` for each object,
which leaves `Bypass` or `CheckHold` as the stored retention says; an overwrite
looks at the current version whatever version the request names, and a batch goes
on without the objects it must not touch.

**IamApi.** `file` is the store file, `cache` what each server keeps of it for a
second, `lock` the mutex of a server, `flight` a running fetch of signing keys.
Requests authenticate, authorise and act in separate reads of the file; writes
read, apply one operation of `IamConfig` and rename. The migration tool encrypts
or decrypts the file. One unit of time is longer than the cache lives.

**VaultStore.** A document has the KV version, the user it belongs to and its
items. The requests go from KV call to KV call: `Read`; `Replace` with `Retry`
for `withUserCAS`; `Confirm` and `Remove` for deletes; `CheckName`, `CreateNew`,
`RemoveOld` for a rename; `List` and `Visit` for the search of a key and the
usage that is recorded for it. A session goes through `ListSessions`, `Look`,
`PurgeSession`, `Counted`, `SetTTL`, `WriteSession`. `Fails` ends a request
between two calls. Vault's check-and-set is modelled from its use.

**IamAccounts.** `kind` is the service, `store` the accounts it holds, `gw` what
each gateway keeps: cache, process lock, login. `AccountOps` has the methods of
the file, S3 object, Vault, LDAP, IPA, standalone and single-user services and of
the cache around them. A remote server may be of an older protocol than the gateway
(refused), of the same or a newer one (served), or newer with a minimum that the
gateway does not reach.

## 3. The runs

All runs pass. Each asks one question of one subsystem.

| Run | Bounds | Shows |
|---|---|---|
| `atomic_lock` | 4 calls, 4 processes, 2 hosts, a PID used again | exclusion, recovery takes dead local owners only, refinement of `ExclusiveLock`, waiters end; with I/O errors, failed writes, cancellation and crashes |
| `record_lock` | 2 leases, 3 mutation locks, 2 processes | exclusion, refinement, every call returns |
| `versions` | 3 writes, all status changes, 2 failures at any step, one reader at a time | files agree with the promised versions; nothing lost; an old version is read undisturbed |
| `archive` | 3 writes, 4 clock values, 3 crashes, 2 tiers, clients at any time | bytes are never lost, GET serves the object, every interruption is finished later |
| `multipart` | 2 parts, 2 contents, 2 directories, 1 fault, 2 uploaders, 3 kinds of upload | objects are what was asked for, acknowledged parts can be listed and completed, a right completion is not refused |
| `posix_tree` | 2 keys, up to 3 requests, 2 slots, 6 mixes of clients, up to 4 versions, xattr and sidecar | requests act on the version they name, copies that name the current one too, holds stay, buckets are created whole and deleted empty, requests end |
| `listing` | 5 keys around a directory; up to 3 versions per key, a current null version and delete markers among them; 3 prefixes, 3 delimiters, pages of 1 and 2; 2 changes between pages of objects, 1 of versions | pages are in order, full, true and complete; so are pages of versions, wherever in a key they end |
| `azure` | 2 keys, 3 uploads, up to 3 requests, 10 mixes | uploads are whole and can be retried, metadata and copies are as asked, an abort takes no object whose completion was answered |
| `s3_request` | every route for four kinds of clients; 13 x 13 kinds of racing pairs; two requests that change a lock while a third checks it | nothing changes, and nothing is copied, without permission; locks and retention hold |
| `iam` | up to 3 requests, 2 servers, 13 mixes | indexes and limits, credentials and sessions that still count, a key acts as the user it was made for, complete listings, authorised writes |
| `vault` | 3 requests of 2 gateways beside what is stored, 1 fault | edits are not lost, a rename loses no user, keys and sessions keep working or stay revoked, limits |
| `accounts` | 3 requests, 2 gateways, 8 mixes, 7 services with and without cache | acknowledged changes stay and are served, IDs included; an account is called missing only when it is |

A mix (in the `MC` modules) is a state to begin with and, for each request slot,
the requests it may carry. In the "wide" mixes one request of every kind runs
alone, with every way it can fail; in the others two or three run whose steps
matter to each other. This is how the state space stays finite and small while
every operation and every step occurs.

Why the bounds are enough. Two contenders and a third client are what the races
on one lock file need (an owner that dies, one that recovers, one that creates);
hosts and PIDs matter only by being equal or not. A version is kept, replaced or
promoted relative to at most two others. A transition, a colder transition and a
newer write interact pairwise. Two parts and two contents tell apart every
mixture of an assembled object. The keys of `listing` hold what the walk finds
hard: a name between a directory and what is in it, names in it and below it, the
directory as an object and a name after it. The races of a checked and an acting
step need one other request in between, and a third only to bring back what the
second removed. What the bounds cut off is longer repetition, not another kind of
step. Symmetry (`vault`) is over gateways, providers and sessions, which no
definition tells apart.

The runs list what could be wrong rather than the type invariants: `TypeOK`
(`ApiTypeOK`) of each module is there for the reader and the proofs, and holds in
every one of these instances (add it to the `.cfg` to check it).

Deadlock is not checked where the requests or the bounds end a behaviour;
`archive` checks it.

### Fairness

- `AtomicFileLock`, `RecordLock`: weak fairness of each client's own steps
  (runnable goroutines run and critical sections are finite); strong fairness of
  entering the guard, of the channel and of the record lock, which are polled
  every 25 ms or queued while others hold them for short. Crashes, errors and
  cancellation are never promised.
- `ArchiveTier`: the coordinator's ticker runs scans for ever, time passes, and a
  request that has started ends. Nothing is assumed of clients.
- `PosixTree`: weak fairness of the steps of a request that has begun, not of its
  beginning; a waiter for a slot or a mutation lock is not assumed to be preferred.
- The other modules have safety properties only.

### Where the code does less, and how the properties say so

A property that does not hold of the code as it stands is stated under the
condition under which it does; dropping the condition makes TLC show the
behaviour. The conditions are narrow and named in the modules.

- `AtomicFileLock`, `Exposed` (`atomic_lock_unix.go:91`): a call whose body could
  not be persisted removes the lock path outside the recovery guard; if its
  process then dies, a contender that had read its body renames away a live lock.
- `ObjectVersions`, `emptied` (`posix.go:4902`): a delete that stops between the
  truncation and `clearObjectAttributes` leaves an empty file under a valid ID,
  which the next writer keeps as that version. In a suspended bucket the run
  starts puts and version deletes only: there a completion overwrites a version
  that has an ID (`posix.go:2666`), and a plain delete leaves the older null
  version in the directory, so that there are two. No version with an ID is lost
  by the delete: `VersionsKept` (section 4) is proved with it. Nothing is said of
  which version is current: "null" sorts after every ULID and is promoted before
  newer versions (`posix.go:5008`).
- `ArchiveTier`, `overtaken` (`archive.go:793`): reconciliation truncates or
  retimes whatever is at the path after it verified another object.
- `Multipart`: `crashed`, because nothing renames a claim back after a crash and
  a retry is then answered with success (`posix.go:2186`); `Patient`, because a
  part linked through a descriptor lands in a claimed directory
  (`with_otmpfile.go:295`); `made = 1`, because a late part makes the directory
  again without its attributes (`with_otmpfile.go:261`). Then a failed completion
  cannot rename the claim back, and acknowledged parts stay under its name, out of
  reach of `ListParts` and of a completion with another list: `PartsKept` says so
  (`made > 1`). In `Sound`: an upload without an algorithm answers the checksum a
  client declares for a part and does not store it (`posix.go:3767`, `3809`), and a
  completion that lists it is refused (`posix.go:2788`). `blind`, because a part
  received while the upload's attributes cannot be read (while its directory is
  claimed, say) is stored without the checksum, and a completion that lists it is
  refused. Not stated: a ranged
  `UploadPartCopy` stores the checksum of its whole source (`posix.go:4146`).
- `PosixTree`, `SlotsExhausted` (`posix.go:7687`): `ChangeBucketOwner` takes a
  second slot while it holds the first, so that as many as there are slots wait
  for ever. `FailedOver` (`posix.go:4481`, `4889`, `5055`): a PUT, DELETE or
  promotion that fails after it kept a copy has stripped the live version of its
  hold; and a plain DELETE takes hold and retention off the live file before it links
  the copy that has them (`posix.go:1168`, `1177`), so that a failing link loses them
  for good. `BucketLife` is about what was there before the request: an upload
  between `isBucketEmpty` and `RemoveAll` is lost; so is an old version, when a PUT
  keeps it after the version directory was found empty (`posix.go:789`) and a DELETE
  of a version has removed the live file (`4978`) and not yet linked the promoted one
  (`5041`) when the objects are looked for;
  a bucket deleted while it is created may have attributes of two creators, and
  suspension and lock configuration may pass each other. `RightVersion` is about
  the bytes of a copy; its tags and metadata are read by path. A copy that names the
  current version is resolved to the live path before it waits for the lock
  (`posix.go:6128`), and with a writer of that key beside it copies the newer bytes
  (`CopyIsNamed`); with the sidecar, which keeps the ETag at the path, bytes and
  compared ETag may differ (`CopyIsOne`).
- `Listing`, `PlainVersions` (`posix.go:1597`): a page of versions that ends at a
  null version that is not current, or at a directory object, makes entries come
  again; a marker version that was deleted hides the rest of its key and every later
  key (`walk.go:163`). `VersionsListed` leaves out listings with a delimiter, which
  the run only walks.
- `AzureBlobs`: blocks of two plain uploads of one key mix, and aborting one
  deletes the object of the key (`azure.go:2060`); both are excluded by stating
  the uploads' origin for encrypted ones. A part uploaded again with the same size
  after the completion compared its ETag (`encryption.go:480`) and before it is read
  (`577`) ends in the object: `AssembledFromUpload` excepts it. `MetadataKept` is
  about requests that ran alone (`Alone`): two that write the metadata at once lose a
  change. A copy that replaces the metadata by none inherits the source's, redirect
  included, when the service makes it (`copy.go:121`; `Inherits`). `AbortSpares`
  excepts a completion that is tried again and answered for the object an earlier try
  made. No lifecycle expiration ever takes effect: `lifecycle.go:244` keeps the
  converted ETag (`azure.go:2937`) and sends it as If-Match, which the blob never
  matches; and an upload with an empty part is never aborted by the lifecycle, since
  writing the part has changed the marker.
- `S3Request`: `BatchHasDenied`, because `DeleteObjects` deletes denied keys of a
  batch of which another is allowed; the form upload is authorised on the bucket
  and checks no lock. A lock set after the check does not stop the request.
  Configuration, retention and legal hold are read one after the other
  (`object_lock.go:479`), so `LockKept` asks that none of them protected the
  version all through the request: when a retention is set and the hold lifted
  between the reads, a version goes that was protected at every instant. A request
  without a version means the current one when the check looks; a version that
  becomes current between the check and the call is not protected.
- `IamApi`: two servers lose updates (admitted at `engine.go:243`), so
  `UpdatesSerial` is about one; a decision is compared with a write that nobody
  overtook (`basis`); a deleted marker ends a listing (`lostMarker`).
- `VaultStore`: a name that is created again starts at version 1 (`reused`), so
  that a slow request passes its check against another user; a rename writes the
  copy it read at its start, so that a key revoked meanwhile comes back (a key
  counts as `settled` only when no rename of its user was under way); a rename
  that cannot remove the old record, and two renames of one user at once (alice to
  bob and alice to carol), leave two live records of the user (`stale`), although
  `vault.go:551` calls the failed delete "the one window where two live records
  for the same identity can coexist"; a session's path is visible before it is written, and a concurrent
  count purges it; a search ends when any user goes under its eyes
  (`vault.go:411`). Concurrent calls may each pass a limit by one.
- `IamAccounts`: a lookup that runs during a change puts the old account back
  into the cache (`iam_cache.go:169`); an account that a gateway created is cached
  without its IDs (`iam_cache.go:145`) and served with zeros until it expires
  (`WithoutIDs`); the file and the S3 object lose changes
  between gateways (`WrittenAsOne`).

## 4. What is proved

All proofs hold for every value of the constants.

| Module | Theorem | Under | Inductive invariant |
|---|---|---|---|
| `AtomicFileLockProofs` | `LockExcludes`, `RecoveryIsSafe`, `Refinement` | `~Exposed`, as the run | `CreatorOwnsFile` (the path is the creator's from create to release), `GuardHeld`, `ProcsAgree`, `SeenStays` (what a client in the guard read stays true), `ClaimsDead` |
| `RecordLockProofs` | `LockExcludes`, `Refinement` | the file system enforces record locks, or only leases are asked for | `LocalHeld`, `RecordHeld`, `RecordExcludes`, `FailsClosed` |
| `ArchiveTierProofs` | `BytesAreKept`, `ServedIsTheObject` | `~overtaken`, as the run | `FileIntact` (the archive copy is complete whenever there is a manifest), `LockAgrees`, and what each request has read is still current: `ReconcileCurrent`, `TransitionCurrent`, `RestoreCurrent` |
| `ObjectVersionsProofs` | `VersionsKept` (`NoVersionLost`) | no completion in a suspended bucket | `BaseInv` (files and promises carry the ID of the write that made them; each writer knows where the files are) and `KeepInv` (the version being replaced or promoted is in the directory before the live file loses it, and is complete) |
| | `FilesAsPromised`, `OldReadsStable` | neither a completion nor a plain delete in a suspended bucket | also `FilesInv` (the files are the promised versions but for the one that moves, at each step of each writer) and `GetFits` (what a GET has read belongs to the version it asked for) |
| `MultipartProofs` | `PartsSurvive` (`UploadKept`), `CompletionAccepted` (`ToldCompletes`), `EncryptionAsAsked` (`CreatedAsAsked`) | nothing | `OneName` (a directory has one name at most), `AttrsStored`, `OneContent` (a content belongs to one request until it is linked), `EncryptedAsAsked`, `SumsStored`, `Unused`, `Requests` |
| | `ObjectCorrect` (`ObjectAsAsked`) | `OTmpfile \subseteq Patient`, as the run | also `CheckedKept` (what was checked stays in the claimed directory until it is copied) |
| `VaultStoreProofs` | `UserKept` (`UserNotLost`), `AccessRight` (`AccessKept`), `UpdatesKept` (`NoLostUpdate`), `LimitsHold` (`LimitsKept`) | nothing but the conditions in the properties | `CopiesFit` (a copy with the version of the document is the document), `RecordStays` (a user has a record no rename is about to remove), `OneRecord`, `IdsGiven`, `CopiesSettled` (a rename carries the keys as they were settled), `LookupsFind`, `SessionsFit`, `CallsFit` |
| `S3RequestProofs` | `LocksHold` (`LockKept`), `RetentionsHold` (`RetentionKept`) | nothing but the conditions in the properties | `Recorded` (the history ends with what is, and a request began within it), `LockInv` (how far a program has come: before the configuration is read, or with checks left of every object not yet found free), `RetentionInv` (the call is all that is left only when the stored retention may be replaced) |
| `IamApiProofs` | `ListsComplete` (`ListComplete`) | the condition in the property (`lostMarker`) | `PagesFit`: everyone who stayed and comes no later than the marker has been listed; the marker of a page is its last name |
| | `CredentialsCount` (`CredentialsCurrent`) | the times in the property | a revoked key is active neither in the file nor in a cache that is current; a cache is current only within the unit of time it was filled in; a withdrawn signing key is in no key set cached longer than its lifetime |
| | `StoreSound` (`StoreConsistent`), `WritesSerial` (`UpdatesSerial`, the last part of `WritesAuthorized`) | nothing; `WritesSerial` with the condition in the property | `Sound` of the file and of every copy of it in the hands of a writer or of the migration tool, `RequestFits` (a request has only steps of its own action before it, and input for them), `LocksHeld` (a writer that has read holds the lock of its server), `ReadCurrent` (on one server it has read the file as it is) |

The properties are not inductive alone. Exclusion of the lock files needs to know
that a client about to rename a dead owner's file still finds that file there:
true because only the holder of the guard of that host removes such files, and
other hosts refuse to. `NoBytesLost` needs to know that the manifest a transition
is about to store names bytes that are already in the tier and belong to the file
it is about to truncate, which the mutation lock protects. `NoVersionLost` needs the
order in which each writer moves the version it replaces: between the copy to the
directory and the rename of the new file the version is there twice, and `KeepInv`
says that never is it there less than once. `ToldCompletes` needs to know which
parts were stored with a checksum, and that no request can change a part once it
is linked. `UserNotLost` needs to tell the record that a rename is about to remove
from the one that stays, and `RevocationKept` that the copy in the hands of a
rename has every settled key as it was settled. `StoreConsistent` needs that a
copy a writer read before another server wrote is as sound as the file: its write
loses the other's update, but not the agreement of the indexes. The proof has a
lemma for each operation of `IamConfig` (a whole document stays whole: a rename
moves the user with its keys, a deletion only one without keys), one for each
handler (the steps it queues are its own), and one for each kind of step.

`LimitsKept` bounds providers and sessions by the limit and one for each other call
that had counted them before they were written. Calls in flight are ordered by
when they listed: a call that listed later missed only what calls that listed
before it wrote, one each, so that the excess is never more than the calls that
were between their listing and their write. `ListComplete` needs that a name is
found by its place in the order and not by what the page before held, so that
names which come and go between the pages disturb nobody else's place.
`CredentialsCurrent` needs to know how old each cache is, and that a request comes
past its signature check only through `VerifyCached` or a fetch that began after
the withdrawal or less than a unit of time before it.

`LockKept` and `RetentionKept` speak of a call and of states the request passed
through before it. Their invariants are about programs. `LockProgram` shows, from
the routes and the handlers, that every program with a call that removes has
`CheckObjectAccess` before it and only validation and encryption in between, and
`ControllerHarmless` that the others have no such call. After the configuration is
read each object is refused, or found free on grounds in `Seen`, or has a check
left, and each check that is left carries the grounds on which the one before it
passed (`Pending`). `Seen` only grows, so the steps of other requests take no
grounds away.

All but `IamApiProofs` and `S3RequestProofs` also prove their type invariants.
`S3RequestProofs` proves `Recorded` (`AlwaysRecorded`), which types the objects and
their locks and what its other proofs need of the requests.

Assumptions on the constants are named in the modules. Besides types and bounds
they are: the value for "no file" or "no document" is none (`NoFileAssumption`,
`NoDocAssumption`), and the users, roles and providers Vault starts with have IDs
of their own, other than those given later (`SeedAssumption`; the code draws them
at random); names folded twice are folded (`ConfigAssumption`), the store files
that servers start with are sound, names are in an order (`Order` a sequence of
strings), the life of a key set is a natural number (`JwksAssumption`), the
migration tool is none of the servers (`FreeAssumption`), and the input of a
request that creates or renames has a name and no more clients than the controller
lets through
(`MixAssumption`, `InputFits`); limits are natural numbers (`LimitsAssumption`);
a request to the S3 API is for a key of the bucket and asks for a lock that exists
(`KeysAssumption`, `InputsAssumption`), and the objects to begin with have such
locks (`WorldsAssumption`).

Each module proves `Init => IInv`, one step per action for `IInv /\ Next =>
IInv'`, and the property from `IInv`; refinement shows that each step is a step
of `ExclusiveLock` or leaves the holders alone.

Some proof attempts failed for a reason in the code or the model, and changed what
is stated: `ToldCompletes` does not hold for parts received without the upload's
attributes (`blind`), `RevocationKept` not after two renames of one user at once
(`stale`), `StoredMatchesContract` not with a plain delete in a suspended bucket,
while `NoVersionLost` does. `LockKept` does not hold of one instant of the request,
because the parts of a lock are read apart, and `RetentionKept` not of a version
that became current after the check; the run has a third request for such
behaviours, and TLC finds them when the properties are stated without these
exceptions. The same proofs found that the model had looked at the
version a request names where an overwrite looks at the current one.

Only model-checked:

- liveness (`WaitersProgress`, `CallsReturn`, `ArchiveSettles`, `RequestsEnd`),
  because the prover has neither fairness nor ENABLED;
- the listing (`PagesRight`, `NothingMissed`, `VersionsListed`), whose walk is
  recursive;
- `WritesAuthorized` of `IamApi` but for `UpdatesSerial`: its part `ActsAsOwner`
  needs that no identifier is drawn twice while the run lets two be equal;
- `Authorized` of `S3Request`, which compares each handler with the permissions its
  action needs, case by case;
- `PosixTree`, `AzureBlobs` and `IamAccounts`, whose requests are programs that
  companion modules build and that grow as they run: their invariants would have to
  say for each operation what is left of its program and on which grounds.

## 5. Not modelled, and the plan

Left out for good: cryptography and signatures, XML and JSON encoding, matching
of single characters in policies, error tables, static web content, logs and
metrics, RDMA bindings, command line, the S3 proxy and ScoutFS backends: they
have no state of their own, or state that only an external program sees.

Left out so far: `Evaluate` and the validation of lifecycle rules, the
coordinator's paging with ranks and tokens (`lifecycle_executor.go:245`: deleting
one noncurrent version changes the tokens of the older ones, so that a backlog
shrinks by one version of a key per scan), several archived objects in one scan
(`archive.go:783`: one that does not verify ends it), rewrap and re-encryption
with rollback (`encryption_maintenance.go:317`), the body readers of
`s3api/utils`, the multipart lister, crashes in `PosixTree`.

Theorems not stated yet, the nearest first: `Authorized` of `S3Request`, with the
argument of `LockKept` for the access checks; `ChangeAuthorized` and `ArnCurrent`
of `IamApi` (what a request was granted, and from which file).
