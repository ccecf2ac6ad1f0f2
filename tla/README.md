# Formal models of fileserving-toolkit

TLA+ specifications of the server in `src/`, the TLC configurations that check
them on small instances, and TLAPS proofs of what matters most for every
instance. Paths below are relative to the repository (`src/src/transfer.rs` is
the crate's `transfer.rs`).

## 1. The system

A file server with two kinds of space, `shared/` and one `~user/` home per
user; resumable uploads; optional encryption of everything at rest, and with it
login; range downloads; and a command line client and a web client that speak
the same HTTP API.

| Part | State | Operations | Interacts with |
|------|-------|------------|----------------|
| Upload transfers, `transfer.rs` | `sessions`, `path_locks`, `finalizing` (three mutexes, taken in that order); `{id}.part` and `{id}.json` on disk | `init` (resume, supersede, reserve, create files), `write_chunk`, `complete` (claim, publish, finish), `status`, hourly `gc`, `reload` at start | resolves and installs through storage, seals through crypto, reads public keys through auth |
| Storage, `storage.rs` | the file trees | `resolve` (access rule, no escape by `..` or symlink), `list`, `mkdir`, `delete`, `rename` with sidecars | called by every file handler, without locks |
| At-rest encryption, `crypto.rs` | a sealed file and its `.fst-idx` and `.fst-meta` sidecars | `encrypt_file`, `seal_uploaded_file`, `EncryptedReader::open`, `read_plain_range` | storage moves and deletes the same files |
| Keystores, `crypto.rs`, `auth.rs`, `main.rs` | `{user}.ek`, `{user}.sk` | create at first login or with `init-keys`, unlock | sealing reads `.ek`, sessions hold the unlocked `.sk` |
| Login sessions, `auth.rs` | the session map, sliding expiry | `login`, `get`, `logout`, hourly `purge_expired` | every handler starts with `get` |
| HTTP handlers, `api.rs` | none of their own | one per route; `parse_range`, plain and encrypted range serving | all of the above |
| Media remux, `media.rs` | cache files named by source path, time and length | `needs_remux`, `remux_mp4` (an ffmpeg child) | reads storage, streamed by `api.rs` |
| Remote CLI, `cli.rs` | cached session, `.fst-part` and its marker | `put` (init / PUT / complete with retries), `get` (range resume), re-login on 401 | the HTTP API |
| Web client, `web/js/fst.js` | in the browser | `uploadFile`, `downloadLarge` | the HTTP API |
| Configuration, audio tags | none | parsing | |

What is hard here: handlers run in parallel on a thread pool, and the ones that
do long file system work do it without locks (`init`, `complete`, `rename`,
sealing, login); several files must change together and the process may crash
between them; progress must survive a restart; quotas, timeouts and takeovers
race with the owner's next request. `PROJECT.json` lists each such hazard at
its line, with the properties that cover it or the reason why none does.

What makes each part correct:

- *Transfers*: one incomplete upload per path; a published file is whole; an
  offset is backed by bytes; nobody but the owner or an admin takes a
  mid-transfer partial; a running `complete` is not disturbed; quotas hold; a
  restart loses nothing; every path is released and every abandoned upload is
  collected in the end.
- *Storage and encryption*: a sealed file is never paired with the sidecars of
  another; rename and delete keep a file and its sidecars together; a reader
  gets the bytes of one version.
- *Keystores and sessions*: the two key files belong to one pair; whoever may
  read a file has the key that opens it; a session that is not used ends.
- *Ranges*: a range response has exactly the bytes asked for, in order, as many
  as its head announces (not so for suffix ranges, section 3).
- *Clients*: a `put` that reports success has published its file, and no `put`,
  given up or late, leaves a mixture; a `get` of the same path keeps what it has and saves a whole
  file; both end; a job never acts as another user of its host.
- *Remux*: what stays in the cache is a whole file, as far as no request was
  given up and no transcode failed.

## 2. Modules

| Module | What it is |
|--------|------------|
| `Transfer` | `TransferManager` within one process lifetime: 9 variables, an action per critical section and per unlocked file system call, invariants, action properties, liveness, the refinement mapping and the inductive invariant |
| `TransferCrash` | extends it with crashes between any two steps (also in the middle of removing an upload) and `reload`, under an encryption setting that may change at each restart |
| `UploadService` | the abstract specification: what the upload API promises per path, without ids, locks or files |
| `SealedFiles` | a sealed file and its two sidecars under concurrent sealing, opening, deleting and renaming, with crashes |
| `ByteRange` | `parse_range` as an operator, and the bytes that a `Range` header asks for as its reference; no state |
| `RangeServing` | one request for a range: the head from `ByteRange`, the body by the reading thread, plain in blocks or sealed in windows across frames |
| `Download` | `fst get`: the part file, its marker and the destination, against a remote file that changes; the server's answers are `ByteRange`'s |
| `PutClient` | `fst put` and the page's `uploadFile`, their logins and late requests, over the upload promise per path |
| `Auth` | keystores made by logins, `init-keys` and the start of the server; login sessions; which key opens which file |
| `Remux` | the cached mp4 of one source, with requests that do not know of each other |
| `TransferProofs`, `TransferCrashProofs`, `SealedFilesProofs`, `RangeServingProofs`, `DownloadProofs`, `PutClientProofs`, `AuthProofs`, `RemuxProofs` | TLAPS proofs about the module each is named after (`RangeServingProofs` and `DownloadProofs` also about `ByteRange`) |
| `MCTransfer`, `MCTransferCrash`, `MCSealedFiles`, `MCRangeServing`, `MCDownload`, `MCPutClient`, `MCAuth`, `MCRemux` | constants for TLC |

Which module rests on which: `TransferCrash` extends `Transfer`, which implements
`UploadService`; the server of `PutClient` is what `UploadService` promises for
one path, with ids and bytes; `RangeServing` and `Download` extend `ByteRange`,
the one as the server of ranges and the other as their client; `SealedFiles`
takes from `Transfer` that one seal runs per path, and `RangeServing` reads the
frames of what it leaves settled; `Auth` says which of its readers has the key.

### Transfer: how it corresponds to the code

Each variable is a field of `TransferManager` (`sessions`, `path_locks`,
`finalizing`, `encryption`), a set of files (`part`, `json`, `dest`), or the
local state of handlers that are between two critical sections (`creating` for
`init`, `sealing` for `complete`).

- `init` is `InitResume`, or `InitReserve` (granted: one atomic step that drops
  the session in the way and reserves), or `InitRefused` (over quota after the
  drop). After `InitReserve` the handler goes on without locks: `CreatePart`
  (`File::create`), `AllocPart` (`set_len`), `PersistNew`, or `CreateFail` (roll
  back) at any of them. Requests that are refused before any change of state
  are not steps.
- `write_chunk` is one step, since it holds the `sessions` mutex throughout:
  `WriteChunk`, or `WriteFail` when the write breaks off.
- `complete` is `Claim` (or `ClaimUnsaved`), then `Install` / `RemoveTemp` or
  `InstallFail` / `InstallThenFail` without locks, then `FinishOk` or
  `FinishErr`.
- `gc` is `Gc`; it reads the ages at one instant under the locks.

Abstractions: paths are already normalised (`Canonical` maps what clients spell
to paths, or to `None` for a spelling that is rejected); `Home` says whose home
a path lies in, and `MayResolve` is the access rule of `Storage::resolve`; the
bytes of a file are the number of leading bytes really received; the two time
stamps of a session are the age of the one that counts, saturating one above
the greater threshold (`AgeCap`), so no clock grows without bound; `status`
reads only. The file tree is written by `complete` only: `delete` and `rename` of
published files are `SealedFiles`.

The constant `Faults` says which file system calls may fail, and whether two
saves may overlap. `persist` writes `{id}.json.tmp` and renames it; resumes,
chunks and completes do so under the `sessions` mutex, the tail of `init` without
it (`transfer.rs:383`), and all of them use the one temporary name. `Overlaps` is
the case that a save under the mutex meets that of `init`: either content may be
what is renamed (`Renamed`), and whichever comes second finds nothing to rename.
When that is `init` (`"lost"`), it rolls back without any fault of the disk
(`CreateFail`); when it is the other, its caller has an error (`PersistErr`). A
temporary file torn between two writers is left out: the writing of it and the
rename are one step each.

### TransferCrash

`Restart(enc)` forgets the maps and all handlers and runs `reload`: offset from
the length of the part file, owner inferred from the home when encryption needs
one, sessions without a possible owner deleted with their files, path locks of
what is left. `RestartInRemoval` is a crash between the two `remove_file` calls
of a drop. Only the process crashes: what it wrote stays written.

### UploadService

Per path the upload in progress and the size of the file served. `Transfer`
maps to it by the session that holds the path and is not yet published, and by
the published size of a whole file (a file with a hole maps to no abstract
file). An upload ends in the abstract at the instant its file is in place, not
when its session is removed.

### SealedFiles

`disk[p]` says which version's ciphertext, size sidecar and frame index lie at a
path; a version is what was sealed, of which only the plaintext size and the
length of the header matter (the header is longer when an admin key exists).
`op[c]` is what a client's request is doing. Every action is one file system
call, in the order of the code: `encrypt_file` / `seal_uploaded_file` are
`SealStep`, `Storage::delete` is `DeleteStep`, `Storage::rename` is `StartMove`
(its checks, one step) and `MoveStep` with the roll back, and `serve_encrypted`
is `StartRead` and `ReadStep`: it opens the file twice, once for the
Content-Length and once for the body, and each opening reads the sidecars by
name. There are no locks. At most one seal per path runs at a time: that is
`FinalizingOwned` of `Transfer`. What a reader makes of the sidecars is
computed: the size that the length of the ciphertext tells when there is no
sidecar, and the index that is ignored when its number of frames is wrong.
`Makes` says which kinds of request a client makes, so that a run can have one
writer or several. `torn` is a history variable: the paths that a crash left
half-written and that no seal or delete has gone over since.

Deletes and renames of whole directories (one system call each for a rename) and
leftovers under temporary names are not in this module. The calls of a roll back
fail only when what they move is gone.

### ByteRange and RangeServing

A header is what stands before and after its first dash: a number, nothing
(`NoNum`), or text that is no number, such as the rest of a list of ranges
(`BadNum`); `NoRange` stands for no header or one in another unit. `ParseRange` is
`parse_range`, which reads an omitted and an unreadable number alike
(`unwrap_or`). What it is compared with is written from HTTP (RFC 9110, 14.1.2)
and not from the code: `IntRange` are the headers `bytes=n-` and `bytes=n-m`,
`SuffixRange` is `bytes=-n`, the last n bytes, `Asked` the offsets that either
names, and `Answers` says which replies answer that.

`Request` makes the head from the length the file has at that moment, `Open` is
`spawn_blocking` opening it again: the length may be another one, and the frame
index may be there or not. A plain body is `ReadBlock`, each read returning any
number of bytes up to the block. A sealed one is `StartWindow` (a window of one
frame's length from wherever the body has come to), `ReadFrame` per frame (from
the first frame when there is no index) and `EndWindow`. Every byte is
represented by its offset, so that a frame that is doubled, left out or cut at
the wrong place shows in `sent`. `BreakOff` is an I/O error or a client that has
gone. The ciphertext, the other headers and the end of the connection are left
out.

### Download

The three local files are `part`, `marker` and `dest`; each action of `Work` is a
file system call or a reply, in the order of `download` and `promote_part`. A run
may fail or be killed at any of them (`GiveUp`), and the remote file may be
replaced or removed at any moment (`Replace`). `Silent` is a server that sends a
416 without its length, which the command then asks for with `bytes=0-0`. `seen`
is a history variable: the versions the remote file has had since the part was
begun. A body comes from one version; two commands into one destination are left
out.

### PutClient

`job[j]` is a running command or page: what it is about to send, its token, the id
and offset it was told, and how far it has read in its file (the command reads
on, the page cuts out the chunk at the offset). `net` are the requests under
way; a job waits for its reply, and when it gives up the request becomes `late`
and may still be handled, or be lost. `cache` is the session file of the host,
`Unauthorized` the answer 401, upon which the command logs in and sends the same
request again, once. `Authorize` and `HandlePut` are two steps, since
`upload_put` looks at the session before it awaits the body. `Collect` is `gc`
once nobody works on the upload. An upload that is still short of bytes does not
give way to another user; a complete one does, as if its idle period were over.
A logout that does not reach the server is left out. `Expire` ends a
login session; a restart of the server in the middle of an upload, which does more
than that (`transfer.rs:121`), is not in this module: `restart_hole` has it.

### Auth

A key file holds the pair it belongs to, or is `Empty` between the truncation
and the filling of `std::fs::write`. `making[m]` is what a login, an `init-keys`
or the start of the server is doing: the four halves of the two writes, then the
unlocking; there is no lock between them. `Crash` ends the server with its logins
and sessions, `CreateFails` a single making. `Get`, `Logout`, `Purge` are the
operations of `AuthState`, with the boundary of each (`get` serves a session
in its last second, the purge removes it). `Seal` reads the encapsulation keys as
`complete` does, `KeyFor` is `dek_for_path` and `Opens` is
`open_header_and_dek`. `rotated` and `torn` are history variables: keystores
that were replaced or made by two at a time, and keystores whose last making
broke off or overlapped. Passwords are right and never change.

### Remux

Names and files are kept apart (`name` and `data` by inode): ffmpeg goes on
writing the file it has opened after another request has renamed it into the
cache. A request may be given up at any moment (`Cancel`), which leaves its ffmpeg
running. The streams of the source can be copied into an mp4 or not, and it does
not change. A copy that cannot succeed breaks off anywhere, and so may a transcode
of such a source (`Exit`, whose failure is the error of `media.rs:131-133`: the
temporary file stays as it is). A source that can be copied is copied without an
error. `opened` and `abandoned` are history variables: the files that the
processes of a request have opened, and those of requests that were given up or
failed in the transcode.

## 3. Runs

Passing runs; those of `Transfer` with two upload ids (a session and the one that supersedes
it, or the one whose handler is still in its unlocked part):

| Run | Question |
|-----|----------|
| `transfer` | two users, an admin and anonymous callers on a shared and a home path, nothing fails: `TypeOK`, `OnePerPath`, `SavedCopy`, `WithinQuota`, `PartialsKept` |
| `transfer_faults` | one shared path, every file system call may fail and saves may overlap: `BookInv` (the inductive invariant), `CommittedWhole`, `OffsetBacked`, `FinalizingOwned`, `ClaimedHeld` |
| `transfer_live` | inits and installs may fail and saves may overlap: `FinalizeEnds`, `AbandonedCollected`, and `ServiceSpec`: `Transfer` implements `UploadService` |
| `transfer_crash` | crashes, restarts and saves that overlap, on a shared and a home path, one upload at a time, for one user and anonymous callers: `OwnedUnderEncryption`, `NoStaleFinalizing`, `UploadsSurvive` |
| `sealed_files` | two writers that seal and delete one path and a reader, with seals that fail half-way and crashes between any two calls: `TypeOK`, `SettledMatch`, `AloneServesWhole` |
| `sealed_writer` | one writer at a time that seals, deletes and renames on two paths, with renames that are rolled back, crashes between any two calls, and a reader: `Together`, `AloneServesWhole`, `RetryRepairs` |
| `ranges` | every header on plain and sealed files that may be replaced between head and body, with and without an index: `AnswersAsked` (for `bytes=n-` and `bytes=n-m`), `InOrder`, `AsAnnounced`, `RequestEnds` |
| `download` | gets of two paths into one destination, failing or killed anywhere, while the remote files change: `PartOfMarked`, `SavesWhole`, `ProgressKept`, `GetEnds` |
| `put_client` | a command and a page that upload to one path, of one user with one file or of two with different ones, given up and run again, with late and lost requests, logins and logouts of others on the host: `FileWhole`, `ActsAsConfigured`, `SuccessPublished`, `PutEnds` |
| `auth` | two logins at a time, `init-keys`, starts and crashes of the server between any two writes: `PairMatches`, `OwnerReads`, `SharedKeyReads`, `SessionsEnd` |
| `remux` | two requests, three ffmpegs, four files, requests given up and transcodes failing anywhere: `SettledWhole` |

Every module states its type invariant; where the run of a module checks the
other properties only, `TypeOK` holds of the same instance.

Bounds. A size of 2 gives a mid-transfer partial with real bytes and one more
to come (`transfer_live` and `transfer_crash` have uploads of 1, whose partials
are empty); in `transfer`, 0 and a size above `MaxSize` are declared too and
refused, and one path is spelled in two ways. Thresholds
of one tick distinguish active, idle (supersedeable) and expired. Two ids allow
every interaction of two uploads; a third would be a second superseder, which
meets the same state as the first. One path suffices for everything that is
about a path; quotas and owners, which relate paths, have runs with two. The
quotas are small enough to be hit. `sealed_files` has three versions: one and
two frames, two of them with the same number of frames but different sizes and
headers; a frame holds two bytes, so that last frames are full or not.
`Together` and `RetryRepairs` need the one writer of their run: with two the
first is violated (below). `ranges` has files of up to three frames of two bytes,
whose last frame is full or not, and header numbers from 0 to past the end of the
longest file: a range can lie in one frame, across a boundary, over a whole frame
and beyond the file. `download` has versions of which one is empty, two have one
length and one is longer, so that a part can be shorter than, as long as, or
longer than the file it is resumed against. `put_client` has a file of two chunks
and one late request: the last and the one before the last chunk differ, and a
late request meets every state of the run after it; two login sessions allow one
to end and be replaced, three ids a late request, an upload in progress and a
new one. In `auth` three key pairs are those of two users and a rotation, or of
two that race and the shared one; one session and one file at a time suffice for
properties about a session and a file. `remux` has as many processes as two requests need
with one more left over from a cancelled request, and a file for each of them and
one in the cache. `transfer_crash` has a limit of one upload at a time, which a
restart does not enforce: it may still read back two. Its second id is that of the
upload that supersedes, or of the next one. Symmetry is used on ids, and on
the requests, processes and files of `remux`, never in a run
with liveness. Deadlock is not checked: a server that no client calls is idle.

Fairness (`Fairness` in `Transfer`): the tails of `init` and `complete` are
straight-line code without an await, so a started handler finishes; the hourly
task runs `gc` for ever; time passes. Nothing is assumed of clients.
`RangeServing`: the reading thread, a blocking task without an await, runs while
it has a client. `Download`: a started command runs on until it ends or is
killed; nobody has to run it again. `PutClient`: a started job runs on, and the
server answers a request it has received and whose client waits. `Auth`: the
hourly purge of a running server, and time. `Remux` has safety properties only.
Starts, retries, restarts, logins and requests are never assumed to happen.

### Disagreements between the code and what it says of itself

`restart_hole` is a run: `init` preallocates the part file to its full size
(`transfer.rs:382`) and `reload` takes its length for the progress, so that after
a restart an upload counts as received, its client is told to send nothing, and
`complete` publishes it with a hole. `config.example.toml:16` calls what survives
"offsets, temp parts"; the saved offset is not used. This is why
`transfer_faults` checks `CommittedWhole` and `transfer_crash` does not.

The following are consequences of the modules as they stand. Each can be seen by
checking the named formula with the named constants; no run does, since what they
show is outside what the passing properties promise:

- An `init` superseded during its file system work leaves its files; after a
  restart the path has two uploads, against "one at a time" (`transfer.rs:42`):
  `OnePerPath` under `CrashSpec` with faults.
- Superseding deletes the session in the way before the quotas refuse the new
  one, so an upload goes and none replaces it (`transfer.rs:335`):
  `GoneOnlyIfReplaced` with a quota below the number of ids.
- A crash between the rename of a new ciphertext and the removal of the old
  sidecars pairs it with the old index and the old size, against "a stale
  `.fst-idx` can never pair with new ciphertext" (`crypto.rs:263`):
  `NoStaleIdx` with crashes. What holds is `RetryRepairs`.
- A rename that overlaps a `complete` of an upload over its source can take the
  new ciphertext and the old size to the destination, before the seal has written
  the new size: `SettledMatch` with one client that seals and one that moves. No
  comment speaks of renames beside uploads.
- A rename and an overlapping rename back leave the ciphertext at one path and
  its sidecars at the other, and both succeed (`storage.rs:334-336` rules this
  out for one rename that fails): `Together` with `MCMovers`.
- `rename` checks its destination long before it renames: two renames to one
  destination destroy a file, against "Destination must not already exist"
  (`SKILL.md:98`): `NoClobber` with `MCMovers` and `MCPathsThree`.
- After a restart a peer may take over a mid-transfer partial, since it counts
  as complete (`CanSupersede` after `Reload`, against `config.example.toml:58`).
- The tail of `init` saves its session without the lock under which resumes,
  chunks and completes save it, through the same temporary name
  (`transfer.rs:177`, `383`). When two overlap, the rename of `init` finds nothing,
  and it rolls back an upload that another request has resumed, or that a
  `complete` is publishing: `ClaimedHeld` excepts this (`RolledBack`).
- The roll back of a superseded `init` removes the path lock of the session that
  superseded it (`transfer.rs:390`), so `path_locks` and `sessions` do not always
  agree. `init` looks for the session on the path before it looks at the lock,
  so `OnePerPath` holds all the same.
- A download that opens a file between the rename of its new ciphertext and the
  removal of the old size sidecar announces the old length: `AloneServesWhole`
  asks that nothing is put at the path meanwhile.
- Two first logins of one user at a time generate two pairs, and the two files
  may be of different ones: later files of the home are sealed to a key nobody
  holds, although they "are sealed to that user's key (unlocked at login)"
  (`README.md:38` of the repository). `PairMatches` and `OwnerReads` except such
  keystores (`torn`, `rotated`).
- A login that finds the `.ek` of a first login still being made does not wait
  for its `.sk`: it is refused with the right password (`Refuse`). After a crash
  between the two writes it is refused at every login, until `init-keys`.
- A crash between the two writes of the shared keystore, or a start without
  `FST_SHARED_PASSWORD` when `shared.ek` exists: uploads to `shared/` are sealed
  and cannot be read, where `main.rs:252` says they "will fail to seal/open".
- Replacing keys with `init-keys` leaves files that the new key does not open
  (`OwnerReads` excepts those of a user, `SharedKeyReads` those of a replaced shared
  key), and sessions that hold the old key.
- `get` resumes by length alone: when the remote file has changed since the part
  was begun, parts of two versions are joined and saved (`cli.rs:806`);
  `SavesWhole` asks for an unchanged file.
- Two different files of one length that one owner uploads to one path at a time
  are mixed, since a session is resumed by path, size and owner
  (`transfer.rs:313`); `FileWhole` has one file per user.
- A `get` of another path into the same destination drops the part of the first:
  `ProgressKept` is about runs for the path that the marker names.
- `promote_part` removes the old destination before it renames the part
  (`cli.rs:750`): a kill in between leaves no file under that name, though the part
  is there and the next run moves it.
- A session in its last second is served by `get` and removed by the purge
  (`auth.rs:122`, `134`); no property is about that second.
- When the reply to `complete` is lost, the client reports an error for a file
  that is published; `SuccessPublished` is about success only.
- `bytes=-n`, to HTTP the last n bytes, is answered with the offsets 0 to n, since
  `parse_range` reads the omitted first number as 0 (`api.rs:689`), although
  "Downloads use HTTP `Range`" (`README.md:94` of the repository): `SuffixAnswered`
  in the run `ranges`. `AnswersAsked` is therefore about `bytes=n-` and
  `bytes=n-m`. Headers that are no valid range, `bytes=x-5` or a list of ranges,
  are answered with a part by the same `unwrap_or`; no property is about these,
  save that the body is what the head announces.
- While a second ffmpeg rewrites it, a file just moved into the cache is served
  incomplete.
- For a source that cannot be copied, a truncated file can stay in the cache for
  good: one request has transcoded it and renames it while the copy of another,
  started meanwhile, has truncated it; the client of the other goes away, or its
  transcode fails, so that nothing mends the file (`media.rs:131-135`).
  `SettledWhole` excepts the files in `abandoned`; without that TLC finds it
  violated.

## 4. Proofs

Every safety invariant and every action property that a passing run checks is
also a theorem, for every value of the constants: any number of ids, paths,
users, clients, jobs, processes and bytes, any quotas, thresholds, frame and
block sizes, any subset of faults, except where a hypothesis is named below. So
is the refinement of `UploadService` by `Transfer`. The theorems rest on the named
assumptions of the modules: types of the constants, limits that are naturals,
sizes of frames and blocks that are not zero, administrators that are users, and
`None` (`Empty`, `NoRange`) standing for no value. TLC evaluates them in every run.

Few of the properties are inductive. Each module ends with the strengthening
that is, in named parts; TLC has found each of them to hold on the instances of
the module's run (`BookInv` is checked by `transfer_faults`, the others with
their name in place of the run's invariants).

**Transfer** (`TransferProofs`). `Inductive` is for files: that the file about to
be installed is whole (`CommittedWhole`) needs that its offset was backed by
bytes when it was claimed (`OffsetBacked`), that it has no more bytes than
declared (`PartBounded`), that nobody changes it while `complete` works without
a lock (`SealingHeld`), which needs that the path is marked by this handler only
(`FinalizingOwned`), and that no late `File::create` truncates it
(`CreationFresh`). `BooksAgree` adds what ties the books to each other: what a
handler of `init` is about to save is an earlier moment of its session
(`NewSaved`), so the saved copy stays behind the session (`SavedCopy`); what was
claimed stays full (`SealingFull`); the quotas, by counting what a superseding
`init` drops before it adds (`WithinQuota`). Most actions only take away sessions,
files or handlers and are treated by one lemma. `Implements` maps every step,
faults included, to a step of `UploadService` or to none.

`ClaimedStays` holds for every set of faults, with the one exception that its
property names: the roll back of an `init` takes its session away whatever has become
of it (section 3). What a save may do when it overlaps that of `init` is the lemma
`PersistIs`.

**TransferCrash** (`TransferCrashProofs`). After a restart a part file may have a
hole and a path two uploads, so neither invariant of `Transfer` survives.
`CrashInv` keeps what does: per upload, no more progress than declared, a part
file that reaches as far as the progress known in memory and on disk, and a saved
copy or a handler that is about to write it (`Recoverable`); one `complete` per
path (`OneSealing`). No hypothesis on faults.

**SealedFiles** (`SealedFilesProofs`). `SizeInferred` proves the arithmetic of a
missing sidecar: the size computed from the length of the frames is the size that
was sealed, whether the last frame is full or not. Then two invariants, one for
each run:

- `MatchInv`: any number of requests that seal and delete, none that renames, and
  crashes. Outside of a seal that has replaced the ciphertext, and of what a crash
  has torn, the sidecars belong to the ciphertext or are missing; what a seal has
  put in place so far others can only have deleted; and once a delete has removed
  a torn ciphertext (`Deleted`), the path matches even while its sidecars are
  still to go, also if something is sealed there meanwhile. This gives `SettledMatch` and
  `AloneServesWhole`.
- `WriterInv`, under `OneWriter` (at most one client makes requests that write, one
  after the other): renames, roll backs and crashes. What nobody works on and no
  crash has torn is `Intact`; for a rename, the parts together, wherever they
  are by now (`Moving`), are the file that was there, so that going on and
  rolling back both leave it whole. This gives `RetryRepairs`, `AloneServesWhole`
  and, if sidecars can be written, `Together`.

Both need `AloneSees`: what a reader has found, and what it can still find at its
path even when a rename is undone, is of one version. The hypotheses are not for
convenience. With a client that renames beside one that seals, TLC finds
`SettledMatch` violated without a fault, and `AloneServesWhole` when the rename is
rolled back; with two that rename, `Together`; and a path that a crash has torn
does not match (section 3).

**RangeServing, ByteRange** (`RangeServingProofs`). `AnswersAsked` is arithmetic
over all headers `bytes=n-` and `bytes=n-m` and all lengths. `InOrder` needs to say what the window holds between two
frames: the bytes from where the body is up to the end of the frames it has been
through, cut at the window and the file (`WindowInOrder`).

**Download** (`DownloadProofs`). The invariant goes along the run: what is known
of the part at each place of `download` (`Adopted`, `Receiving`, `Judging`,
`Promoting`), all versions seen since it was begun (`PartSeen`), and that a part of the
path's own is thrown away only when the remote file has changed (`Discarding`).

**PutClient** (`PutClientProofs`). Every request under way carries bytes cut from the
file at its own offset (`ChunksCut`), so the upload is a prefix of the file of its
owner's job whoever's requests filled it (`UploadBegun`); a job waits for one
reply, to a request at the offset it is at (`OneAnswer`); and a session in the
cache belongs to the user written beside it (`SessionsKnown`).

**Auth** (`AuthProofs`). A making that runs by itself is the only one, and the
`.ek` it has written is still its own when it writes the `.sk` (`AloneMakes`). A
keystore that was never replaced has had one pair of which anything was written
(`FirstPair`), and that pair is what sessions hold and files are sealed to
(`OfFirstPair`).

**Remux** (`RemuxProofs`). What is not in a file yet is still going to be written
by a process that has it open (`Filling`), or a transcode is due that will mend it
(`Mended`, `Due`) or has opened the file that will replace it (`Replacing`); or
else it is among the files of a request that was given up or failed, which the
history knows (`Recorded`). There is no hypothesis on which requests are given up.

Two definitions were corrected because a proof did not go through: the bound of
the users in `PutClient` was wider than meant, and the assumptions that `None` is
no value left out some of the types that it is compared with.

Only model-checked: the liveness properties (`FinalizeEnds`, `AbandonedCollected`,
`RequestEnds`, `GetEnds`, `PutEnds`, `SessionsEnd`), since the prover has no rule
for fairness over `ENABLED`; and the disagreements of section 3, which are
counterexamples.

## 5. Plan

Theorems to come, in this order:

1. What the liveness properties rest on and the prover can state: that no
   state is a dead end for a handler, and the measure that each step of a
   loop lowers (the body of `RangeServing`, the probes of `Download`, the one
   repetition of `PutClient`).
2. Composition: that the server of `PutClient` takes the steps that `UploadService`
   allows for one path, so that what is proved of either can be joined.
3. Weaker hypotheses: `SettledMatch` with renames whose paths nobody else writes,
   in place of one writer.

Modules to come, if they earn their runs: `normalize_virtual_path` against
`resolve` on lists of segments, and the order in which the three mutexes of
`TransferManager` are taken.

## 6. Not modelled

- The ciphers, key encapsulation and password hashing (external libraries,
  assumed to do what they say), wrong and changed passwords: a password hash that
  is changed in the configuration leaves the `.sk` under the old password, and
  the user can then log in with neither.
- HTTP framing and compression, directory listing, MIME and audio tags,
  configuration parsing, the commands of the CLI that send one request and print
  its answer, and the look of the web client: no state, or none that the
  properties depend on.
- Deletes and renames of whole directories; path normalisation (the constant
  `Canonical`).
- `needs_remux` (a probe), a source that changes while it is remuxed, and a copy
  that fails although the source can be copied (a full disk).
- A restart of the server in the middle of a `put` (`TransferCrash` has the server's
  side), and a `{id}.json.tmp` torn between two writers.
- Two `get` commands into one destination and two writers of the session file at
  one instant: the code takes no lock, and says nothing of either.
- Power loss, as opposed to a crash of the process: the code syncs part files and
  ciphertext but not directories.
