------------------------------ MODULE Transfer ------------------------------
(***************************************************************************)
(* The TransferManager of fileserving-toolkit (src/src/transfer.rs):       *)
(* resumable uploads, within one lifetime of the server process.           *)
(*                                                                         *)
(* Handlers run on a thread pool.  Everything a handler does while it      *)
(* holds the `sessions` mutex is one action; `init` and `complete` release *)
(* the mutex before their file system work, so their tails are separate    *)
(* actions, with the handler's continuation kept in `creating` and         *)
(* `sealing`.  Module TransferCrash adds process crashes and restarts.     *)
(*                                                                         *)
(* A file's bytes are abstracted to how many leading bytes were really     *)
(* received (`filled`); the clock to the age of each `updated` stamp.      *)
(*                                                                         *)
(* A definition Name_Slip is Name with a slip a programmer could make.  No *)
(* specification uses it: it shows that a property notices the slip.       *)
(***************************************************************************)
EXTENDS Integers, FiniteSets

CONSTANTS
    Ids,            \* upload ids (UUIDs)
    Paths,          \* canonical virtual paths
    RawPaths,       \* paths as clients spell them
    Canonical,      \* RawPaths -> Paths or None: normalize_virtual_path
    Home,           \* Paths -> the user whose ~home holds it, None for shared/
    Users,          \* user names
    Admins,         \* the users with Role::Admin
    DeclaredSizes,  \* sizes a client may declare
    MaxSize,        \* transfer.max_size
    MaxConcurrent,  \* transfer.max_concurrent
    MaxPerUser,     \* transfer.max_per_user
    IdleSupersede,  \* transfer.idle_supersede_secs, in clock ticks
    UploadTtl,      \* transfer.upload_ttl_secs, in clock ticks
    Faults,         \* which file system calls may fail, and whether two saves of
                    \* one upload may overlap
    None            \* Rust's None

\* An age beyond every threshold the code compares it with.
AgeCap == 1 + IF UploadTtl > IdleSupersede THEN UploadTtl ELSE IdleSupersede

UploadSession ==
    [path: Paths, size: 1..MaxSize, offset: 0..MaxSize,
     owner: Users \cup {None}, idle: 0..AgeCap]

PartFile == [len: 0..MaxSize, filled: 0..MaxSize]

ServedFile == [size: 1..MaxSize, filled: 0..MaxSize]

\* What clients see of an upload (module UploadService).
Progress == [size: 1..MaxSize, got: 0..MaxSize, owner: Users \cup {None}]

InitHandler == [pc: {"create", "alloc", "persist", "lost"}, us: UploadSession]

CompleteHandler ==
    [pc: {"claimed", "sealed", "ok", "err"}, path: Paths, size: 1..MaxSize]

ASSUME LimitsAssumption ==
    /\ MaxSize \in Nat \ {0}
    /\ DeclaredSizes \subseteq Nat
    /\ MaxConcurrent \in Nat
    /\ MaxPerUser \in Nat
    /\ IdleSupersede \in Nat
    /\ UploadTtl \in Nat

ASSUME UsersAssumption == Admins \subseteq Users

ASSUME PathsAssumption ==
    /\ Canonical \in [RawPaths -> Paths \cup {None}]
    /\ Home \in [Paths -> Users \cup {None}]

ASSUME FaultsAssumption == Faults \subseteq {"init", "persist", "write", "install", "overlap"}

\* None stands for the absence of a value, so it is none of the values.
ASSUME NoneAssumption ==
    None \notin Users \cup Paths \cup UploadSession \cup PartFile
                \cup ServedFile \cup InitHandler \cup CompleteHandler
                \cup Progress

VARIABLES
    encryption,   \* config: encryption.enabled
    sessions,     \* the map of live upload sessions
    path_locks,   \* paths with an incomplete upload
    finalizing,   \* paths being sealed by `complete`
    part,         \* {id}.part files in upload_state_dir
    json,         \* {id}.json files in upload_state_dir
    dest,         \* published files under the storage root
    creating,     \* `init` handlers between their two critical sections
    sealing       \* `complete` handlers between their two critical sections

memory   == <<sessions, path_locks, finalizing>>
disk     == <<part, json, dest>>
handlers == <<creating, sealing>>
vars     == <<encryption, memory, disk, handlers>>

-----------------------------------------------------------------------------
(* Sessions, paths and callers.                                            *)

Live == {id \in Ids : sessions[id] # None}
OnPath(p) == {id \in Live : sessions[id].path = p}
OwnedBy(u) == {id \in Live : sessions[id].owner = u}

Erase(f, S) == [id \in Ids |-> IF id \in S THEN None ELSE f[id]]

\* Ids are UUIDs: one is taken again only when no trace of it is left.
Fresh(id) ==
    /\ sessions[id] = None
    /\ part[id] = None /\ json[id] = None
    /\ creating[id] = None /\ sealing[id] = None

\* With encryption every request carries a session, in open mode none does.
Callers == IF encryption THEN Users ELSE {None}

\* Storage::resolve: another user's ~home is for admins only.
MayResolve(c, p) == ~encryption \/ Home[p] \in {None, c} \/ c \in Admins

Authorized(s, c) ==
    IF encryption THEN s.owner # None /\ s.owner = c
                  ELSE s.owner \in {None, c}

\* Peers take over what is idle, received in full or not.
CanSupersede_Partial(other, c) ==
    \/ c \in Admins
    \/ other.owner # None /\ other.owner = c
    \/ other.idle >= IdleSupersede

CanSupersede(other, c) ==
    \/ c \in Admins
    \/ other.owner # None /\ other.owner = c
    \/ /\ other.owner = None /\ c = None
       /\ other.offset = other.size \/ other.idle >= IdleSupersede
    \/ other.offset = other.size /\ other.idle >= IdleSupersede

At(id, pc) == creating[id] # None /\ creating[id].pc = pc

\* `persist` writes {id}.json.tmp and renames it, under the lock of its caller; only
\* the tail of `init` calls it without one, so that both can be at it.
Overlaps(id) ==
    /\ "overlap" \in Faults
    /\ creating[id] # None /\ creating[id].pc \in {"persist", "lost"}

\* What is renamed then is what either of the two has written.
Renamed(id, s) == IF At(id, "persist") THEN {s, creating[id].us} ELSE {s}

\* The save is made.  It may have taken the file of `init` away, which will then
\* find nothing to rename.
PersistOk(id, s) ==
    \/ /\ json' = [json EXCEPT ![id] = s]
       /\ UNCHANGED creating
    \/ /\ Overlaps(id)
       /\ \E t \in Renamed(id, s) : json' = [json EXCEPT ![id] = t]
       /\ creating' = [creating EXCEPT ![id].pc = "lost"]

\* An error: the disk's, or it is `init` that has taken the file away, and is done.
PersistErr(id, s) ==
    \/ /\ "persist" \in Faults
       /\ UNCHANGED <<json, creating>>
    \/ /\ Overlaps(id)
       /\ \E t \in Renamed(id, s) : json' = [json EXCEPT ![id] = t]
       /\ creating' = [creating EXCEPT ![id] = None]

\* A save whose error is ignored, or is reported after the state has changed.
Persist(id, s) == PersistOk(id, s) \/ PersistErr(id, s)

-----------------------------------------------------------------------------
(* POST /api/upload/init.                                                  *)

InitAllowed(c, p, n) ==
    /\ c \in Callers
    /\ n \in 1..MaxSize
    /\ p # None
    /\ MayResolve(c, p)

Resumable(c, p, n) ==
    {id \in OnPath(p) : sessions[id].size = n /\ sessions[id].owner = c}

InitResume(c, p, n) ==
    /\ InitAllowed(c, p, n)
    /\ \E id \in Resumable(c, p, n) :
          LET s == [sessions[id] EXCEPT !.idle = 0]
          IN  /\ sessions' = [sessions EXCEPT ![id] = s]
              /\ Persist(id, s)
    /\ UNCHANGED <<encryption, path_locks, finalizing, part, dest, sealing>>

\* Nobody looks for a session in the way.
Conflicts_Ignored(p) == {{}}

\* The one session that stands in the way, if any: a hash map's `find` may
\* return whichever of several.
Conflicts(p) == IF OnPath(p) = {} THEN {{}} ELSE {{v} : v \in OnPath(p)}

MayTake(c, p, n, victims) ==
    /\ InitAllowed(c, p, n)
    /\ Resumable(c, p, n) = {}
    /\ p \notin finalizing
    /\ \A v \in victims : CanSupersede(sessions[v], c)

\* One upload too many.
QuotaFull_OffByOne(c, victims) ==
    \/ Cardinality(Live \ victims) > MaxConcurrent
    \/ c # None /\ Cardinality(OwnedBy(c) \ victims) > MaxPerUser

QuotaFull(c, victims) ==
    \/ Cardinality(Live \ victims) >= MaxConcurrent
    \/ c # None /\ Cardinality(OwnedBy(c) \ victims) >= MaxPerUser

\* The first critical section of an `init` that is granted.
InitReserve(c, p, n) ==
    \E victims \in Conflicts(p), id \in Ids :
        LET us == [path |-> p, size |-> n, offset |-> 0, owner |-> c, idle |-> 0]
        IN  /\ MayTake(c, p, n, victims)
            /\ ~QuotaFull(c, victims)
            /\ Fresh(id)
            /\ sessions' = [Erase(sessions, victims) EXCEPT ![id] = us]
            /\ path_locks' = path_locks \cup {p}
            /\ part' = Erase(part, victims)
            /\ json' = Erase(json, victims)
            /\ creating' = [creating EXCEPT ![id] = [pc |-> "create", us |-> us]]
            /\ UNCHANGED <<encryption, finalizing, dest, sealing>>

\* Over quota, but the session in the way has been dropped by then.
InitRefused(c, p, n) ==
    \E victims \in Conflicts(p) :
        /\ MayTake(c, p, n, victims)
        /\ QuotaFull(c, victims)
        /\ sessions' = Erase(sessions, victims)
        /\ path_locks' = path_locks \ {p}
        /\ part' = Erase(part, victims)
        /\ json' = Erase(json, victims)
        /\ UNCHANGED <<encryption, finalizing, dest, handlers>>

\* The file system work of a granted `init`, without any lock: File::create,
\* set_len, persist.
CreatePart(id) ==
    /\ At(id, "create")
    /\ part' = [part EXCEPT ![id] = [len |-> 0, filled |-> 0]]
    /\ creating' = [creating EXCEPT ![id].pc = "alloc"]
    /\ UNCHANGED <<encryption, memory, json, dest, sealing>>

\* On a file unlinked meanwhile, set_len has no visible effect.
AllocPart(id) ==
    /\ At(id, "alloc")
    /\ part' = IF part[id] = None THEN part
               ELSE [part EXCEPT ![id].len = creating[id].us.size]
    /\ creating' = [creating EXCEPT ![id].pc = "persist"]
    /\ UNCHANGED <<encryption, memory, json, dest, sealing>>

\* The new session is not saved.
PersistNew_Unsaved(id) ==
    /\ At(id, "persist")
    /\ creating' = [creating EXCEPT ![id] = None]
    /\ UNCHANGED <<encryption, memory, disk, sealing>>

PersistNew(id) ==
    /\ At(id, "persist")
    /\ json' = [json EXCEPT ![id] = creating[id].us]
    /\ creating' = [creating EXCEPT ![id] = None]
    /\ UNCHANGED <<encryption, memory, part, dest, sealing>>

\* The roll back, when any of the three calls fails, or when another save of this
\* upload has taken the file that was to be renamed.
CreateFail(id) ==
    /\ "init" \in Faults \/ At(id, "lost")
    /\ creating[id] # None
    /\ sessions' = [sessions EXCEPT ![id] = None]
    /\ path_locks' = path_locks \ {creating[id].us.path}
    /\ part' = [part EXCEPT ![id] = None]
    /\ creating' = [creating EXCEPT ![id] = None]
    /\ UNCHANGED <<encryption, finalizing, json, dest, sealing>>

-----------------------------------------------------------------------------
(* PUT /api/upload/:id.  The sessions mutex is held throughout.            *)

\* Any offset is taken for the session's.
MayWrite_AnyOffset(c, id, at) ==
    /\ c \in Callers
    /\ id \in Live
    /\ Authorized(sessions[id], c)
    /\ sessions[id].path \notin finalizing
    /\ sessions[id].offset < sessions[id].size
    /\ at <= sessions[id].size - sessions[id].offset
    /\ part[id] # None

MayWrite(c, id, at) ==
    /\ c \in Callers
    /\ id \in Live
    /\ Authorized(sessions[id], c)
    /\ sessions[id].path \notin finalizing
    /\ at = sessions[id].offset
    /\ sessions[id].offset < sessions[id].size
    /\ part[id] # None

\* The bytes already received are forgotten.
Remaining_Whole(s) == s.size

\* How many bytes of the request body are used at most.
Remaining(s) == s.size - s.offset

\* Write n bytes at position `at`, growing the file when needed.
Written(f, at, n) ==
    LET end == at + n
    IN  [len    |-> IF f.len < end THEN end ELSE f.len,
         filled |-> IF at <= f.filled /\ f.filled < end THEN end ELSE f.filled]

WriteChunk(c, id, at, n) ==
    /\ MayWrite(c, id, at)
    /\ n \in 0..Remaining(sessions[id])
    /\ part' = [part EXCEPT ![id] = Written(@, at, n)]
    /\ LET s == [sessions[id] EXCEPT !.offset = @ + n, !.idle = 0]
       IN  /\ sessions' = [sessions EXCEPT ![id] = s]
           /\ Persist(id, s)
    /\ UNCHANGED <<encryption, path_locks, finalizing, dest, sealing>>

\* The write breaks off after n bytes: the session does not advance.
WriteFail(c, id, at, n) ==
    /\ "write" \in Faults
    /\ MayWrite(c, id, at)
    /\ n \in 1..Remaining(sessions[id])
    /\ part' = [part EXCEPT ![id] = Written(@, at, n)]
    /\ UNCHANGED <<encryption, memory, json, dest, handlers>>

-----------------------------------------------------------------------------
(* POST /api/upload/:id/complete.                                          *)

\* Incomplete uploads are published.
MayClaim_Incomplete(c, id) ==
    /\ c \in Callers
    /\ id \in Live
    /\ Authorized(sessions[id], c)
    /\ sessions[id].path \notin finalizing

MayClaim(c, id) ==
    /\ c \in Callers
    /\ id \in Live
    /\ Authorized(sessions[id], c)
    /\ sessions[id].offset = sessions[id].size
    /\ sessions[id].path \notin finalizing

\* The first critical section.
Claim(c, id) ==
    /\ MayClaim(c, id)
    /\ LET s == [sessions[id] EXCEPT !.idle = 0]
       IN  /\ sessions' = [sessions EXCEPT ![id] = s]
           /\ PersistOk(id, s)
           /\ path_locks' = path_locks \cup {s.path}
           /\ finalizing' = finalizing \cup {s.path}
           /\ sealing' = [sealing EXCEPT ![id] =
                             [pc |-> "claimed", path |-> s.path, size |-> s.size]]
    /\ UNCHANGED <<encryption, part, dest>>

\* Its save fails: an error, but `updated` has been refreshed in memory.
ClaimUnsaved(c, id) ==
    /\ MayClaim(c, id)
    /\ LET s == [sessions[id] EXCEPT !.idle = 0]
       IN  /\ sessions' = [sessions EXCEPT ![id] = s]
           /\ PersistErr(id, s)
    /\ UNCHANGED <<encryption, path_locks, finalizing, part, dest, sealing>>

Sealing(id, pc) == sealing[id] # None /\ sealing[id].pc = pc

\* Publish, without any lock: rename the part file in open mode, encrypt it
\* to a temporary that is renamed in place otherwise.
Install(id) ==
    /\ Sealing(id, "claimed")
    /\ part[id] # None
    /\ dest' = [dest EXCEPT ![sealing[id].path] =
                   [size |-> sealing[id].size, filled |-> part[id].filled]]
    /\ part' = IF encryption THEN part ELSE [part EXCEPT ![id] = None]
    /\ sealing' = [sealing EXCEPT ![id].pc = IF encryption THEN "sealed" ELSE "ok"]
    /\ UNCHANGED <<encryption, memory, json, creating>>

RemoveTemp(id) ==
    /\ Sealing(id, "sealed")
    /\ part' = [part EXCEPT ![id] = None]
    /\ sealing' = [sealing EXCEPT ![id].pc = "ok"]
    /\ UNCHANGED <<encryption, memory, json, dest, creating>>

\* The part file is gone, or a call fails before the file is in place.
InstallFail(id) ==
    /\ Sealing(id, "claimed")
    /\ part[id] = None \/ "install" \in Faults
    /\ sealing' = [sealing EXCEPT ![id].pc = "err"]
    /\ UNCHANGED <<encryption, memory, disk, creating>>

\* The ciphertext is in place but writing its size sidecar fails.
InstallThenFail(id) ==
    /\ "install" \in Faults
    /\ encryption
    /\ Sealing(id, "claimed")
    /\ part[id] # None
    /\ dest' = [dest EXCEPT ![sealing[id].path] =
                   [size |-> sealing[id].size, filled |-> part[id].filled]]
    /\ sealing' = [sealing EXCEPT ![id].pc = "err"]
    /\ UNCHANGED <<encryption, memory, part, json, creating>>

\* The second critical section.
FinishOk(id) ==
    /\ Sealing(id, "ok")
    /\ sessions' = [sessions EXCEPT ![id] = None]
    /\ path_locks' = path_locks \ {sealing[id].path}
    /\ finalizing' = finalizing \ {sealing[id].path}
    /\ json' = [json EXCEPT ![id] = None]
    /\ sealing' = [sealing EXCEPT ![id] = None]
    /\ UNCHANGED <<encryption, part, dest, creating>>

\* The path stays marked after a failure.
FinishErr_Marked(id) ==
    /\ Sealing(id, "err")
    /\ path_locks' = path_locks \cup {sealing[id].path}
    /\ sealing' = [sealing EXCEPT ![id] = None]
    /\ UNCHANGED <<encryption, sessions, finalizing, disk, creating>>

FinishErr(id) ==
    /\ Sealing(id, "err")
    /\ path_locks' = path_locks \cup {sealing[id].path}
    /\ finalizing' = finalizing \ {sealing[id].path}
    /\ sealing' = [sealing EXCEPT ![id] = None]
    /\ \/ sessions[id] = None /\ UNCHANGED <<sessions, json, creating>>
       \/ /\ sessions[id] # None
          /\ LET s == [sessions[id] EXCEPT !.idle = 0]
             IN  /\ sessions' = [sessions EXCEPT ![id] = s]
                 /\ Persist(id, s)
    /\ UNCHANGED <<encryption, part, dest>>

-----------------------------------------------------------------------------
(* The hourly collector and the clock.                                     *)

\* The collector takes what is being sealed.
Expired_Sealing == {id \in Live : sessions[id].idle > UploadTtl}

\* The collector leaves uploads that wait for their `complete`.
Expired_Partial ==
    {id \in Live : /\ sessions[id].path \notin finalizing
                   /\ sessions[id].offset # sessions[id].size
                   /\ sessions[id].idle > UploadTtl}

Expired ==
    {id \in Live : /\ sessions[id].path \notin finalizing
                   /\ sessions[id].idle > UploadTtl}

Gc ==
    /\ Expired # {}
    /\ sessions' = Erase(sessions, Expired)
    /\ path_locks' = path_locks \ {sessions[id].path : id \in Expired}
    /\ part' = Erase(part, Expired)
    /\ json' = Erase(json, Expired)
    /\ UNCHANGED <<encryption, finalizing, dest, handlers>>

Older(s) == [s EXCEPT !.idle = IF @ < AgeCap THEN @ + 1 ELSE @]
AllOlder(f) == [id \in Ids |-> IF f[id] = None THEN None ELSE Older(f[id])]

\* Time passes for every `updated` stamp, wherever a copy of it is kept.
Tick ==
    /\ sessions' = AllOlder(sessions)
    /\ json' = AllOlder(json)
    /\ creating' = [id \in Ids |-> IF creating[id] = None THEN None
                                   ELSE [creating[id] EXCEPT !.us = Older(@)]]
    /\ UNCHANGED <<encryption, path_locks, finalizing, part, dest, sealing>>

-----------------------------------------------------------------------------
Init ==
    /\ encryption \in BOOLEAN
    /\ sessions = [id \in Ids |-> None]
    /\ path_locks = {}
    /\ finalizing = {}
    /\ part = [id \in Ids |-> None]
    /\ json = [id \in Ids |-> None]
    /\ dest = [p \in Paths |-> None]
    /\ creating = [id \in Ids |-> None]
    /\ sealing = [id \in Ids |-> None]

InitRequest ==
    \E c \in Callers, raw \in RawPaths, n \in DeclaredSizes :
        \/ InitResume(c, Canonical[raw], n)
        \/ InitReserve(c, Canonical[raw], n)
        \/ InitRefused(c, Canonical[raw], n)

WriteRequest ==
    \E c \in Callers, id \in Ids, at, n \in 0..MaxSize :
        WriteChunk(c, id, at, n) \/ WriteFail(c, id, at, n)

CompleteRequest ==
    \E c \in Callers, id \in Ids : Claim(c, id) \/ ClaimUnsaved(c, id)

\* The rest of a handler that has started.
InitStep(id) == CreatePart(id) \/ AllocPart(id) \/ PersistNew(id) \/ CreateFail(id)

CompleteStep(id) ==
    \/ Install(id) \/ RemoveTemp(id) \/ InstallFail(id) \/ InstallThenFail(id)
    \/ FinishOk(id) \/ FinishErr(id)

Next ==
    \/ InitRequest
    \/ WriteRequest
    \/ CompleteRequest
    \/ \E id \in Ids : InitStep(id) \/ CompleteStep(id)
    \/ Gc
    \/ Tick

Spec == Init /\ [][Next]_vars

-----------------------------------------------------------------------------
(* Properties.                                                             *)

\* Every variable holds values of its type.
TypeOK ==
    /\ encryption \in BOOLEAN
    /\ sessions \in [Ids -> UploadSession \cup {None}]
    /\ path_locks \subseteq Paths
    /\ finalizing \subseteq Paths
    /\ part \in [Ids -> PartFile \cup {None}]
    /\ json \in [Ids -> UploadSession \cup {None}]
    /\ dest \in [Paths -> ServedFile \cup {None}]
    /\ creating \in [Ids -> InitHandler \cup {None}]
    /\ sealing \in [Ids -> CompleteHandler \cup {None}]

\* A path has one incomplete upload at a time: superseding drops the session
\* in the way before `init` reserves the path for the new one.
OnePerPath ==
    \A i, j \in Live : sessions[i].path = sessions[j].path => i = j

\* A published file has every byte its upload declared: what the offset
\* checks of `write_chunk` and `complete` promise together, whatever other
\* handlers do while `complete` works without a lock.
CommittedWhole ==
    \A p \in Paths : dest[p] # None => dest[p].filled = dest[p].size

\* The offset a client is told never runs ahead of the bytes on disk, even
\* when a PUT overtakes the File::create and set_len of its own `init`.
OffsetBacked ==
    \A id \in Live :
        part[id] # None => sessions[id].offset <= part[id].filled

\* The handler's own `init` fails and takes the session back.
RolledBack(id) == creating[id] # None /\ creating'[id] = None /\ sessions'[id] = None

\* While `complete` works without a lock, its session stays in the map, full
\* and on a path marked as finalizing: no init, PUT, gc or second complete
\* takes it away.  Only the `init` that made it can, when it is still at its file
\* system work and that fails.
ClaimKept ==
    \A id \in Live :
        (sealing[id] # None /\ sealing'[id] # None /\ ~RolledBack(id)) =>
            /\ sessions'[id] # None
            /\ sessions'[id].path = sealing[id].path
            /\ sessions'[id].size = sealing[id].size
            /\ sessions'[id].offset = sessions'[id].size
            /\ sealing[id].path \in finalizing'

ClaimedHeld == [][ClaimKept]_vars

\* A path is marked as finalizing only by a `complete` that will unmark it,
\* and only by one.
FinalizingOwned ==
    \A p \in finalizing :
        Cardinality({id \in Ids : sealing[id] # None /\ sealing[id].path = p}) = 1

\* The quotas of `init` bound what is in the map, however inits interleave.
WithinQuota ==
    /\ Cardinality(Live) <= MaxConcurrent
    /\ \A u \in Users : Cardinality(OwnedBy(u)) <= MaxPerUser

\* A session whose `init` has replied is on disk, so that a restart finds it,
\* and its saved copy never claims more progress or fresher activity than the
\* session has.
SavedCopy ==
    \A id \in Live : creating[id] = None =>
        /\ json[id] # None
        /\ json[id].path = sessions[id].path
        /\ json[id].size = sessions[id].size
        /\ json[id].owner = sessions[id].owner
        /\ json[id].offset <= sessions[id].offset
        /\ json[id].idle >= sessions[id].idle

Partial(id) == id \in Live /\ sessions[id].offset < sessions[id].size

\* Mid-transfer partials stay with their owner: one that a named user is
\* still sending leaves the map only because it is past its TTL, because its
\* own `init` failed, or because the owner or an admin replaces it (an admin
\* over quota drops it and gets nothing).
PartialKept ==
    \A id \in Ids :
        (Partial(id) /\ sessions[id].owner # None /\ sessions'[id] = None) =>
            \/ sessions[id].idle > UploadTtl
            \/ creating[id] # None /\ creating'[id] = None
            \/ \E j \in Ids :
                  /\ sessions'[j] # None /\ sessions[j] = None
                  /\ sessions'[j].path = sessions[id].path
                  /\ sessions'[j].owner \in Admins \cup {sessions[id].owner}
            \/ \E a \in Admins : Cardinality(OwnedBy(a)) >= MaxPerUser

PartialsKept == [][PartialKept]_vars

\* Comment on can_supersede (transfer.rs:203): a session in the way "may be
\* replaced by a new init".  It does not go unless the new one is there, or it
\* has been published or has expired.
GivesWay(id) ==
    (id \in Live /\ sessions'[id] = None) =>
        \/ sealing[id] # None
        \/ sessions[id].idle > UploadTtl
        \/ \E j \in Ids : /\ sessions[j] = None /\ sessions'[j] # None
                          /\ sessions'[j].path = sessions[id].path

GoneOnlyIfReplaced == [][\A id \in Ids : GivesWay(id)]_vars

-----------------------------------------------------------------------------
(* The inductive invariant behind OnePerPath, OffsetBacked, CommittedWhole  *)
(* and FinalizingOwned.                                                     *)

\* Until File::create there is no part file and nothing can be received.
CreationFresh ==
    \A id \in Ids : At(id, "create") =>
        /\ part[id] = None
        /\ sealing[id] = None
        /\ id \in Live => sessions[id].offset = 0

\* No part file has more real bytes than its upload declared.
PartBounded ==
    \A id \in Live : part[id] # None => part[id].filled <= sessions[id].size

\* A path being sealed is marked, by one handler; as long as the session is
\* in the map it is the one that was claimed, and its part file is whole.
SealingHeld ==
    \A id \in Ids : sealing[id] # None =>
        /\ sealing[id].path \in finalizing
        /\ \A j \in Ids : (sealing[j] # None /\ sealing[j].path = sealing[id].path)
                           => j = id
        /\ id \in Live => /\ sessions[id].path = sealing[id].path
                          /\ sessions[id].size = sealing[id].size
        /\ part[id] # None => part[id].filled = sealing[id].size

FinalizingClaimed ==
    \A p \in finalizing : \E id \in Ids : sealing[id] # None /\ sealing[id].path = p

IndInv ==
    /\ TypeOK
    /\ OnePerPath
    /\ OffsetBacked
    /\ PartBounded
    /\ CreationFresh
    /\ SealingHeld
    /\ FinalizingClaimed
    /\ CommittedWhole

(* What has to be added to it for ClaimedHeld, SavedCopy and WithinQuota,   *)
(* and for the refinement of UploadService.                                 *)

\* What was claimed stays received in full, and its part file does not
\* outlive the session.
SealingFull ==
    \A id \in Ids : sealing[id] # None =>
        /\ id \in Live => sessions[id].offset = sessions[id].size
        /\ part[id] # None => id \in Live

\* What an `init` is about to save is its session, at an earlier moment.
NewSaved ==
    \A id \in Live : creating[id] # None =>
        /\ creating[id].us.path = sessions[id].path
        /\ creating[id].us.size = sessions[id].size
        /\ creating[id].us.owner = sessions[id].owner
        /\ creating[id].us.offset <= sessions[id].offset
        /\ creating[id].us.idle >= sessions[id].idle

BookInv ==
    /\ IndInv
    /\ SealingFull
    /\ NewSaved
    /\ SavedCopy
    /\ IsFiniteSet(Live)
    /\ WithinQuota

-----------------------------------------------------------------------------
(* Scheduling.  The tail of a handler contains no await: once started it    *)
(* runs to its end.  The collector runs every hour, and time passes.  No    *)
(* client is obliged to send anything.                                      *)

Fairness ==
    /\ \A id \in Ids : WF_vars(InitStep(id)) /\ WF_vars(CompleteStep(id))
    /\ WF_vars(Gc)
    /\ WF_vars(Tick)

FairSpec == Spec /\ Fairness

\* A path that `complete` marks as finalizing is released, whatever the
\* outcome: no path is closed to uploads for ever.
FinalizeEnds ==
    \A p \in Paths : p \in finalizing ~> p \notin finalizing

\* An upload nobody resumes, writes or completes is collected, even when a
\* failed `complete` came in between.
AbandonedCollected ==
    \A id \in Ids : []<>(sessions[id] = None \/ sessions[id].idle = 0)

-----------------------------------------------------------------------------
(* What clients see of it: the specification of module UploadService.       *)

Published(id) == Sealing(id, "sealed") \/ Sealing(id, "ok")

\* The upload a path holds is over at the instant its file is in place.
ActiveOn(p) == {id \in OnPath(p) : ~Published(id)}

UploadAt(p) ==
    IF ActiveOn(p) = {} THEN None
    ELSE LET s == sessions[CHOOSE id \in ActiveOn(p) : TRUE]
         IN  [size |-> s.size, got |-> s.offset, owner |-> s.owner]

\* A file with a hole is no file UploadService knows.
FileAt(p) ==
    IF dest[p] = None THEN None
    ELSE IF dest[p].filled = dest[p].size THEN dest[p].size ELSE 0

Service == INSTANCE UploadService WITH
    upload <- [p \in Paths |-> UploadAt(p)],
    file   <- [p \in Paths |-> FileAt(p)]

\* TransferManager implements UploadService: an upload is received in order,
\* published whole or not at all, and replaced mid-transfer only by those who
\* may.
ServiceSpec == Service!Spec
=============================================================================
