----------------------------- MODULE SealedFiles -----------------------------
(***************************************************************************)
(* Encrypted files on disk and the handlers that touch them.               *)
(*                                                                         *)
(* A sealed file is three files: the ciphertext, its size sidecar          *)
(* (.fst-meta) and its frame index (.fst-idx).  Sealing (crypto.rs),       *)
(* deleting, renaming (storage.rs) and serving (api.rs) work on them one   *)
(* after the other and take no locks.  Every action is one of these file   *)
(* system calls, in the order of the code.                                 *)
(*                                                                         *)
(* Abstractions: a file is the version that was sealed, of which only the  *)
(* plaintext size and the kind of header matter; whole directories are not *)
(* moved or deleted; the checks at the start of `rename` are one step; a   *)
(* half-written sidecar reads as an absent one.                            *)
(***************************************************************************)
EXTENDS Naturals

CONSTANTS
    Paths,      \* the files that may exist
    Versions,   \* what may be sealed
    Clients,    \* one request each at a time
    Makes,      \* the kinds of request a client makes
    Chunk,      \* CHUNK_PLAIN, the plaintext bytes of a full frame
    Overhead,   \* FRAME_OVERHEAD, what a frame adds to them
    Faults,     \* the parts of a request that may fail
    Crashes,    \* whether the process may crash
    None

Requests == {"seal", "delete", "move", "read"}

Kinds == {"cipher", "meta", "idx"}
Sidecars == {"meta", "idx"}

Sizes == {v.size : v \in Versions}

Seal == [does : {"seal"}, pc : Kinds \cup {"dropIdx", "dropMeta", "abort"},
           path : Paths, file : Versions]
Delete == [does : {"delete"}, pc : Kinds, path : Paths]
Move == [does : {"move"}, pc : {"cipher", "sidecars", "undo", "undoMeta"},
           path : Paths, dst : Paths,
           todo : SUBSET Sidecars, moved : SUBSET Sidecars]
Read == [does : {"read"}, pc : {"meta", "reopen", "remeta", "idx", "serve"},
           path : Paths, first : Versions, file : Versions,
           total : Sizes \cup {0}, size : Sizes \cup {0},
           index : Versions \cup {None}, alone : BOOLEAN]

\* A second wrap of the key makes the header longer.
ASSUME SealedAssumption ==
    /\ Versions \subseteq [size : Nat \ {0}, wrapped : BOOLEAN]
    /\ Makes \in [Clients -> SUBSET Requests]
    /\ Chunk \in Nat \ {0} /\ Overhead \in Nat \ {0}
    /\ Faults \subseteq {"encrypt", "index", "meta", "move"}
    /\ Crashes \in BOOLEAN
    /\ None \notin Versions /\ None \notin Seal \cup Delete \cup Move \cup Read

VARIABLES
    disk,   \* disk[p].cipher, .meta, .idx: the version each file belongs to
    op,     \* what each client's request is doing
    torn    \* history: the paths that a crash left half-written

vars == <<disk, op, torn>>

TypeOK ==
    /\ disk \in [Paths -> [Kinds -> Versions \cup {None}]]
    /\ op \in [Clients -> Seal \cup Delete \cup Move \cup Read \cup {None}]
    /\ torn \subseteq Paths

\* Whole files, sealed before.
Init ==
    /\ \E at \in [Paths -> Versions \cup {None}] :
           disk = [p \in Paths |-> [k \in Kinds |-> at[p]]]
    /\ op = [c \in Clients |-> None]
    /\ torn = {}

-----------------------------------------------------------------------------
(* The steps of a request.                                                 *)

Doing(c, what) == op[c] # None /\ op[c].does = what
At(c, what, pc) == Doing(c, what) /\ op[c].pc = pc

Starts(c, what) == op[c] = None /\ what \in Makes[c]

Goto(c, pc) == op' = [op EXCEPT ![c].pc = pc] /\ UNCHANGED torn
Done(c) == op' = [op EXCEPT ![c] = None] /\ UNCHANGED torn

\* The path has been written, or cleared, from one end to the other.
DoneWhole(c) == op' = [op EXCEPT ![c] = None] /\ torn' = torn \ {op[c].path}

Set(p, k, v) == disk' = [disk EXCEPT ![p][k] = v]
Rename(k, p, q) ==
    disk' = [disk EXCEPT ![q][k] = disk[p][k], ![p][k] = None]

\* Some request puts a file at p.
PutsAt(c, p) ==
    \/ Doing(c, "seal") /\ op[c].path = p
    \/ Doing(c, "move") /\ op[c].dst = p

\* The readers of p are no longer the only ones there.
Disturbed(p) ==
    [c \in Clients |-> IF Doing(c, "read") /\ op[c].path = p
                       THEN [op[c] EXCEPT !.alone = FALSE] ELSE op[c]]

-----------------------------------------------------------------------------
(* seal_uploaded_file: the ciphertext and its index are staged under other *)
(* names first.  `complete` seals a path once at a time (Transfer,         *)
(* FinalizingOwned).                                                       *)

StartSeal(c, p, v) ==
    /\ Starts(c, "seal")
    /\ \A d \in Clients : ~(Doing(d, "seal") /\ op[d].path = p)
    /\ op' = [Disturbed(p) EXCEPT
                  ![c] = [does |-> "seal", pc |-> "cipher", path |-> p, file |-> v]]
    /\ UNCHANGED <<disk, torn>>

\* Encryption or staging fails: nothing has changed.
SealFail(c) ==
    /\ "encrypt" \in Faults
    /\ At(c, "seal", "cipher")
    /\ Done(c)
    /\ UNCHANGED disk

SealCipher(c) ==
    /\ At(c, "seal", "cipher")
    /\ Set(op[c].path, "cipher", op[c].file)
    /\ Goto(c, "dropIdx")

SealDropIdx(c) ==
    /\ At(c, "seal", "dropIdx")
    /\ Set(op[c].path, "idx", None)
    /\ Goto(c, "idx")

\* The staged index is forgotten.
SealIdx_Skipped(c) ==
    /\ At(c, "seal", "idx")
    /\ Goto(c, "dropMeta")
    /\ UNCHANGED disk

SealIdx(c) ==
    /\ At(c, "seal", "idx")
    /\ Set(op[c].path, "idx", op[c].file)
    /\ Goto(c, "dropMeta")

\* The index can neither be moved in place nor written there.
SealIdxFail(c) ==
    /\ "index" \in Faults
    /\ At(c, "seal", "idx")
    /\ Set(op[c].path, "idx", None)
    /\ Goto(c, "abort")

\* The old size is left in place.
SealAbort_Size(c) ==
    /\ At(c, "seal", "abort")
    /\ Done(c)
    /\ UNCHANGED disk

SealAbort(c) ==
    /\ At(c, "seal", "abort")
    /\ Set(op[c].path, "meta", None)
    /\ Done(c)

SealDropMeta(c) ==
    /\ At(c, "seal", "dropMeta")
    /\ Set(op[c].path, "meta", None)
    /\ Goto(c, "meta")

SealMeta(c) ==
    /\ At(c, "seal", "meta")
    /\ Set(op[c].path, "meta", op[c].file)
    /\ DoneWhole(c)

SealMetaFail(c) ==
    /\ "meta" \in Faults
    /\ At(c, "seal", "meta")
    /\ Done(c)
    /\ UNCHANGED disk

SealStep(c) ==
    \/ SealFail(c) \/ SealCipher(c)
    \/ SealDropIdx(c) \/ SealIdx(c) \/ SealIdxFail(c) \/ SealAbort(c)
    \/ SealDropMeta(c) \/ SealMeta(c) \/ SealMetaFail(c)

-----------------------------------------------------------------------------
(* Storage::delete: the ciphertext, then what belongs to it.               *)

StartDelete(c, p) ==
    /\ Starts(c, "delete")
    /\ disk[p].cipher # None
    /\ op' = [op EXCEPT ![c] = [does |-> "delete", pc |-> "cipher", path |-> p]]
    /\ UNCHANGED <<disk, torn>>

DeleteCipher(c) ==
    /\ At(c, "delete", "cipher")
    /\ disk[op[c].path].cipher # None
    /\ Set(op[c].path, "cipher", None)
    /\ Goto(c, "meta")

\* Somebody else was first: the request fails.
DeleteMissing(c) ==
    /\ At(c, "delete", "cipher")
    /\ disk[op[c].path].cipher = None
    /\ Done(c)
    /\ UNCHANGED disk

DeleteMeta(c) ==
    /\ At(c, "delete", "meta")
    /\ Set(op[c].path, "meta", None)
    /\ Goto(c, "idx")

DeleteIdx(c) ==
    /\ At(c, "delete", "idx")
    /\ Set(op[c].path, "idx", None)
    /\ DoneWhole(c)

DeleteStep(c) ==
    DeleteCipher(c) \/ DeleteMissing(c) \/ DeleteMeta(c) \/ DeleteIdx(c)

-----------------------------------------------------------------------------
(* Storage::rename: the payload, then the sidecars the check has found.    *)

StartMove(c, p, q) ==
    LET found == {k \in Sidecars : disk[p][k] # None}
    IN  /\ Starts(c, "move")
        /\ p # q
        /\ disk[p].cipher # None
        /\ disk[q].cipher = None
        /\ \A k \in found : disk[q][k] = None
        /\ op' = [Disturbed(q) EXCEPT
                      ![c] = [does |-> "move", pc |-> "cipher", path |-> p, dst |-> q,
                              todo |-> found, moved |-> {}]]
        /\ UNCHANGED <<disk, torn>>

MoveCipher(c) ==
    /\ At(c, "move", "cipher")
    /\ disk[op[c].path].cipher # None
    /\ Rename("cipher", op[c].path, op[c].dst)
    /\ op' = [op EXCEPT ![c].pc = "sidecars"]
    /\ torn' = IF op[c].path \in torn THEN torn \cup {op[c].dst} ELSE torn

\* The payload is gone or cannot be renamed.
MoveCipherFail(c) ==
    /\ At(c, "move", "cipher")
    /\ disk[op[c].path].cipher = None \/ "move" \in Faults
    /\ Done(c)
    /\ UNCHANGED disk

\* .fst-meta comes first.
NextSidecar(c) == IF "meta" \in op[c].todo THEN "meta" ELSE "idx"

MoveSidecar(c) ==
    LET k == NextSidecar(c)
    IN  /\ At(c, "move", "sidecars")
        /\ op[c].todo # {}
        /\ disk[op[c].path][k] # None
        /\ Rename(k, op[c].path, op[c].dst)
        /\ op' = [op EXCEPT ![c].todo = @ \ {k}, ![c].moved = @ \cup {k}]
        /\ UNCHANGED torn

MoveSidecarFail(c) ==
    /\ At(c, "move", "sidecars")
    /\ op[c].todo # {}
    /\ disk[op[c].path][NextSidecar(c)] = None \/ "move" \in Faults
    /\ Goto(c, "undo")
    /\ UNCHANGED disk

MoveDone(c) ==
    /\ At(c, "move", "sidecars")
    /\ op[c].todo = {}
    /\ Done(c)
    /\ UNCHANGED disk

\* Renames back what is still there; a roll back that fails otherwise is left
\* to the administrator.
RenameBack(c, k) ==
    IF disk[op[c].dst][k] # None THEN Rename(k, op[c].dst, op[c].path)
                                 ELSE UNCHANGED disk

UndoCipher(c) ==
    /\ At(c, "move", "undo")
    /\ RenameBack(c, "cipher")
    /\ Goto(c, "undoMeta")

\* Sidecars that were moved stay where they are.
UndoSidecar_Not(c) ==
    /\ At(c, "move", "undoMeta")
    /\ Done(c)
    /\ UNCHANGED disk

\* Only .fst-meta can have been moved before the failure.
UndoSidecar(c) ==
    /\ At(c, "move", "undoMeta")
    /\ IF op[c].moved = {} THEN UNCHANGED disk ELSE RenameBack(c, "meta")
    /\ Done(c)

MoveStep(c) ==
    \/ MoveCipher(c) \/ MoveCipherFail(c)
    \/ MoveSidecar(c) \/ MoveSidecarFail(c) \/ MoveDone(c)
    \/ UndoCipher(c) \/ UndoSidecar(c)

-----------------------------------------------------------------------------
(* serve_encrypted: opens the file once for the Content-Length and again   *)
(* for the body.  EncryptedReader::open opens the ciphertext, then reads   *)
(* the sidecars by name.                                                   *)

Frames(size) == (size + Chunk - 1) \div Chunk

\* The length of the frames of v.
BodyLen(v) == v.size + Frames(v.size) * Overhead

\* The last frame is not counted unless it is full.
InferredSize_Full(len) == (len \div (Chunk + Overhead)) * Chunk

\* What a frame adds is counted.
InferredSize_Body(len) == len

\* The plaintext size that the length of the frames tells.
InferredSize(len) ==
    LET full == len \div (Chunk + Overhead)
        rest == len % (Chunk + Overhead)
    IN  full * Chunk + (IF rest > Overhead THEN rest - Overhead ELSE 0)

\* The size of v, for a reader that finds the sidecar m.
BelievedSize(v, m) == IF m # None THEN m.size ELSE InferredSize(BodyLen(v))

\* An index that disagrees with the size is ignored.
KeptIndex(i, size) ==
    IF i # None /\ Frames(i.size) = Frames(size) THEN i ELSE None

StartRead(c, p) ==
    LET v == disk[p].cipher
    IN  /\ Starts(c, "read")
        /\ v # None
        /\ op' = [op EXCEPT ![c] =
                     [does |-> "read", pc |-> "meta", path |-> p, first |-> v,
                      file |-> v, total |-> 0, size |-> 0, index |-> None,
                      alone |-> p \notin torn /\ \A d \in Clients : ~PutsAt(d, p)]]
        /\ UNCHANGED <<disk, torn>>

\* The index of the first reader is not used.
ReadMeta(c) ==
    /\ At(c, "read", "meta")
    /\ op' = [op EXCEPT ![c].pc = "reopen",
                        ![c].total = BelievedSize(op[c].first, disk[op[c].path].meta)]
    /\ UNCHANGED <<disk, torn>>

Reopen(c) ==
    LET v == disk[op[c].path].cipher
    IN  /\ At(c, "read", "reopen")
        /\ op' = [op EXCEPT ![c] =
                     IF v = None THEN None
                     ELSE [op[c] EXCEPT !.pc = "remeta", !.file = v]]
        /\ UNCHANGED <<disk, torn>>

ReadMetaAgain(c) ==
    /\ At(c, "read", "remeta")
    /\ op' = [op EXCEPT ![c].pc = "idx",
                        ![c].size = BelievedSize(op[c].file, disk[op[c].path].meta)]
    /\ UNCHANGED <<disk, torn>>

ReadIdx(c) ==
    /\ At(c, "read", "idx")
    /\ op' = [op EXCEPT ![c].pc = "serve",
                        ![c].index = KeptIndex(disk[op[c].path].idx, op[c].size)]
    /\ UNCHANGED <<disk, torn>>

\* The body comes from the open file, whatever happens to the path.
EndRead(c) ==
    /\ At(c, "read", "serve")
    /\ Done(c)
    /\ UNCHANGED disk

ReadStep(c) ==
    ReadMeta(c) \/ Reopen(c) \/ ReadMetaAgain(c) \/ ReadIdx(c) \/ EndRead(c)

-----------------------------------------------------------------------------
Touches(c, p) ==
    /\ op[c] # None
    /\ ~Doing(c, "read")
    /\ op[c].path = p \/ PutsAt(c, p)

Crash ==
    /\ Crashes
    /\ op' = [c \in Clients |-> None]
    /\ torn' = torn \cup {p \in Paths : \E c \in Clients : Touches(c, p)}
    /\ UNCHANGED disk

Start(c) ==
    \E p \in Paths :
        \/ StartDelete(c, p) \/ StartRead(c, p)
        \/ \E v \in Versions : StartSeal(c, p, v)
        \/ \E q \in Paths : StartMove(c, p, q)

Next ==
    \/ \E c \in Clients :
           Start(c) \/ SealStep(c) \/ DeleteStep(c) \/ MoveStep(c) \/ ReadStep(c)
    \/ Crash

Spec == Init /\ [][Next]_vars

-----------------------------------------------------------------------------
(* Properties.                                                             *)

\* No request writes.
Settled == \A c \in Clients : op[c] = None \/ Doing(c, "read")

\* Once the writers are done, the sidecars that are there belong to the
\* ciphertext that is there: the size is its size, and an index that a reader
\* would use has its frames at their offsets.  A crash spoils nothing but the
\* paths of the requests it breaks off.
Fits(f) ==
    f.cipher # None =>
        /\ f.meta # None => f.meta.size = f.cipher.size
        /\ f.idx # None => /\ f.idx.wrapped = f.cipher.wrapped
                           /\ Frames(f.idx.size) = Frames(f.cipher.size)

SettledMatch == Settled => \A p \in Paths \ torn : Fits(disk[p])

\* storage.rs:335: "so we never leave an encrypted blob without its .fst-meta
\* / .fst-idx", whether a rename succeeds or is rolled back, and through crashes;
\* what one has torn is whole again once it is sealed or deleted.
Together ==
    Settled => \A p \in Paths \ torn :
        disk[p].cipher # None =>
            \A k \in Sidecars : disk[p][k] = disk[p].cipher

\* The body has the bytes that the Content-Length announces, those of one
\* version: the index, if used, has every frame at its offset.
ServesWhole(r) ==
    /\ r.total = r.file.size
    /\ r.index # None => /\ r.index.wrapped = r.file.wrapped
                         /\ Frames(r.index.size) = Frames(r.file.size)

\* After a crash the upload is still there and its client repeats `complete`:
\* a seal that succeeds leaves a whole file, whatever crashed or failed
\* requests had left at its path (when no other request writes there).
RetryRepairs ==
    [][\A c \in Clients :
           SealMeta(c) =>
               \A k \in Kinds : disk'[op[c].path][k] = op[c].file]_vars

\* A reader at whose path nothing is put meanwhile serves the whole file,
\* though the file may be moved away or deleted under it, unless a crash has
\* left the path half-written.
AloneServesWhole ==
    \A c \in Clients : At(c, "read", "serve") /\ op[c].alone => ServesWhole(op[c])

\* crypto.rs:263: "so a stale `.fst-idx` can never pair with new ciphertext".
NoStaleIdx ==
    Settled => \A p \in Paths :
        disk[p].cipher # None => disk[p].idx \in {None, disk[p].cipher}

\* SKILL.md:98: "Destination must not already exist."
NoClobber ==
    [][\A c \in Clients : MoveCipher(c) => disk[op[c].dst].cipher = None]_vars
-----------------------------------------------------------------------------
(* The inductive invariants.  What a reader sees that is alone at its path   *)
(* comes first; it follows from either of the two below it.                  *)

\* A move from p is under way: which of the files of p are at its destination,
\* and the file that is being moved, wherever its parts are by now.
Gone(c, k) ==
    IF k = "cipher" THEN op[c].pc \in {"sidecars", "undo"} ELSE k \in op[c].moved

Moving(c) ==
    [k \in Kinds |-> IF Gone(c, k) THEN disk[op[c].dst][k] ELSE disk[op[c].path][k]]

\* What a reader has found so far is of the version it has found first.
Seen(r) ==
    /\ r.file = r.first
    /\ r.pc # "meta" => r.total = r.first.size
    /\ r.pc \in {"idx", "serve"} => r.size = r.first.size
    /\ r.pc = "serve" => r.index \in {None, r.first}

\* And so is what it will find, also when a move is undone.
Sees(r) ==
    /\ Seen(r)
    /\ r.path \notin torn
    /\ \A d \in Clients : ~PutsAt(d, r.path)
    /\ \A k \in Kinds : disk[r.path][k] \in {None, r.first}
    /\ \A d \in Clients : Doing(d, "move") /\ op[d].path = r.path =>
           \A k \in Kinds : Moving(d)[k] \in {None, r.first}

AloneSees == \A c \in Clients : Doing(c, "read") /\ op[c].alone => Sees(op[c])

(* Many writers that seal and delete, none that moves, and crashes.         *)

\* A seal has put its ciphertext in place.
Replacing(c, p) == Doing(c, "seal") /\ op[c].path = p /\ op[c].pc # "cipher"

Matching(f) == f.cipher # None => \A k \in Sidecars : f[k] \in {None, f.cipher}

MatchUnlessReplaced ==
    \A p \in Paths \ torn : (\A c \in Clients : ~Replacing(c, p)) => Matching(disk[p])

SealsAlone ==
    \A c, d \in Clients :
        Doing(c, "seal") /\ Doing(d, "seal") /\ op[c].path = op[d].path => c = d

\* What a seal has put in place or removed, others can only have deleted.
Replaced ==
    \A c \in Clients : Doing(c, "seal") /\ op[c].pc # "cipher" =>
        LET f == disk[op[c].path]
        IN  /\ f.cipher \in {None, op[c].file}
            /\ op[c].pc # "dropIdx" => f.idx \in {None, op[c].file}
            /\ op[c].pc = "abort" => f.idx = None
            /\ op[c].pc = "meta" => f.meta = None

\* A delete has removed a ciphertext that a crash may have torn; what has been
\* sealed there since is whole or lacks a sidecar.
Deleted ==
    \A p \in Paths :
        /\ \E c \in Clients : Doing(c, "delete") /\ op[c].pc # "cipher" /\ op[c].path = p
        /\ \A c \in Clients : ~Replacing(c, p)
        => Matching(disk[p])

MatchInv ==
    /\ TypeOK
    /\ \A c \in Clients : ~Doing(c, "move")
    /\ MatchUnlessReplaced
    /\ SealsAlone
    /\ Replaced
    /\ Deleted
    /\ AloneSees

(* One writer, which may also move, and crashes.                            *)

OneWriter ==
    \A c, d \in Clients :
        ~(Makes[c] \subseteq {"read"}) /\ ~(Makes[d] \subseteq {"read"}) => c = d

Writing(c) == op[c] # None /\ ~Doing(c, "read")

\* An intact file: all three parts are of one version, or a sidecar is missing whose write
\* may fail.
Intact(f) ==
    \A k \in Sidecars : f[k] = f.cipher \/ (f[k] = None /\ Faults \cap {"index", "meta"} # {})

IntactUnlessTouched ==
    \A p \in Paths \ torn : (\A c \in Clients : ~Touches(c, p)) => Intact(disk[p])

SealStaged ==
    \A c \in Clients : Doing(c, "seal") =>
        LET f == disk[op[c].path]
        IN  /\ op[c].pc = "cipher" /\ op[c].path \notin torn => Intact(f)
            /\ op[c].pc # "cipher" => f.cipher = op[c].file
            /\ op[c].pc \in {"idx", "abort"} => f.idx = None
            /\ op[c].pc = "abort" => "index" \in Faults
            /\ op[c].pc \in {"dropMeta", "meta"} => f.idx = op[c].file
            /\ op[c].pc = "meta" => f.meta = None

DeleteStaged ==
    \A c \in Clients : Doing(c, "delete") =>
        LET f == disk[op[c].path]
        IN  /\ op[c].pc = "cipher" /\ op[c].path \notin torn => Intact(f)
            /\ op[c].pc # "cipher" => f.cipher = None
            /\ op[c].pc = "idx" => f.meta = None

\* The file that is moved is complete, part of it at its path and the rest at
\* its destination, where nothing else is.
MoveStaged ==
    \A c \in Clients : Doing(c, "move") =>
        LET m == op[c]
        IN  /\ m.path # m.dst
            /\ m.todo \cap m.moved = {}
            /\ m.pc = "cipher" => m.moved = {}
            /\ "idx" \in m.moved => "meta" \notin m.todo /\ m.pc = "sidecars"
            /\ Moving(c).cipher # None
            /\ m.path \notin torn =>
                  /\ Intact(Moving(c))
                  /\ \A k \in Kinds : Gone(c, k) => disk[m.path][k] = None
                  /\ m.pc \in {"cipher", "sidecars"} =>
                        \A k \in Sidecars \ m.moved :
                            disk[m.path][k] # None => k \in m.todo
            /\ m.dst \notin torn =>
                  /\ m.pc # "cipher" => m.path \notin torn
                  /\ \A k \in Kinds : ~Gone(c, k) => disk[m.dst][k] = None

WriterInv ==
    /\ TypeOK
    /\ \A c \in Clients : Writing(c) => ~(Makes[c] \subseteq {"read"})
    /\ IntactUnlessTouched
    /\ SealStaged
    /\ DeleteStaged
    /\ MoveStaged
    /\ AloneSees
=============================================================================
