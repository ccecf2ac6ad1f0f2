---------------------------- MODULE TransferCrash ----------------------------
(***************************************************************************)
(* TransferManager across process crashes and restarts.  A crash loses the *)
(* maps and every handler; the files stay.  `reload` then rebuilds the     *)
(* maps from the *.json files, under the configuration of the new process, *)
(* which may have turned encryption on or off.                             *)
(*                                                                         *)
(* Only the process crashes: what it wrote reaches the disk.               *)
(***************************************************************************)
EXTENDS Transfer

\* Encryption needs an owner: the one whose ~home holds the path, if any.
OwnerAfter(s, enc) ==
    IF enc /\ s.owner = None THEN Home[s.path] ELSE s.owner

\* Progress starts again.
OffsetAfter_Reset(s, f) == 0

\* Progress is the length of the part file.
OffsetAfter(s, f) ==
    IF f = None THEN s.offset ELSE IF f.len < s.size THEN f.len ELSE s.size

Reloaded(s, f, enc) ==
    [s EXCEPT !.offset = OffsetAfter(s, f), !.owner = OwnerAfter(s, enc)]

\* Uploads without an owner stay.
Invalid_Never(id, enc) == FALSE

Invalid(id, enc) == json[id] # None /\ enc /\ OwnerAfter(json[id], enc) = None

\* `files` are the part files the crash leaves behind.
Reload(files, enc) ==
    LET dropped == {id \in Ids : Invalid(id, enc)}
        found   == {id \in Ids : json[id] # None} \ dropped
        adopted == {id \in found : enc /\ json[id].owner = None}
        after   == [id \in Ids |-> IF id \in found
                                   THEN Reloaded(json[id], files[id], enc)
                                   ELSE None]
    IN  /\ encryption' = enc
        /\ sessions' = after
        /\ path_locks' = {after[id].path : id \in found}
        /\ finalizing' = {}
        /\ part' = Erase(files, dropped)
        /\ json' = [id \in Ids |-> IF id \in adopted THEN after[id]
                                   ELSE IF id \in dropped THEN None ELSE json[id]]
        /\ dest' = dest
        /\ creating' = [id \in Ids |-> None]
        /\ sealing' = [id \in Ids |-> None]

\* The crash falls between two critical sections or file system calls.
Restart(enc) == Reload(part, enc)

\* The sessions some call is removing: their part file goes before their json.
Removable(id) ==
    \/ id \in Expired
    \/ /\ sessions[id].path \notin finalizing
       /\ \E c \in Callers : /\ MayResolve(c, sessions[id].path)
                             /\ CanSupersede(sessions[id], c)

\* The crash falls between the two.
RestartInRemoval(enc) ==
    \E id \in Live :
        /\ part[id] # None
        /\ Removable(id)
        /\ Reload([part EXCEPT ![id] = None], enc)

CrashNext ==
    \/ Next
    \/ \E enc \in BOOLEAN : Restart(enc) \/ RestartInRemoval(enc)

CrashSpec == Init /\ [][CrashNext]_vars

-----------------------------------------------------------------------------
(* What survives.                                                          *)

\* A new process: the step after which nothing is in memory but what reload
\* has found.
Restarted == \E enc \in BOOLEAN : Restart(enc) \/ RestartInRemoval(enc)

\* The upload has the owner that the new process asks for, or a home to get
\* it from.
MayStay(id) ==
    encryption' => sessions[id].owner # None \/ Home[sessions[id].path] # None

\* Restarts don't lose progress: an upload whose `init` has replied is there
\* after the crash, for the same path and size and with at least the bytes
\* its clients were told of, unless it never had the owner encryption asks for.
UploadSurvives ==
    Restarted =>
        \A id \in Live :
            (creating[id] = None /\ MayStay(id)) =>
                /\ sessions'[id] # None
                /\ sessions'[id].path = sessions[id].path
                /\ sessions'[id].size = sessions[id].size
                /\ sessions'[id].offset >= json[id].offset
                /\ sessions[id].owner # None =>
                       sessions'[id].owner = sessions[id].owner

UploadsSurvive == [][UploadSurvives]_vars

\* With encryption on no upload is without an owner, also when the process
\* before had it off: such an upload could be neither written nor completed.
OwnedUnderEncryption ==
    encryption => \A id \in Live : sessions[id].owner # None

\* No path is left closed by a crash in the middle of `complete`, and none is
\* closed without a `complete` that will open it again.
NoStaleFinalizing ==
    finalizing = {sealing[id].path : id \in {i \in Ids : sealing[i] # None}}
-----------------------------------------------------------------------------
(* The inductive invariant behind them.  The one of module Transfer does    *)
(* not survive a restart: a part file may then have a hole (CommittedWhole) *)
(* and a path more than one upload (OnePerPath).                            *)

\* No upload has more bytes than it declared, in memory or saved.
Bounded(id) ==
    /\ id \in Live => sessions[id].offset <= sessions[id].size
    /\ json[id] # None => json[id].offset <= json[id].size

\* Before File::create there is nothing to receive into.
Uncreated(id) ==
    At(id, "create") =>
        /\ part[id] = None
        /\ sealing[id] = None
        /\ id \in Live => sessions[id].offset = 0
        /\ json[id] # None => json[id].offset = 0

\* The part file reaches as far as the progress that is known of it.
Reaches(id) ==
    part[id] # None =>
        /\ id \in Live => sessions[id].offset <= part[id].len
        /\ json[id] # None => json[id].offset <= part[id].len

\* An upload is saved from the end of its `init` on; until then the handler is
\* about to save it.
Saved(id) ==
    /\ creating[id] # None =>
        /\ creating[id].us.offset = 0
        /\ json[id] # None => json[id].size = creating[id].us.size
    /\ id \in Live =>
        LET saved == IF creating[id] # None THEN creating[id].us ELSE json[id]
        IN  /\ saved # None
            /\ saved.path = sessions[id].path
            /\ saved.size = sessions[id].size
            /\ saved.owner = sessions[id].owner

\* A session that is being sealed is the one that was claimed.
Claimed(id) ==
    id \in Live /\ sealing[id] # None => sessions[id].path = sealing[id].path

Recoverable(id) ==
    Bounded(id) /\ Uncreated(id) /\ Reaches(id) /\ Saved(id) /\ Claimed(id)

OneSealing ==
    \A i, j \in Ids : (sealing[i] # None /\ sealing[j] # None
                       /\ sealing[i].path = sealing[j].path) => i = j

CrashInv ==
    /\ TypeOK
    /\ \A id \in Ids : Recoverable(id)
    /\ OwnedUnderEncryption
    /\ OneSealing
    /\ NoStaleFinalizing
=============================================================================
