---------------------------- MODULE UploadService ----------------------------
(***************************************************************************)
(* What the upload API promises its clients, with no ids, locks, temporary *)
(* files or handlers: each path holds at most one upload, which receives   *)
(* bytes in order and is published as a whole.                             *)
(***************************************************************************)
EXTENDS Integers

CONSTANTS Paths, Users, Admins, MaxSize, None

VARIABLES
    upload,  \* per path: the upload in progress, or None
    file     \* per path: the size of the file that is served, or None

Upload == [size: 1..MaxSize, got: 0..MaxSize, owner: Users \cup {None}]

Complete(u) == u.got = u.size

\* Mid-transfer, a named user's upload yields to its owner and to admins.
MayReplace(old, who) ==
    \/ old = None
    \/ Complete(old)
    \/ old.owner \in {None, who}
    \/ who \in Admins

Init ==
    /\ upload = [p \in Paths |-> None]
    /\ file = [p \in Paths |-> None]

Start(p, who, n) ==
    /\ MayReplace(upload[p], who)
    /\ upload' = [upload EXCEPT ![p] = [size |-> n, got |-> 0, owner |-> who]]
    /\ UNCHANGED file

Receive(p, n) ==
    /\ upload[p] # None
    /\ upload[p].got + n <= upload[p].size
    /\ upload' = [upload EXCEPT ![p].got = @ + n]
    /\ UNCHANGED file

\* The upload is over, unless the server failed after publishing it: its
\* owner may then publish it again.
Publish(p) ==
    /\ upload[p] # None
    /\ Complete(upload[p])
    /\ file' = [file EXCEPT ![p] = upload[p].size]
    /\ upload' \in {upload, [upload EXCEPT ![p] = None]}

\* Expiry, a failed start or a refused replacement.
Discard(S) ==
    /\ upload' = [p \in Paths |-> IF p \in S THEN None ELSE upload[p]]
    /\ UNCHANGED file

Next ==
    \/ \E p \in Paths, who \in Users \cup {None}, n \in 1..MaxSize :
          Start(p, who, n) \/ Receive(p, n)
    \/ \E p \in Paths : Publish(p)
    \/ \E S \in SUBSET Paths : Discard(S)

Spec == Init /\ [][Next]_<<upload, file>>
=============================================================================
