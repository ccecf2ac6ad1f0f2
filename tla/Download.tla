------------------------------ MODULE Download ------------------------------
(***************************************************************************)
(* `fst get` (cli.rs, `download`): a resumable download into a destination *)
(* file.                                                                   *)
(*                                                                         *)
(* What arrives is kept in <dest>.fst-part, and <dest>.fst-part.json, the  *)
(* marker, says which remote file it is of.  A later run resumes a part    *)
(* that is marked with its own remote path, from the length the part has.  *)
(* The command may fail or be killed between any two steps, and the file   *)
(* on the server may be replaced or deleted at any moment.                 *)
(*                                                                         *)
(* Abstractions: one command at a time works on a destination; one server; *)
(* a marker that cannot be parsed reads as an absent one; a byte is the    *)
(* version it is of and its offset; a body comes from one version.         *)
(***************************************************************************)
EXTENDS ByteRange, Sequences, FiniteSets

CONSTANTS
    Versions,   \* the files there may be on the server: path, number, size
    Silent,     \* whether the server sends a 416 without Content-Range
    None

Byte == [of : Versions, at : Nat]

ASSUME DownloadAssumption ==
    /\ Versions \subseteq [path : STRING, no : Nat, size : Nat]
    /\ Silent \in BOOLEAN
    /\ None \notin Versions /\ None \notin STRING /\ None \notin Nat
    /\ None \notin Seq(Byte)

VARIABLES
    remote,     \* per path, the version on the server
    part,       \* the bytes in the part file
    marker,     \* the path that the marker file names
    dest,       \* the destination file
    pc, path,   \* where the command is, and what it gets
    offset,     \* the length of the part it resumes from
    total,      \* the remote length it has learned from a Content-Range
    body,       \* the rest of the body: a version, its next byte and its end
    seen        \* history: the versions of the marked path since the part began

vars == <<remote, part, marker, dest, pc, path, offset, total, body, seen>>

Paths == {v.path : v \in Versions}
Of(p) == {v \in Versions : v.path = p}

Content(v) == [i \in 1..v.size |-> [of |-> v, at |-> i - 1]]

TypeOK ==
    /\ remote \in [Paths -> Versions \cup {None}]
    /\ part \in Seq(Byte) \cup {None} /\ dest \in Seq(Byte) \cup {None}
    /\ marker \in Paths \cup {None}
    /\ pc \in {"idle", "dropPart", "dropMarker", "mark", "ask", "beyond",
               "receive", "clear", "promote", "unmark"}
    /\ path \in Paths \cup {None}
    /\ offset \in Nat
    /\ total \in Nat \cup {None}
    /\ body \in [of : Versions, next : Nat, end : Nat] \cup {None}
    /\ seen \subseteq Versions

Init ==
    /\ remote \in {f \in [Paths -> Versions] : \A p \in Paths : f[p].path = p}
    /\ part = None /\ marker = None /\ dest = None
    /\ pc = "idle" /\ path = None
    /\ offset = 0 /\ total = None /\ body = None
    /\ seen = {}

Files == <<part, marker, dest, seen>>
Local == <<path, offset, total, body>>

Goto(l) == pc' = l

-----------------------------------------------------------------------------
(* The server.                                                             *)

\* Somebody uploads another version, or deletes the file.
Replace(p, v) ==
    /\ v # remote[p]
    /\ remote' = [remote EXCEPT ![p] = v]
    /\ seen' = IF part # None /\ marker = p /\ v # None THEN seen \cup {v} ELSE seen
    /\ UNCHANGED <<part, marker, dest, pc, Local>>

Size(p) == remote[p].size

\* The answer to a GET of the path with this Range header.
Answer(h) == ParseRange(h, Size(path))

\* The length after the slash of a Content-Range, which a 200 has not.
ContentRangeTotal(reply) ==
    IF reply.status = 200 \/ (reply.status = 416 /\ Silent) THEN None ELSE reply.total

-----------------------------------------------------------------------------
(* Before the request: adopt the part or start afresh.                     *)

Adopts_Any(p) == part # None /\ marker # None
Adopts(p) == part # None /\ marker = p

Begin(p) ==
    /\ pc = "idle"
    /\ path' = p
    /\ IF Adopts(p) THEN Goto("ask") /\ offset' = Len(part)
                    ELSE Goto("dropPart") /\ offset' = 0
    /\ total' = None /\ body' = None
    /\ UNCHANGED <<remote, Files>>

DropPart ==
    /\ pc = "dropPart"
    /\ part' = None /\ seen' = {}
    /\ Goto("dropMarker")
    /\ UNCHANGED <<remote, marker, dest, Local>>

DropMarker ==
    /\ pc = "dropMarker"
    /\ marker' = None
    /\ Goto("mark")
    /\ UNCHANGED <<remote, part, dest, seen, Local>>

Mark ==
    /\ pc = "mark"
    /\ marker' = path
    /\ offset' = 0
    /\ Goto("ask")
    /\ UNCHANGED <<remote, part, dest, seen, path, total, body>>

-----------------------------------------------------------------------------
(* The request and its body.                                               *)

RangeHeader == IF offset > 0 THEN From(offset) ELSE NoRange

\* 200 or 206: a whole body replaces the part, the rest of one is appended.
Ask ==
    /\ pc = "ask"
    /\ remote[path] # None
    /\ LET reply == Answer(RangeHeader) IN
          /\ reply.status # 416
          /\ part' = IF reply.status = 200 \/ part = None THEN <<>> ELSE part
          /\ seen' = IF reply.status = 200 \/ part = None THEN {remote[path]} ELSE seen
          /\ body' = [of |-> remote[path], next |-> reply.start,
                      end |-> reply.start + reply.take]
    /\ Goto("receive")
    /\ UNCHANGED <<remote, marker, dest, path, offset, total>>

Receive ==
    /\ pc = "receive"
    /\ body.next < body.end
    /\ part' = Append(part, [of |-> body.of, at |-> body.next])
    /\ body' = [body EXCEPT !.next = @ + 1]
    /\ UNCHANGED <<remote, marker, dest, seen, pc, path, offset, total>>

\* A body that ends before its announced length is an error (GiveUp).
EndOfBody_Early ==
    /\ pc = "receive"
    /\ Goto("clear")
    /\ UNCHANGED <<remote, Files, Local>>

EndOfBody ==
    /\ pc = "receive"
    /\ body.next = body.end
    /\ Goto("clear")
    /\ UNCHANGED <<remote, Files, Local>>

\* 416: nothing lies beyond the part.
Refused ==
    /\ pc = "ask"
    /\ remote[path] # None
    /\ Answer(RangeHeader).status = 416
    /\ total' = ContentRangeTotal(Answer(RangeHeader))
    /\ Goto("beyond")
    /\ UNCHANGED <<remote, Files, path, offset, body>>

\* The length is unknown: ask for the first byte to learn it.
Probe ==
    /\ pc = "beyond"
    /\ total = None
    /\ remote[path] # None
    /\ total' = ContentRangeTotal(Answer(Closed(0, 0)))
    /\ Goto(IF total' = None THEN "idle" ELSE "beyond")
    /\ UNCHANGED <<remote, Files, path, offset, body>>

\* The part is the whole file; any other is discarded, to start from zero.
JudgePart_AsksAgain ==
    /\ pc = "beyond"
    /\ total # None
    /\ Goto(IF total = offset THEN "clear" ELSE "ask")
    /\ UNCHANGED <<remote, Files, Local>>

JudgePart ==
    /\ pc = "beyond"
    /\ total # None
    /\ Goto(IF total = offset THEN "clear" ELSE "dropPart")
    /\ UNCHANGED <<remote, Files, Local>>

-----------------------------------------------------------------------------
(* promote_part: an existing destination is removed first.                 *)

ClearDest ==
    /\ pc = "clear"
    /\ dest' = None
    /\ Goto("promote")
    /\ UNCHANGED <<remote, part, marker, seen, Local>>

Promote ==
    /\ pc = "promote"
    /\ dest' = part
    /\ part' = None /\ seen' = {}
    /\ Goto("unmark")
    /\ UNCHANGED <<remote, marker, Local>>

Unmark ==
    /\ pc = "unmark"
    /\ marker' = None
    /\ Goto("idle")
    /\ UNCHANGED <<remote, part, dest, seen, Local>>

\* An error (no such file, the connection breaks, the disk is full) or a
\* kill: the files stay as they are.
GiveUp_Drops ==
    /\ pc # "idle"
    /\ Goto("idle")
    /\ part' = None /\ seen' = {}
    /\ UNCHANGED <<remote, marker, dest, Local>>

GiveUp ==
    /\ pc # "idle"
    /\ Goto("idle")
    /\ UNCHANGED <<remote, Files, Local>>

-----------------------------------------------------------------------------
Work ==
    \/ DropPart \/ DropMarker \/ Mark
    \/ Ask \/ Receive \/ EndOfBody
    \/ Refused \/ Probe \/ JudgePart
    \/ ClearDest \/ Promote \/ Unmark

NotFound == pc \in {"ask", "beyond"} /\ remote[path] = None /\ GiveUp

Next ==
    \/ \E p \in Paths : Begin(p)
    \/ \E p \in Paths : \E v \in Of(p) \cup {None} : Replace(p, v)
    \/ Work
    \/ GiveUp

\* The command runs on until it ends; nothing makes the user repeat it.
Fairness == WF_vars(Work \/ NotFound)

Spec == Init /\ [][Next]_vars /\ Fairness

-----------------------------------------------------------------------------
\* The part is what its marker says: bytes of versions of that path, each at
\* its own offset, also after a kill between any two steps of a run that got
\* something else.
PartOfMarked ==
    part # None /\ marker # None =>
        \A i \in 1..Len(part) : part[i].of.path = marker /\ part[i].at = i - 1

\* What replaces the destination is the whole remote file, if that did not
\* change since the part was begun: however often the download was broken
\* off, resumed, or refused because nothing was left to send.
SavesWhole ==
    pc \in {"clear", "promote"} /\ Cardinality(seen) = 1 =>
        \E v \in seen : part = Content(v)

\* No run for the path that the marker names, failed, killed or repeated, takes
\* bytes of an unchanged remote file away, except into the destination ("part
\* kept").  A run for another path into the same destination drops them.
ProgressKept ==
    [][ part # None /\ marker = path /\ Cardinality(seen) = 1 =>
            \/ part' # None /\ Len(part') >= Len(part)
            \/ dest' = part ]_vars

\* Every run ends; in particular a stale part is discarded at most once.
GetEnds == pc # "idle" ~> pc = "idle"
-----------------------------------------------------------------------------
(* The inductive invariant behind PartOfMarked, SavesWhole and ProgressKept. *)

RemoteNamed == \A p \in Paths : remote[p] # None => remote[p].path = p

\* A part is marked; what it consists of, and what is on the server now, is
\* among the versions seen since it was begun.
PartSeen ==
    /\ IsFiniteSet(seen)
    /\ part # None =>
          /\ marker # None /\ seen # {}
          /\ \A v \in seen : v.path = marker
          /\ remote[marker] # None => remote[marker] \in seen
          /\ \A i \in 1..Len(part) :
                part[i].of \in seen /\ part[i].at = i - 1 /\ i <= part[i].of.size

\* Where the command is, and what it knows of the part there.
Begun == pc # "idle" => path # None
Unmarked == pc \in {"dropMarker", "mark", "unmark"} => part = None
Marked == pc \in {"ask", "beyond", "receive", "clear", "promote"} => marker = path
Adopted == pc = "ask" => offset = IF part = None THEN 0 ELSE Len(part)

Receiving ==
    pc = "receive" =>
        /\ part # None
        /\ body \in [of : seen, next : Nat, end : Nat]
        /\ body.next = Len(part) /\ body.next <= body.end /\ body.end = body.of.size

\* Nothing was left to send of some version, and the length that was learned
\* is that of some version.
Judging ==
    pc = "beyond" =>
        /\ part # None /\ offset = Len(part)
        /\ \E v \in seen : v.size <= offset
        /\ total # None => \E v \in seen : v.size = total

\* A part of the path's own is discarded only if the remote file has changed.
Discarding ==
    pc = "dropPart" /\ part # None /\ marker = path => \E v, w \in seen : v # w

Promoting ==
    pc \in {"clear", "promote"} => part # None /\ \A v \in seen : seen = {v} => part = Content(v)

IndInv ==
    /\ TypeOK
    /\ RemoteNamed /\ PartSeen
    /\ Begun /\ Unmarked /\ Marked /\ Adopted
    /\ Receiving /\ Judging /\ Discarding /\ Promoting
=============================================================================
