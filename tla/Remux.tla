------------------------------- MODULE Remux -------------------------------
(***************************************************************************)
(* Media::remux_mp4: the cached mp4 of one source file.  Requests for the  *)
(* same source do not know of each other: each that finds no cached file   *)
(* runs an ffmpeg of its own, and all of them write to one temporary name, *)
(* which is then renamed to the name in the cache.                         *)
(*                                                                         *)
(* ffmpeg is external: with -y it truncates the output it finds, writes it *)
(* from the front, and writes the same bytes for the same source and       *)
(* codec.  A source whose streams fit into an mp4 is always copied well,   *)
(* one whose streams do not never is, and a transcode may fail at any      *)
(* point.  A request that is given up leaves its ffmpeg running.           *)
(***************************************************************************)
EXTENDS Naturals, FiniteSets

CONSTANTS
    Requests,       \* requests under way at a time
    Ffmpegs,        \* ffmpeg processes at a time
    Inodes,         \* the files that names and processes can refer to
    Blocks,         \* the length of the output
    None

Codecs == {"copy", "h264"}
Process ==
    [by : Requests \cup {None}, codec : Codecs, inode : Inodes \cup {None}, at : 0..Blocks]

ASSUME RemuxAssumption ==
    /\ Blocks \in Nat \ {0}
    /\ None \notin Inodes \cup Requests \cup Process

VARIABLES
    copies,     \* can the streams of the source be copied into an mp4
    name,       \* the directory: the temporary and the cached file
    data,       \* what is in each file
    request,    \* what each request is waiting for or about to do
    ffmpeg,     \* the processes
    opened,     \* history: the files that the processes of each request have opened
    abandoned   \* history: those of requests that were given up or failed in the transcode

history == <<opened, abandoned>>
vars == <<copies, name, data, request, ffmpeg, history>>

Hole == [b \in 1..Blocks |-> None]

TypeOK ==
    /\ copies \in BOOLEAN
    /\ name \in [{"tmp", "out"} -> Inodes \cup {None}]
    /\ data \in [Inodes -> [1..Blocks -> Codecs \cup {None}]]
    /\ request \in [Requests -> {"none", "ffmpeg", "transcode", "move"}]
    /\ ffmpeg \in [Ffmpegs -> Process \cup {None}]
    /\ opened \in [Requests -> SUBSET Inodes]
    /\ abandoned \subseteq Inodes

Init ==
    /\ copies \in BOOLEAN
    /\ name = [n \in {"tmp", "out"} |-> None]
    /\ data = [i \in Inodes |-> Hole]
    /\ request = [r \in Requests |-> "none"]
    /\ ffmpeg = [f \in Ffmpegs |-> None]
    /\ opened = [r \in Requests |-> {}]
    /\ abandoned = {}

Running == {f \in Ffmpegs : ffmpeg[f] # None}

\* Command::new(ffmpeg)...status()
Spawn(r, codec) ==
    /\ \E f \in Ffmpegs \ Running :
        ffmpeg' = [ffmpeg EXCEPT ![f] = [by |-> r, codec |-> codec, inode |-> None, at |-> 0]]
    /\ request' = [request EXCEPT ![r] = "ffmpeg"]
    /\ UNCHANGED <<copies, name, data, history>>

\* A request that finds the cached file replies with it.
Start(r) ==
    /\ request[r] = "none"
    /\ name["out"] = None
    /\ Spawn(r, "copy")

\* The copy has failed: a light transcode, whatever is cached by now.
Fallback(r) ==
    /\ request[r] = "transcode"
    /\ Spawn(r, "h264")

\* The rename fails when another request has moved the temporary file away.
Move(r) ==
    /\ request[r] = "move"
    /\ name' = IF name["tmp"] = None THEN name
               ELSE [name EXCEPT !["out"] = name["tmp"], !["tmp"] = None]
    /\ request' = [request EXCEPT ![r] = "none"]
    /\ opened' = [opened EXCEPT ![r] = {}]
    /\ UNCHANGED <<copies, data, ffmpeg, abandoned>>

\* The client goes away, at any time: the handler is dropped, its ffmpeg is not
\* killed.  So does a request end whose ffmpeg cannot be started.
Cancel(r) ==
    /\ request[r] # "none"
    /\ request' = [request EXCEPT ![r] = "none"]
    /\ ffmpeg' = [f \in Ffmpegs |-> IF f \in Running /\ ffmpeg[f].by = r
                                    THEN [ffmpeg[f] EXCEPT !.by = None] ELSE ffmpeg[f]]
    /\ opened' = [opened EXCEPT ![r] = {}]
    /\ abandoned' = abandoned \cup opened[r]
    /\ UNCHANGED <<copies, name, data>>

-----------------------------------------------------------------------------
(* ffmpeg.                                                                 *)

Referred == {name["tmp"], name["out"]} \cup {ffmpeg[f].inode : f \in Running}

\* -y: an output that exists is truncated, a missing one created.  What a process
\* opens that nobody waits for is abandoned; a new file has no history.
OpenOutput(f) ==
    /\ f \in Running /\ ffmpeg[f].inode = None
    /\ \E i \in IF name["tmp"] # None THEN {name["tmp"]} ELSE Inodes \ Referred :
        /\ name' = [name EXCEPT !["tmp"] = i]
        /\ data' = [data EXCEPT ![i] = Hole]
        /\ ffmpeg' = [ffmpeg EXCEPT ![f].inode = i]
        /\ LET stale == IF name["tmp"] = None THEN {i} ELSE {} IN
            /\ opened' = [r \in Requests |->
                             IF r = ffmpeg[f].by THEN opened[r] \cup {i} ELSE opened[r] \ stale]
            /\ abandoned' = IF ffmpeg[f].by = None THEN abandoned \cup {i}
                            ELSE abandoned \ stale
    /\ UNCHANGED <<copies, request>>

WriteBlock(f) ==
    /\ f \in Running /\ ffmpeg[f].inode # None
    /\ ffmpeg[f].at < Blocks
    /\ data' = [data EXCEPT ![ffmpeg[f].inode][ffmpeg[f].at + 1] = ffmpeg[f].codec]
    /\ ffmpeg' = [ffmpeg EXCEPT ![f].at = @ + 1]
    /\ UNCHANGED <<copies, name, request, history>>

\* How a process may end: well when all is written, badly anywhere, also before
\* it has opened its output.
Outcome(f, success) ==
    IF success THEN /\ ffmpeg[f].codec = "h264" \/ copies
                    /\ ffmpeg[f].inode # None /\ ffmpeg[f].at = Blocks
    ELSE ~copies

\* What the request does next: it looks at the status.  A transcode that fails is
\* an error, and the temporary file stays as it is.
AfterExit_Unchecked(f, success) == "move"
AfterExit(f, success) ==
    IF success THEN "move" ELSE IF ffmpeg[f].codec = "copy" THEN "transcode" ELSE "none"

Exit(f) ==
    /\ f \in Running
    /\ \E success \in BOOLEAN :
        LET Ended(r) == r = ffmpeg[f].by /\ ~success /\ ffmpeg[f].codec = "h264" IN
        /\ Outcome(f, success)
        /\ request' = [r \in Requests |->
                          IF r = ffmpeg[f].by THEN AfterExit(f, success) ELSE request[r]]
        /\ opened' = [r \in Requests |-> IF Ended(r) THEN {} ELSE opened[r]]
        /\ abandoned' = abandoned \cup UNION {opened[r] : r \in {q \in Requests : Ended(q)}}
    /\ ffmpeg' = [ffmpeg EXCEPT ![f] = None]
    /\ UNCHANGED <<copies, name, data>>

Next ==
    \/ \E r \in Requests : Start(r) \/ Fallback(r) \/ Move(r) \/ Cancel(r)
    \/ \E f \in Ffmpegs : OpenOutput(f) \/ WriteBlock(f) \/ Exit(f)

Spec == Init /\ [][Next]_vars

-----------------------------------------------------------------------------
(* Correctness.                                                            *)

Whole(i) == \E c \in Codecs : data[i] = [b \in 1..Blocks |-> c]

Settled == Running = {} /\ \A r \in Requests : request[r] = "none"

\* The cached file may be truncated and written again under its readers by an
\* ffmpeg that found it when it still had the temporary name; but when nobody is
\* at it any more, what later requests are served for good is a whole file
\* (remux_mp4).  This holds for a source that can be copied whatever requests are
\* given up; for one that cannot, unless the cached file is one that an ffmpeg
\* opened whose request was given up or failed: its copy had broken off, and the
\* transcode that was to mend or to replace the file never came, or broke off too.
SettledWhole ==
    (Settled /\ name["out"] # None /\ (copies \/ name["out"] \notin abandoned))
        => Whole(name["out"])
-----------------------------------------------------------------------------
(* The inductive invariant behind SettledWhole.                            *)

\* Only a stream that cannot be copied is transcoded.
Transcoding ==
    copies => /\ \A r \in Requests : request[r] # "transcode"
              /\ \A f \in Running : ffmpeg[f].codec = "copy"

\* A request waits for the only process that it has.
Waiting ==
    \A f \in Running : ffmpeg[f].by # None =>
        /\ request[ffmpeg[f].by] = "ffmpeg"
        /\ \A g \in Running : ffmpeg[g].by = ffmpeg[f].by => g = f

\* A process writes its output from the front.
FromFront == \A f \in Running : ffmpeg[f].inode = None => ffmpeg[f].at = 0

\* The history knows every file that a process has open.
Recorded ==
    \A f \in Running : ffmpeg[f].inode # None =>
        IF ffmpeg[f].by = None THEN ffmpeg[f].inode \in abandoned
        ELSE ffmpeg[f].inode \in opened[ffmpeg[f].by]

\* The cached file is no longer the temporary one.
Apart == name["tmp"] = None \/ name["tmp"] # name["out"]

\* What is not in the file yet is still going to be written.
Filling(i, codec) ==
    \A b \in 1..Blocks :
        \/ data[i][b] = codec
        \/ \E f \in Running :
              ffmpeg[f].codec = codec /\ ffmpeg[f].inode = i /\ ffmpeg[f].at < b

CopiesFill ==
    copies => \A n \in {"tmp", "out"} : name[n] # None => Filling(name[n], "copy")

\* A transcode of r is due that has not opened its output: whatever its copy left
\* in a file, or is still writing to it, the transcode mends or replaces.
Due(r) ==
    \/ request[r] = "transcode"
    \/ \E f \in Running : ffmpeg[f].by = r /\ (ffmpeg[f].codec = "copy" \/ ffmpeg[f].inode = None)

\* The transcode of r has opened its output.
Replacing(r) ==
    \/ request[r] = "move"
    \/ \E f \in Running : /\ ffmpeg[f].by = r
                          /\ ffmpeg[f].codec = "h264" /\ ffmpeg[f].inode # None

Mended(i) == Filling(i, "h264") \/ \E r \in Requests : i \in opened[r] /\ Due(r)

\* A cached file that nothing mends is going to be replaced by the temporary one.
TranscodesFill ==
    ~copies =>
        /\ name["tmp"] \notin {None} \cup abandoned => Mended(name["tmp"])
        /\ name["out"] \notin {None} \cup abandoned =>
              \/ Mended(name["out"])
              \/ name["tmp"] # None /\ \E r \in Requests : name["out"] \in opened[r] /\ Replacing(r)

IndInv ==
    /\ TypeOK
    /\ Transcoding
    /\ Waiting
    /\ FromFront
    /\ Recorded
    /\ Apart
    /\ CopiesFill
    /\ TranscodesFill
=============================================================================
