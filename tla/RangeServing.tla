---------------------------- MODULE RangeServing ----------------------------
(***************************************************************************)
(* One request for (a range of) a file: `serve_file_range` and             *)
(* `serve_encrypted` of api.rs, with `read_plain_range` of crypto.rs.      *)
(*                                                                         *)
(* The answer's head is made from the length the file has when the request *)
(* is handled; its body is read by a thread that opens the file again, by  *)
(* which time another file may be in its place.  A plain body is read in   *)
(* blocks; a sealed one in windows of one frame's length from wherever the *)
(* range starts, so that a window lies across two frames, each decrypted   *)
(* on its own.  Bytes are represented by their offsets in the file.        *)
(***************************************************************************)
EXTENDS ByteRange, Sequences

CONSTANTS
    Lengths,    \* the lengths a file may have
    Numbers,    \* the numbers in Range headers
    Chunk,      \* CHUNK_PLAIN, the plaintext bytes of a full frame
    Block       \* the most bytes that one read of a plain file returns

ASSUME ServingAssumption ==
    /\ Lengths \subseteq Nat
    /\ Numbers \subseteq Nat
    /\ Chunk \in Nat \ {0}
    /\ Block \in Nat \ {0}
    /\ NoRange \notin Header(Nat)

VARIABLES
    pc,         \* where the request is
    sealed,     \* whether the file is encrypted
    header,     \* the Range header
    reply,      \* status, first byte, number of bytes, length announced
    length,     \* of the file that the body is read from
    indexed,    \* whether the reader has a frame index
    pos,        \* the offset the body has come to
    frame,      \* the next frame of the window to look at
    out,        \* what the window has so far
    sent        \* the body

vars == <<pc, sealed, header, reply, length, indexed, pos, frame, out, sent>>

Ends == {"done", "failed", "gone"}
Places == {"idle", "open", "blocks", "windows", "frames"} \cup Ends

Headers == Header(Numbers) \cup {NoRange}

TypeOK ==
    /\ pc \in Places
    /\ sealed \in BOOLEAN
    /\ header \in Headers
    /\ reply \in [status : {200, 206, 416}, start : Nat, take : Nat, total : Lengths]
    /\ length \in Lengths
    /\ indexed \in BOOLEAN
    /\ pos \in Nat /\ frame \in Nat
    /\ out \in Seq(Nat) /\ sent \in Seq(Nat)

\* The bytes from a up to, not including, b.
Bytes(a, b) == [i \in 1..(b - a) |-> a + i - 1]

Left == reply.take - Len(sent)

Init ==
    /\ pc = "idle"
    /\ sealed = FALSE
    /\ header = NoRange
    /\ \E n \in Lengths : length = n /\ reply = Whole(n)
    /\ indexed = FALSE
    /\ pos = 0 /\ frame = 0
    /\ out = <<>> /\ sent = <<>>

\* The head of the answer.  Nothing is read for an error, nor from a sealed
\* file when there is nothing to send.
Request(enc, h, total) ==
    /\ pc = "idle"
    /\ sealed' = enc
    /\ header' = h
    /\ reply' = ParseRange(h, total)
    /\ length' = total
    /\ pos' = reply'.start
    /\ pc' = IF reply'.status = 416 \/ (enc /\ reply'.take = 0) THEN "done" ELSE "open"
    /\ out' = <<>> /\ sent' = <<>>
    /\ UNCHANGED <<indexed, frame>>

\* The reading thread opens what is there now: the same file or another.
\* EncryptedReader::open keeps a frame index only if it fits the file.
Open(n) ==
    /\ pc = "open"
    /\ length' = n
    /\ indexed' \in (IF sealed THEN BOOLEAN ELSE {FALSE})
    /\ pc' = IF sealed THEN "windows" ELSE "blocks"
    /\ UNCHANGED <<sealed, header, reply, pos, frame, out, sent>>

-----------------------------------------------------------------------------
(* A plain file.                                                           *)

\* A read may return less than was asked for.
ReadBlock ==
    /\ pc = "blocks"
    /\ Left > 0
    /\ \E n \in 1..Lesser(Left, Block) :
          /\ pos + n <= length
          /\ sent' = sent \o Bytes(pos, pos + n)
          /\ pos' = pos + n
    /\ UNCHANGED <<pc, sealed, header, reply, length, indexed, frame, out>>

EndBlocks ==
    /\ pc = "blocks"
    /\ Left = 0 \/ pos >= length
    /\ pc' = "done"
    /\ UNCHANGED <<sealed, header, reply, length, indexed, pos, frame, out, sent>>

-----------------------------------------------------------------------------
(* A sealed file.                                                          *)

\* The first byte after the range.
RangeEnd == reply.start + reply.take

WindowEnd_Inclusive == Lesser(pos + Chunk, RangeEnd - 1)
WindowEnd == Lesser(pos + Chunk, RangeEnd)

FirstFrame == pos \div Chunk
LastFrame == (WindowEnd - 1) \div Chunk

\* All frames but the last are full.
FrameStart(c) == c * Chunk
FrameEnd(c) == Lesser(FrameStart(c) + Chunk, length)
HasFrame(c) == FrameStart(c) < length

\* Without an index the frames are scanned from the beginning.
StartWindow ==
    /\ pc = "windows"
    /\ pos < RangeEnd
    /\ frame' = IF indexed THEN FirstFrame ELSE 0
    /\ pc' = "frames"
    /\ UNCHANGED <<sealed, header, reply, length, indexed, pos, out, sent>>

\* The bytes of a frame that are in the window.
SliceStart_Frame(c) == FrameStart(c)
SliceStart(c) ==
    Lesser(IF pos > FrameStart(c) THEN pos ELSE FrameStart(c), FrameEnd(c))
SliceEnd(c) == Lesser(WindowEnd, FrameEnd(c))

MoreFrames == frame <= LastFrame /\ HasFrame(frame)

ReadFrame ==
    /\ pc = "frames"
    /\ MoreFrames
    /\ out' = IF frame >= FirstFrame
              THEN out \o Bytes(SliceStart(frame), SliceEnd(frame)) ELSE out
    /\ frame' = frame + 1
    /\ UNCHANGED <<pc, sealed, header, reply, length, indexed, pos, sent>>

\* A window with nothing in it ends the body.
EndWindow_Again ==
    /\ pc = "frames"
    /\ ~MoreFrames
    /\ pc' = "windows"
    /\ pos' = pos + Len(out)
    /\ sent' = sent \o out
    /\ out' = <<>>
    /\ UNCHANGED <<sealed, header, reply, length, indexed, frame>>

EndWindow ==
    /\ pc = "frames"
    /\ ~MoreFrames
    /\ pc' = IF out = <<>> THEN "done" ELSE "windows"
    /\ pos' = pos + Len(out)
    /\ sent' = sent \o out
    /\ out' = <<>>
    /\ UNCHANGED <<sealed, header, reply, length, indexed, frame>>

EndWindows ==
    /\ pc = "windows"
    /\ pos >= RangeEnd
    /\ pc' = "done"
    /\ UNCHANGED <<sealed, header, reply, length, indexed, pos, frame, out, sent>>

-----------------------------------------------------------------------------
Serve == ReadBlock \/ EndBlocks \/ StartWindow \/ ReadFrame \/ EndWindow \/ EndWindows

\* The file cannot be opened or read, or the client has closed the
\* connection; what was sent stays sent.
BreakOff ==
    /\ pc \in Places \ (Ends \cup {"idle"})
    /\ pc' \in {"failed", "gone"}
    /\ UNCHANGED <<sealed, header, reply, length, indexed, pos, frame, out, sent>>

Next ==
    \/ \E enc \in BOOLEAN, h \in Headers, n \in Lengths : Request(enc, h, n)
    \/ \E n \in Lengths : Open(n)
    \/ Serve
    \/ BreakOff

\* The thread that reads the body runs on while there is a client.
Fairness == WF_vars(\E n \in Lengths : Open(n)) /\ WF_vars(Serve)

Spec == Init /\ [][Next]_vars /\ Fairness

-----------------------------------------------------------------------------
\* The head of an answer to bytes=n- or bytes=n-m is right: what is served is
\* what HTTP says was asked for, as far as the file goes, and a range is refused
\* only if the file has no byte of it (parse_range).  Without a range the whole
\* file is served.
AnswersAsked ==
    pc # "idle" =>
        /\ IntRange(header) => Answers(reply, header, reply.total)
        /\ header = NoRange => reply = Whole(reply.total)

\* README.md:94: "Downloads use HTTP `Range`", of which bytes=-n, the last n
\* bytes, is a part.
SuffixAnswered ==
    pc # "idle" /\ SuffixRange(header) => Answers(reply, header, reply.total)

\* At every moment the body is the range's bytes in order from its first,
\* with none left out, doubled or past the end, whichever way the file is
\* read and whatever windows, frames and reads it is cut into.
InOrder ==
    /\ Len(sent) <= reply.take
    /\ sent = Bytes(reply.start, reply.start + Len(sent))

\* A body that ends without an error has as many bytes as the head has
\* announced, unless a shorter file has come in the file's place.
AsAnnounced ==
    pc = "done" /\ length >= reply.total => Len(sent) = reply.take

\* Every request ends, also when the file shrinks under it (the loops of
\* both serving functions).
RequestEnds == pc = "open" ~> pc \in Ends
-----------------------------------------------------------------------------
(* The inductive invariant behind AnswersAsked, InOrder and AsAnnounced.    *)

Greater(a, b) == IF a >= b THEN a ELSE b

\* The range lies in the file that the head was made from.
RangeInFile == RangeEnd <= reply.total

\* The body has come as far as it has been sent.
PosAtSent == pos = reply.start + Len(sent)

\* Where the window has come to: the end of the frames it has been through,
\* cut at the end of the window and of the file.
Upto == Greater(pos, Lesser(WindowEnd, Lesser(FrameStart(frame), length)))

\* What the window has are the bytes from where the body is up to there.
WindowInOrder ==
    /\ pc = "frames" => pos < RangeEnd /\ out = Bytes(pos, Upto)
    /\ pc \in {"open", "windows"} => out = <<>>

IndInv ==
    /\ TypeOK
    /\ AnswersAsked
    /\ InOrder
    /\ AsAnnounced
    /\ RangeInFile
    /\ PosAtSent
    /\ WindowInOrder
=============================================================================
