------------------------------ MODULE ByteRange ------------------------------
(***************************************************************************)
(* The byte ranges of the file routes: what `parse_range` (api.rs) makes   *)
(* of a Range header, and the bytes such a header asks for.                *)
(*                                                                         *)
(* A header is abstracted to what stands before and after its first dash:  *)
(* a number, nothing (NoNum), or text that is no u64, such as the rest of  *)
(* a list of ranges (BadNum).  A header that is missing, or has not the    *)
(* prefix bytes=, is NoRange.                                              *)
(***************************************************************************)
EXTENDS Integers

CONSTANTS
    NoRange,    \* no Range header, or one in a foreign unit
    NoNum,      \* an omitted number
    BadNum      \* an unreadable one

\* The headers whose numbers, if any, are in N.
Header(N) == [first : N \cup {NoNum, BadNum}, last : N \cup {NoNum, BadNum}]

ASSUME SentinelAssumption ==
    /\ NoNum \notin Nat /\ BadNum \notin Nat /\ NoNum # BadNum
    /\ NoRange \notin Header(Nat)

\* bytes=n-, what a client sends to go on from n.
From(n) == [first |-> n, last |-> NoNum]

\* bytes=n-m
Closed(n, m) == [first |-> n, last |-> m]

Lesser(a, b) == IF a <= b THEN a ELSE b

\* Without a first number the range begins at 0, without a last one it goes
\* to the end (unwrap_or).
First(h) == IF h.first \in {NoNum, BadNum} THEN 0 ELSE h.first

Last_Unclamped(h, total) == IF h.last \in {NoNum, BadNum} THEN total - 1 ELSE h.last
Last(h, total) ==
    IF h.last \in {NoNum, BadNum} THEN total - 1 ELSE Lesser(h.last, total - 1)

Whole(total) ==
    [status |-> 200, start |-> 0, take |-> total, total |-> total]

Part(h, total) ==
    [status |-> 206, start |-> First(h), take |-> Last(h, total) - First(h) + 1,
     total |-> total]

NotSatisfiable(total) ==
    [status |-> 416, start |-> 0, take |-> 0, total |-> total]

\* parse_range: an empty file is served whole whatever is asked of it.
ParseRange_Reversed(h, total) ==
    IF total = 0 \/ h = NoRange THEN Whole(total)
    ELSE IF First(h) >= total THEN NotSatisfiable(total)
    ELSE Part(h, total)

ParseRange(h, total) ==
    IF total = 0 \/ h = NoRange THEN Whole(total)
    ELSE IF First(h) > Last(h, total) \/ First(h) >= total
    THEN NotSatisfiable(total)
    ELSE Part(h, total)

-----------------------------------------------------------------------------
(* The reference: what HTTP means by a header (RFC 9110, 14.1.2), whatever  *)
(* the code makes of it.                                                    *)

\* bytes=n- and bytes=n-m, from the n-th byte to the m-th or the end: none if
\* the m-th comes before.
IntRange(h) == h # NoRange /\ h.first \notin {NoNum, BadNum} /\ h.last # BadNum

\* bytes=-n, the last n bytes.
SuffixRange(h) == h # NoRange /\ h.first = NoNum /\ h.last \notin {NoNum, BadNum}

\* The offsets asked for, of those a file of that length has.
Asked(h, total) ==
    {i \in 0..(total - 1) :
        \/ IntRange(h) /\ h.first <= i /\ (h.last # NoNum => i <= h.last)
        \/ SuffixRange(h) /\ total - h.last <= i}

\* A server may leave a header out of account and send the whole file.  If it
\* honours it, it sends what is asked for, and it refuses only a range of which
\* the file has no byte.
Answers(reply, h, total) ==
    /\ reply.status = 200 => reply.start = 0 /\ reply.take = total
    /\ reply.status = 206 =>
          reply.take > 0 /\ Asked(h, total) = reply.start..(reply.start + reply.take - 1)
    /\ reply.status = 416 => Asked(h, total) = {}
=============================================================================
