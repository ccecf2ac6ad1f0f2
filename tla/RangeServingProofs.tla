------------------------- MODULE RangeServingProofs -------------------------
(***************************************************************************)
(* Proofs about module RangeServing, for every value of its constants: any *)
(* lengths and headers, any frame length and any block length.             *)
(***************************************************************************)
EXTENDS RangeServing, SequenceTheorems, TLAPS

-----------------------------------------------------------------------------
(* Headers: lemmas of module ByteRange.                                    *)

\* What stands before and after the dash, and where the range begins and ends.
LEMMA HeaderNumbers ==
  ASSUME NEW h \in Headers, h # NoRange, NEW total \in Nat
  PROVE  /\ h.first \in Nat \cup {NoNum, BadNum} /\ h.last \in Nat \cup {NoNum, BadNum}
         /\ First(h) \in Nat /\ Last(h, total) \in Int /\ Last(h, total) <= total - 1
<1>1. h.first \in Nat \cup {NoNum, BadNum} /\ h.last \in Nat \cup {NoNum, BadNum}
  BY ServingAssumption DEF Headers, Header
<1> QED
  BY <1>1 DEF First, Last, Lesser

\* parse_range gives a range within the file.
LEMMA ParseRangeInFile ==
  ASSUME NEW h \in Headers, NEW total \in Nat
  PROVE  LET r == ParseRange(h, total) IN
           /\ r \in [status : {200, 206, 416}, start : Nat, take : Nat, total : {total}]
           /\ r.start + r.take <= total
<1>1. CASE total = 0 \/ h = NoRange
  BY <1>1 DEF ParseRange, Whole
<1>2. CASE total # 0 /\ h # NoRange
  <2>1. First(h) \in Nat /\ Last(h, total) \in Int /\ Last(h, total) <= total - 1
    BY <1>2, HeaderNumbers
  <2> QED
    BY <1>2, <2>1 DEF ParseRange, Part, NotSatisfiable
<1> QED
  BY <1>1, <1>2

\* parse_range answers bytes=n- and bytes=n-m with what HTTP says they ask for.
LEMMA ParseRangeAnswers ==
  ASSUME NEW h \in Headers, NEW total \in Nat, IntRange(h)
  PROVE  Answers(ParseRange(h, total), h, total)
<1>1. h # NoRange /\ h.first \in Nat /\ h.last \in Nat \cup {NoNum}
  BY HeaderNumbers DEF IntRange
<1>2. CASE total = 0
  BY <1>2 DEF ParseRange, Whole, Answers
<1>3. CASE total # 0
  <2>1. First(h) = h.first /\ First(h) \in Nat
    BY <1>1, SentinelAssumption DEF First
  <2>2. Last(h, total) \in Int /\ Last(h, total) <= total - 1
    BY <1>1, HeaderNumbers
  <2>3. \A i \in 0..(total - 1) : (h.last # NoNum => i <= h.last) <=> i <= Last(h, total)
    BY <1>1, SentinelAssumption DEF Last, Lesser
  <2>4. ~SuffixRange(h)
    BY <1>1, SentinelAssumption DEF SuffixRange
  <2>5. Asked(h, total) = {i \in 0..(total - 1) : First(h) <= i /\ i <= Last(h, total)}
    BY <2>1, <2>3, <2>4 DEF Asked
  <2>6. Asked(h, total) = First(h)..Last(h, total)
    BY <1>3, <2>1, <2>2, <2>5
  <2>7. CASE First(h) > Last(h, total) \/ First(h) >= total
    <3>1. Asked(h, total) = {}
      BY <2>1, <2>2, <2>6, <2>7
    <3> QED
      BY <1>1, <1>3, <2>7, <3>1 DEF ParseRange, NotSatisfiable, Answers
  <2>8. CASE ~(First(h) > Last(h, total) \/ First(h) >= total)
    <3>1. ParseRange(h, total) = Part(h, total)
      BY <1>1, <1>3, <2>8 DEF ParseRange
    <3>2. /\ First(h) + (Last(h, total) - First(h) + 1) - 1 = Last(h, total)
          /\ Last(h, total) - First(h) + 1 > 0
      BY <2>1, <2>2, <2>8
    <3> QED
      BY <2>6, <3>1, <3>2 DEF Part, Answers
  <2> QED
    BY <2>7, <2>8
<1> QED
  BY <1>2, <1>3

-----------------------------------------------------------------------------
(* Sequences of consecutive bytes.                                         *)

\* Bytes(a, b) has one byte for each offset from a up to, not including, b.
LEMMA BytesType ==
  ASSUME NEW a \in Nat, NEW b \in Nat
  PROVE  /\ Bytes(a, b) \in Seq(Nat)
         /\ a <= b => Len(Bytes(a, b)) = b - a
         /\ b <= a => Bytes(a, b) = <<>>
         /\ \A i \in 1..(b - a) : Bytes(a, b)[i] = a + i - 1
<1>1. CASE a <= b
  <2>1. b - a \in Nat /\ \A i \in 1..(b - a) : a + i - 1 \in Nat
    BY <1>1
  <2> QED
    BY <1>1, <2>1 DEF Bytes
<1>2. CASE b < a
  <2>1. 1..(b - a) = {}
    BY <1>2
  <2>2. Bytes(a, b) = <<>>
    BY <2>1 DEF Bytes
  <2> QED
    BY <1>2, <2>1, <2>2
<1> QED
  BY <1>1, <1>2

\* Consecutive stretches join to one.
LEMMA BytesJoin ==
  ASSUME NEW a \in Nat, NEW b \in Nat, NEW c \in Nat, a <= b, b <= c
  PROVE  Bytes(a, b) \o Bytes(b, c) = Bytes(a, c)
<1>1. /\ Bytes(a, b) \in Seq(Nat) /\ Bytes(b, c) \in Seq(Nat)
      /\ Len(Bytes(a, b)) = b - a /\ Len(Bytes(b, c)) = c - b
  BY BytesType
<1>2. Bytes(a, c) \in Seq(Nat) /\ Len(Bytes(a, c)) = c - a
  <2>1. a <= c
    OBVIOUS
  <2> QED
    BY <2>1, BytesType
<1>3. /\ Bytes(a, b) \o Bytes(b, c) \in Seq(Nat)
      /\ Len(Bytes(a, b) \o Bytes(b, c)) = c - a
  <2>1. /\ Bytes(a, b) \o Bytes(b, c) \in Seq(Nat)
        /\ Len(Bytes(a, b) \o Bytes(b, c)) = Len(Bytes(a, b)) + Len(Bytes(b, c))
    BY <1>1, ConcatProperties
  <2> QED
    BY <1>1, <2>1
<1>4. \A i \in 1..(c - a) : (Bytes(a, b) \o Bytes(b, c))[i] = a + i - 1
  <2> SUFFICES ASSUME NEW i \in 1..(c - a)
               PROVE  (Bytes(a, b) \o Bytes(b, c))[i] = a + i - 1
    OBVIOUS
  <2>0. i \in 1..(Len(Bytes(a, b)) + Len(Bytes(b, c)))
    BY <1>1
  <2>1. (Bytes(a, b) \o Bytes(b, c))[i] =
            IF i <= b - a THEN Bytes(a, b)[i] ELSE Bytes(b, c)[i - (b - a)]
    BY <1>1, <2>0, ConcatProperties
  <2>2. CASE i <= b - a
    BY <2>1, <2>2, BytesType
  <2>3. CASE i > b - a
    <3>1. i - (b - a) \in 1..(c - b)
      BY <2>3
    <3>2. Bytes(b, c)[i - (b - a)] = b + (i - (b - a)) - 1
      BY <3>1, BytesType
    <3> QED
      BY <2>1, <2>3, <3>2
  <2>4. i <= b - a \/ i > b - a
    OBVIOUS
  <2> QED
    BY <2>2, <2>3, <2>4
<1>5. \A i \in 1..(c - a) : Bytes(a, c)[i] = a + i - 1
  BY BytesType
<1> QED
  BY <1>2, <1>3, <1>4, <1>5, SeqEqual

-----------------------------------------------------------------------------
(* Frames.                                                                 *)

\* The frame of an offset starts at or before it and ends after it.
LEMMA FrameOf ==
  ASSUME NEW k \in Nat
  PROVE  /\ k \div Chunk \in Nat
         /\ (k \div Chunk) * Chunk <= k
         /\ k < (k \div Chunk) * Chunk + Chunk
  BY ServingAssumption

\* Frames follow each other without overlapping.
LEMMA FramesApart ==
  ASSUME NEW c \in Nat, NEW d \in Nat, c < d
  PROVE  /\ c * Chunk \in Nat /\ d * Chunk \in Nat
         /\ (c + 1) * Chunk = c * Chunk + Chunk
         /\ c * Chunk + Chunk <= d * Chunk
<1>1. c * Chunk \in Nat /\ d * Chunk \in Nat /\ (c + 1) * Chunk = c * Chunk + Chunk
  BY ServingAssumption
<1>2. d * Chunk = (c + 1) * Chunk + (d - (c + 1)) * Chunk /\ d - (c + 1) \in Nat
  BY ServingAssumption
<1>3. (d - (c + 1)) * Chunk \in Nat
  BY <1>2, ServingAssumption
<1> QED
  BY <1>1, <1>2, <1>3, ServingAssumption
-----------------------------------------------------------------------------
(* Types and the initial states.                                           *)

\* The ends of ranges, windows and frames are numbers.
LEMMA PlaceTypes ==
  ASSUME TypeOK
  PROVE  /\ RangeEnd \in Nat /\ WindowEnd \in Nat
         /\ FrameStart(frame) \in Nat /\ FrameEnd(frame) \in Nat
         /\ SliceStart(frame) \in Nat /\ SliceEnd(frame) \in Nat
         /\ Upto \in Nat /\ length \in Nat /\ reply.total \in Nat
         /\ Len(sent) \in Nat /\ Left \in Int
<1>1. /\ reply.start \in Nat /\ reply.take \in Nat /\ reply.total \in Nat
      /\ length \in Nat /\ pos \in Nat /\ frame \in Nat /\ Chunk \in Nat
      /\ sent \in Seq(Nat)
  BY ServingAssumption DEF TypeOK
<1>2. RangeEnd \in Nat /\ WindowEnd \in Nat /\ Len(sent) \in Nat /\ Left \in Int
  BY <1>1 DEF RangeEnd, WindowEnd, Lesser, Left
<1>3. FrameStart(frame) \in Nat
  BY <1>1 DEF FrameStart
<1>4. FrameEnd(frame) \in Nat
  BY <1>1, <1>3 DEF FrameEnd, Lesser
<1>5. SliceStart(frame) \in Nat /\ SliceEnd(frame) \in Nat /\ Upto \in Nat
  BY <1>1, <1>2, <1>3, <1>4 DEF SliceStart, SliceEnd, Upto, Lesser, Greater
<1> QED
  BY <1>1, <1>2, <1>3, <1>4, <1>5

\* Every step keeps TypeOK.
LEMMA TypeNext == TypeOK /\ [Next]_vars => TypeOK'
<1> SUFFICES ASSUME TypeOK, [Next]_vars
             PROVE  TypeOK'
  OBVIOUS
<1>1. ASSUME NEW enc \in BOOLEAN, NEW h \in Headers, NEW n \in Lengths, Request(enc, h, n)
      PROVE  TypeOK'
  <2>1. reply' \in [status : {200, 206, 416}, start : Nat, take : Nat, total : Lengths]
    BY <1>1, ParseRangeInFile, ServingAssumption DEF Request
  <2>2. reply'.start \in Nat
    BY <2>1
  <2>3. pc' \in Places
    BY <1>1 DEF Request, Places, Ends
  <2> QED
    BY <1>1, <2>1, <2>2, <2>3 DEF Request, TypeOK
<1>2. ASSUME NEW n \in Lengths, Open(n)
      PROVE  TypeOK'
  BY <1>2 DEF Open, TypeOK, Places
<1>3. CASE ReadBlock
  <2>1. PICK n \in 1..Lesser(Left, Block) :
            /\ sent' = sent \o Bytes(pos, pos + n)
            /\ pos' = pos + n
    BY <1>3 DEF ReadBlock
  <2>2. n \in Nat /\ pos + n \in Nat
    BY PlaceTypes, ServingAssumption DEF TypeOK, Lesser
  <2>3. sent' \in Seq(Nat)
    BY <2>1, <2>2, BytesType DEF TypeOK
  <2> QED
    BY <1>3, <2>1, <2>2, <2>3 DEF ReadBlock, TypeOK
<1>4. CASE EndBlocks
  BY <1>4 DEF EndBlocks, TypeOK, Places, Ends
<1>5. CASE StartWindow
  <2>1. FirstFrame \in Nat
    BY FrameOf DEF FirstFrame, TypeOK
  <2> QED
    BY <1>5, <2>1 DEF StartWindow, TypeOK, Places
<1>6. CASE ReadFrame
  <2>1. Bytes(SliceStart(frame), SliceEnd(frame)) \in Seq(Nat)
    BY PlaceTypes, BytesType
  <2>2. out' \in Seq(Nat)
    BY <1>6, <2>1 DEF ReadFrame, TypeOK
  <2> QED
    BY <1>6, <2>2 DEF ReadFrame, TypeOK
<1>7. CASE EndWindow
  <2>1. sent' \in Seq(Nat) /\ pos' \in Nat /\ out' \in Seq(Nat)
    BY <1>7 DEF EndWindow, TypeOK
  <2> QED
    BY <1>7, <2>1 DEF EndWindow, TypeOK, Places, Ends
<1>8. CASE EndWindows
  BY <1>8 DEF EndWindows, TypeOK, Places, Ends
<1>9. CASE BreakOff
  BY <1>9 DEF BreakOff, TypeOK, Places, Ends
<1>10. CASE UNCHANGED vars
  BY <1>10 DEF vars, TypeOK
<1> QED
  BY <1>1, <1>2, <1>3, <1>4, <1>5, <1>6, <1>7, <1>8, <1>9, <1>10 DEF Next, Serve

\* The initial states satisfy the invariant.
LEMMA IndInit == Init => IndInv
<1> SUFFICES ASSUME Init
             PROVE  IndInv
  OBVIOUS
<1>1. PICK n \in Lengths : length = n /\ reply = Whole(n)
  BY DEF Init
<1>2. n \in Nat
  BY ServingAssumption
<1>3. TypeOK
  <2>1. reply \in [status : {200, 206, 416}, start : Nat, take : Nat, total : Lengths]
    BY <1>1, <1>2 DEF Whole
  <2>2. out \in Seq(Nat) /\ sent \in Seq(Nat)
    BY EmptySeq DEF Init
  <2> QED
    BY <1>1, <2>1, <2>2 DEF Init, TypeOK, Places, Headers
<1>4. sent = Bytes(reply.start, reply.start + Len(sent)) /\ Len(sent) = 0
  <2>1. Len(sent) = 0 /\ sent = <<>> /\ reply.start = 0
    BY <1>1 DEF Init, Whole
  <2>2. Bytes(0, 0 + 0) = <<>>
    BY BytesType
  <2> QED
    BY <2>1, <2>2
<1>5. InOrder /\ PosAtSent /\ RangeInFile
  BY <1>1, <1>2, <1>4 DEF Init, InOrder, PosAtSent, RangeInFile, RangeEnd, Whole
<1>6. AnswersAsked /\ AsAnnounced /\ WindowInOrder
  BY DEF Init, AnswersAsked, AsAnnounced, WindowInOrder
<1> QED
  BY <1>3, <1>5, <1>6 DEF IndInv
-----------------------------------------------------------------------------
(* The inductive invariant, action by action.                              *)

\* The body keeps in order when the next bytes of the range are added to it.
LEMMA SentJoins ==
  ASSUME IndInv, NEW q \in Nat, pos <= q
  PROVE  /\ sent \o Bytes(pos, q) = Bytes(reply.start, q)
         /\ Len(sent \o Bytes(pos, q)) = Len(sent) + (q - pos)
         /\ q = reply.start + Len(sent \o Bytes(pos, q))
<1>1. /\ reply.start \in Nat /\ pos \in Nat /\ Len(sent) \in Nat /\ sent \in Seq(Nat)
      /\ pos = reply.start + Len(sent)
      /\ sent = Bytes(reply.start, pos)
  BY PlaceTypes DEF IndInv, TypeOK, PosAtSent, InOrder
<1>2. reply.start <= pos
  BY <1>1
<1>3. sent \o Bytes(pos, q) = Bytes(reply.start, q)
  <2>1. Bytes(reply.start, pos) \o Bytes(pos, q) = Bytes(reply.start, q)
    BY <1>1, <1>2, BytesJoin
  <2> QED
    BY <1>1, <2>1
<1>4. Bytes(pos, q) \in Seq(Nat) /\ Len(Bytes(pos, q)) = q - pos
  BY <1>1, BytesType
<1>5. Len(sent \o Bytes(pos, q)) = Len(sent) + Len(Bytes(pos, q))
  BY <1>1, <1>4, ConcatProperties
<1>6. Len(sent \o Bytes(pos, q)) = Len(sent) + (q - pos)
  BY <1>4, <1>5
<1>7. q = reply.start + (Len(sent) + (q - pos))
  BY <1>1
<1> QED
  BY <1>3, <1>6, <1>7

\* A request makes a right head, before any byte.
LEMMA RequestKeeps ==
  ASSUME IndInv, TypeOK', NEW enc \in BOOLEAN, NEW h \in Headers, NEW n \in Lengths,
         Request(enc, h, n)
  PROVE  IndInv'
<1>1. n \in Nat
  BY ServingAssumption
<1>2. /\ reply' = ParseRange(h, n) /\ header' = h /\ length' = n
      /\ sent' = <<>> /\ out' = <<>> /\ pos' = reply'.start
      /\ pc' \in {"done", "open"}
      /\ pc' = "done" => reply'.status = 416 \/ reply'.take = 0
  BY DEF Request
<1>3. /\ reply'.total = n /\ reply'.start \in Nat /\ reply'.take \in Nat
      /\ reply'.start + reply'.take <= n
  <2>1. /\ ParseRange(h, n) \in [status : {200, 206, 416}, start : Nat, take : Nat, total : {n}]
        /\ ParseRange(h, n).start + ParseRange(h, n).take <= n
    BY <1>1, ParseRangeInFile
  <2> QED
    BY <1>2, <2>1
<1>4. AnswersAsked'
  BY <1>1, <1>2, <1>3, ParseRangeAnswers DEF AnswersAsked, ParseRange
<1>5. Len(sent') = 0 /\ sent' = Bytes(reply'.start, reply'.start + Len(sent'))
  <2>1. Len(sent') = 0 /\ reply'.start + 0 = reply'.start
    BY <1>2, <1>3
  <2>2. \A a \in Nat : Bytes(a, a) = <<>>
    BY BytesType
  <2> QED
    BY <1>2, <1>3, <2>1, <2>2
<1>6. InOrder' /\ PosAtSent' /\ RangeInFile'
  BY <1>2, <1>3, <1>5 DEF InOrder, PosAtSent, RangeInFile, RangeEnd
<1>7. AsAnnounced'
  <2>1. reply'.status = 416 => reply'.take = 0
    BY <1>2 DEF ParseRange, Whole, Part, NotSatisfiable
  <2> QED
    BY <1>2, <1>5, <2>1 DEF AsAnnounced
<1>8. WindowInOrder'
  BY <1>2 DEF WindowInOrder
<1> QED
  BY <1>4, <1>6, <1>7, <1>8 DEF IndInv

\* A read of a plain file adds the next bytes of the range.
LEMMA ReadBlockKeeps ==
  ASSUME IndInv, TypeOK', ReadBlock
  PROVE  IndInv'
<1>1. PICK n \in 1..Lesser(Left, Block) :
          /\ sent' = sent \o Bytes(pos, pos + n)
          /\ pos' = pos + n
  BY DEF ReadBlock
<1>2. /\ pos \in Nat /\ reply.take \in Nat /\ reply.start \in Nat /\ Len(sent) \in Nat
      /\ Left \in Int /\ Block \in Nat
  BY PlaceTypes, ServingAssumption DEF IndInv, TypeOK
<1>3. n \in Nat /\ n <= Left
  BY <1>2 DEF Lesser
<1>4. /\ Len(sent) + n <= reply.take
      /\ pos + n \in Nat /\ pos <= pos + n /\ (pos + n) - pos = n
  BY <1>2, <1>3 DEF Left
<1>5. /\ sent' = Bytes(reply.start, pos + n)
      /\ Len(sent') = Len(sent) + n
      /\ pos + n = reply.start + Len(sent')
  BY <1>1, <1>4, SentJoins
<1>6. pc = "blocks" /\ UNCHANGED <<pc, header, reply, length>>
  BY DEF ReadBlock
<1>7. InOrder' /\ PosAtSent'
  BY <1>1, <1>4, <1>5, <1>6 DEF InOrder, PosAtSent
<1>8. AnswersAsked' /\ RangeInFile' /\ AsAnnounced' /\ WindowInOrder'
  BY <1>6 DEF IndInv, AnswersAsked, RangeInFile, RangeEnd, AsAnnounced, WindowInOrder
<1> QED
  BY <1>7, <1>8 DEF IndInv

\* When the file is as long as announced, a body that has come to its end or
\* to the range's has been sent whole.
LEMMA WholeAtEnd ==
  ASSUME IndInv, pos >= length \/ pos >= RangeEnd \/ Left = 0, length >= reply.total
  PROVE  Len(sent) = reply.take
<1>1. /\ pos \in Nat /\ reply.take \in Nat /\ reply.start \in Nat /\ Len(sent) \in Nat
      /\ length \in Nat /\ reply.total \in Nat
      /\ Len(sent) <= reply.take
      /\ pos = reply.start + Len(sent)
      /\ reply.start + reply.take <= reply.total
  BY PlaceTypes DEF IndInv, TypeOK, InOrder, PosAtSent, RangeInFile, RangeEnd
<1> QED
  BY <1>1 DEF RangeEnd, Left

\* A body that stops has been sent whole, or the file is shorter than it was.
LEMMA EndKeeps ==
  ASSUME IndInv, TypeOK', EndBlocks \/ EndWindows
  PROVE  IndInv'
<1>1. /\ pc' = "done"
      /\ UNCHANGED <<header, reply, length, pos, out, sent>>
      /\ Left = 0 \/ pos >= length \/ pos >= RangeEnd
      /\ pc \in {"blocks", "windows"}
  BY DEF EndBlocks, EndWindows
<1>2. InOrder' /\ PosAtSent' /\ RangeInFile' /\ AnswersAsked' /\ WindowInOrder'
  BY <1>1 DEF IndInv, InOrder, PosAtSent, RangeInFile, AnswersAsked, RangeEnd, WindowInOrder
<1>3. AsAnnounced'
  BY <1>1, WholeAtEnd DEF AsAnnounced
<1> QED
  BY <1>2, <1>3 DEF IndInv

\* A window ends after where it starts, and within the range.
LEMMA WindowFacts ==
  ASSUME IndInv, pc = "frames"
  PROVE  /\ pos \in Nat /\ WindowEnd \in Nat /\ RangeEnd \in Nat
         /\ length \in Nat /\ frame \in Nat /\ Chunk \in Nat /\ Chunk > 0
         /\ pos < WindowEnd /\ WindowEnd <= RangeEnd /\ WindowEnd - 1 \in Nat
         /\ FirstFrame \in Nat /\ LastFrame \in Nat
         /\ FirstFrame * Chunk <= pos /\ pos < FirstFrame * Chunk + Chunk
         /\ LastFrame * Chunk <= WindowEnd - 1
         /\ WindowEnd - 1 < LastFrame * Chunk + Chunk
<1>1. /\ pos \in Nat /\ RangeEnd \in Nat /\ WindowEnd \in Nat /\ length \in Nat
      /\ frame \in Nat /\ pos < RangeEnd
  BY PlaceTypes DEF IndInv, TypeOK, WindowInOrder
<1>2. Chunk \in Nat /\ Chunk > 0
  BY ServingAssumption
<1>3. pos < WindowEnd /\ WindowEnd <= RangeEnd /\ WindowEnd - 1 \in Nat
  BY <1>1, <1>2 DEF WindowEnd, Lesser
<1>4. /\ FirstFrame \in Nat /\ FirstFrame * Chunk <= pos
      /\ pos < FirstFrame * Chunk + Chunk
  BY <1>1, FrameOf DEF FirstFrame
<1>5. /\ LastFrame \in Nat /\ LastFrame * Chunk <= WindowEnd - 1
      /\ WindowEnd - 1 < LastFrame * Chunk + Chunk
  BY <1>3, FrameOf DEF LastFrame
<1> QED
  BY <1>1, <1>2, <1>3, <1>4, <1>5

\* A window starts empty, with no frame that starts after the body's end.
LEMMA StartWindowKeeps ==
  ASSUME IndInv, TypeOK', StartWindow
  PROVE  IndInv'
<1>1. /\ pc = "windows" /\ pc' = "frames" /\ pos < RangeEnd
      /\ UNCHANGED <<header, reply, length, pos, out, sent>>
      /\ frame' \in {0, FirstFrame}
  BY DEF StartWindow
<1>2. AnswersAsked' /\ InOrder' /\ AsAnnounced' /\ RangeInFile' /\ PosAtSent'
  BY <1>1 DEF IndInv, AnswersAsked, InOrder, AsAnnounced, RangeInFile, PosAtSent, RangeEnd
<1>3. /\ pos \in Nat /\ Chunk \in Nat /\ WindowEnd \in Nat /\ length \in Nat
  BY PlaceTypes, ServingAssumption DEF IndInv, TypeOK
<1>4. FrameStart(frame') \in Nat /\ FrameStart(frame') <= pos
  <2>1. CASE frame' = FirstFrame
    BY <1>3, <2>1, FrameOf DEF FirstFrame, FrameStart
  <2>2. CASE frame' = 0
    <3>1. 0 * Chunk = 0
      BY <1>3
    <3> QED
      BY <1>3, <2>2, <3>1 DEF FrameStart
  <2> QED
    BY <1>1, <2>1, <2>2
<1>5. WindowEnd' = WindowEnd
  BY <1>1 DEF WindowEnd, RangeEnd
<1>6. Upto' = pos
  <2>1. Upto' = Greater(pos, Lesser(WindowEnd, Lesser(FrameStart(frame'), length)))
    BY <1>1, <1>5 DEF Upto, FrameStart
  <2> QED
    BY <1>3, <1>4, <2>1 DEF Lesser, Greater
<1>7. out' = Bytes(pos', Upto')
  <2>1. \A a \in Nat : Bytes(a, a) = <<>>
    BY BytesType
  <2> QED
    BY <1>1, <1>3, <1>6, <2>1 DEF IndInv, WindowInOrder
<1>8. WindowInOrder'
  BY <1>1, <1>7 DEF WindowInOrder, RangeEnd
<1> QED
  BY <1>2, <1>8 DEF IndInv

\* A frame adds to the window what lies between where the window had come to
\* and where it has come to with it: nothing of a frame that lies before the
\* body's end or of a file that ends before it.
LEMMA SliceIsNext ==
  ASSUME IndInv, TypeOK', ReadFrame
  PROVE  /\ Upto \in Nat /\ Upto' \in Nat /\ pos <= Upto /\ Upto <= Upto'
         /\ out' = out \o Bytes(Upto, Upto')
<1>1. pc = "frames" /\ UNCHANGED <<reply, length, pos>> /\ frame' = frame + 1
  BY DEF ReadFrame
<1>2. /\ frame <= LastFrame /\ frame * Chunk < length
      /\ out' = IF frame >= FirstFrame
                THEN out \o Bytes(SliceStart(frame), SliceEnd(frame)) ELSE out
  BY DEF ReadFrame, MoreFrames, HasFrame, FrameStart
<1> DEFINE fs == frame * Chunk
           ff == FirstFrame * Chunk
           lf == LastFrame * Chunk
<1>3. /\ pos \in Nat /\ WindowEnd \in Nat /\ length \in Nat /\ Chunk \in Nat
      /\ frame \in Nat /\ FirstFrame \in Nat /\ LastFrame \in Nat
      /\ pos < WindowEnd /\ ff <= pos /\ pos < ff + Chunk /\ lf <= WindowEnd - 1
  BY <1>1, WindowFacts
<1>4. /\ fs \in Nat /\ ff \in Nat /\ lf \in Nat
      /\ FrameStart(frame) = fs /\ FrameStart(frame') = fs + Chunk
  BY <1>1, <1>3 DEF FrameStart
<1>5. fs <= lf
  BY <1>2, <1>3, FramesApart
<1>6. Upto = Greater(pos, Lesser(WindowEnd, Lesser(fs, length)))
  BY <1>4 DEF Upto
<1>7. Upto' = Greater(pos, Lesser(WindowEnd, Lesser(fs + Chunk, length)))
  BY <1>1, <1>4 DEF Upto, WindowEnd, RangeEnd
<1>8. out \in Seq(Nat) /\ out \o <<>> = out
  BY EmptySeq, ConcatProperties, ConcatEmptySeq DEF IndInv, TypeOK
<1>9. \A a \in Nat : Bytes(a, a) = <<>>
  BY BytesType
<1>10. CASE frame < FirstFrame
  <2>1. fs + Chunk <= ff
    BY <1>3, <1>10, FramesApart
  <2> HIDE DEF fs, ff, lf
  <2>2. Upto = pos /\ Upto' = pos
    BY <1>3, <1>4, <1>6, <1>7, <2>1 DEF Lesser, Greater
  <2>3. out' = out
    BY <1>2, <1>3, <1>10
  <2> QED
    BY <1>3, <1>8, <1>9, <2>2, <2>3
<1>11. CASE frame >= FirstFrame
  <2>1. pos < fs + Chunk
    <3>1. frame = FirstFrame \/ FirstFrame < frame
      BY <1>3, <1>11
    <3>2. FirstFrame < frame => ff + Chunk <= fs
      BY <1>3, FramesApart
    <3>3. frame = FirstFrame => fs = ff
      OBVIOUS
    <3> HIDE DEF fs, ff, lf
    <3> QED
      BY <1>3, <1>4, <3>1, <3>2, <3>3
  <2>2. out' = out \o Bytes(SliceStart(frame), SliceEnd(frame))
    BY <1>2, <1>11
  <2>3. fs < length
    BY <1>2
  <2> HIDE DEF fs, ff, lf
  <2>4. SliceStart(frame) = Lesser(Greater(pos, fs), Lesser(fs + Chunk, length))
    BY <1>3, <1>4 DEF SliceStart, FrameEnd, Lesser, Greater
  <2>5. SliceEnd(frame) = Lesser(WindowEnd, Lesser(fs + Chunk, length))
    BY <1>4 DEF SliceEnd, FrameEnd
  <2>6. CASE length <= pos
    <3>1. Upto = pos /\ Upto' = pos
      BY <1>3, <1>4, <1>6, <1>7, <2>6 DEF Lesser, Greater
    <3>2. SliceStart(frame) = length /\ SliceEnd(frame) = length
      BY <1>3, <1>4, <2>1, <2>3, <2>4, <2>5, <2>6 DEF Lesser, Greater
    <3> QED
      BY <1>3, <1>9, <2>2, <3>1, <3>2
  <2>7. CASE pos < length
    <3>1. fs < WindowEnd /\ Upto = Greater(pos, fs)
      BY <1>3, <1>4, <1>5, <1>6, <2>3 DEF Lesser, Greater
    <3>2. SliceStart(frame) = Upto
      BY <1>3, <1>4, <2>1, <2>3, <2>4, <2>7, <3>1 DEF Lesser, Greater
    <3>3. SliceEnd(frame) = Upto'
      BY <1>3, <1>4, <1>7, <2>1, <2>5, <2>7 DEF Lesser, Greater
    <3>4. Upto \in Nat /\ Upto' \in Nat /\ pos <= Upto /\ Upto <= Upto'
      BY <1>3, <1>4, <1>7, <2>1, <2>3, <2>7, <3>1 DEF Lesser, Greater
    <3> QED
      BY <2>2, <3>2, <3>3, <3>4
  <2> QED
    BY <1>3, <2>6, <2>7
<1> QED
  BY <1>3, <1>10, <1>11

\* A frame keeps the window in order.
LEMMA ReadFrameKeeps ==
  ASSUME IndInv, TypeOK', ReadFrame
  PROVE  IndInv'
<1>1. pc = "frames" /\ UNCHANGED <<pc, header, reply, length, pos, sent>>
  BY DEF ReadFrame
<1>2. AnswersAsked' /\ InOrder' /\ AsAnnounced' /\ RangeInFile' /\ PosAtSent'
  BY <1>1 DEF IndInv, AnswersAsked, InOrder, AsAnnounced, RangeInFile, PosAtSent, RangeEnd
<1>3. /\ Upto \in Nat /\ Upto' \in Nat /\ pos <= Upto /\ Upto <= Upto'
      /\ out' = out \o Bytes(Upto, Upto')
  BY SliceIsNext
<1>4. out = Bytes(pos, Upto) /\ pos < RangeEnd /\ pos \in Nat
  BY <1>1 DEF IndInv, WindowInOrder, TypeOK
<1>5. Bytes(pos, Upto) \o Bytes(Upto, Upto') = Bytes(pos, Upto')
  BY <1>3, <1>4, BytesJoin
<1>6. WindowInOrder'
  BY <1>1, <1>3, <1>4, <1>5 DEF WindowInOrder, RangeEnd
<1> QED
  BY <1>2, <1>6 DEF IndInv

\* A window that ends is added to the body; one that has stayed empty means
\* that the file ends there.
LEMMA EndWindowKeeps ==
  ASSUME IndInv, TypeOK', EndWindow
  PROVE  IndInv'
<1>1. /\ pc = "frames" /\ out' = <<>> /\ pos' = pos + Len(out) /\ sent' = sent \o out
      /\ pc' = IF out = <<>> THEN "done" ELSE "windows"
      /\ UNCHANGED <<header, reply, length>>
      /\ ~(frame <= LastFrame /\ frame * Chunk < length)
  BY DEF EndWindow, MoreFrames, HasFrame, FrameStart
<1>2. /\ pos \in Nat /\ WindowEnd \in Nat /\ RangeEnd \in Nat /\ length \in Nat
      /\ frame \in Nat /\ Chunk \in Nat /\ LastFrame \in Nat
      /\ pos < WindowEnd /\ WindowEnd <= RangeEnd
      /\ WindowEnd - 1 < LastFrame * Chunk + Chunk
  BY <1>1, WindowFacts
<1>3. out = Bytes(pos, Upto)
  BY <1>1 DEF IndInv, WindowInOrder
<1>4. frame * Chunk \in Nat /\ LastFrame * Chunk \in Nat
  BY <1>2
<1>5. Upto = Greater(pos, Lesser(WindowEnd, Lesser(frame * Chunk, length)))
  BY DEF Upto, FrameStart
<1>6. Upto \in Nat /\ pos <= Upto /\ Upto <= RangeEnd
  BY <1>2, <1>4, <1>5 DEF Lesser, Greater
<1>7. Len(out) = Upto - pos /\ pos' = Upto
  BY <1>1, <1>2, <1>3, <1>6, BytesType
<1>8. /\ sent' = Bytes(reply.start, Upto)
      /\ Len(sent') = Len(sent) + (Upto - pos)
      /\ Upto = reply.start + Len(sent')
  BY <1>1, <1>3, <1>6, SentJoins
<1>9. InOrder' /\ PosAtSent'
  <2>1. /\ reply.start \in Nat /\ reply.take \in Nat /\ Len(sent') \in Nat
    BY PlaceTypes, <1>2, <1>6, <1>8 DEF IndInv, TypeOK
  <2>2. Len(sent') <= reply.take
    BY <1>6, <1>8, <2>1 DEF RangeEnd
  <2> QED
    BY <1>1, <1>7, <1>8, <2>2 DEF InOrder, PosAtSent
<1>10. ASSUME out = <<>>, length >= reply.total
       PROVE  FALSE
  <2>1. Upto = pos
    BY <1>2, <1>6, <1>7, <1>10
  <2>2. pos < length
    BY <1>2, <1>10, PlaceTypes DEF IndInv, RangeInFile
  <2>3. frame * Chunk <= pos
    BY <1>2, <1>4, <1>5, <2>1, <2>2 DEF Lesser, Greater
  <2>4. LastFrame < frame
    BY <1>1, <1>2, <1>4, <2>2, <2>3
  <2>5. LastFrame * Chunk + Chunk <= frame * Chunk
    BY <1>2, <2>4, FramesApart
  <2> QED
    BY <1>2, <1>4, <2>3, <2>5
<1>11. AsAnnounced'
  BY <1>1, <1>10 DEF AsAnnounced
<1>12. AnswersAsked' /\ RangeInFile' /\ WindowInOrder'
  BY <1>1 DEF IndInv, AnswersAsked, RangeInFile, RangeEnd, WindowInOrder
<1> QED
  BY <1>9, <1>11, <1>12 DEF IndInv

\* Opening the file that is there, breaking off and stuttering touch neither
\* the head nor the body.
LEMMA OthersKeep ==
  ASSUME IndInv, TypeOK', (\E n \in Lengths : Open(n)) \/ BreakOff \/ UNCHANGED vars
  PROVE  IndInv'
<1>1. CASE \E n \in Lengths : Open(n)
  BY <1>1 DEF Open, IndInv, AnswersAsked, InOrder, AsAnnounced, RangeInFile, PosAtSent,
              RangeEnd, WindowInOrder
<1>2. CASE BreakOff
  BY <1>2 DEF BreakOff, Ends, IndInv, AnswersAsked, InOrder, AsAnnounced, RangeInFile,
              PosAtSent, RangeEnd, WindowInOrder
<1>3. CASE UNCHANGED vars
  BY <1>3 DEF vars, IndInv, AnswersAsked, InOrder, AsAnnounced, RangeInFile, PosAtSent,
              RangeEnd, WindowInOrder, Upto, WindowEnd, FrameStart
<1> QED
  BY <1>1, <1>2, <1>3

\* Every step keeps the invariant.
LEMMA IndNext == IndInv /\ [Next]_vars => IndInv'
<1> SUFFICES ASSUME IndInv, [Next]_vars
             PROVE  IndInv'
  OBVIOUS
<1>1. TypeOK'
  BY TypeNext DEF IndInv
<1>2. CASE \E enc \in BOOLEAN, h \in Headers, n \in Lengths : Request(enc, h, n)
  BY <1>1, <1>2, RequestKeeps
<1>3. CASE Serve
  BY <1>1, <1>3, ReadBlockKeeps, EndKeeps, StartWindowKeeps, ReadFrameKeeps, EndWindowKeeps
     DEF Serve
<1>4. CASE (\E n \in Lengths : Open(n)) \/ BreakOff \/ UNCHANGED vars
  BY <1>1, <1>4, OthersKeep
<1> QED
  BY <1>2, <1>3, <1>4 DEF Next

-----------------------------------------------------------------------------
(* Theorems.                                                               *)

\* Head, places and body are of their types at every step of a request.
THEOREM TypeCorrect == Spec => []TypeOK
<1>1. Init => TypeOK
  BY IndInit DEF IndInv
<1> QED
  BY <1>1, TypeNext, PTL DEF Spec

\* The invariant that relates the head, the body, the window and the frame
\* that serve_encrypted has come to.
THEOREM Inductive == Spec => []IndInv
  BY IndInit, IndNext, PTL DEF Spec

\* For every length, parse_range answers bytes=n- and bytes=n-m with the bytes that
\* HTTP says they name, and refuses them only when the file has none of them;
\* without a range it sends the whole file.  (bytes=-n is answered otherwise: see
\* SuffixAnswered.)
THEOREM AnswersAsAsked == Spec => []AnswersAsked
<1>1. IndInv => AnswersAsked
  BY DEF IndInv
<1> QED
  BY <1>1, Inductive, PTL

\* However the body is cut into blocks, windows and frames, with a frame
\* index or without one, it is the range's bytes in order.
THEOREM BodyInOrder == Spec => []InOrder
<1>1. IndInv => InOrder
  BY DEF IndInv
<1> QED
  BY <1>1, Inductive, PTL

\* A body that ends without an error is as long as the head has announced,
\* unless the file became shorter.
THEOREM BodyAsAnnounced == Spec => []AsAnnounced
<1>1. IndInv => AsAnnounced
  BY DEF IndInv
<1> QED
  BY <1>1, Inductive, PTL
=============================================================================
