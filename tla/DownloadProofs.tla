--------------------------- MODULE DownloadProofs ---------------------------
(***************************************************************************)
(* Proofs about module Download, for any versions on the server.           *)
(***************************************************************************)
EXTENDS Download, FiniteSetTheorems, TLAPS

-----------------------------------------------------------------------------
(* Versions, and what the server answers.                                  *)

LEMMA VersionFields ==
  ASSUME NEW v \in Versions
  PROVE  v.path \in Paths /\ v.path # None /\ v.size \in Nat /\ v # None
<1>1. v \in [path : STRING, no : Nat, size : Nat]
  BY DownloadAssumption
<1> QED
  BY <1>1, DownloadAssumption DEF Paths

LEMMA PathsNamed == \A p \in Paths : p # None
  BY VersionFields DEF Paths

\* A request without a range, and one from an offset on, of n bytes.
LEMMA RangeReply ==
  ASSUME NEW n \in Nat
  PROVE  /\ ParseRange(NoRange, n) = Whole(n)
         /\ \A k \in Nat \ {0} :
              ParseRange(From(k), n) = IF n = 0 THEN Whole(n)
                                       ELSE IF k >= n THEN NotSatisfiable(n)
                                       ELSE [status |-> 206, start |-> k, take |-> n - k,
                                             total |-> n]
         /\ n # 0 => ParseRange(Closed(0, 0), n).status = 206
         /\ n = 0 => ParseRange(Closed(0, 0), n).status = 200
         /\ n # 0 => ParseRange(Closed(0, 0), n).total = n
<1>1. ParseRange(NoRange, n) = Whole(n)
  BY DEF ParseRange
<1>2. ASSUME NEW k \in Nat \ {0}
      PROVE  ParseRange(From(k), n) = IF n = 0 THEN Whole(n)
                                       ELSE IF k >= n THEN NotSatisfiable(n)
                                       ELSE [status |-> 206, start |-> k, take |-> n - k,
                                             total |-> n]
  <2>1. From(k) # NoRange /\ First(From(k)) = k /\ Last(From(k), n) = n - 1
    <3>1. From(k) \in Header(Nat)
      BY DEF From, Header
    <3>2. From(k).first = k /\ From(k).last = NoNum /\ k # NoNum
      BY SentinelAssumption DEF From
    <3> QED
      BY <3>1, <3>2, SentinelAssumption DEF First, Last
  <2>2. (n - 1) - k + 1 = n - k
    OBVIOUS
  <2>3. k >= n <=> k > n - 1 \/ k >= n
    OBVIOUS
  <2> QED
    BY <2>1, <2>2, <2>3 DEF ParseRange, Part
<1>3. /\ n # 0 => ParseRange(Closed(0, 0), n).status = 206
      /\ n = 0 => ParseRange(Closed(0, 0), n).status = 200
      /\ n # 0 => ParseRange(Closed(0, 0), n).total = n
  <2>1. /\ Closed(0, 0) # NoRange /\ First(Closed(0, 0)) = 0
        /\ n # 0 => Last(Closed(0, 0), n) = 0
    <3>1. Closed(0, 0) \in Header(Nat)
      BY DEF Closed, Header
    <3>2. Closed(0, 0).first = 0 /\ Closed(0, 0).last = 0 /\ 0 # NoNum
      BY SentinelAssumption DEF Closed
    <3> QED
      BY <3>1, <3>2, SentinelAssumption DEF First, Last, Lesser
  <2> QED
    BY <2>1 DEF ParseRange, Part, Whole
<1> QED
  BY <1>1, <1>2, <1>3

\* The answer to the request that the command sends.
LEMMA AskReply ==
  ASSUME TypeOK, path # None, remote[path] # None
  PROVE  LET reply == Answer(RangeHeader)
             v == remote[path]
         IN  /\ v \in Versions
             /\ reply.status \in {200, 206, 416}
             /\ reply.status = 200 => /\ reply.start = 0 /\ reply.take = v.size
                                      /\ offset = 0 \/ v.size = 0
             /\ reply.status = 206 => /\ reply.start = offset /\ reply.take = v.size - offset
                                      /\ 0 < offset /\ offset < v.size
             /\ reply.status = 416 => /\ reply.total = v.size
                                      /\ 0 < offset /\ v.size <= offset
<1>1. remote[path] \in Versions /\ offset \in Nat
  BY DEF TypeOK
<1>2. PICK n \in Nat : n = remote[path].size
  BY <1>1, VersionFields
<1>3. CASE offset = 0
  <2>1. Answer(RangeHeader) = Whole(n)
    BY <1>2, <1>3, RangeReply DEF Answer, RangeHeader, Size
  <2> QED
    BY <1>1, <1>2, <1>3, <2>1 DEF Whole
<1>4. CASE offset # 0
  <2>1. offset \in Nat \ {0} /\ offset > 0
    BY <1>1, <1>4
  <2>2. Answer(RangeHeader) = ParseRange(From(offset), n)
    BY <1>2, <2>1 DEF Answer, RangeHeader, Size
  <2>3. CASE n = 0
    BY <1>1, <1>2, <2>1, <2>2, <2>3, RangeReply DEF Whole
  <2>4. CASE n # 0 /\ offset >= n
    <3>1. Answer(RangeHeader) = [status |-> 416, start |-> 0, take |-> 0, total |-> n]
      BY <2>1, <2>2, <2>4, RangeReply DEF NotSatisfiable
    <3>2. n <= offset
      BY <2>1, <2>4
    <3> QED
      BY <1>1, <1>2, <2>1, <3>1, <3>2
  <2>5. CASE n # 0 /\ ~(offset >= n)
    <3>1. Answer(RangeHeader) = [status |-> 206, start |-> offset, take |-> n - offset,
                                 total |-> n]
      BY <2>1, <2>2, <2>5, RangeReply
    <3> QED
      BY <1>1, <1>2, <2>1, <2>5, <3>1
  <2> QED
    BY <2>3, <2>4, <2>5
<1> QED
  BY <1>3, <1>4

\* What is left of the part when one version is all that was ever seen.
LEMMA OneVersion ==
  ASSUME TypeOK, PartSeen, part # None, NEW v, seen = {v}
  PROVE  /\ v \in Versions /\ v.size \in Nat /\ Len(part) \in Nat
         /\ Len(part) <= v.size
         /\ \A i \in 1..Len(part) : part[i] = [of |-> v, at |-> i - 1]
         /\ Len(part) = v.size => part = Content(v)
<1>1. v \in Versions /\ v.size \in Nat
  BY VersionFields DEF TypeOK
<1>2. part \in Seq(Byte) /\ Len(part) \in Nat
  BY DEF TypeOK
<1>3. ASSUME NEW i \in 1..Len(part)
      PROVE  part[i] = [of |-> v, at |-> i - 1] /\ i <= v.size
  <2>1. part[i] \in [of : Versions, at : Nat]
    <3>1. part[i] \in Byte
      BY <1>2, <1>3
    <3> QED
      BY <3>1 DEF Byte
  <2>2. part[i].of = v /\ part[i].at = i - 1 /\ i <= v.size
    BY <1>3 DEF PartSeen
  <2> QED
    BY <2>1, <2>2
<1>4. Len(part) <= v.size
  <2>1. CASE Len(part) = 0
    BY <1>1, <2>1
  <2>2. CASE Len(part) # 0
    <3>1. Len(part) \in 1..Len(part)
      BY <1>2, <2>2
    <3> QED
      BY <1>3, <3>1
  <2> QED
    BY <2>1, <2>2
<1>5. ASSUME Len(part) = v.size
      PROVE  part = Content(v)
  <2>1. part = [i \in 1..v.size |-> part[i]]
    BY <1>2, <1>5
  <2> QED
    BY <1>3, <1>5, <2>1 DEF Content
<1> QED
  BY <1>1, <1>2, <1>3, <1>4, <1>5

\* One version was seen, or two of them.
LEMMA OneOrTwo ==
  ASSUME NEW S, S # {}
  PROVE  (\E v : S = {v}) \/ (\E v, w \in S : v # w)
  OBVIOUS

LEMMA OnlyOne ==
  ASSUME NEW S, IsFiniteSet(S), Cardinality(S) = 1
  PROVE  \E v : S = {v}
  BY FS_Singleton
-----------------------------------------------------------------------------
(* The steps.                                                              *)

\* Where the command is, in all the places that the invariant names.
Where == Begun /\ Unmarked /\ Marked /\ Adopted /\ Receiving /\ Judging /\ Discarding
         /\ Promoting

\* Most steps leave alone what is on the server and in the part.
LEMMA Kept ==
  ASSUME RemoteNamed, PartSeen, UNCHANGED <<remote, part, marker, seen>>
  PROVE  RemoteNamed' /\ PartSeen'
  BY DEF RemoteNamed, PartSeen

LEMMA BeginKeeps ==
  ASSUME IndInv, NEW p \in Paths, Begin(p)
  PROVE  IndInv'
<1>1. /\ path' = p /\ p # None /\ UNCHANGED <<remote, part, marker, dest, seen>>
      /\ total' = None /\ body' = None
      /\ \/ pc' = "ask" /\ part # None /\ marker = p /\ offset' = Len(part)
         \/ pc' = "dropPart" /\ ~(part # None /\ marker = p) /\ offset' = 0
  BY PathsNamed DEF Begin, Adopts, Goto, Files
<1>2. part # None => Len(part) \in Nat
  BY DEF IndInv, TypeOK
<1>3. TypeOK'
  BY <1>1, <1>2 DEF IndInv, TypeOK
<1>4. Where'
  BY <1>1 DEF Where, Begun, Unmarked, Marked, Adopted, Receiving, Judging, Discarding, Promoting
<1> QED
  BY <1>1, <1>3, <1>4, Kept DEF IndInv, Where

\* On the server, a version comes or goes.
LEMMA ReplaceKeeps ==
  ASSUME IndInv, NEW p \in Paths, NEW v \in Of(p) \cup {None}, Replace(p, v)
  PROVE  IndInv'
<1> USE DEF IndInv
<1>1. /\ remote' = [remote EXCEPT ![p] = v]
      /\ seen' = IF part # None /\ marker = p /\ v # None THEN seen \cup {v} ELSE seen
      /\ UNCHANGED <<part, marker, dest, pc, path, offset, total, body>>
  BY DEF Replace, Local
<1>2. v # None => v \in Versions /\ v.path = p
  BY DEF Of
<1>3. TypeOK'
  BY <1>1, <1>2 DEF TypeOK
<1>4. seen \subseteq seen'
  BY <1>1
<1>5. RemoteNamed'
  BY <1>1, <1>2 DEF RemoteNamed, TypeOK
<1>6. PartSeen'
  <2>1. IsFiniteSet(seen')
    BY <1>1, FS_AddElement DEF PartSeen
  <2>2. part # None =>
          /\ marker # None /\ marker \in Paths /\ seen' # {}
          /\ \A w \in seen' : w.path = marker
          /\ remote'[marker] # None => remote'[marker] \in seen'
    BY <1>1, <1>2 DEF PartSeen, TypeOK
  <2> QED
    BY <1>1, <1>4, <2>1, <2>2 DEF PartSeen
<1>7. Begun' /\ Unmarked' /\ Marked' /\ Adopted' /\ Judging' /\ Discarding'
  BY <1>1, <1>4 DEF Begun, Unmarked, Marked, Adopted, Judging, Discarding
<1>8. Receiving'
  BY <1>1, <1>4 DEF Receiving
<1>9. Promoting'
  <2> SUFFICES ASSUME pc \in {"clear", "promote"}
               PROVE  part # None /\ \A w \in seen' : seen' = {w} => part = Content(w)
    BY <1>1 DEF Promoting, Content
  <2>1. part # None /\ seen # {} /\ \A w \in seen : seen = {w} => part = Content(w)
    BY DEF Promoting, PartSeen
  <2>2. \A w : seen' = {w} => seen = {w}
    BY <1>4, <2>1
  <2> QED
    BY <2>1, <2>2
<1> QED
  BY <1>3, <1>5, <1>6, <1>7, <1>8, <1>9

LEMMA DropPartKeeps == IndInv /\ DropPart => IndInv'
<1> SUFFICES ASSUME IndInv, DropPart
             PROVE  IndInv'
  OBVIOUS
<1>1. /\ pc = "dropPart" /\ pc' = "dropMarker" /\ part' = None /\ seen' = {}
      /\ UNCHANGED <<remote, marker, dest, path, offset, total, body>>
  BY DEF DropPart, Goto, Local
<1>2. TypeOK' /\ RemoteNamed' /\ PartSeen'
  BY <1>1, FS_EmptySet DEF IndInv, TypeOK, RemoteNamed, PartSeen
<1>3. Where'
  BY <1>1 DEF IndInv, Where, Begun, Unmarked, Marked, Adopted, Receiving, Judging, Discarding,
              Promoting
<1> QED
  BY <1>2, <1>3 DEF IndInv, Where

LEMMA MarkerKeeps == IndInv /\ (DropMarker \/ Mark \/ Unmark) => IndInv'
<1> SUFFICES ASSUME IndInv, DropMarker \/ Mark \/ Unmark
             PROVE  IndInv'
  OBVIOUS
<1>1. CASE DropMarker
  <2>1. /\ pc = "dropMarker" /\ pc' = "mark" /\ marker' = None /\ part = None
        /\ UNCHANGED <<remote, part, dest, seen, path, offset, total, body>>
    BY <1>1 DEF DropMarker, Goto, Local, IndInv, Unmarked
  <2> QED
    BY <2>1 DEF IndInv, TypeOK, RemoteNamed, PartSeen, Begun, Unmarked, Marked, Adopted,
                Receiving, Judging, Discarding, Promoting
<1>2. CASE Mark
  <2>1. /\ pc = "mark" /\ pc' = "ask" /\ marker' = path /\ offset' = 0 /\ part = None
        /\ UNCHANGED <<remote, part, dest, seen, path, total, body>>
    BY <1>2 DEF Mark, Goto, IndInv, Unmarked
  <2>2. TypeOK'
    BY <2>1 DEF IndInv, TypeOK
  <2>3. RemoteNamed' /\ PartSeen'
    BY <2>1 DEF IndInv, RemoteNamed, PartSeen
  <2>4. Where'
    BY <2>1 DEF IndInv, Where, Begun, Unmarked, Marked, Adopted, Receiving, Judging, Discarding,
                Promoting
  <2> QED
    BY <2>2, <2>3, <2>4 DEF IndInv, Where
<1>3. CASE Unmark
  <2>1. /\ pc = "unmark" /\ pc' = "idle" /\ marker' = None /\ part = None
        /\ UNCHANGED <<remote, part, dest, seen, path, offset, total, body>>
    BY <1>3 DEF Unmark, Goto, Local, IndInv, Unmarked
  <2>2. TypeOK' /\ Where'
    BY <2>1 DEF IndInv, TypeOK, Where, Begun, Unmarked, Marked, Adopted, Receiving, Judging,
                Discarding, Promoting
  <2>3. RemoteNamed' /\ PartSeen'
    BY <2>1 DEF IndInv, RemoteNamed, PartSeen
  <2> QED
    BY <2>2, <2>3 DEF IndInv, Where
<1> QED
  BY <1>1, <1>2, <1>3

LEMMA EmptyIsNot == <<>> \in Seq(Byte) /\ <<>> # None /\ Len(<<>>) = 0
<1>1. <<>> \in Seq(Byte) /\ Len(<<>>) = 0
  OBVIOUS
<1> QED
  BY <1>1, DownloadAssumption

LEMMA AskKeeps == IndInv /\ Ask => IndInv'
<1> SUFFICES ASSUME IndInv, Ask
             PROVE  IndInv'
  OBVIOUS
<1> USE DEF IndInv
<1>0. PICK v \in Versions : v = remote[path]
  BY DEF Ask, Begun, TypeOK, RemoteNamed
<1>1. PICK reply :
         /\ reply = Answer(RangeHeader)
         /\ reply.status \in {200, 206}
         /\ part' = IF reply.status = 200 \/ part = None THEN <<>> ELSE part
         /\ seen' = IF reply.status = 200 \/ part = None THEN {v} ELSE seen
         /\ body' = [of |-> v, next |-> reply.start, end |-> reply.start + reply.take]
         /\ reply.status = 200 => reply.start = 0 /\ reply.take = v.size
         /\ reply.status = 206 => /\ reply.start = offset /\ reply.take = v.size - offset
                                  /\ 0 < offset /\ offset < v.size
  <2>1. path # None /\ remote[path] # None
    BY DEF Ask, Begun
  <2> DEFINE a == Answer(RangeHeader)
  <2>2. /\ a.status \in {200, 206}
        /\ a.status = 200 => a.start = 0 /\ a.take = v.size
        /\ a.status = 206 => /\ a.start = offset /\ a.take = v.size - offset
                             /\ 0 < offset /\ offset < v.size
    BY <1>0, <2>1, AskReply DEF Ask
  <2>3. /\ part' = IF a.status = 200 \/ part = None THEN <<>> ELSE part
        /\ seen' = IF a.status = 200 \/ part = None THEN {v} ELSE seen
        /\ body' = [of |-> v, next |-> a.start, end |-> a.start + a.take]
    BY <1>0 DEF Ask
  <2> HIDE DEF a
  <2> QED
    BY <2>2, <2>3 DEF a
<1>2. /\ pc = "ask" /\ pc' = "receive" /\ marker = path /\ path \in Paths /\ path # None
      /\ v.path = path
      /\ offset = IF part = None THEN 0 ELSE Len(part)
      /\ UNCHANGED <<remote, marker, dest, path, offset, total>>
  BY <1>0, <1>1, VersionFields DEF Ask, Goto, Marked, Begun, Adopted, TypeOK, RemoteNamed
<1>3. v.size \in Nat /\ v # None /\ offset \in Nat
  BY VersionFields DEF TypeOK
<1>4. /\ body' = [of |-> v, next |-> IF reply.status = 200 THEN 0 ELSE offset, end |-> v.size]
      /\ reply.status = 206 => part # None /\ offset = Len(part) /\ offset < v.size
  BY <1>1, <1>2, <1>3
<1>5. part' \in Seq(Byte) /\ part' # None /\ v \in seen' /\ seen' \subseteq Versions
  <2>1. CASE reply.status = 200 \/ part = None
    BY <1>1, <2>1, EmptyIsNot
  <2>2. CASE ~(reply.status = 200 \/ part = None)
    BY <1>0, <1>1, <1>2, <1>3, <2>2 DEF TypeOK, PartSeen
  <2> QED
    BY <2>1, <2>2
<1>6. /\ body'.of = v /\ body'.next = Len(part') /\ body'.end = v.size
      /\ body' \in [of : seen', next : Nat, end : Nat] /\ body'.next <= body'.end
  <2>1. CASE reply.status = 200
    BY <1>1, <1>3, <1>4, <1>5, <2>1, EmptyIsNot
  <2>2. CASE reply.status = 206
    BY <1>1, <1>3, <1>4, <1>5, <2>2
  <2> QED
    BY <1>1, <2>1, <2>2
<1>7. TypeOK'
  BY <1>2, <1>5, <1>6 DEF TypeOK
<1>8. PartSeen'
  <2>1. CASE reply.status = 200 \/ part = None
    <3>1. part' = <<>> /\ seen' = {v} /\ IsFiniteSet({v})
      BY <1>1, <2>1, FS_Singleton
    <3> QED
      BY <1>0, <1>1, <1>2, <3>1, EmptyIsNot DEF PartSeen
  <2>2. CASE ~(reply.status = 200 \/ part = None)
    BY <1>1, <1>2, <2>2 DEF PartSeen
  <2> QED
    BY <2>1, <2>2
<1>9. RemoteNamed' /\ Begun' /\ Unmarked' /\ Marked' /\ Adopted' /\ Judging' /\ Discarding'
      /\ Promoting'
  BY <1>2 DEF RemoteNamed, Begun, Unmarked, Marked, Adopted, Judging, Discarding, Promoting
<1>10. Receiving'
  BY <1>5, <1>6 DEF Receiving
<1> QED
  BY <1>7, <1>8, <1>9, <1>10

LEMMA ReceiveKeeps == IndInv /\ Receive => IndInv'
<1> SUFFICES ASSUME IndInv, Receive
             PROVE  IndInv'
  OBVIOUS
<1> USE DEF IndInv
<1>1. /\ pc = "receive" /\ pc' = "receive" /\ part # None
      /\ part' = Append(part, [of |-> body.of, at |-> body.next])
      /\ body' = [body EXCEPT !.next = body.next + 1]
      /\ UNCHANGED <<remote, marker, dest, seen, path, offset, total>>
      /\ body.next < body.end /\ body.next = Len(part) /\ body.end = body.of.size
      /\ body \in [of : seen, next : Nat, end : Nat]
  BY DEF Receive, Receiving
<1>2. PICK v \in seen, n \in Nat, m \in Nat : body = [of |-> v, next |-> n, end |-> m]
  BY <1>1
<1>3. part \in Seq(Byte) /\ Len(part) = n /\ n < m /\ m = v.size /\ v \in Versions
  BY <1>1, <1>2 DEF TypeOK
<1>4. /\ body' = [of |-> v, next |-> n + 1, end |-> m]
      /\ part' = Append(part, [of |-> v, at |-> n])
  BY <1>1, <1>2
<1>5. [of |-> v, at |-> n] \in Byte
  BY <1>3 DEF Byte
<1>6. /\ part' \in Seq(Byte) /\ Len(part') = n + 1
      /\ part'[n + 1] = [of |-> v, at |-> n]
      /\ \A i \in 1..n : part'[i] = part[i]
  BY <1>3, <1>4, <1>5
<1>7. part' # None
  BY <1>6, DownloadAssumption
<1>8. TypeOK'
  BY <1>1, <1>3, <1>4, <1>6 DEF TypeOK
<1>9. PartSeen'
  <2>1. ASSUME NEW i \in 1..Len(part')
        PROVE  part'[i].of \in seen /\ part'[i].at = i - 1 /\ i <= part'[i].of.size
    <3>1. CASE i = n + 1
      <4>1. part'[i].of = v /\ part'[i].at = n
        BY <1>6, <3>1
      <4> QED
        BY <1>3, <3>1, <4>1
    <3>2. CASE i # n + 1
      <4>1. i \in 1..Len(part) /\ part'[i] = part[i]
        BY <1>3, <1>6, <2>1, <3>2
      <4> QED
        BY <1>1, <4>1 DEF PartSeen
    <3> QED
      BY <3>1, <3>2
  <2> QED
    BY <1>1, <2>1 DEF PartSeen
<1>10. Receiving'
  BY <1>1, <1>3, <1>4, <1>6, <1>7 DEF Receiving
<1>11. RemoteNamed' /\ Begun' /\ Unmarked' /\ Marked' /\ Adopted' /\ Judging' /\ Discarding'
       /\ Promoting'
  BY <1>1 DEF RemoteNamed, Begun, Unmarked, Marked, Adopted, Judging, Discarding, Promoting
<1> QED
  BY <1>8, <1>9, <1>10, <1>11

LEMMA EndOfBodyKeeps == IndInv /\ EndOfBody => IndInv'
<1> SUFFICES ASSUME IndInv, EndOfBody
             PROVE  IndInv'
  OBVIOUS
<1> USE DEF IndInv
<1>1. /\ pc = "receive" /\ pc' = "clear" /\ body.next = body.end
      /\ UNCHANGED <<remote, part, marker, dest, seen, path, offset, total, body>>
  BY DEF EndOfBody, Goto, Files, Local
<1>2. /\ part # None /\ body.of \in seen /\ Len(part) = body.of.size
  BY <1>1 DEF Receiving
<1>3. \A v : seen = {v} => part = Content(v)
  BY <1>2, OneVersion
<1>4. Promoting'
  BY <1>1, <1>2, <1>3 DEF Promoting, Content
<1>5. /\ TypeOK' /\ Begun' /\ Unmarked' /\ Marked' /\ Adopted' /\ Receiving' /\ Judging'
      /\ Discarding'
  BY <1>1 DEF TypeOK, Begun, Unmarked, Marked, Adopted, Receiving, Judging, Discarding
<1> QED
  BY <1>1, <1>4, <1>5, Kept

LEMMA RefusedKeeps == IndInv /\ Refused => IndInv'
<1> SUFFICES ASSUME IndInv, Refused
             PROVE  IndInv'
  OBVIOUS
<1> USE DEF IndInv
<1>1. /\ pc = "ask" /\ pc' = "beyond" /\ remote[path] # None
      /\ Answer(RangeHeader).status = 416
      /\ total' = ContentRangeTotal(Answer(RangeHeader))
      /\ UNCHANGED <<remote, part, marker, dest, seen, path, offset, body>>
  BY DEF Refused, Goto, Files
<1>2. path # None /\ path \in Paths /\ marker = path
  BY <1>1 DEF Begun, Marked, TypeOK
<1>3. PICK v \in Versions : /\ v = remote[path]
                            /\ Answer(RangeHeader).total = v.size
                            /\ 0 < offset /\ v.size <= offset
  BY <1>1, <1>2, AskReply
<1>4. total' = None \/ total' = v.size
  BY <1>1, <1>3 DEF ContentRangeTotal
<1>5. part # None /\ offset = Len(part)
  BY <1>1, <1>3 DEF Adopted
<1>6. v \in seen /\ v.size \in Nat
  BY <1>1, <1>2, <1>3, <1>5, VersionFields DEF PartSeen
<1>7. Judging'
  BY <1>1, <1>3, <1>4, <1>5, <1>6 DEF Judging
<1>8. /\ TypeOK' /\ Begun' /\ Unmarked' /\ Marked' /\ Adopted' /\ Receiving' /\ Promoting'
      /\ Discarding'
  BY <1>1, <1>2, <1>4, <1>6 DEF TypeOK, Begun, Unmarked, Marked, Adopted, Receiving, Promoting,
              Discarding
<1> QED
  BY <1>1, <1>7, <1>8, Kept

LEMMA ProbeKeeps == IndInv /\ Probe => IndInv'
<1> SUFFICES ASSUME IndInv, Probe
             PROVE  IndInv'
  OBVIOUS
<1> USE DEF IndInv
<1>1. /\ pc = "beyond" /\ remote[path] # None
      /\ total' = ContentRangeTotal(Answer(Closed(0, 0)))
      /\ pc' = IF total' = None THEN "idle" ELSE "beyond"
      /\ UNCHANGED <<remote, part, marker, dest, seen, path, offset, body>>
  BY DEF Probe, Goto, Files
<1>2. /\ part # None /\ marker = path /\ path # None /\ path \in Paths
  BY <1>1 DEF Judging, Marked, Begun, TypeOK
<1>3. PICK v \in seen : v = remote[path]
  BY <1>1, <1>2 DEF PartSeen
<1>4. v \in Versions /\ v.size \in Nat
  BY <1>3, VersionFields DEF TypeOK
<1>5. total' = None \/ total' = v.size
  <2>1. Answer(Closed(0, 0)) = ParseRange(Closed(0, 0), v.size)
    BY <1>3 DEF Answer, Size
  <2>2. CASE v.size = 0
    BY <1>1, <1>4, <2>1, <2>2, RangeReply DEF ContentRangeTotal
  <2>3. CASE v.size # 0
    BY <1>1, <1>4, <2>1, <2>3, RangeReply DEF ContentRangeTotal
  <2> QED
    BY <2>2, <2>3
<1>6. Judging'
  BY <1>1, <1>3, <1>5 DEF Judging
<1>7. /\ TypeOK' /\ Begun' /\ Unmarked' /\ Marked' /\ Adopted' /\ Receiving' /\ Promoting'
      /\ Discarding'
  BY <1>1, <1>2, <1>4, <1>5 DEF TypeOK, Begun, Unmarked, Marked, Adopted, Receiving, Promoting,
              Discarding
<1> QED
  BY <1>1, <1>6, <1>7, Kept

\* At the end of a part of the only version there was, that version ends.
LEMMA Judged ==
  ASSUME IndInv, pc = "beyond", total # None, NEW v, seen = {v}
  PROVE  total = offset /\ total = v.size /\ part = Content(v)
<1>1. part # None /\ offset = Len(part) /\ v.size <= offset /\ total = v.size
  BY DEF IndInv, Judging
<1>2. Len(part) <= v.size /\ v.size \in Nat /\ Len(part) \in Nat
      /\ (Len(part) = v.size => part = Content(v))
  BY <1>1, OneVersion DEF IndInv
<1> QED
  BY <1>1, <1>2

LEMMA JudgePartKeeps == IndInv /\ JudgePart => IndInv'
<1> SUFFICES ASSUME IndInv, JudgePart
             PROVE  IndInv'
  OBVIOUS
<1>1. /\ pc = "beyond" /\ total # None
      /\ pc' = IF total = offset THEN "clear" ELSE "dropPart"
      /\ UNCHANGED <<remote, part, marker, dest, seen, path, offset, total, body>>
  BY DEF JudgePart, Goto, Files, Local
<1>2. part # None /\ seen # {}
  BY <1>1 DEF IndInv, Judging, PartSeen
<1>3. \A v : seen = {v} => total = offset /\ part = Content(v)
  BY <1>1, Judged
<1>4. total # offset => \E v, w \in seen : v # w
  BY <1>2, <1>3, OneOrTwo
<1>5. Promoting' /\ Discarding'
  BY <1>1, <1>2, <1>3, <1>4 DEF Promoting, Discarding, Content
<1>6. /\ TypeOK' /\ Begun' /\ Unmarked' /\ Marked' /\ Adopted' /\ Receiving' /\ Judging'
  BY <1>1 DEF IndInv, TypeOK, Begun, Unmarked, Marked, Adopted, Receiving, Judging
<1> QED
  BY <1>1, <1>5, <1>6, Kept DEF IndInv

LEMMA EndKeeps == IndInv /\ (ClearDest \/ Promote \/ GiveUp \/ UNCHANGED vars) => IndInv'
<1> SUFFICES ASSUME IndInv, ClearDest \/ Promote \/ GiveUp \/ UNCHANGED vars
             PROVE  IndInv'
  OBVIOUS
<1> USE DEF IndInv
<1>1. CASE ClearDest
  <2>1. /\ pc = "clear" /\ pc' = "promote" /\ dest' = None
        /\ UNCHANGED <<remote, part, marker, seen, path, offset, total, body>>
    BY <1>1 DEF ClearDest, Goto, Local
  <2>2. TypeOK' /\ Where'
    BY <2>1 DEF TypeOK, Where, Begun, Unmarked, Marked, Adopted, Receiving, Judging, Discarding,
                Promoting, Content
  <2> QED
    BY <2>1, <2>2, Kept DEF Where
<1>2. CASE Promote
  <2>1. /\ pc = "promote" /\ pc' = "unmark" /\ dest' = part /\ part' = None /\ seen' = {}
        /\ UNCHANGED <<remote, marker, path, offset, total, body>>
    BY <1>2 DEF Promote, Goto, Local
  <2>2. TypeOK' /\ Where'
    BY <2>1 DEF TypeOK, Where, Begun, Unmarked, Marked, Adopted, Receiving, Judging, Discarding,
                Promoting, Content
  <2>3. RemoteNamed' /\ PartSeen'
    BY <2>1, FS_EmptySet DEF RemoteNamed, PartSeen
  <2> QED
    BY <2>2, <2>3 DEF Where
<1>3. CASE GiveUp
  <2>1. /\ pc' = "idle"
        /\ UNCHANGED <<remote, part, marker, dest, seen, path, offset, total, body>>
    BY <1>3 DEF GiveUp, Goto, Files, Local
  <2>2. TypeOK' /\ Where'
    BY <2>1 DEF TypeOK, Where, Begun, Unmarked, Marked, Adopted, Receiving, Judging, Discarding,
                Promoting, Content
  <2> QED
    BY <2>1, <2>2, Kept DEF Where
<1>4. CASE UNCHANGED vars
  <2>1. UNCHANGED <<remote, part, marker, dest, seen, pc, path, offset, total, body>>
    BY <1>4 DEF vars
  <2>2. TypeOK' /\ Where'
    BY <2>1 DEF TypeOK, Where, Begun, Unmarked, Marked, Adopted, Receiving, Judging, Discarding,
                Promoting, Content
  <2> QED
    BY <2>1, <2>2, Kept DEF Where
<1> QED
  BY <1>1, <1>2, <1>3, <1>4
-----------------------------------------------------------------------------
(* The theorems.                                                           *)

LEMMA InitInv == Init => IndInv
<1> SUFFICES ASSUME Init
             PROVE  IndInv
  OBVIOUS
<1>1. TypeOK
  BY DEF Init, TypeOK
<1>2. RemoteNamed /\ PartSeen
  BY FS_EmptySet DEF Init, RemoteNamed, PartSeen
<1>3. Where
  BY DEF Init, Where, Begun, Unmarked, Marked, Adopted, Receiving, Judging, Discarding, Promoting
<1> QED
  BY <1>1, <1>2, <1>3 DEF IndInv, Where

LEMMA NextInv == IndInv /\ [Next]_vars => IndInv'
  BY BeginKeeps, ReplaceKeeps, DropPartKeeps, MarkerKeeps, AskKeeps, ReceiveKeeps,
     EndOfBodyKeeps, RefusedKeeps, ProbeKeeps, JudgePartKeeps, EndKeeps DEF Next, Work

\* The invariant that carries the others: of which versions the part is, and
\* what the command knows of it at each of its steps.
THEOREM Inductive == Spec => []IndInv
  BY InitInv, NextInv, PTL DEF Spec

\* After a kill at any moment, and runs that got something else: the bytes in
\* the part are bytes of the path in its marker, each at its offset (download).
THEOREM MarkerTrue == Spec => []PartOfMarked
<1>1. IndInv => PartOfMarked
  BY DEF IndInv, PartSeen, PartOfMarked
<1> QED
  BY <1>1, Inductive, PTL

\* What is renamed to the destination is the whole of the only version there
\* was since the part was begun (promote_part).
THEOREM WholeSaved == Spec => []SavesWhole
<1>1. IndInv => SavesWhole
  <2> SUFFICES ASSUME IndInv, pc \in {"clear", "promote"}, Cardinality(seen) = 1
               PROVE  \E v \in seen : part = Content(v)
    BY DEF SavesWhole
  <2>1. PICK v : seen = {v}
    BY OnlyOne DEF IndInv, PartSeen
  <2> QED
    BY <2>1 DEF IndInv, Promoting
<1> QED
  BY <1>1, Inductive, PTL

\* Nothing that was received of an unchanged remote file is thrown away, in any
\* run for that file and at any failure, except into the destination.
THEOREM NothingLost == Spec => ProgressKept
<1>1. IndInv /\ [Next]_vars =>
         (part # None /\ marker = path /\ Cardinality(seen) = 1 =>
            \/ part' # None /\ Len(part') >= Len(part)
            \/ dest' = part)
  <2> SUFFICES ASSUME IndInv, [Next]_vars, part # None, marker = path, Cardinality(seen) = 1
               PROVE  \/ part' # None /\ Len(part') >= Len(part)
                      \/ dest' = part
    OBVIOUS
  <2> USE DEF IndInv
  <2>1. PICK v : seen = {v}
    BY OnlyOne DEF PartSeen
  <2>2. part \in Seq(Byte) /\ Len(part) \in Nat /\ Len(part) <= v.size /\ v.size \in Nat
    <3>1. part \in Seq(Byte)
      BY DEF TypeOK
    <3> QED
      BY <2>1, <3>1, OneVersion
  <2>3. CASE part' = part
    BY <2>2, <2>3
  <2>4. CASE Ask
    <3>1. pc = "ask" /\ offset = Len(part) /\ path # None /\ remote[path] # None
      BY <2>4 DEF Ask, Adopted, Begun
    <3>2. remote[path] = v
      BY <2>1, <3>1 DEF PartSeen
    <3>3. Answer(RangeHeader).status = 200 => Len(part) = 0
      BY <2>2, <3>1, <3>2, AskReply
    <3> QED
      BY <2>2, <2>4, <3>3, EmptyIsNot DEF Ask
  <2>5. CASE Receive
    <3>1. part' = Append(part, [of |-> body.of, at |-> body.next])
      BY <2>5 DEF Receive
    <3>2. [of |-> body.of, at |-> body.next] \in Byte
      BY <2>5 DEF Receive, Receiving, TypeOK, Byte
    <3>3. part' \in Seq(Byte) /\ Len(part') = Len(part) + 1
      BY <2>2, <3>1, <3>2
    <3> QED
      BY <2>2, <3>3, DownloadAssumption
  <2>6. ~DropPart
    BY <2>1 DEF DropPart, Discarding
  <2>7. CASE Promote
    BY <2>7 DEF Promote
  <2>8. part' = part \/ Ask \/ Receive \/ DropPart \/ Promote
    BY DEF Next, Work, Begin, Replace, DropMarker, Mark, EndOfBody, Refused, Probe, JudgePart,
           ClearDest, Unmark, GiveUp, Files, vars
  <2> QED
    BY <2>3, <2>4, <2>5, <2>6, <2>7, <2>8
<1> QED
  BY <1>1, Inductive, PTL DEF Spec, ProgressKept
=============================================================================
