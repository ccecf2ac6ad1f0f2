------------------------- MODULE SealedFilesProofs -------------------------
(***************************************************************************)
(* Proofs about module SealedFiles: any paths, versions and clients, any    *)
(* frame size and overhead.                                                *)
(***************************************************************************)
EXTENDS SealedFiles, Integers, TLAPS

-----------------------------------------------------------------------------
(* Frames and sizes.                                                       *)

\* One more times b is b more.
LEMMA Multiples ==
  ASSUME NEW b \in Nat \ {0}, NEW q \in Nat, NEW k \in Nat, q < k
  PROVE  q * b + b <= k * b
<1>1. PICK d \in Nat : k = q + 1 + d
  <2>1. k - q - 1 \in Nat /\ k = q + 1 + (k - q - 1)
    OBVIOUS
  <2> QED
    BY <2>1
<1>2. k * b = q * b + b + d * b
  BY <1>1
<1>3. d * b \in Nat /\ q * b \in Nat
  OBVIOUS
<1> QED
  BY <1>2, <1>3

\* Quotient and remainder are unique.
LEMMA DivMod ==
  ASSUME NEW b \in Nat \ {0}, NEW q \in Nat, NEW r \in Nat, r < b
  PROVE  (q * b + r) \div b = q /\ (q * b + r) % b = r
<1> DEFINE a == q * b + r
           k == a \div b
           s == a % b
<1>1. q * b \in Nat /\ a \in Nat
  OBVIOUS
<1>2. k \in Nat /\ s \in Nat /\ s < b /\ a = k * b + s
  BY <1>1
<1> HIDE DEF a, k, s
<1>3. ~(q < k)
  BY <1>2, Multiples DEF a
<1>4. ~(k < q)
  <2>1. SUFFICES ASSUME k < q PROVE FALSE
    OBVIOUS
  <2>2. k * b + b <= q * b
    BY <1>2, <2>1, Multiples
  <2>3. k * b \in Nat
    BY <1>2
  <2> QED
    BY <1>1, <1>2, <2>2, <2>3 DEF a
<1>5. k = q
  BY <1>2, <1>3, <1>4
<1>6. s = r
  BY <1>1, <1>2, <1>5 DEF a
<1> QED
  BY <1>5, <1>6 DEF a, k, s

\* The size that a reader infers from the length of the frames, when the size
\* sidecar is missing, is the size that was sealed.
LEMMA SizeInferred ==
  ASSUME NEW v \in Versions
  PROVE  InferredSize(BodyLen(v)) = v.size
<1> DEFINE n == v.size
           q == (n - 1) \div Chunk
           r == (n - 1) % Chunk
           frame == Chunk + Overhead
<1>1. n \in Nat \ {0} /\ Chunk \in Nat \ {0} /\ Overhead \in Nat \ {0}
  BY SealedAssumption
<1> HIDE DEF n
<1>2. q \in Nat /\ r \in Nat /\ r < Chunk /\ n - 1 = q * Chunk + r /\ frame \in Nat \ {0}
  <2>1. PICK l \in Nat : l = n - 1
    BY <1>1
  <2>2. l \div Chunk \in Nat /\ l % Chunk \in Nat /\ l % Chunk < Chunk
        /\ l = (l \div Chunk) * Chunk + (l % Chunk)
    BY <1>1, <2>1
  <2> QED
    BY <1>1, <2>1, <2>2
<1> HIDE DEF q, r, frame
<1>3. q * Chunk \in Nat /\ q * Overhead \in Nat /\ q * frame = q * Chunk + q * Overhead
  BY <1>1, <1>2 DEF frame
<1>4. Frames(n) = q + 1
  <2>1. n + Chunk - 1 = (q + 1) * Chunk + r
    BY <1>1, <1>2, <1>3
  <2>2. q + 1 \in Nat
    BY <1>2
  <2> QED
    BY <1>1, <1>2, <2>1, <2>2, DivMod DEF Frames
<1>5. BodyLen(v) = q * frame + (r + 1 + Overhead)
  <2>1. BodyLen(v) = n + (q + 1) * Overhead
    BY <1>4 DEF BodyLen, n
  <2>2. (q + 1) * Overhead = q * Overhead + Overhead
    BY <1>1, <1>2
  <2> QED
    BY <1>1, <1>2, <1>3, <2>1, <2>2
<1>6. CASE r + 1 < Chunk
  <2>1. PICK rest \in Nat : rest = r + 1 + Overhead
    BY <1>1, <1>2
  <2>2. rest < frame
    BY <1>1, <1>2, <1>6, <2>1 DEF frame
  <2>3. BodyLen(v) = q * frame + rest
    BY <1>5, <2>1
  <2>4. BodyLen(v) \div frame = q /\ BodyLen(v) % frame = rest
    BY <1>2, <2>2, <2>3, DivMod
  <2>5. rest > Overhead /\ rest - Overhead = r + 1
    BY <1>1, <1>2, <2>1
  <2>6. InferredSize(BodyLen(v)) = q * Chunk + (r + 1)
    BY <2>4, <2>5 DEF InferredSize, frame
  <2> QED
    BY <1>1, <1>2, <1>3, <2>6 DEF n
<1>7. CASE r + 1 = Chunk
  <2>1. BodyLen(v) = (q + 1) * frame + 0
    BY <1>1, <1>2, <1>3, <1>5, <1>7 DEF frame
  <2>2. BodyLen(v) \div frame = q + 1 /\ BodyLen(v) % frame = 0
    BY <1>2, <2>1, DivMod
  <2>3. InferredSize(BodyLen(v)) = (q + 1) * Chunk + 0
    BY <1>1, <2>2 DEF InferredSize, frame
  <2>4. (q + 1) * Chunk = q * Chunk + Chunk
    BY <1>1, <1>2
  <2> QED
    BY <1>1, <1>2, <1>3, <1>7, <2>3, <2>4 DEF n
<1> QED
  BY <1>1, <1>2, <1>6, <1>7
-----------------------------------------------------------------------------
(* The state, and what the parts of an action do to it.                    *)

Ops == Seal \cup Delete \cup Move \cup Read \cup {None}

\* What a client is doing tells what it remembers.
LEMMA OpIs ==
  ASSUME TypeOK, NEW c \in Clients
  PROVE  /\ Doing(c, "seal") => op[c] \in Seal
         /\ Doing(c, "delete") => op[c] \in Delete
         /\ Doing(c, "move") => op[c] \in Move
         /\ Doing(c, "read") => op[c] \in Read
  BY DEF Doing, TypeOK, Seal, Delete, Move, Read

\* One file changes.
LEMMA SetIs ==
  ASSUME TypeOK, NEW p \in Paths, NEW k \in Kinds, NEW v \in Versions \cup {None}, Set(p, k, v)
  PROVE  /\ disk' \in [Paths -> [Kinds -> Versions \cup {None}]]
         /\ disk'[p][k] = v
         /\ \A q \in Paths, j \in Kinds : q # p \/ j # k => disk'[q][j] = disk[q][j]
  BY DEF Set, TypeOK

\* One file moves.
LEMMA RenameType ==
  ASSUME TypeOK, NEW p \in Paths, NEW q \in Paths, NEW k \in Kinds, Rename(k, p, q)
  PROVE  disk' \in [Paths -> [Kinds -> Versions \cup {None}]]
<1>1. disk[p][k] \in Versions \cup {None}
  BY DEF TypeOK
<1> QED
  BY <1>1 DEF Rename, TypeOK

LEMMA RenameIs ==
  ASSUME TypeOK, NEW p \in Paths, NEW q \in Paths, NEW k \in Kinds, p # q, Rename(k, p, q)
  PROVE  /\ disk' \in [Paths -> [Kinds -> Versions \cup {None}]]
         /\ disk'[q][k] = disk[p][k] /\ disk'[p][k] = None
         /\ \A x \in Paths, j \in Kinds : x \notin {p, q} \/ j # k => disk'[x][j] = disk[x][j]
<1>1. PICK v \in Versions \cup {None} : v = disk[p][k]
  BY DEF TypeOK
<1>2. disk' = [disk EXCEPT ![q][k] = v, ![p][k] = None]
  BY <1>1 DEF Rename
<1>3. disk'[q] = [disk[q] EXCEPT ![k] = v] /\ disk'[p] = [disk[p] EXCEPT ![k] = None]
      /\ \A x \in Paths \ {p, q} : disk'[x] = disk[x]
  BY <1>2 DEF TypeOK
<1> QED
  BY <1>1, <1>3, RenameType DEF TypeOK

\* The other clients are not concerned.
OthersWait(c) == \A d \in Clients \ {c} : op'[d] = op[d]

LEMMA DoneIs ==
  ASSUME TypeOK, NEW c \in Clients, op' = [op EXCEPT ![c] = None]
  PROVE  op' \in [Clients -> Ops] /\ op'[c] = None /\ OthersWait(c)
  BY DEF TypeOK, Ops, OthersWait

LEMMA PutIs ==
  ASSUME TypeOK, NEW c \in Clients, NEW r \in Ops, op' = [op EXCEPT ![c] = r]
  PROVE  op' \in [Clients -> Ops] /\ op'[c] = r /\ OthersWait(c)
  BY DEF TypeOK, Ops, OthersWait

\* A request goes on, and remembers the same.
LEMMA SealGoto ==
  ASSUME TypeOK, NEW c \in Clients, Doing(c, "seal"),
         NEW pc \in Kinds \cup {"dropIdx", "dropMeta", "abort"}, Goto(c, pc)
  PROVE  /\ op' \in [Clients -> Ops] /\ OthersWait(c) /\ torn' = torn
         /\ op'[c] \in Seal /\ op'[c] # None /\ op'[c].does = "seal" /\ op'[c].pc = pc
         /\ op'[c].path = op[c].path /\ op'[c].file = op[c].file
<1>1. op[c] \in Seal
  BY OpIs
<1>2. PICK r : r = [op[c] EXCEPT !.pc = pc]
  OBVIOUS
<1>3. /\ r \in Seal /\ r.does = "seal" /\ r.pc = pc
      /\ r.path = op[c].path /\ r.file = op[c].file
  BY <1>1, <1>2 DEF Seal
<1>4. op' = [op EXCEPT ![c] = r] /\ torn' = torn
  BY <1>2 DEF Goto
<1> QED
  BY <1>3, <1>4, PutIs, SealedAssumption DEF Ops

LEMMA DeleteGoto ==
  ASSUME TypeOK, NEW c \in Clients, Doing(c, "delete"), NEW pc \in Kinds, Goto(c, pc)
  PROVE  /\ op' \in [Clients -> Ops] /\ OthersWait(c) /\ torn' = torn
         /\ op'[c] \in Delete /\ op'[c] # None /\ op'[c].does = "delete" /\ op'[c].pc = pc
         /\ op'[c].path = op[c].path
<1>1. op[c] \in Delete
  BY OpIs
<1>2. PICK r : r = [op[c] EXCEPT !.pc = pc]
  OBVIOUS
<1>3. r \in Delete /\ r.does = "delete" /\ r.pc = pc /\ r.path = op[c].path
  BY <1>1, <1>2 DEF Delete
<1>4. op' = [op EXCEPT ![c] = r] /\ torn' = torn
  BY <1>2 DEF Goto
<1> QED
  BY <1>3, <1>4, PutIs, SealedAssumption DEF Ops

LEMMA MoveGoto ==
  ASSUME TypeOK, NEW c \in Clients, Doing(c, "move"),
         NEW pc \in {"cipher", "sidecars", "undo", "undoMeta"},
         op' = [op EXCEPT ![c].pc = pc]
  PROVE  /\ op' \in [Clients -> Ops] /\ OthersWait(c)
         /\ op'[c] \in Move /\ op'[c] # None /\ op'[c].does = "move" /\ op'[c].pc = pc
         /\ op'[c].path = op[c].path /\ op'[c].dst = op[c].dst
         /\ op'[c].todo = op[c].todo /\ op'[c].moved = op[c].moved
<1>1. op[c] \in Move
  BY OpIs
<1>2. PICK r : r = [op[c] EXCEPT !.pc = pc]
  OBVIOUS
<1>3. /\ r \in Move /\ r.does = "move" /\ r.pc = pc /\ r.path = op[c].path
      /\ r.dst = op[c].dst /\ r.todo = op[c].todo /\ r.moved = op[c].moved
  BY <1>1, <1>2 DEF Move
<1>4. op' = [op EXCEPT ![c] = r]
  BY <1>2
<1>5. r \in Ops /\ r # None
  BY <1>3, SealedAssumption DEF Ops
<1>6. op' \in [Clients -> Ops] /\ op'[c] = r /\ OthersWait(c)
  BY <1>4, <1>5, PutIs
<1> QED
  BY <1>3, <1>5, <1>6

\* Readers whose path is written to learn nothing else.
LEMMA DisturbedIs ==
  ASSUME TypeOK, NEW p, NEW c \in Clients
  PROVE  /\ Disturbed(p)[c] \in Ops
         /\ Disturbed(p)[c] # op[c] =>
               /\ Doing(c, "read") /\ op[c].path = p /\ Disturbed(p)[c] # None
               /\ Disturbed(p)[c] \in Read /\ Disturbed(p)[c].alone = FALSE
         /\ Doing(c, "read") /\ op[c].path = p => Disturbed(p)[c].alone = FALSE
<1>1. CASE Doing(c, "read") /\ op[c].path = p
  <2>1. op[c] \in Read
    BY <1>1, OpIs
  <2>2. [op[c] EXCEPT !.alone = FALSE] \in Read /\ [op[c] EXCEPT !.alone = FALSE].alone = FALSE
    BY <2>1 DEF Read
  <2>3. Disturbed(p)[c] = [op[c] EXCEPT !.alone = FALSE]
    BY <1>1 DEF Disturbed
  <2> QED
    BY <1>1, <2>2, <2>3, SealedAssumption DEF Ops
<1>2. CASE ~(Doing(c, "read") /\ op[c].path = p)
  BY <1>2 DEF Disturbed, TypeOK, Ops
<1> QED
  BY <1>1, <1>2
LEMMA DisturbedSplits ==
  ASSUME TypeOK, NEW p, NEW d \in Clients, op'[d] = Disturbed(p)[d]
  PROVE  \/ op'[d] = op[d] /\ ~(Doing(d, "read") /\ op[d].path = p /\ op[d].alone)
         \/ Doing(d, "read") /\ Doing(d, "read")' /\ ~op'[d].alone
<1>0. /\ Disturbed(p)[d] # op[d] =>
            /\ Doing(d, "read") /\ Disturbed(p)[d] # None
            /\ Disturbed(p)[d] \in Read /\ Disturbed(p)[d].alone = FALSE
      /\ Doing(d, "read") /\ op[d].path = p => Disturbed(p)[d].alone = FALSE
  BY DisturbedIs
<1>1. CASE op'[d] = op[d]
  <2>1. Doing(d, "read") /\ op[d].path = p => op[d].alone = FALSE
    BY <1>0, <1>1, Zenon
  <2> QED
    BY <1>1, <2>1, Zenon
<1>2. CASE op'[d] # op[d]
  <2>1. Doing(d, "read") /\ op'[d] # None /\ op'[d] \in Read /\ op'[d].alone = FALSE
    BY <1>0, <1>2, Zenon
  <2>2. Doing(d, "read")'
    BY <2>1 DEF Doing, Read
  <2> QED
    BY <2>1, <2>2, Zenon
<1> QED
  BY <1>1, <1>2

-----------------------------------------------------------------------------
(* The start of a request.                                                 *)

LEMMA StartSealIs ==
  ASSUME TypeOK, NEW c \in Clients, NEW p \in Paths, NEW v \in Versions, StartSeal(c, p, v)
  PROVE  /\ disk' = disk /\ torn' = torn
         /\ op' \in [Clients -> Ops]
         /\ op[c] = None /\ "seal" \in Makes[c]
         /\ \A d \in Clients : ~(Doing(d, "seal") /\ op[d].path = p)
         /\ op'[c] # None /\ op'[c].does = "seal" /\ op'[c].pc = "cipher"
         /\ op'[c].path = p /\ op'[c].file = v
         /\ \A d \in Clients \ {c} : op'[d] = Disturbed(p)[d]
<1> DEFINE r == [does |-> "seal", pc |-> "cipher", path |-> p, file |-> v]
<1>1. /\ r \in Seal /\ r.does = "seal" /\ r.pc = "cipher" /\ r.path = p /\ r.file = v
  BY DEF Seal, Kinds
<1>2. r \in Ops /\ r # None
  BY <1>1, SealedAssumption DEF Ops
<1>3. op' = [Disturbed(p) EXCEPT ![c] = r]
  BY DEF StartSeal
<1> HIDE DEF r
<1>4. Disturbed(p) \in [Clients -> Ops]
  <2>1. \A d \in Clients : Disturbed(p)[d] \in Ops
    BY DisturbedIs
  <2> QED
    BY <2>1 DEF Disturbed
<1>5. op' \in [Clients -> Ops] /\ op'[c] = r /\ \A d \in Clients \ {c} : op'[d] = Disturbed(p)[d]
  BY <1>2, <1>3, <1>4
<1> QED
  BY <1>1, <1>2, <1>5 DEF StartSeal, Starts

LEMMA StartDeleteIs ==
  ASSUME TypeOK, NEW c \in Clients, NEW p \in Paths, StartDelete(c, p)
  PROVE  /\ disk' = disk /\ torn' = torn
         /\ op' \in [Clients -> Ops] /\ OthersWait(c)
         /\ op[c] = None /\ "delete" \in Makes[c]
         /\ op'[c] # None /\ op'[c].does = "delete" /\ op'[c].pc = "cipher" /\ op'[c].path = p
<1> DEFINE r == [does |-> "delete", pc |-> "cipher", path |-> p]
<1>1. r \in Delete /\ r.does = "delete" /\ r.pc = "cipher" /\ r.path = p
  BY DEF Delete, Kinds
<1>2. r \in Ops /\ r # None
  BY <1>1, SealedAssumption DEF Ops
<1>3. op' = [op EXCEPT ![c] = r]
  BY DEF StartDelete
<1> HIDE DEF r
<1>4. op' \in [Clients -> Ops] /\ op'[c] = r /\ OthersWait(c)
  BY <1>2, <1>3, PutIs
<1> QED
  BY <1>1, <1>2, <1>4 DEF StartDelete, Starts

LEMMA StartMoveIs ==
  ASSUME TypeOK, NEW c \in Clients, NEW p \in Paths, NEW q \in Paths, StartMove(c, p, q)
  PROVE  /\ disk' = disk /\ torn' = torn
         /\ op' \in [Clients -> Ops]
         /\ op[c] = None /\ "move" \in Makes[c]
         /\ p # q /\ disk[p].cipher # None /\ disk[q].cipher = None
         /\ op'[c] # None /\ op'[c].does = "move" /\ op'[c].pc = "cipher"
         /\ op'[c].path = p /\ op'[c].dst = q /\ op'[c].moved = {}
         /\ op'[c].todo = {k \in Sidecars : disk[p][k] # None}
         /\ \A k \in op'[c].todo : disk[q][k] = None
         /\ \A d \in Clients \ {c} : op'[d] = Disturbed(q)[d]
<1> DEFINE found == {k \in Sidecars : disk[p][k] # None}
           r == [does |-> "move", pc |-> "cipher", path |-> p, dst |-> q,
                 todo |-> found, moved |-> {}]
<1>1. found \in SUBSET Sidecars
  OBVIOUS
<1>2. op' = [Disturbed(q) EXCEPT ![c] = r] /\ \A k \in found : disk[q][k] = None
  BY DEF StartMove
<1>3. /\ r \in Move /\ r.does = "move" /\ r.pc = "cipher" /\ r.path = p /\ r.dst = q
      /\ r.moved = {} /\ r.todo = found
  <2> HIDE DEF found
  <2> QED
    BY <1>1 DEF Move
<1>4. r \in Ops /\ r # None
  BY <1>3, SealedAssumption DEF Ops
<1> HIDE DEF r
<1>5. Disturbed(q) \in [Clients -> Ops]
  <2>1. \A d \in Clients : Disturbed(q)[d] \in Ops
    BY DisturbedIs
  <2> QED
    BY <2>1 DEF Disturbed
<1>6. op' \in [Clients -> Ops] /\ op'[c] = r /\ \A d \in Clients \ {c} : op'[d] = Disturbed(q)[d]
  BY <1>2, <1>4, <1>5
<1> QED
  BY <1>2, <1>3, <1>4, <1>6 DEF StartMove, Starts

LEMMA StartReadIs ==
  ASSUME TypeOK, NEW c \in Clients, NEW p \in Paths, StartRead(c, p)
  PROVE  /\ disk' = disk /\ torn' = torn
         /\ op' \in [Clients -> Ops] /\ OthersWait(c)
         /\ op[c] = None
         /\ disk[p].cipher # None
         /\ op'[c] # None /\ op'[c].does = "read" /\ op'[c].pc = "meta" /\ op'[c].path = p
         /\ op'[c].first = disk[p].cipher /\ op'[c].file = disk[p].cipher
         /\ op'[c].alone => p \notin torn /\ \A d \in Clients : ~PutsAt(d, p)
<1>1. PICK v \in Versions : v = disk[p].cipher
  BY DEF StartRead, TypeOK, Kinds
<1>2. PICK b \in BOOLEAN : b <=> (p \notin torn /\ \A d \in Clients : ~PutsAt(d, p))
  OBVIOUS
<1> DEFINE r == [does |-> "read", pc |-> "meta", path |-> p, first |-> v, file |-> v,
                 total |-> 0, size |-> 0, index |-> None,
                 alone |-> p \notin torn /\ \A d \in Clients : ~PutsAt(d, p)]
           s == [does |-> "read", pc |-> "meta", path |-> p, first |-> v, file |-> v,
                 total |-> 0, size |-> 0, index |-> None, alone |-> b]
<1>3. /\ s \in Read /\ s.does = "read" /\ s.pc = "meta" /\ s.path = p /\ s.first = v
      /\ s.file = v /\ s.alone = b
  BY DEF Read
<1>4. op' = [op EXCEPT ![c] = r]
  BY <1>1 DEF StartRead
<1>5. r = s
  <2>1. (p \notin torn /\ \A d \in Clients : ~PutsAt(d, p)) \in BOOLEAN
    OBVIOUS
  <2>2. (p \notin torn /\ \A d \in Clients : ~PutsAt(d, p)) = b
    BY <1>2, <2>1, Zenon
  <2> QED
    BY <2>2, Zenon
<1>6. s \in Ops /\ s # None
  BY <1>3, SealedAssumption DEF Ops
<1>7. op' = [op EXCEPT ![c] = s]
  BY <1>4, <1>5, Zenon
<1> HIDE DEF r, s
<1>8. op' \in [Clients -> Ops] /\ op'[c] = s /\ OthersWait(c)
  BY <1>6, <1>7, PutIs
<1>9. op'[c].alone => p \notin torn /\ \A d \in Clients : ~PutsAt(d, p)
  BY <1>2, <1>3, <1>8
<1> QED
  BY <1>1, <1>3, <1>6, <1>8, <1>9 DEF StartRead, Starts
-----------------------------------------------------------------------------
(* Readers.                                                                *)

\* The sizes that a reader may believe.
LEMMA BelievedIs ==
  ASSUME NEW v \in Versions, NEW m \in Versions \cup {None}
  PROVE  /\ BelievedSize(v, m) \in Sizes
         /\ m \in {None, v} => BelievedSize(v, m) = v.size
  BY SizeInferred DEF BelievedSize, Sizes

LEMMA KeptIs ==
  ASSUME NEW i \in Versions \cup {None}, NEW size
  PROVE  KeptIndex(i, size) \in {None, i}
  BY DEF KeptIndex

LEMMA ReadIs ==
  ASSUME TypeOK, NEW c \in Clients, ReadStep(c)
  PROVE  /\ disk' = disk /\ torn' = torn
         /\ op' \in [Clients -> Ops] /\ OthersWait(c)
         /\ op[c] # None /\ op[c].does = "read"
         /\ \/ op'[c] = None
            \/ /\ op'[c] # None /\ op'[c].does = "read" /\ op'[c].path = op[c].path
               /\ op'[c].first = op[c].first /\ op'[c].alone = op[c].alone
               /\ /\ Seen(op[c])
                  /\ \A k \in Kinds : disk[op[c].path][k] \in {None, op[c].first}
                  => Seen(op'[c])
<1> DEFINE p == op[c].path
           Goes(r) == /\ r \in Read /\ r.path = op[c].path
                      /\ r.first = op[c].first /\ r.alone = op[c].alone
                      /\ /\ Seen(op[c])
                         /\ \A k \in Kinds : disk[p][k] \in {None, op[c].first}
                         => Seen(r)
<1>1. /\ Doing(c, "read") /\ op[c] \in Read
      /\ disk' = disk /\ torn' = torn
  BY OpIs DEF ReadStep, ReadMeta, Reopen, ReadMetaAgain, ReadIdx, EndRead, At, Done
<1>2. /\ op[c].first \in Versions /\ op[c].file \in Versions /\ p \in Paths
      /\ op[c].alone \in BOOLEAN
      /\ \A k \in Kinds : disk[p][k] \in Versions \cup {None}
  BY <1>1 DEF Read, TypeOK
<1>3. op' = [op EXCEPT ![c] = None] \/ \E r : Goes(r) /\ op' = [op EXCEPT ![c] = r]
  <2>1. CASE ReadMeta(c)
    <3>1. PICK t : t = BelievedSize(op[c].first, disk[p].meta)
      OBVIOUS
    <3>2. PICK r : r = [op[c] EXCEPT !.pc = "reopen", !.total = t]
      OBVIOUS
    <3>3. t \in Sizes /\ (disk[p].meta \in {None, op[c].first} => t = op[c].first.size)
      BY <1>2, <3>1, BelievedIs DEF Kinds
    <3>4. /\ r \in Read /\ r.pc = "reopen" /\ r.total = t /\ r.path = p
          /\ r.first = op[c].first /\ r.file = op[c].file /\ r.alone = op[c].alone
      BY <1>1, <3>2, <3>3 DEF Read
    <3>5. Seen(op[c]) /\ (\A k \in Kinds : disk[p][k] \in {None, op[c].first}) => Seen(r)
      BY <3>3, <3>4 DEF Seen, Kinds
    <3>6. op' = [op EXCEPT ![c] = r]
      BY <2>1, <3>1, <3>2 DEF ReadMeta
    <3> QED
      BY <3>4, <3>5, <3>6
  <2>2. CASE Reopen(c)
    <3>1. CASE disk[p].cipher = None
      BY <2>2, <3>1 DEF Reopen
    <3>2. CASE disk[p].cipher # None
      <4>1. PICK r : r = [op[c] EXCEPT !.pc = "remeta", !.file = disk[p].cipher]
        OBVIOUS
      <4>2. At(c, "read", "reopen") /\ disk[p].cipher \in Versions
        BY <1>2, <2>2, <3>2 DEF Reopen, Kinds
      <4>3. /\ r \in Read /\ r.pc = "remeta" /\ r.total = op[c].total /\ r.path = p
            /\ r.first = op[c].first /\ r.file = disk[p].cipher /\ r.alone = op[c].alone
        BY <1>1, <4>1, <4>2 DEF Read
      <4>4. Seen(op[c]) /\ (\A k \in Kinds : disk[p][k] \in {None, op[c].first}) => Seen(r)
        BY <3>2, <4>2, <4>3 DEF Seen, Kinds, At
      <4>5. op' = [op EXCEPT ![c] = r]
        BY <2>2, <3>2, <4>1 DEF Reopen
      <4> QED
        BY <4>3, <4>4, <4>5
    <3> QED
      BY <3>1, <3>2
  <2>3. CASE ReadMetaAgain(c)
    <3>1. PICK t : t = BelievedSize(op[c].file, disk[p].meta)
      OBVIOUS
    <3>2. PICK r : r = [op[c] EXCEPT !.pc = "idx", !.size = t]
      OBVIOUS
    <3>3. t \in Sizes /\ (disk[p].meta \in {None, op[c].file} => t = op[c].file.size)
      BY <1>2, <3>1, BelievedIs DEF Kinds
    <3>4. At(c, "read", "remeta")
      BY <2>3 DEF ReadMetaAgain
    <3>5. /\ r \in Read /\ r.pc = "idx" /\ r.size = t /\ r.path = p /\ r.total = op[c].total
          /\ r.first = op[c].first /\ r.file = op[c].file /\ r.alone = op[c].alone
      BY <1>1, <3>2, <3>3 DEF Read
    <3>6. Seen(op[c]) /\ (\A k \in Kinds : disk[p][k] \in {None, op[c].first}) => Seen(r)
      BY <3>3, <3>4, <3>5 DEF Seen, Kinds, At
    <3>7. op' = [op EXCEPT ![c] = r]
      BY <2>3, <3>1, <3>2 DEF ReadMetaAgain
    <3> QED
      BY <3>5, <3>6, <3>7
  <2>4. CASE ReadIdx(c)
    <3>1. PICK i : i = KeptIndex(disk[p].idx, op[c].size)
      OBVIOUS
    <3>2. PICK r : r = [op[c] EXCEPT !.pc = "serve", !.index = i]
      OBVIOUS
    <3>3. i \in {None, disk[p].idx} /\ i \in Versions \cup {None}
      BY <1>2, <3>1, KeptIs DEF Kinds
    <3>4. At(c, "read", "idx")
      BY <2>4 DEF ReadIdx
    <3>5. /\ r \in Read /\ r.pc = "serve" /\ r.size = op[c].size /\ r.path = p
          /\ r.total = op[c].total /\ r.index = i
          /\ r.first = op[c].first /\ r.file = op[c].file /\ r.alone = op[c].alone
      BY <1>1, <3>2, <3>3 DEF Read
    <3>6. Seen(op[c]) /\ (\A k \in Kinds : disk[p][k] \in {None, op[c].first}) => Seen(r)
      BY <3>3, <3>4, <3>5 DEF Seen, Kinds, At
    <3>7. op' = [op EXCEPT ![c] = r]
      BY <2>4, <3>1, <3>2 DEF ReadIdx
    <3> QED
      BY <3>5, <3>6, <3>7
  <2>5. CASE EndRead(c)
    BY <2>5 DEF EndRead, Done
  <2> QED
    BY <2>1, <2>2, <2>3, <2>4, <2>5 DEF ReadStep
<1>4. CASE op' = [op EXCEPT ![c] = None]
  BY <1>1, <1>4, DoneIs DEF Doing
<1>5. ASSUME NEW r, Goes(r), op' = [op EXCEPT ![c] = r]
      PROVE  /\ op' \in [Clients -> Ops] /\ OthersWait(c)
             /\ op'[c] = r /\ r # None /\ r.does = "read"
  <2>1. r \in Read /\ r \in Ops /\ r # None /\ r.does = "read"
    BY <1>5, SealedAssumption DEF Read, Ops
  <2> QED
    BY <1>5, <2>1, PutIs
<1> QED
  BY <1>1, <1>3, <1>4, <1>5 DEF Doing
-----------------------------------------------------------------------------
(* The steps of seals and deletes, as what they do to the files of one path *)
(* and to their request.                                                   *)

Becomes(p, k, v) == disk'[p][k] = v /\ \A j \in Kinds \ {k} : disk'[p][j] = disk[p][j]
Stays(p) == \A j \in Kinds : disk'[p][j] = disk[p][j]

\* The request goes on at pc.
SealAt(c, pc) ==
    /\ op'[c] # None /\ op'[c].does = "seal" /\ op'[c].pc = pc
    /\ op'[c].path = op[c].path /\ op'[c].file = op[c].file
    /\ torn' = torn

DeleteAt(c, pc) ==
    /\ op'[c] # None /\ op'[c].does = "delete" /\ op'[c].pc = pc
    /\ op'[c].path = op[c].path
    /\ torn' = torn

Ends(c) == op'[c] = None /\ torn' = torn

SealOutcome(c, p, v) ==
    \/ op[c].pc = "cipher" /\ Stays(p) /\ Ends(c)
    \/ op[c].pc = "cipher" /\ Becomes(p, "cipher", v) /\ SealAt(c, "dropIdx")
    \/ op[c].pc = "dropIdx" /\ Becomes(p, "idx", None) /\ SealAt(c, "idx")
    \/ op[c].pc = "idx" /\ Becomes(p, "idx", v) /\ SealAt(c, "dropMeta")
    \/ "index" \in Faults /\ op[c].pc = "idx" /\ Becomes(p, "idx", None) /\ SealAt(c, "abort")
    \/ op[c].pc = "abort" /\ Becomes(p, "meta", None) /\ Ends(c)
    \/ op[c].pc = "dropMeta" /\ Becomes(p, "meta", None) /\ SealAt(c, "meta")
    \/ op[c].pc = "meta" /\ Becomes(p, "meta", v) /\ op'[c] = None /\ torn' = torn \ {p}
    \/ "meta" \in Faults /\ op[c].pc = "meta" /\ Stays(p) /\ Ends(c)

DeleteOutcome(c, p) ==
    \/ op[c].pc = "cipher" /\ Becomes(p, "cipher", None) /\ DeleteAt(c, "meta")
    \/ op[c].pc = "cipher" /\ Stays(p) /\ Ends(c)
    \/ op[c].pc = "meta" /\ Becomes(p, "meta", None) /\ DeleteAt(c, "idx")
    \/ op[c].pc = "idx" /\ Becomes(p, "idx", None) /\ op'[c] = None /\ torn' = torn \ {p}

\* What they have in common.
WorksAt(c, p) ==
    /\ disk' \in [Paths -> [Kinds -> Versions \cup {None}]]
    /\ op' \in [Clients -> Ops] /\ OthersWait(c)
    /\ \A q \in Paths \ {p} : Stays(q)

LEMMA SetWorks ==
  ASSUME TypeOK, NEW p \in Paths, NEW k \in Kinds, NEW v \in Versions \cup {None}, Set(p, k, v)
  PROVE  /\ disk' \in [Paths -> [Kinds -> Versions \cup {None}]]
         /\ Becomes(p, k, v) /\ \A q \in Paths \ {p} : Stays(q)
  BY SetIs DEF Becomes, Stays

LEMMA SealGoesOn ==
  ASSUME TypeOK, NEW c \in Clients, Doing(c, "seal"),
         NEW pc \in Kinds \cup {"dropIdx", "dropMeta", "abort"}, Goto(c, pc)
  PROVE  op' \in [Clients -> Ops] /\ OthersWait(c) /\ SealAt(c, pc)
  BY SealGoto DEF SealAt

LEMMA SealStepIs ==
  ASSUME TypeOK, NEW c \in Clients, SealStep(c)
  PROVE  /\ Doing(c, "seal") /\ op[c] \in Seal
         /\ WorksAt(c, op[c].path)
         /\ SealOutcome(c, op[c].path, op[c].file)
<1>1. Doing(c, "seal")
  BY DEF SealStep, SealFail, SealCipher, SealDropIdx, SealIdx, SealIdxFail, SealAbort,
         SealDropMeta, SealMeta, SealMetaFail, At
<1>2. PICK p, v : p = op[c].path /\ v = op[c].file
  OBVIOUS
<1>3. op[c] \in Seal /\ p \in Paths /\ v \in Versions
  BY <1>1, <1>2, OpIs DEF Seal
<1>4. /\ op' = [op EXCEPT ![c] = None] => op' \in [Clients -> Ops] /\ OthersWait(c) /\ op'[c] = None
      /\ disk' = disk => /\ disk' \in [Paths -> [Kinds -> Versions \cup {None}]]
                         /\ \A q \in Paths : Stays(q)
  BY DoneIs DEF TypeOK, Stays
<1>5. CASE SealFail(c)
  BY <1>1, <1>2, <1>3, <1>4, <1>5 DEF SealFail, Done, At, SealOutcome, Ends, WorksAt
<1>6. CASE SealCipher(c)
  <2>1. Goto(c, "dropIdx") /\ Set(p, "cipher", v) /\ op[c].pc = "cipher"
    BY <1>2, <1>6 DEF SealCipher, At
  <2>2. op' \in [Clients -> Ops] /\ OthersWait(c) /\ SealAt(c, "dropIdx")
    BY <1>1, <2>1, SealGoesOn
  <2> QED
    BY <1>1, <1>2, <1>3, <2>1, <2>2, SetWorks DEF SealOutcome, WorksAt, Kinds
<1>7. CASE SealDropIdx(c)
  <2>1. Goto(c, "idx") /\ Set(p, "idx", None) /\ op[c].pc = "dropIdx"
    BY <1>2, <1>7 DEF SealDropIdx, At
  <2>2. op' \in [Clients -> Ops] /\ OthersWait(c) /\ SealAt(c, "idx")
    BY <1>1, <2>1, SealGoesOn DEF Kinds
  <2> QED
    BY <1>1, <1>2, <1>3, <2>1, <2>2, SetWorks DEF SealOutcome, WorksAt, Kinds
<1>8. CASE SealIdx(c)
  <2>1. Goto(c, "dropMeta") /\ Set(p, "idx", v) /\ op[c].pc = "idx"
    BY <1>2, <1>8 DEF SealIdx, At
  <2>2. op' \in [Clients -> Ops] /\ OthersWait(c) /\ SealAt(c, "dropMeta")
    BY <1>1, <2>1, SealGoesOn
  <2> QED
    BY <1>1, <1>2, <1>3, <2>1, <2>2, SetWorks DEF SealOutcome, WorksAt, Kinds
<1>9. CASE SealIdxFail(c)
  <2>1. Goto(c, "abort") /\ Set(p, "idx", None) /\ op[c].pc = "idx" /\ "index" \in Faults
    BY <1>2, <1>9 DEF SealIdxFail, At
  <2>2. op' \in [Clients -> Ops] /\ OthersWait(c) /\ SealAt(c, "abort")
    BY <1>1, <2>1, SealGoesOn
  <2> QED
    BY <1>1, <1>2, <1>3, <2>1, <2>2, SetWorks DEF SealOutcome, WorksAt, Kinds
<1>10. CASE SealAbort(c)
  <2>1. Done(c) /\ Set(p, "meta", None) /\ op[c].pc = "abort"
    BY <1>2, <1>10 DEF SealAbort, At
  <2> QED
    BY <1>1, <1>2, <1>3, <1>4, <2>1, SetWorks DEF SealOutcome, WorksAt, Kinds, Done, Ends
<1>11. CASE SealDropMeta(c)
  <2>1. Goto(c, "meta") /\ Set(p, "meta", None) /\ op[c].pc = "dropMeta"
    BY <1>2, <1>11 DEF SealDropMeta, At
  <2>2. op' \in [Clients -> Ops] /\ OthersWait(c) /\ SealAt(c, "meta")
    BY <1>1, <2>1, SealGoesOn DEF Kinds
  <2> QED
    BY <1>1, <1>2, <1>3, <2>1, <2>2, SetWorks DEF SealOutcome, WorksAt, Kinds
<1>12. CASE SealMeta(c)
  <2>1. DoneWhole(c) /\ Set(p, "meta", v) /\ op[c].pc = "meta"
    BY <1>2, <1>12 DEF SealMeta, At
  <2> QED
    BY <1>1, <1>2, <1>3, <1>4, <2>1, SetWorks DEF SealOutcome, WorksAt, Kinds, DoneWhole
<1>13. CASE SealMetaFail(c)
  BY <1>1, <1>2, <1>3, <1>4, <1>13 DEF SealMetaFail, Done, At, SealOutcome, Ends, WorksAt
<1> QED
  BY <1>5, <1>6, <1>7, <1>8, <1>9, <1>10, <1>11, <1>12, <1>13 DEF SealStep

LEMMA DeleteStepIs ==
  ASSUME TypeOK, NEW c \in Clients, DeleteStep(c)
  PROVE  /\ Doing(c, "delete") /\ op[c] \in Delete
         /\ WorksAt(c, op[c].path)
         /\ DeleteOutcome(c, op[c].path)
<1>1. Doing(c, "delete")
  BY DEF DeleteStep, DeleteCipher, DeleteMissing, DeleteMeta, DeleteIdx, At
<1>2. PICK p : p = op[c].path
  OBVIOUS
<1>3. op[c] \in Delete /\ p \in Paths
  BY <1>1, <1>2, OpIs DEF Delete
<1>4. /\ op' = [op EXCEPT ![c] = None] => op' \in [Clients -> Ops] /\ OthersWait(c) /\ op'[c] = None
      /\ disk' = disk => /\ disk' \in [Paths -> [Kinds -> Versions \cup {None}]]
                         /\ \A q \in Paths : Stays(q)
  BY DoneIs DEF TypeOK, Stays
<1>5. ASSUME NEW pc \in Kinds, Goto(c, pc)
      PROVE  op' \in [Clients -> Ops] /\ OthersWait(c) /\ DeleteAt(c, pc)
  BY <1>1, <1>5, DeleteGoto DEF DeleteAt
<1>6. CASE DeleteCipher(c)
  <2>1. Goto(c, "meta") /\ Set(p, "cipher", None) /\ op[c].pc = "cipher"
    BY <1>2, <1>6 DEF DeleteCipher, At
  <2> QED
    BY <1>1, <1>2, <1>3, <1>5, <2>1, SetWorks DEF DeleteOutcome, WorksAt, Kinds
<1>7. CASE DeleteMissing(c)
  BY <1>1, <1>2, <1>3, <1>4, <1>7 DEF DeleteMissing, Done, At, DeleteOutcome, Ends, WorksAt
<1>8. CASE DeleteMeta(c)
  <2>1. Goto(c, "idx") /\ Set(p, "meta", None) /\ op[c].pc = "meta"
    BY <1>2, <1>8 DEF DeleteMeta, At
  <2> QED
    BY <1>1, <1>2, <1>3, <1>5, <2>1, SetWorks DEF DeleteOutcome, WorksAt, Kinds
<1>9. CASE DeleteIdx(c)
  <2>1. DoneWhole(c) /\ Set(p, "idx", None) /\ op[c].pc = "idx"
    BY <1>2, <1>9 DEF DeleteIdx, At
  <2> QED
    BY <1>1, <1>2, <1>3, <1>4, <2>1, SetWorks DEF DeleteOutcome, WorksAt, Kinds, DoneWhole
<1> QED
  BY <1>6, <1>7, <1>8, <1>9 DEF DeleteStep
-----------------------------------------------------------------------------
(* The steps of moves.                                                     *)

MoveAt(c, pc, todo, moved) ==
    /\ op'[c] # None /\ op'[c].does = "move" /\ op'[c].pc = pc
    /\ op'[c].path = op[c].path /\ op'[c].dst = op[c].dst
    /\ op'[c].todo = todo /\ op'[c].moved = moved

Carried(k, p, q) ==
    /\ disk'[q][k] = disk[p][k] /\ disk'[p][k] = None
    /\ \A j \in Kinds \ {k} : disk'[p][j] = disk[p][j] /\ disk'[q][j] = disk[q][j]

\* A rename back finds the file or leaves everything as it is.
Returned(k, p, q) ==
    IF disk[q][k] # None THEN Carried(k, q, p) ELSE Stays(p) /\ Stays(q)

MoveOutcome(c, p, q, todo, moved) ==
    \/ /\ op[c].pc = "cipher" /\ Carried("cipher", p, q)
       /\ MoveAt(c, "sidecars", todo, moved)
       /\ torn' = IF p \in torn THEN torn \cup {q} ELSE torn
    \/ op[c].pc = "cipher" /\ Stays(p) /\ Stays(q) /\ Ends(c)
    \/ \E k \in todo :
          /\ op[c].pc = "sidecars" /\ (k = "idx" => "meta" \notin todo)
          /\ Carried(k, p, q)
          /\ MoveAt(c, "sidecars", todo \ {k}, moved \cup {k}) /\ torn' = torn
    \/ /\ op[c].pc = "sidecars" /\ todo # {} /\ Stays(p) /\ Stays(q)
       /\ MoveAt(c, "undo", todo, moved) /\ torn' = torn
    \/ op[c].pc = "sidecars" /\ todo = {} /\ Stays(p) /\ Stays(q) /\ Ends(c)
    \/ /\ op[c].pc = "undo" /\ Returned("cipher", p, q)
       /\ MoveAt(c, "undoMeta", todo, moved) /\ torn' = torn
    \/ /\ op[c].pc = "undoMeta"
       /\ IF moved = {} THEN Stays(p) /\ Stays(q) ELSE Returned("meta", p, q)
       /\ Ends(c)

MovesAt(c, p, q) ==
    /\ disk' \in [Paths -> [Kinds -> Versions \cup {None}]]
    /\ op' \in [Clients -> Ops] /\ OthersWait(c)
    /\ \A x \in Paths \ {p, q} : Stays(x)

LEMMA RenameMoves ==
  ASSUME TypeOK, NEW p \in Paths, NEW q \in Paths, NEW k \in Kinds, p # q, Rename(k, p, q)
  PROVE  /\ disk' \in [Paths -> [Kinds -> Versions \cup {None}]]
         /\ Carried(k, p, q) /\ \A x \in Paths \ {p, q} : Stays(x)
  BY RenameIs DEF Carried, Stays

LEMMA MoveGoesOn ==
  ASSUME TypeOK, NEW c \in Clients, Doing(c, "move"),
         NEW pc \in {"cipher", "sidecars", "undo", "undoMeta"},
         op' = [op EXCEPT ![c].pc = pc]
  PROVE  op' \in [Clients -> Ops] /\ OthersWait(c) /\ MoveAt(c, pc, op[c].todo, op[c].moved)
  BY MoveGoto DEF MoveAt

LEMMA MoveStepIs ==
  ASSUME TypeOK, NEW c \in Clients, MoveStep(c), op[c].path # op[c].dst
  PROVE  /\ Doing(c, "move") /\ op[c] \in Move
         /\ MovesAt(c, op[c].path, op[c].dst)
         /\ MoveOutcome(c, op[c].path, op[c].dst, op[c].todo, op[c].moved)
<1>1. Doing(c, "move")
  BY DEF MoveStep, MoveCipher, MoveCipherFail, MoveSidecar, MoveSidecarFail, MoveDone,
         UndoCipher, UndoSidecar, At
<1>2. PICK p, q, todo, moved : /\ p = op[c].path /\ q = op[c].dst
                               /\ todo = op[c].todo /\ moved = op[c].moved
  OBVIOUS
<1>3. /\ op[c] \in Move /\ p \in Paths /\ q \in Paths /\ p # q
      /\ todo \subseteq Sidecars /\ moved \subseteq Sidecars
  BY <1>1, <1>2, OpIs DEF Move
<1>4. /\ op' = [op EXCEPT ![c] = None] => op' \in [Clients -> Ops] /\ OthersWait(c) /\ op'[c] = None
      /\ disk' = disk => /\ disk' \in [Paths -> [Kinds -> Versions \cup {None}]]
                         /\ \A x \in Paths : Stays(x)
  BY DoneIs DEF TypeOK, Stays
<1>5. ASSUME NEW k \in {"cipher", "meta"}, RenameBack(c, k)
      PROVE  /\ disk' \in [Paths -> [Kinds -> Versions \cup {None}]]
             /\ Returned(k, p, q) /\ \A x \in Paths \ {p, q} : Stays(x)
  <2>1. k \in Kinds
    BY DEF Kinds
  <2>2. CASE disk[q][k] # None
    <3>1. Rename(k, q, p)
      BY <1>2, <1>5, <2>2 DEF RenameBack
    <3>2. /\ disk' \in [Paths -> [Kinds -> Versions \cup {None}]]
          /\ Carried(k, q, p) /\ \A x \in Paths \ {q, p} : Stays(x)
      BY <1>3, <2>1, <3>1, RenameMoves
    <3> QED
      BY <2>2, <3>2 DEF Returned
  <2>3. CASE disk[q][k] = None
    BY <1>2, <1>3, <1>4, <1>5, <2>3 DEF RenameBack, Returned
  <2> QED
    BY <2>2, <2>3
<1>6. CASE MoveCipher(c)
  <2>1. /\ Rename("cipher", p, q) /\ op' = [op EXCEPT ![c].pc = "sidecars"]
        /\ op[c].pc = "cipher" /\ torn' = IF p \in torn THEN torn \cup {q} ELSE torn
    BY <1>2, <1>6 DEF MoveCipher, At
  <2>2. op' \in [Clients -> Ops] /\ OthersWait(c) /\ MoveAt(c, "sidecars", todo, moved)
    BY <1>1, <1>2, <2>1, MoveGoesOn
  <2>3. /\ disk' \in [Paths -> [Kinds -> Versions \cup {None}]]
        /\ Carried("cipher", p, q) /\ \A x \in Paths \ {p, q} : Stays(x)
    BY <1>3, <2>1, RenameMoves DEF Kinds
  <2> QED
    BY <1>1, <1>2, <1>3, <2>1, <2>2, <2>3 DEF MoveOutcome, MovesAt
<1>7. CASE MoveCipherFail(c)
  BY <1>1, <1>2, <1>3, <1>4, <1>7 DEF MoveCipherFail, Done, At, MoveOutcome, Ends, MovesAt
<1>8. CASE MoveSidecar(c)
  <2>1. PICK k : k = NextSidecar(c)
    OBVIOUS
  <2>2. k \in todo /\ k \in Sidecars /\ k \in Kinds /\ (k = "idx" => "meta" \notin todo)
    BY <1>2, <1>3, <1>8, <2>1 DEF MoveSidecar, NextSidecar, Sidecars, Kinds
  <2>3. /\ Rename(k, p, q) /\ op[c].pc = "sidecars" /\ torn' = torn
        /\ op' = [op EXCEPT ![c] = [op[c] EXCEPT !.todo = todo \ {k}, !.moved = moved \cup {k}]]
    BY <1>2, <1>8, <2>1 DEF MoveSidecar, At
  <2>4. PICK r : r = [op[c] EXCEPT !.todo = todo \ {k}, !.moved = moved \cup {k}]
    OBVIOUS
  <2>5. /\ r \in Move /\ r.does = "move" /\ r.pc = "sidecars" /\ r.path = p /\ r.dst = q
        /\ r.todo = todo \ {k} /\ r.moved = moved \cup {k}
    <3>1. todo \ {k} \in SUBSET Sidecars /\ moved \cup {k} \in SUBSET Sidecars
      BY <1>3, <2>2
    <3> QED
      BY <1>2, <1>3, <2>3, <2>4, <3>1 DEF Move
  <2>6. r \in Ops /\ r # None
    BY <2>5, SealedAssumption DEF Ops
  <2>7. op' \in [Clients -> Ops] /\ op'[c] = r /\ OthersWait(c)
    BY <2>3, <2>4, <2>6, PutIs
  <2>8. MoveAt(c, "sidecars", todo \ {k}, moved \cup {k})
    BY <1>2, <2>5, <2>6, <2>7 DEF MoveAt
  <2>9. /\ disk' \in [Paths -> [Kinds -> Versions \cup {None}]]
        /\ Carried(k, p, q) /\ \A x \in Paths \ {p, q} : Stays(x)
    BY <1>3, <2>2, <2>3, RenameMoves
  <2> QED
    BY <1>1, <1>2, <1>3, <2>2, <2>3, <2>7, <2>8, <2>9 DEF MoveOutcome, MovesAt
<1>9. CASE MoveSidecarFail(c)
  <2>1. /\ op' = [op EXCEPT ![c].pc = "undo"] /\ op[c].pc = "sidecars" /\ torn' = torn
        /\ todo # {} /\ disk' = disk
    BY <1>2, <1>9 DEF MoveSidecarFail, At, Goto
  <2>2. op' \in [Clients -> Ops] /\ OthersWait(c) /\ MoveAt(c, "undo", todo, moved)
    BY <1>1, <1>2, <2>1, MoveGoesOn
  <2> QED
    BY <1>1, <1>2, <1>3, <1>4, <2>1, <2>2 DEF MoveOutcome, MovesAt
<1>10. CASE MoveDone(c)
  BY <1>1, <1>2, <1>3, <1>4, <1>10 DEF MoveDone, Done, At, MoveOutcome, Ends, MovesAt
<1>11. CASE UndoCipher(c)
  <2>1. /\ op' = [op EXCEPT ![c].pc = "undoMeta"] /\ op[c].pc = "undo" /\ torn' = torn
        /\ RenameBack(c, "cipher")
    BY <1>11 DEF UndoCipher, At, Goto
  <2>2. op' \in [Clients -> Ops] /\ OthersWait(c) /\ MoveAt(c, "undoMeta", todo, moved)
    BY <1>1, <1>2, <2>1, MoveGoesOn
  <2> QED
    BY <1>1, <1>2, <1>3, <1>5, <2>1, <2>2 DEF MoveOutcome, MovesAt
<1>12. CASE UndoSidecar(c)
  <2>1. /\ op[c].pc = "undoMeta" /\ Done(c)
        /\ IF moved = {} THEN disk' = disk ELSE RenameBack(c, "meta")
    BY <1>2, <1>12 DEF UndoSidecar, At
  <2>2. /\ disk' \in [Paths -> [Kinds -> Versions \cup {None}]]
        /\ IF moved = {} THEN Stays(p) /\ Stays(q) ELSE Returned("meta", p, q)
        /\ \A x \in Paths \ {p, q} : Stays(x)
    BY <1>3, <1>4, <1>5, <2>1
  <2> QED
    BY <1>1, <1>2, <1>3, <1>4, <2>1, <2>2 DEF MoveOutcome, MovesAt, Done, Ends
<1> QED
  BY <1>6, <1>7, <1>8, <1>9, <1>10, <1>11, <1>12 DEF MoveStep

-----------------------------------------------------------------------------
(* Types.                                                                  *)

MovesAway == \A c \in Clients : Doing(c, "move") => op[c].path # op[c].dst

LEMMA TypeInit == Init => TypeOK /\ MovesAway
<1> SUFFICES ASSUME Init PROVE TypeOK /\ MovesAway
  OBVIOUS
<1>1. PICK at \in [Paths -> Versions \cup {None}] : disk = [p \in Paths |-> [k \in Kinds |-> at[p]]]
  BY DEF Init
<1>2. disk \in [Paths -> [Kinds -> Versions \cup {None}]]
  BY <1>1
<1> QED
  BY <1>2 DEF Init, TypeOK, MovesAway, Doing

LEMMA TypeNext == TypeOK /\ MovesAway /\ [Next]_vars => TypeOK' /\ MovesAway'
<1> SUFFICES ASSUME TypeOK, MovesAway, [Next]_vars PROVE TypeOK' /\ MovesAway'
  OBVIOUS
<1>1. ASSUME NEW c \in Clients, Start(c)
      PROVE  TypeOK' /\ MovesAway'
  <2>1. PICK p \in Paths :
            \/ StartDelete(c, p) \/ StartRead(c, p)
            \/ \E v \in Versions : StartSeal(c, p, v)
            \/ \E q \in Paths : StartMove(c, p, q)
    BY <1>1 DEF Start
  <2>2. CASE StartDelete(c, p)
    BY <2>2, StartDeleteIs DEF TypeOK, Ops, MovesAway, OthersWait, Doing
  <2>3. CASE StartRead(c, p)
    BY <2>3, StartReadIs DEF TypeOK, Ops, MovesAway, OthersWait, Doing
  <2>4. ASSUME NEW v \in Versions, StartSeal(c, p, v)
        PROVE  TypeOK' /\ MovesAway'
    <3>1. TypeOK'
      BY <2>4, StartSealIs DEF TypeOK, Ops
    <3>2. \A d \in Clients : Disturbed(p)[d] = op[d] \/ Disturbed(p)[d] \in Read
      BY DisturbedIs
    <3>3. MovesAway'
      BY <2>4, <3>2, StartSealIs DEF MovesAway, Doing, Read
    <3> QED
      BY <3>1, <3>3
  <2>5. ASSUME NEW q \in Paths, StartMove(c, p, q)
        PROVE  TypeOK' /\ MovesAway'
    <3>1. TypeOK'
      BY <2>5, StartMoveIs DEF TypeOK, Ops
    <3>2. \A d \in Clients : Disturbed(q)[d] = op[d] \/ Disturbed(q)[d] \in Read
      BY DisturbedIs
    <3>3. MovesAway'
      BY <2>5, <3>2, StartMoveIs DEF MovesAway, Doing, Read
    <3> QED
      BY <3>1, <3>3
  <2> QED
    BY <2>1, <2>2, <2>3, <2>4, <2>5
<1>2. ASSUME NEW c \in Clients, SealStep(c)
      PROVE  TypeOK' /\ MovesAway'
  BY <1>2, SealStepIs
     DEF WorksAt, SealOutcome, SealAt, Ends, TypeOK, Ops, MovesAway, OthersWait, Doing
<1>3. ASSUME NEW c \in Clients, DeleteStep(c)
      PROVE  TypeOK' /\ MovesAway'
  BY <1>3, DeleteStepIs
     DEF WorksAt, DeleteOutcome, DeleteAt, Ends, TypeOK, Ops, MovesAway, OthersWait, Doing
<1>4. ASSUME NEW c \in Clients, MoveStep(c)
      PROVE  TypeOK' /\ MovesAway'
  <2>1. Doing(c, "move")
    BY <1>4 DEF MoveStep, MoveCipher, MoveCipherFail, MoveSidecar, MoveSidecarFail, MoveDone,
                UndoCipher, UndoSidecar, At
  <2>2. op[c].path # op[c].dst
    BY <2>1 DEF MovesAway
  <2>3. PICK p, q, todo, moved : /\ p = op[c].path /\ q = op[c].dst
                                 /\ todo = op[c].todo /\ moved = op[c].moved
    OBVIOUS
  <2>4. MovesAt(c, p, q) /\ MoveOutcome(c, p, q, todo, moved) /\ q \in Paths
    BY <1>4, <2>2, <2>3, MoveStepIs DEF Move
  <2>5. torn' \subseteq Paths
    BY <2>4 DEF MoveOutcome, Ends, TypeOK
  <2>6. op'[c] = None \/ op'[c].path # op'[c].dst
    BY <2>2, <2>4 DEF MoveOutcome, MoveAt, Ends
  <2> QED
    BY <2>4, <2>5, <2>6 DEF MovesAt, TypeOK, Ops, MovesAway, OthersWait, Doing
<1>5. ASSUME NEW c \in Clients, ReadStep(c)
      PROVE  TypeOK' /\ MovesAway'
  BY <1>5, ReadIs DEF TypeOK, Ops, MovesAway, OthersWait, Doing
<1>6. CASE Crash
  BY <1>6 DEF Crash, TypeOK, MovesAway, Doing
<1>7. CASE UNCHANGED vars
  BY <1>7 DEF vars, TypeOK, MovesAway, Doing
<1> QED
  BY <1>1, <1>2, <1>3, <1>4, <1>5, <1>6, <1>7 DEF Next

\* Type correctness: in particular the sizes that readers of encrypted files
\* believe are the sizes of files, also when they have to be inferred.
THEOREM TypeCorrect == Spec => []TypeOK
  BY TypeInit, TypeNext, PTL DEF Spec
-----------------------------------------------------------------------------
(* Many writers that seal and delete.                                      *)

\* A reader goes on seeing one version, when files at its path disappear at
\* most and nothing is moved.
LEMMA StillSees ==
  ASSUME TypeOK, NEW d \in Clients, Doing(d, "read"), op[d].alone, Sees(op[d]), op'[d] = op[d],
         op[d].path \notin torn',
         \A e \in Clients : ~PutsAt(e, op[d].path)' /\ ~Doing(e, "move")',
         \A k \in Kinds : disk'[op[d].path][k] \in {None, disk[op[d].path][k]}
  PROVE  Sees(op[d])'
<1>1. PICK r : r = op[d]
  OBVIOUS
<1>2. Sees(r)'
  <2>1. \A k \in Kinds : disk'[r.path][k] \in {None, r.first}
    BY <1>1 DEF Sees
  <2> QED
    BY <1>1, <2>1 DEF Sees, Seen
<1> QED
  BY <1>1, <1>2 DEF Sees, Seen

\* The start of a request leaves the disk alone.
LEMMA StartMatches ==
  ASSUME MatchInv, TypeOK', \A c \in Clients : "move" \notin Makes[c],
         NEW c \in Clients, Start(c)
  PROVE  MatchInv'
<1>1. PICK p \in Paths :
          \/ StartDelete(c, p) \/ StartRead(c, p)
          \/ \E v \in Versions : StartSeal(c, p, v)
  BY StartMoveIs DEF Start, MatchInv
<1>2. CASE StartDelete(c, p)
  <2>1. /\ disk' = disk /\ torn' = torn /\ op[c] = None
        /\ op'[c].does = "delete" /\ op'[c].pc = "cipher"
        /\ \A d \in Clients \ {c} : op'[d] = op[d]
    BY <1>2, StartDeleteIs DEF MatchInv, OthersWait
  <2>2. /\ \A d \in Clients, what \in {"seal", "read", "move"} : Doing(d, what)' <=> Doing(d, what)
        /\ \A d \in Clients : Doing(d, "seal") \/ Doing(d, "read") => op'[d] = op[d]
        /\ \A d \in Clients : ~Doing(d, "move")
    BY <2>1 DEF Doing, MatchInv
  <2>3. MatchUnlessReplaced' /\ SealsAlone' /\ Replaced'
    BY <2>1, <2>2 DEF MatchInv, MatchUnlessReplaced, Replacing, SealsAlone, Replaced
  <2>5. Deleted'
    BY <2>1, <2>2 DEF MatchInv, Deleted, Replacing, Doing
  <2>4. AloneSees'
    <3> SUFFICES ASSUME NEW d \in Clients, Doing(d, "read")', op'[d].alone
                 PROVE  Sees(op[d])'
      BY DEF AloneSees
    <3>1. Doing(d, "read") /\ op'[d] = op[d] /\ Sees(op[d])
      BY <2>2 DEF MatchInv, AloneSees
    <3>2. \A e \in Clients : \A x : ~PutsAt(e, x) => ~PutsAt(e, x)'
      BY <2>2 DEF PutsAt
    <3> QED
      BY <2>1, <2>2, <3>1, <3>2, StillSees DEF MatchInv, Sees
  <2> QED
    BY <2>2, <2>3, <2>4, <2>5 DEF MatchInv
<1>3. CASE StartRead(c, p)
  <2>1. /\ disk' = disk /\ torn' = torn /\ op[c] = None
        /\ op'[c] # None /\ op'[c].does = "read" /\ \A d \in Clients \ {c} : op'[d] = op[d]
        /\ disk[p].cipher # None
        /\ op'[c].pc = "meta" /\ op'[c].path = p
        /\ op'[c].first = disk[p].cipher /\ op'[c].file = disk[p].cipher
        /\ op'[c].alone => p \notin torn /\ \A d \in Clients : ~PutsAt(d, p)
    BY <1>3, StartReadIs DEF MatchInv, OthersWait
  <2>2. /\ \A d \in Clients, what \in {"seal", "delete", "move"} : Doing(d, what)' <=> Doing(d, what)
        /\ \A d \in Clients : Doing(d, "seal") => op'[d] = op[d]
        /\ \A d \in Clients : ~Doing(d, "move")
    BY <2>1 DEF Doing, MatchInv
  <2>3. MatchUnlessReplaced' /\ SealsAlone' /\ Replaced'
    BY <2>1, <2>2 DEF MatchInv, MatchUnlessReplaced, Replacing, SealsAlone, Replaced
  <2>8. Deleted'
    BY <2>1, <2>2 DEF MatchInv, Deleted, Replacing, Doing
  <2>4. \A e \in Clients : \A x : ~PutsAt(e, x) => ~PutsAt(e, x)'
    BY <2>2 DEF PutsAt
  <2>5. ASSUME NEW d \in Clients \ {c}, Doing(d, "read")', op'[d].alone
        PROVE  Sees(op[d])'
    <3>1. Doing(d, "read") /\ op'[d] = op[d] /\ Sees(op[d])
      BY <2>1, <2>5 DEF MatchInv, AloneSees, Doing
    <3> QED
      BY <2>1, <2>2, <2>4, <2>5, <3>1, StillSees DEF MatchInv, Sees
  <2>6. ASSUME op'[c].alone
        PROVE  Sees(op[c])'
    <3>1. p \notin torn /\ \A d \in Clients : ~PutsAt(d, p)
      BY <2>1, <2>6
    <3>2. \A k \in Kinds : disk[p][k] \in {None, disk[p].cipher}
      <4>1. \A d \in Clients : ~Replacing(d, p)
        BY <3>1 DEF Replacing, PutsAt
      <4> QED
        BY <2>1, <3>1, <4>1 DEF MatchInv, MatchUnlessReplaced, Matching, Kinds, Sidecars
    <3> QED
      BY <2>1, <2>2, <2>4, <3>1, <3>2 DEF Sees, Seen
  <2>7. AloneSees'
    BY <2>5, <2>6 DEF AloneSees
  <2> QED
    BY <2>2, <2>3, <2>7, <2>8 DEF MatchInv
<1>4. ASSUME NEW v \in Versions, StartSeal(c, p, v)
      PROVE  MatchInv'
  <2>1. /\ disk' = disk /\ torn' = torn /\ op[c] = None
        /\ \A d \in Clients : ~(Doing(d, "seal") /\ op[d].path = p)
        /\ op'[c] # None /\ op'[c].does = "seal" /\ op'[c].pc = "cipher" /\ op'[c].path = p
        /\ \A d \in Clients \ {c} : op'[d] = Disturbed(p)[d]
    BY <1>4, StartSealIs DEF MatchInv
  <2>2. ASSUME NEW d \in Clients \ {c}
        PROVE  \/ op'[d] = op[d] /\ ~(Doing(d, "read") /\ op[d].path = p /\ op[d].alone)
               \/ Doing(d, "read") /\ Doing(d, "read")' /\ ~op'[d].alone
    BY <2>1, DisturbedSplits DEF MatchInv
  <2>3. /\ \A d \in Clients \ {c}, what \in Requests : Doing(d, what)' <=> Doing(d, what)
        /\ \A d \in Clients \ {c} : Doing(d, "seal") => op'[d] = op[d]
        /\ \A d \in Clients : ~Doing(d, "move") /\ ~Doing(d, "move")'
        /\ ~Doing(c, "seal")
    BY <2>1, <2>2 DEF Doing, MatchInv, Requests
  <2>4. \A d \in Clients, x \in Paths : Replacing(d, x)' <=> Replacing(d, x)
    BY <2>1, <2>3 DEF Replacing, Doing, Requests
  <2>5. MatchUnlessReplaced'
    BY <2>1, <2>4 DEF MatchInv, MatchUnlessReplaced
  <2>6. SealsAlone' /\ Replaced'
    BY <2>1, <2>3 DEF MatchInv, SealsAlone, Replaced, Doing, Requests
  <2>7. ASSUME NEW d \in Clients, Doing(d, "read")', op'[d].alone
        PROVE  Sees(op[d])'
    <3>1. d # c
      BY <2>1, <2>7 DEF Doing
    <3>2. Doing(d, "read") /\ op'[d] = op[d] /\ Sees(op[d]) /\ op[d].path # p
      BY <2>2, <2>7, <3>1 DEF MatchInv, AloneSees, Doing
    <3>3. \A e \in Clients : ~PutsAt(e, op[d].path)'
      BY <2>1, <2>3, <3>2 DEF Sees, PutsAt, Requests
    <3> QED
      BY <2>1, <2>3, <2>7, <3>2, <3>3, StillSees DEF MatchInv, Sees
  <2>8. AloneSees'
    BY <2>7 DEF AloneSees
  <2>9. Deleted'
    <3>1. ASSUME NEW d \in Clients, Doing(d, "delete")'
          PROVE  Doing(d, "delete") /\ op'[d] = op[d] /\ op[d].path \in Paths
      <4>1. d # c
        BY <2>1, <3>1 DEF Doing
      <4>2. op'[d] = op[d] /\ Doing(d, "delete")
        BY <2>2, <3>1, <4>1 DEF Doing
      <4> QED
        BY <4>2, OpIs DEF MatchInv, Delete
    <3> QED
      BY <2>1, <2>4, <3>1 DEF MatchInv, Deleted
  <2> QED
    BY <2>3, <2>5, <2>6, <2>8, <2>9 DEF MatchInv
<1> QED
  BY <1>1, <1>2, <1>3, <1>4
\* What a writer at p may do to its own request, and to the history.
Continues(c, p) ==
    /\ op'[c] = None \/ (op'[c] # None /\ op'[c].does = op[c].does /\ op'[c].path = p)
    /\ torn' \in {torn, torn \ {p}}

\* A step of a seal or a delete at p: what concerns the others.
LEMMA WorkMatches ==
  ASSUME MatchInv, TypeOK', NEW c \in Clients, NEW p \in Paths,
         op[c] # None, op[c].path = p, op[c].does \in {"seal", "delete"},
         WorksAt(c, p), Continues(c, p),
         op[c].does = "delete" => \A k \in Kinds : disk'[p][k] \in {None, disk[p][k]}
  PROVE  /\ \A d \in Clients : ~Doing(d, "move")'
         /\ SealsAlone'
         /\ AloneSees'
         /\ \A q \in Paths \ {p} :
               q \notin torn' /\ (\A d \in Clients : ~Replacing(d, q)') => Matching(disk'[q])
         /\ \A q \in Paths \ {p} :
               /\ \E d \in Clients :
                     Doing(d, "delete")' /\ op'[d].pc # "cipher" /\ op'[d].path = q
               /\ \A d \in Clients : ~Replacing(d, q)'
               => Matching(disk'[q])
         /\ \A d \in Clients \ {c} : Doing(d, "seal")' => d # c /\ op'[d] = op[d] /\ Doing(d, "seal")
<1>1. \A d \in Clients \ {c} : op'[d] = op[d]
  BY DEF WorksAt, OthersWait
<1>2. \A d \in Clients, what \in Requests : Doing(d, what)' => Doing(d, what) /\ op'[d].path = op[d].path
  BY <1>1 DEF Continues, Doing
<1>3. \A d \in Clients : ~Doing(d, "move")'
  BY <1>2 DEF MatchInv, Requests
<1>4. SealsAlone'
  BY <1>2 DEF MatchInv, SealsAlone, Requests
<1>5. ASSUME NEW q \in Paths \ {p}, q \notin torn', \A d \in Clients : ~Replacing(d, q)'
      PROVE  Matching(disk'[q])
  <2>1. q \notin torn /\ \A d \in Clients : ~Replacing(d, q)
    BY <1>1, <1>5 DEF Replacing, Doing, Continues
  <2>2. \A k \in Kinds : disk'[q][k] = disk[q][k]
    BY DEF WorksAt, Stays
  <2> QED
    BY <2>1, <2>2 DEF MatchInv, MatchUnlessReplaced, Matching, Kinds, Sidecars
<1>9. ASSUME NEW q \in Paths \ {p}, \A d \in Clients : ~Replacing(d, q)',
             \E d \in Clients : Doing(d, "delete")' /\ op'[d].pc # "cipher" /\ op'[d].path = q
      PROVE  Matching(disk'[q])
  <2>1. PICK d \in Clients : Doing(d, "delete")' /\ op'[d].pc # "cipher" /\ op'[d].path = q
    BY <1>9
  <2>2. d # c /\ op'[d] = op[d] /\ Doing(d, "delete")
    BY <1>1, <2>1 DEF Continues, Doing
  <2>3. op[d].path = q /\ op[d].pc # "cipher"
    BY <2>1, <2>2
  <2>4. \A e \in Clients : ~Replacing(e, q)
    BY <1>1, <1>9 DEF Replacing, Doing
  <2>5. Matching(disk[q])
    BY <2>2, <2>3, <2>4 DEF MatchInv, Deleted
  <2>6. \A k \in Kinds : disk'[q][k] = disk[q][k]
    BY DEF WorksAt, Stays
  <2> QED
    BY <2>5, <2>6 DEF Matching, Kinds, Sidecars
<1>6. ASSUME NEW d \in Clients, Doing(d, "read")', op'[d].alone
      PROVE  Sees(op[d])'
  <2>1. Doing(d, "read") /\ d # c
    BY <1>2, <1>6 DEF Requests, Doing
  <2>2. op'[d] = op[d] /\ Sees(op[d])
    BY <1>1, <1>6, <2>1 DEF MatchInv, AloneSees
  <2>3. op[d].path \in Paths
    BY <2>1, OpIs DEF MatchInv, Read
  <2>4. \A e \in Clients : ~PutsAt(e, op[d].path)'
    BY <1>2, <1>3, <2>2 DEF Sees, PutsAt, Requests
  <2>5. \A k \in Kinds : disk'[op[d].path][k] \in {None, disk[op[d].path][k]}
    <3>1. CASE op[d].path = p
      <4>1. op[c].does = "delete"
        BY <2>2, <3>1 DEF Sees, PutsAt, Doing
      <4> QED
        BY <3>1, <4>1
    <3>2. CASE op[d].path # p
      BY <2>3, <3>2 DEF WorksAt, Stays
    <3> QED
      BY <3>1, <3>2
  <2>6. op[d].path \notin torn'
    BY <2>2 DEF Sees, Continues
  <2>7. op[d].alone
    BY <1>6, <2>2
  <2> QED
    BY <1>3, <2>1, <2>2, <2>4, <2>5, <2>6, <2>7, StillSees DEF MatchInv
<1>7. AloneSees'
  BY <1>6 DEF AloneSees
<1>8. \A d \in Clients \ {c} : Doing(d, "seal")' => d # c /\ op'[d] = op[d] /\ Doing(d, "seal")
  BY <1>1, <1>2 DEF Requests
<1> QED
  BY <1>3, <1>4, <1>5, <1>7, <1>8, <1>9

\* Deleting takes nothing from the others that they count on.
LEMMA DeleteMatches ==
  ASSUME MatchInv, TypeOK', NEW c \in Clients, DeleteStep(c)
  PROVE  MatchInv'
<1>1. PICK p : p = op[c].path
  OBVIOUS
<1>2. /\ p \in Paths /\ op[c] # None /\ op[c].does = "delete" /\ WorksAt(c, p)
      /\ DeleteOutcome(c, p)
  BY <1>1, DeleteStepIs DEF MatchInv, Delete, Doing
<1>3. Continues(c, p)
  BY <1>1, <1>2 DEF Continues, DeleteOutcome, DeleteAt, Ends
<1>4. \A k \in Kinds : disk'[p][k] \in {None, disk[p][k]}
  BY <1>2 DEF DeleteOutcome, Becomes, Stays
<1>5. /\ \A d \in Clients : ~Doing(d, "move")'
      /\ SealsAlone' /\ AloneSees'
      /\ \A q \in Paths \ {p} :
            q \notin torn' /\ (\A d \in Clients : ~Replacing(d, q)') => Matching(disk'[q])
      /\ \A q \in Paths \ {p} :
            /\ \E d \in Clients :
                  Doing(d, "delete")' /\ op'[d].pc # "cipher" /\ op'[d].path = q
            /\ \A d \in Clients : ~Replacing(d, q)'
            => Matching(disk'[q])
      /\ \A d \in Clients \ {c} : Doing(d, "seal")' => op'[d] = op[d] /\ Doing(d, "seal")
  BY <1>1, <1>2, <1>3, <1>4, WorkMatches
<1>6. (\A d \in Clients : ~Replacing(d, p)') => \A d \in Clients : ~Replacing(d, p)
  BY <1>2 DEF Replacing, Doing, WorksAt, OthersWait
<1>9. Matching(disk[p]) => Matching(disk'[p])
  BY <1>4 DEF Matching, Kinds, Sidecars
<1>10. ASSUME \A d \in Clients : ~Replacing(d, p)', p \notin torn'
       PROVE  Matching(disk'[p])
  <2>1. CASE p \notin torn
    BY <1>6, <1>9, <1>10, <2>1, <1>2 DEF MatchInv, MatchUnlessReplaced
  <2>2. CASE p \in torn
    <3>1. op[c].pc = "idx"
      BY <1>2, <1>10, <2>2 DEF DeleteOutcome, DeleteAt, Ends
    <3> QED
      BY <1>1, <1>2, <1>6, <1>9, <1>10, <3>1 DEF MatchInv, Deleted, Doing
  <2> QED
    BY <2>1, <2>2
<1>7. MatchUnlessReplaced'
  BY <1>5, <1>10 DEF MatchUnlessReplaced
<1>11. Deleted'
  <2> SUFFICES ASSUME NEW d \in Clients, Doing(d, "delete")', op'[d].pc # "cipher",
                      op'[d].path = p, \A e \in Clients : ~Replacing(e, p)'
               PROVE  Matching(disk'[p])
    BY <1>5 DEF Deleted
  <2>1. CASE Doing(d, "delete") /\ op[d].pc # "cipher" /\ op[d].path = p
    BY <1>2, <1>6, <1>9, <2>1 DEF MatchInv, Deleted
  <2>2. CASE ~(Doing(d, "delete") /\ op[d].pc # "cipher" /\ op[d].path = p)
    <3>1. d = c
      BY <1>2, <2>2 DEF WorksAt, OthersWait, Doing
    <3>2. disk'[p].cipher = None
      BY <1>1, <1>2, <2>2, <3>1 DEF DeleteOutcome, Becomes, Ends, Doing
    <3> QED
      BY <3>2 DEF Matching
  <2> QED
    BY <2>1, <2>2
<1>8. Replaced'
  <2> SUFFICES ASSUME NEW d \in Clients, Doing(d, "seal")', op'[d].pc # "cipher"
               PROVE  LET f == disk'[op'[d].path]
                      IN  /\ f.cipher \in {None, op'[d].file}
                          /\ op'[d].pc # "dropIdx" => f.idx \in {None, op'[d].file}
                          /\ op'[d].pc = "abort" => f.idx = None
                          /\ op'[d].pc = "meta" => f.meta = None
    BY DEF Replaced
  <2>1. d # c
    BY <1>2, <1>3 DEF Continues, Doing
  <2>2. op'[d] = op[d] /\ Doing(d, "seal") /\ op[d].path \in Paths
    BY <1>5, <2>1, OpIs DEF MatchInv, Seal
  <2>3. \A k \in Kinds : disk'[op[d].path][k] \in {None, disk[op[d].path][k]}
    BY <1>2, <1>4, <2>2 DEF WorksAt, Stays
  <2> QED
    BY <2>2, <2>3 DEF MatchInv, Replaced, Kinds
<1> QED
  BY <1>5, <1>7, <1>8, <1>11 DEF MatchInv

\* Sealing leaves a matching file whichever way it ends.
LEMMA SealMatches ==
  ASSUME MatchInv, TypeOK', NEW c \in Clients, SealStep(c)
  PROVE  MatchInv'
<1>1. PICK p, v : p = op[c].path /\ v = op[c].file
  OBVIOUS
<1>2. /\ p \in Paths /\ v \in Versions /\ op[c] # None /\ op[c].does = "seal" /\ WorksAt(c, p)
      /\ SealOutcome(c, p, v)
  BY <1>1, SealStepIs DEF MatchInv, Seal, Doing
<1>3. Continues(c, p)
  BY <1>1, <1>2 DEF Continues, SealOutcome, SealAt, Ends
<1>4. /\ \A d \in Clients : ~Doing(d, "move")'
      /\ SealsAlone' /\ AloneSees'
      /\ \A q \in Paths \ {p} :
            q \notin torn' /\ (\A d \in Clients : ~Replacing(d, q)') => Matching(disk'[q])
      /\ \A q \in Paths \ {p} :
            /\ \E d \in Clients :
                  Doing(d, "delete")' /\ op'[d].pc # "cipher" /\ op'[d].path = q
            /\ \A d \in Clients : ~Replacing(d, q)'
            => Matching(disk'[q])
      /\ \A d \in Clients \ {c} : Doing(d, "seal")' => op'[d] = op[d] /\ Doing(d, "seal")
  BY <1>1, <1>2, <1>3, WorkMatches
<1>5. \A d \in Clients \ {c} : Doing(d, "seal") => op[d].path # p
  BY <1>1, <1>2 DEF MatchInv, SealsAlone, Doing
<1>6. op[c].pc # "cipher" =>
          /\ disk[p].cipher \in {None, v}
          /\ op[c].pc # "dropIdx" => disk[p].idx \in {None, v}
          /\ op[c].pc = "abort" => disk[p].idx = None
          /\ op[c].pc = "meta" => disk[p].meta = None
  BY <1>1, <1>2 DEF MatchInv, Replaced, Doing
<1>7. ASSUME op'[c] # None
      PROVE  /\ op'[c].path = p /\ op'[c].file = v /\ op'[c].pc # "cipher"
             /\ disk'[p].cipher \in {None, v}
             /\ op'[c].pc # "dropIdx" => disk'[p].idx \in {None, v}
             /\ op'[c].pc = "abort" => disk'[p].idx = None
             /\ op'[c].pc = "meta" => disk'[p].meta = None
  BY <1>1, <1>2, <1>6, <1>7 DEF SealOutcome, SealAt, Ends, Becomes, Stays, Kinds
<1>8. ASSUME op'[c] = None, op[c].pc = "cipher" => p \notin torn
      PROVE  Matching(disk'[p])
  <2>1. CASE op[c].pc = "cipher"
    <3>1. \A d \in Clients : ~Replacing(d, p)
      BY <1>1, <1>5, <2>1 DEF Replacing
    <3>2. Stays(p)
      BY <1>2, <1>8, <2>1 DEF SealOutcome, SealAt
    <3> QED
      BY <1>2, <1>8, <2>1, <3>1, <3>2
         DEF MatchInv, MatchUnlessReplaced, Matching, Stays, Kinds, Sidecars
  <2>2. CASE op[c].pc # "cipher"
    BY <1>2, <1>6, <1>8, <2>2
       DEF SealOutcome, SealAt, Becomes, Stays, Kinds, Matching, Sidecars
  <2> QED
    BY <2>1, <2>2
<1>11. ASSUME \A d \in Clients : ~Replacing(d, p)'
       PROVE  op'[c] = None
  <2> SUFFICES ASSUME op'[c] # None PROVE FALSE
    OBVIOUS
  <2>1. op'[c].does = "seal" /\ op'[c].path = p /\ op'[c].pc # "cipher"
    BY <1>2, <1>3, <1>7 DEF Continues
  <2> QED
    BY <1>11, <2>1 DEF Replacing, Doing
<1>9. MatchUnlessReplaced'
  <2>1. op'[c] = None /\ p \notin torn' => (op[c].pc = "cipher" => p \notin torn)
    BY <1>2 DEF SealOutcome, SealAt, Ends
  <2> QED
    BY <1>4, <1>8, <1>11, <2>1 DEF MatchUnlessReplaced
<1>12. Deleted'
  <2> SUFFICES ASSUME NEW d \in Clients, Doing(d, "delete")', op'[d].pc # "cipher",
                      op'[d].path = p, \A e \in Clients : ~Replacing(e, p)'
               PROVE  Matching(disk'[p])
    BY <1>4 DEF Deleted
  <2>1. op'[c] = None
    BY <1>11
  <2>2. CASE op[c].pc = "cipher"
    <3>1. Stays(p) /\ \A e \in Clients : ~Replacing(e, p)
      BY <1>1, <1>2, <1>5, <2>1, <2>2 DEF SealOutcome, SealAt, Replacing
    <3>2. Doing(d, "delete") /\ op'[d] = op[d]
      BY <1>2, <2>1 DEF WorksAt, OthersWait, Doing
    <3>3. Matching(disk[p])
      BY <1>2, <3>1, <3>2 DEF MatchInv, Deleted
    <3> QED
      BY <3>1, <3>3 DEF Matching, Stays, Kinds, Sidecars
  <2>3. CASE op[c].pc # "cipher"
    BY <1>8, <2>1, <2>3
  <2> QED
    BY <2>2, <2>3
<1>10. Replaced'
  <2> SUFFICES ASSUME NEW d \in Clients, Doing(d, "seal")', op'[d].pc # "cipher"
               PROVE  LET f == disk'[op'[d].path]
                      IN  /\ f.cipher \in {None, op'[d].file}
                          /\ op'[d].pc # "dropIdx" => f.idx \in {None, op'[d].file}
                          /\ op'[d].pc = "abort" => f.idx = None
                          /\ op'[d].pc = "meta" => f.meta = None
    BY DEF Replaced
  <2>1. CASE d = c
    BY <1>7, <2>1 DEF Doing
  <2>2. CASE d # c
    <3>1. op'[d] = op[d] /\ Doing(d, "seal") /\ op[d].path \in Paths /\ op[d].path # p
      BY <1>4, <1>5, <2>2, OpIs DEF MatchInv, Seal
    <3>2. \A k \in Kinds : disk'[op[d].path][k] = disk[op[d].path][k]
      BY <1>2, <3>1 DEF WorksAt, Stays
    <3> QED
      BY <3>1, <3>2 DEF MatchInv, Replaced, Kinds
  <2> QED
    BY <2>1, <2>2
<1> QED
  BY <1>4, <1>9, <1>10, <1>12 DEF MatchInv

\* Reading changes nothing for anybody else.
LEMMA ReadMatches ==
  ASSUME MatchInv, TypeOK', NEW c \in Clients, ReadStep(c)
  PROVE  MatchInv'
<1>1. /\ disk' = disk /\ torn' = torn /\ op[c] # None /\ op[c].does = "read"
      /\ \A d \in Clients \ {c} : op'[d] = op[d]
      /\ \/ op'[c] = None
         \/ /\ op'[c] # None /\ op'[c].does = "read" /\ op'[c].path = op[c].path
            /\ op'[c].first = op[c].first /\ op'[c].alone = op[c].alone
            /\ /\ Seen(op[c])
               /\ \A k \in Kinds : disk[op[c].path][k] \in {None, op[c].first}
               => Seen(op'[c])
  BY ReadIs DEF MatchInv, OthersWait
<1>2. /\ \A d \in Clients, what \in {"seal", "delete", "move"} : Doing(d, what)' <=> Doing(d, what)
      /\ \A d \in Clients : Doing(d, "seal") => op'[d] = op[d]
      /\ \A d \in Clients : ~Doing(d, "move")
  BY <1>1 DEF Doing, MatchInv
<1>3. MatchUnlessReplaced' /\ SealsAlone' /\ Replaced'
  BY <1>1, <1>2 DEF MatchInv, MatchUnlessReplaced, Replacing, SealsAlone, Replaced
<1>8. Deleted'
  BY <1>1, <1>2 DEF MatchInv, Deleted, Replacing, Doing
<1>4. \A e \in Clients : \A x : ~PutsAt(e, x) => ~PutsAt(e, x)'
  BY <1>2 DEF PutsAt
<1>5. ASSUME NEW d \in Clients \ {c}, Doing(d, "read")', op'[d].alone
      PROVE  Sees(op[d])'
  <2>1. Doing(d, "read") /\ op'[d] = op[d] /\ Sees(op[d])
    BY <1>1, <1>5 DEF MatchInv, AloneSees, Doing
  <2> QED
    BY <1>1, <1>2, <1>4, <1>5, <2>1, StillSees DEF MatchInv, Sees
<1>6. ASSUME Doing(c, "read")', op'[c].alone
      PROVE  Sees(op[c])'
  <2>1. /\ op'[c].path = op[c].path /\ op'[c].first = op[c].first
        /\ op'[c].alone = op[c].alone
        /\ /\ Seen(op[c])
           /\ \A k \in Kinds : disk[op[c].path][k] \in {None, op[c].first}
           => Seen(op'[c])
    BY <1>1, <1>6 DEF Doing
  <2>2. op[c].alone
    BY <1>6, <2>1, Zenon
  <2>3. Sees(op[c])
    BY <1>1, <2>2 DEF MatchInv, AloneSees, Doing
  <2>4. Seen(op'[c])
    BY <2>1, <2>3 DEF Sees
  <2> QED
    BY <1>1, <1>2, <1>4, <2>1, <2>3, <2>4 DEF Sees, Seen
<1>7. AloneSees'
  BY <1>5, <1>6 DEF AloneSees
<1> QED
  BY <1>2, <1>3, <1>7, <1>8 DEF MatchInv

LEMMA MatchInit == Init => MatchInv
<1> SUFFICES ASSUME Init PROVE MatchInv
  OBVIOUS
<1>1. PICK at \in [Paths -> Versions \cup {None}] : disk = [p \in Paths |-> [k \in Kinds |-> at[p]]]
  BY DEF Init
<1>2. \A c \in Clients : op[c] = None
  BY DEF Init
<1>3. MatchUnlessReplaced
  BY <1>1 DEF MatchUnlessReplaced, Matching, Kinds, Sidecars
<1> QED
  BY <1>2, <1>3, TypeInit DEF MatchInv, SealsAlone, Replaced, Deleted, AloneSees, Doing

\* A crash spoils only what requests are working on.
LEMMA CrashMatches ==
  ASSUME MatchInv, TypeOK', Crash
  PROVE  MatchInv'
<1>1. /\ disk' = disk /\ \A c \in Clients : op'[c] = None
      /\ torn' = torn \cup {p \in Paths : \E c \in Clients : Touches(c, p)}
  BY DEF Crash
<1>2. \A c \in Clients : \A p : Replacing(c, p) => Touches(c, p)
  BY DEF Replacing, Touches, Doing
<1>3. MatchUnlessReplaced'
  BY <1>1, <1>2 DEF MatchInv, MatchUnlessReplaced
<1> QED
  BY <1>1, <1>3 DEF MatchInv, SealsAlone, Replaced, Deleted, AloneSees, Doing

LEMMA MatchNext ==
  ASSUME \A c \in Clients : "move" \notin Makes[c]
  PROVE  MatchInv /\ [Next]_vars => MatchInv'
<1> SUFFICES ASSUME MatchInv, [Next]_vars PROVE MatchInv'
  OBVIOUS
<1>1. TypeOK'
  <2>1. MovesAway
    BY DEF MatchInv, MovesAway
  <2> QED
    BY <2>1, TypeNext DEF MatchInv
<1>2. CASE Next
  <2>1. \A c \in Clients : ~MoveStep(c)
    BY DEF MatchInv, MoveStep, MoveCipher, MoveCipherFail, MoveSidecar, MoveSidecarFail,
           MoveDone, UndoCipher, UndoSidecar, At
  <2> QED
    BY <1>1, <1>2, <2>1, StartMatches, SealMatches, DeleteMatches, ReadMatches, CrashMatches
       DEF Next
<1>3. CASE UNCHANGED vars
  BY <1>1, <1>3
     DEF vars, MatchInv, MatchUnlessReplaced, Replacing, SealsAlone, Replaced, Deleted,
         AloneSees, Sees, Doing, PutsAt, Moving, Gone
<1> QED
  BY <1>2, <1>3

\* The invariant of requests that race to seal and to delete: outside of a seal
\* that has replaced the ciphertext, the sidecars belong to it or are missing,
\* and what a seal has put in place so far, others can only have deleted.
THEOREM SealsMatch ==
  ASSUME \A c \in Clients : "move" \notin Makes[c]
  PROVE  Spec => []MatchInv
  BY MatchInit, MatchNext, PTL DEF Spec

\* However many requests seal and delete, and whichever of their calls fail,
\* once they are done no ciphertext has the size or the index of another file
\* (seal_uploaded_file, Storage::delete).
THEOREM SettledFilesMatch ==
  ASSUME \A c \in Clients : "move" \notin Makes[c]
  PROVE  Spec => []SettledMatch
<1>1. MatchInv => SettledMatch
  <2> SUFFICES ASSUME MatchInv, Settled, NEW p \in Paths \ torn PROVE Fits(disk[p])
    BY DEF SettledMatch
  <2>1. Matching(disk[p])
    BY DEF MatchInv, MatchUnlessReplaced, Settled, Replacing, Doing
  <2> QED
    BY <2>1 DEF Matching, Fits, Sidecars
<1> QED
  BY <1>1, SealsMatch, PTL

\* What a reader has seen alone is enough to serve the whole file.
LEMMA SeesWhole == TypeOK /\ AloneSees => AloneServesWhole
<1> SUFFICES ASSUME TypeOK, AloneSees, NEW c \in Clients, At(c, "read", "serve"), op[c].alone
             PROVE  ServesWhole(op[c])
  BY DEF AloneServesWhole
<1>1. Seen(op[c]) /\ op[c].pc = "serve"
  BY DEF AloneSees, Sees, At
<1> QED
  BY <1>1 DEF Seen, ServesWhole

\* A reader beside whom nothing is put at its path serves the bytes that it
\* has announced, all of one version (serve_encrypted), though the file may be
\* deleted under it between its two opens.
THEOREM ReadersServeWhole ==
  ASSUME \A c \in Clients : "move" \notin Makes[c]
  PROVE  Spec => []AloneServesWhole
<1>1. MatchInv => AloneServesWhole
  BY SeesWhole DEF MatchInv
<1> QED
  BY <1>1, SealsMatch, PTL
-----------------------------------------------------------------------------
(* One writer.                                                             *)

\* Whoever writes is the only one.
LEMMA WritesAlone ==
  ASSUME OneWriter, WriterInv, NEW c \in Clients, Writing(c) \/ ~(Makes[c] \subseteq {"read"})
  PROVE  \A d \in Clients \ {c} : ~Writing(d)
  BY DEF OneWriter, WriterInv

\* Only writers touch files.
LEMMA TouchesIs ==
  ASSUME NEW c \in Clients, NEW p
  PROVE  /\ PutsAt(c, p) => Writing(c)
         /\ Touches(c, p) <=> Writing(c) /\ (op[c].path = p \/ PutsAt(c, p))
  BY DEF PutsAt, Touches, Writing, Doing

\* What the writer may do at a path without disturbing those who read there.
Harmless(c, x) ==
    /\ x \notin torn'
    /\ ~PutsAt(c, x)'
    /\ \A k \in Kinds :
          \/ disk'[x][k] \in {None, disk[x][k]}
          \/ Doing(c, "move") /\ op[c].path = x /\ disk'[x][k] = Moving(c)[k]
    /\ Doing(c, "move")' /\ op'[c].path = x =>
          /\ Doing(c, "move") /\ op[c].path = x
          /\ \A k \in Kinds : Moving(c)'[k] = Moving(c)[k]

LEMMA HarmlessSees ==
  ASSUME TypeOK, AloneSees, NEW c \in Clients, Writing(c), OthersWait(c), ~Doing(c, "read")',
         \A d \in Clients \ {c} : ~Writing(d),
         \A x \in Paths \ torn : ~PutsAt(c, x) => Harmless(c, x)
  PROVE  AloneSees'
<1> SUFFICES ASSUME NEW d \in Clients, Doing(d, "read")', op'[d].alone
             PROVE  Sees(op[d])'
  BY DEF AloneSees
<1>1. d # c /\ op'[d] = op[d] /\ Doing(d, "read") /\ Sees(op[d])
  BY DEF OthersWait, AloneSees, Doing
<1>2. PICK r : r = op[d]
  OBVIOUS
<1>3. r.path \in Paths \ torn /\ Harmless(c, r.path) /\ Sees(r)
  BY <1>1, <1>2, OpIs DEF Read, Sees
<1>4. \A e \in Clients : ~PutsAt(e, r.path)'
  <2>1. ASSUME NEW e \in Clients \ {c}
        PROVE  ~PutsAt(e, r.path)'
    BY <2>1, TouchesIs DEF OthersWait, PutsAt, Doing, Writing
  <2> QED
    BY <1>3, <2>1 DEF Harmless
<1>5. \A k \in Kinds : disk'[r.path][k] \in {None, r.first}
  BY <1>3 DEF Harmless, Sees
<1>6. \A e \in Clients : Doing(e, "move")' => e = c
  BY DEF OthersWait, Doing, Writing
<1>7. Doing(c, "move")' /\ op'[c].path = r.path =>
          \A k \in Kinds : Moving(c)'[k] \in {None, r.first}
  BY <1>3 DEF Harmless, Sees
<1>8. \A e \in Clients : Doing(e, "move")' /\ op'[e].path = r.path =>
          \A k \in Kinds : Moving(e)'[k] \in {None, r.first}
  <2> SUFFICES ASSUME NEW e \in Clients, Doing(e, "move")', op'[e].path = r.path,
                      NEW k \in Kinds
               PROVE  Moving(e)'[k] \in {None, r.first}
    OBVIOUS
  <2>1. e = c
    BY <1>6
  <2>2. op'[c].path = r.path /\ Doing(c, "move")'
    BY <2>1
  <2>3. Moving(c)'[k] \in {None, r.first}
    BY <1>7, <2>2
  <2> QED
    BY <2>1, <2>3
<1>9. Seen(r)'
  BY <1>3 DEF Sees, Seen
<1>10. Sees(r)'
  BY <1>3, <1>4, <1>5, <1>8, <1>9 DEF Sees, Harmless
<1> QED
  BY <1>1, <1>2, <1>10 DEF Sees, Seen

\* What a writing step that is not part of a move means for the rest.
LEMMA WorkKeeps ==
  ASSUME OneWriter, WriterInv, TypeOK', NEW c \in Clients, NEW p \in Paths,
         op[c] # None, op[c].path = p, op[c].does \in {"seal", "delete"},
         WorksAt(c, p),
         op'[c] = None \/ (op'[c] # None /\ op'[c].does = op[c].does /\ op'[c].path = p),
         torn' \in {torn, torn \ {p}},
         op[c].does = "delete" => \A k \in Kinds : disk'[p][k] \in {None, disk[p][k]},
         op'[c] = None /\ p \notin torn' => Intact(disk'[p]),
         Doing(c, "seal")' =>
             LET f == disk'[p]
             IN  /\ op'[c].pc # "cipher"
                 /\ f.cipher = op'[c].file
                 /\ op'[c].pc \in {"idx", "abort"} => f.idx = None
                 /\ op'[c].pc = "abort" => "index" \in Faults
                 /\ op'[c].pc \in {"dropMeta", "meta"} => f.idx = op'[c].file
                 /\ op'[c].pc = "meta" => f.meta = None,
         Doing(c, "delete")' =>
             LET f == disk'[p]
             IN  /\ op'[c].pc # "cipher"
                 /\ f.cipher = None
                 /\ op'[c].pc = "idx" => f.meta = None
  PROVE  WriterInv'
<1>1. Writing(c) /\ ~Doing(c, "move") /\ ~Doing(c, "read")
  BY DEF Writing, Doing
<1>2. /\ \A d \in Clients \ {c} : ~Writing(d) /\ op'[d] = op[d]
      /\ \A q \in Paths \ {p}, k \in Kinds : disk'[q][k] = disk[q][k]
  BY <1>1, WritesAlone DEF WorksAt, OthersWait, Stays
<1>3. /\ \A d \in Clients \ {c} : ~Writing(d)'
      /\ Writing(c)' => op'[c] # None /\ op'[c].path = p /\ op'[c].does = op[c].does
  BY <1>2 DEF Writing, Doing
<1>4. \A d \in Clients : Writing(d)' => ~(Makes[d] \subseteq {"read"})
  BY <1>1, <1>3 DEF WriterInv
<1>5. /\ \A d \in Clients : ~Doing(d, "move")'
      /\ \A d \in Clients : Doing(d, "seal")' \/ Doing(d, "delete")' => d = c
  BY <1>3 DEF Writing, Doing
<1>6. IntactUnlessTouched'
  <2> SUFFICES ASSUME NEW x \in Paths, x \notin torn', \A d \in Clients : ~Touches(d, x)'
               PROVE  Intact(disk'[x])
    BY DEF IntactUnlessTouched, Intact
  <2>1. CASE x = p
    <3>1. op'[c] = None
      BY <1>1, <2>1 DEF Touches, Doing
    <3> QED
      BY <2>1, <3>1
  <2>2. CASE x # p
    <3>1. \A d \in Clients : ~Touches(d, x)
      BY <1>1, <1>2, <2>2 DEF Touches, PutsAt, Writing
    <3>2. Intact(disk[x])
      BY <2>2, <3>1 DEF WriterInv, IntactUnlessTouched
    <3> QED
      BY <1>2, <2>2, <3>2 DEF Intact, Kinds, Sidecars
  <2> QED
    BY <2>1, <2>2
<1>7. SealStaged'
  BY <1>3, <1>5 DEF SealStaged, Doing
<1>8. DeleteStaged'
  BY <1>3, <1>5 DEF DeleteStaged, Doing
<1>9. MoveStaged'
  BY <1>5 DEF MoveStaged
<1>10. AloneSees'
  <2>1. ASSUME NEW x \in Paths \ torn, ~PutsAt(c, x)
        PROVE  Harmless(c, x)
    <3>1. x \notin torn'
      OBVIOUS
    <3>2. ~PutsAt(c, x)'
      BY <2>1, <1>3, <1>5 DEF PutsAt, Doing
    <3>3. \A k \in Kinds : disk'[x][k] \in {None, disk[x][k]}
      <4>1. CASE x = p
        BY <2>1, <4>1 DEF PutsAt, Doing
      <4>2. CASE x # p
        BY <1>2, <4>2
      <4> QED
        BY <4>1, <4>2
    <3> QED
      BY <1>5, <3>1, <3>2, <3>3 DEF Harmless
  <2>2. ~Doing(c, "read")'
    BY <1>3 DEF Doing
  <2> QED
    BY <1>1, <1>2, <2>1, <2>2, HarmlessSees DEF WriterInv, WorksAt
<1> QED
  BY <1>4, <1>6, <1>7, <1>8, <1>9, <1>10 DEF WriterInv

\* A seal that succeeds leaves a whole file, and one that fails to write a
\* sidecar a file without it.
LEMMA SealKeeps ==
  ASSUME OneWriter, WriterInv, TypeOK', NEW c \in Clients, SealStep(c)
  PROVE  WriterInv'
<1>1. PICK p, v : p = op[c].path /\ v = op[c].file
  OBVIOUS
<1>2. /\ p \in Paths /\ v \in Versions /\ op[c] # None /\ op[c].does = "seal" /\ WorksAt(c, p)
      /\ SealOutcome(c, p, v)
  BY <1>1, SealStepIs DEF WriterInv, Seal, Doing
<1>3. LET f == disk[p]
      IN  /\ op[c].pc = "cipher" /\ p \notin torn => Intact(f)
          /\ op[c].pc # "cipher" => f.cipher = v
          /\ op[c].pc \in {"idx", "abort"} => f.idx = None
          /\ op[c].pc = "abort" => "index" \in Faults
          /\ op[c].pc \in {"dropMeta", "meta"} => f.idx = v
          /\ op[c].pc = "meta" => f.meta = None
  BY <1>1, <1>2 DEF WriterInv, SealStaged, Doing
<1>4. /\ op'[c] = None \/ (op'[c] # None /\ op'[c].does = "seal" /\ op'[c].path = p)
      /\ torn' \in {torn, torn \ {p}}
  BY <1>1, <1>2 DEF SealOutcome, SealAt, Ends
<1>5. ASSUME op'[c] = None, p \notin torn'
      PROVE  Intact(disk'[p])
  BY <1>2, <1>3, <1>5 DEF SealOutcome, SealAt, Ends, Becomes, Stays, Intact, Kinds, Sidecars
<1>6. ASSUME op'[c] # None
      PROVE  LET f == disk'[p]
             IN  /\ op'[c].pc # "cipher"
                 /\ f.cipher = op'[c].file
                 /\ op'[c].pc \in {"idx", "abort"} => f.idx = None
                 /\ op'[c].pc = "abort" => "index" \in Faults
                 /\ op'[c].pc \in {"dropMeta", "meta"} => f.idx = op'[c].file
                 /\ op'[c].pc = "meta" => f.meta = None
  BY <1>1, <1>2, <1>3, <1>6 DEF SealOutcome, SealAt, Ends, Becomes, Stays, Kinds
<1>7. ~Doing(c, "delete")' /\ (Doing(c, "seal")' => op'[c] # None)
  BY <1>4 DEF Doing
<1> QED
  BY <1>1, <1>2, <1>4, <1>5, <1>6, <1>7, WorkKeeps

\* A delete that runs to its end leaves nothing.
LEMMA DeleteKeeps ==
  ASSUME OneWriter, WriterInv, TypeOK', NEW c \in Clients, DeleteStep(c)
  PROVE  WriterInv'
<1>1. PICK p : p = op[c].path
  OBVIOUS
<1>2. /\ p \in Paths /\ op[c] # None /\ op[c].does = "delete" /\ WorksAt(c, p)
      /\ DeleteOutcome(c, p)
  BY <1>1, DeleteStepIs DEF WriterInv, Delete, Doing
<1>3. LET f == disk[p]
      IN  /\ op[c].pc = "cipher" /\ p \notin torn => Intact(f)
          /\ op[c].pc # "cipher" => f.cipher = None
          /\ op[c].pc = "idx" => f.meta = None
  BY <1>1, <1>2 DEF WriterInv, DeleteStaged, Doing
<1>4. /\ op'[c] = None \/ (op'[c] # None /\ op'[c].does = "delete" /\ op'[c].path = p)
      /\ torn' \in {torn, torn \ {p}}
  BY <1>1, <1>2 DEF DeleteOutcome, DeleteAt, Ends
<1>5. ASSUME op'[c] = None, p \notin torn'
      PROVE  Intact(disk'[p])
  BY <1>2, <1>3, <1>5 DEF DeleteOutcome, DeleteAt, Ends, Becomes, Stays, Intact, Kinds, Sidecars
<1>6. ASSUME op'[c] # None
      PROVE  LET f == disk'[p]
             IN  /\ op'[c].pc # "cipher"
                 /\ f.cipher = None
                 /\ op'[c].pc = "idx" => f.meta = None
  BY <1>1, <1>2, <1>3, <1>6 DEF DeleteOutcome, DeleteAt, Ends, Becomes, Stays, Kinds
<1>7. ~Doing(c, "seal")' /\ (Doing(c, "delete")' => op'[c] # None)
  BY <1>4 DEF Doing
<1>8. \A k \in Kinds : disk'[p][k] \in {None, disk[p][k]}
  BY <1>2 DEF DeleteOutcome, Becomes, Stays
<1> QED
  BY <1>1, <1>2, <1>4, <1>5, <1>6, <1>7, <1>8, WorkKeeps

\* Where the parts are of the file that is moved.
LEMMA MovingIs ==
  ASSUME NEW c, NEW k \in Kinds
  PROVE  Moving(c)[k] = IF Gone(c, k) THEN disk[op[c].dst][k] ELSE disk[op[c].path][k]
  BY DEF Moving

\* A move that goes on neither changes nor loses the file that it moves.
LEMMA MoveGoesOnStaged ==
  ASSUME WriterInv, NEW c \in Clients, MoveStep(c), op'[c] # None
  PROVE  /\ Doing(c, "move")' /\ op'[c].path = op[c].path /\ op'[c].dst = op[c].dst
         /\ \A k \in Kinds : Moving(c)'[k] = Moving(c)[k]
         /\ LET m == op'[c]
            IN  /\ m.path # m.dst
                /\ m.todo \cap m.moved = {}
                /\ m.pc # "cipher"
                /\ "idx" \in m.moved => "meta" \notin m.todo /\ m.pc = "sidecars"
                /\ m.path \notin torn =>
                      /\ \A k \in Kinds : Gone(c, k)' => disk'[m.path][k] = None
                      /\ m.pc = "sidecars" =>
                            \A k \in Sidecars \ m.moved :
                                disk'[m.path][k] # None => k \in m.todo
                /\ m.dst \notin torn' =>
                      /\ m.path \notin torn
                      /\ \A k \in Kinds : ~Gone(c, k)' => disk'[m.dst][k] = None
<1>1. Doing(c, "move")
  BY DEF MoveStep, MoveCipher, MoveCipherFail, MoveSidecar, MoveSidecarFail, MoveDone,
         UndoCipher, UndoSidecar, At
<1>2. PICK p, q, todo, moved : /\ p = op[c].path /\ q = op[c].dst
                               /\ todo = op[c].todo /\ moved = op[c].moved
  OBVIOUS
<1>3. /\ p # q /\ todo \cap moved = {}
      /\ op[c].pc = "cipher" => moved = {}
      /\ "idx" \in moved => "meta" \notin todo /\ op[c].pc = "sidecars"
      /\ Moving(c).cipher # None
      /\ p \notin torn =>
            /\ \A k \in Kinds : Gone(c, k) => disk[p][k] = None
            /\ op[c].pc \in {"cipher", "sidecars"} =>
                  \A k \in Sidecars \ moved : disk[p][k] # None => k \in todo
      /\ q \notin torn =>
            /\ op[c].pc # "cipher" => p \notin torn
            /\ \A k \in Kinds : ~Gone(c, k) => disk[q][k] = None
  BY <1>1, <1>2 DEF WriterInv, MoveStaged
<1>4. /\ op[c] \in Move /\ p \in Paths /\ q \in Paths
      /\ todo \subseteq Sidecars /\ moved \subseteq Sidecars
      /\ MovesAt(c, p, q) /\ MoveOutcome(c, p, q, todo, moved)
  BY <1>1, <1>2, <1>3, MoveStepIs DEF WriterInv, Move
<1>5. /\ op'[c].does = "move" /\ op'[c].path = p /\ op'[c].dst = q /\ op'[c].pc # "cipher"
      /\ torn' = torn \/ (torn' = torn \cup {q} /\ p \in torn)
      /\ q \notin torn' => p \notin torn
  <2>1. op[c].pc # "cipher" /\ q \notin torn => p \notin torn
    BY <1>3
  <2> QED
    BY <1>2, <1>4, <2>1 DEF MoveOutcome, MoveAt, Ends
<1>6. /\ Gone(c, "cipher") <=> op[c].pc \in {"sidecars", "undo"}
      /\ \A k \in Sidecars : Gone(c, k) <=> k \in moved
      /\ Gone(c, "cipher")' <=> op'[c].pc \in {"sidecars", "undo"}
      /\ \A k \in Sidecars : Gone(c, k)' <=> k \in op'[c].moved
      /\ \A k \in Kinds : Moving(c)[k] = IF Gone(c, k) THEN disk[q][k] ELSE disk[p][k]
      /\ \A k \in Kinds : Moving(c)'[k] = IF Gone(c, k)' THEN disk'[q][k] ELSE disk'[p][k]
  BY <1>2, <1>5 DEF Gone, Moving, Sidecars
<1>7. Kinds = {"cipher"} \cup Sidecars /\ "cipher" \notin Sidecars
  BY DEF Kinds, Sidecars
<1> DEFINE Staged ==
      /\ \A k \in Kinds : Moving(c)'[k] = Moving(c)[k]
      /\ op'[c].todo \cap op'[c].moved = {}
      /\ "idx" \in op'[c].moved => "meta" \notin op'[c].todo /\ op'[c].pc = "sidecars"
      /\ p \notin torn =>
            /\ \A k \in Kinds : Gone(c, k)' => disk'[p][k] = None
            /\ op'[c].pc = "sidecars" =>
                  \A k \in Sidecars \ op'[c].moved :
                      disk'[p][k] # None => k \in op'[c].todo
      /\ q \notin torn' => \A k \in Kinds : ~Gone(c, k)' => disk'[q][k] = None
<1>8. ASSUME op[c].pc = "cipher", Carried("cipher", p, q), MoveAt(c, "sidecars", todo, moved)
      PROVE  Staged
  <2>1. /\ op'[c].pc = "sidecars" /\ op'[c].todo = todo /\ op'[c].moved = moved /\ moved = {}
        /\ ~Gone(c, "cipher") /\ Gone(c, "cipher")'
        /\ \A k \in Sidecars : ~Gone(c, k) /\ ~Gone(c, k)'
    BY <1>3, <1>6, <1>8 DEF MoveAt
  <2>2. /\ disk'[q].cipher = disk[p].cipher /\ disk'[p].cipher = None
        /\ \A k \in Sidecars : disk'[p][k] = disk[p][k] /\ disk'[q][k] = disk[q][k]
    BY <1>7, <1>8 DEF Carried
  <2>3. \A k \in Kinds : Moving(c)'[k] = Moving(c)[k]
    BY <1>6, <1>7, <2>1, <2>2
  <2>4. p \notin torn =>
            /\ \A k \in Kinds : Gone(c, k)' => disk'[p][k] = None
            /\ \A k \in Sidecars \ moved : disk'[p][k] # None => k \in todo
    BY <1>3, <1>7, <1>8, <2>1, <2>2
  <2>5. q \notin torn' => \A k \in Kinds : ~Gone(c, k)' => disk'[q][k] = None
    BY <1>3, <1>5, <1>7, <2>1, <2>2
  <2> QED
    BY <1>3, <2>1, <2>3, <2>4, <2>5
<1>9. ASSUME NEW k \in todo, op[c].pc = "sidecars", k = "idx" => "meta" \notin todo,
             Carried(k, p, q), MoveAt(c, "sidecars", todo \ {k}, moved \cup {k}), torn' = torn
      PROVE  Staged
  <2>1. /\ op'[c].pc = "sidecars" /\ op'[c].todo = todo \ {k} /\ op'[c].moved = moved \cup {k}
        /\ k \in Sidecars /\ k \notin moved
        /\ Gone(c, "cipher") /\ Gone(c, "cipher")' /\ ~Gone(c, k) /\ Gone(c, k)'
        /\ \A j \in Kinds \ {k} : Gone(c, j)' <=> Gone(c, j)
    BY <1>3, <1>4, <1>6, <1>7, <1>9 DEF MoveAt
  <2>2. /\ disk'[q][k] = disk[p][k] /\ disk'[p][k] = None
        /\ \A j \in Kinds \ {k} : disk'[p][j] = disk[p][j] /\ disk'[q][j] = disk[q][j]
    BY <1>9 DEF Carried
  <2>3. \A j \in Kinds : Moving(c)'[j] = Moving(c)[j]
    BY <1>6, <2>1, <2>2
  <2>4. p \notin torn => \A j \in Kinds : Gone(c, j)' => disk'[p][j] = None
    BY <1>3, <2>1, <2>2
  <2>5. p \notin torn =>
            \A j \in Sidecars \ (moved \cup {k}) : disk'[p][j] # None => j \in todo \ {k}
    BY <1>3, <1>7, <1>9, <2>2
  <2>6. q \notin torn' => \A j \in Kinds : ~Gone(c, j)' => disk'[q][j] = None
    BY <1>3, <1>9, <2>1, <2>2
  <2>7. "idx" \in moved \cup {k} => "meta" \notin todo
    BY <1>3, <1>9
  <2>8. (todo \ {k}) \cap (moved \cup {k}) = {}
    BY <1>3
  <2> QED
    BY <2>1, <2>3, <2>4, <2>5, <2>6, <2>7, <2>8
<1>10. ASSUME op[c].pc = "sidecars", todo # {}, Stays(p), Stays(q),
              MoveAt(c, "undo", todo, moved), torn' = torn
       PROVE  Staged
  <2>1. /\ op'[c].pc = "undo" /\ op'[c].todo = todo /\ op'[c].moved = moved
        /\ \A j \in Kinds : Gone(c, j)' <=> Gone(c, j)
    BY <1>6, <1>7, <1>10 DEF MoveAt
  <2>2. \A j \in Kinds : disk'[p][j] = disk[p][j] /\ disk'[q][j] = disk[q][j]
    BY <1>10 DEF Stays
  <2>3. "idx" \notin moved
    BY <1>3, <1>4, <1>10 DEF Sidecars
  <2> QED
    BY <1>3, <1>6, <1>10, <2>1, <2>2, <2>3
<1>11. ASSUME op[c].pc = "undo", Returned("cipher", p, q),
              MoveAt(c, "undoMeta", todo, moved), torn' = torn
       PROVE  Staged
  <2>1. /\ op'[c].pc = "undoMeta" /\ op'[c].todo = todo /\ op'[c].moved = moved
        /\ Gone(c, "cipher") /\ ~Gone(c, "cipher")'
        /\ \A j \in Sidecars : Gone(c, j)' <=> Gone(c, j)
    BY <1>6, <1>11 DEF MoveAt
  <2>2. disk[q].cipher # None
    BY <1>3, <1>6, <1>7, <2>1
  <2>3. /\ disk'[p].cipher = disk[q].cipher /\ disk'[q].cipher = None
        /\ \A j \in Sidecars : disk'[p][j] = disk[p][j] /\ disk'[q][j] = disk[q][j]
    BY <1>7, <1>11, <2>2 DEF Returned, Carried
  <2>4. \A k \in Kinds : Moving(c)'[k] = Moving(c)[k]
    BY <1>6, <1>7, <2>1, <2>3
  <2>5. p \notin torn => \A j \in Kinds : Gone(c, j)' => disk'[p][j] = None
    BY <1>3, <1>7, <2>1, <2>3
  <2>6. q \notin torn' => \A j \in Kinds : ~Gone(c, j)' => disk'[q][j] = None
    BY <1>3, <1>7, <1>11, <2>1, <2>3
  <2>7. "idx" \notin moved
    BY <1>3, <1>11
  <2> QED
    BY <1>3, <2>1, <2>4, <2>5, <2>6, <2>7
<1>12. Staged
  <2> HIDE DEF Staged
  <2> QED
    BY <1>4, <1>8, <1>9, <1>10, <1>11 DEF MoveOutcome, Ends
<1>13. Doing(c, "move")'
  BY <1>5 DEF Doing
<1> QED
  BY <1>2, <1>3, <1>5, <1>12, <1>13

\* What is found at the path of a file that is moved is that file or nothing.
LEMMA MoveLeaves ==
  ASSUME WriterInv, NEW c \in Clients, MoveStep(c), NEW k \in Kinds
  PROVE  disk'[op[c].path][k] \in {None, disk[op[c].path][k], Moving(c)[k]}
<1>1. Doing(c, "move")
  BY DEF MoveStep, MoveCipher, MoveCipherFail, MoveSidecar, MoveSidecarFail, MoveDone,
         UndoCipher, UndoSidecar, At
<1>2. PICK p, q, todo, moved : /\ p = op[c].path /\ q = op[c].dst
                               /\ todo = op[c].todo /\ moved = op[c].moved
  OBVIOUS
<1>3. p # q /\ ("idx" \in moved => op[c].pc = "sidecars")
  BY <1>1, <1>2 DEF WriterInv, MoveStaged
<1>4. moved \subseteq Sidecars /\ MoveOutcome(c, p, q, todo, moved)
  BY <1>1, <1>2, <1>3, MoveStepIs DEF WriterInv, Move
<1>5. Moving(c)[k] = IF Gone(c, k) THEN disk[q][k] ELSE disk[p][k]
  BY <1>2, MovingIs
<1>6. ASSUME NEW j \in Kinds, Carried(j, p, q)
      PROVE  disk'[p][k] \in {None, disk[p][k]}
  BY <1>6 DEF Carried
<1>7. ASSUME NEW j \in Kinds, Gone(c, j), Returned(j, p, q)
      PROVE  disk'[p][k] \in {disk[p][k], Moving(c)[k]}
  BY <1>5, <1>7 DEF Returned, Carried, Stays
<1>8. Stays(p) => disk'[p][k] = disk[p][k]
  BY DEF Stays
<1>9. op[c].pc = "undo" => Gone(c, "cipher")
  BY DEF Gone
<1>10. op[c].pc = "undoMeta" /\ moved # {} => Gone(c, "meta")
  BY <1>2, <1>3, <1>4 DEF Gone, Sidecars
<1>11. todo \subseteq Kinds
  BY <1>1, <1>2, OpIs DEF WriterInv, Move, Sidecars, Kinds
<1> QED
  BY <1>2, <1>4, <1>6, <1>7, <1>8, <1>9, <1>10, <1>11 DEF MoveOutcome, Kinds

\* A move that ends has brought the whole file to its destination, or has
\* left it, or put it back, where it was.
LEMMA MoveEnds ==
  ASSUME WriterInv, NEW c \in Clients, MoveStep(c), op'[c] = None
  PROVE  /\ torn' = torn
         /\ op[c].path \notin torn => Intact(disk'[op[c].path])
         /\ op[c].dst \notin torn => Intact(disk'[op[c].dst])
<1>1. Doing(c, "move")
  BY DEF MoveStep, MoveCipher, MoveCipherFail, MoveSidecar, MoveSidecarFail, MoveDone,
         UndoCipher, UndoSidecar, At
<1>2. PICK p, q, todo, moved : /\ p = op[c].path /\ q = op[c].dst
                               /\ todo = op[c].todo /\ moved = op[c].moved
  OBVIOUS
<1>3. /\ p # q
      /\ op[c].pc = "cipher" => moved = {}
      /\ "idx" \in moved => op[c].pc = "sidecars"
      /\ Moving(c).cipher # None
      /\ p \notin torn =>
            /\ Intact(Moving(c))
            /\ \A k \in Kinds : Gone(c, k) => disk[p][k] = None
            /\ op[c].pc \in {"cipher", "sidecars"} =>
                  \A k \in Sidecars \ moved : disk[p][k] # None => k \in todo
      /\ q \notin torn =>
            /\ op[c].pc # "cipher" => p \notin torn
            /\ \A k \in Kinds : ~Gone(c, k) => disk[q][k] = None
  BY <1>1, <1>2 DEF WriterInv, MoveStaged
<1>4. moved \subseteq Sidecars /\ MoveOutcome(c, p, q, todo, moved)
  BY <1>1, <1>2, <1>3, MoveStepIs DEF WriterInv, Move
<1>5. /\ torn' = torn
      /\ \/ op[c].pc = "cipher" /\ Stays(p) /\ Stays(q)
         \/ op[c].pc = "sidecars" /\ todo = {} /\ Stays(p) /\ Stays(q)
         \/ /\ op[c].pc = "undoMeta"
            /\ IF moved = {} THEN Stays(p) /\ Stays(q) ELSE Returned("meta", p, q)
  BY <1>4 DEF MoveOutcome, MoveAt, Ends
<1>6. /\ Gone(c, "cipher") <=> op[c].pc \in {"sidecars", "undo"}
      /\ \A k \in Sidecars : Gone(c, k) <=> k \in moved
      /\ \A k \in Kinds : Moving(c)[k] = IF Gone(c, k) THEN disk[q][k] ELSE disk[p][k]
  BY <1>2, MovingIs DEF Gone, Sidecars
<1>7. Kinds = {"cipher"} \cup Sidecars /\ "cipher" \notin Sidecars
  BY DEF Kinds, Sidecars
<1>8. \A f, g : Intact(f) /\ (\A k \in Kinds : g[k] = f[k]) => Intact(g)
  BY <1>7 DEF Intact
<1>9. \A f : (\A k \in Kinds : f[k] = None) => Intact(f)
  BY <1>7 DEF Intact
<1>10. CASE moved = {} /\ op[c].pc # "sidecars"
  <2>1. /\ \A k \in Kinds : disk'[p][k] = disk[p][k] /\ disk'[q][k] = disk[q][k]
        /\ \A k \in Kinds : ~Gone(c, k)
    BY <1>5, <1>6, <1>7, <1>10 DEF Stays
  <2>2. \A k \in Kinds : disk'[p][k] = Moving(c)[k]
    BY <1>6, <2>1
  <2>3. p \notin torn => Intact(disk'[p])
    BY <1>3, <1>8, <2>2
  <2>4. q \notin torn => Intact(disk'[q])
    BY <1>3, <1>9, <2>1
  <2> QED
    BY <1>2, <1>5, <2>3, <2>4
<1>11. CASE op[c].pc = "sidecars"
  <2>1. /\ \A k \in Kinds : disk'[p][k] = disk[p][k] /\ disk'[q][k] = disk[q][k]
        /\ todo = {} /\ Gone(c, "cipher")
    BY <1>5, <1>6, <1>11 DEF Stays
  <2>2. p \notin torn => \A k \in Kinds : disk[p][k] = None
    BY <1>3, <1>6, <1>7, <1>11, <2>1
  <2>3. q \notin torn => \A k \in Kinds : disk[q][k] = Moving(c)[k]
    BY <1>3, <1>6, <1>11, <2>2
  <2>4. p \notin torn => Intact(disk'[p])
    BY <1>9, <2>1, <2>2
  <2>5. q \notin torn => Intact(disk'[q])
    BY <1>3, <1>8, <1>11, <2>1, <2>3
  <2> QED
    BY <1>2, <1>5, <2>4, <2>5
<1>12. CASE moved # {} /\ op[c].pc = "undoMeta"
  <2>1. moved = {"meta"} /\ Returned("meta", p, q)
    BY <1>3, <1>4, <1>5, <1>12 DEF Sidecars
  <2>2. Gone(c, "meta") /\ ~Gone(c, "cipher") /\ ~Gone(c, "idx")
    BY <1>6, <1>12, <2>1 DEF Sidecars
  <2>3. /\ disk'[p].cipher = disk[p].cipher /\ disk'[p].idx = disk[p].idx
        /\ disk'[q].cipher = disk[q].cipher /\ disk'[q].idx = disk[q].idx
        /\ IF disk[q].meta # None THEN disk'[p].meta = disk[q].meta /\ disk'[q].meta = None
                                  ELSE disk'[p].meta = disk[p].meta /\ disk'[q].meta = None
    BY <2>1 DEF Returned, Carried, Stays, Kinds
  <2>4. p \notin torn => \A k \in Kinds : disk'[p][k] = Moving(c)[k]
    BY <1>3, <1>6, <2>2, <2>3 DEF Kinds
  <2>5. q \notin torn => \A k \in Kinds : disk'[q][k] = None
    BY <1>3, <2>2, <2>3 DEF Kinds
  <2>6. p \notin torn => Intact(disk'[p])
    BY <1>3, <1>8, <2>4
  <2>7. q \notin torn => Intact(disk'[q])
    BY <1>9, <2>5
  <2> QED
    BY <1>2, <1>5, <2>6, <2>7
<1> QED
  BY <1>3, <1>5, <1>10, <1>11, <1>12

LEMMA MoveKeeps ==
  ASSUME OneWriter, WriterInv, TypeOK', NEW c \in Clients, MoveStep(c)
  PROVE  WriterInv'
<1>1. Doing(c, "move") /\ Writing(c)
  BY DEF MoveStep, MoveCipher, MoveCipherFail, MoveSidecar, MoveSidecarFail, MoveDone,
         UndoCipher, UndoSidecar, At, Writing, Doing
<1>2. PICK p, q : p = op[c].path /\ q = op[c].dst
  OBVIOUS
<1>3. p # q /\ p \in Paths /\ q \in Paths /\ MovesAt(c, p, q)
      /\ MoveOutcome(c, p, q, op[c].todo, op[c].moved)
  <2>1. p # q
    BY <1>1, <1>2 DEF WriterInv, MoveStaged
  <2> QED
    BY <1>2, <2>1, MoveStepIs DEF WriterInv, Move
<1>4. /\ \A d \in Clients \ {c} : ~Writing(d) /\ op'[d] = op[d]
      /\ \A x \in Paths \ {p, q}, k \in Kinds : disk'[x][k] = disk[x][k]
      /\ torn \subseteq torn' /\ torn' \subseteq torn \cup {q}
  BY <1>1, <1>3, WritesAlone DEF MovesAt, OthersWait, Stays, MoveOutcome, Ends
<1>5. /\ \A d \in Clients \ {c} : ~Writing(d)'
      /\ op'[c] = None \/ (op'[c] # None /\ op'[c].does = "move")
  BY <1>3, <1>4 DEF Writing, Doing, MoveOutcome, MoveAt, Ends
<1>6. \A d \in Clients : Writing(d)' => ~(Makes[d] \subseteq {"read"})
  BY <1>1, <1>5 DEF WriterInv
<1>7. /\ \A d \in Clients : ~Doing(d, "seal")' /\ ~Doing(d, "delete")'
      /\ \A d \in Clients : Doing(d, "move")' => d = c /\ op'[c] # None
      /\ ~Doing(c, "read")'
  BY <1>5 DEF Writing, Doing
<1>8. IntactUnlessTouched'
  <2> SUFFICES ASSUME NEW x \in Paths, x \notin torn', \A d \in Clients : ~Touches(d, x)'
               PROVE  Intact(disk'[x])
    BY DEF IntactUnlessTouched, Intact
  <2>1. CASE x \in {p, q}
    <3>1. op'[c] = None
      <4> SUFFICES ASSUME op'[c] # None PROVE FALSE
        OBVIOUS
      <4>1. Doing(c, "move")' /\ op'[c].path = p /\ op'[c].dst = q
        BY <1>2, MoveGoesOnStaged
      <4> QED
        BY <2>1, <4>1 DEF Touches, PutsAt, Doing
    <3> QED
      BY <1>2, <1>4, <2>1, <3>1, MoveEnds
  <2>2. CASE x \notin {p, q}
    <3>1. \A d \in Clients : ~Touches(d, x)
      BY <1>1, <1>2, <1>4, <2>2, TouchesIs DEF PutsAt, Doing
    <3>2. Intact(disk[x])
      BY <1>4, <3>1 DEF WriterInv, IntactUnlessTouched
    <3> QED
      BY <1>4, <2>2, <3>2 DEF Intact, Kinds, Sidecars
  <2> QED
    BY <2>1, <2>2
<1>9. MoveStaged'
  <2>1. SUFFICES ASSUME op'[c] # None, op'[c].path = p, op'[c].dst = q,
                        \A k \in Kinds : Moving(c)'[k] = Moving(c)[k],
                        LET m == op'[c]
                        IN  /\ m.path # m.dst
                            /\ m.todo \cap m.moved = {}
                            /\ m.pc # "cipher"
                            /\ "idx" \in m.moved => "meta" \notin m.todo /\ m.pc = "sidecars"
                            /\ m.path \notin torn =>
                                  /\ \A k \in Kinds : Gone(c, k)' => disk'[m.path][k] = None
                                  /\ m.pc = "sidecars" =>
                                        \A k \in Sidecars \ m.moved :
                                            disk'[m.path][k] # None => k \in m.todo
                            /\ m.dst \notin torn' =>
                                  /\ m.path \notin torn
                                  /\ \A k \in Kinds : ~Gone(c, k)' => disk'[m.dst][k] = None
                 PROVE  MoveStaged'
    <3>1. CASE op'[c] # None
      BY <1>2, <2>1, <3>1, MoveGoesOnStaged
    <3>2. CASE op'[c] = None
      BY <1>7, <3>2 DEF MoveStaged
    <3> QED
      BY <3>1, <3>2
  <2>2. /\ Moving(c).cipher # None
        /\ p \notin torn => Intact(Moving(c))
    BY <1>1, <1>2 DEF WriterInv, MoveStaged
  <2>3. Moving(c)'.cipher # None
    BY <2>1, <2>2 DEF Kinds
  <2>4. p \notin torn => Intact(Moving(c)')
    BY <2>1, <2>2 DEF Intact, Kinds, Sidecars
  <2>5. Intact(Moving(c)') <=> Intact(Moving(c))'
    BY DEF Intact
  <2>6. q \notin torn' => torn' = torn
    BY <1>4
  <2> QED
    BY <1>4, <1>7, <2>1, <2>3, <2>4, <2>5, <2>6 DEF MoveStaged
<1>10. AloneSees'
  <2>1. ASSUME NEW x \in Paths \ torn, ~PutsAt(c, x)
        PROVE  Harmless(c, x)
    <3>1. x # q
      BY <1>1, <1>2, <2>1 DEF PutsAt
    <3>2. x \notin torn'
      BY <1>4, <3>1
    <3>3. op'[c] # None => /\ op'[c].path = p /\ op'[c].dst = q
                           /\ \A k \in Kinds : Moving(c)'[k] = Moving(c)[k]
      BY <1>2, MoveGoesOnStaged
    <3>4. ~PutsAt(c, x)'
      BY <1>7, <3>1, <3>3 DEF PutsAt
    <3>5. ASSUME NEW k \in Kinds
          PROVE  \/ disk'[x][k] \in {None, disk[x][k]}
                 \/ Doing(c, "move") /\ op[c].path = x /\ disk'[x][k] = Moving(c)[k]
      <4>1. CASE x = p
        BY <1>1, <1>2, <4>1, MoveLeaves
      <4>2. CASE x # p
        BY <1>4, <3>1, <4>2
      <4> QED
        BY <4>1, <4>2
    <3>6. ASSUME Doing(c, "move")', op'[c].path = x
          PROVE  /\ Doing(c, "move") /\ op[c].path = x
                 /\ \A k \in Kinds : Moving(c)'[k] = Moving(c)[k]
      BY <1>1, <1>2, <1>7, <3>3, <3>6
    <3> QED
      BY <3>2, <3>4, <3>5, <3>6 DEF Harmless
  <2> QED
    BY <1>1, <1>3, <1>4, <1>7, <2>1, HarmlessSees DEF WriterInv, MovesAt
<1> QED
  BY <1>6, <1>7, <1>8, <1>9, <1>10 DEF WriterInv, SealStaged, DeleteStaged

\* When the only writer starts a request, every file is intact that no crash
\* has torn, and the readers go on seeing what they saw.
LEMMA WriterStarts ==
  ASSUME OneWriter, WriterInv, TypeOK', NEW c \in Clients,
         op[c] = None, NEW what \in {"seal", "delete", "move"}, what \in Makes[c],
         disk' = disk, torn' = torn, op'[c] # None, op'[c].does = what,
         \A d \in Clients \ {c} :
             \/ op'[d] = op[d] /\ (Doing(d, "read") /\ op[d].alone => ~PutsAt(c, op[d].path)')
             \/ Doing(d, "read") /\ Doing(d, "read")' /\ ~op'[d].alone,
         what = "move" => \A k \in Kinds : Moving(c)'[k] = disk[op'[c].path][k]
  PROVE  /\ \A d \in Clients : Writing(d)' => d = c /\ ~(Makes[d] \subseteq {"read"})
         /\ \A x \in Paths \ torn : Intact(disk[x])
         /\ IntactUnlessTouched' /\ AloneSees'
<1>1. /\ ~(Makes[c] \subseteq {"read"}) /\ \A d \in Clients : ~Writing(d)
      /\ ~Doing(c, "read") /\ ~Doing(c, "read")'
  BY WritesAlone DEF Writing, Doing
<1>2. \A d \in Clients : Writing(d)' => d = c /\ ~(Makes[d] \subseteq {"read"})
  BY <1>1 DEF Writing, Doing
<1>3. \A x \in Paths \ torn : Intact(disk[x])
  BY <1>1, TouchesIs DEF WriterInv, IntactUnlessTouched
<1>4. IntactUnlessTouched'
  BY <1>3 DEF IntactUnlessTouched, Intact
<1>5. ASSUME NEW d \in Clients, Doing(d, "read")', op'[d].alone
      PROVE  Sees(op[d])'
  <2>1. d # c
    BY <1>1, <1>5
  <2>2. /\ op'[d] = op[d]
        /\ Doing(d, "read") /\ op[d].alone => ~PutsAt(c, op[d].path)'
    BY <1>5, <2>1, Zenon
  <2>3. Doing(d, "read") /\ Sees(op[d]) /\ ~PutsAt(c, op[d].path)'
    BY <1>5, <2>2 DEF WriterInv, AloneSees, Doing
  <2>4. PICK r : r = op[d]
    OBVIOUS
  <2>5. Sees(r) /\ ~PutsAt(c, r.path)' /\ op'[d] = r
    BY <2>2, <2>3, <2>4
  <2>6. \A e \in Clients : ~PutsAt(e, r.path)'
    <3>1. ASSUME NEW e \in Clients \ {c}
          PROVE  ~PutsAt(e, r.path)'
      BY <1>2, <3>1 DEF PutsAt, Writing, Doing
    <3> QED
      BY <2>5, <3>1
  <2>7. \A e \in Clients : Doing(e, "move")' /\ op'[e].path = r.path =>
            \A k \in Kinds : Moving(e)'[k] \in {None, r.first}
    <3> SUFFICES ASSUME NEW e \in Clients, Doing(e, "move")', op'[e].path = r.path,
                        NEW k \in Kinds
                 PROVE  Moving(e)'[k] \in {None, r.first}
      OBVIOUS
    <3>1. e = c /\ what = "move"
      BY <1>2 DEF Writing, Doing
    <3>2. op'[c].path = r.path
      BY <3>1
    <3>3. Moving(c)'[k] = disk[r.path][k]
      BY <3>1, <3>2
    <3>4. Moving(c)'[k] \in {None, r.first}
      BY <2>5, <3>3 DEF Sees
    <3> QED
      BY <3>1, <3>4
  <2>8. Sees(r)'
    BY <2>5, <2>6, <2>7 DEF Sees, Seen
  <2> QED
    BY <2>5, <2>8 DEF Sees, Seen
<1>6. AloneSees'
  BY <1>5 DEF AloneSees
<1> QED
  BY <1>2, <1>3, <1>4, <1>6

LEMMA WriterStartKeeps ==
  ASSUME OneWriter, WriterInv, TypeOK', NEW c \in Clients, NEW p \in Paths,
         \/ StartDelete(c, p)
         \/ \E v \in Versions : StartSeal(c, p, v)
         \/ \E q \in Paths : StartMove(c, p, q)
  PROVE  WriterInv'
<1>0. TypeOK
  BY DEF WriterInv
<1>1. CASE StartDelete(c, p)
  <2>1. /\ disk' = disk /\ torn' = torn /\ op[c] = None /\ "delete" \in Makes[c]
        /\ op'[c] # None /\ op'[c].does = "delete" /\ op'[c].pc = "cipher" /\ op'[c].path = p
        /\ \A d \in Clients \ {c} : op'[d] = op[d]
    BY <1>0, <1>1, StartDeleteIs DEF OthersWait
  <2>2. \A x : ~PutsAt(c, x)'
    BY <2>1 DEF PutsAt, Doing
  <2>3. /\ \A d \in Clients : Writing(d)' => d = c /\ ~(Makes[d] \subseteq {"read"})
        /\ \A x \in Paths \ torn : Intact(disk[x])
        /\ IntactUnlessTouched' /\ AloneSees'
    BY <2>1, <2>2, WriterStarts
  <2>4. \A d \in Clients : ~Doing(d, "seal")' /\ ~Doing(d, "move")'
    BY <2>1, <2>3 DEF Writing, Doing
  <2>5. DeleteStaged'
    BY <2>1, <2>3 DEF DeleteStaged, Writing, Doing, Intact
  <2> QED
    BY <2>3, <2>4, <2>5 DEF WriterInv, SealStaged, MoveStaged
<1>2. ASSUME NEW v \in Versions, StartSeal(c, p, v)
      PROVE  WriterInv'
  <2>1. /\ disk' = disk /\ torn' = torn /\ op[c] = None /\ "seal" \in Makes[c]
        /\ op'[c] # None /\ op'[c].does = "seal" /\ op'[c].pc = "cipher" /\ op'[c].path = p
        /\ \A d \in Clients \ {c} : op'[d] = Disturbed(p)[d]
    BY <1>0, <1>2, StartSealIs
  <2>2. ASSUME NEW d \in Clients \ {c}
        PROVE  \/ op'[d] = op[d] /\ ~(Doing(d, "read") /\ op[d].path = p /\ op[d].alone)
               \/ Doing(d, "read") /\ Doing(d, "read")' /\ ~op'[d].alone
    BY <1>0, <2>1, DisturbedSplits
  <2>3. \A x : PutsAt(c, x)' => x = p
    BY <2>1 DEF PutsAt, Doing
  <2>4. ASSUME NEW d \in Clients \ {c}
        PROVE  \/ op'[d] = op[d] /\ (Doing(d, "read") /\ op[d].alone => ~PutsAt(c, op[d].path)')
               \/ Doing(d, "read") /\ Doing(d, "read")' /\ ~op'[d].alone
    BY <2>2, <2>3, Zenon
  <2>5. /\ \A d \in Clients : Writing(d)' => d = c /\ ~(Makes[d] \subseteq {"read"})
        /\ \A x \in Paths \ torn : Intact(disk[x])
        /\ IntactUnlessTouched' /\ AloneSees'
    BY <2>1, <2>4, WriterStarts
  <2>6. \A d \in Clients : ~Doing(d, "delete")' /\ ~Doing(d, "move")'
    BY <2>1, <2>5 DEF Writing, Doing
  <2>7. SealStaged'
    BY <2>1, <2>5 DEF SealStaged, Writing, Doing, Intact
  <2> QED
    BY <2>5, <2>6, <2>7 DEF WriterInv, DeleteStaged, MoveStaged
<1>3. ASSUME NEW q \in Paths, StartMove(c, p, q)
      PROVE  WriterInv'
  <2>1. /\ disk' = disk /\ torn' = torn /\ op[c] = None /\ "move" \in Makes[c]
        /\ p # q /\ disk[p].cipher # None /\ disk[q].cipher = None
        /\ op'[c] # None /\ op'[c].does = "move" /\ op'[c].pc = "cipher"
        /\ op'[c].path = p /\ op'[c].dst = q /\ op'[c].moved = {}
        /\ op'[c].todo = {k \in Sidecars : disk[p][k] # None}
        /\ \A d \in Clients \ {c} : op'[d] = Disturbed(q)[d]
    BY <1>0, <1>3, StartMoveIs
  <2>2. ASSUME NEW d \in Clients \ {c}
        PROVE  \/ op'[d] = op[d] /\ ~(Doing(d, "read") /\ op[d].path = q /\ op[d].alone)
               \/ Doing(d, "read") /\ Doing(d, "read")' /\ ~op'[d].alone
    BY <1>0, <2>1, DisturbedSplits
  <2>3. \A x : PutsAt(c, x)' => x = q
    BY <2>1 DEF PutsAt, Doing
  <2>4. ASSUME NEW d \in Clients \ {c}
        PROVE  \/ op'[d] = op[d] /\ (Doing(d, "read") /\ op[d].alone => ~PutsAt(c, op[d].path)')
               \/ Doing(d, "read") /\ Doing(d, "read")' /\ ~op'[d].alone
    BY <2>2, <2>3, Zenon
  <2>5. \A k \in Kinds : ~Gone(c, k)' /\ Moving(c)'[k] = disk[p][k]
    BY <2>1 DEF Gone, Moving
  <2>6. /\ \A d \in Clients : Writing(d)' => d = c /\ ~(Makes[d] \subseteq {"read"})
        /\ \A x \in Paths \ torn : Intact(disk[x])
        /\ IntactUnlessTouched' /\ AloneSees'
    BY <2>1, <2>4, <2>5, WriterStarts
  <2>7. \A d \in Clients : /\ ~Doing(d, "delete")' /\ ~Doing(d, "seal")'
                           /\ Doing(d, "move")' => d = c
    BY <2>1, <2>6 DEF Writing, Doing
  <2>8. MoveStaged'
    <3>1. Moving(c)'.cipher # None
      BY <2>1, <2>5 DEF Kinds
    <3>2. p \notin torn => Intact(Moving(c))'
      <4>1. p \notin torn => Intact(disk[p])
        BY <2>6
      <4> QED
        BY <2>5, <4>1 DEF Intact, Kinds, Sidecars
    <3>3. q \notin torn => \A k \in Kinds : disk[q][k] = None
      <4>1. q \notin torn => Intact(disk[q])
        BY <2>6
      <4> QED
        BY <2>1, <4>1 DEF Intact, Kinds, Sidecars
    <3> QED
      BY <2>1, <2>5, <2>7, <3>1, <3>2, <3>3 DEF MoveStaged
  <2> QED
    BY <2>6, <2>7, <2>8 DEF WriterInv, DeleteStaged, SealStaged
<1> QED
  BY <1>1, <1>2, <1>3

\* A step of a reader, or its start, concerns no writer.
LEMMA ReaderAside ==
  ASSUME WriterInv, TypeOK', NEW c \in Clients, disk' = disk, torn' = torn, OthersWait(c),
         ~Writing(c), op'[c] = None \/ (op'[c] # None /\ op'[c].does = "read")
  PROVE  /\ \A d \in Clients : Writing(d)' => ~(Makes[d] \subseteq {"read"})
         /\ IntactUnlessTouched' /\ SealStaged' /\ DeleteStaged' /\ MoveStaged'
         /\ \A d \in Clients : \A x : ~PutsAt(d, x) => ~PutsAt(d, x)'
         /\ \A d \in Clients : Doing(d, "move")' =>
               Doing(d, "move") /\ op'[d] = op[d] /\ Moving(d)' = Moving(d)
         /\ \A d \in Clients \ {c} : Doing(d, "read")' /\ op'[d].alone => Sees(op[d])'
<1>1. \A d \in Clients \ {c} : op'[d] = op[d]
  BY DEF OthersWait
<1>2. /\ \A d \in Clients, what \in {"seal", "delete", "move"} :
            (Doing(d, what)' <=> Doing(d, what)) /\ (Doing(d, what) => op'[d] = op[d])
      /\ \A d \in Clients : (Writing(d)' <=> Writing(d)) /\ (Writing(d) => op'[d] = op[d])
  BY <1>1 DEF Writing, Doing
<1>3. \A d \in Clients : Writing(d)' => ~(Makes[d] \subseteq {"read"})
  BY <1>2 DEF WriterInv
<1>4. \A d \in Clients : \A x : PutsAt(d, x)' <=> PutsAt(d, x)
  BY <1>2 DEF PutsAt
<1>5. \A d \in Clients : \A x : Touches(d, x) => Touches(d, x)'
  BY <1>2, <1>4, TouchesIs DEF Touches, Writing
<1>6. IntactUnlessTouched'
  BY <1>5 DEF WriterInv, IntactUnlessTouched, Intact
<1>7. SealStaged'
  BY <1>2 DEF WriterInv, SealStaged, Intact
<1>8. DeleteStaged'
  BY <1>2 DEF WriterInv, DeleteStaged, Intact
<1>9. \A d \in Clients : Doing(d, "move") =>
          Moving(d)' = Moving(d) /\ \A k : Gone(d, k)' <=> Gone(d, k)
  BY <1>2 DEF Moving, Gone
<1>10. MoveStaged'
  <2> SUFFICES ASSUME NEW d \in Clients, Doing(d, "move")'
               PROVE  LET m == op'[d]
                      IN  /\ m.path # m.dst
                          /\ m.todo \cap m.moved = {}
                          /\ m.pc = "cipher" => m.moved = {}
                          /\ "idx" \in m.moved => "meta" \notin m.todo /\ m.pc = "sidecars"
                          /\ Moving(d)'.cipher # None
                          /\ m.path \notin torn' =>
                                /\ Intact(Moving(d))'
                                /\ \A k \in Kinds : Gone(d, k)' => disk'[m.path][k] = None
                                /\ m.pc \in {"cipher", "sidecars"} =>
                                      \A k \in Sidecars \ m.moved :
                                          disk'[m.path][k] # None => k \in m.todo
                          /\ m.dst \notin torn' =>
                                /\ m.pc # "cipher" => m.path \notin torn'
                                /\ \A k \in Kinds : ~Gone(d, k)' => disk'[m.dst][k] = None
    BY DEF MoveStaged
  <2>1. Doing(d, "move") /\ op'[d] = op[d] /\ Moving(d)' = Moving(d)
        /\ \A k : Gone(d, k)' <=> Gone(d, k)
    BY <1>2, <1>9
  <2>2. Intact(Moving(d))' <=> Intact(Moving(d))
    BY <2>1 DEF Intact
  <2> QED
    BY <2>1, <2>2 DEF WriterInv, MoveStaged
<1>11. ASSUME NEW d \in Clients \ {c}, Doing(d, "read")', op'[d].alone
       PROVE  Sees(op[d])'
  <2>1. PICK r : r = op[d]
    OBVIOUS
  <2>2. op'[d] = r /\ Sees(r)
    BY <1>1, <1>11, <2>1 DEF WriterInv, AloneSees, Doing
  <2>3. Sees(r)'
    BY <1>2, <1>4, <1>9, <2>2 DEF Sees, Seen
  <2> QED
    BY <2>2, <2>3 DEF Sees, Seen
<1> QED
  BY <1>2, <1>3, <1>4, <1>6, <1>7, <1>8, <1>9, <1>10, <1>11

\* What a reader finds that nobody puts anything beside, at its start.
LEMMA FirstSight ==
  ASSUME WriterInv, NEW p \in Paths, p \notin torn, disk[p].cipher # None,
         \A d \in Clients : ~PutsAt(d, p)
  PROVE  /\ \A k \in Kinds : disk[p][k] \in {None, disk[p].cipher}
         /\ \A d \in Clients : Doing(d, "move") /\ op[d].path = p =>
               \A k \in Kinds : Moving(d)[k] \in {None, disk[p].cipher}
<1>1. \A f : Intact(f) => \A k \in Kinds : f[k] \in {None, f.cipher}
  BY DEF Intact, Kinds, Sidecars
<1>2. ASSUME NEW d \in Clients, Doing(d, "move"), op[d].path = p
      PROVE  /\ \A k \in Kinds : Moving(d)[k] \in {None, disk[p].cipher}
             /\ \A k \in Kinds : disk[p][k] \in {None, disk[p].cipher}
  <2>1. Intact(Moving(d)) /\ \A k \in Kinds : Gone(d, k) => disk[p][k] = None
    BY <1>2 DEF WriterInv, MoveStaged
  <2>2. \A k \in Kinds : Moving(d)[k] = IF Gone(d, k) THEN disk[op[d].dst][k] ELSE disk[p][k]
    BY <1>2, MovingIs
  <2>3. "cipher" \in Kinds
    BY DEF Kinds
  <2>4. Moving(d).cipher = disk[p].cipher
    BY <2>1, <2>2, <2>3
  <2> QED
    BY <1>1, <2>1, <2>2, <2>4
<1>3. ASSUME \A d \in Clients : ~(Doing(d, "move") /\ op[d].path = p)
      PROVE  \A k \in Kinds : disk[p][k] \in {None, disk[p].cipher}
  <2>1. CASE \A d \in Clients : ~Touches(d, p)
    BY <1>1, <2>1 DEF WriterInv, IntactUnlessTouched
  <2>2. ASSUME NEW d \in Clients, Touches(d, p)
        PROVE  \A k \in Kinds : disk[p][k] \in {None, disk[p].cipher}
    <3>1. Doing(d, "delete") /\ op[d].path = p
      BY <1>3, <2>2 DEF Touches, PutsAt, Doing, WriterInv, TypeOK, Seal, Delete, Move, Read
    <3>2. op[d].pc = "cipher" => Intact(disk[p])
      BY <3>1 DEF WriterInv, DeleteStaged
    <3>3. op[d].pc = "cipher"
      BY <3>1 DEF WriterInv, DeleteStaged
    <3> QED
      BY <1>1, <3>2, <3>3
  <2> QED
    BY <2>1, <2>2
<1> QED
  BY <1>2, <1>3

LEMMA ReaderStartKeeps ==
  ASSUME WriterInv, TypeOK', NEW c \in Clients, NEW p \in Paths, StartRead(c, p)
  PROVE  WriterInv'
<1>1. /\ disk' = disk /\ torn' = torn /\ op[c] = None /\ OthersWait(c)
      /\ op'[c] # None /\ op'[c].does = "read"
      /\ disk[p].cipher # None
      /\ op'[c].pc = "meta" /\ op'[c].path = p
      /\ op'[c].first = disk[p].cipher /\ op'[c].file = disk[p].cipher
      /\ op'[c].alone => p \notin torn /\ \A d \in Clients : ~PutsAt(d, p)
  BY StartReadIs DEF WriterInv
<1>2. ~Writing(c)
  BY <1>1 DEF Writing
<1>3. /\ \A d \in Clients : Writing(d)' => ~(Makes[d] \subseteq {"read"})
      /\ IntactUnlessTouched' /\ SealStaged' /\ DeleteStaged' /\ MoveStaged'
      /\ \A d \in Clients : \A x : ~PutsAt(d, x) => ~PutsAt(d, x)'
      /\ \A d \in Clients : Doing(d, "move")' =>
            Doing(d, "move") /\ op'[d] = op[d] /\ Moving(d)' = Moving(d)
      /\ \A d \in Clients \ {c} : Doing(d, "read")' /\ op'[d].alone => Sees(op[d])'
  BY <1>1, <1>2, ReaderAside
<1>4. ASSUME op'[c].alone
      PROVE  Sees(op[c])'
  <2>1. p \notin torn /\ \A d \in Clients : ~PutsAt(d, p)
    BY <1>1, <1>4
  <2>2. /\ \A k \in Kinds : disk[p][k] \in {None, disk[p].cipher}
        /\ \A d \in Clients : Doing(d, "move") /\ op[d].path = p =>
              \A k \in Kinds : Moving(d)[k] \in {None, disk[p].cipher}
    BY <1>1, <2>1, FirstSight
  <2> QED
    BY <1>1, <1>3, <2>1, <2>2 DEF Sees, Seen
<1>5. AloneSees'
  BY <1>3, <1>4 DEF AloneSees
<1> QED
  BY <1>3, <1>5 DEF WriterInv

LEMMA ReadKeeps ==
  ASSUME WriterInv, TypeOK', NEW c \in Clients, ReadStep(c)
  PROVE  WriterInv'
<1>1. /\ disk' = disk /\ torn' = torn /\ op[c] # None /\ op[c].does = "read" /\ OthersWait(c)
      /\ \/ op'[c] = None
         \/ /\ op'[c] # None /\ op'[c].does = "read" /\ op'[c].path = op[c].path
            /\ op'[c].first = op[c].first /\ op'[c].alone = op[c].alone
            /\ /\ Seen(op[c])
               /\ \A k \in Kinds : disk[op[c].path][k] \in {None, op[c].first}
               => Seen(op'[c])
  BY ReadIs DEF WriterInv
<1>2. ~Writing(c)
  BY <1>1 DEF Writing, Doing
<1>3. /\ \A d \in Clients : Writing(d)' => ~(Makes[d] \subseteq {"read"})
      /\ IntactUnlessTouched' /\ SealStaged' /\ DeleteStaged' /\ MoveStaged'
      /\ \A d \in Clients : \A x : ~PutsAt(d, x) => ~PutsAt(d, x)'
      /\ \A d \in Clients : Doing(d, "move")' =>
            Doing(d, "move") /\ op'[d] = op[d] /\ Moving(d)' = Moving(d)
      /\ \A d \in Clients \ {c} : Doing(d, "read")' /\ op'[d].alone => Sees(op[d])'
  BY <1>1, <1>2, ReaderAside
<1>4. ASSUME Doing(c, "read")', op'[c].alone
      PROVE  Sees(op[c])'
  <2>1. /\ op'[c].path = op[c].path /\ op'[c].first = op[c].first
        /\ op'[c].alone = op[c].alone
        /\ /\ Seen(op[c])
           /\ \A k \in Kinds : disk[op[c].path][k] \in {None, op[c].first}
           => Seen(op'[c])
    BY <1>1, <1>4 DEF Doing
  <2>2. op[c].alone
    BY <1>4, <2>1, Zenon
  <2>3. Sees(op[c])
    BY <1>1, <2>2 DEF WriterInv, AloneSees, Doing
  <2>4. Seen(op'[c])
    BY <2>1, <2>3 DEF Sees
  <2> QED
    BY <1>1, <1>3, <2>1, <2>3, <2>4 DEF Sees, Seen
<1>5. AloneSees'
  BY <1>3, <1>4 DEF AloneSees
<1> QED
  BY <1>3, <1>5 DEF WriterInv

LEMMA WriterInit == Init => WriterInv
<1> SUFFICES ASSUME Init PROVE WriterInv
  OBVIOUS
<1>1. PICK at \in [Paths -> Versions \cup {None}] : disk = [p \in Paths |-> [k \in Kinds |-> at[p]]]
  BY DEF Init
<1>2. \A c \in Clients : op[c] = None
  BY DEF Init
<1>3. IntactUnlessTouched
  BY <1>1 DEF IntactUnlessTouched, Intact, Kinds, Sidecars
<1> QED
  BY <1>2, <1>3, TypeInit
     DEF WriterInv, Writing, SealStaged, DeleteStaged, MoveStaged, AloneSees, Doing

\* A crash leaves intact what no request was working on.
LEMMA CrashKeeps ==
  ASSUME WriterInv, TypeOK', Crash
  PROVE  WriterInv'
<1>1. /\ disk' = disk /\ \A c \in Clients : op'[c] = None
      /\ torn' = torn \cup {p \in Paths : \E c \in Clients : Touches(c, p)}
  BY DEF Crash
<1>2. IntactUnlessTouched'
  <2> SUFFICES ASSUME NEW x \in Paths, x \notin torn'
               PROVE  Intact(disk'[x])
    BY DEF IntactUnlessTouched, Intact
  <2>1. Intact(disk[x])
    BY <1>1 DEF WriterInv, IntactUnlessTouched
  <2> QED
    BY <1>1, <2>1
<1> QED
  BY <1>1, <1>2 DEF WriterInv, Writing, SealStaged, DeleteStaged, MoveStaged, AloneSees, Doing

LEMMA WriterNext ==
  ASSUME OneWriter
  PROVE  WriterInv /\ [Next]_vars => WriterInv'
<1> SUFFICES ASSUME WriterInv, [Next]_vars PROVE WriterInv'
  OBVIOUS
<1>1. TypeOK'
  <2>1. MovesAway
    BY DEF WriterInv, MoveStaged, MovesAway
  <2> QED
    BY <2>1, TypeNext DEF WriterInv
<1>2. ASSUME NEW c \in Clients, Start(c)
      PROVE  WriterInv'
  BY <1>1, <1>2, WriterStartKeeps, ReaderStartKeeps DEF Start
<1>3. CASE UNCHANGED vars
  BY <1>1, <1>3
     DEF vars, WriterInv, Writing, IntactUnlessTouched, Touches, Intact, SealStaged,
         DeleteStaged, MoveStaged, AloneSees, Sees, Seen, Doing, PutsAt, Moving, Gone
<1> QED
  BY <1>1, <1>2, <1>3, SealKeeps, DeleteKeeps, MoveKeeps, ReadKeeps, CrashKeeps DEF Next

\* The invariant of one request that writes at a time, whatever fails and
\* whenever the process crashes: what no request is working on and no crash has
\* torn is intact, and the file that is being sealed, deleted or moved is as far
\* as the request's next call says; the parts of a file that is moved are intact
\* together, wherever they are (seal_uploaded_file, Storage::delete, rename).
THEOREM WriterInductive ==
  ASSUME OneWriter
  PROVE  Spec => []WriterInv
  BY WriterInit, WriterNext, PTL DEF Spec

\* Unless a sidecar could not be written, a settled encrypted file has both
\* its sidecars and they belong to it, whether a rename succeeds or is rolled
\* back (storage.rs:335); a crash spoils only the paths it breaks off at.
THEOREM StaysTogether ==
  ASSUME OneWriter, Faults \cap {"index", "meta"} = {}
  PROVE  Spec => []Together
<1>1. WriterInv => Together
  <2> SUFFICES ASSUME WriterInv, Settled, NEW p \in Paths \ torn
               PROVE  \A k \in Sidecars : disk[p][k] = disk[p].cipher
    BY DEF Together
  <2>1. Intact(disk[p])
    BY DEF WriterInv, IntactUnlessTouched, Settled, Touches
  <2> QED
    BY <2>1 DEF Intact
<1> QED
  BY <1>1, WriterInductive, PTL

\* Beside one writer that may also move files, and through crashes, a reader
\* at whose path nothing is put serves the whole file that it has announced.
THEOREM ReadersBesideAWriter ==
  ASSUME OneWriter
  PROVE  Spec => []AloneServesWhole
<1>1. WriterInv => AloneServesWhole
  BY SeesWhole DEF WriterInv
<1> QED
  BY <1>1, WriterInductive, PTL

\* A seal that succeeds makes the file whole, whatever a crash or a failed
\* request had left at its path: repeating `complete` repairs the file.
THEOREM RetriesRepair ==
  ASSUME OneWriter
  PROVE  Spec => RetryRepairs
<1> DEFINE Repairs == \A c \in Clients :
                          SealMeta(c) => \A k \in Kinds : disk'[op[c].path][k] = op[c].file
<1>1. WriterInv => Repairs
  <2> SUFFICES ASSUME WriterInv, NEW c \in Clients, SealMeta(c), NEW k \in Kinds
               PROVE  disk'[op[c].path][k] = op[c].file
    OBVIOUS
  <2>1. PICK p, v : p = op[c].path /\ v = op[c].file
    OBVIOUS
  <2>2. Doing(c, "seal") /\ op[c].pc = "meta" /\ Set(p, "meta", v) /\ p \in Paths /\ v \in Versions
    BY <2>1, OpIs DEF SealMeta, At, WriterInv, Seal
  <2>3. disk[p].cipher = v /\ disk[p].idx = v
    BY <2>1, <2>2 DEF WriterInv, SealStaged
  <2>4. Becomes(p, "meta", v)
    BY <2>2, SetWorks DEF WriterInv, Kinds
  <2>5. disk'[p][k] = v
    BY <2>3, <2>4 DEF Becomes, Kinds
  <2> QED
    BY <2>1, <2>5
<1>2. WriterInv => [Repairs]_vars
  BY <1>1
<1> QED
  BY <1>2, WriterInductive, PTL DEF RetryRepairs
=============================================================================
