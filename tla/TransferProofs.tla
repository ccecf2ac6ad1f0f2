--------------------------- MODULE TransferProofs ---------------------------
(***************************************************************************)
(* Proofs about module Transfer, for every value of its constants: any     *)
(* number of ids, paths, users and bytes, any quotas and thresholds, with  *)
(* or without file system faults.                                          *)
(***************************************************************************)
EXTENDS Transfer, FiniteSetTheorems, TLAPS

\* The age bound is above both thresholds, so ages have room to grow.
LEMMA AgeCapType == AgeCap \in Nat \ {0}
  BY LimitsAssumption DEF AgeCap

\* None is not a value of any of the types it is added to.
LEMMA NoneIsNoValue ==
    /\ None \notin UploadSession /\ None \notin PartFile
    /\ None \notin InitHandler /\ None \notin CompleteHandler
    /\ None \notin Paths /\ None \notin ServedFile
  BY NoneAssumption

\* Erase gives a function of the same type, with None where it erases.
LEMMA EraseType ==
  ASSUME NEW S, NEW T, NEW f \in [Ids -> T \cup {None}]
  PROVE  Erase(f, S) \in [Ids -> T \cup {None}]
  BY DEF Erase

\* Ageing keeps a session a session, and changes nothing but its age.
LEMMA OlderType ==
  ASSUME NEW s \in UploadSession
  PROVE  /\ Older(s) \in UploadSession
         /\ Older(s).path = s.path /\ Older(s).size = s.size
         /\ Older(s).offset = s.offset /\ Older(s).owner = s.owner
  BY AgeCapType DEF Older, UploadSession

\* Ageing keeps the maps well typed and their domains of live ids unchanged.
LEMMA AllOlderType ==
  ASSUME NEW f \in [Ids -> UploadSession \cup {None}]
  PROVE  /\ AllOlder(f) \in [Ids -> UploadSession \cup {None}]
         /\ \A id \in Ids : AllOlder(f)[id] = None <=> f[id] = None
  BY OlderType, NoneIsNoValue DEF AllOlder

\* A write within the declared size leaves a part file a part file.
LEMMA WrittenType ==
  ASSUME NEW f \in PartFile, NEW at \in 0..MaxSize, NEW n \in 0..MaxSize,
         at + n <= MaxSize
  PROVE  Written(f, at, n) \in PartFile
  BY LimitsAssumption DEF Written, PartFile

\* TypeOK holds of the initial states.
LEMMA TypeInit == Init => TypeOK
  BY DEF Init, TypeOK

\* The session that `init` makes has the right type.
LEMMA NewSessionType ==
  ASSUME TypeOK, NEW c, NEW p \in Paths \cup {None}, NEW n, InitAllowed(c, p, n)
  PROVE  [path |-> p, size |-> n, offset |-> 0, owner |-> c, idle |-> 0]
            \in UploadSession
  BY AgeCapType, LimitsAssumption DEF InitAllowed, Callers, UploadSession

\* Canonical paths are paths, or None for a spelling that is rejected.
LEMMA CanonicalType ==
  ASSUME NEW raw \in RawPaths
  PROVE  Canonical[raw] \in Paths \cup {None}
  BY PathsAssumption

\* A save touches one upload.  It writes the session's copy, or that of an `init`
\* which is at it too, or nothing; and it ends that `init` only when one of the two
\* has been written.
LEMMA PersistIs ==
  ASSUME TypeOK, NEW id \in Ids, NEW s \in UploadSession, Persist(id, s)
  PROVE  /\ json' \in [Ids -> UploadSession \cup {None}]
         /\ creating' \in [Ids -> InitHandler \cup {None}]
         /\ \A k \in Ids : k # id => json'[k] = json[k] /\ creating'[k] = creating[k]
         /\ \A k \in Ids : At(k, "create")' => At(k, "create")
         /\ creating'[id] # None =>
               creating[id] # None /\ creating'[id].us = creating[id].us
         /\ \/ creating'[id] = creating[id] /\ json'[id] = json[id]
            \/ json'[id] = s
            \/ creating[id] # None /\ json'[id] = creating[id].us
<1>1. CASE UNCHANGED creating /\ (json' = [json EXCEPT ![id] = s] \/ UNCHANGED json)
  BY <1>1 DEF At, TypeOK
<1>2. ASSUME Overlaps(id), NEW t \in Renamed(id, s), json' = [json EXCEPT ![id] = t],
             \/ creating' = [creating EXCEPT ![id].pc = "lost"]
             \/ creating' = [creating EXCEPT ![id] = None]
      PROVE  /\ json' \in [Ids -> UploadSession \cup {None}]
             /\ creating' \in [Ids -> InitHandler \cup {None}]
             /\ \A k \in Ids : k # id => json'[k] = json[k] /\ creating'[k] = creating[k]
             /\ \A k \in Ids : At(k, "create")' => At(k, "create")
             /\ creating'[id] # None =>
                   creating[id] # None /\ creating'[id].us = creating[id].us
             /\ \/ json'[id] = s
                \/ creating[id] # None /\ json'[id] = creating[id].us
  <2>1. creating[id] \in InitHandler /\ creating[id] # None
    BY <1>2 DEF Overlaps, TypeOK
  <2>2. t = s \/ t = creating[id].us
    BY <1>2 DEF Renamed
  <2>3. t \in UploadSession
    BY <2>1, <2>2 DEF InitHandler
  <2>4. /\ json' \in [Ids -> UploadSession \cup {None}]
        /\ json'[id] = t
        /\ \A k \in Ids : k # id => json'[k] = json[k]
    BY <1>2, <2>3 DEF TypeOK
  <2> DEFINE h == [creating[id] EXCEPT !.pc = "lost"]
  <2>5. h \in InitHandler /\ h.us = creating[id].us /\ h.pc = "lost"
    BY <2>1 DEF InitHandler
  <2>6. creating' = [creating EXCEPT ![id] = h] \/ creating' = [creating EXCEPT ![id] = None]
    BY <1>2
  <2> HIDE DEF h
  <2>7. /\ creating' \in [Ids -> InitHandler \cup {None}]
        /\ creating'[id] \in {h, None}
        /\ \A k \in Ids : k # id => creating'[k] = creating[k]
    BY <2>5, <2>6 DEF TypeOK
  <2>8. \A k \in Ids : At(k, "create")' => At(k, "create")
    BY <2>5, <2>7 DEF At
  <2> QED
    BY <2>1, <2>2, <2>4, <2>5, <2>7, <2>8
<1> QED
  BY <1>1, <1>2 DEF Persist, PersistOk, PersistErr

\* The init request steps keep TypeOK.
LEMMA TypeInitRequest == TypeOK /\ InitRequest => TypeOK'
<1> SUFFICES ASSUME TypeOK,
                    NEW c \in Callers, NEW raw \in RawPaths, NEW n \in DeclaredSizes,
                    \/ InitResume(c, Canonical[raw], n)
                    \/ InitReserve(c, Canonical[raw], n)
                    \/ InitRefused(c, Canonical[raw], n)
             PROVE  TypeOK'
  BY DEF InitRequest
<1> DEFINE p == Canonical[raw]
<1>p. p \in Paths \cup {None}
  BY CanonicalType
<1> HIDE DEF p
<1>1. CASE InitResume(c, p, n)
  <2>1. PICK id \in Resumable(c, p, n) :
            /\ sessions' = [sessions EXCEPT ![id] = [sessions[id] EXCEPT !.idle = 0]]
            /\ Persist(id, [sessions[id] EXCEPT !.idle = 0])
    BY <1>1 DEF InitResume
  <2>2. id \in Ids /\ sessions[id] \in UploadSession
    BY DEF Resumable, OnPath, Live, TypeOK
  <2>3. [sessions[id] EXCEPT !.idle = 0] \in UploadSession
    BY <2>2, AgeCapType DEF UploadSession
  <2>4. sessions' \in [Ids -> UploadSession \cup {None}]
    BY <2>1, <2>2, <2>3 DEF TypeOK
  <2>5. /\ json' \in [Ids -> UploadSession \cup {None}]
        /\ creating' \in [Ids -> InitHandler \cup {None}]
    BY <2>1, <2>2, <2>3, PersistIs
  <2> QED
    BY <1>1, <2>4, <2>5 DEF InitResume, TypeOK
<1>2. CASE InitReserve(c, p, n)
  <2> DEFINE us == [path |-> p, size |-> n, offset |-> 0, owner |-> c, idle |-> 0]
  <2>1. PICK victims \in Conflicts(p), id \in Ids :
            /\ MayTake(c, p, n, victims)
            /\ sessions' = [Erase(sessions, victims) EXCEPT ![id] = us]
            /\ path_locks' = path_locks \cup {p}
            /\ part' = Erase(part, victims)
            /\ json' = Erase(json, victims)
            /\ creating' = [creating EXCEPT ![id] = [pc |-> "create", us |-> us]]
            /\ UNCHANGED <<encryption, finalizing, dest, sealing>>
    BY <1>2 DEF InitReserve
  <2>2. us \in UploadSession /\ p \in Paths
    BY <2>1, <1>p, NewSessionType DEF MayTake, InitAllowed
  <2>3. Erase(sessions, victims) \in [Ids -> UploadSession \cup {None}]
    BY EraseType DEF TypeOK
  <2>4. sessions' \in [Ids -> UploadSession \cup {None}]
    BY <2>1, <2>2, <2>3
  <2>5. part' \in [Ids -> PartFile \cup {None}] /\ json' \in [Ids -> UploadSession \cup {None}]
    BY <2>1, EraseType DEF TypeOK
  <2>6. [pc |-> "create", us |-> us] \in InitHandler
    BY <2>2 DEF InitHandler
  <2>7. creating' \in [Ids -> InitHandler \cup {None}]
    BY <2>1, <2>6 DEF TypeOK
  <2> QED
    BY <2>1, <2>2, <2>4, <2>5, <2>7 DEF TypeOK
<1>3. CASE InitRefused(c, p, n)
  <2>1. PICK victims \in Conflicts(p) :
            /\ sessions' = Erase(sessions, victims)
            /\ path_locks' = path_locks \ {p}
            /\ part' = Erase(part, victims)
            /\ json' = Erase(json, victims)
            /\ UNCHANGED <<encryption, finalizing, dest, handlers>>
    BY <1>3 DEF InitRefused
  <2>2. /\ sessions' \in [Ids -> UploadSession \cup {None}]
        /\ part' \in [Ids -> PartFile \cup {None}]
        /\ json' \in [Ids -> UploadSession \cup {None}]
    BY <2>1, EraseType DEF TypeOK
  <2> QED
    BY <2>1, <2>2 DEF TypeOK, handlers
<1> QED
  BY <1>1, <1>2, <1>3 DEF p

\* The steps that write or close an upload keep TypeOK.
LEMMA TypeWriteRequest == TypeOK /\ WriteRequest => TypeOK'
<1> SUFFICES ASSUME TypeOK,
                    NEW c \in Callers, NEW id \in Ids,
                    NEW at \in 0..MaxSize, NEW n \in 0..MaxSize,
                    WriteChunk(c, id, at, n) \/ WriteFail(c, id, at, n)
             PROVE  TypeOK'
  BY DEF WriteRequest
<1> DEFINE s == [sessions[id] EXCEPT !.offset = @ + n, !.idle = 0]
<1>1. /\ sessions[id] \in UploadSession /\ part[id] \in PartFile
      /\ at = sessions[id].offset
      /\ n \in 0..(sessions[id].size - sessions[id].offset)
  BY LimitsAssumption DEF WriteChunk, WriteFail, MayWrite, Remaining, Live, TypeOK
<1>2. at + n <= MaxSize /\ s \in UploadSession
  <2>1. /\ sessions[id].size \in 1..MaxSize
        /\ sessions[id].offset \in 0..MaxSize
    BY <1>1 DEF UploadSession
  <2>2. sessions[id].offset + n \in 0..MaxSize
    BY <2>1, <1>1, LimitsAssumption
  <2>3. at + n <= MaxSize
    BY <2>2, <1>1, LimitsAssumption
  <2>4. 0 \in 0..AgeCap
    BY AgeCapType
  <2>5. s \in UploadSession
    BY <1>1, <2>2, <2>4 DEF UploadSession
  <2> QED
    BY <2>3, <2>5
<1>3. part' \in [Ids -> PartFile \cup {None}]
  <2>1. Written(part[id], at, n) \in PartFile
    BY <1>1, <1>2, WrittenType
  <2>2. part' = [part EXCEPT ![id] = Written(part[id], at, n)]
    BY DEF WriteChunk, WriteFail, TypeOK
  <2> QED
    BY <2>1, <2>2 DEF TypeOK
<1>4. CASE WriteChunk(c, id, at, n)
  <2>1. sessions' = [sessions EXCEPT ![id] = s] /\ Persist(id, s)
    BY <1>4 DEF WriteChunk
  <2>2. /\ sessions' \in [Ids -> UploadSession \cup {None}]
        /\ json' \in [Ids -> UploadSession \cup {None}]
        /\ creating' \in [Ids -> InitHandler \cup {None}]
    BY <2>1, <1>2, PersistIs DEF TypeOK
  <2> QED
    BY <1>4, <1>3, <2>2 DEF WriteChunk, TypeOK
<1>5. CASE WriteFail(c, id, at, n)
  BY <1>5, <1>3 DEF WriteFail, TypeOK, memory, handlers
<1> QED
  BY <1>4, <1>5

\* The first critical section of `complete` keeps TypeOK.
LEMMA TypeCompleteRequest == TypeOK /\ CompleteRequest => TypeOK'
<1> SUFFICES ASSUME TypeOK, NEW c \in Callers, NEW id \in Ids,
                    Claim(c, id) \/ ClaimUnsaved(c, id)
             PROVE  TypeOK'
  BY DEF CompleteRequest
<1> DEFINE s == [sessions[id] EXCEPT !.idle = 0]
<1>1. sessions[id] \in UploadSession
  BY DEF Claim, ClaimUnsaved, MayClaim, Live, TypeOK
<1>2. s \in UploadSession /\ s.path \in Paths /\ s.size \in 1..MaxSize
  BY <1>1, AgeCapType DEF UploadSession
<1>3. CASE Claim(c, id)
  <2> DEFINE h == [pc |-> "claimed", path |-> s.path, size |-> s.size]
  <2>1. h \in CompleteHandler
    BY <1>2 DEF CompleteHandler
  <2>2. /\ sessions' = [sessions EXCEPT ![id] = s]
        /\ Persist(id, s)
        /\ path_locks' = path_locks \cup {s.path}
        /\ finalizing' = finalizing \cup {s.path}
        /\ sealing' = [sealing EXCEPT ![id] = h]
        /\ UNCHANGED <<encryption, part, dest>>
    BY <1>3 DEF Claim, Persist
  <2>3. /\ json' \in [Ids -> UploadSession \cup {None}]
        /\ creating' \in [Ids -> InitHandler \cup {None}]
    BY <1>2, <2>2, PersistIs
  <2> HIDE DEF h, s
  <2> QED
    BY <1>2, <2>1, <2>2, <2>3 DEF TypeOK
<1>4. CASE ClaimUnsaved(c, id)
  <2>1. sessions' = [sessions EXCEPT ![id] = s] /\ Persist(id, s)
    BY <1>4 DEF ClaimUnsaved, Persist
  <2>2. /\ json' \in [Ids -> UploadSession \cup {None}]
        /\ creating' \in [Ids -> InitHandler \cup {None}]
    BY <1>2, <2>1, PersistIs
  <2> QED
    BY <1>4, <1>2, <2>1, <2>2 DEF ClaimUnsaved, TypeOK
<1> QED
  BY <1>3, <1>4

\* The file system work of `init` keeps TypeOK.
LEMMA TypeInitStep == TypeOK => \A id \in Ids : InitStep(id) => TypeOK'
<1> SUFFICES ASSUME TypeOK, NEW id \in Ids, InitStep(id)
             PROVE  TypeOK'
  OBVIOUS
<1>0. creating[id] \in InitHandler
  BY DEF InitStep, CreatePart, AllocPart, PersistNew, CreateFail, At, TypeOK
<1>1. CASE CreatePart(id)
  <2>1. [len |-> 0, filled |-> 0] \in PartFile
    BY LimitsAssumption DEF PartFile
  <2>2. [creating[id] EXCEPT !.pc = "alloc"] \in InitHandler
    BY <1>0 DEF InitHandler
  <2> QED
    BY <1>1, <2>1, <2>2 DEF CreatePart, TypeOK, memory
<1>2. CASE AllocPart(id)
  <2>1. [creating[id] EXCEPT !.pc = "persist"] \in InitHandler
    BY <1>0 DEF InitHandler
  <2>2. creating[id].us.size \in 0..MaxSize
    BY <1>0, LimitsAssumption DEF InitHandler, UploadSession
  <2>3. part' \in [Ids -> PartFile \cup {None}]
    BY <1>2, <2>2 DEF AllocPart, TypeOK, PartFile
  <2> QED
    BY <1>2, <2>1, <2>3 DEF AllocPart, TypeOK, memory
<1>3. CASE PersistNew(id)
  <2>1. creating[id].us \in UploadSession
    BY <1>0 DEF InitHandler
  <2> QED
    BY <1>3, <2>1 DEF PersistNew, TypeOK, memory
<1>4. CASE CreateFail(id)
  BY <1>4 DEF CreateFail, TypeOK
<1> QED
  BY <1>1, <1>2, <1>3, <1>4 DEF InitStep

\* The file system work and the second critical section of `complete` keep
\* TypeOK.
LEMMA TypeCompleteStep == TypeOK => \A id \in Ids : CompleteStep(id) => TypeOK'
<1> SUFFICES ASSUME TypeOK, NEW id \in Ids, CompleteStep(id)
             PROVE  TypeOK'
  OBVIOUS
<1>0. sealing[id] \in CompleteHandler
  BY DEF CompleteStep, Install, RemoveTemp, InstallFail, InstallThenFail,
         FinishOk, FinishErr, Sealing, TypeOK
<1>1. \A pc \in {"claimed", "sealed", "ok", "err"} :
        [sealing[id] EXCEPT !.pc = pc] \in CompleteHandler
  BY <1>0 DEF CompleteHandler
<1>2. ASSUME part[id] # None
      PROVE  [size |-> sealing[id].size, filled |-> part[id].filled] \in ServedFile
  <2>1. part[id] \in PartFile
    BY <1>2 DEF TypeOK
  <2> QED
    BY <2>1, <1>0 DEF ServedFile, PartFile, CompleteHandler
<1>3. CASE Install(id)
  BY <1>3, <1>1, <1>2 DEF Install, TypeOK, memory
<1>4. CASE RemoveTemp(id)
  BY <1>4, <1>1 DEF RemoveTemp, TypeOK, memory
<1>5. CASE InstallFail(id)
  BY <1>5, <1>1 DEF InstallFail, TypeOK, memory, disk
<1>6. CASE InstallThenFail(id)
  BY <1>6, <1>1, <1>2 DEF InstallThenFail, TypeOK, memory
<1>7. CASE FinishOk(id)
  BY <1>7 DEF FinishOk, TypeOK
<1>8. CASE FinishErr(id)
  <2>1. sealing[id].path \in Paths
    BY <1>0 DEF CompleteHandler
  <2>2. /\ sessions' \in [Ids -> UploadSession \cup {None}]
        /\ json' \in [Ids -> UploadSession \cup {None}]
        /\ creating' \in [Ids -> InitHandler \cup {None}]
    <3>1. CASE sessions[id] = None
      BY <1>8, <3>1 DEF FinishErr, TypeOK
    <3>2. CASE sessions[id] # None
      <4> DEFINE s == [sessions[id] EXCEPT !.idle = 0]
      <4>1. s \in UploadSession
        BY <3>2, AgeCapType DEF TypeOK, UploadSession
      <4>2. sessions' = [sessions EXCEPT ![id] = s] /\ Persist(id, s)
        BY <1>8, <3>2 DEF FinishErr
      <4> QED
        BY <4>1, <4>2, PersistIs DEF TypeOK
    <3> QED
      BY <3>1, <3>2
  <2> QED
    BY <1>8, <2>1, <2>2 DEF FinishErr, TypeOK
<1> QED
  BY <1>3, <1>4, <1>5, <1>6, <1>7, <1>8 DEF CompleteStep

\* The collector and the clock keep TypeOK.
LEMMA TypeGcTick == TypeOK /\ (Gc \/ Tick) => TypeOK'
<1> SUFFICES ASSUME TypeOK, Gc \/ Tick
             PROVE  TypeOK'
  OBVIOUS
<1>1. CASE Gc
  <2>1. /\ sessions' \in [Ids -> UploadSession \cup {None}]
        /\ part' \in [Ids -> PartFile \cup {None}]
        /\ json' \in [Ids -> UploadSession \cup {None}]
    BY <1>1, EraseType DEF Gc, TypeOK
  <2> QED
    BY <1>1, <2>1 DEF Gc, TypeOK, handlers
<1>2. CASE Tick
  <2>1. /\ sessions' \in [Ids -> UploadSession \cup {None}]
        /\ json' \in [Ids -> UploadSession \cup {None}]
    BY <1>2, AllOlderType DEF Tick, TypeOK
  <2>2. \A id \in Ids : creating[id] # None =>
            [creating[id] EXCEPT !.us = Older(creating[id].us)] \in InitHandler
    BY OlderType DEF TypeOK, InitHandler
  <2>3. creating' \in [Ids -> InitHandler \cup {None}]
    BY <1>2, <2>2 DEF Tick
  <2> QED
    BY <1>2, <2>1, <2>3 DEF Tick, TypeOK
<1> QED
  BY <1>1, <1>2

\* Every step keeps TypeOK.
LEMMA TypeNext == TypeOK /\ [Next]_vars => TypeOK'
<1> SUFFICES ASSUME TypeOK, [Next]_vars
             PROVE  TypeOK'
  OBVIOUS
<1>1. CASE Next
  BY <1>1, TypeInitRequest, TypeWriteRequest, TypeCompleteRequest,
     TypeInitStep, TypeCompleteStep, TypeGcTick DEF Next
<1>2. CASE UNCHANGED vars
  BY <1>2 DEF vars, memory, disk, handlers, TypeOK
<1> QED
  BY <1>1, <1>2

\* Type correctness: every reachable state of the upload manager is well
\* typed; in particular no offset exceeds the greatest size that `init` lets
\* a client declare.
THEOREM TypeCorrect == Spec => []TypeOK
<1>1. Init => TypeOK
  BY TypeInit
<1>2. TypeOK /\ [Next]_vars => TypeOK'
  BY TypeNext
<1> QED
  BY <1>1, <1>2, PTL DEF Spec

-----------------------------------------------------------------------------
(* The inductive invariant.  Most steps only take away: sessions leave, or  *)
(* stay for the same path, size and offset; part files leave, or keep their *)
(* real bytes; no handler starts or ends.                                   *)

Shrinks ==
    /\ \A id \in Ids : sessions'[id] # None =>
          /\ sessions[id] # None
          /\ sessions'[id].path = sessions[id].path
          /\ sessions'[id].size = sessions[id].size
          /\ sessions'[id].offset = sessions[id].offset
          /\ sessions'[id].owner = sessions[id].owner
    /\ \A id \in Ids : part'[id] # None =>
          part[id] # None /\ part'[id].filled = part[id].filled
    /\ \A id \in Ids : At(id, "create")' => At(id, "create")
    /\ \A id \in Ids :
          /\ sealing'[id] = None <=> sealing[id] = None
          /\ sealing[id] # None => /\ sealing'[id].path = sealing[id].path
                                  /\ sealing'[id].size = sealing[id].size
    /\ finalizing' = finalizing

\* A step that only takes away keeps the invariant, if what it publishes is
\* whole.
LEMMA IndShrinks == IndInv /\ TypeOK' /\ CommittedWhole' /\ Shrinks => IndInv'
<1> SUFFICES ASSUME IndInv, TypeOK', CommittedWhole', Shrinks
             PROVE  IndInv'
  OBVIOUS
<1>1. OnePerPath'
  BY DEF IndInv, OnePerPath, Live, Shrinks
<1>2. OffsetBacked' /\ PartBounded'
  BY DEF IndInv, OffsetBacked, PartBounded, Live, Shrinks
<1>3. CreationFresh'
  BY DEF IndInv, CreationFresh, Live, Shrinks
<1>4. SealingHeld'
  BY DEF IndInv, SealingHeld, Live, Shrinks
<1>5. FinalizingClaimed'
  BY DEF IndInv, FinalizingClaimed, Shrinks
<1> QED
  BY <1>1, <1>2, <1>3, <1>4, <1>5 DEF IndInv

\* The steps that neither start nor end a handler nor publish only take away.
LEMMA QuietShrinks ==
  ASSUME TypeOK,
         \/ \E c, p, n : InitResume(c, p, n) \/ InitRefused(c, p, n)
         \/ \E id \in Ids : \/ AllocPart(id) \/ PersistNew(id) \/ CreateFail(id)
                           \/ RemoveTemp(id) \/ InstallFail(id)
         \/ \E c : \E id \in Ids : ClaimUnsaved(c, id)
         \/ Gc \/ Tick \/ UNCHANGED vars
  PROVE  Shrinks /\ dest' = dest
<1>1. ASSUME NEW c, NEW p, NEW n, InitResume(c, p, n)
      PROVE  Shrinks /\ dest' = dest
  <2>1. PICK k \in Resumable(c, p, n) :
            /\ sessions' = [sessions EXCEPT ![k] = [sessions[k] EXCEPT !.idle = 0]]
            /\ Persist(k, [sessions[k] EXCEPT !.idle = 0])
    BY <1>1 DEF InitResume
  <2>2. k \in Ids /\ sessions[k] # None /\ sessions[k] \in UploadSession
    BY DEF Resumable, OnPath, Live, TypeOK
  <2>3. [sessions[k] EXCEPT !.idle = 0] \in UploadSession
    BY <2>2, AgeCapType DEF UploadSession
  <2>4. \A id \in Ids : At(id, "create")' => At(id, "create")
    BY <2>1, <2>2, <2>3, PersistIs
  <2> QED
    BY <1>1, <2>1, <2>2, <2>4 DEF InitResume, TypeOK, Shrinks, UploadSession
<1>2. ASSUME NEW c, NEW p, NEW n, InitRefused(c, p, n)
      PROVE  Shrinks /\ dest' = dest
  BY <1>2 DEF InitRefused, Erase, Shrinks, TypeOK, At, handlers
<1>3. ASSUME NEW id \in Ids, AllocPart(id)
      PROVE  Shrinks /\ dest' = dest
  BY <1>3 DEF AllocPart, Shrinks, TypeOK, PartFile, InitHandler, At, memory
<1>4. ASSUME NEW id \in Ids, PersistNew(id)
      PROVE  Shrinks /\ dest' = dest
  BY <1>4 DEF PersistNew, Shrinks, TypeOK, At, memory
<1>5. ASSUME NEW id \in Ids, CreateFail(id)
      PROVE  Shrinks /\ dest' = dest
  BY <1>5 DEF CreateFail, Shrinks, TypeOK, At
<1>6. ASSUME NEW c, NEW id \in Ids, ClaimUnsaved(c, id)
      PROVE  Shrinks /\ dest' = dest
  <2>1. sessions[id] # None /\ sessions[id] \in UploadSession
    BY <1>6 DEF ClaimUnsaved, MayClaim, Live, TypeOK
  <2>2. [sessions[id] EXCEPT !.idle = 0] \in UploadSession
    BY <2>1, AgeCapType DEF UploadSession
  <2>3. /\ sessions' = [sessions EXCEPT ![id] = [sessions[id] EXCEPT !.idle = 0]]
        /\ Persist(id, [sessions[id] EXCEPT !.idle = 0])
    BY <1>6 DEF ClaimUnsaved, Persist
  <2>4. \A k \in Ids : At(k, "create")' => At(k, "create")
    BY <2>2, <2>3, PersistIs
  <2> QED
    BY <1>6, <2>1, <2>3, <2>4 DEF ClaimUnsaved, Shrinks, TypeOK, UploadSession
<1>7. ASSUME NEW id \in Ids, RemoveTemp(id)
      PROVE  Shrinks /\ dest' = dest
  BY <1>7, NoneIsNoValue DEF RemoveTemp, Sealing, Shrinks, TypeOK, CompleteHandler, At, memory
<1>8. ASSUME NEW id \in Ids, InstallFail(id)
      PROVE  Shrinks /\ dest' = dest
  BY <1>8, NoneIsNoValue DEF InstallFail, Sealing, Shrinks, TypeOK, CompleteHandler, At, memory, disk
<1>9. CASE Gc
  BY <1>9 DEF Gc, Erase, Shrinks, TypeOK, At, handlers
<1>10. CASE Tick
  <2>1. \A k \in Ids : sessions[k] # None =>
            /\ sessions'[k].path = sessions[k].path
            /\ sessions'[k].size = sessions[k].size
            /\ sessions'[k].offset = sessions[k].offset
            /\ sessions'[k].owner = sessions[k].owner
    BY <1>10, OlderType DEF Tick, AllOlder, TypeOK
  <2>2. \A k \in Ids : sessions'[k] # None => sessions[k] # None
    BY <1>10 DEF Tick, AllOlder
  <2>3. \A k \in Ids : creating'[k] # None =>
            creating[k] # None /\ creating'[k].pc = creating[k].pc
    BY <1>10 DEF Tick, TypeOK, InitHandler
  <2> QED
    BY <1>10, <2>1, <2>2, <2>3 DEF Tick, Shrinks, At
<1>11. CASE UNCHANGED vars
  BY <1>11 DEF vars, memory, disk, handlers, Shrinks, At
<1> QED
  BY <1>1, <1>2, <1>3, <1>4, <1>5, <1>6, <1>7, <1>8, <1>9, <1>10, <1>11

\* Publishing takes the bytes of a part file that is whole.
LEMMA InstallKeeps ==
  ASSUME IndInv, TypeOK', NEW id \in Ids, Install(id) \/ InstallThenFail(id)
  PROVE  IndInv'
<1>1. /\ sealing[id] \in CompleteHandler
      /\ sealing[id] # None /\ part[id] # None
      /\ part[id].filled = sealing[id].size
  BY DEF Install, InstallThenFail, Sealing, IndInv, TypeOK, SealingHeld
<1>2. dest' = [dest EXCEPT ![sealing[id].path] =
                  [size |-> sealing[id].size, filled |-> part[id].filled]]
  BY DEF Install, InstallThenFail
<1>3. CommittedWhole'
  BY <1>1, <1>2 DEF CommittedWhole, IndInv, TypeOK
<1>4. \E pc : sealing' = [sealing EXCEPT ![id].pc = pc]
  BY DEF Install, InstallThenFail
<1>5. \A k \in Ids :
        /\ sealing'[k] = None <=> sealing[k] = None
        /\ sealing[k] # None => /\ sealing'[k].path = sealing[k].path
                               /\ sealing'[k].size = sealing[k].size
  BY <1>1, NoneIsNoValue DEF Install, InstallThenFail, IndInv, TypeOK, CompleteHandler
<1>6. Shrinks
  BY <1>5 DEF Install, InstallThenFail, Shrinks, At, memory, IndInv, TypeOK
<1> QED
  BY <1>3, <1>6, IndShrinks

\* A new session takes a path nobody else holds, and starts from nothing.
LEMMA ReserveKeeps ==
  ASSUME IndInv, TypeOK', NEW c \in Callers, NEW p, NEW n, InitReserve(c, p, n)
  PROVE  IndInv'
<1> DEFINE us == [path |-> p, size |-> n, offset |-> 0, owner |-> c, idle |-> 0]
<1>1. PICK victims \in Conflicts(p), id \in Ids :
            /\ MayTake(c, p, n, victims)
            /\ Fresh(id)
            /\ sessions' = [Erase(sessions, victims) EXCEPT ![id] = us]
            /\ path_locks' = path_locks \cup {p}
            /\ part' = Erase(part, victims)
            /\ creating' = [creating EXCEPT ![id] = [pc |-> "create", us |-> us]]
            /\ UNCHANGED <<finalizing, dest, sealing>>
  BY DEF InitReserve
<1>2. n \in 1..MaxSize /\ p \notin finalizing
  BY <1>1 DEF MayTake, InitAllowed
<1>3. \A k \in Ids \ victims : sessions[k] # None => sessions[k].path # p
  BY <1>1 DEF Conflicts, OnPath, Live, IndInv, OnePerPath
<1>4. /\ sessions'[id] = us /\ us # None
      /\ \A k \in Ids : k # id => sessions'[k] = IF k \in victims THEN None ELSE sessions[k]
  <2>1. us \in UploadSession
    <3>1. p \in Paths
      BY <1>1 DEF TypeOK
    <3>2. c \in Users \cup {None}
      BY DEF Callers
    <3> QED
      BY <3>1, <3>2, <1>2, AgeCapType, LimitsAssumption DEF UploadSession
  <2> QED
    BY <1>1, <2>1, NoneIsNoValue DEF Erase
<1>5. /\ \A k \in Ids : part'[k] = IF k \in victims THEN None ELSE part[k]
      /\ part[id] = None /\ sealing[id] = None /\ part'[id] = None
  BY <1>1 DEF Erase, Fresh
<1>6. OnePerPath'
  BY <1>3, <1>4 DEF IndInv, OnePerPath, Live
<1>7. OffsetBacked' /\ PartBounded'
  BY <1>4, <1>5 DEF IndInv, OffsetBacked, PartBounded, Live
<1>8. CreationFresh'
  <2> SUFFICES ASSUME NEW k \in Ids, At(k, "create")'
               PROVE  /\ part'[k] = None /\ sealing'[k] = None
                      /\ sessions'[k] # None => sessions'[k].offset = 0
    BY DEF CreationFresh, Live
  <2>1. CASE k = id
    BY <2>1, <1>1, <1>4, <1>5
  <2>2. CASE k # id
    BY <2>2, <1>1, <1>4, <1>5 DEF At, IndInv, CreationFresh, Live, TypeOK
  <2> QED
    BY <2>1, <2>2
<1>9. SealingHeld'
  BY <1>1, <1>2, <1>4, <1>5 DEF IndInv, SealingHeld, Live
<1>10. FinalizingClaimed' /\ CommittedWhole'
  BY <1>1 DEF IndInv, FinalizingClaimed, CommittedWhole
<1> QED
  BY <1>6, <1>7, <1>8, <1>9, <1>10 DEF IndInv

\* File::create truncates nothing that was received.
LEMMA CreateKeeps ==
  ASSUME IndInv, TypeOK', NEW id \in Ids, CreatePart(id)
  PROVE  IndInv'
<1>1. /\ creating[id] # None /\ creating[id].pc = "create"
      /\ part' = [part EXCEPT ![id] = [len |-> 0, filled |-> 0]]
      /\ creating' = [creating EXCEPT ![id].pc = "alloc"]
      /\ UNCHANGED <<sessions, finalizing, dest, sealing>>
  BY DEF CreatePart, At, memory
<1>2. /\ sealing[id] = None
      /\ sessions[id] # None => sessions[id].offset = 0 /\ sessions[id].size \in 1..MaxSize
  BY <1>1 DEF IndInv, CreationFresh, Live, At, TypeOK, UploadSession
<1>3. OnePerPath' /\ FinalizingClaimed' /\ CommittedWhole'
  BY <1>1 DEF IndInv, OnePerPath, FinalizingClaimed, CommittedWhole, Live
<1>4. OffsetBacked' /\ PartBounded'
  BY <1>1, <1>2, LimitsAssumption DEF IndInv, OffsetBacked, PartBounded, Live, TypeOK
<1>5. CreationFresh'
  BY <1>1 DEF IndInv, CreationFresh, Live, At, TypeOK, InitHandler
<1>6. SealingHeld'
  BY <1>1, <1>2 DEF IndInv, SealingHeld, Live, TypeOK
<1> QED
  BY <1>3, <1>4, <1>5, <1>6 DEF IndInv

\* A chunk is written where the session stands, within its size.
LEMMA WriteKeeps ==
  ASSUME IndInv, TypeOK', NEW c, NEW id \in Ids, NEW at \in 0..MaxSize,
         NEW n \in 0..MaxSize, WriteChunk(c, id, at, n) \/ WriteFail(c, id, at, n)
  PROVE  IndInv'
<1>1. /\ sessions[id] # None /\ part[id] # None
      /\ sessions[id].path \notin finalizing
      /\ at = sessions[id].offset
      /\ n <= sessions[id].size - at
      /\ part' = [part EXCEPT ![id] = Written(part[id], at, n)]
      /\ UNCHANGED <<finalizing, dest, sealing>>
  BY LimitsAssumption
     DEF WriteChunk, WriteFail, MayWrite, Remaining, Live, IndInv, TypeOK, memory,
         handlers
<1>2. /\ sessions[id] \in UploadSession /\ part[id] \in PartFile
      /\ at <= part[id].filled /\ part[id].filled <= sessions[id].size
  BY <1>1 DEF IndInv, TypeOK, OffsetBacked, PartBounded, Live
<1>3. /\ Written(part[id], at, n).filled >= at + n
      /\ Written(part[id], at, n).filled <= sessions[id].size
      /\ Written(part[id], at, n).filled >= at
  BY <1>1, <1>2, LimitsAssumption DEF Written, PartFile, UploadSession
<1>4. /\ \A k \in Ids : k # id => sessions'[k] = sessions[k]
      /\ sessions'[id] # None
      /\ sessions'[id].path = sessions[id].path
      /\ sessions'[id].size = sessions[id].size
      /\ sessions'[id].offset \in {at, at + n}
      /\ \A k \in Ids : At(k, "create")' => At(k, "create")
  <2>1. CASE WriteChunk(c, id, at, n)
    <3> DEFINE s == [sessions[id] EXCEPT !.offset = @ + n, !.idle = 0]
    <3>1. sessions' = [sessions EXCEPT ![id] = s] /\ Persist(id, s)
      BY <2>1 DEF WriteChunk
    <3>2. /\ s.path = sessions[id].path /\ s.size = sessions[id].size
          /\ s.offset = at + n
      BY <1>1, <1>2 DEF UploadSession
    <3>3. sessions'[id] = s /\ \A k \in Ids : k # id => sessions'[k] = sessions[k]
      BY <3>1 DEF IndInv, TypeOK
    <3>4. s \in UploadSession
      <4>1. at + n \in 0..MaxSize /\ 0 \in 0..AgeCap
        BY <1>1, <1>2, AgeCapType, LimitsAssumption DEF UploadSession
      <4>2. sessions[id].offset + n \in 0..MaxSize
        BY <4>1, <1>1
      <4> QED
        BY <1>2, <4>1, <4>2 DEF UploadSession
    <3>5. \A k \in Ids : At(k, "create")' => At(k, "create")
      BY <3>1, <3>4, PersistIs DEF IndInv
    <3> HIDE DEF s
    <3> QED
      BY <3>2, <3>3, <3>4, <3>5, NoneIsNoValue
  <2>2. CASE WriteFail(c, id, at, n)
    BY <2>2, <1>1 DEF WriteFail, memory, handlers, At
  <2> QED
    BY <2>1, <2>2
<1>5. OnePerPath'
  BY <1>1, <1>4 DEF IndInv, OnePerPath, Live
<1>6. OffsetBacked' /\ PartBounded'
  BY <1>1, <1>3, <1>4 DEF IndInv, OffsetBacked, PartBounded, Live, TypeOK
<1>7. CreationFresh'
  BY <1>1, <1>4 DEF IndInv, CreationFresh, Live, TypeOK
<1>8. SealingHeld'
  BY <1>1, <1>4 DEF IndInv, SealingHeld, Live, TypeOK
<1>9. FinalizingClaimed' /\ CommittedWhole'
  BY <1>1 DEF IndInv, FinalizingClaimed, CommittedWhole
<1> QED
  BY <1>5, <1>6, <1>7, <1>8, <1>9 DEF IndInv

\* Whoever claims a path is alone on it and holds a whole part file.
LEMMA ClaimKeeps ==
  ASSUME IndInv, TypeOK', NEW c, NEW id \in Ids, Claim(c, id)
  PROVE  IndInv'
<1> DEFINE h == [pc |-> "claimed", path |-> sessions[id].path, size |-> sessions[id].size]
<1>1. /\ sessions[id] # None /\ sessions[id] \in UploadSession
      /\ sessions[id].offset = sessions[id].size
      /\ sessions[id].path \notin finalizing
  BY DEF Claim, MayClaim, Live, IndInv, TypeOK
<1>2. /\ finalizing' = finalizing \cup {sessions[id].path}
      /\ sealing' = [sealing EXCEPT ![id] = h]
      /\ UNCHANGED <<part, dest>>
  BY <1>1 DEF Claim, UploadSession
<1>3. \A k \in Ids :
        /\ sessions'[k] = None <=> sessions[k] = None
        /\ sessions[k] # None => /\ sessions'[k].path = sessions[k].path
                                /\ sessions'[k].size = sessions[k].size
                                /\ sessions'[k].offset = sessions[k].offset
        /\ At(k, "create")' => At(k, "create")
  <2> DEFINE s == [sessions[id] EXCEPT !.idle = 0]
  <2>1. sessions' = [sessions EXCEPT ![id] = s] /\ Persist(id, s)
    BY DEF Claim, Persist
  <2>2. /\ s \in UploadSession
        /\ s.path = sessions[id].path /\ s.size = sessions[id].size
        /\ s.offset = sessions[id].offset
    BY <1>1, AgeCapType DEF UploadSession
  <2> HIDE DEF s
  <2>3. \A k \in Ids : At(k, "create")' => At(k, "create")
    BY <2>1, <2>2, PersistIs DEF IndInv
  <2> QED
    BY <1>1, <2>1, <2>2, <2>3, NoneIsNoValue DEF IndInv, TypeOK
<1>4. /\ h # None
      /\ h.path = sessions[id].path /\ h.size = sessions[id].size
  <2>1. sessions[id].path \in Paths /\ sessions[id].size \in 1..MaxSize
    BY <1>1 DEF UploadSession
  <2>2. h \in CompleteHandler
    BY <2>1 DEF CompleteHandler
  <2> QED
    BY <2>2, NoneIsNoValue
<1>5. /\ ~At(id, "create")
      /\ part[id] # None => part[id].filled = sessions[id].size
  <2>1. sessions[id].offset # 0
    BY <1>1, LimitsAssumption DEF UploadSession
  <2>2. ~At(id, "create")
    BY <1>1, <2>1 DEF IndInv, CreationFresh, Live
  <2>3. part[id] # None => part[id].filled = sessions[id].size
    <3> SUFFICES ASSUME part[id] # None
                 PROVE  part[id].filled = sessions[id].size
      OBVIOUS
    <3>1. part[id].filled \in Int /\ sessions[id].size \in Int
      BY <1>1, LimitsAssumption DEF IndInv, TypeOK, PartFile, UploadSession
    <3>2. sessions[id].offset <= part[id].filled /\ part[id].filled <= sessions[id].size
      BY <1>1 DEF IndInv, OffsetBacked, PartBounded, Live
    <3> QED
      BY <1>1, <3>1, <3>2
  <2> QED
    BY <2>2, <2>3
<1>6. OnePerPath' /\ OffsetBacked' /\ PartBounded' /\ CommittedWhole'
  BY <1>2, <1>3 DEF IndInv, OnePerPath, OffsetBacked, PartBounded, CommittedWhole, Live
<1>7. CreationFresh'
  BY <1>2, <1>3, <1>5 DEF IndInv, CreationFresh, Live, TypeOK
<1>8. SealingHeld'
  <2>1. \A k \in Ids : sealing[k] # None => sealing[k].path # sessions[id].path
    BY <1>1 DEF IndInv, SealingHeld
  <2>2. sealing'[id] = h /\ \A k \in Ids : k # id => sealing'[k] = sealing[k]
    BY <1>2 DEF IndInv, TypeOK
  <2> HIDE DEF h
  <2> QED
    BY <1>2, <1>3, <1>4, <1>5, <2>1, <2>2 DEF IndInv, SealingHeld, Live
<1>9. FinalizingClaimed'
  <2>1. sealing'[id] = h /\ \A k \in Ids : k # id => sealing'[k] = sealing[k]
    BY <1>2 DEF IndInv, TypeOK
  <2>2. sealing[id] = None
    BY <1>1 DEF IndInv, SealingHeld, Live
  <2> HIDE DEF h
  <2> QED
    BY <1>2, <1>4, <2>1, <2>2 DEF IndInv, FinalizingClaimed
<1> QED
  BY <1>6, <1>7, <1>8, <1>9 DEF IndInv

\* The end of `complete` frees the path it holds and no other.
LEMMA FinishKeeps ==
  ASSUME IndInv, TypeOK', NEW id \in Ids, FinishOk(id) \/ FinishErr(id)
  PROVE  IndInv'
<1>1. /\ sealing[id] # None
      /\ finalizing' = finalizing \ {sealing[id].path}
      /\ sealing' = [sealing EXCEPT ![id] = None]
      /\ UNCHANGED <<part, dest>>
  BY DEF FinishOk, FinishErr, Sealing
<1>2. \A k \in Ids :
        /\ sessions'[k] # None => /\ sessions[k] # None
                                  /\ sessions'[k].path = sessions[k].path
                                  /\ sessions'[k].size = sessions[k].size
                                  /\ sessions'[k].offset = sessions[k].offset
        /\ At(k, "create")' => At(k, "create")
  <2>1. CASE FinishOk(id)
    BY <2>1 DEF FinishOk, IndInv, TypeOK, At
  <2>2. CASE FinishErr(id) /\ sessions[id] = None
    BY <2>2 DEF FinishErr, At
  <2>3. CASE FinishErr(id) /\ sessions[id] # None
    <3>1. sessions[id] \in UploadSession
      BY <2>3 DEF IndInv, TypeOK
    <3>2. /\ sessions' = [sessions EXCEPT ![id] = [sessions[id] EXCEPT !.idle = 0]]
          /\ Persist(id, [sessions[id] EXCEPT !.idle = 0])
      BY <2>3 DEF FinishErr
    <3>3. [sessions[id] EXCEPT !.idle = 0] \in UploadSession
      BY <3>1, AgeCapType DEF UploadSession
    <3>4. \A k \in Ids : At(k, "create")' => At(k, "create")
      BY <3>2, <3>3, PersistIs DEF IndInv
    <3> QED
      BY <2>3, <3>1, <3>2, <3>4 DEF IndInv, TypeOK, UploadSession
  <2> QED
    BY <2>1, <2>2, <2>3
<1>3. \A k \in Ids : k # id /\ sealing[k] # None => sealing[k].path # sealing[id].path
  BY <1>1 DEF IndInv, SealingHeld
<1>4. \A k \in Ids : sealing'[k] = IF k = id THEN None ELSE sealing[k]
  BY <1>1 DEF IndInv, TypeOK
<1>5. OnePerPath' /\ OffsetBacked' /\ PartBounded' /\ CommittedWhole'
  BY <1>1, <1>2 DEF IndInv, OnePerPath, OffsetBacked, PartBounded, CommittedWhole, Live
<1>6. CreationFresh'
  BY <1>1, <1>2, <1>4 DEF IndInv, CreationFresh, Live
<1>7. SealingHeld'
  BY <1>1, <1>2, <1>3, <1>4 DEF IndInv, SealingHeld, Live
<1>8. FinalizingClaimed'
  BY <1>1, <1>4 DEF IndInv, FinalizingClaimed
<1> QED
  BY <1>5, <1>6, <1>7, <1>8 DEF IndInv

\* The initial states satisfy the invariant.
LEMMA IndInit == Init => IndInv
<1> SUFFICES ASSUME Init
             PROVE  IndInv
  OBVIOUS
<1>1. TypeOK
  BY TypeInit
<1>2. OnePerPath /\ OffsetBacked /\ PartBounded
  BY DEF Init, OnePerPath, OffsetBacked, PartBounded, Live
<1>3. CreationFresh /\ SealingHeld /\ FinalizingClaimed /\ CommittedWhole
  BY DEF Init, CreationFresh, SealingHeld, FinalizingClaimed, CommittedWhole, At
<1> QED
  BY <1>1, <1>2, <1>3 DEF IndInv

\* Every step keeps the invariant.
LEMMA IndNext == IndInv /\ [Next]_vars => IndInv'
<1> SUFFICES ASSUME IndInv, [Next]_vars
             PROVE  IndInv'
  OBVIOUS
<1>1. TypeOK'
  BY TypeNext DEF IndInv
<1>2. ASSUME Shrinks, dest' = dest
      PROVE  IndInv'
  BY <1>1, <1>2, IndShrinks DEF IndInv, CommittedWhole
<1>3. CASE InitRequest
  <2>1. PICK c \in Callers, raw \in RawPaths, n \in DeclaredSizes :
            \/ InitResume(c, Canonical[raw], n)
            \/ InitReserve(c, Canonical[raw], n)
            \/ InitRefused(c, Canonical[raw], n)
    BY <1>3 DEF InitRequest
  <2>2. CASE InitReserve(c, Canonical[raw], n)
    BY <2>2, <1>1, ReserveKeeps
  <2>3. CASE InitResume(c, Canonical[raw], n) \/ InitRefused(c, Canonical[raw], n)
    BY <2>3, <1>2, QuietShrinks DEF IndInv
  <2> QED
    BY <2>1, <2>2, <2>3
<1>4. CASE WriteRequest
  BY <1>4, <1>1, WriteKeeps DEF WriteRequest
<1>5. CASE CompleteRequest
  <2>1. PICK c \in Callers, id \in Ids : Claim(c, id) \/ ClaimUnsaved(c, id)
    BY <1>5 DEF CompleteRequest
  <2>2. CASE Claim(c, id)
    BY <2>2, <1>1, ClaimKeeps
  <2>3. CASE ClaimUnsaved(c, id)
    BY <2>3, <1>2, QuietShrinks DEF IndInv
  <2> QED
    BY <2>1, <2>2, <2>3
<1>6. ASSUME NEW id \in Ids, InitStep(id) \/ CompleteStep(id)
      PROVE  IndInv'
  <2>1. CASE CreatePart(id)
    BY <2>1, <1>1, CreateKeeps
  <2>2. CASE AllocPart(id) \/ PersistNew(id) \/ CreateFail(id)
    BY <2>2, <1>2, QuietShrinks DEF IndInv
  <2>3. CASE Install(id) \/ InstallThenFail(id)
    BY <2>3, <1>1, InstallKeeps
  <2>4. CASE RemoveTemp(id) \/ InstallFail(id)
    BY <2>4, <1>2, QuietShrinks DEF IndInv
  <2>5. CASE FinishOk(id) \/ FinishErr(id)
    BY <2>5, <1>1, FinishKeeps
  <2> QED
    BY <1>6, <2>1, <2>2, <2>3, <2>4, <2>5 DEF InitStep, CompleteStep
<1>7. CASE Gc \/ Tick \/ UNCHANGED vars
  BY <1>7, <1>2, QuietShrinks DEF IndInv
<1> QED
  BY <1>3, <1>4, <1>5, <1>6, <1>7 DEF Next

\* The inductive invariant holds in every reachable state.
THEOREM Inductive == Spec => []IndInv
  BY IndInit, IndNext, PTL DEF Spec

\* However inits, PUTs, completes, roll backs and the collector interleave, a
\* path never has two incomplete uploads.
THEOREM OneUploadAPath == Spec => []OnePerPath
<1>1. IndInv => OnePerPath
  BY DEF IndInv
<1> QED
  BY <1>1, Inductive, PTL

\* No client is ever told an offset beyond the bytes it has sent.
THEOREM OffsetsBacked == Spec => []OffsetBacked
<1>1. IndInv => OffsetBacked
  BY DEF IndInv
<1> QED
  BY <1>1, Inductive, PTL

\* Without a crash, every file that `complete` publishes is whole.
THEOREM CommitsWhole == Spec => []CommittedWhole
<1>1. IndInv => CommittedWhole
  BY DEF IndInv
<1> QED
  BY <1>1, Inductive, PTL

\* A path is marked as finalizing by exactly one `complete` that will unmark
\* it.
THEOREM MarkedByOne == Spec => []FinalizingOwned
<1>1. IndInv => FinalizingOwned
  <2> SUFFICES ASSUME IndInv, NEW p \in finalizing
               PROVE  Cardinality({id \in Ids : sealing[id] # None /\ sealing[id].path = p}) = 1
    BY DEF FinalizingOwned
  <2>1. PICK id \in Ids : sealing[id] # None /\ sealing[id].path = p
    BY DEF IndInv, FinalizingClaimed
  <2>2. {i \in Ids : sealing[i] # None /\ sealing[i].path = p} = {id}
    BY <2>1 DEF IndInv, SealingHeld
  <2> QED
    BY <2>2, FS_Singleton
<1> QED
  BY <1>1, Inductive, PTL

-----------------------------------------------------------------------------
(* What the maps and the directory keep in step: BookInv.  But for `init`'s  *)
(* and for the clock's steps, a session leaves or goes on with more bytes   *)
(* and a fresher stamp, and what is saved of it is as before, as it is now   *)
(* or as its `init` was to save it.                                         *)

Goes ==
    \A id \in Ids : sessions'[id] # None =>
        /\ sessions[id] # None
        /\ sessions'[id].path = sessions[id].path
        /\ sessions'[id].size = sessions[id].size
        /\ sessions'[id].owner = sessions[id].owner

Saves ==
    \A id \in Ids : sessions'[id] # None =>
        /\ sessions'[id].offset >= sessions[id].offset
        /\ sessions'[id].idle <= sessions[id].idle
        /\ creating'[id] # None =>
              creating[id] # None /\ creating'[id].us = creating[id].us
        /\ creating'[id] = None =>
              \/ creating[id] = None /\ json'[id] = json[id]
              \/ json'[id] = sessions'[id]
              \/ creating[id] # None /\ json'[id] = creating[id].us

\* What is being sealed stays as it was claimed.
Seals ==
    \A id \in Ids : sealing'[id] # None =>
        /\ sealing[id] # None
        /\ sessions'[id] # None => sessions'[id].offset = sessions[id].offset
        /\ part'[id] # None =>
              part[id] # None /\ (sessions[id] # None => sessions'[id] # None)

\* A fresh stamp changes nothing else.
LEMMA Touched ==
  ASSUME NEW s \in UploadSession
  PROVE  /\ [s EXCEPT !.idle = 0] \in UploadSession
         /\ [s EXCEPT !.idle = 0] # None
         /\ [s EXCEPT !.idle = 0].path = s.path
         /\ [s EXCEPT !.idle = 0].size = s.size
         /\ [s EXCEPT !.idle = 0].owner = s.owner
         /\ [s EXCEPT !.idle = 0].offset = s.offset
         /\ [s EXCEPT !.idle = 0].idle = 0
         /\ 0 <= s.idle /\ s.offset \in Int /\ s.offset >= s.offset
<1>1. [s EXCEPT !.idle = 0] \in UploadSession
  BY AgeCapType DEF UploadSession
<1>2. s.idle \in Nat /\ s.offset \in Int
  BY AgeCapType, LimitsAssumption DEF UploadSession
<1> QED
  BY <1>1, <1>2, NoneIsNoValue DEF UploadSession

\* Saved copies stay behind their sessions.
LEMMA SavesKeep ==
  ASSUME BookInv, TypeOK', Goes, Saves
  PROVE  NewSaved' /\ SavedCopy'
<1>1. \A id \in Ids : /\ sessions[id] # None => sessions[id] \in UploadSession
                      /\ sessions'[id] # None => sessions'[id] \in UploadSession
                      /\ json[id] # None => json[id] \in UploadSession
                      /\ creating[id] # None => creating[id].us \in UploadSession
  BY DEF BookInv, IndInv, TypeOK, InitHandler
<1>2. \A s \in UploadSession : s.offset \in Int /\ s.idle \in Int
  BY AgeCapType, LimitsAssumption DEF UploadSession
<1>3. NewSaved'
  BY <1>1, <1>2 DEF BookInv, NewSaved, Live, Goes, Saves
<1>4. SavedCopy'
  <2> SUFFICES ASSUME NEW id \in Ids, sessions'[id] # None, creating'[id] = None
               PROVE  /\ json'[id] # None
                      /\ json'[id].path = sessions'[id].path
                      /\ json'[id].size = sessions'[id].size
                      /\ json'[id].owner = sessions'[id].owner
                      /\ json'[id].offset <= sessions'[id].offset
                      /\ json'[id].idle >= sessions'[id].idle
    BY DEF SavedCopy, Live
  <2>1. CASE json'[id] = sessions'[id]
    BY <2>1, <1>1, <1>2
  <2>2. CASE creating[id] # None /\ json'[id] = creating[id].us
    <3>1. /\ sessions[id] # None
          /\ sessions'[id].path = sessions[id].path
          /\ sessions'[id].size = sessions[id].size
          /\ sessions'[id].owner = sessions[id].owner
          /\ sessions'[id].offset >= sessions[id].offset
          /\ sessions'[id].idle <= sessions[id].idle
      BY DEF Goes, Saves
    <3>2. /\ creating[id].us.path = sessions[id].path
          /\ creating[id].us.size = sessions[id].size
          /\ creating[id].us.owner = sessions[id].owner
          /\ creating[id].us.offset <= sessions[id].offset
          /\ creating[id].us.idle >= sessions[id].idle
      BY <2>2, <3>1 DEF BookInv, NewSaved, Live
    <3> QED
      BY <2>2, <3>1, <3>2, <1>1, <1>2, NoneIsNoValue
  <2>3. CASE creating[id] = None /\ json'[id] = json[id]
    <3>1. sessions[id] # None /\ creating[id] = None
      BY <2>3 DEF Goes
    <3>2. /\ json[id] # None
          /\ json[id].path = sessions[id].path
          /\ json[id].size = sessions[id].size
          /\ json[id].owner = sessions[id].owner
          /\ json[id].offset <= sessions[id].offset
          /\ json[id].idle >= sessions[id].idle
      BY <3>1 DEF BookInv, SavedCopy, Live
    <3>3. /\ sessions'[id].path = sessions[id].path
          /\ sessions'[id].size = sessions[id].size
          /\ sessions'[id].owner = sessions[id].owner
          /\ sessions'[id].offset >= sessions[id].offset
          /\ sessions'[id].idle <= sessions[id].idle
      BY DEF Goes, Saves
    <3> QED
      BY <2>3, <3>1, <3>2, <3>3, <1>1, <1>2
  <2> QED
    BY <2>1, <2>2, <2>3 DEF Saves
<1> QED
  BY <1>3, <1>4

\* A step that adds no session keeps within the quotas.
LEMMA GoesKeeps ==
  ASSUME BookInv, Goes
  PROVE  IsFiniteSet(Live)' /\ WithinQuota'
<1>1. IsFiniteSet(Live) /\ Live' \subseteq Live
  BY DEF BookInv, Goes, Live
<1>2. IsFiniteSet(Live') /\ Cardinality(Live') <= Cardinality(Live)
  BY <1>1, FS_Subset
<1>3. \A u \in Users : /\ IsFiniteSet(OwnedBy(u)) /\ OwnedBy(u)' \subseteq OwnedBy(u)
  <2>1. \A u \in Users : OwnedBy(u) \subseteq Live
    BY DEF OwnedBy
  <2> QED
    BY <1>1, <2>1, FS_Subset DEF OwnedBy, Goes, Live
<1>4. \A u \in Users : Cardinality(OwnedBy(u)') <= Cardinality(OwnedBy(u))
  BY <1>3, FS_Subset
<1>5. /\ Cardinality(Live) \in Nat /\ Cardinality(Live') \in Nat
      /\ \A u \in Users : /\ Cardinality(OwnedBy(u)) \in Nat
                          /\ Cardinality(OwnedBy(u)') \in Nat
  BY <1>1, <1>2, <1>3, FS_CardinalityType, FS_Subset
<1>6. /\ Cardinality(Live) <= MaxConcurrent
      /\ \A u \in Users : Cardinality(OwnedBy(u)) <= MaxPerUser
  BY DEF BookInv, WithinQuota
<1>7. Cardinality(Live') <= MaxConcurrent
  BY <1>2, <1>5, <1>6, LimitsAssumption
<1>8. ASSUME NEW u \in Users
      PROVE  Cardinality(OwnedBy(u)') <= MaxPerUser
  BY <1>4, <1>5, <1>6, LimitsAssumption
<1> QED
  BY <1>2, <1>7, <1>8 DEF WithinQuota

\* What was claimed is kept as it was.
LEMMA SealsKeep ==
  ASSUME BookInv, Goes, Seals
  PROVE  SealingFull'
<1> SUFFICES ASSUME NEW id \in Ids, sealing'[id] # None
             PROVE  /\ sessions'[id] # None => sessions'[id].offset = sessions'[id].size
                    /\ part'[id] # None => sessions'[id] # None
  BY DEF SealingFull, Live
<1>1. sealing[id] # None
  BY DEF Seals
<1>2. /\ sessions[id] # None => sessions[id].offset = sessions[id].size
      /\ part[id] # None => sessions[id] # None
  BY <1>1 DEF BookInv, SealingFull, Live
<1> QED
  BY <1>2 DEF Seals, Goes

\* The steps that the three lemmas together cover.
LEMMA BookKeeps ==
  ASSUME BookInv, IndInv', Goes, Saves, Seals
  PROVE  BookInv'
<1>1. TypeOK'
  BY DEF IndInv
<1> QED
  BY <1>1, SavesKeep, GoesKeeps, SealsKeep DEF BookInv

\* The path of what is being sealed is marked.
LEMMA SealedMarked ==
  ASSUME IndInv, NEW id \in Ids, sealing[id] # None, sessions[id] # None
  PROVE  sessions[id].path \in finalizing
  BY DEF IndInv, SealingHeld, Live

\* A handler that refreshes a session's stamp.
LEMMA TouchSteps ==
  ASSUME TypeOK, NEW k \in Ids, sessions[k] # None,
         sessions' = [sessions EXCEPT ![k] = [sessions[k] EXCEPT !.idle = 0]],
         Persist(k, [sessions[k] EXCEPT !.idle = 0])
  PROVE  /\ Goes /\ Saves
         /\ \A id \in Ids : /\ sessions'[id] = None <=> sessions[id] = None
                            /\ sessions[id] # None => /\ sessions'[id].path = sessions[id].path
                                                     /\ sessions'[id].offset = sessions[id].offset
<1> DEFINE s == [sessions[k] EXCEPT !.idle = 0]
<1>1. /\ sessions[k] \in UploadSession
      /\ \A id \in Ids : sessions[id] # None =>
            sessions[id].offset >= sessions[id].offset /\ sessions[id].idle <= sessions[id].idle
  BY AgeCapType, LimitsAssumption DEF TypeOK, UploadSession
<1>2. /\ s # None /\ s.path = sessions[k].path /\ s.size = sessions[k].size
      /\ s.owner = sessions[k].owner /\ s.offset = sessions[k].offset
      /\ s.offset >= sessions[k].offset /\ s.idle <= sessions[k].idle
      /\ s \in UploadSession
  BY <1>1, Touched
<1>3. sessions' = [sessions EXCEPT ![k] = s] /\ Persist(k, s)
  OBVIOUS
<1> HIDE DEF s
<1>4. sessions'[k] = s /\ \A id \in Ids : id # k => sessions'[id] = sessions[id]
  BY <1>3 DEF TypeOK
<1>5. \A id \in Ids : sessions'[id] # None =>
        /\ creating'[id] # None =>
              creating[id] # None /\ creating'[id].us = creating[id].us
        /\ creating'[id] = None =>
              \/ creating[id] = None /\ json'[id] = json[id]
              \/ json'[id] = sessions'[id]
              \/ creating[id] # None /\ json'[id] = creating[id].us
  <2>1. /\ \A id \in Ids : id # k => json'[id] = json[id] /\ creating'[id] = creating[id]
        /\ creating'[k] # None =>
              creating[k] # None /\ creating'[k].us = creating[k].us
        /\ \/ creating'[k] = creating[k] /\ json'[k] = json[k]
           \/ json'[k] = s
           \/ creating[k] # None /\ json'[k] = creating[k].us
    BY <1>2, <1>3, PersistIs
  <2> QED
    BY <1>4, <2>1
<1> QED
  BY <1>1, <1>2, <1>4, <1>5 DEF Goes, Saves

\* A handler that drops sessions with their files: none that is being sealed.
LEMMA EraseSteps ==
  ASSUME IndInv, NEW S, \A id \in S \cap Live : sessions[id].path \notin finalizing,
         sessions' = Erase(sessions, S), part' = Erase(part, S), json' = Erase(json, S),
         UNCHANGED handlers
  PROVE  Goes /\ Saves /\ Seals
<1>1. \A id \in Ids : sessions[id] # None => sessions[id].offset \in Int /\ sessions[id].idle \in Int
  BY AgeCapType, LimitsAssumption DEF IndInv, TypeOK, UploadSession
<1>2. Goes /\ Saves
  BY <1>1 DEF Erase, Goes, Saves, handlers
<1>3. \A id \in Ids : sealing[id] # None /\ sessions[id] # None => id \notin S
  BY SealedMarked DEF Live
<1>4. Seals
  BY <1>3 DEF Erase, Seals, handlers
<1> QED
  BY <1>2, <1>4

\* Resuming an upload.
LEMMA ResumeBook ==
  ASSUME BookInv, IndInv', NEW c, NEW p, NEW n, InitResume(c, p, n)
  PROVE  BookInv'
<1>1. PICK k \in Resumable(c, p, n) :
          /\ sessions' = [sessions EXCEPT ![k] = [sessions[k] EXCEPT !.idle = 0]]
          /\ Persist(k, [sessions[k] EXCEPT !.idle = 0])
  BY DEF InitResume
<1>2. k \in Ids /\ sessions[k] # None /\ TypeOK
  BY DEF Resumable, OnPath, Live, BookInv, IndInv
<1>3. UNCHANGED <<part, sealing>>
  BY DEF InitResume
<1>4. /\ Goes /\ Saves
      /\ \A id \in Ids : /\ sessions'[id] = None <=> sessions[id] = None
                         /\ sessions[id] # None => /\ sessions'[id].path = sessions[id].path
                                                  /\ sessions'[id].offset = sessions[id].offset
  BY <1>1, <1>2, TouchSteps
<1>5. Seals
  BY <1>3, <1>4 DEF Seals
<1> QED
  BY <1>4, <1>5, BookKeeps

\* An `init` over quota has dropped the one session on its path.
LEMMA RefusedBook ==
  ASSUME BookInv, IndInv', NEW c, NEW p, NEW n, InitRefused(c, p, n)
  PROVE  BookInv'
<1>1. PICK victims \in Conflicts(p) :
        /\ MayTake(c, p, n, victims)
        /\ sessions' = Erase(sessions, victims)
        /\ part' = Erase(part, victims)
        /\ json' = Erase(json, victims)
        /\ UNCHANGED handlers
  BY DEF InitRefused
<1>2. \A id \in Ids : sessions[id] # None /\ sessions[id].path = p <=> id \in victims
  BY DEF Conflicts, OnPath, Live, BookInv, IndInv, OnePerPath
<1>3. p \notin finalizing
  BY <1>1 DEF MayTake
<1>4. Goes /\ Saves /\ Seals
  BY <1>1, <1>2, <1>3, EraseSteps DEF Live, BookInv
<1> QED
  BY <1>4, BookKeeps

\* The collector.
LEMMA GcBook ==
  ASSUME BookInv, IndInv', Gc
  PROVE  BookInv'
<1>1. /\ sessions' = Erase(sessions, Expired)
      /\ part' = Erase(part, Expired)
      /\ json' = Erase(json, Expired)
      /\ UNCHANGED handlers
  BY DEF Gc
<1>2. Goes /\ Saves /\ Seals
  <2>1. \A id \in Expired : sessions[id].path \notin finalizing
    BY DEF Expired
  <2> QED
    BY <1>1, <2>1, EraseSteps DEF BookInv
<1> QED
  BY <1>2, BookKeeps

\* The file system work of `init`, up to the save.
LEMMA CreateBook ==
  ASSUME BookInv, IndInv', NEW id \in Ids, CreatePart(id) \/ AllocPart(id) \/ CreateFail(id)
  PROVE  BookInv'
<1>1. /\ creating[id] \in InitHandler /\ sessions \in [Ids -> UploadSession \cup {None}]
      /\ creating \in [Ids -> InitHandler \cup {None}] /\ part \in [Ids -> PartFile \cup {None}]
      /\ \A k \in Ids : sessions[k] # None => sessions[k].offset \in Int /\ sessions[k].idle \in Int
  BY AgeCapType, LimitsAssumption
     DEF CreatePart, AllocPart, CreateFail, At, BookInv, IndInv, TypeOK, UploadSession
<1>2. CASE CreatePart(id) \/ AllocPart(id)
  <2>1. /\ UNCHANGED <<sessions, json, sealing>>
        /\ \A k \in Ids : k # id => part'[k] = part[k] /\ creating'[k] = creating[k]
    BY <1>1, <1>2 DEF CreatePart, AllocPart, memory
  <2>2. creating'[id] # None /\ creating'[id].us = creating[id].us
    <3>1. PICK pc \in {"alloc", "persist"} : creating' = [creating EXCEPT ![id].pc = pc]
      BY <1>2 DEF CreatePart, AllocPart
    <3>2. [creating[id] EXCEPT !.pc = pc] \in InitHandler
      BY <1>1 DEF InitHandler
    <3> QED
      BY <1>1, <3>1, <3>2, NoneIsNoValue DEF InitHandler
  <2>3. creating[id] # None
    BY <1>1, NoneIsNoValue
  <2>4. Goes /\ Saves
    BY <1>1, <2>1, <2>2, <2>3 DEF Goes, Saves
  <2>5. sealing[id] # None => (part'[id] # None => part[id] # None)
    BY <1>2 DEF CreatePart, AllocPart, BookInv, IndInv, CreationFresh
  <2>6. Seals
    BY <2>1, <2>5 DEF Seals
  <2> QED
    BY <2>4, <2>6, BookKeeps
<1>3. CASE CreateFail(id)
  <2>1. /\ sessions' = [sessions EXCEPT ![id] = None]
        /\ part' = [part EXCEPT ![id] = None]
        /\ creating' = [creating EXCEPT ![id] = None]
        /\ UNCHANGED <<json, sealing>>
    BY <1>3 DEF CreateFail
  <2>2. Goes /\ Saves /\ Seals
    BY <1>1, <2>1 DEF Goes, Saves, Seals
  <2> QED
    BY <2>2, BookKeeps
<1> QED
  BY <1>2, <1>3

\* The save at the end of `init`.
LEMMA PersistBook ==
  ASSUME BookInv, IndInv', NEW id \in Ids, PersistNew(id)
  PROVE  BookInv'
<1>1. /\ json' = [json EXCEPT ![id] = creating[id].us]
      /\ creating' = [creating EXCEPT ![id] = None]
      /\ UNCHANGED <<sessions, part, sealing>>
      /\ creating[id] # None
  BY DEF PersistNew, At, memory
<1>2. /\ creating[id].us # None
      /\ json'[id] = creating[id].us /\ creating'[id] = None
      /\ \A k \in Ids : k # id => json'[k] = json[k] /\ creating'[k] = creating[k]
  <2>1. creating[id].us \in UploadSession
    BY <1>1 DEF BookInv, IndInv, TypeOK, InitHandler
  <2> QED
    BY <1>1, <2>1, NoneIsNoValue DEF BookInv, IndInv, TypeOK
<1>3. NewSaved' /\ SavedCopy'
  BY <1>1, <1>2 DEF BookInv, NewSaved, SavedCopy, Live
<1>4. Goes /\ Seals
  BY <1>1 DEF Goes, Seals
<1> QED
  BY <1>3, <1>4, GoesKeeps, SealsKeep DEF BookInv

\* PUT: only on paths that nobody seals.
LEMMA WriteBook ==
  ASSUME BookInv, IndInv', NEW c, NEW id \in Ids, NEW at \in 0..MaxSize,
         NEW n \in 0..MaxSize, WriteChunk(c, id, at, n) \/ WriteFail(c, id, at, n)
  PROVE  BookInv'
<1>1. /\ sessions[id] # None /\ part[id] # None
      /\ sessions[id].path \notin finalizing
      /\ UNCHANGED sealing
      /\ \A k \in Ids : k # id => part'[k] = part[k]
  BY DEF WriteChunk, WriteFail, MayWrite, Live, handlers, BookInv, IndInv, TypeOK
<1>2. sealing[id] = None
  BY <1>1, SealedMarked DEF BookInv
<1>3. \A k \in Ids : sessions[k] # None =>
        /\ sessions[k] \in UploadSession
        /\ sessions[k].offset \in Int /\ sessions[k].idle \in Nat
  BY AgeCapType, LimitsAssumption DEF BookInv, IndInv, TypeOK, UploadSession
<1>4. CASE WriteChunk(c, id, at, n)
  <2> DEFINE s == [sessions[id] EXCEPT !.offset = @ + n, !.idle = 0]
  <2>1. sessions' = [sessions EXCEPT ![id] = s] /\ Persist(id, s)
    BY <1>4 DEF WriteChunk
  <2>2. /\ s.path = sessions[id].path /\ s.size = sessions[id].size
        /\ s.owner = sessions[id].owner
        /\ s.offset >= sessions[id].offset /\ s.idle <= sessions[id].idle
    <3>1. /\ s.path = sessions[id].path /\ s.size = sessions[id].size
          /\ s.owner = sessions[id].owner
          /\ s.offset = sessions[id].offset + n /\ s.idle = 0
      BY <1>1, <1>3 DEF UploadSession
    <3> QED
      BY <1>1, <1>3, <3>1
  <2>3. /\ sessions'[id] = s
        /\ \A k \in Ids : k # id => sessions'[k] = sessions[k]
    BY <2>1 DEF BookInv, IndInv, TypeOK
  <2>4. s \in UploadSession /\ s # None
    <3>1. 0 \in 0..AgeCap /\ sessions[id].offset + n \in 0..MaxSize
      BY <1>1, <1>3, <1>4, AgeCapType, LimitsAssumption
         DEF WriteChunk, MayWrite, Remaining, UploadSession
    <3>2. s \in UploadSession
      BY <1>1, <1>3, <3>1 DEF UploadSession
    <3> QED
      BY <3>2, NoneIsNoValue
  <2> HIDE DEF s
  <2>5. /\ \A k \in Ids : k # id => json'[k] = json[k] /\ creating'[k] = creating[k]
        /\ creating'[id] # None =>
              creating[id] # None /\ creating'[id].us = creating[id].us
        /\ \/ creating'[id] = creating[id] /\ json'[id] = json[id]
           \/ json'[id] = s
           \/ creating[id] # None /\ json'[id] = creating[id].us
    BY <2>1, <2>4, PersistIs DEF BookInv, IndInv
  <2>6. Goes
    BY <1>1, <2>2, <2>3 DEF Goes
  <2>7. Saves
    BY <1>1, <1>3, <2>2, <2>3, <2>5 DEF Saves
  <2>8. Seals
    BY <1>1, <1>2, <2>2, <2>3, <2>4 DEF Seals
  <2> QED
    BY <2>6, <2>7, <2>8, BookKeeps
<1>5. CASE WriteFail(c, id, at, n)
  <2>1. UNCHANGED <<sessions, json, creating>>
    BY <1>5 DEF WriteFail, memory, handlers
  <2>2. Goes /\ Saves /\ Seals
    BY <1>1, <1>2, <1>3, <2>1 DEF Goes, Saves, Seals
  <2> QED
    BY <2>2, BookKeeps
<1> QED
  BY <1>4, <1>5

\* The first critical section of `complete`.
LEMMA ClaimBook ==
  ASSUME BookInv, IndInv', NEW c, NEW id \in Ids, Claim(c, id) \/ ClaimUnsaved(c, id)
  PROVE  BookInv'
<1> DEFINE s == [sessions[id] EXCEPT !.idle = 0]
<1>1. /\ sessions[id] # None /\ sessions[id].offset = sessions[id].size
      /\ TypeOK /\ sessions[id] \in UploadSession
  BY DEF Claim, ClaimUnsaved, MayClaim, Live, BookInv, IndInv, TypeOK
<1>3. /\ sessions' = [sessions EXCEPT ![id] = s]
      /\ Persist(id, s)
      /\ UNCHANGED part
  BY DEF Claim, ClaimUnsaved, Persist
<1>4. /\ Goes /\ Saves
      /\ \A k \in Ids : /\ sessions'[k] = None <=> sessions[k] = None
                        /\ sessions[k] # None => /\ sessions'[k].path = sessions[k].path
                                                /\ sessions'[k].offset = sessions[k].offset
  BY <1>1, <1>3, TouchSteps
<1>5. CASE ClaimUnsaved(c, id)
  <2>1. UNCHANGED sealing
    BY <1>5 DEF ClaimUnsaved
  <2>2. Seals
    BY <1>3, <1>4, <2>1 DEF Seals
  <2> QED
    BY <1>4, <2>2, BookKeeps
<1>6. CASE Claim(c, id)
  <2>1. \A k \in Ids : k # id => sealing'[k] = sealing[k]
    BY <1>6 DEF Claim, BookInv, IndInv, TypeOK
  <2>2. SealingFull'
    <3> SUFFICES ASSUME NEW k \in Ids, sealing'[k] # None
                 PROVE  /\ sessions'[k] # None => sessions'[k].offset = sessions'[k].size
                        /\ part'[k] # None => sessions'[k] # None
      BY DEF SealingFull, Live
    <3>1. CASE k = id
      BY <1>1, <1>4, <3>1 DEF Goes
    <3>2. CASE k # id
      BY <1>3, <1>4, <2>1, <3>2 DEF BookInv, SealingFull, Live, Goes
    <3> QED
      BY <3>1, <3>2
  <2>3. NewSaved' /\ SavedCopy' /\ IsFiniteSet(Live)' /\ WithinQuota'
    BY <1>4, SavesKeep, GoesKeeps DEF IndInv
  <2> QED
    BY <2>2, <2>3 DEF BookInv
<1> QED
  BY <1>5, <1>6

\* Publishing, whether it works or fails, leaves the map alone.
LEMMA InstallBook ==
  ASSUME BookInv, IndInv', NEW id \in Ids,
         Install(id) \/ RemoveTemp(id) \/ InstallFail(id) \/ InstallThenFail(id)
  PROVE  BookInv'
<1>1. /\ UNCHANGED <<sessions, json, creating>>
      /\ \A k \in Ids : part'[k] # None => part[k] # None
      /\ \A k \in Ids : sealing'[k] # None => sealing[k] # None
      /\ \A k \in Ids : sessions[k] # None => sessions[k].offset \in Int /\ sessions[k].idle \in Int
  BY AgeCapType, LimitsAssumption
     DEF Install, RemoveTemp, InstallFail, InstallThenFail, Sealing, memory, disk,
         BookInv, IndInv, TypeOK, UploadSession
<1>2. Goes /\ Saves /\ Seals
  BY <1>1 DEF Goes, Saves, Seals
<1> QED
  BY <1>2, BookKeeps

\* The second critical section of `complete`.
LEMMA FinishBook ==
  ASSUME BookInv, IndInv', NEW id \in Ids, FinishOk(id) \/ FinishErr(id)
  PROVE  BookInv'
<1>1. /\ TypeOK /\ sealing[id] # None
      /\ \A k \in Ids : sealing'[k] = IF k = id THEN None ELSE sealing[k]
      /\ UNCHANGED part
      /\ \A k \in Ids : sessions[k] # None => sessions[k].offset \in Int /\ sessions[k].idle \in Int
  BY AgeCapType, LimitsAssumption
     DEF FinishOk, FinishErr, Sealing, BookInv, IndInv, TypeOK, UploadSession
<1>2. CASE FinishOk(id)
  <2>1. /\ \A k \in Ids : sessions'[k] = IF k = id THEN None ELSE sessions[k]
        /\ \A k \in Ids : k # id => json'[k] = json[k]
        /\ UNCHANGED creating
    BY <1>1, <1>2 DEF FinishOk, TypeOK
  <2>2. Goes /\ Saves /\ Seals
    BY <1>1, <2>1 DEF Goes, Saves, Seals
  <2> QED
    BY <2>2, BookKeeps
<1>3. CASE FinishErr(id) /\ sessions[id] = None
  <2>1. UNCHANGED <<sessions, json, creating>>
    BY <1>3 DEF FinishErr
  <2>2. Goes /\ Saves /\ Seals
    BY <1>1, <2>1 DEF Goes, Saves, Seals
  <2> QED
    BY <2>2, BookKeeps
<1>4. CASE FinishErr(id) /\ sessions[id] # None
  <2>1. /\ sessions' = [sessions EXCEPT ![id] = [sessions[id] EXCEPT !.idle = 0]]
        /\ Persist(id, [sessions[id] EXCEPT !.idle = 0])
    BY <1>4 DEF FinishErr
  <2>2. /\ Goes /\ Saves
        /\ \A k \in Ids : /\ sessions'[k] = None <=> sessions[k] = None
                          /\ sessions[k] # None => /\ sessions'[k].path = sessions[k].path
                                                  /\ sessions'[k].offset = sessions[k].offset
    BY <1>1, <1>4, <2>1, TouchSteps
  <2>3. Seals
    BY <1>1, <2>2 DEF Seals
  <2> QED
    BY <2>2, <2>3, BookKeeps
<1> QED
  BY <1>2, <1>3, <1>4

\* All stamps grow older together.
LEMMA OlderAge ==
  ASSUME NEW s \in UploadSession, NEW t \in UploadSession, s.idle >= t.idle
  PROVE  Older(s).idle >= Older(t).idle
<1>1. /\ s.idle \in 0..AgeCap /\ t.idle \in 0..AgeCap /\ AgeCap \in Nat
  BY AgeCapType DEF UploadSession
<1>2. /\ Older(s).idle = IF s.idle < AgeCap THEN s.idle + 1 ELSE s.idle
      /\ Older(t).idle = IF t.idle < AgeCap THEN t.idle + 1 ELSE t.idle
  BY DEF Older, UploadSession
<1> QED
  BY <1>1, <1>2

\* The clock.
LEMMA TickBook ==
  ASSUME BookInv, IndInv', Tick
  PROVE  BookInv'
<1>1. /\ TypeOK
      /\ \A k \in Ids : /\ sessions'[k] = IF sessions[k] = None THEN None ELSE Older(sessions[k])
                        /\ json'[k] = IF json[k] = None THEN None ELSE Older(json[k])
                        /\ creating'[k] = IF creating[k] = None THEN None
                             ELSE [creating[k] EXCEPT !.us = Older(creating[k].us)]
      /\ UNCHANGED <<part, sealing>>
  BY DEF Tick, AllOlder, BookInv, IndInv
<1>2. \A k \in Ids : /\ sessions[k] # None => sessions[k] \in UploadSession
                     /\ json[k] # None => json[k] \in UploadSession
                     /\ creating[k] # None => /\ creating[k].us \in UploadSession
                                             /\ creating[k] \in InitHandler
  BY <1>1 DEF TypeOK, InitHandler
<1>3. \A s \in UploadSession :
        /\ Older(s) # None
        /\ Older(s).path = s.path /\ Older(s).size = s.size
        /\ Older(s).offset = s.offset /\ Older(s).owner = s.owner
  BY OlderType, NoneIsNoValue
<1>4. \A k \in Ids : creating'[k] # None =>
        creating[k] # None /\ creating'[k].us = Older(creating[k].us)
  BY <1>1, <1>2 DEF InitHandler
<1>5. ASSUME NEW k \in Ids, sessions[k] # None
      PROVE  /\ sessions'[k] = Older(sessions[k]) /\ sessions'[k] # None
             /\ sessions'[k].path = sessions[k].path
             /\ sessions'[k].size = sessions[k].size
             /\ sessions'[k].owner = sessions[k].owner
             /\ sessions'[k].offset = sessions[k].offset
  <2>1. sessions[k] \in UploadSession /\ sessions'[k] = Older(sessions[k])
    BY <1>1, <1>2, <1>5
  <2> QED
    BY <1>3, <2>1
<1>6. Goes /\ Seals
  <2>1. \A k \in Ids : sessions'[k] # None => sessions[k] # None
    BY <1>1
  <2>2. Goes
    BY <1>5, <2>1 DEF Goes
  <2>3. Seals
    BY <1>1, <1>5, <2>1 DEF Seals
  <2> QED
    BY <2>2, <2>3
<1>7. NewSaved'
  <2> SUFFICES ASSUME NEW k \in Ids, sessions'[k] # None, creating'[k] # None
               PROVE  /\ creating'[k].us.path = sessions'[k].path
                      /\ creating'[k].us.size = sessions'[k].size
                      /\ creating'[k].us.owner = sessions'[k].owner
                      /\ creating'[k].us.offset <= sessions'[k].offset
                      /\ creating'[k].us.idle >= sessions'[k].idle
    BY DEF NewSaved, Live
  <2>1. /\ sessions[k] # None /\ creating[k] # None
        /\ creating'[k].us = Older(creating[k].us)
    BY <1>1, <1>4
  <2>2. /\ creating[k].us.path = sessions[k].path
        /\ creating[k].us.size = sessions[k].size
        /\ creating[k].us.owner = sessions[k].owner
        /\ creating[k].us.offset <= sessions[k].offset
        /\ creating[k].us.idle >= sessions[k].idle
    BY <2>1 DEF BookInv, NewSaved, Live
  <2>3. Older(creating[k].us).idle >= Older(sessions[k]).idle
    BY <1>2, <2>1, <2>2, OlderAge
  <2> QED
    BY <1>2, <1>3, <1>5, <2>1, <2>2, <2>3
<1>8. SavedCopy'
  <2> SUFFICES ASSUME NEW k \in Ids, sessions'[k] # None, creating'[k] = None
               PROVE  /\ json'[k] # None
                      /\ json'[k].path = sessions'[k].path
                      /\ json'[k].size = sessions'[k].size
                      /\ json'[k].owner = sessions'[k].owner
                      /\ json'[k].offset <= sessions'[k].offset
                      /\ json'[k].idle >= sessions'[k].idle
    BY DEF SavedCopy, Live
  <2>1. sessions[k] # None /\ creating[k] = None
    <3>1. creating[k] # None => [creating[k] EXCEPT !.us = Older(creating[k].us)] # None
      <4>1. creating[k] # None => [creating[k] EXCEPT !.us = Older(creating[k].us)] \in InitHandler
        BY <1>2, OlderType DEF InitHandler
      <4> QED
        BY <4>1, NoneIsNoValue
    <3> QED
      BY <1>1, <3>1
  <2>2. /\ json[k] # None /\ json[k].path = sessions[k].path
        /\ json[k].size = sessions[k].size /\ json[k].owner = sessions[k].owner
        /\ json[k].offset <= sessions[k].offset /\ json[k].idle >= sessions[k].idle
    BY <2>1 DEF BookInv, SavedCopy, Live
  <2>3. sessions'[k] = Older(sessions[k]) /\ json'[k] = Older(json[k])
    BY <1>1, <2>1, <2>2
  <2>4. Older(json[k]).idle >= Older(sessions[k]).idle
    BY <1>2, <2>1, <2>2, OlderAge
  <2> QED
    BY <1>2, <1>3, <2>1, <2>2, <2>3, <2>4
<1> QED
  BY <1>6, <1>7, <1>8, GoesKeeps, SealsKeep DEF BookInv

\* A new session: within the quotas, as the old one on its path has gone.
LEMMA ReserveBook ==
  ASSUME BookInv, IndInv', NEW c \in Callers, NEW p, NEW n, InitReserve(c, p, n)
  PROVE  BookInv'
<1> DEFINE us == [path |-> p, size |-> n, offset |-> 0, owner |-> c, idle |-> 0]
<1>1. PICK victims \in Conflicts(p), id \in Ids :
            /\ MayTake(c, p, n, victims)
            /\ ~QuotaFull(c, victims)
            /\ Fresh(id)
            /\ sessions' = [Erase(sessions, victims) EXCEPT ![id] = us]
            /\ path_locks' = path_locks \cup {p}
            /\ part' = Erase(part, victims)
            /\ json' = Erase(json, victims)
            /\ creating' = [creating EXCEPT ![id] = [pc |-> "create", us |-> us]]
            /\ UNCHANGED sealing
  BY DEF InitReserve
<1>2. /\ us.path = p /\ us.owner = c /\ us.size = n /\ us.offset = 0 /\ us.idle = 0
      /\ us \in UploadSession /\ us # None
  <2>1. n \in 1..MaxSize
    BY <1>1 DEF MayTake, InitAllowed
  <2>2. p \in Paths
    BY <1>1 DEF IndInv, TypeOK
  <2>3. us \in UploadSession
    BY <2>1, <2>2, AgeCapType, LimitsAssumption DEF Callers, UploadSession
  <2> QED
    BY <2>3, NoneIsNoValue
<1> HIDE DEF us
<1>3. /\ sessions'[id] = us
      /\ \A k \in Ids : k # id => sessions'[k] = IF k \in victims THEN None ELSE sessions[k]
      /\ \A k \in Ids : k # id => creating'[k] = creating[k]
      /\ creating'[id] # None /\ creating'[id].us = us
      /\ sessions[id] = None /\ sealing[id] = None /\ part[id] = None
      /\ \A k \in Ids : /\ json'[k] = IF k \in victims THEN None ELSE json[k]
                        /\ part'[k] = IF k \in victims THEN None ELSE part[k]
  <2>1. [pc |-> "create", us |-> us] \in InitHandler
    BY <1>2 DEF InitHandler
  <2> QED
    BY <1>1, <2>1, NoneIsNoValue DEF Erase, Fresh, BookInv, IndInv, TypeOK
<1>4. \A k \in Ids : sessions[k] # None /\ sessions[k].path = p <=> k \in victims
  BY <1>1 DEF Conflicts, OnPath, Live, BookInv, IndInv, OnePerPath
<1>5. NewSaved' /\ SavedCopy'
  BY <1>2, <1>3 DEF BookInv, NewSaved, SavedCopy, Live
<1>6. \A k \in Ids : sealing[k] # None /\ sessions[k] # None => k \notin victims
  <2>1. p \notin finalizing
    BY <1>1 DEF MayTake
  <2> QED
    BY <1>4, <2>1, SealedMarked DEF BookInv
<1>7. SealingFull'
  BY <1>1, <1>3, <1>6 DEF BookInv, SealingFull, Live
<1>8. Live' = (Live \ victims) \cup {id} /\ id \notin Live \ victims
  BY <1>2, <1>3 DEF Live
<1>9. /\ IsFiniteSet(Live \ victims)
       /\ IsFiniteSet(Live')
       /\ Cardinality(Live \ victims) \in Nat
       /\ Cardinality(Live') = Cardinality(Live \ victims) + 1
  <2>1. IsFiniteSet(Live \ victims)
    BY FS_Subset DEF BookInv
  <2> QED
    BY <1>8, <2>1, FS_AddElement, FS_CardinalityType
<1>10. Cardinality(Live') <= MaxConcurrent
  BY <1>1, <1>9, LimitsAssumption DEF QuotaFull
<1>11. ASSUME NEW u \in Users
       PROVE  Cardinality(OwnedBy(u)') <= MaxPerUser
  <2>1. IsFiniteSet(OwnedBy(u)) /\ Cardinality(OwnedBy(u)) <= MaxPerUser
    <3>1. OwnedBy(u) \subseteq Live
      BY DEF OwnedBy
    <3> QED
      BY <3>1, FS_Subset DEF BookInv, WithinQuota
  <2>2. IsFiniteSet(OwnedBy(u) \ victims) /\ Cardinality(OwnedBy(u) \ victims) \in Nat
    BY <2>1, FS_Subset, FS_CardinalityType
  <2>3. CASE u = c
    <3>1. OwnedBy(u)' = (OwnedBy(u) \ victims) \cup {id} /\ id \notin OwnedBy(u) \ victims
      BY <1>2, <1>3, <2>3 DEF OwnedBy, Live
    <3>2. Cardinality(OwnedBy(u)') = Cardinality(OwnedBy(u) \ victims) + 1
      BY <2>2, <3>1, FS_AddElement
    <3>3. ~(Cardinality(OwnedBy(u) \ victims) >= MaxPerUser)
      BY <1>1, <2>3, NoneAssumption DEF QuotaFull
    <3> QED
      BY <2>2, <3>2, <3>3, LimitsAssumption
  <2>4. CASE u # c
    <3>1. OwnedBy(u)' \subseteq OwnedBy(u)
      BY <1>2, <1>3, <2>4 DEF OwnedBy, Live
    <3>2. Cardinality(OwnedBy(u)') <= Cardinality(OwnedBy(u))
      BY <2>1, <3>1, FS_Subset
    <3>3. Cardinality(OwnedBy(u)') \in Nat /\ Cardinality(OwnedBy(u)) \in Nat
      BY <2>1, <3>1, FS_Subset, FS_CardinalityType
    <3> QED
      BY <2>1, <3>2, <3>3, LimitsAssumption
  <2> QED
    BY <2>3, <2>4
<1> QED
  BY <1>5, <1>7, <1>9, <1>10, <1>11 DEF BookInv, WithinQuota

\* The initial states satisfy it.
LEMMA BookInit == Init => BookInv
<1> SUFFICES ASSUME Init
             PROVE  BookInv
  OBVIOUS
<1>1. Live = {} /\ \A u : OwnedBy(u) = {}
  BY DEF Init, Live, OwnedBy
<1>2. IsFiniteSet(Live) /\ WithinQuota
  BY <1>1, FS_EmptySet, LimitsAssumption DEF WithinQuota
<1>3. NewSaved /\ SavedCopy /\ SealingFull
  BY <1>1 DEF Init, NewSaved, SavedCopy, SealingFull
<1> QED
  BY <1>2, <1>3, IndInit DEF BookInv

\* Every step keeps it.
LEMMA BookNext == BookInv /\ [Next]_vars => BookInv'
<1> SUFFICES ASSUME BookInv, [Next]_vars
             PROVE  BookInv'
  OBVIOUS
<1>1. IndInv'
  BY IndNext DEF BookInv
<1>2. CASE InitRequest
  BY <1>1, <1>2, ResumeBook, ReserveBook, RefusedBook DEF InitRequest
<1>3. CASE WriteRequest
  BY <1>1, <1>3, WriteBook DEF WriteRequest
<1>4. CASE CompleteRequest
  BY <1>1, <1>4, ClaimBook DEF CompleteRequest
<1>5. ASSUME NEW id \in Ids, InitStep(id) \/ CompleteStep(id)
      PROVE  BookInv'
  BY <1>1, <1>5, CreateBook, PersistBook, InstallBook, FinishBook DEF InitStep, CompleteStep
<1>6. CASE Gc \/ Tick
  BY <1>1, <1>6, GcBook, TickBook
<1>7. CASE UNCHANGED vars
  <2>1. \A k \in Ids : sessions[k] # None => sessions[k].offset \in Int /\ sessions[k].idle \in Int
    BY AgeCapType, LimitsAssumption DEF BookInv, IndInv, TypeOK, UploadSession
  <2>2. Goes /\ Saves /\ Seals
    BY <1>7, <2>1 DEF vars, memory, disk, handlers, Goes, Saves, Seals
  <2> QED
    BY <1>1, <2>2, BookKeeps
<1> QED
  BY <1>2, <1>3, <1>4, <1>5, <1>6, <1>7 DEF Next

\* The maps, the saved copies and the handlers' continuations agree in every
\* reachable state.
THEOREM BooksAgree == Spec => []BookInv
  BY BookInit, BookNext, PTL DEF Spec

\* The quotas of `init` hold although superseding, roll backs, completes and
\* the collector change the map between an init's check and any other step.
THEOREM QuotasHold == Spec => []WithinQuota
<1>1. BookInv => WithinQuota
  BY DEF BookInv
<1> QED
  BY <1>1, BooksAgree, PTL

\* A restart would find every upload whose `init` has replied, behind its
\* session but never ahead of it, whichever of the saves have failed.
THEOREM SavedBehind == Spec => []SavedCopy
<1>1. BookInv => SavedCopy
  BY DEF BookInv
<1> QED
  BY <1>1, BooksAgree, PTL

-----------------------------------------------------------------------------
(* Who takes an upload away.                                               *)

\* An `init` on its path, the roll back of its own, the end of its
\* `complete`, or the collector.
LEMMA Leaves ==
  ASSUME BookInv, Next, NEW id \in Ids, sessions[id] # None, sessions'[id] = None
  PROVE  \/ \E c \in Callers : \E p, n : \E victims \in Conflicts(p) :
               /\ id \in victims
               /\ MayTake(c, p, n, victims)
               /\ \/ QuotaFull(c, victims)
                  \/ \E j \in Ids : /\ sessions[j] = None /\ sessions'[j] # None
                                    /\ sessions'[j].path = p /\ sessions'[j].owner = c
         \/ creating[id] # None /\ creating'[id] = None
         \/ sealing[id] # None /\ sealing'[id] = None
         \/ id \in Expired
<1>1. TypeOK
  BY DEF BookInv, IndInv
<1>2. ASSUME NEW c \in Callers, NEW p, NEW n, InitResume(c, p, n)
      PROVE  FALSE
  <2>1. PICK k \in Resumable(c, p, n) :
            sessions' = [sessions EXCEPT ![k] = [sessions[k] EXCEPT !.idle = 0]]
    BY <1>2 DEF InitResume
  <2>2. k \in Ids /\ sessions[k] \in UploadSession
    BY <1>1 DEF Resumable, OnPath, Live, TypeOK
  <2>3. [sessions[k] EXCEPT !.idle = 0] # None
    BY <2>2, Touched
  <2> QED
    BY <1>1, <2>1, <2>3 DEF TypeOK
<1>3. ASSUME NEW c \in Callers, NEW p, NEW n, InitReserve(c, p, n)
      PROVE  \E victims \in Conflicts(p) :
               /\ id \in victims
               /\ MayTake(c, p, n, victims)
               /\ \E j \in Ids : /\ sessions[j] = None /\ sessions'[j] # None
                                 /\ sessions'[j].path = p /\ sessions'[j].owner = c
  <2> DEFINE us == [path |-> p, size |-> n, offset |-> 0, owner |-> c, idle |-> 0]
  <2>1. PICK victims \in Conflicts(p), j \in Ids :
            /\ MayTake(c, p, n, victims)
            /\ Fresh(j)
            /\ sessions' = [Erase(sessions, victims) EXCEPT ![j] = us]
    BY <1>3 DEF InitReserve
  <2>2. us.path = p /\ us.owner = c
    OBVIOUS
  <2>3. sessions[j] = None /\ sessions'[j] = us
    BY <2>1 DEF Fresh, Erase
  <2>4. us # None
    <3>1. TypeOK'
      BY TypeNext DEF BookInv, IndInv
    <3>2. p \in Paths /\ c \in Users \cup {None} /\ n \in 1..MaxSize
      <4>1. PICK q \in Paths \cup {None} : q = p
        <5>1. path_locks' \subseteq Paths /\ p \in path_locks'
          BY <1>3, <3>1 DEF InitReserve, TypeOK
        <5> QED
          BY <5>1
      <4> QED
        BY <2>1, <4>1 DEF MayTake, InitAllowed, Callers
    <3>3. us \in UploadSession
      BY <3>2, AgeCapType, LimitsAssumption DEF UploadSession
    <3> QED
      BY <3>3, NoneIsNoValue
  <2>5. id \in victims
    BY <2>1, <2>3, <2>4 DEF Erase
  <2> HIDE DEF us
  <2> QED
    BY <2>1, <2>2, <2>3, <2>4, <2>5
<1>4. ASSUME NEW c \in Callers, NEW p, NEW n, InitRefused(c, p, n)
      PROVE  \E victims \in Conflicts(p) :
               id \in victims /\ MayTake(c, p, n, victims) /\ QuotaFull(c, victims)
  BY <1>4 DEF InitRefused, Erase
<1>5. ASSUME NEW c, NEW k \in Ids, NEW at \in 0..MaxSize, NEW n \in 0..MaxSize,
             WriteChunk(c, k, at, n) \/ WriteFail(c, k, at, n)
      PROVE  FALSE
  <2>1. CASE WriteFail(c, k, at, n)
    BY <2>1 DEF WriteFail, memory
  <2>2. CASE WriteChunk(c, k, at, n)
    <3> DEFINE s == [sessions[k] EXCEPT !.offset = @ + n, !.idle = 0]
    <3>1. sessions' = [sessions EXCEPT ![k] = s] /\ sessions[k] \in UploadSession
      BY <1>1, <2>2 DEF WriteChunk, MayWrite, Live, TypeOK
    <3>2. 0 \in 0..AgeCap /\ sessions[k].offset + n \in 0..MaxSize
      BY <2>2, <3>1, AgeCapType, LimitsAssumption
         DEF WriteChunk, MayWrite, Remaining, UploadSession
    <3>3. s # None
      BY <3>1, <3>2, NoneIsNoValue DEF UploadSession
    <3> QED
      BY <1>1, <3>1, <3>3 DEF TypeOK
  <2> QED
    BY <1>5, <2>1, <2>2
<1>6. ASSUME NEW c, NEW k \in Ids, Claim(c, k) \/ ClaimUnsaved(c, k)
      PROVE  FALSE
  <2>1. sessions' = [sessions EXCEPT ![k] = [sessions[k] EXCEPT !.idle = 0]]
    BY <1>6 DEF Claim, ClaimUnsaved
  <2>2. sessions[k] \in UploadSession
    BY <1>1, <1>6 DEF Claim, ClaimUnsaved, MayClaim, Live, TypeOK
  <2>3. [sessions[k] EXCEPT !.idle = 0] # None
    BY <2>2, Touched
  <2> QED
    BY <1>1, <2>1, <2>3 DEF TypeOK
<1>7. ASSUME NEW k \in Ids, InitStep(k)
      PROVE  creating[id] # None /\ creating'[id] = None
  BY <1>1, <1>7 DEF InitStep, CreatePart, AllocPart, PersistNew, CreateFail, memory, TypeOK
<1>8. ASSUME NEW k \in Ids, CompleteStep(k)
      PROVE  sealing[id] # None /\ sealing'[id] = None
  <2>1. CASE FinishErr(k)
    <3>1. CASE sessions[k] = None
      BY <2>1, <3>1 DEF FinishErr
    <3>2. CASE sessions[k] # None
      <4>1. /\ sessions' = [sessions EXCEPT ![k] = [sessions[k] EXCEPT !.idle = 0]]
            /\ sessions[k] \in UploadSession
        BY <1>1, <2>1, <3>2 DEF FinishErr, TypeOK
      <4>2. [sessions[k] EXCEPT !.idle = 0] # None
        BY <4>1, Touched
      <4> QED
        BY <1>1, <4>1, <4>2 DEF TypeOK
    <3> QED
      BY <3>1, <3>2
  <2>2. CASE FinishOk(k)
    BY <1>1, <2>2 DEF FinishOk, Sealing, TypeOK
  <2> QED
    BY <1>8, <2>1, <2>2
       DEF CompleteStep, Install, RemoveTemp, InstallFail, InstallThenFail, memory
<1>9. CASE Gc
  BY <1>9 DEF Gc, Erase
<1>10. CASE Tick
  <2>1. sessions'[id] = Older(sessions[id]) /\ sessions[id] \in UploadSession
    BY <1>1, <1>10 DEF Tick, AllOlder, TypeOK
  <2> QED
    BY <2>1, OlderType, NoneIsNoValue
<1>11. CASE InitRequest
  <2>1. PICK c, p, n :
            /\ c \in Callers
            /\ InitResume(c, p, n) \/ InitReserve(c, p, n) \/ InitRefused(c, p, n)
    BY <1>11 DEF InitRequest
  <2> QED
    BY <2>1, <1>2, <1>3, <1>4
<1>12. CASE WriteRequest \/ CompleteRequest
  BY <1>12, <1>5, <1>6 DEF WriteRequest, CompleteRequest
<1> QED
  BY <1>7, <1>8, <1>9, <1>10, <1>11, <1>12 DEF Next

\* A handler of `complete` that goes on has the path and the size it claimed.
LEMMA SealingGoesOn ==
  ASSUME BookInv, Next, NEW id \in Ids, sessions[id] # None,
         sealing[id] # None, sealing'[id] # None
  PROVE  sealing'[id].path = sealing[id].path /\ sealing'[id].size = sealing[id].size
<1>1. TypeOK /\ sealing[id] \in CompleteHandler
  BY DEF BookInv, IndInv, TypeOK
<1>2. ASSUME NEW c, NEW k \in Ids, Claim(c, k)
      PROVE  k # id
  BY <1>2, SealedMarked DEF Claim, MayClaim, BookInv
<1>3. CASE CompleteRequest
  BY <1>1, <1>2, <1>3 DEF CompleteRequest, Claim, ClaimUnsaved, TypeOK
<1>4. ASSUME NEW k \in Ids, CompleteStep(k)
      PROVE  sealing'[id].path = sealing[id].path /\ sealing'[id].size = sealing[id].size
  <2>1. CASE FinishOk(k) \/ FinishErr(k)
    <3>1. sealing' = [sealing EXCEPT ![k] = None]
      BY <2>1 DEF FinishOk, FinishErr
    <3> QED
      BY <1>1, <3>1 DEF TypeOK
  <2>2. ASSUME NEW pc, sealing' = [sealing EXCEPT ![k].pc = pc]
        PROVE  sealing'[id].path = sealing[id].path /\ sealing'[id].size = sealing[id].size
    BY <1>1, <2>2 DEF TypeOK, CompleteHandler
  <2> QED
    BY <1>4, <2>1, <2>2 DEF CompleteStep, Install, RemoveTemp, InstallFail, InstallThenFail
<1>5. ASSUME NEW k \in Ids, InitStep(k)
      PROVE  sealing' = sealing
  BY <1>5 DEF InitStep, CreatePart, AllocPart, PersistNew, CreateFail
<1>6. CASE InitRequest
  BY <1>6 DEF InitRequest, InitResume, InitReserve, InitRefused, handlers
<1>7. CASE WriteRequest \/ Gc \/ Tick
  BY <1>7 DEF WriteRequest, WriteChunk, WriteFail, Gc, Tick, handlers
<1> QED
  BY <1>3, <1>4, <1>5, <1>6, <1>7 DEF Next

\* Of those only its own `init` takes a session that `complete` works on.
LEMMA ClaimStep == BookInv /\ BookInv' /\ Next => ClaimKept
<1> SUFFICES ASSUME BookInv, BookInv', Next, NEW id \in Live,
                    sealing[id] # None, sealing'[id] # None, ~RolledBack(id)
             PROVE  /\ sessions'[id] # None
                    /\ sessions'[id].path = sealing[id].path
                    /\ sessions'[id].size = sealing[id].size
                    /\ sessions'[id].offset = sessions'[id].size
                    /\ sealing[id].path \in finalizing'
  BY DEF ClaimKept
<1>1. id \in Ids /\ sessions[id] # None /\ sessions[id].path \in finalizing
  BY SealedMarked DEF Live, BookInv
<1>2. ASSUME sessions'[id] = None
      PROVE  FALSE
  <2>1. id \notin Expired
    BY <1>1 DEF Expired
  <2>2. ASSUME NEW c, NEW p, NEW n, NEW victims \in Conflicts(p), id \in victims,
               MayTake(c, p, n, victims)
        PROVE  FALSE
    BY <1>1, <2>2 DEF Conflicts, OnPath, MayTake
  <2>3. \A c, p, n : \A victims \in Conflicts(p) :
            ~(id \in victims /\ MayTake(c, p, n, victims))
    BY <2>2
  <2> QED
    BY <1>1, <1>2, <2>1, <2>3, Leaves DEF RolledBack
<1>3. sealing'[id].path = sealing[id].path /\ sealing'[id].size = sealing[id].size
  BY <1>1, SealingGoesOn
<1> QED
  BY <1>1, <1>2, <1>3 DEF BookInv, IndInv, SealingHeld, SealingFull, Live

\* Whatever fails and whichever saves overlap, nothing but the roll back of its own
\* `init` takes away a session that `complete` works on.
THEOREM ClaimedStays == Spec => ClaimedHeld
<1>1. BookInv /\ BookInv' /\ [Next]_vars => [ClaimKept]_vars
  BY ClaimStep
<1> QED
  BY <1>1, BooksAgree, PTL DEF Spec, ClaimedHeld

\* A quota is not full without an upload of it that is counted.
LEMMA QuotaCounts ==
  ASSUME BookInv, NEW c, NEW id \in Live, NEW victims, id \in victims, c # None,
         QuotaFull(c, victims), c \in Users
  PROVE  sessions[id].owner # c /\ Cardinality(OwnedBy(c)) >= MaxPerUser
<1>1. IsFiniteSet(Live) /\ OwnedBy(c) \subseteq Live
  BY DEF BookInv, OwnedBy
<1>2. /\ Cardinality(Live) <= MaxConcurrent
      /\ Cardinality(OwnedBy(c)) <= MaxPerUser
  BY DEF BookInv, WithinQuota
<1>3. \A S \in SUBSET Live :
        /\ IsFiniteSet(S) /\ IsFiniteSet(S \ victims)
        /\ Cardinality(S) \in Nat /\ Cardinality(S \ victims) \in Nat
        /\ Cardinality(S \ victims) <= Cardinality(S)
        /\ id \in S => Cardinality(S \ victims) < Cardinality(S)
  <2> SUFFICES ASSUME NEW S \in SUBSET Live
               PROVE  /\ IsFiniteSet(S) /\ IsFiniteSet(S \ victims)
                      /\ Cardinality(S) \in Nat /\ Cardinality(S \ victims) \in Nat
                      /\ Cardinality(S \ victims) <= Cardinality(S)
                      /\ id \in S => Cardinality(S \ victims) < Cardinality(S)
    OBVIOUS
  <2>1. IsFiniteSet(S)
    BY <1>1, FS_Subset
  <2>2. /\ IsFiniteSet(S \ victims) /\ Cardinality(S \ victims) <= Cardinality(S)
        /\ Cardinality(S) = Cardinality(S \ victims) => S = S \ victims
    BY <2>1, FS_Subset
  <2>3. Cardinality(S) \in Nat /\ Cardinality(S \ victims) \in Nat
    BY <2>1, <2>2, FS_CardinalityType
  <2>4. id \in S => S # S \ victims
    OBVIOUS
  <2> QED
    BY <2>1, <2>2, <2>3, <2>4
<1>4. Cardinality(Live \ victims) < MaxConcurrent
  BY <1>2, <1>3, LimitsAssumption
<1>5. Cardinality(OwnedBy(c) \ victims) >= MaxPerUser
  <2>1. ~(Cardinality(Live \ victims) >= MaxConcurrent)
    BY <1>3, <1>4, LimitsAssumption
  <2> QED
    BY <2>1 DEF QuotaFull
<1>6. Cardinality(OwnedBy(c)) >= MaxPerUser
  BY <1>1, <1>3, <1>5, LimitsAssumption
<1>7. id \notin OwnedBy(c)
  BY <1>1, <1>2, <1>3, <1>5, LimitsAssumption
<1> QED
  BY <1>6, <1>7 DEF OwnedBy

\* A step that takes a partial upload from a named owner is one of those that
\* PartialKept lists.
LEMMA PartialStep == BookInv /\ Next => PartialKept
<1> SUFFICES ASSUME BookInv, Next, NEW id \in Ids,
                    Partial(id), sessions[id].owner # None, sessions'[id] = None
             PROVE  \/ sessions[id].idle > UploadTtl
                    \/ creating[id] # None /\ creating'[id] = None
                    \/ \E j \in Ids :
                          /\ sessions'[j] # None /\ sessions[j] = None
                          /\ sessions'[j].path = sessions[id].path
                          /\ sessions'[j].owner \in Admins \cup {sessions[id].owner}
                    \/ \E a \in Admins : Cardinality(OwnedBy(a)) >= MaxPerUser
  BY DEF PartialKept
<1>1. sessions[id] # None /\ sessions[id] \in UploadSession /\ id \in Live
  BY DEF Partial, Live, BookInv, IndInv, TypeOK
<1>2. sessions[id].offset # sessions[id].size
  BY <1>1, LimitsAssumption DEF Partial, UploadSession
<1>3. sealing[id] = None
  BY <1>1, <1>2 DEF BookInv, SealingFull
<1>4. ASSUME NEW c \in Callers, NEW p, NEW n, NEW victims \in Conflicts(p),
             id \in victims, MayTake(c, p, n, victims)
      PROVE  sessions[id].path = p /\ c \in Admins \cup {sessions[id].owner}
  <2>1. id \in OnPath(p)
    BY <1>4 DEF Conflicts
  <2>2. CanSupersede(sessions[id], c)
    BY <1>4 DEF MayTake
  <2> QED
    BY <1>2, <2>1, <2>2 DEF OnPath, CanSupersede
<1>5. CASE \E c \in Callers : \E p, n : \E victims \in Conflicts(p) :
               /\ id \in victims
               /\ MayTake(c, p, n, victims)
               /\ \/ QuotaFull(c, victims)
                  \/ \E j \in Ids : /\ sessions[j] = None /\ sessions'[j] # None
                                    /\ sessions'[j].path = p /\ sessions'[j].owner = c
  <2>1. PICK c, p, n : c \in Callers /\ \E victims \in Conflicts(p) :
               /\ id \in victims
               /\ MayTake(c, p, n, victims)
               /\ \/ QuotaFull(c, victims)
                  \/ \E j \in Ids : /\ sessions[j] = None /\ sessions'[j] # None
                                    /\ sessions'[j].path = p /\ sessions'[j].owner = c
    BY <1>5
  <2>2. PICK victims \in Conflicts(p) :
               /\ id \in victims
               /\ MayTake(c, p, n, victims)
               /\ \/ QuotaFull(c, victims)
                  \/ \E j \in Ids : /\ sessions[j] = None /\ sessions'[j] # None
                                    /\ sessions'[j].path = p /\ sessions'[j].owner = c
    BY <2>1
  <2>3. sessions[id].path = p /\ c \in Admins \cup {sessions[id].owner}
    BY <1>4, <2>1, <2>2
  <2>4. ASSUME QuotaFull(c, victims)
        PROVE  \E a \in Admins : Cardinality(OwnedBy(a)) >= MaxPerUser
    <3>1. CASE c \in Users
      <4>1. c # None
        BY <3>1, NoneAssumption
      <4>2. sessions[id].owner # c /\ Cardinality(OwnedBy(c)) >= MaxPerUser
        BY <1>1, <2>2, <2>4, <3>1, <4>1, QuotaCounts
      <4> QED
        BY <2>3, <4>2
    <3>2. CASE c = None
      BY <3>2, <2>3, NoneAssumption, UsersAssumption
    <3> QED
      BY <2>1, <3>1, <3>2 DEF Callers
  <2> QED
    BY <2>2, <2>3, <2>4
<1>6. CASE id \in Expired
  BY <1>6 DEF Expired
<1> QED
  BY <1>1, <1>3, <1>5, <1>6, Leaves

\* What a named user is still sending is never taken by another user.
THEOREM PartialsStay == Spec => PartialsKept
<1>1. BookInv /\ [Next]_vars => [PartialKept]_vars
  BY PartialStep
<1> QED
  BY <1>1, BooksAgree, PTL DEF Spec, PartialsKept

-----------------------------------------------------------------------------
(* TransferManager implements UploadService, step by step.                 *)

ShownAs(s) == [size |-> s.size, got |-> s.offset, owner |-> s.owner]

Shown(id, p) == sessions[id] # None /\ sessions[id].path = p /\ ~Published(id)

\* What a path shows to clients is its one upload that is not over.
ShowsTheOne ==
    \A p \in Paths :
        /\ \A id \in Ids : Shown(id, p) => UploadAt(p) = ShownAs(sessions[id])
        /\ (\A id \in Ids : ~Shown(id, p)) => UploadAt(p) = None

LEMMA OneIsShown == OnePerPath => ShowsTheOne
<1> SUFFICES ASSUME OnePerPath, NEW p \in Paths
             PROVE  /\ \A id \in Ids : Shown(id, p) => UploadAt(p) = ShownAs(sessions[id])
                    /\ (\A id \in Ids : ~Shown(id, p)) => UploadAt(p) = None
  BY DEF ShowsTheOne
<1>1. \A id \in Ids : id \in ActiveOn(p) <=> Shown(id, p)
  BY DEF ActiveOn, OnPath, Live, Shown
<1>2. ASSUME NEW id \in Ids, Shown(id, p)
      PROVE  UploadAt(p) = ShownAs(sessions[id])
  <2>1. ActiveOn(p) = {id}
    BY <1>2 DEF ActiveOn, OnPath, Live, Shown, OnePerPath
  <2>2. (CHOOSE i \in ActiveOn(p) : TRUE) = id
    BY <2>1
  <2>3. ActiveOn(p) # {}
    BY <2>1
  <2> QED
    BY <2>2, <2>3 DEF UploadAt, ShownAs
<1>3. ASSUME \A id \in Ids : ~Shown(id, p)
      PROVE  UploadAt(p) = None
  <2>1. ActiveOn(p) = {}
    BY <1>1, <1>3 DEF ActiveOn, OnPath, Live
  <2> QED
    BY <2>1 DEF UploadAt
<1> QED
  BY <1>2, <1>3

\* What is shown is not nothing.
LEMMA ShownType ==
  ASSUME NEW s \in UploadSession
  PROVE  /\ ShownAs(s) # None
         /\ ShownAs(s).size = s.size /\ ShownAs(s).got = s.offset
         /\ ShownAs(s).owner = s.owner
<1>1. ShownAs(s) \in Progress
  BY DEF ShownAs, UploadSession, Progress
<1> QED
  BY <1>1, NoneAssumption DEF ShownAs

\* Every file that is in place is whole, so clients see its size.
LEMMA FilesShown ==
  ASSUME CommittedWhole
  PROVE  \A p \in Paths : FileAt(p) = IF dest[p] = None THEN None ELSE dest[p].size
  BY DEF CommittedWhole, FileAt

\* Uploads go on as they are or disappear.
Narrows ==
    \A id \in Ids : sessions'[id] # None /\ ~Published(id)' =>
        /\ sessions[id] # None /\ ~Published(id)
        /\ sessions'[id].path = sessions[id].path
        /\ sessions'[id].size = sessions[id].size
        /\ sessions'[id].offset = sessions[id].offset
        /\ sessions'[id].owner = sessions[id].owner

LEMMA NarrowsDiscards ==
  ASSUME OnePerPath, OnePerPath', Narrows, dest' = dest
  PROVE  Service!Next
<1> DEFINE S == {p \in Paths : UploadAt(p)' = None}
<1>1. ShowsTheOne /\ ShowsTheOne'
  BY OneIsShown, PTL
<1>2. ASSUME NEW p \in Paths \ S
      PROVE  UploadAt(p)' = UploadAt(p)
  <2>1. PICK id \in Ids : Shown(id, p)'
    BY <1>1, <1>2 DEF ShowsTheOne
  <2>2. Shown(id, p) /\ ShownAs(sessions[id])' = ShownAs(sessions[id])
    BY <2>1 DEF Shown, ShownAs, Narrows
  <2> QED
    BY <1>1, <2>1, <2>2 DEF ShowsTheOne
<1>3. \A p \in Paths : UploadAt(p)' = IF p \in S THEN None ELSE UploadAt(p)
  BY <1>2
<1>4. \A p \in Paths : FileAt(p)' = FileAt(p)
  BY DEF FileAt
<1>5. S \in SUBSET Paths
  OBVIOUS
<1> HIDE DEF S
<1>6. Service!Discard(S)
  BY <1>3, <1>4 DEF Service!Discard
<1> QED
  BY <1>5, <1>6 DEF Service!Next

\* The steps that clients do not see, or see as uploads that disappear.
LEMMA NarrowSteps ==
  ASSUME BookInv,
         \/ \E c, p, n : InitResume(c, p, n) \/ InitRefused(c, p, n)
         \/ \E id \in Ids : \/ InitStep(id)
                           \/ RemoveTemp(id) \/ InstallFail(id)
                           \/ FinishOk(id) \/ FinishErr(id)
         \/ \E c : \E id \in Ids : Claim(c, id) \/ ClaimUnsaved(c, id)
         \/ \E c, at, n : \E id \in Ids : WriteFail(c, id, at, n)
         \/ Gc \/ Tick \/ UNCHANGED vars
  PROVE  Narrows /\ dest' = dest
<1>1. TypeOK
  BY DEF BookInv, IndInv
<1>2. ASSUME Shrinks, \A id \in Ids : Published(id) => Published(id)'
      PROVE  Narrows
  BY <1>2 DEF Shrinks, Narrows
<1>3. ASSUME UNCHANGED sealing
      PROVE  \A id \in Ids : Published(id) => Published(id)'
  BY <1>3 DEF Published, Sealing
<1>4. CASE \/ \E c, p, n : InitResume(c, p, n) \/ InitRefused(c, p, n)
           \/ \E id \in Ids : AllocPart(id) \/ PersistNew(id) \/ CreateFail(id)
           \/ \E c : \E id \in Ids : ClaimUnsaved(c, id)
           \/ Gc \/ Tick \/ UNCHANGED vars
  <2>1. UNCHANGED sealing
    BY <1>4 DEF InitResume, InitRefused, AllocPart, PersistNew, CreateFail, ClaimUnsaved,
                Gc, Tick, vars, handlers
  <2>2. Shrinks /\ dest' = dest
    BY <1>1, <1>4, QuietShrinks
  <2> QED
    BY <1>2, <1>3, <2>1, <2>2
<1>5. ASSUME NEW id \in Ids, RemoveTemp(id) \/ InstallFail(id)
      PROVE  Narrows /\ dest' = dest
  <2>1. Shrinks /\ dest' = dest
    BY <1>1, <1>5, QuietShrinks
  <2>2. sealing[id] \in CompleteHandler /\ sealing[id] # None
    BY <1>1, <1>5 DEF RemoveTemp, InstallFail, Sealing, TypeOK
  <2>3. [sealing[id] EXCEPT !.pc = "ok"] \in CompleteHandler
    BY <2>2 DEF CompleteHandler
  <2>4. RemoveTemp(id) => Published(id)'
    BY <1>1, <2>2, <2>3, NoneIsNoValue DEF RemoveTemp, Published, Sealing, TypeOK, CompleteHandler
  <2>5. InstallFail(id) => ~Published(id)
    BY DEF InstallFail, Published, Sealing
  <2>6. \A k \in Ids : k # id => (Published(k) => Published(k)')
    BY <1>1, <1>5 DEF RemoveTemp, InstallFail, Published, Sealing, TypeOK
  <2> QED
    BY <1>2, <1>5, <2>1, <2>4, <2>5, <2>6
<1>6. ASSUME NEW id \in Ids, CreatePart(id)
      PROVE  Narrows /\ dest' = dest
  BY <1>6 DEF CreatePart, Narrows, Published, Sealing, memory
<1>7. ASSUME NEW c, NEW at, NEW n, NEW id \in Ids, WriteFail(c, id, at, n)
      PROVE  Narrows /\ dest' = dest
  BY <1>7 DEF WriteFail, Narrows, Published, Sealing, memory, handlers
<1>8. ASSUME NEW c, NEW id \in Ids, Claim(c, id)
      PROVE  Narrows /\ dest' = dest
  <2>1. /\ sessions[id] \in UploadSession /\ sessions[id] # None
        /\ sessions[id].path \notin finalizing
        /\ sessions' = [sessions EXCEPT ![id] = [sessions[id] EXCEPT !.idle = 0]]
        /\ dest' = dest
    BY <1>1, <1>8 DEF Claim, MayClaim, Live, TypeOK
  <2>2. sealing[id] = None
    BY <2>1, SealedMarked DEF BookInv
  <2>3. \A k \in Ids : Published(k) => k # id /\ Published(k)'
    BY <1>1, <1>8, <2>2 DEF Claim, Published, Sealing, TypeOK
  <2>4. /\ sessions'[id] = [sessions[id] EXCEPT !.idle = 0]
        /\ \A k \in Ids : k # id => sessions'[k] = sessions[k]
    BY <1>1, <2>1 DEF TypeOK
  <2> QED
    BY <2>1, <2>3, <2>4, Touched DEF Narrows
<1>9. ASSUME NEW id \in Ids, FinishOk(id)
      PROVE  Narrows /\ dest' = dest
  BY <1>1, <1>9 DEF FinishOk, Narrows, Published, Sealing, TypeOK
<1>10. ASSUME NEW id \in Ids, FinishErr(id)
       PROVE  Narrows /\ dest' = dest
  <2>1. ~Published(id) /\ \A k \in Ids : k # id => (Published(k) => Published(k)')
    BY <1>1, <1>10 DEF FinishErr, Published, Sealing, TypeOK
  <2>2. dest' = dest
    BY <1>10 DEF FinishErr
  <2>3. CASE sessions[id] = None
    BY <1>10, <2>1, <2>2, <2>3 DEF FinishErr, Narrows
  <2>4. CASE sessions[id] # None
    <3>1. /\ sessions' = [sessions EXCEPT ![id] = [sessions[id] EXCEPT !.idle = 0]]
          /\ sessions[id] \in UploadSession
      BY <1>1, <1>10, <2>4 DEF FinishErr, TypeOK
    <3>2. /\ sessions'[id] = [sessions[id] EXCEPT !.idle = 0]
          /\ \A k \in Ids : k # id => sessions'[k] = sessions[k]
      BY <1>1, <3>1 DEF TypeOK
    <3> QED
      BY <2>1, <2>2, <2>4, <3>1, <3>2, Touched DEF Narrows
  <2> QED
    BY <2>3, <2>4
<1> QED
  BY <1>4, <1>5, <1>6, <1>7, <1>8, <1>9, <1>10 DEF InitStep

\* A chunk is received by the one upload of its path.
LEMMA WriteReceives ==
  ASSUME BookInv, BookInv', NEW c, NEW id \in Ids, NEW at \in 0..MaxSize,
         NEW n \in 0..MaxSize, WriteChunk(c, id, at, n)
  PROVE  Service!Next
<1> DEFINE s == [sessions[id] EXCEPT !.offset = @ + n, !.idle = 0]
<1>1. /\ TypeOK /\ TypeOK' /\ sessions[id] \in UploadSession /\ sessions[id] # None
      /\ sessions[id].path \notin finalizing
      /\ sessions' = [sessions EXCEPT ![id] = s]
      /\ n <= sessions[id].size - sessions[id].offset
      /\ UNCHANGED <<dest, sealing>>
  BY LimitsAssumption
     DEF WriteChunk, MayWrite, Remaining, Live, BookInv, IndInv, TypeOK, handlers, UploadSession
<1>p. PICK p \in Paths : p = sessions[id].path
  BY <1>1 DEF UploadSession
<1>2. /\ s.path = p /\ s.size = sessions[id].size /\ s.owner = sessions[id].owner
      /\ s.offset = sessions[id].offset + n
      /\ sessions[id].offset \in Nat /\ sessions[id].size \in Nat
  BY <1>1, <1>p, LimitsAssumption DEF UploadSession
<1>t. s \in UploadSession
  <2>1. 0 \in 0..AgeCap /\ sessions[id].offset + n \in 0..MaxSize
    BY <1>1, <1>2, AgeCapType, LimitsAssumption DEF UploadSession
  <2> QED
    BY <1>1, <2>1 DEF UploadSession
<1> HIDE DEF s
<1>3. /\ sessions'[id] = s /\ \A k \in Ids : k # id => sessions'[k] = sessions[k]
      /\ s # None
  BY <1>1, <1>t, NoneIsNoValue DEF TypeOK
<1>4. Shown(id, p) /\ Shown(id, p)'
  <2>1. sealing[id] = None
    BY <1>1, SealedMarked DEF BookInv
  <2>2. ~Published(id) /\ ~Published(id)'
    BY <1>1, <2>1 DEF Published, Sealing
  <2> QED
    BY <1>1, <1>p, <1>2, <1>3, <2>2 DEF Shown
<1>5. ShowsTheOne /\ ShowsTheOne'
  <2>1. OnePerPath /\ OnePerPath'
    BY DEF BookInv, IndInv
  <2> QED
    BY <2>1, OneIsShown, PTL
<1>6. UploadAt(p) = ShownAs(sessions[id]) /\ UploadAt(p)' = ShownAs(s)
  <2>1. UploadAt(p)' = ShownAs(sessions[id])'
    BY <1>2, <1>4, <1>5 DEF ShowsTheOne
  <2> QED
    BY <1>2, <1>3, <1>4, <1>5, <2>1 DEF ShowsTheOne, ShownAs
<1>7. ASSUME NEW q \in Paths, q # p
      PROVE  UploadAt(q)' = UploadAt(q)
  <2>1. \A k \in Ids : Shown(k, q)' <=> Shown(k, q)
    BY <1>1, <1>p, <1>2, <1>3, <1>7 DEF Shown, Published, Sealing
  <2>2. \A k \in Ids : Shown(k, q) => ShownAs(sessions[k])' = ShownAs(sessions[k])
    BY <1>p, <1>3, <1>7 DEF Shown, ShownAs
  <2> QED
    BY <1>5, <2>1, <2>2 DEF ShowsTheOne
<1>8. \A q \in Paths : FileAt(q)' = FileAt(q)
  BY <1>1 DEF FileAt
<1>9. CASE n = 0
  <2>1. UploadAt(p)' = UploadAt(p)
    <3>1. s.offset = sessions[id].offset
      BY <1>2, <1>9
    <3> QED
      BY <1>2, <1>6, <3>1 DEF ShownAs
  <2>2. \A q \in Paths : UploadAt(q)' = UploadAt(q)
    BY <1>7, <2>1
  <2>3. Service!Discard({})
    BY <1>8, <2>2 DEF Service!Discard
  <2> QED
    BY <2>3 DEF Service!Next
<1>10. CASE n # 0
  <2>1. /\ UploadAt(p) # None
        /\ UploadAt(p).size = sessions[id].size /\ UploadAt(p).got = sessions[id].offset
    BY <1>1, <1>6, ShownType
  <2>2. UploadAt(p)' = [UploadAt(p) EXCEPT !.got = @ + n]
    BY <1>2, <1>6 DEF ShownAs
  <2>3. UploadAt(p).got + n <= UploadAt(p).size
    BY <1>1, <1>2, <2>1
  <2>4. Service!Receive(p, n)
    BY <1>2, <1>7, <1>8, <2>1, <2>2, <2>3 DEF Service!Receive
  <2>5. n \in 1..MaxSize
    BY <1>10
  <2> QED
    BY <1>2, <2>4, <2>5 DEF Service!Next
<1> QED
  BY <1>9, <1>10

\* A granted `init` starts an upload where nobody's stands who may keep it.
LEMMA ReserveStarts ==
  ASSUME BookInv, BookInv', NEW c \in Callers, NEW p, NEW n, InitReserve(c, p, n)
  PROVE  Service!Next
<1> DEFINE us == [path |-> p, size |-> n, offset |-> 0, owner |-> c, idle |-> 0]
<1>1. PICK victims \in Conflicts(p), id \in Ids :
            /\ MayTake(c, p, n, victims)
            /\ Fresh(id)
            /\ sessions' = [Erase(sessions, victims) EXCEPT ![id] = us]
            /\ path_locks' = path_locks \cup {p}
            /\ UNCHANGED <<dest, sealing>>
  BY DEF InitReserve
<1>2. /\ us.path = p /\ us.owner = c /\ us.size = n /\ us.offset = 0
      /\ p \in Paths /\ c \in Users \cup {None} /\ n \in 1..MaxSize
      /\ us \in UploadSession /\ us # None
  <2>1. n \in 1..MaxSize /\ c \in Users \cup {None}
    BY <1>1 DEF MayTake, InitAllowed, Callers
  <2>2. p \in Paths
    BY <1>1 DEF BookInv, IndInv, TypeOK
  <2>3. us \in UploadSession
    BY <2>1, <2>2, AgeCapType, LimitsAssumption DEF UploadSession
  <2> QED
    BY <2>1, <2>2, <2>3, NoneIsNoValue
<1> HIDE DEF us
<1>3. /\ sessions'[id] = us
      /\ \A k \in Ids : k # id => sessions'[k] = IF k \in victims THEN None ELSE sessions[k]
      /\ sessions[id] = None /\ sealing[id] = None
  BY <1>1 DEF Erase, Fresh
<1>4. \A k \in Ids : sessions[k] # None /\ sessions[k].path = p <=> k \in victims
  BY <1>1 DEF Conflicts, OnPath, Live, BookInv, IndInv, OnePerPath
<1>5. ShowsTheOne /\ ShowsTheOne'
  <2>1. OnePerPath /\ OnePerPath'
    BY DEF BookInv, IndInv
  <2> QED
    BY <2>1, OneIsShown, PTL
<1>6. UploadAt(p)' = [size |-> n, got |-> 0, owner |-> c]
  <2>1. Shown(id, p)'
    BY <1>1, <1>2, <1>3 DEF Shown, Published, Sealing
  <2>2. UploadAt(p)' = ShownAs(sessions[id])'
    BY <1>2, <1>5, <2>1 DEF ShowsTheOne
  <2> QED
    BY <1>2, <1>3, <2>2 DEF ShownAs
<1>7. ASSUME NEW q \in Paths, q # p
      PROVE  UploadAt(q)' = UploadAt(q)
  <2>1. \A k \in Ids : Shown(k, q)' <=> Shown(k, q)
    BY <1>1, <1>2, <1>3, <1>4, <1>7 DEF Shown, Published, Sealing
  <2>2. \A k \in Ids : Shown(k, q) => sessions'[k] = sessions[k]
    BY <1>3, <1>4, <1>7 DEF Shown
  <2>3. \A k \in Ids : Shown(k, q) => ShownAs(sessions[k])' = ShownAs(sessions[k])
    BY <2>2 DEF ShownAs
  <2> QED
    BY <1>5, <2>1, <2>3 DEF ShowsTheOne
<1>8. \A q \in Paths : FileAt(q)' = FileAt(q)
  BY <1>1 DEF FileAt
<1>9. Service!MayReplace(UploadAt(p), c)
  <2>1. CASE \A k \in Ids : ~Shown(k, p)
    BY <1>2, <1>5, <2>1 DEF ShowsTheOne, Service!MayReplace
  <2>2. CASE \E k \in Ids : Shown(k, p)
    <3>1. PICK k \in Ids : Shown(k, p)
      BY <2>2
    <3>2. CanSupersede(sessions[k], c) /\ sessions[k] \in UploadSession
      BY <1>1, <1>4, <3>1 DEF Shown, MayTake, BookInv, IndInv, TypeOK
    <3>3. /\ UploadAt(p).size = sessions[k].size /\ UploadAt(p).got = sessions[k].offset
          /\ UploadAt(p).owner = sessions[k].owner
      BY <1>2, <1>5, <3>1, <3>2, ShownType DEF ShowsTheOne
    <3> QED
      BY <3>2, <3>3 DEF CanSupersede, Service!MayReplace, Service!Complete
  <2> QED
    BY <2>1, <2>2
<1>10. Service!Start(p, c, n)
  BY <1>2, <1>6, <1>7, <1>8, <1>9 DEF Service!Start
<1> QED
  BY <1>2, <1>10 DEF Service!Next

\* A file is published when its upload is complete, with the upload's size.
LEMMA InstallPublishes ==
  ASSUME BookInv, BookInv', NEW id \in Ids, Install(id) \/ InstallThenFail(id)
  PROVE  Service!Next
<1>p. PICK p \in Paths : p = sealing[id].path
  BY DEF Install, InstallThenFail, Sealing, BookInv, IndInv, TypeOK, CompleteHandler
<1>1. /\ Sealing(id, "claimed") /\ part[id] # None
      /\ sealing[id] # None /\ sealing[id] \in CompleteHandler
      /\ TypeOK /\ UNCHANGED sessions
      /\ dest' = [dest EXCEPT ![p] = [size |-> sealing[id].size, filled |-> part[id].filled]]
  BY <1>p DEF Install, InstallThenFail, Sealing, BookInv, IndInv, TypeOK, memory
<1>2. /\ sessions[id] # None /\ sessions[id] \in UploadSession
      /\ sessions[id].path = p /\ sessions[id].size = sealing[id].size
      /\ sessions[id].offset = sessions[id].size
  BY <1>1, <1>p DEF BookInv, SealingFull, IndInv, SealingHeld, Live, TypeOK, CompleteHandler
<1>3. Shown(id, p)
  BY <1>1, <1>2 DEF Shown, Published, Sealing
<1>4. ShowsTheOne /\ ShowsTheOne'
  <2>1. OnePerPath /\ OnePerPath'
    BY DEF BookInv, IndInv
  <2> QED
    BY <2>1, OneIsShown, PTL
<1>5. /\ UploadAt(p) = ShownAs(sessions[id]) /\ UploadAt(p) # None
      /\ UploadAt(p).size = sessions[id].size /\ UploadAt(p).got = sessions[id].offset
  BY <1>2, <1>3, <1>4, ShownType DEF ShowsTheOne
<1>6. \A k \in Ids : k # id => (Published(k)' <=> Published(k))
  BY <1>1 DEF Install, InstallThenFail, Published, Sealing, TypeOK
<1>7. ASSUME NEW q \in Paths, q # p
      PROVE  UploadAt(q)' = UploadAt(q)
  <2>1. \A k \in Ids : Shown(k, q)' <=> Shown(k, q)
    BY <1>1, <1>2, <1>6, <1>7 DEF Shown
  <2>2. \A k \in Ids : Shown(k, q) => ShownAs(sessions[k])' = ShownAs(sessions[k])
    BY <1>1 DEF ShownAs
  <2> QED
    BY <1>4, <2>1, <2>2 DEF ShowsTheOne
<1>8. UploadAt(p)' \in {UploadAt(p), None}
  <2>1. CASE Shown(id, p)'
    <3>1. UploadAt(p)' = ShownAs(sessions[id])'
      BY <1>2, <1>4, <2>1 DEF ShowsTheOne
    <3> QED
      BY <1>1, <1>5, <3>1 DEF ShownAs
  <2>2. CASE ~Shown(id, p)'
    <3>1. \A k \in Ids : k # id => ~(sessions[k] # None /\ sessions[k].path = p)
      BY <1>2 DEF BookInv, IndInv, OnePerPath, Live
    <3>2. \A k \in Ids : ~Shown(k, p)'
      BY <1>1, <2>2, <3>1 DEF Shown
    <3> QED
      BY <1>2, <1>4, <3>2 DEF ShowsTheOne
  <2> QED
    BY <2>1, <2>2
<1>9. /\ FileAt(p)' = sessions[id].size
      /\ \A q \in Paths : q # p => FileAt(q)' = FileAt(q)
  <2>1. part[id].filled = sealing[id].size
    BY <1>1 DEF BookInv, IndInv, SealingHeld
  <2>2. dest'[p] = [size |-> sealing[id].size, filled |-> part[id].filled]
    BY <1>1, <1>2 DEF TypeOK
  <2>3. dest'[p] # None /\ dest'[p].size = sealing[id].size /\ dest'[p].filled = sealing[id].size
    <3>1. [size |-> sealing[id].size, filled |-> part[id].filled] \in ServedFile
      BY <1>1 DEF TypeOK, PartFile, CompleteHandler, ServedFile
    <3> QED
      BY <2>1, <2>2, <3>1, NoneIsNoValue
  <2>4. \A q \in Paths : q # p => dest'[q] = dest[q]
    BY <1>1 DEF TypeOK
  <2> QED
    BY <1>2, <2>3, <2>4 DEF FileAt
<1>10. Service!Publish(p)
  <2>1. /\ [q \in Paths |-> FileAt(q)]' =
              [[q \in Paths |-> FileAt(q)] EXCEPT ![p] = UploadAt(p).size]
    BY <1>2, <1>5, <1>9
  <2>2. [q \in Paths |-> UploadAt(q)]' \in
              {[q \in Paths |-> UploadAt(q)],
               [[q \in Paths |-> UploadAt(q)] EXCEPT ![p] = None]}
    BY <1>2, <1>7, <1>8
  <2> QED
    BY <1>2, <1>5, <2>1, <2>2 DEF Service!Publish, Service!Complete
<1> QED
  BY <1>2, <1>10 DEF Service!Next

\* At the start no path has an upload or a file.
LEMMA ServiceInit == Init => Service!Init
<1> SUFFICES ASSUME Init
             PROVE  Service!Init
  OBVIOUS
<1>1. \A p \in Paths : UploadAt(p) = None
  BY DEF Init, UploadAt, ActiveOn, OnPath, Live
<1>2. \A p \in Paths : FileAt(p) = None
  BY DEF Init, FileAt
<1> QED
  BY <1>1, <1>2 DEF Service!Init

\* Every step is one that clients may see.
LEMMA ServiceNext == BookInv /\ BookInv' /\ [Next]_vars => Service!Next
<1> SUFFICES ASSUME BookInv, BookInv', [Next]_vars
             PROVE  Service!Next
  OBVIOUS
<1>1. ASSUME Narrows /\ dest' = dest
      PROVE  Service!Next
  BY <1>1, NarrowsDiscards DEF BookInv, IndInv
<1>2. CASE InitRequest
  <2>1. PICK c, p, n :
            /\ c \in Callers
            /\ InitResume(c, p, n) \/ InitReserve(c, p, n) \/ InitRefused(c, p, n)
    BY <1>2 DEF InitRequest
  <2> QED
    BY <1>1, <2>1, NarrowSteps, ReserveStarts
<1>3. CASE WriteRequest
  BY <1>1, <1>3, NarrowSteps, WriteReceives DEF WriteRequest
<1>4. CASE CompleteRequest
  BY <1>1, <1>4, NarrowSteps DEF CompleteRequest
<1>5. ASSUME NEW id \in Ids, InitStep(id) \/ CompleteStep(id)
      PROVE  Service!Next
  BY <1>1, <1>5, NarrowSteps, InstallPublishes DEF CompleteStep
<1>6. CASE Gc \/ Tick \/ UNCHANGED vars
  BY <1>1, <1>6, NarrowSteps
<1> QED
  BY <1>2, <1>3, <1>4, <1>5, <1>6 DEF Next

\* TransferManager keeps the promises of UploadService, with and without
\* faults: whatever its handlers do to maps and files in between, clients see
\* uploads that receive bytes in order, are published whole, and give way to
\* none but those who may replace them.
THEOREM Implements == Spec => ServiceSpec
<1>1. BookInv /\ BookInv' /\ [Next]_vars =>
          [Service!Next]_<<[p \in Paths |-> UploadAt(p)], [p \in Paths |-> FileAt(p)]>>
  BY ServiceNext
<1> QED
  BY <1>1, ServiceInit, BooksAgree, PTL DEF Spec, ServiceSpec, Service!Spec
=============================================================================
