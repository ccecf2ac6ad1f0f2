------------------------ MODULE TransferCrashProofs ------------------------
(***************************************************************************)
(* Proofs about module TransferCrash, for every value of its constants and *)
(* any number of crashes, with or without file system faults.              *)
(***************************************************************************)
EXTENDS TransferCrash, TransferProofs

\* What a step may do to upload j that nobody works on: drop it, or some of
\* its files, or end a handler of it.
Fades(j) ==
    /\ sessions'[j] # None => /\ sessions'[j] = sessions[j]
                              /\ json'[j] = json[j]
                              /\ creating'[j] = creating[j]
    /\ json'[j] \in {json[j], None}
    /\ part'[j] \in {part[j], None}
    /\ creating'[j] \in {creating[j], None}
    /\ sealing'[j] # None => sealing[j] # None /\ sealing'[j].path = sealing[j].path

\* An upload that fades stays recoverable.
LEMMA FadesKeeps ==
  ASSUME NEW j \in Ids, Recoverable(j), Fades(j)
  PROVE  Recoverable(j)'
<1>1. Bounded(j)'
  BY DEF Recoverable, Fades, Bounded, Live
<1>2. Uncreated(j)'
  BY DEF Recoverable, Fades, Uncreated, Live, At
<1>3. Reaches(j)'
  BY DEF Recoverable, Fades, Reaches, Live
<1>4. Saved(j)'
  BY DEF Recoverable, Fades, Saved, Live
<1>5. Claimed(j)'
  BY DEF Recoverable, Fades, Claimed, Live
<1> QED
  BY <1>1, <1>2, <1>3, <1>4, <1>5 DEF Recoverable

\* What a step may do to an upload it works on: move it on to s, save it or not, or
\* what its `init` was to save, write to its part file, seal it.
Advances(k, s) ==
    /\ sessions[k] # None /\ sessions'[k] = s /\ s # None
    /\ s.path = sessions[k].path /\ s.size = sessions[k].size /\ s.owner = sessions[k].owner
    /\ s.offset <= s.size
    /\ At(k, "create") => s.offset = 0 /\ sealing'[k] = None
    /\ \/ creating'[k] = creating[k] /\ json'[k] = json[k]
       \/ json'[k] = s
       \/ creating[k] # None /\ json'[k] = creating[k].us
    /\ creating'[k] # None => creating[k] # None /\ creating'[k].us = creating[k].us
    /\ At(k, "create")' => At(k, "create")
    /\ part[k] = None => part'[k] = None
    /\ part'[k] # None => /\ s.offset <= part'[k].len
                          /\ json[k] # None => json[k].offset <= part'[k].len
    /\ sealing'[k] # None => \/ sealing'[k].path = s.path
                             \/ sealing[k] # None /\ sealing'[k].path = sealing[k].path

\* An upload that advances stays recoverable.
LEMMA AdvancesKeeps ==
  ASSUME TypeOK, TypeOK', NEW k \in Ids, NEW s, Recoverable(k), Advances(k, s)
  PROVE  Recoverable(k)'
<1>0. creating[k] # None =>
        /\ creating[k].us # None /\ creating[k].us.offset = 0
        /\ 0 <= creating[k].us.size
        /\ part'[k] # None => 0 <= part'[k].len
  BY NoneIsNoValue, LimitsAssumption
     DEF Recoverable, Saved, TypeOK, InitHandler, UploadSession, PartFile
<1>1. Bounded(k)'
  BY <1>0 DEF Recoverable, Advances, Bounded, Live
<1>2. Uncreated(k)'
  BY <1>0 DEF Recoverable, Advances, Uncreated, Live
<1>3. Reaches(k)'
  BY <1>0 DEF Recoverable, Advances, Reaches, Live
<1>4. Saved(k)'
  BY <1>0 DEF Recoverable, Advances, Saved, Live
<1>5. Claimed(k)'
  BY DEF Recoverable, Advances, Claimed, Live
<1> QED
  BY <1>1, <1>2, <1>3, <1>4, <1>5 DEF Recoverable

\* Owners stay: what is in the map has the owner it had.
LEMMA OwnersKept ==
  ASSUME CrashInv, encryption' = encryption,
         \A j \in Ids : sessions'[j] # None =>
             sessions[j] # None /\ sessions'[j].owner = sessions[j].owner
  PROVE  OwnedUnderEncryption'
  BY DEF CrashInv, OwnedUnderEncryption, Live

\* No path is marked or unmarked, and no `complete` begins or ends.
LEMMA MarksKept ==
  ASSUME CrashInv, finalizing' = finalizing,
         \A j \in Ids : /\ sealing'[j] # None <=> sealing[j] # None
                        /\ sealing[j] # None => sealing'[j].path = sealing[j].path
  PROVE  OneSealing' /\ NoStaleFinalizing'
<1>1. OneSealing'
  BY DEF CrashInv, OneSealing
<1>2. finalizing' = {sealing'[id].path : id \in {i \in Ids : sealing'[i] # None}}
  BY DEF CrashInv, NoStaleFinalizing
<1> QED
  BY <1>1, <1>2 DEF NoStaleFinalizing

\* Sessions are dropped with their files, or handlers end.
LEMMA FadingSteps ==
  ASSUME CrashInv, TypeOK', \A j \in Ids : Fades(j),
         encryption' = encryption, finalizing' = finalizing,
         \A j \in Ids : sealing'[j] # None <=> sealing[j] # None
  PROVE  CrashInv'
<1>1. \A j \in Ids : Recoverable(j)'
  BY FadesKeeps DEF CrashInv
<1>2. OwnedUnderEncryption'
  BY OwnersKept DEF Fades
<1>3. OneSealing' /\ NoStaleFinalizing'
  BY MarksKept DEF Fades
<1> QED
  BY <1>1, <1>2, <1>3 DEF CrashInv

\* One upload advances and no `complete` begins or ends.
LEMMA AdvancingSteps ==
  ASSUME CrashInv, TypeOK', NEW k \in Ids, NEW s, Advances(k, s),
         \A j \in Ids \ {k} : Fades(j) /\ sealing'[j] = sealing[j],
         encryption' = encryption, finalizing' = finalizing, sealing'[k] = sealing[k]
  PROVE  CrashInv'
<1>1. \A j \in Ids : Recoverable(j)'
  BY FadesKeeps, AdvancesKeeps DEF CrashInv
<1>2. OwnedUnderEncryption'
  BY OwnersKept DEF Fades, Advances
<1>3. OneSealing' /\ NoStaleFinalizing'
  BY MarksKept
<1> QED
  BY <1>1, <1>2, <1>3 DEF CrashInv

-----------------------------------------------------------------------------
(* The steps of module Transfer.                                           *)

\* A session that is saved again with nothing but its age changed advances.
LEMMA TouchAdvances ==
  ASSUME CrashInv, NEW k \in Ids, sessions[k] # None,
         sessions' = [sessions EXCEPT ![k] = [sessions[k] EXCEPT !.idle = 0]],
         Persist(k, [sessions[k] EXCEPT !.idle = 0]),
         UNCHANGED part,
         sealing'[k] # None => \/ sealing'[k].path = sessions[k].path
                               \/ sealing[k] # None /\ sealing'[k].path = sealing[k].path,
         At(k, "create") => sealing'[k] = None,
         \A j \in Ids \ {k} : sealing'[j] = sealing[j]
  PROVE  /\ Advances(k, [sessions[k] EXCEPT !.idle = 0])
         /\ \A j \in Ids \ {k} : Fades(j)
<1> DEFINE s == [sessions[k] EXCEPT !.idle = 0]
<1>1. sessions[k] \in UploadSession /\ Recoverable(k)
  BY DEF CrashInv, TypeOK
<1>2. /\ s # None /\ s.path = sessions[k].path /\ s.size = sessions[k].size
      /\ s.owner = sessions[k].owner /\ s.offset = sessions[k].offset
      /\ s \in UploadSession
  BY <1>1, Touched
<1>3. sessions' = [sessions EXCEPT ![k] = s] /\ Persist(k, s)
  OBVIOUS
<1> HIDE DEF s
<1>4. sessions'[k] = s /\ \A j \in Ids \ {k} : sessions'[j] = sessions[j]
  BY <1>3 DEF TypeOK, CrashInv
<1>5. /\ \A j \in Ids \ {k} : json'[j] = json[j] /\ creating'[j] = creating[j]
      /\ At(k, "create")' => At(k, "create")
      /\ creating'[k] # None => creating[k] # None /\ creating'[k].us = creating[k].us
      /\ \/ creating'[k] = creating[k] /\ json'[k] = json[k]
         \/ json'[k] = s
         \/ creating[k] # None /\ json'[k] = creating[k].us
  BY <1>2, <1>3, PersistIs DEF CrashInv
<1>6. s.offset <= s.size
  BY <1>1, <1>2 DEF Recoverable, Bounded, Live
<1>7. At(k, "create") => s.offset = 0
  BY <1>1, <1>2 DEF Recoverable, Uncreated, Live
<1>8. part[k] # None => /\ s.offset <= part[k].len
                        /\ json[k] # None => json[k].offset <= part[k].len
  BY <1>1, <1>2 DEF Recoverable, Reaches, Live
<1>9. Advances(k, s)
  BY <1>2, <1>4, <1>5, <1>6, <1>7, <1>8 DEF Advances
<1>10. \A j \in Ids \ {k} : Fades(j)
  BY <1>4, <1>5 DEF Fades
<1> QED
  BY <1>9, <1>10 DEF s
\* InitResume.
LEMMA ResumeSurvivable ==
  ASSUME CrashInv, TypeOK', NEW c, NEW p, NEW n, InitResume(c, p, n)
  PROVE  CrashInv'
<1>1. PICK k \in Ids :
          /\ sessions[k] # None
          /\ sessions' = [sessions EXCEPT ![k] = [sessions[k] EXCEPT !.idle = 0]]
          /\ Persist(k, [sessions[k] EXCEPT !.idle = 0])
  BY DEF InitResume, Resumable, OnPath, Live
<1>2. UNCHANGED <<encryption, finalizing, part, sealing>>
  BY DEF InitResume
<1>3. At(k, "create") => sealing'[k] = None
  BY <1>2 DEF CrashInv, Recoverable, Uncreated
<1>4. Advances(k, [sessions[k] EXCEPT !.idle = 0]) /\ \A j \in Ids \ {k} : Fades(j)
  BY <1>1, <1>2, <1>3, TouchAdvances
<1> QED
  BY <1>2, <1>4, AdvancingSteps

\* InitRefused and Gc.
LEMMA DropSurvivable ==
  ASSUME CrashInv, TypeOK', NEW S,
         sessions' = Erase(sessions, S), part' = Erase(part, S), json' = Erase(json, S),
         UNCHANGED <<encryption, finalizing, creating, sealing>>
  PROVE  CrashInv'
<1>1. \A j \in Ids : Fades(j)
  BY DEF Erase, Fades
<1> QED
  BY <1>1, FadingSteps

\* A new session, where no other trace of its id is left.
LEMMA ReserveSurvivable ==
  ASSUME CrashInv, TypeOK', NEW c \in Callers, NEW p \in Paths \cup {None}, NEW n,
         InitReserve(c, p, n)
  PROVE  CrashInv'
<1> DEFINE us == [path |-> p, size |-> n, offset |-> 0, owner |-> c, idle |-> 0]
<1>1. PICK victims \in Conflicts(p), k \in Ids :
          /\ InitAllowed(c, p, n)
          /\ Fresh(k)
          /\ sessions' = [Erase(sessions, victims) EXCEPT ![k] = us]
          /\ part' = Erase(part, victims)
          /\ json' = Erase(json, victims)
          /\ creating' = [creating EXCEPT ![k] = [pc |-> "create", us |-> us]]
          /\ UNCHANGED <<encryption, finalizing, sealing>>
  BY DEF InitReserve, MayTake
<1>2. /\ us.path = p /\ us.size = n /\ us.offset = 0 /\ us.owner = c /\ n \in Nat
      /\ [pc |-> "create", us |-> us].us = us
  BY <1>1, LimitsAssumption DEF InitAllowed
<1> HIDE DEF us
<1>3. /\ sessions'[k] = us /\ creating'[k].us = us /\ part'[k] = None /\ json'[k] = None
      /\ sealing'[k] = None /\ creating'[k] # None
  <2>1. Erase(sessions, victims) \in [Ids -> UploadSession \cup {None}]
    BY EraseType DEF CrashInv, TypeOK
  <2>3. creating'[k] = [pc |-> "create", us |-> us]
    BY <1>1 DEF CrashInv, TypeOK
  <2>4. [pc |-> "create", us |-> us] \in InitHandler
    BY <1>1, NewSessionType DEF InitHandler, us, CrashInv
  <2> QED
    BY <1>1, <1>2, <2>1, <2>3, <2>4, NoneIsNoValue DEF Fresh, Erase
<1>4. \A j \in Ids \ {k} : Fades(j)
  BY <1>1, EraseType DEF Fades, Erase, CrashInv, TypeOK
<1>5. Recoverable(k)'
  BY <1>2, <1>3 DEF Recoverable, Bounded, Uncreated, Reaches, Saved, Claimed, Live
<1>6. \A j \in Ids : Recoverable(j)'
  BY <1>4, <1>5, FadesKeeps DEF CrashInv
<1>7. OwnedUnderEncryption'
  <2>1. encryption => c # None
    BY NoneAssumption DEF Callers
  <2> QED
    BY <1>1, <1>2, <1>3, <1>4, <2>1 DEF OwnedUnderEncryption, Live, Fades, CrashInv
<1>8. OneSealing' /\ NoStaleFinalizing'
  BY <1>1, MarksKept
<1> QED
  BY <1>6, <1>7, <1>8 DEF CrashInv

\* CreatePart, AllocPart, PersistNew and CreateFail.
LEMMA InitStepSurvivable ==
  ASSUME CrashInv, TypeOK', NEW k \in Ids, InitStep(k)
  PROVE  CrashInv'
<1>1. /\ Recoverable(k) /\ creating[k] \in InitHandler /\ creating[k].us \in UploadSession
      /\ creating[k] # None
  BY DEF InitStep, CreatePart, AllocPart, PersistNew, CreateFail, At, CrashInv, TypeOK,
         InitHandler
<1>2. UNCHANGED <<encryption, finalizing, sealing>>
  BY DEF InitStep, CreatePart, AllocPart, PersistNew, CreateFail, memory
<1>3. CASE CreateFail(k)
  <2>1. \A j \in Ids : Fades(j)
    BY <1>3 DEF CreateFail, Fades, CrashInv, TypeOK
  <2> QED
    BY <1>2, <2>1, FadingSteps
<1>4. ASSUME CreatePart(k) \/ AllocPart(k) \/ PersistNew(k)
      PROVE  sessions' = sessions /\ \A j \in Ids \ {k} : Fades(j)
  BY <1>4 DEF InitStep, CreatePart, AllocPart, PersistNew, Fades, CrashInv, TypeOK, memory
<1>5. ASSUME CreatePart(k) \/ AllocPart(k) \/ PersistNew(k)
      PROVE  OwnedUnderEncryption' /\ OneSealing' /\ NoStaleFinalizing'
  BY <1>2, <1>4, <1>5, OwnersKept, MarksKept
<1>6. CASE CreatePart(k)
  <2>1. /\ part'[k].len = 0 /\ json' = json /\ sessions' = sessions
        /\ creating'[k] \in InitHandler /\ creating'[k].us = creating[k].us
        /\ creating'[k].pc = "alloc"
    BY <1>1, <1>6 DEF CreatePart, CrashInv, TypeOK, memory, InitHandler
  <2>2. Reaches(k)'
    BY <1>1, <1>6, <2>1 DEF Recoverable, Uncreated, Reaches, Live, CreatePart
  <2>3. Uncreated(k)' /\ Bounded(k)' /\ Claimed(k)'
    BY <1>1, <1>2, <2>1 DEF Recoverable, Uncreated, Bounded, Claimed, Live, At
  <2>4. Saved(k)'
    BY <1>1, <2>1, NoneIsNoValue DEF Recoverable, Saved, Live
  <2>5. \A j \in Ids : Recoverable(j)'
    BY <1>4, <1>6, <2>1, <2>2, <2>3, <2>4, FadesKeeps DEF Recoverable, CrashInv
  <2> QED
    BY <1>4, <1>5, <1>6, <2>1, <2>5 DEF CrashInv
<1>7. CASE AllocPart(k)
  <2>1. /\ part[k] = None => part'[k] = None
        /\ part'[k] # None => part'[k].len = creating[k].us.size
        /\ json' = json /\ sessions' = sessions
        /\ creating'[k] \in InitHandler /\ creating'[k].us = creating[k].us
        /\ creating'[k].pc = "persist"
    BY <1>1, <1>7 DEF AllocPart, CrashInv, TypeOK, memory, InitHandler, PartFile
  <2>2. Reaches(k)'
    <3>1. k \in Live => sessions[k].offset <= creating[k].us.size
      BY <1>1 DEF Recoverable, Saved, Bounded
    <3>2. json[k] # None => json[k].offset <= creating[k].us.size
      BY <1>1 DEF Recoverable, Saved, Bounded
    <3> QED
      BY <2>1, <3>1, <3>2 DEF Reaches, Live
  <2>3. Uncreated(k)' /\ Bounded(k)' /\ Claimed(k)'
    BY <1>1, <1>2, <2>1 DEF Recoverable, Uncreated, Bounded, Claimed, Live, At
  <2>4. Saved(k)'
    BY <1>1, <2>1, NoneIsNoValue DEF Recoverable, Saved, Live
  <2>5. \A j \in Ids : Recoverable(j)'
    BY <1>4, <1>7, <2>1, <2>2, <2>3, <2>4, FadesKeeps DEF Recoverable, CrashInv
  <2> QED
    BY <1>4, <1>5, <1>7, <2>1, <2>5 DEF CrashInv
<1>8. CASE PersistNew(k)
  <2>1. /\ part' = part /\ sessions' = sessions
        /\ json'[k] = creating[k].us /\ json'[k] # None
        /\ json'[k].offset = 0 /\ json'[k].size \in Nat
        /\ creating'[k] = None
    BY <1>1, <1>8, NoneIsNoValue, LimitsAssumption
       DEF PersistNew, CrashInv, TypeOK, memory, UploadSession, Recoverable, Saved
  <2>2. Reaches(k)'
    <3>1. part[k] # None => part[k].len \in Nat
      BY LimitsAssumption DEF CrashInv, TypeOK, PartFile
    <3> QED
      BY <1>1, <2>1, <3>1 DEF Reaches, Recoverable, Live
  <2>3. Uncreated(k)' /\ Bounded(k)' /\ Claimed(k)'
    BY <1>1, <1>2, <2>1 DEF Recoverable, Uncreated, Bounded, Claimed, Live, At
  <2>4. Saved(k)'
    BY <1>1, <2>1 DEF Recoverable, Saved, Live
  <2>5. \A j \in Ids : Recoverable(j)'
    BY <1>4, <1>8, <2>1, <2>2, <2>3, <2>4, FadesKeeps DEF Recoverable, CrashInv
  <2> QED
    BY <1>4, <1>5, <1>8, <2>1, <2>5 DEF CrashInv
<1> QED
  BY <1>3, <1>6, <1>7, <1>8 DEF InitStep
\* WriteChunk and WriteFail: a part file never gets shorter.
LEMMA WriteSurvivable ==
  ASSUME CrashInv, TypeOK', NEW c, NEW k \in Ids, NEW at \in 0..MaxSize, NEW n \in 0..MaxSize,
         WriteChunk(c, k, at, n) \/ WriteFail(c, k, at, n)
  PROVE  CrashInv'
<1>1. /\ sessions[k] # None /\ sessions[k] \in UploadSession
      /\ part[k] # None /\ part[k] \in PartFile
      /\ at = sessions[k].offset /\ n \in 0..(sessions[k].size - sessions[k].offset)
      /\ part' = [part EXCEPT ![k] = Written(part[k], at, n)]
      /\ Recoverable(k)
      /\ UNCHANGED <<encryption, finalizing, sealing>>
  BY DEF WriteChunk, WriteFail, MayWrite, Remaining, CrashInv, TypeOK, Live, memory, handlers
<1>2. /\ sessions[k].offset \in Nat /\ sessions[k].size \in Nat /\ part[k].len \in Nat
      /\ json[k] # None => json[k].offset \in Nat
      /\ n \in Nat
  BY <1>1, LimitsAssumption DEF UploadSession, PartFile, CrashInv, TypeOK
<1>3. /\ part'[k].len \in Nat /\ part'[k].len >= part[k].len
      /\ part'[k].len >= sessions[k].offset + n
      /\ \A j \in Ids \ {k} : part'[j] = part[j]
  BY <1>1, <1>2 DEF Written, CrashInv, TypeOK
<1>4. /\ sessions[k].offset <= part[k].len
      /\ json[k] # None => json[k].offset <= part[k].len
  BY <1>1 DEF Recoverable, Reaches, Live
<1>5. ~At(k, "create")
  BY <1>1 DEF Recoverable, Uncreated
<1>6. CASE WriteChunk(c, k, at, n)
  <2> DEFINE s == [sessions[k] EXCEPT !.offset = sessions[k].offset + n, !.idle = 0]
  <2>1. sessions' = [sessions EXCEPT ![k] = s] /\ Persist(k, s)
    BY <1>6 DEF WriteChunk
  <2>2. /\ s.path = sessions[k].path /\ s.size = sessions[k].size
        /\ s.owner = sessions[k].owner /\ s.offset = sessions[k].offset + n
        /\ s \in UploadSession
    <3>1. sessions[k].size \in 1..MaxSize /\ sessions[k].offset \in 0..MaxSize
      BY <1>1 DEF UploadSession
    <3>2. sessions[k].offset + n \in 0..MaxSize
      BY <1>1, <3>1, LimitsAssumption
    <3>3. 0 \in 0..AgeCap
      BY AgeCapType
    <3> QED
      BY <1>1, <3>2, <3>3 DEF UploadSession
  <2> HIDE DEF s
  <2>3. /\ sessions'[k] = s /\ s # None
        /\ \A j \in Ids \ {k} : sessions'[j] = sessions[j]
    BY <2>1, <2>2, NoneIsNoValue DEF CrashInv, TypeOK
  <2>p. /\ \A j \in Ids \ {k} : json'[j] = json[j] /\ creating'[j] = creating[j]
        /\ At(k, "create")' => At(k, "create")
        /\ creating'[k] # None => creating[k] # None /\ creating'[k].us = creating[k].us
        /\ \/ creating'[k] = creating[k] /\ json'[k] = json[k]
           \/ json'[k] = s
           \/ creating[k] # None /\ json'[k] = creating[k].us
    BY <2>1, <2>2, PersistIs DEF CrashInv
  <2>4. s.offset <= s.size /\ s.offset <= part'[k].len
        /\ (json[k] # None => json[k].offset <= part'[k].len)
    BY <1>1, <1>2, <1>3, <1>4, <2>2
  <2>5. Advances(k, s)
    BY <1>1, <1>5, <2>2, <2>3, <2>p, <2>4 DEF Advances
  <2>6. \A j \in Ids \ {k} : Fades(j) /\ sealing'[j] = sealing[j]
    BY <1>1, <1>3, <2>3, <2>p DEF Fades
  <2> QED
    BY <1>1, <2>5, <2>6, AdvancingSteps
<1>7. CASE WriteFail(c, k, at, n)
  <2>1. sessions' = sessions /\ json' = json /\ creating' = creating
    BY <1>7 DEF WriteFail, memory, handlers
  <2>2. sessions[k].offset <= sessions[k].size
    BY <1>1 DEF Recoverable, Bounded, Live
  <2>3. sessions[k].offset <= part'[k].len
        /\ (json[k] # None => json[k].offset <= part'[k].len)
    BY <1>2, <1>3, <1>4
  <2>4. Advances(k, sessions[k])
    BY <1>1, <1>5, <2>1, <2>2, <2>3 DEF Advances, At
  <2>5. \A j \in Ids \ {k} : Fades(j) /\ sealing'[j] = sealing[j]
    BY <1>1, <1>3, <2>1 DEF Fades
  <2> QED
    BY <1>1, <2>4, <2>5, AdvancingSteps
<1> QED
  BY <1>6, <1>7

\* Claim and ClaimUnsaved: the path was not marked, so nobody seals it.
LEMMA ClaimSurvivable ==
  ASSUME CrashInv, TypeOK', NEW c, NEW k \in Ids, Claim(c, k) \/ ClaimUnsaved(c, k)
  PROVE  CrashInv'
<1> DEFINE s == [sessions[k] EXCEPT !.idle = 0]
<1>1. /\ sessions[k] # None /\ sessions[k] \in UploadSession
      /\ sessions[k].path \notin finalizing
      /\ sessions[k].offset = sessions[k].size
      /\ Recoverable(k)
      /\ sessions' = [sessions EXCEPT ![k] = s] /\ Persist(k, s)
      /\ UNCHANGED <<encryption, part>>
  BY DEF Claim, ClaimUnsaved, MayClaim, CrashInv, TypeOK, Live, Persist
<1>2. ~At(k, "create")
  <2>1. sessions[k].size \in 1..MaxSize
    BY <1>1 DEF UploadSession
  <2>2. sessions[k].offset # 0
    BY <1>1, <2>1, LimitsAssumption
  <2> QED
    BY <1>1, <2>2 DEF Recoverable, Uncreated, Live
<1>3. sealing[k] = None
  <2> SUFFICES ASSUME sealing[k] # None PROVE FALSE
    OBVIOUS
  <2>1. sessions[k].path = sealing[k].path
    BY <1>1 DEF Recoverable, Claimed, Live
  <2>2. sealing[k].path \in finalizing
    BY DEF CrashInv, NoStaleFinalizing
  <2> QED
    BY <1>1, <2>1, <2>2
<1>4. CASE ClaimUnsaved(c, k)
  <2>1. UNCHANGED <<finalizing, sealing>>
    BY <1>4 DEF ClaimUnsaved
  <2>2. Advances(k, s) /\ \A j \in Ids \ {k} : Fades(j)
    BY <1>1, <1>2, <2>1, TouchAdvances
  <2> HIDE DEF s
  <2> QED
    BY <1>1, <2>1, <2>2, AdvancingSteps
<1>5. CASE Claim(c, k)
  <2> DEFINE h == [pc |-> "claimed", path |-> s.path, size |-> s.size]
  <2>1. /\ sealing' = [sealing EXCEPT ![k] = h]
        /\ finalizing' = finalizing \cup {s.path}
    BY <1>5 DEF Claim
  <2>2. s.path = sessions[k].path
    BY <1>1, Touched
  <2>3. /\ sealing'[k] = h /\ h.path = sessions[k].path /\ h # None
        /\ \A j \in Ids \ {k} : sealing'[j] = sealing[j]
    <3>1. sealing'[k] = h /\ \A j \in Ids \ {k} : sealing'[j] = sealing[j]
      BY <2>1 DEF CrashInv, TypeOK
    <3>2. h \in CompleteHandler
      <4>1. s.size = sessions[k].size
        BY <1>1, Touched
      <4> HIDE DEF s
      <4> QED
        BY <1>1, <2>2, <4>1 DEF CompleteHandler, UploadSession
    <3> QED
      BY <2>2, <3>1, <3>2, NoneIsNoValue
  <2> HIDE DEF h
  <2>4. Advances(k, s) /\ \A j \in Ids \ {k} : Fades(j)
    BY <1>1, <1>2, <2>3, TouchAdvances
  <2>5. finalizing' = finalizing \cup {sessions[k].path}
    BY <2>1, <2>2
  <2> HIDE DEF s
  <2>6. \A j \in Ids : Recoverable(j)'
    BY <2>4, FadesKeeps, AdvancesKeeps DEF CrashInv
  <2>7. OwnedUnderEncryption'
    BY <1>1, <2>4, OwnersKept DEF Fades, Advances
  <2>8. OneSealing'
    <3>1. \A j \in Ids : sealing[j] # None => sealing[j].path # sessions[k].path
      BY <1>1 DEF CrashInv, NoStaleFinalizing
    <3> QED
      BY <2>3, <3>1 DEF CrashInv, OneSealing
  <2>9. NoStaleFinalizing'
    <3>1. finalizing' = {sealing'[id].path : id \in {i \in Ids : sealing'[i] # None}}
      BY <1>3, <2>3, <2>5 DEF CrashInv, NoStaleFinalizing
    <3> QED
      BY <3>1 DEF NoStaleFinalizing
  <2> QED
    BY <2>6, <2>7, <2>8, <2>9 DEF CrashInv
<1> QED
  BY <1>4, <1>5

\* Install, RemoveTemp, InstallFail and InstallThenFail; FinishOk and FinishErr
\* unmark the path that only they had marked.
LEMMA CompleteStepSurvivable ==
  ASSUME CrashInv, TypeOK', NEW k \in Ids, CompleteStep(k)
  PROVE  CrashInv'
<1>1. /\ sealing[k] # None /\ sealing[k] \in CompleteHandler
      /\ UNCHANGED encryption
  BY DEF CompleteStep, Install, RemoveTemp, InstallFail, InstallThenFail, FinishOk, FinishErr,
         Sealing, CrashInv, TypeOK
<1>2. CASE Install(k) \/ RemoveTemp(k) \/ InstallFail(k) \/ InstallThenFail(k)
  <2>1. /\ UNCHANGED <<finalizing, sessions, json, creating>>
        /\ part' \in {part, [part EXCEPT ![k] = None]}
        /\ \E pc \in {"sealed", "ok", "err"} : sealing' = [sealing EXCEPT ![k].pc = pc]
    BY <1>2 DEF Install, RemoveTemp, InstallFail, InstallThenFail, memory, disk
  <2>2. /\ sealing'[k] # None /\ sealing'[k].path = sealing[k].path
        /\ \A j \in Ids \ {k} : sealing'[j] = sealing[j]
    <3>1. PICK pc \in {"sealed", "ok", "err"} : sealing' = [sealing EXCEPT ![k].pc = pc]
      BY <2>1
    <3>2. /\ [sealing[k] EXCEPT !.pc = pc].path = sealing[k].path
          /\ [sealing[k] EXCEPT !.pc = pc] \in CompleteHandler
      BY <1>1 DEF CompleteHandler
    <3> QED
      BY <3>1, <3>2, NoneIsNoValue DEF CrashInv, TypeOK
  <2>3. \A j \in Ids : Fades(j)
    BY <1>1, <2>1, <2>2 DEF Fades, CrashInv, TypeOK
  <2>4. \A j \in Ids : sealing'[j] # None <=> sealing[j] # None
    BY <1>1, <2>2
  <2> QED
    BY <1>1, <2>1, <2>3, <2>4, FadingSteps
<1>3. CASE FinishOk(k) \/ FinishErr(k)
  <2>1. /\ finalizing' = finalizing \ {sealing[k].path}
        /\ sealing'[k] = None /\ \A j \in Ids \ {k} : sealing'[j] = sealing[j]
        /\ part' = part
    BY <1>3 DEF FinishOk, FinishErr, CrashInv, TypeOK
  <2>2. (\A j \in Ids : Recoverable(j)') /\ OwnedUnderEncryption'
    <3>1. CASE \/ FinishOk(k)
               \/ FinishErr(k) /\ UNCHANGED <<sessions, json, creating>>
      <4>1. \A j \in Ids : Fades(j)
        BY <1>1, <2>1, <3>1 DEF FinishOk, Fades, CrashInv, TypeOK
      <4> QED
        BY <1>1, <4>1, FadesKeeps, OwnersKept DEF Fades, CrashInv
    <3>2. CASE FinishErr(k) /\ ~UNCHANGED <<sessions, json, creating>>
      <4> DEFINE s == [sessions[k] EXCEPT !.idle = 0]
      <4>1. sessions[k] # None /\ sessions' = [sessions EXCEPT ![k] = s] /\ Persist(k, s)
        BY <3>2 DEF FinishErr
      <4>2. Advances(k, s) /\ \A j \in Ids \ {k} : Fades(j)
        BY <1>1, <2>1, <4>1, TouchAdvances
      <4> HIDE DEF s
      <4> QED
        BY <1>1, <4>2, FadesKeeps, AdvancesKeeps, OwnersKept DEF Fades, Advances, CrashInv
    <3> QED
      BY <1>3, <3>1, <3>2
  <2>3. OneSealing'
    BY <2>1 DEF CrashInv, OneSealing
  <2>4. NoStaleFinalizing'
    <3>1. \A j \in Ids \ {k} : sealing[j] # None => sealing[j].path # sealing[k].path
      BY <1>1 DEF CrashInv, OneSealing
    <3>2. finalizing' = {sealing'[id].path : id \in {i \in Ids : sealing'[i] # None}}
      BY <1>1, <2>1, <3>1 DEF CrashInv, NoStaleFinalizing
    <3> QED
      BY <3>2 DEF NoStaleFinalizing
  <2> QED
    BY <2>2, <2>3, <2>4 DEF CrashInv
<1> QED
  BY <1>2, <1>3 DEF CompleteStep
\* Time changes nothing but ages.
LEMMA TickSurvivable ==
  ASSUME CrashInv, TypeOK', Tick
  PROVE  CrashInv'
<1>1. /\ sessions' = AllOlder(sessions) /\ json' = AllOlder(json)
      /\ creating' = [id \in Ids |-> IF creating[id] = None THEN None
                                     ELSE [creating[id] EXCEPT !.us = Older(@)]]
      /\ UNCHANGED <<encryption, finalizing, part, sealing>>
  BY DEF Tick
<1>2. ASSUME NEW f \in [Ids -> UploadSession \cup {None}], NEW j \in Ids
      PROVE  /\ AllOlder(f)[j] = None <=> f[j] = None
             /\ f[j] # None => /\ AllOlder(f)[j].path = f[j].path
                               /\ AllOlder(f)[j].size = f[j].size
                               /\ AllOlder(f)[j].owner = f[j].owner
                               /\ AllOlder(f)[j].offset = f[j].offset
  BY AllOlderType, OlderType DEF AllOlder
<1>3. ASSUME NEW j \in Ids
      PROVE  /\ sessions'[j] = None <=> sessions[j] = None
             /\ sessions[j] # None => /\ sessions'[j].path = sessions[j].path
                                      /\ sessions'[j].size = sessions[j].size
                                      /\ sessions'[j].owner = sessions[j].owner
                                      /\ sessions'[j].offset = sessions[j].offset
             /\ json'[j] = None <=> json[j] = None
             /\ json[j] # None => /\ json'[j].path = json[j].path
                                  /\ json'[j].size = json[j].size
                                  /\ json'[j].owner = json[j].owner
                                  /\ json'[j].offset = json[j].offset
  BY <1>1, <1>2 DEF CrashInv, TypeOK
<1>4. ASSUME NEW j \in Ids
      PROVE  /\ creating'[j] = None <=> creating[j] = None
             /\ creating[j] # None => /\ creating'[j].pc = creating[j].pc
                                      /\ creating[j].us # None /\ creating'[j].us # None
                                      /\ creating'[j].us.path = creating[j].us.path
                                      /\ creating'[j].us.size = creating[j].us.size
                                      /\ creating'[j].us.owner = creating[j].us.owner
                                      /\ creating'[j].us.offset = creating[j].us.offset
  <2>1. CASE creating[j] = None
    BY <1>1, <2>1
  <2>2. CASE creating[j] # None
    <3>1. creating[j] \in InitHandler /\ creating[j].us \in UploadSession
      BY <2>2 DEF CrashInv, TypeOK, InitHandler
    <3>2. PICK o : o = Older(creating[j].us)
      OBVIOUS
    <3>3. /\ o \in UploadSession
          /\ o.path = creating[j].us.path /\ o.size = creating[j].us.size
          /\ o.owner = creating[j].us.owner /\ o.offset = creating[j].us.offset
      BY <3>1, <3>2, OlderType
    <3>4. creating'[j] = [creating[j] EXCEPT !.us = o]
      BY <1>1, <2>2, <3>2
    <3>5. /\ [creating[j] EXCEPT !.us = o] \in InitHandler
          /\ [creating[j] EXCEPT !.us = o].us = o
          /\ [creating[j] EXCEPT !.us = o].pc = creating[j].pc
      BY <3>1, <3>3 DEF InitHandler
    <3> QED
      BY <2>2, <3>1, <3>3, <3>4, <3>5, NoneIsNoValue
  <2> QED
    BY <2>1, <2>2
<1>5. ASSUME NEW j \in Ids, Recoverable(j)
      PROVE  Recoverable(j)'
  <2>1. Bounded(j)' /\ Reaches(j)' /\ Claimed(j)'
    BY <1>1, <1>3, <1>5 DEF Recoverable, Bounded, Reaches, Claimed, Live
  <2>2. Uncreated(j)'
    BY <1>1, <1>3, <1>4, <1>5 DEF Recoverable, Uncreated, Live, At
  <2>3. Saved(j)'
    BY <1>3, <1>4, <1>5 DEF Recoverable, Saved, Live
  <2> QED
    BY <2>1, <2>2, <2>3 DEF Recoverable
<1>6. OwnedUnderEncryption'
  BY <1>1, <1>3, OwnersKept
<1>7. OneSealing' /\ NoStaleFinalizing'
  BY <1>1, MarksKept
<1> QED
  BY <1>5, <1>6, <1>7 DEF CrashInv

-----------------------------------------------------------------------------
(* Crashes.                                                                *)

\* What `reload` puts in the map: an upload that was saved, with the bytes of
\* its part file, if that is still there.
LEMMA ReloadedIs ==
  ASSUME NEW s \in UploadSession, NEW f \in PartFile \cup {None}, NEW enc \in BOOLEAN
  PROVE  /\ Reloaded(s, f, enc) \in UploadSession
         /\ Reloaded(s, f, enc).path = s.path /\ Reloaded(s, f, enc).size = s.size
         /\ Reloaded(s, f, enc).offset = OffsetAfter(s, f)
         /\ Reloaded(s, f, enc).owner = OwnerAfter(s, enc)
<1>1. OwnerAfter(s, enc) \in Users \cup {None}
  BY PathsAssumption DEF OwnerAfter, UploadSession
<1>2. OffsetAfter(s, f) \in 0..MaxSize
  BY LimitsAssumption DEF OffsetAfter, UploadSession, PartFile
<1> QED
  BY <1>1, <1>2 DEF Reloaded, UploadSession

\* The progress after a restart is what the part file holds, never less than
\* what was saved of it and never more than the upload declares.
LEMMA ReloadedOffset ==
  ASSUME NEW s \in UploadSession, NEW f \in PartFile \cup {None},
         s.offset <= s.size, f # None => s.offset <= f.len
  PROVE  /\ OffsetAfter(s, f) <= s.size
         /\ s.offset <= OffsetAfter(s, f)
         /\ f # None => OffsetAfter(s, f) <= f.len
<1>1. s.offset \in Nat /\ s.size \in Nat /\ (f # None => f.len \in Nat)
  BY LimitsAssumption DEF UploadSession, PartFile
<1> QED
  BY <1>1 DEF OffsetAfter

\* `reload`, upload by upload.
LEMMA ReloadIs ==
  ASSUME CrashInv, NEW enc \in BOOLEAN, NEW files \in [Ids -> PartFile \cup {None}],
         Reload(files, enc)
  PROVE  /\ encryption' = enc /\ finalizing' = {} /\ dest' = dest
         /\ path_locks' \subseteq Paths
         /\ creating' = [id \in Ids |-> None] /\ sealing' = [id \in Ids |-> None]
         /\ sessions' \in [Ids -> UploadSession \cup {None}]
         /\ json' \in [Ids -> UploadSession \cup {None}]
         /\ part' \in [Ids -> PartFile \cup {None}]
         /\ \A j \in Ids :
               /\ part'[j] \in {files[j], None}
               /\ sessions'[j] = IF json[j] # None /\ ~Invalid(j, enc)
                                 THEN Reloaded(json[j], files[j], enc) ELSE None
               /\ sessions'[j] = None => json'[j] = None
               /\ sessions'[j] # None =>
                     json'[j] = IF enc /\ json[j].owner = None
                                THEN sessions'[j] ELSE json[j]
<1> DEFINE dropped == {id \in Ids : Invalid(id, enc)}
           found   == {id \in Ids : json[id] # None} \ dropped
           adopted == {id \in found : enc /\ json[id].owner = None}
           after   == [id \in Ids |-> IF id \in found
                                      THEN Reloaded(json[id], files[id], enc)
                                      ELSE None]
<1>1. /\ encryption' = enc /\ sessions' = after
      /\ path_locks' = {after[id].path : id \in found}
      /\ finalizing' = {} /\ dest' = dest
      /\ part' = Erase(files, dropped)
      /\ json' = [id \in Ids |-> IF id \in adopted THEN after[id]
                                 ELSE IF id \in dropped THEN None ELSE json[id]]
      /\ creating' = [id \in Ids |-> None] /\ sealing' = [id \in Ids |-> None]
  BY DEF Reload
<1>2. \A id \in found : after[id] \in UploadSession /\ after[id].path \in Paths
  BY ReloadedIs DEF CrashInv, TypeOK, UploadSession
<1>3. after \in [Ids -> UploadSession \cup {None}]
  BY <1>2
<1>4. part' \in [Ids -> PartFile \cup {None}]
  BY <1>1, EraseType
<1>5. json' \in [Ids -> UploadSession \cup {None}]
  BY <1>1, <1>2 DEF CrashInv, TypeOK
<1>6. ASSUME NEW j \in Ids
      PROVE  /\ part'[j] \in {files[j], None}
             /\ sessions'[j] = IF json[j] # None /\ ~Invalid(j, enc)
                               THEN Reloaded(json[j], files[j], enc) ELSE None
             /\ sessions'[j] = None => json'[j] = None
             /\ sessions'[j] # None =>
                   json'[j] = IF enc /\ json[j].owner = None
                              THEN sessions'[j] ELSE json[j]
  BY <1>1, <1>2, NoneIsNoValue DEF Erase
<1>7. path_locks' \subseteq Paths
  BY <1>1, <1>2
<1> QED
  BY <1>1, <1>3, <1>4, <1>5, <1>6, <1>7

\* The part files that a crash leaves, if it falls in the middle of a removal
\* without one of them.
Left(files) ==
    \A j \in Ids : files[j] \in {part[j], None}

\* What a restart finds keeps the invariant.
LEMMA ReloadKeeps ==
  ASSUME CrashInv, NEW enc \in BOOLEAN, NEW files \in [Ids -> PartFile \cup {None}],
         Left(files), Reload(files, enc)
  PROVE  CrashInv'
<1>1. ASSUME NEW j \in Ids, sessions'[j] # None
      PROVE  /\ json[j] # None /\ json[j] \in UploadSession /\ ~Invalid(j, enc)
             /\ sessions'[j] = Reloaded(json[j], files[j], enc)
             /\ sessions'[j].path = json[j].path /\ sessions'[j].size = json[j].size
             /\ sessions'[j].offset <= sessions'[j].size
             /\ json[j].offset <= sessions'[j].offset
             /\ json[j].offset <= json[j].size
             /\ part'[j] # None => sessions'[j].offset <= part'[j].len
             /\ part'[j] # None => json[j].offset <= part'[j].len
             /\ sessions'[j].owner = OwnerAfter(json[j], enc)
  <2>1. json[j] # None /\ json[j] \in UploadSession /\ ~Invalid(j, enc)
        /\ sessions'[j] = Reloaded(json[j], files[j], enc)
        /\ part'[j] \in {files[j], None}
    BY <1>1, ReloadIs DEF CrashInv, TypeOK
  <2>2. /\ json[j].offset <= json[j].size
        /\ files[j] # None => json[j].offset <= files[j].len
    BY <2>1 DEF CrashInv, Recoverable, Bounded, Reaches, Left
  <2>3. /\ sessions'[j].path = json[j].path /\ sessions'[j].size = json[j].size
        /\ sessions'[j].offset = OffsetAfter(json[j], files[j])
        /\ sessions'[j].owner = OwnerAfter(json[j], enc)
    BY <2>1, ReloadedIs
  <2>4. /\ OffsetAfter(json[j], files[j]) <= json[j].size
        /\ json[j].offset <= OffsetAfter(json[j], files[j])
        /\ files[j] # None => OffsetAfter(json[j], files[j]) <= files[j].len
    BY <2>1, <2>2, ReloadedOffset
  <2> QED
    BY <2>1, <2>2, <2>3, <2>4
<1>2. /\ encryption' = enc /\ finalizing' = {}
      /\ \A j \in Ids : creating'[j] = None /\ sealing'[j] = None
  BY ReloadIs
<1>3. ASSUME NEW j \in Ids
      PROVE  /\ sessions'[j] = None => json'[j] = None
             /\ sessions'[j] # None =>
                   /\ json'[j] # None
                   /\ json'[j] \in {json[j], sessions'[j]}
                   /\ json'[j].owner = sessions'[j].owner
  <2>1. /\ sessions'[j] = None => json'[j] = None
        /\ sessions'[j] # None =>
              json'[j] = IF enc /\ json[j].owner = None THEN sessions'[j] ELSE json[j]
    BY ReloadIs
  <2> QED
    BY <1>1, <2>1 DEF OwnerAfter
<1>4. ASSUME NEW j \in Ids
      PROVE  Recoverable(j)'
  <2>1. CASE sessions'[j] = None
    BY <1>2, <1>3, <2>1 DEF Recoverable, Bounded, Uncreated, Reaches, Saved, Claimed, Live, At
  <2>2. CASE sessions'[j] # None
    <3>1. Bounded(j)' /\ Reaches(j)'
      BY <1>1, <1>3, <2>2 DEF Bounded, Reaches, Live
    <3>2. Uncreated(j)' /\ Claimed(j)'
      BY <1>2 DEF Uncreated, Claimed, At
    <3>3. Saved(j)'
      BY <1>1, <1>2, <1>3, <2>2 DEF Saved, Live
    <3> QED
      BY <3>1, <3>2, <3>3 DEF Recoverable
  <2> QED
    BY <2>1, <2>2
<1>5. OwnedUnderEncryption'
  BY <1>1, <1>2 DEF OwnedUnderEncryption, Live, Invalid
<1>6. OneSealing' /\ NoStaleFinalizing'
  BY <1>2 DEF OneSealing, NoStaleFinalizing
<1>7. TypeOK'
  <2>1. sealing' \in [Ids -> CompleteHandler \cup {None}]
        /\ creating' \in [Ids -> InitHandler \cup {None}]
    BY ReloadIs
  <2> QED
    BY <2>1, ReloadIs DEF TypeOK, CrashInv
<1> QED
  BY <1>4, <1>5, <1>6, <1>7 DEF CrashInv
-----------------------------------------------------------------------------
(* The theorems.                                                           *)

LEMMA CrashInit == Init => CrashInv
<1> SUFFICES ASSUME Init PROVE CrashInv
  OBVIOUS
<1>1. TypeOK
  BY TypeInit
<1>2. \A id \in Ids : Recoverable(id)
  BY DEF Init, Recoverable, Bounded, Uncreated, Reaches, Saved, Claimed, Live, At
<1>3. OwnedUnderEncryption /\ OneSealing /\ NoStaleFinalizing
  BY DEF Init, OwnedUnderEncryption, OneSealing, NoStaleFinalizing, Live
<1> QED
  BY <1>1, <1>2, <1>3 DEF CrashInv

\* A restart reloads what the crash has left.
LEMMA RestartReloads ==
  ASSUME TypeOK, Restarted
  PROVE  \E enc \in BOOLEAN, files \in [Ids -> PartFile \cup {None}] :
             Left(files) /\ Reload(files, enc)
<1>1. PICK enc \in BOOLEAN : Restart(enc) \/ RestartInRemoval(enc)
  BY DEF Restarted
<1>2. CASE Restart(enc)
  BY <1>2 DEF Restart, Left, TypeOK
<1>3. CASE RestartInRemoval(enc)
  <2>1. PICK id \in Ids : Reload([part EXCEPT ![id] = None], enc)
    BY <1>3 DEF RestartInRemoval, Live
  <2>2. /\ [part EXCEPT ![id] = None] \in [Ids -> PartFile \cup {None}]
        /\ Left([part EXCEPT ![id] = None])
    BY DEF TypeOK, Left
  <2> QED
    BY <2>1, <2>2
<1> QED
  BY <1>1, <1>2, <1>3

LEMMA CrashStep == CrashInv /\ [CrashNext]_vars => CrashInv'
<1> SUFFICES ASSUME CrashInv, [CrashNext]_vars PROVE CrashInv'
  OBVIOUS
<1>1. CASE Restarted
  BY <1>1, RestartReloads, ReloadKeeps DEF CrashInv
<1>2. CASE UNCHANGED vars
  <2>1. \A j \in Ids : Fades(j)
    BY <1>2 DEF vars, memory, disk, handlers, Fades
  <2>2. TypeOK'
    BY <1>2, TypeNext DEF CrashInv
  <2> QED
    BY <1>2, <2>1, <2>2, FadingSteps DEF vars, memory, handlers
<1>3. CASE Next
  <2>1. TypeOK'
    BY <1>3, TypeNext DEF CrashInv
  <2>2. CASE InitRequest
    <3>1. PICK c \in Callers, raw \in RawPaths, n \in DeclaredSizes :
              \/ InitResume(c, Canonical[raw], n)
              \/ InitReserve(c, Canonical[raw], n)
              \/ InitRefused(c, Canonical[raw], n)
      BY <2>2 DEF InitRequest
    <3>2. CASE InitResume(c, Canonical[raw], n)
      BY <2>1, <3>2, ResumeSurvivable
    <3>3. CASE InitReserve(c, Canonical[raw], n)
      BY <2>1, <3>3, CanonicalType, ReserveSurvivable
    <3>4. CASE InitRefused(c, Canonical[raw], n)
      BY <2>1, <3>4, DropSurvivable DEF InitRefused, handlers
    <3> QED
      BY <3>1, <3>2, <3>3, <3>4
  <2>3. CASE WriteRequest
    BY <2>1, <2>3, WriteSurvivable DEF WriteRequest
  <2>4. CASE CompleteRequest
    BY <2>1, <2>4, ClaimSurvivable DEF CompleteRequest
  <2>5. CASE \E id \in Ids : InitStep(id) \/ CompleteStep(id)
    BY <2>1, <2>5, InitStepSurvivable, CompleteStepSurvivable
  <2>6. CASE Gc
    BY <2>1, <2>6, DropSurvivable DEF Gc, handlers
  <2>7. CASE Tick
    BY <2>1, <2>7, TickSurvivable
  <2> QED
    BY <1>3, <2>2, <2>3, <2>4, <2>5, <2>6, <2>7 DEF Next
<1> QED
  BY <1>1, <1>2, <1>3 DEF CrashNext, Restarted

\* The invariant across crashes: what is in memory or saved of an upload never
\* runs ahead of what its part file holds, and is saved once `init` has
\* replied, so that `reload` finds it.
THEOREM CrashInductive == CrashSpec => []CrashInv
  BY CrashInit, CrashStep, PTL DEF CrashSpec

\* However often the server restarts with encryption turned on or off, no
\* upload is without an owner while it is on (reload adopts it or drops it).
THEOREM OwnedAfterRestart == CrashSpec => []OwnedUnderEncryption
<1>1. CrashInv => OwnedUnderEncryption
  BY DEF CrashInv
<1> QED
  BY <1>1, CrashInductive, PTL

\* A crash in the middle of `complete` leaves no path marked as finalizing, and
\* otherwise the marked paths are those some `complete` will unmark.
THEOREM MarksEnd == CrashSpec => []NoStaleFinalizing
<1>1. CrashInv => NoStaleFinalizing
  BY DEF CrashInv
<1> QED
  BY <1>1, CrashInductive, PTL

\* Uploads survive restarts (reload): the session is rebuilt for the same path,
\* size and owner, with at least the bytes that were saved of it.
THEOREM UploadsSurviveRestarts == CrashSpec => UploadsSurvive
<1>1. CrashInv => UploadSurvives
  <2> SUFFICES ASSUME CrashInv, Restarted, NEW j \in Live, creating[j] = None, MayStay(j)
               PROVE  /\ sessions'[j] # None
                      /\ sessions'[j].path = sessions[j].path
                      /\ sessions'[j].size = sessions[j].size
                      /\ sessions'[j].offset >= json[j].offset
                      /\ sessions[j].owner # None => sessions'[j].owner = sessions[j].owner
    BY DEF UploadSurvives
  <2>1. PICK enc \in BOOLEAN, files \in [Ids -> PartFile \cup {None}] :
            Left(files) /\ Reload(files, enc)
    BY RestartReloads DEF CrashInv
  <2>2. /\ j \in Ids /\ json[j] # None /\ json[j] \in UploadSession
        /\ json[j].path = sessions[j].path /\ json[j].size = sessions[j].size
        /\ json[j].owner = sessions[j].owner
        /\ json[j].offset <= json[j].size
        /\ files[j] # None => json[j].offset <= files[j].len
    BY <2>1 DEF CrashInv, Recoverable, Saved, Bounded, Reaches, Live, TypeOK, Left
  <2>3. encryption' = enc
    BY <2>1, ReloadIs
  <2>4. ~Invalid(j, enc)
    BY <2>2, <2>3 DEF MayStay, Invalid, OwnerAfter
  <2>5. sessions'[j] = Reloaded(json[j], files[j], enc)
    BY <2>1, <2>2, <2>4, ReloadIs
  <2>6. /\ Reloaded(json[j], files[j], enc) \in UploadSession
        /\ sessions'[j].path = json[j].path /\ sessions'[j].size = json[j].size
        /\ sessions'[j].offset = OffsetAfter(json[j], files[j])
        /\ sessions'[j].owner = OwnerAfter(json[j], enc)
    <3>1. \A f \in PartFile \cup {None} : Reloaded(json[j], f, enc) \in UploadSession
                 /\ Reloaded(json[j], f, enc).path = json[j].path
                 /\ Reloaded(json[j], f, enc).size = json[j].size
                 /\ Reloaded(json[j], f, enc).offset = OffsetAfter(json[j], f)
                 /\ Reloaded(json[j], f, enc).owner = OwnerAfter(json[j], enc)
      BY <2>2, ReloadedIs
    <3>2. files[j] \in PartFile \cup {None}
      BY <2>2
    <3> QED
      BY <2>5, <3>1, <3>2
  <2>7. json[j].offset <= OffsetAfter(json[j], files[j])
        /\ json[j].offset \in Nat /\ OffsetAfter(json[j], files[j]) \in Nat
    BY <2>2, <2>5, <2>6, ReloadedOffset, LimitsAssumption DEF UploadSession
  <2>8. sessions'[j].offset >= json[j].offset
    BY <2>6, <2>7
  <2> QED
    BY <2>2, <2>5, <2>6, <2>8, NoneIsNoValue DEF OwnerAfter
<1> QED
  BY <1>1, CrashInductive, PTL DEF UploadsSurvive
=============================================================================
