--------------------------- MODULE PutClientProofs ---------------------------
(***************************************************************************)
(* Proofs about module PutClient, for any number of jobs, users, tokens    *)
(* and upload ids, any length and any size of a chunk.                     *)
(***************************************************************************)
EXTENDS PutClient, TLAPS

-----------------------------------------------------------------------------
(* Bytes of a file.                                                        *)

LEMMA ContentsAre ==
  ASSUME NEW f
  PROVE  /\ DOMAIN Contents(f) = 1..Length
         /\ \A i \in 1..Length : Contents(f)[i] = [of |-> f, at |-> i - 1]
  BY DEF Contents

LEMMA ContentsType ==
  ASSUME NEW u \in Users
  PROVE  Contents(File[u]) \in Seq(Byte) /\ Len(Contents(File[u])) = Length
<1>1. \A i \in 1..Length : [of |-> File[u], at |-> i - 1] \in Byte
  BY PutAssumption DEF Byte
<1>2. Contents(File[u]) \in [1..Length -> Byte]
  BY <1>1 DEF Contents
<1>3. Length \in Nat
  BY PutAssumption
<1> QED
  BY <1>2, <1>3

\* What has every byte is the file.
LEMMA AllBytes ==
  ASSUME NEW f, NEW s \in Seq(Byte), BytesOf(f, s, 0), Len(s) = Length
  PROVE  s = Contents(f)
<1>1. s = [i \in 1..Length |-> s[i]]
  BY PutAssumption
<1>2. \A i \in 1..Length : s[i] = [of |-> f, at |-> i - 1]
  BY PutAssumption DEF BytesOf
<1> QED
  BY <1>1, <1>2 DEF Contents

\* The bytes up to an offset, and those from there on.
LEMMA Appended ==
  ASSUME NEW f, NEW s \in Seq(Byte), NEW d \in Seq(Byte),
         BytesOf(f, s, 0), BytesOf(f, d, Len(s))
  PROVE  s \o d \in Seq(Byte) /\ Len(s \o d) = Len(s) + Len(d) /\ BytesOf(f, s \o d, 0)
<1>1. s \o d \in Seq(Byte) /\ Len(s \o d) = Len(s) + Len(d)
  OBVIOUS
<1>2. ASSUME NEW i \in 1..Len(s \o d)
      PROVE  (s \o d)[i] = [of |-> f, at |-> i - 1]
  <2>1. CASE i <= Len(s)
    BY <1>1, <2>1 DEF BytesOf
  <2>2. CASE i > Len(s)
    <3>1. i - Len(s) \in 1..Len(d) /\ (s \o d)[i] = d[i - Len(s)]
      BY <1>1, <2>2
    <3>2. d[i - Len(s)] = [of |-> f, at |-> Len(s) + (i - Len(s)) - 1]
      BY <3>1 DEF BytesOf
    <3>3. Len(s) + (i - Len(s)) - 1 = i - 1
      OBVIOUS
    <3> QED
      BY <3>1, <3>2, <3>3
  <2> QED
    BY <2>1, <2>2
<1> QED
  BY <1>1, <1>2 DEF BytesOf

\* What is cut out at an offset lies there.
LEMMA Cut ==
  ASSUME NEW u \in Users, NEW from \in 0..Length, NEW n \in Nat, from + n <= Length
  PROVE  LET d == SubSeq(Contents(File[u]), from + 1, from + n)
         IN  d \in Seq(Byte) /\ BytesOf(File[u], d, from)
<1> DEFINE c == Contents(File[u])
           d == SubSeq(c, from + 1, from + n)
<1>1. c \in Seq(Byte) /\ Len(c) = Length /\ Length \in Nat
  BY ContentsType, PutAssumption
<1>2. \A i \in 1..Length : c[i] = [of |-> File[u], at |-> i - 1]
  BY ContentsAre
<1> HIDE DEF c
<1>3. /\ d \in Seq(Byte) /\ Len(d) = n
      /\ \A i \in 1..n : d[i] = c[from + i]
  BY <1>1
<1>4. \A i \in 1..n : from + i \in 1..Length /\ (from + i) - 1 = from + i - 1
  BY <1>1
<1>5. \A i \in 1..n : d[i] = [of |-> File[u], at |-> from + i - 1]
  BY <1>2, <1>3, <1>4
<1> QED
  BY <1>3, <1>5 DEF BytesOf, c

-----------------------------------------------------------------------------
(* Replies.                                                                *)

LEMMA NoneIsNoValue ==
  None \notin JobState /\ None \notin Upload /\ None \notin LoginSession /\ None \notin Users
  BY PutAssumption DEF Users

LEMMA ReplyType ==
  ASSUME TypeOK, NEW r \in net, NEW s \in JobState \cup {None}, ~r.late, Reply(r, s)
  PROVE  /\ job' \in [Jobs -> JobState \cup {None}]
         /\ job'[r.job] = s
         /\ \A j \in Jobs : j # r.job => job'[j] = job[j]
<1>1. r.job \in Jobs
  BY DEF TypeOK, Request
<1> QED
  BY <1>1 DEF Reply, TypeOK

\* The job that waits for the reply to a request.
LEMMA Waits ==
  ASSUME IndInv, NEW r \in net, ~r.late
  PROVE  /\ r.job \in Jobs /\ job[r.job] \in JobState /\ job[r.job] # None
         /\ job[r.job].pc = "wait"
         /\ job[r.job].offset = r.offset /\ job[r.job].read = r.offset
<1>1. r.job \in Jobs
  BY DEF IndInv, TypeOK, Request
<1> QED
  BY <1>1 DEF IndInv, OneAnswer, InStep, At, TypeOK

\* What a reply may make of the job that it goes to.
Good(r, s) ==
    s # None => /\ s \in JobState
                /\ s.read = s.offset
                /\ s.token \in {None, job[r.job].token}

\* An answered request: the job goes on from the reply, and what remains under
\* way is not its own.
LEMMA AnswerKeeps ==
  ASSUME IndInv, NEW r \in net, Answered(r),
         NEW s, Reply(r, s), ~r.late => Good(r, s),
         UNCHANGED <<user, owner, live, cache>>,
         upload' \in Upload \cup {None}, UploadBegun',
         file' \in Seq(Byte) \cup {None}, FileWhole'
  PROVE  IndInv'
<1> USE DEF IndInv
<1>1. net' \subseteq net /\ r \notin net' /\ net' = net \ {r}
  BY DEF Answered
<1>2. r.late => job' = job
  BY DEF Reply
<1>3. ~r.late => /\ job' \in [Jobs -> JobState \cup {None}]
                 /\ job'[r.job] = s /\ r.job \in Jobs
                 /\ \A j \in Jobs : j # r.job => job'[j] = job[j]
  BY ReplyType, Waits DEF Good
<1>4. TypeOK'
  <2>1. job' \in [Jobs -> JobState \cup {None}]
    BY <1>2, <1>3 DEF TypeOK
  <2> QED
    BY <1>1, <2>1 DEF TypeOK
<1>5. \A j \in Jobs : job'[j] # None =>
         /\ job'[j].read = job'[j].offset
         /\ job'[j].token # None => job[j] # None /\ job'[j].token = job[j].token
  <2> SUFFICES ASSUME NEW j \in Jobs, job'[j] # None
               PROVE  /\ job'[j].read = job'[j].offset
                      /\ job'[j].token # None => job[j] # None /\ job'[j].token = job[j].token
    OBVIOUS
  <2>1. CASE ~r.late /\ j = r.job
    BY <1>3, <2>1, Waits DEF Good
  <2>2. CASE r.late \/ j # r.job
    BY <1>2, <1>3, <2>2 DEF InStep
  <2> QED
    BY <2>1, <2>2
<1>6. SessionsKnown'
  BY <1>1, <1>5 DEF SessionsKnown
<1>7. ActsAsConfigured'
  BY <1>1, <1>5 DEF ActsAsConfigured
<1>8. OneAnswer'
  <2> SUFFICES ASSUME NEW q \in net', ~q.late
               PROVE  /\ At(q.job, "wait")' /\ job'[q.job].offset = q.offset
                      /\ \A p \in net' : p.job = q.job /\ ~p.late => p = q
    BY DEF OneAnswer
  <2>1. q \in net /\ q # r
    BY <1>1
  <2>2. r.late \/ q.job # r.job
    BY <2>1 DEF OneAnswer
  <2>3. q.job \in Jobs
    BY <2>1 DEF TypeOK, Request
  <2>4. job'[q.job] = job[q.job]
    BY <1>2, <1>3, <2>2, <2>3
  <2> QED
    BY <1>1, <2>1, <2>4 DEF OneAnswer, At
<1>9. InStep'
  BY <1>5 DEF InStep
<1>10. ChunksCut'
  BY <1>1 DEF ChunksCut
<1> QED
  BY <1>4, <1>6, <1>7, <1>8, <1>9, <1>10
-----------------------------------------------------------------------------
(* The server's steps.                                                     *)

LEMMA UnauthorizedKeeps ==
  ASSUME IndInv, NEW r \in net, Unauthorized(r)
  PROVE  IndInv'
<1> DEFINE s == IF r.job \in Web \/ job[r.job].retried THEN None
                ELSE [job[r.job] EXCEPT !.pc = r.does, !.token = None, !.retried = TRUE]
<1>1. Answered(r) /\ Reply(r, s) /\ UNCHANGED <<user, upload, file, owner, cache, live>>
  BY DEF Unauthorized
<1>2. ~r.late => Good(r, s)
  <2>1. r.does \in Requests
    BY DEF IndInv, TypeOK, Request
  <2> QED
    BY <2>1, Waits DEF Good, JobState
<1>3. /\ upload' \in Upload \cup {None} /\ UploadBegun'
      /\ file' \in Seq(Byte) \cup {None} /\ FileWhole'
  BY <1>1 DEF IndInv, TypeOK, UploadBegun, FileWhole, BytesOf, Contents
<1> QED
  BY <1>1, <1>2, <1>3, AnswerKeeps

\* The offset that a reply tells is taken up.
LEMMA ResumedGood ==
  ASSUME IndInv, NEW r \in net, ~r.late, NEW id \in Ids, NEW n \in 0..Length
  PROVE  Good(r, Resumed(r, id, n))
<1>1. job[r.job] \in JobState
  BY Waits
<1> DEFINE pc == IF n < Length THEN "put" ELSE "complete"
<1>2. pc \in Requests
  BY DEF Requests
<1>3. Resumed(r, id, n) = [job[r.job] EXCEPT !.pc = pc, !.retried = FALSE,
                                             !.id = id, !.offset = n, !.read = n]
  BY DEF Resumed
<1> HIDE DEF pc
<1> QED
  BY <1>1, <1>2, <1>3 DEF Good, JobState

\* The users of requests are users.
LEMMA Asker ==
  ASSUME IndInv, NEW r \in net
  PROVE  /\ r.job \in Jobs /\ r.token \in DOMAIN owner
         /\ owner[r.token] = user[r.job] /\ owner[r.token] \in Users
         /\ user[r.job] \in Users
<1>1. r.job \in Jobs /\ r.token \in DOMAIN owner /\ owner[r.token] = user[r.job]
  BY DEF IndInv, TypeOK, Request, SessionsKnown, ActsAsConfigured
<1>2. owner[r.token] \in Users
  BY <1>1 DEF IndInv, TypeOK
<1> QED
  BY <1>1, <1>2

LEMMA HandleInitKeeps ==
  ASSUME IndInv, NEW r \in net, HandleInit(r)
  PROVE  IndInv'
<1>0. /\ Answered(r) /\ UNCHANGED <<user, file, owner, live, cache>>
      /\ file' \in Seq(Byte) \cup {None} /\ FileWhole'
  BY DEF HandleInit, IndInv, TypeOK, FileWhole, Contents
<1>1. ASSUME UNCHANGED upload
      PROVE  upload' \in Upload \cup {None} /\ UploadBegun'
  BY <1>0, <1>1 DEF IndInv, TypeOK, UploadBegun, BytesOf
<1>2. CASE InitResume(r)
  <2>1. upload \in Upload /\ upload # None
    BY <1>2 DEF InitResume, Mine, IndInv, TypeOK
  <2>2. upload.id \in Ids /\ Len(upload.got) \in 0..Length
    BY <2>1, PutAssumption DEF IndInv, UploadBegun, BytesOf, Upload
  <2>3. /\ Reply(r, Resumed(r, upload.id, Len(upload.got))) /\ UNCHANGED upload
    BY <1>2 DEF InitResume
  <2>4. ~r.late => Good(r, Resumed(r, upload.id, Len(upload.got)))
    BY <2>2, ResumedGood
  <2> QED
    BY <1>0, <1>1, <2>3, <2>4, AnswerKeeps
<1>3. CASE InitStart(r)
  <2>1. PICK id \in Ids : /\ upload' = [id |-> id, owner |-> owner[r.token], got |-> <<>>]
                          /\ Reply(r, Resumed(r, id, 0))
    <3>1. (CHOOSE i \in Fresh : TRUE) \in Ids
      BY <1>3 DEF InitStart, Fresh
    <3> QED
      BY <1>3, <3>1 DEF InitStart
  <2>2. upload' \in Upload /\ upload'.got = <<>> /\ upload'.owner = user[r.job]
    BY <2>1, Asker DEF Upload
  <2>3. UploadBegun'
    <3>1. user[r.job] = user'[r.job] /\ r.job \in Jobs
      BY <1>0, Asker
    <3> QED
      BY <2>2, <3>1, PutAssumption DEF UploadBegun, BytesOf
  <2>4. ~r.late => Good(r, Resumed(r, id, 0))
    BY ResumedGood, PutAssumption
  <2> QED
    BY <1>0, <2>1, <2>2, <2>3, <2>4, AnswerKeeps
<1>4. CASE InitRefuse(r)
  BY <1>0, <1>1, <1>4, AnswerKeeps DEF InitRefuse, Error, Good
<1> QED
  BY <1>2, <1>3, <1>4 DEF HandleInit

LEMMA HandlePutKeeps ==
  ASSUME IndInv, NEW r \in net, HandlePut(r)
  PROVE  IndInv'
<1>0. /\ Answered(r) /\ UNCHANGED <<user, file, owner, live, cache>>
      /\ file' \in Seq(Byte) \cup {None} /\ FileWhole'
  BY DEF HandlePut, IndInv, TypeOK, FileWhole, Contents
<1>1. CASE Fits(r)
  <2> DEFINE n == Len(upload.got) + Len(r.data)
             pc == IF n < Length THEN "put" ELSE "complete"
             s == [job[r.job] EXCEPT !.pc = pc, !.retried = FALSE, !.offset = n,
                                     !.read = @ + Len(r.data)]
  <2>1. /\ upload' = [upload EXCEPT !.got = @ \o r.data]
        /\ Reply(r, s)
    BY <1>1 DEF HandlePut
  <2>2. /\ upload \in Upload /\ upload.got \in Seq(Byte) /\ r.data \in Seq(Byte)
        /\ upload.owner = user[r.job] /\ upload.owner \in Users
        /\ r.offset = Len(upload.got)
        /\ BytesOf(File[upload.owner], upload.got, 0)
        /\ BytesOf(File[upload.owner], r.data, Len(upload.got))
    <3>1. upload # None /\ upload.owner = owner[r.token] /\ r.offset = Len(upload.got)
      BY <1>1 DEF Fits, Mine
    <3>2. upload \in Upload /\ r.data \in Seq(Byte)
      BY <3>1 DEF IndInv, TypeOK, Request
    <3>3. r.does = "put"
      BY DEF HandlePut
    <3> QED
      BY <3>1, <3>2, <3>3, Asker DEF IndInv, UploadBegun, ChunksCut, Upload
  <2>3. /\ upload.got \o r.data \in Seq(Byte)
        /\ Len(upload.got \o r.data) = n
        /\ BytesOf(File[upload.owner], upload.got \o r.data, 0)
    BY <2>2, Appended
  <2>4. n \in 0..Length
    <3>1. PICK c \in Seq(Byte) : c = upload.got \o r.data
      BY <2>3
    <3>2. 0 + Len(c) <= Length
      BY <2>3, <3>1 DEF BytesOf
    <3>3. Len(c) \in 0..Length
      BY <3>2, PutAssumption
    <3>4. Len(c) = n
      BY <2>3, <3>1
    <3> HIDE DEF n
    <3> QED
      BY <3>3, <3>4
  <2>5. /\ upload' \in Upload /\ upload'.owner = upload.owner
        /\ upload'.got = upload.got \o r.data
    BY <2>1, <2>2, <2>3 DEF Upload
  <2>6. UploadBegun'
    BY <1>0, <2>2, <2>3, <2>5, Asker DEF UploadBegun, BytesOf
  <2>7. ~r.late => Good(r, s)
    <3>1. pc \in Requests
      BY DEF Requests
    <3>2. SUFFICES ASSUME ~r.late
                   PROVE  Good(r, s)
      OBVIOUS
    <3>3. job[r.job] \in JobState /\ job[r.job].read = r.offset
      BY <3>2, Waits
    <3>4. job[r.job].read + Len(r.data) = n
      BY <2>2, <3>3
    <3>5. s = [job[r.job] EXCEPT !.pc = pc, !.retried = FALSE, !.offset = n, !.read = n]
      BY <3>4
    <3> HIDE DEF pc, n, s
    <3> QED
      BY <2>4, <3>1, <3>3, <3>5 DEF Good, JobState
  <2> HIDE DEF s
  <2> QED
    BY <1>0, <2>1, <2>5, <2>6, <2>7, AnswerKeeps
<1>2. CASE ~Fits(r)
  <2>1. Reply(r, None) /\ UNCHANGED upload
    BY <1>2 DEF HandlePut, Error
  <2>2. upload' \in Upload \cup {None} /\ UploadBegun'
    BY <1>0, <2>1 DEF IndInv, TypeOK, UploadBegun, BytesOf
  <2> QED
    BY <1>0, <2>1, <2>2, AnswerKeeps DEF Good
<1> QED
  BY <1>1, <1>2

\* What is published is the whole file of the user who asks for it.
LEMMA Published ==
  ASSUME IndInv, NEW r \in net, MayPublish(r)
  PROVE  /\ upload.got \in Seq(Byte)
         /\ upload.got = Contents(File[user[r.job]])
<1>1. /\ upload # None /\ upload.owner = owner[r.token] /\ Len(upload.got) = Length
  BY DEF MayPublish, Mine
<1>2. upload.got \in Seq(Byte) /\ BytesOf(File[upload.owner], upload.got, 0)
  BY <1>1 DEF IndInv, TypeOK, Upload, UploadBegun
<1> QED
  BY <1>1, <1>2, AllBytes, Asker

LEMMA HandleCompleteKeeps ==
  ASSUME IndInv, NEW r \in net, HandleComplete(r)
  PROVE  IndInv'
<1>0. Answered(r) /\ UNCHANGED <<user, owner, live, cache>>
  BY DEF HandleComplete
<1>1. CASE MayPublish(r)
  <2>1. file' = upload.got /\ upload' = None /\ Reply(r, Finished)
    BY <1>1 DEF HandleComplete
  <2>2. file' \in Seq(Byte) /\ file' = Contents(File[user[r.job]])
    BY <1>1, <2>1, Published
  <2>3. FileWhole'
    BY <1>0, <2>2, Asker DEF FileWhole, Contents
  <2>4. UploadBegun'
    BY <2>1 DEF UploadBegun
  <2>5. Good(r, Finished)
    BY PutAssumption DEF Good, Finished, JobState
  <2> QED
    BY <1>0, <2>1, <2>2, <2>3, <2>4, <2>5, AnswerKeeps
<1>2. CASE ~MayPublish(r)
  <2>1. Reply(r, None) /\ UNCHANGED <<file, upload>>
    BY <1>2 DEF HandleComplete, Error
  <2>2. /\ upload' \in Upload \cup {None} /\ UploadBegun'
        /\ file' \in Seq(Byte) \cup {None} /\ FileWhole'
    BY <1>0, <2>1 DEF IndInv, TypeOK, UploadBegun, FileWhole, BytesOf, Contents
  <2> QED
    BY <1>0, <2>1, <2>2, AnswerKeeps DEF Good
<1> QED
  BY <1>1, <1>2
-----------------------------------------------------------------------------
(* The clients' steps, and those of the sessions.                          *)

\* What a request asks, when it is marked in one way or another.
LEMMA Marked ==
  ASSUME NEW r \in Request
  PROVE  \A q \in {[r EXCEPT !.late = TRUE], [r EXCEPT !.authorized = TRUE]} :
            /\ q \in Request
            /\ q.job = r.job /\ q.does = r.does /\ q.token = r.token
            /\ q.offset = r.offset /\ q.data = r.data
            /\ [r EXCEPT !.late = TRUE].late
            /\ [r EXCEPT !.authorized = TRUE].late = r.late
  BY DEF Request

LEMMA AuthorizeKeeps ==
  ASSUME IndInv, NEW r \in net, Authorize(r)
  PROVE  IndInv'
<1> USE DEF IndInv
<1> DEFINE a == [r EXCEPT !.authorized = TRUE]
<1>1. /\ net' = (net \ {r}) \cup {a}
      /\ UNCHANGED <<user, upload, file, owner, live, cache, job>>
  BY DEF Authorize
<1>2. /\ r \in Request /\ a \in Request
      /\ a.job = r.job /\ a.does = r.does /\ a.token = r.token
      /\ a.offset = r.offset /\ a.data = r.data /\ a.late = r.late
  BY Marked DEF TypeOK
<1> HIDE DEF a
<1>3. TypeOK'
  BY <1>1, <1>2 DEF TypeOK
<1>4. SessionsKnown'
  BY <1>1, <1>2 DEF SessionsKnown
<1>5. ActsAsConfigured'
  BY <1>1, <1>2 DEF ActsAsConfigured
<1>6. OneAnswer'
  <2> SUFFICES ASSUME NEW q \in net', ~q.late
               PROVE  /\ At(q.job, "wait")' /\ job'[q.job].offset = q.offset
                      /\ \A p \in net' : p.job = q.job /\ ~p.late => p = q
    BY DEF OneAnswer
  <2>1. CASE q = a
    BY <1>1, <1>2, <2>1 DEF OneAnswer, At
  <2>2. CASE q # a
    BY <1>1, <1>2, <2>2 DEF OneAnswer, At
  <2> QED
    BY <2>1, <2>2
<1>7. ChunksCut'
  BY <1>1, <1>2 DEF ChunksCut, BytesOf
<1>8. InStep' /\ UploadBegun' /\ FileWhole'
  BY <1>1 DEF InStep, UploadBegun, FileWhole, BytesOf, Contents
<1> QED
  BY <1>3, <1>4, <1>5, <1>6, <1>7, <1>8

LEMMA GiveUpKeeps ==
  ASSUME IndInv, NEW j \in Jobs, GiveUp(j)
  PROVE  IndInv'
<1> USE DEF IndInv
<1>1. /\ job' = [job EXCEPT ![j] = None]
      /\ net' = {IF r.job = j THEN [r EXCEPT !.late = TRUE] ELSE r : r \in net}
      /\ UNCHANGED <<user, upload, file, owner, live, cache>>
  BY DEF GiveUp
<1>2. ASSUME NEW q \in net'
      PROVE  \E r \in net :
                /\ q \in Request
                /\ q.job = r.job /\ q.does = r.does /\ q.token = r.token
                /\ q.offset = r.offset /\ q.data = r.data
                /\ ~q.late => q = r /\ r.job # j
  <2>1. PICK r \in net : q = IF r.job = j THEN [r EXCEPT !.late = TRUE] ELSE r
    BY <1>1, <1>2
  <2>2. r \in Request
    BY DEF TypeOK
  <2> QED
    BY <2>1, <2>2, Marked
<1>3. /\ job' \in [Jobs -> JobState \cup {None}] /\ job'[j] = None
      /\ \A k \in Jobs : k # j => job'[k] = job[k]
  BY <1>1 DEF TypeOK
<1>4. TypeOK'
  BY <1>1, <1>2, <1>3 DEF TypeOK
<1>5. SessionsKnown'
  BY <1>1, <1>2, <1>3 DEF SessionsKnown
<1>6. ActsAsConfigured'
  BY <1>1, <1>2, <1>3 DEF ActsAsConfigured
<1>7. OneAnswer'
  <2> SUFFICES ASSUME NEW q \in net', ~q.late
               PROVE  /\ At(q.job, "wait")' /\ job'[q.job].offset = q.offset
                      /\ \A p \in net' : p.job = q.job /\ ~p.late => p = q
    BY DEF OneAnswer
  <2>1. q \in net /\ q.job # j /\ q.job \in Jobs
    BY <1>2 DEF TypeOK, Request
  <2>2. \A p \in net' : ~p.late => p \in net
    BY <1>2
  <2> QED
    BY <1>3, <2>1, <2>2 DEF OneAnswer, At
<1>8. ChunksCut'
  BY <1>1, <1>2 DEF ChunksCut, BytesOf
<1>9. InStep' /\ UploadBegun' /\ FileWhole'
  BY <1>1, <1>3 DEF InStep, UploadBegun, FileWhole, BytesOf, Contents
<1> QED
  BY <1>4, <1>5, <1>6, <1>7, <1>8, <1>9

\* A job that is not waiting moves on by itself, with a session of its user.
LEMMA JobKeeps ==
  ASSUME IndInv, NEW j \in Jobs, NEW s \in JobState,
         ~At(j, "wait"), job' = [job EXCEPT ![j] = s],
         s.read = s.offset,
         s.token # None => s.token \in DOMAIN owner' /\ owner'[s.token] = user[j],
         UNCHANGED <<user, upload, file, net>>,
         owner' \in Seq(Users), Len(owner') <= MaxTokens, live' \subseteq DOMAIN owner',
         \A t \in DOMAIN owner : t \in DOMAIN owner' /\ owner'[t] = owner[t],
         cache' \in LoginSession \cup {None},
         cache' # None => cache'.token \in DOMAIN owner' /\ owner'[cache'.token] = cache'.user
  PROVE  IndInv'
<1> USE DEF IndInv
<1>1. /\ job' \in [Jobs -> JobState \cup {None}] /\ job'[j] = s
      /\ \A k \in Jobs : k # j => job'[k] = job[k]
  BY DEF TypeOK
<1>2. TypeOK'
  BY <1>1 DEF TypeOK
<1>3. SessionsKnown'
  BY <1>1 DEF SessionsKnown
<1>4. ActsAsConfigured'
  BY <1>1 DEF ActsAsConfigured, SessionsKnown
<1>5. OneAnswer'
  <2> SUFFICES ASSUME NEW q \in net, ~q.late
               PROVE  /\ At(q.job, "wait")' /\ job'[q.job].offset = q.offset
                      /\ \A p \in net : p.job = q.job /\ ~p.late => p = q
    BY DEF OneAnswer
  <2>1. At(q.job, "wait") /\ q.job \in Jobs
    BY DEF OneAnswer, TypeOK, Request
  <2>2. q.job # j
    BY <2>1
  <2> QED
    BY <1>1, <2>1, <2>2 DEF OneAnswer, At
<1>6. InStep' /\ UploadBegun' /\ ChunksCut' /\ FileWhole'
  BY <1>1 DEF InStep, UploadBegun, ChunksCut, FileWhole, BytesOf, Contents
<1> QED
  BY <1>2, <1>3, <1>4, <1>5, <1>6

LEMMA OpenKeeps ==
  ASSUME IndInv, NEW j \in Jobs, Open(j)
  PROVE  IndInv'
<1> DEFINE s == [pc |-> "init", token |-> Cached(j), retried |-> FALSE,
                 id |-> None, offset |-> 0, read |-> 0]
<1>1. /\ ~At(j, "wait") /\ job' = [job EXCEPT ![j] = s]
      /\ UNCHANGED <<user, upload, file, owner, live, cache, net>>
  BY DEF Open, At
<1>2. Cached(j) # None => /\ cache # None /\ cache \in LoginSession
                          /\ cache.user = user[j] /\ Cached(j) = cache.token
  BY DEF Cached, IndInv, TypeOK
<1>3. Cached(j) # None => /\ Cached(j) \in Tokens
                          /\ Cached(j) \in DOMAIN owner /\ owner[Cached(j)] = user[j]
  BY <1>2 DEF IndInv, SessionsKnown, LoginSession
<1>4. s \in JobState /\ s.read = s.offset /\ s.token = Cached(j)
  BY <1>3, PutAssumption DEF JobState, Requests
<1> HIDE DEF s
<1>5. /\ owner' \in Seq(Users) /\ Len(owner') <= MaxTokens /\ live' \subseteq DOMAIN owner'
      /\ \A t \in DOMAIN owner : t \in DOMAIN owner' /\ owner'[t] = owner[t]
      /\ cache' \in LoginSession \cup {None}
      /\ cache' # None => cache'.token \in DOMAIN owner' /\ owner'[cache'.token] = cache'.user
  BY <1>1 DEF IndInv, TypeOK, SessionsKnown
<1> QED
  BY <1>1, <1>3, <1>4, <1>5, JobKeeps

\* A new session, and what was known of the earlier ones.
LEMMA Issued ==
  ASSUME IndInv, NEW u \in Users, Len(owner) < MaxTokens, Issue(u)
  PROVE  /\ owner' \in Seq(Users) /\ Len(owner') <= MaxTokens /\ live' \subseteq DOMAIN owner'
         /\ Len(owner') \in Tokens /\ Len(owner') \in DOMAIN owner' /\ owner'[Len(owner')] = u
         /\ \A t \in DOMAIN owner : t \in DOMAIN owner' /\ owner'[t] = owner[t]
<1>1. owner \in Seq(Users) /\ MaxTokens \in Nat /\ live \subseteq DOMAIN owner
  BY PutAssumption DEF IndInv, TypeOK
<1>2. owner' = Append(owner, u) /\ live' = live \cup {Len(owner')}
  BY DEF Issue
<1>3. /\ owner' \in Seq(Users) /\ Len(owner') = Len(owner) + 1
      /\ DOMAIN owner = 1..Len(owner) /\ DOMAIN owner' = 1..Len(owner')
      /\ owner'[Len(owner) + 1] = u
      /\ \A t \in 1..Len(owner) : owner'[t] = owner[t]
  BY <1>1, <1>2
<1>4. Len(owner) \in Nat
  BY <1>1
<1> QED
  BY <1>1, <1>2, <1>3, <1>4 DEF Tokens

LEMMA LoginKeeps ==
  ASSUME IndInv, NEW j \in Jobs, Login(j)
  PROVE  IndInv'
<1> DEFINE s == [job[j] EXCEPT !.token = Len(owner')]
<1>1. /\ job' = [job EXCEPT ![j] = s] /\ UNCHANGED <<user, upload, file, net>>
      /\ Issue(user[j]) /\ Len(owner) < MaxTokens /\ user[j] # None
      /\ cache' = IF j \in Web THEN cache ELSE Newest(user[j])
  BY DEF Login
<1>2. job[j] \in JobState /\ job[j] # None /\ ~At(j, "wait")
  BY DEF Login, At, Requests, IndInv, TypeOK
<1>3. user[j] \in Users
  <2>1. user[j] \in {user[k] : k \in Jobs}
    OBVIOUS
  <2>2. {user[k] : k \in Jobs} \in {{u[k] : k \in Jobs} : u \in Setups}
    BY DEF IndInv, TypeOK
  <2> QED
    BY <1>1, <2>1, <2>2 DEF Users
<1>4. /\ owner' \in Seq(Users) /\ Len(owner') <= MaxTokens /\ live' \subseteq DOMAIN owner'
      /\ Len(owner') \in Tokens /\ Len(owner') \in DOMAIN owner'
      /\ owner'[Len(owner')] = user[j]
      /\ \A t \in DOMAIN owner : t \in DOMAIN owner' /\ owner'[t] = owner[t]
  BY <1>1, <1>3, Issued
<1>5. s \in JobState /\ s.read = s.offset /\ s.token = Len(owner')
  BY <1>2, <1>4 DEF JobState, IndInv, InStep
<1>6. /\ cache' \in LoginSession \cup {None}
      /\ cache' # None => cache'.token \in DOMAIN owner' /\ owner'[cache'.token] = cache'.user
  BY <1>1, <1>3, <1>4 DEF IndInv, TypeOK, SessionsKnown, LoginSession, Newest
<1> HIDE DEF s
<1> QED
  BY <1>1, <1>2, <1>4, <1>5, <1>6, JobKeeps
\* The bytes of a chunk are those at the offset that is sent with them.
LEMMA ChunkCut ==
  ASSUME IndInv, NEW j \in Jobs, job[j] # None, user[j] \in Users
  PROVE  /\ NextBytes(j) \in Seq(Byte)
         /\ BytesOf(File[user[j]], NextBytes(j), job[j].offset)
<1>1. /\ job[j].offset \in 0..Length /\ job[j].read = job[j].offset
  BY DEF IndInv, TypeOK, JobState, InStep
<1>2. Length \in Nat /\ Chunk \in Nat
  BY PutAssumption
<1>3. PICK n \in Nat : /\ job[j].offset + n <= Length
                       /\ n = IF Length - job[j].offset < Chunk
                              THEN Length - job[j].offset ELSE Chunk
  BY <1>1, <1>2
<1>4. NextBytes(j) = SubSeq(Contents(File[user[j]]), job[j].offset + 1, job[j].offset + n)
  BY <1>1, <1>3 DEF NextBytes
<1> QED
  BY <1>1, <1>3, <1>4, Cut

LEMMA SendKeeps ==
  ASSUME IndInv, NEW j \in Jobs, Send(j)
  PROVE  IndInv'
<1> USE DEF IndInv
<1>1. PICK does \in Requests :
         /\ At(j, does) /\ job[j].token # None
         /\ net' = net \cup
                {[job |-> j, does |-> does, token |-> job[j].token, id |-> job[j].id,
                  offset |-> job[j].offset,
                  authorized |-> FALSE, late |-> FALSE,
                  data |-> IF does = "put" THEN NextBytes(j) ELSE <<>>]}
  BY DEF Send
<1>2. /\ job' = [job EXCEPT ![j] = [job[j] EXCEPT !.pc = "wait"]]
      /\ UNCHANGED <<user, upload, file, owner, live, cache>>
  BY DEF Send
<1>3. job[j] \in JobState /\ job[j] # None /\ ~At(j, "wait")
  BY <1>1 DEF At, Requests, TypeOK
<1>4. /\ job[j].token \in Tokens /\ job[j].token \in DOMAIN owner
      /\ owner[job[j].token] = user[j] /\ user[j] \in Users
  BY <1>1, <1>3 DEF SessionsKnown, ActsAsConfigured, TypeOK, JobState
<1>5. NextBytes(j) \in Seq(Byte) /\ BytesOf(File[user[j]], NextBytes(j), job[j].offset)
  BY <1>3, <1>4, ChunkCut
<1>6. PICK d \in Seq(Byte) : d = IF does = "put" THEN NextBytes(j) ELSE <<>>
  <2>1. <<>> \in Seq(Byte)
    OBVIOUS
  <2>2. CASE does = "put"
    BY <1>5, <2>2
  <2>3. CASE does # "put"
    BY <2>1, <2>3
  <2> QED
    BY <2>2, <2>3
<1>7. PICK q \in Request :
         /\ net' = net \cup {q}
         /\ q.job = j /\ q.does = does /\ q.token = job[j].token
         /\ q.offset = job[j].offset /\ q.data = d /\ ~q.late
  <2> DEFINE r == [job |-> j, does |-> does, token |-> job[j].token, id |-> job[j].id,
                  offset |-> job[j].offset,
                  authorized |-> FALSE, late |-> FALSE, data |-> d]
  <2>1. r \in Request
    BY <1>3, <1>4 DEF Request, JobState
  <2>2. /\ net' = net \cup {r} /\ r.late = FALSE
        /\ r.job = j /\ r.does = does /\ r.token = job[j].token
        /\ r.offset = job[j].offset /\ r.data = d
    BY <1>1, <1>6
  <2> HIDE DEF r
  <2> QED
    BY <2>1, <2>2
<1>8. /\ job' \in [Jobs -> JobState \cup {None}] /\ job'[j] \in JobState
      /\ job'[j].pc = "wait" /\ job'[j].token = job[j].token
      /\ job'[j].offset = job[j].offset /\ job'[j].read = job[j].read
      /\ \A k \in Jobs : k # j => job'[k] = job[k]
  <2>1. /\ [job[j] EXCEPT !.pc = "wait"] \in JobState
        /\ [job[j] EXCEPT !.pc = "wait"].pc = "wait"
        /\ [job[j] EXCEPT !.pc = "wait"].token = job[j].token
        /\ [job[j] EXCEPT !.pc = "wait"].offset = job[j].offset
        /\ [job[j] EXCEPT !.pc = "wait"].read = job[j].read
    BY <1>3 DEF JobState
  <2> QED
    BY <1>2, <2>1 DEF TypeOK
<1>9. job'[j] # None
  BY <1>8, NoneIsNoValue
<1>10. TypeOK'
  BY <1>2, <1>7, <1>8 DEF TypeOK
<1>11. SessionsKnown'
  BY <1>2, <1>4, <1>7, <1>8 DEF SessionsKnown
<1>12. ActsAsConfigured'
  BY <1>2, <1>4, <1>7, <1>8 DEF ActsAsConfigured
<1>13. OneAnswer'
  <2>1. \A r \in net : ~r.late => r.job # j /\ r.job \in Jobs
    BY <1>3 DEF OneAnswer, TypeOK, Request
  <2> SUFFICES ASSUME NEW r \in net', ~r.late
               PROVE  /\ At(r.job, "wait")' /\ job'[r.job].offset = r.offset
                      /\ \A p \in net' : p.job = r.job /\ ~p.late => p = r
    BY DEF OneAnswer
  <2>2. CASE r = q
    BY <1>7, <1>8, <1>9, <2>1, <2>2 DEF At
  <2>3. CASE r # q
    BY <1>7, <1>8, <2>1, <2>3 DEF OneAnswer, At
  <2> QED
    BY <2>2, <2>3
<1>14. ChunksCut'
  <2>1. q.does = "put" => BytesOf(File[user[q.job]], q.data, q.offset)
    BY <1>5, <1>6, <1>7
  <2> QED
    BY <1>2, <1>7, <2>1 DEF ChunksCut, BytesOf
<1>15. InStep' /\ UploadBegun' /\ FileWhole'
  BY <1>2, <1>3, <1>8 DEF InStep, UploadBegun, FileWhole, BytesOf, Contents
<1> QED
  BY <1>10, <1>11, <1>12, <1>13, <1>14, <1>15

\* Steps that only take sessions, requests or the upload away, or issue a
\* session to somebody else.
LEMMA HostKeeps ==
  ASSUME IndInv,
         \/ \E r \in net : Lose(r)
         \/ \E t \in live : Expire(t)
         \/ \E u \in Others : LoginCommand(u)
         \/ Logout \/ Collect \/ UNCHANGED vars
  PROVE  IndInv'
<1> USE DEF IndInv
<1>1. ASSUME NEW r \in net, Lose(r)
      PROVE  IndInv'
  <2>1. net' \subseteq net /\ UNCHANGED <<user, upload, file, owner, live, cache, job>>
    BY <1>1 DEF Lose
  <2>2. TypeOK' /\ SessionsKnown' /\ ActsAsConfigured' /\ OneAnswer' /\ ChunksCut'
    BY <2>1 DEF TypeOK, SessionsKnown, ActsAsConfigured, OneAnswer, ChunksCut, At, BytesOf
  <2>3. InStep' /\ UploadBegun' /\ FileWhole'
    BY <2>1 DEF InStep, UploadBegun, FileWhole, BytesOf, Contents
  <2> QED
    BY <2>2, <2>3
<1>2. ASSUME UNCHANGED <<user, file, job, net>>,
             upload' = upload \/ upload' = None,
             owner' \in Seq(Users), Len(owner') <= MaxTokens, live' \subseteq DOMAIN owner',
             \A t \in DOMAIN owner : t \in DOMAIN owner' /\ owner'[t] = owner[t],
             cache' \in LoginSession \cup {None},
             cache' # None =>
                cache'.token \in DOMAIN owner' /\ owner'[cache'.token] = cache'.user
      PROVE  IndInv'
  <2>1. TypeOK' /\ SessionsKnown'
    BY <1>2 DEF TypeOK, SessionsKnown
  <2>2. ActsAsConfigured'
    BY <1>2 DEF ActsAsConfigured, SessionsKnown
  <2>3. OneAnswer' /\ ChunksCut'
    BY <1>2 DEF OneAnswer, ChunksCut, At, BytesOf
  <2>4. InStep' /\ UploadBegun' /\ FileWhole'
    BY <1>2 DEF InStep, UploadBegun, FileWhole, BytesOf, Contents
  <2> QED
    BY <2>1, <2>2, <2>3, <2>4
<1>3. ASSUME NEW t \in live, Expire(t)
      PROVE  IndInv'
  BY <1>2, <1>3 DEF Expire, TypeOK, SessionsKnown
<1>4. ASSUME NEW u \in Others, LoginCommand(u)
      PROVE  IndInv'
  <2>1. u \in Users
    <3>1. u \in Others /\ u # None
      BY <1>4, PutAssumption
    <3> QED
      BY <3>1 DEF Users
  <2>2. /\ owner' \in Seq(Users) /\ Len(owner') <= MaxTokens /\ live' \subseteq DOMAIN owner'
        /\ Len(owner') \in Tokens /\ Len(owner') \in DOMAIN owner' /\ owner'[Len(owner')] = u
        /\ \A t \in DOMAIN owner : t \in DOMAIN owner' /\ owner'[t] = owner[t]
    BY <1>4, <2>1, Issued DEF LoginCommand
  <2>3. /\ cache' \in LoginSession /\ cache'.token = Len(owner') /\ cache'.user = u
        /\ UNCHANGED <<user, upload, file, job, net>>
    BY <1>4, <2>1, <2>2 DEF LoginCommand, Newest, LoginSession
  <2> QED
    BY <1>2, <2>2, <2>3
<1>5. CASE Logout \/ Collect \/ UNCHANGED vars
  BY <1>2, <1>5 DEF Logout, Collect, vars, TypeOK, SessionsKnown
<1> QED
  BY <1>1, <1>3, <1>4, <1>5

-----------------------------------------------------------------------------
(* The theorems.                                                           *)

LEMMA InitInv == Init => IndInv
<1> SUFFICES ASSUME Init
             PROVE  IndInv
  OBVIOUS
<1>1. TypeOK
  <2>1. MaxTokens \in Nat
    BY PutAssumption
  <2> QED
    BY <2>1 DEF Init, TypeOK
<1>2. SessionsKnown /\ ActsAsConfigured /\ OneAnswer /\ InStep /\ UploadBegun /\ ChunksCut
      /\ FileWhole
  BY DEF Init, SessionsKnown, ActsAsConfigured, OneAnswer, InStep, UploadBegun, ChunksCut,
         FileWhole
<1> QED
  BY <1>1, <1>2 DEF IndInv

LEMMA NextInv == IndInv /\ [Next]_vars => IndInv'
<1> SUFFICES ASSUME IndInv, [Next]_vars
             PROVE  IndInv'
  OBVIOUS
<1>1. ASSUME NEW j \in Jobs, Open(j) \/ Work(j) \/ GiveUp(j)
      PROVE  IndInv'
  BY <1>1, OpenKeeps, LoginKeeps, SendKeeps, GiveUpKeeps DEF Work, CannotLogin
<1>2. ASSUME NEW r \in net, Handle(r)
      PROVE  IndInv'
  BY <1>2, AuthorizeKeeps, UnauthorizedKeeps, HandleInitKeeps, HandlePutKeeps,
     HandleCompleteKeeps DEF Handle
<1> QED
  BY <1>1, <1>2, HostKeeps DEF Next

\* The invariant that carries the others: whose the sessions, requests and
\* bytes are, and that a client and its upload are at the same offset.
THEOREM Inductive == Spec => []IndInv
  BY InitInv, NextInv, PTL DEF Spec

\* However many jobs upload to one path at a time, are given up, run again and
\* overtaken by their own late requests: every published file is one of their
\* files from the first byte to the last.
THEOREM WholeFiles == Spec => []FileWhole
<1>1. IndInv => FileWhole
  BY DEF IndInv
<1> QED
  BY <1>1, Inductive, PTL

\* No job of the command line client ever sends a request with a session of
\* somebody else, whatever the session file that they share goes through.
THEOREM OwnSessions == Spec => []ActsAsConfigured
<1>1. IndInv => ActsAsConfigured
  BY DEF IndInv
<1> QED
  BY <1>1, Inductive, PTL

\* A job reports success only in the step that publishes its own file.
THEOREM SuccessMeansPublished == Spec => SuccessPublished
<1>1. IndInv /\ [Next]_vars =>
        \A j \in Jobs : ~At(j, "ok") /\ At(j, "ok")' => file' = Contents(File[user[j]])
  <2> SUFFICES ASSUME IndInv, [Next]_vars, NEW j \in Jobs, ~At(j, "ok"), At(j, "ok")'
               PROVE  file' = Contents(File[user[j]])
    OBVIOUS
  <2>1. job' # job
    BY DEF At
  <2>2. ASSUME NEW k \in Jobs, NEW s, job' = [job EXCEPT ![k] = s], s # None => s.pc # "ok"
        PROVE  FALSE
    BY <2>2 DEF At, IndInv, TypeOK
  <2>3. ASSUME NEW k \in Jobs, Open(k) \/ Work(k) \/ GiveUp(k)
        PROVE  FALSE
    <3>1. CASE Open(k)
      BY <2>2, <3>1 DEF Open
    <3>2. CASE Login(k)
      <4>1. /\ job' = [job EXCEPT ![k] = [job[k] EXCEPT !.token = Len(owner')]]
            /\ job[k] \in JobState /\ job[k].pc \in Requests
        BY <3>2 DEF Login, At, IndInv, TypeOK
      <4>2. [job[k] EXCEPT !.token = Len(owner')].pc # "ok"
        BY <4>1 DEF JobState, Requests
      <4> QED
        BY <2>2, <4>1, <4>2
    <3>3. CASE Send(k)
      <4>1. /\ job' = [job EXCEPT ![k] = [job[k] EXCEPT !.pc = "wait"]]
            /\ job[k] \in JobState
        BY <3>3 DEF Send, At, IndInv, TypeOK
      <4>2. [job[k] EXCEPT !.pc = "wait"].pc # "ok"
        BY <4>1 DEF JobState
      <4> QED
        BY <2>2, <4>1, <4>2
    <3>4. CASE GiveUp(k)
      BY <2>2, <3>4 DEF GiveUp
    <3> QED
      BY <2>3, <3>1, <3>2, <3>3, <3>4 DEF Work, CannotLogin
  <2>4. PICK r \in net : Handle(r)
    BY <2>1, <2>3 DEF Next, Lose, Expire, LoginCommand, Logout, Collect, vars
  <2>5. ~r.late /\ r.job \in Jobs /\ job[r.job] \in JobState
    <3>1. ~r.late
      BY <2>1, <2>4 DEF Handle, Authorize, Unauthorized, HandleInit, InitResume, InitStart,
                        InitRefuse, HandlePut, HandleComplete, Reply, Error
    <3> QED
      BY <3>1, Waits
  <2>6. ASSUME NEW s, Reply(r, s), s # None => s.pc # "ok"
        PROVE  FALSE
    BY <2>2, <2>5, <2>6 DEF Reply
  <2>7. ~Authorize(r)
    BY <2>1 DEF Authorize
  <2>8. ~Unauthorized(r)
    <3> SUFFICES ASSUME Unauthorized(r)
                 PROVE  FALSE
      OBVIOUS
    <3>1. r.does \in Requests
      BY DEF IndInv, TypeOK, Request
    <3>2. [job[r.job] EXCEPT !.pc = r.does, !.token = None, !.retried = TRUE].pc # "ok"
      BY <2>5, <3>1 DEF JobState, Requests
    <3> QED
      BY <2>6, <3>2 DEF Unauthorized
  <2>9. ~HandleInit(r)
    <3>1. \A id, n : Resumed(r, id, n).pc # "ok"
      BY <2>5 DEF Resumed, JobState
    <3> QED
      BY <2>6, <3>1 DEF HandleInit, InitResume, InitStart, InitRefuse, Error
  <2>10. ~HandlePut(r)
    <3> SUFFICES ASSUME HandlePut(r)
                 PROVE  FALSE
      OBVIOUS
    <3>1. CASE Fits(r)
      <4>1. PICK n, k : Reply(r, [job[r.job] EXCEPT
                               !.pc = IF n < Length THEN "put" ELSE "complete",
                               !.retried = FALSE,
                               !.offset = n, !.read = @ + k])
        BY <3>1 DEF HandlePut
      <4>2. [job[r.job] EXCEPT !.pc = IF n < Length THEN "put" ELSE "complete",
                               !.retried = FALSE,
                               !.offset = n, !.read = @ + k].pc # "ok"
        BY <2>5 DEF JobState
      <4> QED
        BY <2>6, <4>1, <4>2
    <3>2. CASE ~Fits(r)
      BY <2>6, <3>2 DEF HandlePut, Error
    <3> QED
      BY <3>1, <3>2
  <2>11. HandleComplete(r)
    BY <2>4, <2>7, <2>8, <2>9, <2>10 DEF Handle
  <2>12. MayPublish(r)
    BY <2>6, <2>11 DEF HandleComplete, Error
  <2>13. j = r.job
    BY <2>5, <2>11 DEF HandleComplete, Reply, Error, At, IndInv, TypeOK
  <2> QED
    BY <2>11, <2>12, <2>13, Published DEF HandleComplete
<1> QED
  BY <1>1, Inductive, PTL DEF Spec, SuccessPublished
=============================================================================
