------------------------------ MODULE PutClient ------------------------------
(***************************************************************************)
(* Uploads seen from the clients: `fst put` (cli.rs) and the page's        *)
(* `uploadFile` (fst.js), which send init, then chunk after chunk, then    *)
(* complete, and give up on the first error; running them again resumes.   *)
(* The command line client keeps its login in a file that all jobs of the  *)
(* host share, and logs in again when a request is answered with 401.      *)
(*                                                                         *)
(* All jobs put a file of one length at one path.  The server is what      *)
(* UploadService promises for that path, here with upload ids and the      *)
(* bytes themselves; a byte is the file it comes from and its offset.      *)
(* A request that was given up may still be handled, or never: that also   *)
(* covers a lost reply.                                                    *)
(***************************************************************************)
EXTENDS Naturals, Sequences, FiniteSets

CONSTANTS
    Jobs,       \* the commands and pages that upload
    Web,        \* those that are pages
    Setups,     \* the user names the jobs may be configured with, or None
    Others,     \* users who log in on the host as well
    File,       \* the local file of a user
    Length,     \* its length
    Chunk,      \* CHUNK: the bytes sent in one request
    Ids,        \* upload ids
    MaxTokens,  \* bound: login sessions ever issued
    MaxLate,    \* bound: requests that were given up and are still under way
    None

Users == ((UNION {{u[j] : j \in Jobs} : u \in Setups}) \cup Others) \ {None}

Tokens == 1..MaxTokens

Byte == [of : {File[u] : u \in Users}, at : 0..(Length - 1)]
Requests == {"init", "put", "complete"}

\* `read` is the position in the local file, `offset` what the server said.
JobState ==
    [pc : Requests \cup {"wait", "ok"}, token : Tokens \cup {None}, retried : BOOLEAN,
     id : Ids \cup {None}, offset : 0..Length, read : 0..Length]

Request ==
    [job : Jobs, does : Requests, token : Tokens, id : Ids \cup {None},
     offset : 0..Length, data : Seq(Byte), authorized : BOOLEAN, late : BOOLEAN]

Upload == [id : Ids, owner : Users, got : Seq(Byte)]
LoginSession == [user : Users, token : Tokens]

ASSUME PutAssumption ==
    /\ Web \subseteq Jobs
    /\ Length \in Nat \ {0} /\ Chunk \in Nat \ {0}
    /\ Ids \subseteq Nat /\ MaxTokens \in Nat /\ MaxLate \in Nat
    /\ None \notin Nat \cup Others
    /\ None \notin JobState \cup Upload \cup LoginSession

VARIABLES
    user,       \* the configuration: the user name of each job
    upload,     \* on the server: the upload in progress at the path
    file,       \* on the server: the published file
    owner,      \* the users of the login sessions, in the order of their issue
    live,       \* the login sessions that are neither expired nor logged out
    cache,      \* on the host: the session file of the command line client
    job,        \* what each job is doing
    net         \* the requests under way

vars == <<user, upload, file, owner, live, cache, job, net>>

TypeOK ==
    /\ user \in Setups
    /\ upload \in Upload \cup {None}
    /\ file \in Seq(Byte) \cup {None}
    /\ owner \in Seq(Users) /\ Len(owner) <= MaxTokens
    /\ live \subseteq DOMAIN owner
    /\ cache \in LoginSession \cup {None}
    /\ job \in [Jobs -> JobState \cup {None}]
    /\ net \subseteq Request

Init ==
    /\ user \in Setups
    /\ upload = None /\ file = None
    /\ owner = <<>> /\ live = {}
    /\ cache = None
    /\ job = [j \in Jobs |-> None]
    /\ net = {}

Contents(f) == [i \in 1..Length |-> [of |-> f, at |-> i - 1]]

At(j, pc) == job[j] # None /\ job[j].pc = pc
Late == {r \in net : r.late}

-----------------------------------------------------------------------------
(* The client.                                                             *)

\* Remote::open: a cached session is used only by a job that is configured
\* with the user it belongs to (one server: the URLs match).
Cached_Anyones(j) == IF cache # None /\ j \notin Web THEN cache.token ELSE None
Cached(j) ==
    IF cache # None /\ j \notin Web /\ cache.user = user[j] THEN cache.token ELSE None

Open(j) ==
    /\ job[j] = None \/ At(j, "ok")
    /\ job' = [job EXCEPT ![j] = [pc |-> "init", token |-> Cached(j), retried |-> FALSE,
                                   id |-> None, offset |-> 0, read |-> 0]]
    /\ UNCHANGED <<user, upload, file, owner, live, cache, net>>

\* A login: the server issues a session.
Issue(u) ==
    /\ owner' = Append(owner, u)
    /\ live' = live \cup {Len(owner')}

Newest(u) == [user |-> u, token |-> Len(owner')]

\* login_with: the new session replaces the one in the cache.
Login(j) ==
    /\ \E does \in Requests : At(j, does)
    /\ job[j].token = None
    /\ user[j] # None
    /\ Len(owner) < MaxTokens
    /\ Issue(user[j])
    /\ job' = [job EXCEPT ![j].token = Len(owner')]
    /\ cache' = IF j \in Web THEN cache ELSE Newest(user[j])
    /\ UNCHANGED <<user, upload, file, net>>

\* The bytes of the next chunk: the command reads on in its file, the page
\* cuts them out at the offset.
NextBytes(j) ==
    LET from == IF j \in Web THEN job[j].offset ELSE job[j].read
        n == IF Length - job[j].offset < Chunk THEN Length - job[j].offset ELSE Chunk
    IN SubSeq(Contents(File[user[j]]), from + 1, from + n)

Send(j) ==
    /\ \E does \in Requests :
          /\ At(j, does)
          /\ job[j].token # None
          /\ net' = net \cup
                {[job |-> j, does |-> does, token |-> job[j].token, id |-> job[j].id,
                  offset |-> job[j].offset,
                  authorized |-> FALSE, late |-> FALSE,
                  data |-> IF does = "put" THEN NextBytes(j) ELSE <<>>]}
    /\ job' = [job EXCEPT ![j].pc = "wait"]
    /\ UNCHANGED <<user, upload, file, owner, live, cache>>

\* An error reply, a broken connection, a timeout or a kill.  A request that
\* is under way stays so.
GiveUp(j) ==
    /\ job[j] # None
    /\ job' = [job EXCEPT ![j] = None]
    /\ net' = {IF r.job = j THEN [r EXCEPT !.late = TRUE] ELSE r : r \in net}
    /\ Cardinality({r \in net' : r.late}) <= MaxLate
    /\ UNCHANGED <<user, upload, file, owner, live, cache>>

\* A late request never reaches the server.
Lose(r) ==
    /\ r.late
    /\ net' = net \ {r}
    /\ UNCHANGED <<user, upload, file, owner, live, cache, job>>

\* fst login, as another user of the host.
LoginCommand(u) ==
    /\ Len(owner) < MaxTokens
    /\ Issue(u)
    /\ cache' = Newest(u)
    /\ UNCHANGED <<user, upload, file, job, net>>

\* fst logout, by the user of the cached session, when its request reaches the
\* server.
Logout ==
    /\ cache # None
    /\ live' = live \ {cache.token}
    /\ cache' = None
    /\ UNCHANGED <<user, upload, file, owner, job, net>>

-----------------------------------------------------------------------------
(* The server.  A handler's reply goes to the job that waits for it.       *)

Reply(r, state) == job' = IF r.late THEN job ELSE [job EXCEPT ![r.job] = state]
Error(r) == Reply(r, None)
Answered(r) == net' = net \ {r}

Mine(r) == upload # None /\ upload.owner = owner[r.token]

\* A login session ends: it has expired.  (A restart of the server ends sessions too,
\* but does more, to the uploads in progress: TransferCrash.)
Expire(t) ==
    /\ live' = live \ {t}
    /\ UNCHANGED <<user, upload, file, owner, cache, job, net>>

\* require_auth: the handler of a chunk goes on to await the body, and does
\* not look at the session again.
Authorize(r) ==
    /\ r.does = "put" /\ ~r.authorized
    /\ r.token \in live
    /\ net' = (net \ {r}) \cup {[r EXCEPT !.authorized = TRUE]}
    /\ UNCHANGED <<user, upload, file, owner, live, cache, job>>

\* 401: the command forgets its session to log in and to send the same
\* request again, once; the page gives up.
Unauthorized_Resends(r) ==
    /\ ~r.authorized
    /\ r.token \notin live
    /\ Answered(r)
    /\ Reply(r, IF r.job \in Web THEN None ELSE [job[r.job] EXCEPT !.pc = r.does])
    /\ UNCHANGED <<user, upload, file, owner, live, cache>>

Unauthorized(r) ==
    /\ ~r.authorized
    /\ r.token \notin live
    /\ Answered(r)
    /\ LET s == job[r.job] IN
          Reply(r, IF r.job \in Web \/ s.retried THEN None
                   ELSE [s EXCEPT !.pc = r.does, !.token = None, !.retried = TRUE])
    /\ UNCHANGED <<user, upload, file, owner, live, cache>>

\* What the client makes of the offset in a reply: it reads on from there.
Resumed_Unsought(r, id, n) ==
    [job[r.job] EXCEPT !.pc = IF n < Length THEN "put" ELSE "complete", !.retried = FALSE,
                       !.id = id, !.offset = n, !.read = 0]

Resumed(r, id, n) ==
    [job[r.job] EXCEPT !.pc = IF n < Length THEN "put" ELSE "complete", !.retried = FALSE,
                       !.id = id, !.offset = n, !.read = n]

\* Ids that nobody knows (Uuid::new_v4; bound: the ids in use at a time).
Fresh ==
    {i \in Ids : /\ upload # None => i # upload.id
                 /\ \A q \in net : q.id # i
                 /\ \A j \in Jobs : job[j] # None => job[j].id # i}

\* The owner's own upload is resumed; a complete one gives way.
InitResume(r) ==
    /\ Mine(r)
    /\ Reply(r, Resumed(r, upload.id, Len(upload.got)))
    /\ UNCHANGED upload

InitStart(r) ==
    /\ upload # None => ~Mine(r) /\ Len(upload.got) = Length
    /\ Fresh # {}
    /\ LET id == CHOOSE i \in Fresh : TRUE IN
          /\ upload' = [id |-> id, owner |-> owner[r.token], got |-> <<>>]
          /\ Reply(r, Resumed(r, id, 0))

InitRefuse(r) ==
    /\ upload # None /\ ~Mine(r) /\ Len(upload.got) < Length
    /\ Error(r)
    /\ UNCHANGED upload

HandleInit(r) ==
    /\ r.does = "init" /\ r.token \in live
    /\ InitResume(r) \/ InitStart(r) \/ InitRefuse(r)
    /\ Answered(r)
    /\ UNCHANGED <<user, file, owner, live, cache>>

\* The chunk must go on where the upload is, which is what the reply says.
Fits_Anywhere(r) == Mine(r) /\ upload.id = r.id
Fits(r) == Mine(r) /\ upload.id = r.id /\ r.offset = Len(upload.got)

HandlePut(r) ==
    /\ r.does = "put" /\ r.authorized
    /\ IF Fits(r)
       THEN LET n == Len(upload.got) + Len(r.data) IN
               /\ upload' = [upload EXCEPT !.got = @ \o r.data]
               /\ Reply(r, [job[r.job] EXCEPT
                               !.pc = IF n < Length THEN "put" ELSE "complete",
                               !.retried = FALSE,
                               !.offset = n, !.read = @ + Len(r.data)])
       ELSE Error(r) /\ UNCHANGED upload
    /\ Answered(r)
    /\ UNCHANGED <<user, file, owner, live, cache>>

Finished ==
    [pc |-> "ok", token |-> None, retried |-> FALSE, id |-> None, offset |-> 0, read |-> 0]

MayPublish(r) == Mine(r) /\ upload.id = r.id /\ Len(upload.got) = Length

HandleComplete(r) ==
    /\ r.does = "complete" /\ r.token \in live
    /\ IF MayPublish(r)
       THEN /\ file' = upload.got
            /\ upload' = None
            /\ Reply(r, Finished)
       ELSE Error(r) /\ UNCHANGED <<file, upload>>
    /\ Answered(r)
    /\ UNCHANGED <<user, owner, live, cache>>

\* gc, when nobody has worked on the upload for its TTL.
Collect ==
    /\ upload # None
    /\ \A j \in Jobs : job[j] = None
    /\ upload' = None
    /\ UNCHANGED <<user, file, owner, live, cache, job, net>>

-----------------------------------------------------------------------------
Handle(r) == Authorize(r) \/ Unauthorized(r) \/ HandleInit(r) \/ HandlePut(r) \/ HandleComplete(r)

\* Without a user name, or when all sessions of the model are used up, a job
\* that has to log in fails.
CannotLogin(j) ==
    /\ \E does \in Requests : At(j, does)
    /\ job[j].token = None
    /\ user[j] = None \/ Len(owner) = MaxTokens
    /\ GiveUp(j)

Work(j) == Login(j) \/ Send(j) \/ CannotLogin(j)

Next ==
    \/ \E j \in Jobs : Open(j) \/ Work(j) \/ GiveUp(j)
    \/ \E r \in net : Handle(r) \/ Lose(r)
    \/ \E t \in live : Expire(t)
    \/ \E u \in Others : LoginCommand(u)
    \/ Logout
    \/ Collect

\* A client runs on, and the server answers what it has received.
Fairness ==
    \A j \in Jobs :
        /\ WF_vars(Work(j))
        /\ WF_vars(\E r \in net : r.job = j /\ ~r.late /\ Handle(r))

Spec == Init /\ [][Next]_vars /\ Fairness

-----------------------------------------------------------------------------
\* Every published file is one job's file from its first to its last byte,
\* however the jobs of one user that upload it at a time are given up, run
\* again and overtaken by their own late requests.
FileWhole == file # None => \E j \in Jobs : file = Contents(File[user[j]])

\* A job that reports success has published its file.
SuccessPublished ==
    [][ \A j \in Jobs :
            ~At(j, "ok") /\ At(j, "ok")' => file' = Contents(File[user[j]]) ]_vars

\* A job acts as the user it is configured with, also after other jobs of the
\* host have logged in and out: it never sends somebody else's session, and
\* without a user name it sends none.
ActsAsConfigured ==
    /\ \A r \in net : owner[r.token] = user[r.job]
    /\ \A j \in Jobs : job[j] # None /\ job[j].token # None =>
                           owner[job[j].token] = user[j]

\* Every run ends (each accepted chunk brings it further, and a request is
\* sent again at most once).
PutEnds == \A j \in Jobs : job[j] # None ~> job[j] = None \/ At(j, "ok")
-----------------------------------------------------------------------------
(* The inductive invariant behind FileWhole and ActsAsConfigured.           *)

\* Every session that is held anywhere has been issued, and the cache tells
\* whose it is.
SessionsKnown ==
    /\ cache # None => cache.token \in DOMAIN owner /\ owner[cache.token] = cache.user
    /\ \A r \in net : r.token \in DOMAIN owner
    /\ \A j \in Jobs : job[j] # None /\ job[j].token # None => job[j].token \in DOMAIN owner

\* A job waits for one reply, to a request at the offset it is at itself.
OneAnswer ==
    \A r \in net : ~r.late =>
        /\ At(r.job, "wait") /\ job[r.job].offset = r.offset
        /\ \A q \in net : q.job = r.job /\ ~q.late => q = r

\* The position in the local file is the one the server was told.
InStep == \A j \in Jobs : job[j] # None => job[j].read = job[j].offset

\* Bytes of file f, from offset n of the upload on.
BytesOf(f, s, n) ==
    /\ n + Len(s) <= Length
    /\ \A i \in 1..Len(s) : s[i] = [of |-> f, at |-> n + i - 1]

UploadBegun ==
    upload # None => /\ \E j \in Jobs : upload.owner = user[j]
                     /\ BytesOf(File[upload.owner], upload.got, 0)

ChunksCut == \A r \in net : r.does = "put" => BytesOf(File[user[r.job]], r.data, r.offset)

IndInv ==
    /\ TypeOK
    /\ SessionsKnown
    /\ ActsAsConfigured
    /\ OneAnswer
    /\ InStep
    /\ UploadBegun
    /\ ChunksCut
    /\ FileWhole
=============================================================================
