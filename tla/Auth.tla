-------------------------------- MODULE Auth --------------------------------
(***************************************************************************)
(* Keystores and login sessions, and which files they let a session read.  *)
(*                                                                         *)
(* A keystore is two files, written one after the other: the encapsulation *)
(* key, to which uploads are sealed, and the decapsulation key under the   *)
(* password, which a login unlocks and the session keeps in memory.  The   *)
(* server makes a missing keystore at the first login of its user, and the *)
(* shared one when it starts; `init-keys` is a process of its own, which   *)
(* makes or replaces any of them.                                          *)
(*                                                                         *)
(* Passwords are right ones, the same at every start and for every tool: a *)
(* wrong one is refused before any step.  The cryptography does what it    *)
(* says: only the decapsulation key of a pair opens what its encapsulation *)
(* key sealed.                                                             *)
(***************************************************************************)
EXTENDS Naturals, FiniteSets

CONSTANTS
    Users,      \* the configured users
    Admins,     \* those with the role admin
    Shared,     \* the principal of shared/
    Clients,    \* logins under way at a time
    Tools,      \* runs of `fst init-keys` at a time
    Boot,       \* the start of the server
    Ids,        \* session ids
    MaxFiles,   \* bound: the files sealed at a time, by their keys
    MaxPairs,   \* bound: the key pairs ever generated
    TTL,        \* session.ttl_secs, in ticks
    None,
    Empty       \* a key file that has been truncated and not yet filled

Pairs == 1..MaxPairs     \* in the order of their generation
Principals == Users \cup {Shared}
Makers == Clients \cup Tools \cup {Boot}

\* What a login, a tool or a start is doing.
Steps == {"ek", "ek filled", "sk", "sk filled", "unlock"}
Making == [at : Steps, who : Principals, pair : Pairs \cup {None}, alone : BOOLEAN]
Session == [user : Users, secrets : Pairs, idle : 0..(TTL + 1)]

ASSUME AuthAssumption ==
    /\ Admins \subseteq Users /\ Shared \notin Users
    /\ Clients \cap Tools = {} /\ Boot \notin Clients \cup Tools
    /\ TTL \in Nat /\ MaxPairs \in Nat /\ MaxFiles \in Nat
    /\ None # Empty /\ None \notin Pairs /\ Empty \notin Pairs
    /\ None \notin Principals \cup Making \cup Session

VARIABLES
    ek,         \* {name}.ek: the pair whose encapsulation key it holds
    sk,         \* {name}.sk: the pair whose decapsulation key it holds
    making,     \* what each login, tool and start is doing
    server,     \* "down", "boot" or "up"
    shared_secrets,   \* AuthState.shared_secrets: the pair unlocked at start
    sessions,   \* AuthState.sessions
    files,      \* the keys to the files sealed so far
    used,       \* how many pairs have been generated
    rotated,    \* history: keystores replaced, or made by two at a time
    torn        \* history: keystores whose last making broke off or overlapped

disk == <<ek, sk>>
history == <<used, rotated, torn>>
vars == <<disk, making, server, shared_secrets, sessions, files, history>>

KeyFile == Pairs \cup {None, Empty}

TypeOK ==
    /\ ek \in [Principals -> KeyFile] /\ sk \in [Principals -> KeyFile]
    /\ making \in [Makers -> Making \cup {None}]
    /\ server \in {"down", "boot", "up"}
    /\ shared_secrets \in Pairs \cup {None}
    /\ sessions \in [Ids -> Session \cup {None}]
    /\ files \subseteq [space : Principals, key : Pairs, wrap : Pairs \cup {None}]
    /\ used \in 0..MaxPairs /\ rotated \subseteq Principals /\ torn \subseteq Principals

Init ==
    /\ ek = [p \in Principals |-> None] /\ sk = [p \in Principals |-> None]
    /\ making = [m \in Makers |-> None]
    /\ server = "down" /\ shared_secrets = None
    /\ sessions = [i \in Ids |-> None]
    /\ files = {}
    /\ used = 0 /\ rotated = {} /\ torn = {}

-----------------------------------------------------------------------------
(* Making a keystore: create_user_keystore.                                *)

At(m, at) == making[m] # None /\ making[m].at = at
Creating(m) == making[m] # None /\ making[m].at # "unlock"
CreatorsOf(p) == {m \in Makers : Creating(m) /\ making[m].who = p}

\* An .ek that is there already is written again, like the .sk.
FirstWrite_IfMissing(p) == IF ek[p] = None THEN "ek" ELSE "sk"
FirstWrite(p) == "ek"

\* generate: a fresh pair; nothing is written yet.  `over` tells that the
\* keystore was there already.
StartCreate(m, p, over) ==
    /\ used < MaxPairs
    /\ used' = used + 1
    /\ making' = [n \in Makers |->
          IF n = m THEN [at |-> FirstWrite(p), who |-> p, pair |-> used',
                           alone |-> CreatorsOf(p) = {}]
          ELSE IF n \in CreatorsOf(p) THEN [making[n] EXCEPT !.alone = FALSE]
                                      ELSE making[n]]
    /\ rotated' = IF over \/ CreatorsOf(p) # {} THEN rotated \cup {p} ELSE rotated
    /\ UNCHANGED torn

Goto(m, at) == making' = [making EXCEPT ![m].at = at]
Gone(m) == making' = [making EXCEPT ![m] = None]
GoUnlock(m, p) ==
    making' = [making EXCEPT ![m] = [at |-> "unlock", who |-> p, pair |-> None, alone |-> TRUE]]

\* What follows the second file: a login and the start go on to unlock.
AfterCreate(m) == IF m \in Tools THEN Gone(m) ELSE GoUnlock(m, making[m].who)

\* std::fs::write truncates and then fills; .ek goes first.
TruncateEk(m) ==
    /\ At(m, "ek")
    /\ ek' = [ek EXCEPT ![making[m].who] = Empty]
    /\ Goto(m, "ek filled")
    /\ UNCHANGED <<sk, history>>

FillEk(m) ==
    /\ At(m, "ek filled")
    /\ ek' = [ek EXCEPT ![making[m].who] = making[m].pair]
    /\ Goto(m, "sk")
    /\ UNCHANGED <<sk, history>>

TruncateSk(m) ==
    /\ At(m, "sk")
    /\ sk' = [sk EXCEPT ![making[m].who] = Empty]
    /\ Goto(m, "sk filled")
    /\ UNCHANGED <<ek, history>>

FillSk(m) ==
    /\ At(m, "sk filled")
    /\ sk' = [sk EXCEPT ![making[m].who] = making[m].pair]
    /\ torn' = IF making[m].alone THEN torn \ {making[m].who} ELSE torn \cup {making[m].who}
    /\ AfterCreate(m)
    /\ UNCHANGED <<ek, used, rotated>>

\* A write fails, or the tool is killed: what is written stays.
CreateFails(m) ==
    /\ Creating(m)
    /\ torn' = torn \cup {making[m].who}
    /\ Gone(m)
    /\ server' = IF m = Boot THEN "down" ELSE server
    /\ UNCHANGED <<disk, shared_secrets, sessions, files, used, rotated>>

CreateStep(m) ==
    \/ /\ TruncateEk(m) \/ FillEk(m) \/ TruncateSk(m) \/ FillSk(m)
       /\ UNCHANGED <<server, shared_secrets, sessions, files>>
    \/ CreateFails(m)

\* fst init-keys: whether there is a keystore already does not matter.
InitKeys(m, p) ==
    /\ making[m] = None
    /\ StartCreate(m, p, ek[p] # None)
    /\ UNCHANGED <<disk, server, shared_secrets, sessions, files>>

-----------------------------------------------------------------------------
(* The server: serve() in main.rs.                                         *)

\* The password of the shared keystore is in the environment, or not.
BootLocked ==
    /\ server = "down"
    /\ server' = "up"
    /\ UNCHANGED <<disk, making, shared_secrets, sessions, files, history>>

BootUnlocking ==
    /\ server = "down"
    /\ server' = "boot"
    /\ IF ek[Shared] = None THEN StartCreate(Boot, Shared, FALSE) ELSE GoUnlock(Boot, Shared) /\ UNCHANGED history
    /\ UNCHANGED <<disk, shared_secrets, sessions, files>>

\* A shared keystore that does not unlock is reported; the server goes on.
BootUnlock ==
    /\ At(Boot, "unlock")
    /\ shared_secrets' = IF sk[Shared] \in Pairs THEN sk[Shared] ELSE None
    /\ server' = "up"
    /\ Gone(Boot)
    /\ UNCHANGED <<disk, sessions, files, history>>

\* The process ends: its maps, and the logins and the start it was busy with.
Crash ==
    /\ server # "down"
    /\ server' = "down"
    /\ torn' = torn \cup {making[m].who : m \in {n \in Clients \cup {Boot} : Creating(n)}}
    /\ making' = [m \in Makers |-> IF m \in Tools THEN making[m] ELSE None]
    /\ shared_secrets' = None
    /\ sessions' = [i \in Ids |-> None]
    /\ UNCHANGED <<disk, files, used, rotated>>

-----------------------------------------------------------------------------
(* Logins and sessions: AuthState.                                         *)

\* login makes a keystore only when there is no .ek.
MakesKeys_Always(u) == TRUE
MakesKeys(u) == ek[u] = None

StartLogin(c, u) ==
    /\ server = "up"
    /\ making[c] = None
    /\ IF MakesKeys(u) THEN StartCreate(c, u, FALSE) ELSE GoUnlock(c, u) /\ UNCHANGED history
    /\ UNCHANGED <<disk, server, shared_secrets, sessions, files>>

Unlock(c, i) ==
    /\ At(c, "unlock")
    /\ sk[making[c].who] \in Pairs
    /\ sessions[i] = None
    /\ sessions' = [sessions EXCEPT ![i] =
           [user |-> making[c].who, secrets |-> sk[making[c].who], idle |-> 0]]
    /\ Gone(c)
    /\ UNCHANGED <<disk, server, shared_secrets, files, history>>

\* "invalid credentials", although the password is right.
Refuse(c) ==
    /\ At(c, "unlock")
    /\ sk[making[c].who] \notin Pairs
    /\ Gone(c)
    /\ UNCHANGED <<disk, server, shared_secrets, sessions, files, history>>

Expired(i) == sessions[i].idle > TTL

\* get: an expired session is removed, any other lives on for another TTL.
Get(i) ==
    /\ sessions[i] # None
    /\ sessions' = [sessions EXCEPT ![i] = IF Expired(i) THEN None ELSE [@ EXCEPT !.idle = 0]]
    /\ UNCHANGED <<disk, making, server, shared_secrets, files, history>>

\* logout goes through get; either way the session is gone.
Logout(i) ==
    /\ sessions[i] # None
    /\ sessions' = [sessions EXCEPT ![i] = None]
    /\ UNCHANGED <<disk, making, server, shared_secrets, files, history>>

\* purge_expired keeps what expires later than now.
Kept_Swapped(s) == s.idle > TTL
Kept(s) == s.idle < TTL

Purge ==
    /\ server = "up"
    /\ sessions' = [i \in Ids |-> IF sessions[i] = None \/ Kept(sessions[i]) THEN sessions[i]
                                                                              ELSE None]
    /\ UNCHANGED <<disk, making, server, shared_secrets, files, history>>

Tick ==
    /\ \E i \in Ids : sessions[i] # None
    /\ sessions' = [i \in Ids |-> IF sessions[i] = None \/ sessions[i].idle > TTL
                                  THEN sessions[i] ELSE [sessions[i] EXCEPT !.idle = @ + 1]]
    /\ UNCHANGED <<disk, making, server, shared_secrets, files, history>>

-----------------------------------------------------------------------------
(* Sealing and opening.                                                    *)

MayEnter(u, p) == p \in {u, Shared} \/ u \in Admins

\* complete: an upload by session i into the space p is sealed to the key of
\* the space, and a home's also to the shared key if there is one.  The two
\* .ek files are read together; a truncated one does not parse.
Seal(i, p) ==
    /\ sessions[i] # None /\ ~Expired(i)
    /\ MayEnter(sessions[i].user, p)
    /\ ek[p] \in Pairs
    /\ p # Shared => ek[Shared] # Empty
    /\ files' = files \cup {[space |-> p, key |-> ek[p],
                             wrap |-> IF p = Shared THEN None ELSE ek[Shared]]}
    /\ Cardinality(files') <= MaxFiles
    /\ sessions' = [sessions EXCEPT ![i].idle = 0]
    /\ UNCHANGED <<disk, making, server, shared_secrets, history>>

\* dek_for_path: the pair whose decapsulation key session i reads p with.
KeyFor(i, p) == IF p = sessions[i].user THEN sessions[i].secrets ELSE shared_secrets

\* open_header_and_dek: the second wrap is tried first, since a wrong key
\* decapsulates the first without an error.
Opens_Primary(k, f) == f.key = k
Opens(k, f) == f.wrap = k \/ f.key = k

-----------------------------------------------------------------------------
Next ==
    \/ \E m \in Makers : CreateStep(m)
    \/ \E m \in Tools, p \in Principals : InitKeys(m, p)
    \/ BootLocked \/ BootUnlocking \/ BootUnlock
    \/ Crash
    \/ \E c \in Clients, u \in Users : StartLogin(c, u)
    \/ \E c \in Clients : Refuse(c) \/ \E i \in Ids : Unlock(c, i)
    \/ \E i \in Ids : Get(i) \/ Logout(i) \/ \E p \in Principals : Seal(i, p)
    \/ Purge \/ Tick

Spec == Init /\ [][Next]_vars

\* The hourly task runs as long as the server does; time passes.
Fairness == WF_vars(Purge) /\ WF_vars(Tick)

FairSpec == Spec /\ Fairness

-----------------------------------------------------------------------------
(* Correctness.                                                            *)

\* Whoever made it, and whatever broke off before: once a making that ran by
\* itself has come to its end, the two key files belong to one pair.
PairMatches ==
    \A p \in Principals \ torn : CreatorsOf(p) = {} => ek[p] = sk[p]

\* Unless someone replaces a user's keys, or two logins make them at once, a
\* session of the user opens every file in the user's home: the ones sealed
\* before a restart, by an admin, or while the shared keys were changing.
OwnerReads ==
    \A i \in Ids, f \in files :
        sessions[i] # None /\ f.space = sessions[i].user /\ f.space \notin rotated
            => Opens(KeyFor(i, f.space), f)

\* What becomes of the users' keys does not matter to the shared one: unless it
\* is replaced itself, it opens the files of shared/ and, for an admin, every
\* file in the home of another user that was sealed when there was a shared key.
SharedKeyReads ==
    shared_secrets # None /\ Shared \notin rotated =>
        \A i \in Ids, f \in files :
            (/\ sessions[i] # None
             /\ f.space # sessions[i].user /\ MayEnter(sessions[i].user, f.space)
             /\ f.space = Shared \/ f.wrap # None)
                => Opens(KeyFor(i, f.space), f)

\* A session that is not used any more does not stay, nor the unlocked key in
\* it: it ends although no request ever asks for it again.
SessionsEnd == \A i \in Ids : []<>(sessions[i] = None \/ sessions[i].idle = 0)
-----------------------------------------------------------------------------
(* The inductive invariant behind PairMatches, OwnerReads and               *)
(* SharedKeyReads.                                                          *)

\* Keys are being made from a pair, logins are of users, and the server is
\* busy with its start only while it starts.
MakersKnown ==
    /\ \A m \in Makers : Creating(m) => making[m].pair \in Pairs
    /\ \A c \in Clients : making[c] # None => making[c].who \in Users
    /\ making[Boot] # None => server = "boot"

\* A making that runs by itself is the only one, and its .ek is its own.
AloneMakes ==
    \A m \in Makers : Creating(m) /\ making[m].alone =>
        /\ CreatorsOf(making[m].who) = {m}
        /\ making[m].at \in {"sk", "sk filled"} => ek[making[m].who] = making[m].pair

\* A keystore that was not replaced has had one pair of which anything was
\* written: whoever makes its keys has not found a pair there.
FirstPair ==
    \A p \in Principals \ rotated :
        /\ sk[p] \in Pairs => sk[p] = ek[p]
        /\ \A m \in CreatorsOf(p) :
              /\ CreatorsOf(p) = {m}
              /\ sk[p] \notin Pairs
              /\ making[m].at = "ek" => ek[p] = None
              /\ making[m].at = "ek filled" => ek[p] = Empty
              /\ making[m].at \in {"sk", "sk filled"} => ek[p] = making[m].pair

\* That pair is what sessions hold and what files are sealed to.
OfFirstPair ==
    /\ \A i \in Ids : sessions[i] # None /\ sessions[i].user \notin rotated =>
          sessions[i].secrets = ek[sessions[i].user]
    /\ shared_secrets # None /\ Shared \notin rotated => shared_secrets = ek[Shared]
    /\ \A f \in files :
          /\ f.space \notin rotated => f.key = ek[f.space]
          /\ f.wrap # None /\ Shared \notin rotated => f.wrap = ek[Shared]

IndInv ==
    /\ TypeOK
    /\ MakersKnown
    /\ AloneMakes
    /\ PairMatches
    /\ FirstPair
    /\ OfFirstPair
=============================================================================
