----------------------------- MODULE AuthProofs -----------------------------
(***************************************************************************)
(* Proofs about module Auth, for any number of users, logins, tools, pairs *)
(* and files.                                                              *)
(***************************************************************************)
EXTENDS Auth, TLAPS

-----------------------------------------------------------------------------
(* Types.                                                                  *)

LEMMA NoneIsNoValue ==
    /\ None \notin Making /\ None \notin Session /\ None \notin Pairs
    /\ None # Empty /\ Empty \notin Pairs /\ Shared \in Principals /\ Boot \in Makers
  BY AuthAssumption DEF Principals, Makers

\* The step at which a making begins is the writing of the .ek.
LEMMA StartType ==
  ASSUME TypeOK, NEW m \in Makers, NEW p \in Principals, NEW over, StartCreate(m, p, over)
  PROVE  /\ used' \in 1..MaxPairs /\ used' \in 0..MaxPairs
         /\ making' \in [Makers -> Making \cup {None}]
         /\ making'[m] = [at |-> "ek", who |-> p, pair |-> used', alone |-> CreatorsOf(p) = {}]
         /\ making'[m] \in Making
         /\ \A n \in Makers : n # m =>
              making'[n] = IF n \in CreatorsOf(p) THEN [making[n] EXCEPT !.alone = FALSE]
                                                  ELSE making[n]
         /\ rotated' \subseteq Principals /\ torn' = torn
<1>1. used' \in 1..MaxPairs /\ used' \in 0..MaxPairs
  BY AuthAssumption DEF StartCreate, TypeOK
<1> DEFINE r == [at |-> "ek", who |-> p, pair |-> used', alone |-> CreatorsOf(p) = {}]
<1>2. r \in Making
  BY <1>1 DEF Making, Steps, Pairs
<1>3. \A n \in CreatorsOf(p) : [making[n] EXCEPT !.alone = FALSE] \in Making
  BY DEF CreatorsOf, Creating, TypeOK, Making
<1>4. making' = [n \in Makers |-> IF n = m THEN r
                    ELSE IF n \in CreatorsOf(p) THEN [making[n] EXCEPT !.alone = FALSE]
                                                ELSE making[n]]
  BY DEF StartCreate, FirstWrite
<1> HIDE DEF r
<1>5. making' \in [Makers -> Making \cup {None}]
  BY <1>2, <1>3, <1>4 DEF TypeOK
<1>6. rotated' \subseteq Principals /\ torn' = torn
  BY DEF StartCreate, TypeOK
<1> QED
  BY <1>1, <1>2, <1>4, <1>5, <1>6 DEF r

\* Going on to unlock, and going on with the next file.
LEMMA GoType ==
  ASSUME TypeOK, NEW m \in Makers
  PROVE  /\ \A p \in Principals : GoUnlock(m, p) =>
              /\ making' \in [Makers -> Making \cup {None}]
              /\ making'[m].who = p /\ making'[m].at = "unlock"
              /\ \A n \in Makers : n # m => making'[n] = making[n]
         /\ Gone(m) =>
              /\ making' \in [Makers -> Making \cup {None}]
              /\ making'[m] = None
              /\ \A n \in Makers : n # m => making'[n] = making[n]
         /\ \A at \in Steps : making[m] # None /\ Goto(m, at) =>
              /\ making' \in [Makers -> Making \cup {None}]
              /\ making'[m] \in Making /\ making'[m] # None
              /\ making'[m].at = at /\ making'[m].who = making[m].who
              /\ making'[m].pair = making[m].pair /\ making'[m].alone = making[m].alone
              /\ \A n \in Makers : n # m => making'[n] = making[n]
<1>1. ASSUME NEW p \in Principals, GoUnlock(m, p)
      PROVE  /\ making' \in [Makers -> Making \cup {None}]
             /\ making'[m].who = p /\ making'[m].at = "unlock"
             /\ \A n \in Makers : n # m => making'[n] = making[n]
  <2> DEFINE r == [at |-> "unlock", who |-> p, pair |-> None, alone |-> TRUE]
  <2>1. r \in Making /\ r.who = p /\ r.at = "unlock"
    BY DEF Making, Steps
  <2>2. making' = [making EXCEPT ![m] = r]
    BY <1>1 DEF GoUnlock
  <2> HIDE DEF r
  <2> QED
    BY <2>1, <2>2 DEF TypeOK
<1>2. ASSUME Gone(m)
      PROVE  /\ making' \in [Makers -> Making \cup {None}]
             /\ making'[m] = None
             /\ \A n \in Makers : n # m => making'[n] = making[n]
  BY <1>2 DEF Gone, TypeOK
<1>3. ASSUME NEW at \in Steps, making[m] # None, Goto(m, at)
      PROVE  /\ making' \in [Makers -> Making \cup {None}]
             /\ making'[m] \in Making /\ making'[m] # None
             /\ making'[m].at = at /\ making'[m].who = making[m].who
             /\ making'[m].pair = making[m].pair /\ making'[m].alone = making[m].alone
             /\ \A n \in Makers : n # m => making'[n] = making[n]
  <2>1. making[m] \in Making
    BY <1>3 DEF TypeOK
  <2>2. /\ [making[m] EXCEPT !.at = at] \in Making
        /\ [making[m] EXCEPT !.at = at].at = at
        /\ [making[m] EXCEPT !.at = at].who = making[m].who
        /\ [making[m] EXCEPT !.at = at].pair = making[m].pair
        /\ [making[m] EXCEPT !.at = at].alone = making[m].alone
    BY <2>1 DEF Making
  <2>3. making' = [making EXCEPT ![m] = [making[m] EXCEPT !.at = at]]
    BY <1>3 DEF Goto
  <2> QED
    BY <2>2, <2>3, NoneIsNoValue DEF TypeOK
<1> QED
  BY <1>1, <1>2, <1>3

\* One step of a making.
LEMMA CreateType ==
  ASSUME TypeOK, MakersKnown, NEW m \in Makers, CreateStep(m)
  PROVE  TypeOK'
<1>1. /\ making[m] \in Making /\ making[m] # None /\ making[m].who \in Principals
      /\ making[m].pair \in Pairs
  BY DEF CreateStep, TruncateEk, FillEk, TruncateSk, FillSk, CreateFails, At, Creating,
         MakersKnown, TypeOK, Making
<1>2. /\ ek' \in [Principals -> KeyFile] /\ sk' \in [Principals -> KeyFile]
  BY <1>1 DEF CreateStep, TruncateEk, FillEk, TruncateSk, FillSk, CreateFails, TypeOK,
              KeyFile, disk
<1>3. making' \in [Makers -> Making \cup {None}]
  BY <1>1, GoType DEF CreateStep, TruncateEk, FillEk, TruncateSk, FillSk, CreateFails,
                      AfterCreate, Steps
<1>4. torn' \subseteq Principals /\ rotated' = rotated /\ used' = used
  BY <1>1 DEF CreateStep, TruncateEk, FillEk, TruncateSk, FillSk, CreateFails, TypeOK, history
<1>5. /\ server' \in {"down", "boot", "up"}
      /\ UNCHANGED <<shared_secrets, sessions, files>>
  BY DEF CreateStep, CreateFails, TypeOK
<1> QED
  BY <1>2, <1>3, <1>4, <1>5 DEF TypeOK

\* The steps of the server that change who makes what.
LEMMA ServerType ==
  ASSUME TypeOK,
         \/ \E m \in Tools, p \in Principals : InitKeys(m, p)
         \/ BootLocked \/ BootUnlocking \/ BootUnlock \/ Crash
         \/ \E c \in Clients, u \in Users : StartLogin(c, u)
         \/ \E c \in Clients : Refuse(c)
  PROVE  TypeOK'
<1>1. ASSUME NEW m \in Tools, NEW p \in Principals, InitKeys(m, p)
      PROVE  TypeOK'
  <2>1. m \in Makers
    BY DEF Makers
  <2> QED
    BY <1>1, <2>1, StartType DEF InitKeys, TypeOK, disk
<1>2. CASE BootLocked
  BY <1>2 DEF BootLocked, TypeOK, disk, history
<1>3. CASE BootUnlocking
  <2>1. /\ making' \in [Makers -> Making \cup {None}] /\ used' \in 0..MaxPairs
        /\ rotated' \subseteq Principals /\ torn' = torn
    BY <1>3, StartType, GoType, NoneIsNoValue DEF BootUnlocking, TypeOK, history
  <2> QED
    BY <1>3, <2>1 DEF BootUnlocking, TypeOK, disk
<1>4. CASE BootUnlock
  BY <1>4, GoType, NoneIsNoValue DEF BootUnlock, TypeOK, disk, history
<1>5. CASE Crash
  <2>1. \A m \in Makers : Creating(m) => making[m].who \in Principals
    BY DEF Creating, TypeOK, Making
  <2>2. torn' \subseteq Principals
    BY <1>5, <2>1 DEF Crash, TypeOK, Makers
  <2>3. making' \in [Makers -> Making \cup {None}]
    BY <1>5 DEF Crash, TypeOK
  <2> QED
    BY <1>5, <2>2, <2>3 DEF Crash, TypeOK, disk
<1>6. ASSUME NEW c \in Clients, NEW u \in Users, StartLogin(c, u)
      PROVE  TypeOK'
  <2>1. c \in Makers /\ u \in Principals
    BY DEF Makers, Principals
  <2>2. /\ making' \in [Makers -> Making \cup {None}] /\ used' \in 0..MaxPairs
        /\ rotated' \subseteq Principals /\ torn' = torn
    BY <1>6, <2>1, StartType, GoType DEF StartLogin, TypeOK, history
  <2> QED
    BY <1>6, <2>2 DEF StartLogin, TypeOK, disk
<1>7. ASSUME NEW c \in Clients, Refuse(c)
      PROVE  TypeOK'
  <2>1. c \in Makers
    BY DEF Makers
  <2> QED
    BY <1>7, <2>1, GoType DEF Refuse, TypeOK, disk, history
<1> QED
  BY <1>1, <1>2, <1>3, <1>4, <1>5, <1>6, <1>7

\* The steps of sessions.
LEMMA SessionType ==
  ASSUME TypeOK, MakersKnown,
         \/ \E c \in Clients, i \in Ids : Unlock(c, i)
         \/ \E i \in Ids : Get(i) \/ Logout(i) \/ \E p \in Principals : Seal(i, p)
         \/ Purge \/ Tick
  PROVE  TypeOK'
<1>0. \A s \in Session : [s EXCEPT !.idle = 0] \in Session
  BY AuthAssumption DEF Session
<1>1. ASSUME NEW c \in Clients, NEW i \in Ids, Unlock(c, i)
      PROVE  TypeOK'
  <2>1. c \in Makers /\ making[c] # None
    BY <1>1 DEF Makers, Unlock, At
  <2>2. [user |-> making[c].who, secrets |-> sk[making[c].who], idle |-> 0] \in Session
    BY <1>1, <2>1, AuthAssumption DEF Unlock, MakersKnown, Session
  <2>3. sessions' \in [Ids -> Session \cup {None}]
    BY <1>1, <2>2 DEF Unlock, TypeOK
  <2> QED
    BY <1>1, <2>1, <2>3, GoType DEF Unlock, TypeOK, disk, history
<1>2. ASSUME NEW i \in Ids, Get(i) \/ Logout(i)
      PROVE  TypeOK'
  <2>1. sessions' \in [Ids -> Session \cup {None}]
    BY <1>0, <1>2 DEF Get, Logout, TypeOK
  <2> QED
    BY <1>2, <2>1 DEF Get, Logout, TypeOK, disk, history
<1>3. ASSUME NEW i \in Ids, NEW p \in Principals, Seal(i, p)
      PROVE  TypeOK'
  <2>1. sessions' \in [Ids -> Session \cup {None}]
    <3>1. sessions[i] \in Session /\ sessions' = [sessions EXCEPT ![i] = [sessions[i] EXCEPT !.idle = 0]]
      BY <1>3 DEF Seal, TypeOK
    <3> QED
      BY <1>0, <3>1 DEF TypeOK
  <2>2. (IF p = Shared THEN None ELSE ek[Shared]) \in Pairs \cup {None}
    BY <1>3, NoneIsNoValue DEF Seal, TypeOK, KeyFile
  <2>3. files' \subseteq [space : Principals, key : Pairs, wrap : Pairs \cup {None}]
    BY <1>3, <2>2 DEF Seal, TypeOK
  <2> QED
    BY <1>3, <2>1, <2>3 DEF Seal, TypeOK, disk, history
<1>4. CASE Purge \/ Tick
  <2>1. sessions' \in [Ids -> Session \cup {None}]
    <3>1. CASE Purge
      BY <3>1 DEF Purge, TypeOK
    <3>2. CASE Tick
      <4>1. \A s \in Session : ~(s.idle > TTL) => [s EXCEPT !.idle = @ + 1] \in Session
        BY AuthAssumption DEF Session
      <4> QED
        BY <3>2, <4>1 DEF Tick, TypeOK
    <3> QED
      BY <1>4, <3>1, <3>2
  <2> QED
    BY <1>4, <2>1 DEF Purge, Tick, TypeOK, disk, history
<1> QED
  BY <1>1, <1>2, <1>3, <1>4

\* Every step keeps the types.
LEMMA TypeNext == TypeOK /\ MakersKnown /\ [Next]_vars => TypeOK'
<1>1. TypeOK /\ UNCHANGED vars => TypeOK'
  BY DEF vars, disk, history, TypeOK
<1> QED
  BY <1>1, CreateType, ServerType, SessionType DEF Next
-----------------------------------------------------------------------------
(* The two key files.                                                      *)

KeysInv == AloneMakes /\ PairMatches /\ FirstPair

\* Nothing is written and nothing begins; a making that does not go on is
\* counted as broken off.
Leaving ==
    /\ \A m \in Makers : Creating(m)' => Creating(m) /\ making'[m] = making[m]
    /\ \A m \in Makers : Creating(m) /\ ~Creating(m)' => making[m].who \in torn'
    /\ torn \subseteq torn' /\ rotated' = rotated /\ UNCHANGED disk

LEMMA LeavingKeeps == KeysInv /\ Leaving => KeysInv'
<1> SUFFICES ASSUME KeysInv, Leaving
             PROVE  KeysInv'
  OBVIOUS
<1>1. \A p : CreatorsOf(p)' \subseteq CreatorsOf(p)
  BY DEF Leaving, CreatorsOf
<1>2. AloneMakes'
  <2> SUFFICES ASSUME NEW m \in Makers, Creating(m)', making'[m].alone
               PROVE  /\ CreatorsOf(making[m].who)' = {m}
                      /\ making'[m].at \in {"sk", "sk filled"} =>
                            ek'[making'[m].who] = making'[m].pair
    BY DEF AloneMakes
  <2>1. Creating(m) /\ making'[m] = making[m] /\ ek' = ek
    BY DEF Leaving, disk
  <2>2. PICK p : p = making[m].who
    OBVIOUS
  <2>3. CreatorsOf(p) = {m} /\ making[m].alone
    BY <2>1, <2>2 DEF KeysInv, AloneMakes
  <2>4. m \in CreatorsOf(p)'
    BY <2>1, <2>2 DEF CreatorsOf
  <2>5. CreatorsOf(p)' = {m}
    BY <1>1, <2>3, <2>4
  <2> QED
    BY <2>1, <2>2, <2>3, <2>5 DEF KeysInv, AloneMakes, CreatorsOf
<1>3. PairMatches'
  <2> SUFFICES ASSUME NEW p \in Principals, p \notin torn', CreatorsOf(p)' = {}
               PROVE  ek'[p] = sk'[p]
    BY DEF PairMatches
  <2>1. CreatorsOf(p) = {}
    BY DEF Leaving, CreatorsOf
  <2> QED
    BY <2>1 DEF KeysInv, PairMatches, Leaving, disk
<1>4. FirstPair'
  <2> SUFFICES ASSUME NEW p \in Principals, p \notin rotated'
               PROVE  /\ sk'[p] \in Pairs => sk'[p] = ek'[p]
                      /\ \A m \in CreatorsOf(p)' :
                            /\ CreatorsOf(p)' = {m}
                            /\ sk'[p] \notin Pairs
                            /\ making'[m].at = "ek" => ek'[p] = None
                            /\ making'[m].at = "ek filled" => ek'[p] = Empty
                            /\ making'[m].at \in {"sk", "sk filled"} => ek'[p] = making'[m].pair
    BY DEF FirstPair
  <2>1. /\ p \notin rotated /\ ek' = ek /\ sk' = sk
        /\ \A m \in CreatorsOf(p)' : m \in CreatorsOf(p) /\ making'[m] = making[m]
    BY <1>1 DEF Leaving, disk, CreatorsOf
  <2>2. sk[p] \in Pairs => sk[p] = ek[p]
    BY <2>1 DEF KeysInv, FirstPair
  <2>3. ASSUME NEW m \in CreatorsOf(p)'
        PROVE  /\ CreatorsOf(p)' = {m}
               /\ sk[p] \notin Pairs
               /\ making[m].at = "ek" => ek[p] = None
               /\ making[m].at = "ek filled" => ek[p] = Empty
               /\ making[m].at \in {"sk", "sk filled"} => ek[p] = making[m].pair
    <3>1. m \in CreatorsOf(p)
      BY <2>1, <2>3
    <3>2. CreatorsOf(p) = {m}
      BY <2>1, <3>1 DEF KeysInv, FirstPair
    <3>3. CreatorsOf(p)' = {m}
      BY <1>1, <2>3, <3>2
    <3> QED
      BY <2>1, <3>1, <3>3 DEF KeysInv, FirstPair
  <2> QED
    BY <2>1, <2>2, <2>3
<1> QED
  BY <1>2, <1>3, <1>4 DEF KeysInv

\* A making begins; `over` where there was a keystore, or a part of one.
LEMMA StartKeeps ==
  ASSUME TypeOK, KeysInv, NEW m \in Makers, NEW p \in Principals, NEW over,
         StartCreate(m, p, over), ~Creating(m), ~over => ek[p] = None, UNCHANGED disk
  PROVE  KeysInv'
<1>1. /\ making'[m] = [at |-> "ek", who |-> p, pair |-> used', alone |-> CreatorsOf(p) = {}]
      /\ making'[m] \in Making
      /\ making' \in [Makers -> Making \cup {None}]
      /\ \A n \in Makers : n # m =>
           making'[n] = IF n \in CreatorsOf(p) THEN [making[n] EXCEPT !.alone = FALSE]
                                               ELSE making[n]
  BY StartType
<1>2. \A n \in CreatorsOf(p) :
         /\ making[n] \in Making
         /\ [making[n] EXCEPT !.alone = FALSE] \in Making
         /\ [making[n] EXCEPT !.alone = FALSE].alone = FALSE
         /\ [making[n] EXCEPT !.alone = FALSE].at = making[n].at
         /\ [making[n] EXCEPT !.alone = FALSE].who = making[n].who
         /\ [making[n] EXCEPT !.alone = FALSE].pair = making[n].pair
  BY DEF CreatorsOf, Creating, TypeOK, Making
<1>3. Creating(m)' /\ making'[m].who = p /\ making'[m].at = "ek"
      /\ (making'[m].alone <=> CreatorsOf(p) = {})
  <2>1. making'[m].who = p /\ making'[m].at = "ek"
    BY <1>1
  <2>2. making'[m].alone <=> CreatorsOf(p) = {}
    <3>1. PICK b \in BOOLEAN : b = (CreatorsOf(p) = {})
      OBVIOUS
    <3>2. making'[m] = [at |-> "ek", who |-> p, pair |-> used', alone |-> b]
      BY <1>1, <3>1, Zenon
    <3>3. making'[m].alone = b
      BY <3>2
    <3> QED
      BY <3>1, <3>3, Zenon
  <2> QED
    BY <1>1, <2>1, <2>2, NoneIsNoValue DEF Creating
<1>4. ASSUME NEW n \in Makers, n # m
      PROVE  /\ Creating(n)' <=> Creating(n)
             /\ Creating(n) => /\ making'[n].at = making[n].at
                               /\ making'[n].who = making[n].who
                               /\ making'[n].pair = making[n].pair
                               /\ making'[n].alone => making[n].alone /\ making[n].who # p
  <2>1. CASE n \in CreatorsOf(p)
    <3>1. Creating(n) /\ making[n].who = p
      BY <2>1 DEF CreatorsOf
    <3>2. making'[n] = [making[n] EXCEPT !.alone = FALSE]
      BY <1>1, <1>4, <2>1
    <3>3. /\ making'[n] \in Making /\ making'[n].alone = FALSE
          /\ making'[n].at = making[n].at /\ making'[n].who = making[n].who
          /\ making'[n].pair = making[n].pair
      BY <1>2, <2>1, <3>2
    <3>4. making'[n] # None
      BY <3>3, NoneIsNoValue
    <3> QED
      BY <3>1, <3>3, <3>4 DEF Creating
  <2>2. CASE n \notin CreatorsOf(p)
    BY <1>1, <1>4, <2>2 DEF CreatorsOf, Creating
  <2> QED
    BY <2>1, <2>2
<1>5. CreatorsOf(p)' = CreatorsOf(p) \cup {m} /\ m \notin CreatorsOf(p)
  BY <1>3, <1>4 DEF CreatorsOf
<1>6. \A q : q # p => CreatorsOf(q)' = CreatorsOf(q)
  BY <1>3, <1>4 DEF CreatorsOf
<1>7. ek' = ek /\ sk' = sk /\ torn' = torn /\ rotated \subseteq rotated'
      /\ (p \notin rotated' => ~over /\ CreatorsOf(p) = {})
  BY DEF StartCreate, disk
<1>8. AloneMakes'
  <2> SUFFICES ASSUME NEW n \in Makers, Creating(n)', making'[n].alone
               PROVE  /\ CreatorsOf(making[n].who)' = {n}
                      /\ making'[n].at \in {"sk", "sk filled"} =>
                            ek'[making'[n].who] = making'[n].pair
    BY DEF AloneMakes
  <2>1. PICK q : q = making'[n].who
    OBVIOUS
  <2>2. /\ CreatorsOf(q)' = {n}
        /\ making'[n].at \in {"sk", "sk filled"} => ek'[q] = making'[n].pair
    <3>1. CASE n = m
      BY <1>3, <1>5, <2>1, <3>1
    <3>2. CASE n # m
      BY <1>4, <1>6, <1>7, <2>1, <3>2 DEF KeysInv, AloneMakes
    <3> QED
      BY <3>1, <3>2
  <2> QED
    BY <2>1, <2>2 DEF CreatorsOf
<1>9. PairMatches'
  <2> SUFFICES ASSUME NEW q \in Principals, q \notin torn', CreatorsOf(q)' = {}
               PROVE  ek'[q] = sk'[q]
    BY DEF PairMatches
  <2>1. q # p
    BY <1>5
  <2> QED
    BY <1>6, <1>7, <2>1 DEF KeysInv, PairMatches
<1>10. FirstPair'
  <2> SUFFICES ASSUME NEW q \in Principals, q \notin rotated'
               PROVE  /\ sk'[q] \in Pairs => sk'[q] = ek'[q]
                      /\ \A n \in CreatorsOf(q)' :
                            /\ CreatorsOf(q)' = {n}
                            /\ sk'[q] \notin Pairs
                            /\ making'[n].at = "ek" => ek'[q] = None
                            /\ making'[n].at = "ek filled" => ek'[q] = Empty
                            /\ making'[n].at \in {"sk", "sk filled"} => ek'[q] = making'[n].pair
    BY DEF FirstPair
  <2>1. q \notin rotated /\ (sk[q] \in Pairs => sk[q] = ek[q])
    BY <1>7 DEF KeysInv, FirstPair
  <2>2. CASE q = p
    <3>1. CreatorsOf(q)' = {m} /\ ek[q] = None /\ sk[q] \notin Pairs
      BY <1>5, <1>7, <2>1, <2>2, NoneIsNoValue
    <3>2. sk'[q] \notin Pairs /\ ek'[q] = None
      BY <1>7, <3>1
    <3>3. making'[m].at = "ek"
      BY <1>3
    <3>4. \A n \in CreatorsOf(q)' : n = m
      BY <3>1
    <3> QED
      BY <3>1, <3>2, <3>3, <3>4
  <2>3. CASE q # p
    <3>1. CreatorsOf(q)' = CreatorsOf(q)
      BY <1>6, <2>3
    <3>2. \A n \in CreatorsOf(q) : /\ making'[n].at = making[n].at
                                   /\ making'[n].pair = making[n].pair
      BY <1>4 DEF CreatorsOf
    <3>3. ASSUME NEW n \in CreatorsOf(q)
          PROVE  /\ CreatorsOf(q) = {n}
                 /\ sk[q] \notin Pairs
                 /\ making[n].at = "ek" => ek[q] = None
                 /\ making[n].at = "ek filled" => ek[q] = Empty
                 /\ making[n].at \in {"sk", "sk filled"} => ek[q] = making[n].pair
      BY <2>1 DEF KeysInv, FirstPair
    <3> QED
      BY <1>7, <2>1, <3>1, <3>2, <3>3
  <2> QED
    BY <2>2, <2>3
<1> QED
  BY <1>8, <1>9, <1>10 DEF KeysInv
\* A making goes on with its files: the other makings are not touched.
LEMMA WriteKeeps ==
  ASSUME TypeOK, MakersKnown, KeysInv, NEW m \in Makers,
         TruncateEk(m) \/ FillEk(m) \/ TruncateSk(m)
  PROVE  KeysInv'
<1>1. making[m] \in Making /\ making[m] # None /\ Creating(m) /\ making[m].pair \in Pairs
  BY DEF TruncateEk, FillEk, TruncateSk, At, Creating, MakersKnown, TypeOK
<1>2. PICK p \in Principals : p = making[m].who
  BY <1>1 DEF Making
<1>3. PICK k \in Pairs : k = making[m].pair
  BY <1>1
<1>4. /\ making'[m] \in Making /\ making'[m] # None /\ making'[m].at # "unlock"
      /\ making'[m].who = p /\ making'[m].pair = k /\ making'[m].alone = making[m].alone
      /\ \A n \in Makers : n # m => making'[n] = making[n]
  BY <1>1, <1>2, <1>3, GoType DEF TruncateEk, FillEk, TruncateSk, At, Steps
<1>5. /\ \A q \in Principals : q # p => ek'[q] = ek[q] /\ sk'[q] = sk[q]
      /\ \/ making[m].at = "ek" /\ making'[m].at = "ek filled" /\ ek'[p] = Empty /\ sk'[p] = sk[p]
         \/ making[m].at = "ek filled" /\ making'[m].at = "sk" /\ ek'[p] = k /\ sk'[p] = sk[p]
         \/ /\ making[m].at = "sk" /\ making'[m].at = "sk filled"
            /\ ek'[p] = ek[p] /\ sk'[p] = Empty
      /\ rotated' = rotated /\ torn' = torn
  <2>1. making[m] # None
    BY <1>1
  <2>2. CASE TruncateEk(m)
    BY <1>2, <2>1, <2>2, GoType DEF TruncateEk, At, Steps, TypeOK, history
  <2>3. CASE FillEk(m)
    BY <1>2, <1>3, <2>1, <2>3, GoType DEF FillEk, At, Steps, TypeOK, history
  <2>4. CASE TruncateSk(m)
    BY <1>2, <2>1, <2>4, GoType DEF TruncateSk, At, Steps, TypeOK, history
  <2> QED
    BY <2>2, <2>3, <2>4
<1>6. /\ \A n \in Makers : Creating(n)' <=> Creating(n)
      /\ \A n \in Makers : Creating(n) => making'[n].who = making[n].who
  BY <1>1, <1>2, <1>4 DEF Creating
<1>7. \A q : CreatorsOf(q)' = CreatorsOf(q)
  BY <1>6 DEF CreatorsOf
<1>8. m \in CreatorsOf(p)
  BY <1>1, <1>2 DEF CreatorsOf
<1>9. AloneMakes'
  <2> SUFFICES ASSUME NEW n \in Makers, Creating(n)', making'[n].alone
               PROVE  /\ CreatorsOf(making[n].who)' = {n}
                      /\ making'[n].at \in {"sk", "sk filled"} =>
                            ek'[making'[n].who] = making'[n].pair
    BY DEF AloneMakes
  <2>0. Creating(n)
    BY <1>6
  <2>1. PICK q \in Principals : q = making[n].who
    BY <2>0 DEF Creating, TypeOK, Making
  <2>2. Creating(n) /\ making'[n].who = q
    BY <1>6, <2>0, <2>1
  <2>3. making[n].alone
    <3>1. CASE n = m
      BY <1>4, <3>1
    <3>2. CASE n # m
      BY <1>4, <3>2
    <3> QED
      BY <3>1, <3>2
  <2>4. /\ CreatorsOf(q) = {n}
        /\ making[n].at \in {"sk", "sk filled"} => ek[q] = making[n].pair
    BY <2>1, <2>2, <2>3 DEF KeysInv, AloneMakes
  <2>5. CASE n = m
    <3>1. q = p /\ making'[m].pair = k
      BY <1>2, <1>4, <2>1, <2>5
    <3>2. making'[m].at \in {"sk", "sk filled"} => ek'[p] = k
      BY <1>3, <1>5, <2>4, <2>5, <3>1
    <3>3. CreatorsOf(making[n].who)' = CreatorsOf(q)
      BY <1>7, <2>2 DEF CreatorsOf
    <3> QED
      BY <1>4, <2>2, <2>4, <2>5, <3>1, <3>2, <3>3
  <2>6. CASE n # m
    <3>1. q # p
      BY <1>8, <2>4, <2>6
    <3>2. CreatorsOf(making[n].who)' = CreatorsOf(q)
      BY <1>7, <2>2 DEF CreatorsOf
    <3> QED
      BY <1>4, <1>5, <2>1, <2>2, <2>4, <2>6, <3>1, <3>2
  <2> QED
    BY <2>5, <2>6
<1>10. PairMatches'
  <2> SUFFICES ASSUME NEW q \in Principals, q \notin torn', CreatorsOf(q)' = {}
               PROVE  ek'[q] = sk'[q]
    BY DEF PairMatches
  <2>1. q # p /\ CreatorsOf(q) = {}
    BY <1>7, <1>8
  <2> QED
    BY <1>5, <2>1 DEF KeysInv, PairMatches
<1>11. FirstPair'
  <2> SUFFICES ASSUME NEW q \in Principals, q \notin rotated'
               PROVE  /\ sk'[q] \in Pairs => sk'[q] = ek'[q]
                      /\ \A n \in CreatorsOf(q)' :
                            /\ CreatorsOf(q)' = {n}
                            /\ sk'[q] \notin Pairs
                            /\ making'[n].at = "ek" => ek'[q] = None
                            /\ making'[n].at = "ek filled" => ek'[q] = Empty
                            /\ making'[n].at \in {"sk", "sk filled"} => ek'[q] = making'[n].pair
    BY DEF FirstPair
  <2>1. /\ q \notin rotated
        /\ sk[q] \in Pairs => sk[q] = ek[q]
    BY <1>5 DEF KeysInv, FirstPair
  <2>2. ASSUME NEW n \in CreatorsOf(q)
        PROVE  /\ CreatorsOf(q) = {n}
               /\ sk[q] \notin Pairs
               /\ making[n].at = "ek" => ek[q] = None
               /\ making[n].at = "ek filled" => ek[q] = Empty
               /\ making[n].at \in {"sk", "sk filled"} => ek[q] = making[n].pair
    BY <2>1 DEF KeysInv, FirstPair
  <2>3. CASE q = p
    <3>1. CreatorsOf(p)' = {m} /\ sk[p] \notin Pairs
      BY <1>7, <1>8, <2>2, <2>3
    <3>2. /\ making[m].at = "sk" => ek[p] = k
      BY <1>3, <1>8, <2>2, <2>3
    <3>3. sk'[p] \notin Pairs
      BY <1>5, <3>1, NoneIsNoValue
    <3>4. /\ making'[m].at # "ek"
          /\ making'[m].at = "ek filled" => ek'[p] = Empty
          /\ making'[m].at \in {"sk", "sk filled"} => ek'[p] = k
      BY <1>5, <3>2
    <3> QED
      BY <1>4, <2>3, <3>1, <3>3, <3>4
  <2>4. CASE q # p
    <3>1. \A n \in CreatorsOf(q) : n # m /\ n \in Makers
      BY <1>2, <2>4 DEF CreatorsOf
    <3>2. \A n \in CreatorsOf(q) : making'[n] = making[n]
      BY <1>4, <3>1
    <3> QED
      BY <1>5, <1>7, <2>1, <2>2, <2>4, <3>2
  <2> QED
    BY <2>3, <2>4
<1> QED
  BY <1>9, <1>10, <1>11 DEF KeysInv

\* The making ends: what it was alone with is a pair.
LEMMA FillSkKeeps ==
  ASSUME TypeOK, MakersKnown, KeysInv, NEW m \in Makers, FillSk(m)
  PROVE  KeysInv'
<1>1. /\ making[m] \in Making /\ making[m] # None /\ Creating(m) /\ making[m].pair \in Pairs
      /\ making[m].at = "sk filled"
  BY DEF FillSk, At, Creating, MakersKnown, TypeOK
<1>2. PICK p \in Principals : p = making[m].who
  BY <1>1 DEF Making
<1>3. PICK k \in Pairs : k = making[m].pair
  BY <1>1
<1>4. ~Creating(m)' /\ \A n \in Makers : n # m => making'[n] = making[n]
  <2>1. CASE m \in Tools
    BY <2>1, GoType DEF FillSk, AfterCreate, Creating
  <2>2. CASE m \notin Tools
    <3>1. GoUnlock(m, p)
      BY <1>2, <2>2 DEF FillSk, AfterCreate
    <3> QED
      BY <3>1, GoType DEF Creating
  <2> QED
    BY <2>1, <2>2
<1>5. /\ ek' = ek /\ sk'[p] = k /\ \A q \in Principals : q # p => sk'[q] = sk[q]
      /\ rotated' = rotated
      /\ p \notin torn' => making[m].alone
      /\ \A q : q # p /\ q \in torn => q \in torn'
  BY <1>2, <1>3 DEF FillSk, TypeOK
<1>6. \A q : CreatorsOf(q)' = CreatorsOf(q) \ {m}
  BY <1>4 DEF CreatorsOf, Creating
<1>7. m \in CreatorsOf(p) /\ \A q : q # p => m \notin CreatorsOf(q)
  BY <1>1, <1>2 DEF CreatorsOf
<1>8. \A n \in Makers : Creating(n)' => n # m /\ Creating(n) /\ making'[n] = making[n]
  BY <1>4 DEF Creating
<1>9. AloneMakes'
  <2> SUFFICES ASSUME NEW n \in Makers, Creating(n)', making'[n].alone
               PROVE  /\ CreatorsOf(making[n].who)' = {n}
                      /\ making'[n].at \in {"sk", "sk filled"} =>
                            ek'[making'[n].who] = making'[n].pair
    BY DEF AloneMakes
  <2>1. PICK q : q = making[n].who
    OBVIOUS
  <2>2. Creating(n) /\ making'[n] = making[n] /\ n # m
    BY <1>8
  <2>3. /\ CreatorsOf(q) = {n}
        /\ making[n].at \in {"sk", "sk filled"} => ek[q] = making[n].pair
    BY <2>1, <2>2 DEF KeysInv, AloneMakes
  <2>4. CreatorsOf(q)' = {n}
    BY <1>6, <2>2, <2>3
  <2> QED
    BY <1>5, <2>1, <2>2, <2>3, <2>4 DEF CreatorsOf
<1>10. PairMatches'
  <2> SUFFICES ASSUME NEW q \in Principals, q \notin torn', CreatorsOf(q)' = {}
               PROVE  ek'[q] = sk'[q]
    BY DEF PairMatches
  <2>1. CASE q = p
    <3>1. ek[p] = k
      BY <1>1, <1>2, <1>3, <1>5, <2>1 DEF KeysInv, AloneMakes
    <3> QED
      BY <1>5, <2>1, <3>1
  <2>2. CASE q # p
    <3>1. CreatorsOf(q) = {} /\ q \notin torn
      BY <1>5, <1>6, <1>7, <2>2
    <3> QED
      BY <1>5, <2>2, <3>1 DEF KeysInv, PairMatches
  <2> QED
    BY <2>1, <2>2
<1>11. FirstPair'
  <2> SUFFICES ASSUME NEW q \in Principals, q \notin rotated'
               PROVE  /\ sk'[q] \in Pairs => sk'[q] = ek'[q]
                      /\ \A n \in CreatorsOf(q)' :
                            /\ CreatorsOf(q)' = {n}
                            /\ sk'[q] \notin Pairs
                            /\ making'[n].at = "ek" => ek'[q] = None
                            /\ making'[n].at = "ek filled" => ek'[q] = Empty
                            /\ making'[n].at \in {"sk", "sk filled"} => ek'[q] = making'[n].pair
    BY DEF FirstPair
  <2>1. /\ q \notin rotated
        /\ sk[q] \in Pairs => sk[q] = ek[q]
    BY <1>5 DEF KeysInv, FirstPair
  <2>2. ASSUME NEW n \in CreatorsOf(q)
        PROVE  /\ CreatorsOf(q) = {n}
               /\ sk[q] \notin Pairs
               /\ making[n].at = "ek" => ek[q] = None
               /\ making[n].at = "ek filled" => ek[q] = Empty
               /\ making[n].at \in {"sk", "sk filled"} => ek[q] = making[n].pair
    BY <2>1 DEF KeysInv, FirstPair
  <2>3. CASE q = p
    <3>1. CreatorsOf(p)' = {} /\ ek[p] = k
      BY <1>1, <1>3, <1>6, <1>7, <2>2, <2>3
    <3> QED
      BY <1>5, <2>3, <3>1
  <2>4. CASE q # p
    <3>1. CreatorsOf(q)' = CreatorsOf(q)
      BY <1>6, <1>7, <2>4
    <3>2. \A n \in CreatorsOf(q) : n # m /\ n \in Makers
      BY <1>7, <2>4 DEF CreatorsOf
    <3>3. \A n \in CreatorsOf(q) : making'[n] = making[n]
      BY <1>4, <3>2
    <3> QED
      BY <1>5, <2>1, <2>2, <2>4, <3>1, <3>3
  <2> QED
    BY <2>3, <2>4
<1> QED
  BY <1>9, <1>10, <1>11 DEF KeysInv
\* Going straight on to unlock, or away, when no keys were being made.
LEMMA UnlockingLeaves ==
  ASSUME TypeOK, NEW m \in Makers, ~Creating(m), UNCHANGED <<disk, history>>,
         Gone(m) \/ \E p \in Principals : GoUnlock(m, p)
  PROVE  Leaving
<1>1. ~Creating(m)' /\ \A n \in Makers : n # m => making'[n] = making[n]
  BY GoType DEF Creating
<1> QED
  BY <1>1 DEF Leaving, Creating, disk, history

\* Every step keeps what the key files and their makings are to each other.
LEMMA KeysNext == IndInv /\ [Next]_vars => KeysInv'
<1> SUFFICES ASSUME IndInv, [Next]_vars
             PROVE  KeysInv'
  OBVIOUS
<1> USE DEF IndInv
<1>0. KeysInv
  BY DEF KeysInv
<1>1. Leaving => KeysInv'
  BY <1>0, LeavingKeeps
<1>2. ASSUME NEW m \in Makers, CreateStep(m)
      PROVE  KeysInv'
  <2>1. CASE CreateFails(m)
    <3>1. /\ making'[m] = None /\ Creating(m)
          /\ \A n \in Makers : n # m => making'[n] = making[n]
          /\ torn' = torn \cup {making[m].who} /\ rotated' = rotated /\ UNCHANGED disk
      BY <2>1, GoType DEF CreateFails
    <3>2. Leaving
      BY <3>1 DEF Leaving, Creating
    <3> QED
      BY <1>1, <3>2
  <2>2. CASE TruncateEk(m) \/ FillEk(m) \/ TruncateSk(m)
    BY <1>0, <2>2, WriteKeeps
  <2>3. CASE FillSk(m)
    BY <1>0, <2>3, FillSkKeeps
  <2> QED
    BY <1>2, <2>1, <2>2, <2>3 DEF CreateStep
<1>3. ASSUME NEW m \in Tools, NEW p \in Principals, InitKeys(m, p)
      PROVE  KeysInv'
  <2>1. /\ m \in Makers /\ ~Creating(m) /\ UNCHANGED disk
        /\ StartCreate(m, p, ek[p] # None)
    BY <1>3 DEF InitKeys, Makers, Creating
  <2> QED
    BY <1>0, <2>1, StartKeeps
<1>4. CASE BootUnlocking
  <2>1. ~Creating(Boot) /\ UNCHANGED disk
    BY <1>4 DEF BootUnlocking, MakersKnown, Creating
  <2>2. CASE ek[Shared] = None
    BY <1>0, <1>4, <2>1, <2>2, StartKeeps, NoneIsNoValue DEF BootUnlocking
  <2>3. CASE ek[Shared] # None
    BY <1>1, <1>4, <2>1, <2>3, UnlockingLeaves, NoneIsNoValue DEF BootUnlocking
  <2> QED
    BY <2>2, <2>3
<1>5. CASE BootUnlock
  BY <1>1, <1>5, UnlockingLeaves, NoneIsNoValue DEF BootUnlock, At, Creating
<1>6. CASE Crash
  <2>1. ASSUME NEW m \in Makers
        PROVE  /\ Creating(m)' => Creating(m) /\ making'[m] = making[m]
               /\ Creating(m) /\ ~Creating(m)' => making[m].who \in torn'
    <3>1. CASE m \in Tools
      BY <1>6, <3>1 DEF Crash, Creating
    <3>2. CASE m \notin Tools
      BY <1>6, <3>2 DEF Crash, Creating, Makers
    <3> QED
      BY <3>1, <3>2
  <2>2. torn \subseteq torn' /\ rotated' = rotated /\ UNCHANGED disk
    BY <1>6 DEF Crash
  <2>3. Leaving
    BY <2>1, <2>2 DEF Leaving
  <2> QED
    BY <1>1, <2>3
<1>7. ASSUME NEW c \in Clients, NEW u \in Users, StartLogin(c, u)
      PROVE  KeysInv'
  <2>1. c \in Makers /\ u \in Principals /\ ~Creating(c) /\ UNCHANGED disk
    BY <1>7 DEF StartLogin, Makers, Principals, Creating
  <2>2. CASE MakesKeys(u)
    BY <1>0, <1>7, <2>1, <2>2, StartKeeps DEF StartLogin, MakesKeys
  <2>3. CASE ~MakesKeys(u)
    BY <1>1, <1>7, <2>1, <2>3, UnlockingLeaves DEF StartLogin
  <2> QED
    BY <2>2, <2>3
<1>8. ASSUME NEW c \in Clients, Refuse(c) \/ \E i \in Ids : Unlock(c, i)
      PROVE  KeysInv'
  <2>1. c \in Makers /\ ~Creating(c) /\ Gone(c) /\ UNCHANGED <<disk, history>>
    BY <1>8 DEF Refuse, Unlock, Makers, At, Creating
  <2> QED
    BY <1>1, <2>1, UnlockingLeaves
<1>9. ASSUME UNCHANGED <<disk, making, history>>
      PROVE  KeysInv'
  <2>1. Leaving
    BY <1>9 DEF Leaving, Creating, disk, history
  <2> QED
    BY <1>1, <2>1
<1>10. CASE BootLocked \/ Purge \/ Tick \/ UNCHANGED vars
  BY <1>9, <1>10 DEF BootLocked, Purge, Tick, vars
<1>11. ASSUME NEW i \in Ids, Get(i) \/ Logout(i) \/ \E p \in Principals : Seal(i, p)
       PROVE  KeysInv'
  BY <1>9, <1>11 DEF Get, Logout, Seal
<1> QED
  BY <1>2, <1>3, <1>4, <1>5, <1>6, <1>7, <1>8, <1>10, <1>11 DEF Next

\* Every step knows who makes what, and from which pair.
LEMMA MakersNext == IndInv /\ [Next]_vars => MakersKnown'
<1> SUFFICES ASSUME IndInv, [Next]_vars
             PROVE  MakersKnown'
  OBVIOUS
<1> USE DEF IndInv
<1>0. Boot \in Makers /\ Boot \notin Clients /\ Clients \subseteq Makers
  BY AuthAssumption DEF Makers
<1>1. ASSUME NEW m \in Makers,
             \A n \in Makers : n # m => making'[n] = making[n],
             Creating(m)' => making'[m].pair \in Pairs,
             m \in Clients /\ making'[m] # None => making'[m].who \in Users,
             making'[Boot] # None => server' = "boot"
      PROVE  MakersKnown'
  BY <1>0, <1>1 DEF MakersKnown, Creating
<1>2. ASSUME NEW m \in Makers, CreateStep(m)
      PROVE  MakersKnown'
  <2>1. /\ Creating(m) /\ making[m].pair \in Pairs /\ making[m] # None
        /\ making[m].who \in Principals
    BY <1>2 DEF CreateStep, TruncateEk, FillEk, TruncateSk, FillSk, CreateFails, At, Creating,
                MakersKnown, TypeOK, Making
  <2>2. \A n \in Makers : n # m => making'[n] = making[n]
    BY <1>2, <2>1, GoType DEF CreateStep, TruncateEk, FillEk, TruncateSk, FillSk, CreateFails,
                              AfterCreate, Steps
  <2>3. Creating(m)' => making'[m].pair \in Pairs
    BY <1>2, <2>1, GoType DEF CreateStep, TruncateEk, FillEk, TruncateSk, FillSk, CreateFails,
                              AfterCreate, Steps, Creating
  <2>4. making'[m] # None => making'[m].who = making[m].who
    BY <1>2, <2>1, GoType DEF CreateStep, TruncateEk, FillEk, TruncateSk, FillSk, CreateFails,
                              AfterCreate, Steps
  <2>5. making'[Boot] # None => server' = "boot"
    <3>1. CASE CreateFails(m)
      <4>1. making'[m] = None
        BY <3>1, GoType DEF CreateFails
      <4> QED
        BY <1>0, <2>2, <3>1, <4>1 DEF CreateFails, MakersKnown
    <3>2. CASE ~CreateFails(m)
      BY <1>0, <1>2, <2>1, <2>2, <3>2 DEF CreateStep, MakersKnown
    <3> QED
      BY <3>1, <3>2
  <2> QED
    BY <1>1, <2>1, <2>2, <2>3, <2>4, <2>5 DEF MakersKnown
<1>3. ASSUME NEW m \in Makers, NEW p \in Principals, NEW over, StartCreate(m, p, over),
             m \in Clients => p \in Users, m = Boot => server' = "boot", 
             server' = server \/ m = Boot
      PROVE  MakersKnown'
  <2>1. /\ used' \in Pairs
        /\ making'[m] = [at |-> "ek", who |-> p, pair |-> used', alone |-> CreatorsOf(p) = {}]
        /\ \A n \in Makers : n # m =>
              making'[n] = IF n \in CreatorsOf(p) THEN [making[n] EXCEPT !.alone = FALSE]
                                                  ELSE making[n]
    BY <1>3, StartType DEF Pairs
  <2>2. making'[m].pair \in Pairs /\ making'[m].who = p
    BY <2>1
  <2>3. ASSUME NEW n \in Makers, n # m
        PROVE  /\ Creating(n)' => Creating(n) /\ making'[n].pair = making[n].pair
               /\ making'[n] # None => making[n] # None /\ making'[n].who = making[n].who
    <3>1. CASE n \in CreatorsOf(p)
      <4>1. making[n] \in Making /\ Creating(n) /\ making[n] # None
        BY <3>1 DEF CreatorsOf, Creating, TypeOK
      <4>2. /\ [making[n] EXCEPT !.alone = FALSE].who = making[n].who
            /\ [making[n] EXCEPT !.alone = FALSE].pair = making[n].pair
        BY <4>1 DEF Making
      <4> QED
        BY <2>1, <2>3, <3>1, <4>1, <4>2
    <3>2. CASE n \notin CreatorsOf(p)
      BY <2>1, <2>3, <3>2 DEF Creating
    <3> QED
      BY <3>1, <3>2
  <2>4. \A n \in Makers : Creating(n)' => making'[n].pair \in Pairs
    BY <2>2, <2>3 DEF MakersKnown
  <2>5. \A c \in Clients : making'[c] # None => making'[c].who \in Users
    BY <1>0, <1>3, <2>2, <2>3 DEF MakersKnown
  <2>6. making'[Boot] # None => server' = "boot"
    BY <1>0, <1>3, <2>3 DEF MakersKnown
  <2> QED
    BY <2>4, <2>5, <2>6 DEF MakersKnown
<1>4. ASSUME NEW m \in Tools, NEW p \in Principals, InitKeys(m, p)
      PROVE  MakersKnown'
  <2>1. /\ m \in Makers /\ m \notin Clients /\ m # Boot /\ server' = server
        /\ StartCreate(m, p, ek[p] # None)
    BY <1>4, AuthAssumption DEF InitKeys, Makers
  <2> QED
    BY <1>3, <2>1
<1>5. CASE BootUnlocking
  <2>1. CASE ek[Shared] = None
    BY <1>0, <1>3, <1>5, <2>1, NoneIsNoValue DEF BootUnlocking
  <2>2. CASE ek[Shared] # None
    <3>1. /\ ~Creating(Boot)' /\ server' = "boot"
          /\ \A n \in Makers : n # Boot => making'[n] = making[n]
      BY <1>5, <2>2, GoType, NoneIsNoValue DEF BootUnlocking, Creating
    <3> QED
      BY <1>0, <1>1, <3>1
  <2> QED
    BY <2>1, <2>2
<1>6. CASE BootUnlock
  <2>1. making'[Boot] = None /\ \A n \in Makers : n # Boot => making'[n] = making[n]
    BY <1>0, <1>6, GoType DEF BootUnlock
  <2> QED
    BY <1>0, <1>1, <2>1 DEF Creating
<1>7. CASE Crash
  <2>1. \A n \in Makers : making'[n] # None => making'[n] = making[n] /\ n \in Tools
    BY <1>7 DEF Crash
  <2>2. Boot \notin Tools
    BY AuthAssumption
  <2> QED
    BY <1>0, <2>1, <2>2 DEF MakersKnown, Creating
<1>8. ASSUME NEW c \in Clients, NEW u \in Users, StartLogin(c, u)
      PROVE  MakersKnown'
  <2>1. c \in Makers /\ u \in Principals /\ c # Boot /\ server' = server
    BY <1>0, <1>8 DEF StartLogin, Principals
  <2>2. CASE MakesKeys(u)
    BY <1>3, <1>8, <2>1, <2>2 DEF StartLogin
  <2>3. CASE ~MakesKeys(u)
    <3>1. /\ ~Creating(c)' /\ making'[c].who = u
          /\ \A n \in Makers : n # c => making'[n] = making[n]
      BY <1>8, <2>1, <2>3, GoType DEF StartLogin, Creating
    <3> QED
      BY <1>0, <1>1, <2>1, <3>1 DEF MakersKnown
  <2> QED
    BY <2>2, <2>3
<1>9. ASSUME NEW c \in Clients, Refuse(c) \/ \E i \in Ids : Unlock(c, i)
      PROVE  MakersKnown'
  <2>1. /\ c \in Makers /\ c # Boot /\ server' = server /\ making'[c] = None
        /\ \A n \in Makers : n # c => making'[n] = making[n]
    BY <1>0, <1>9, GoType DEF Refuse, Unlock
  <2> QED
    BY <1>0, <1>1, <2>1 DEF MakersKnown, Creating
<1>10. CASE BootLocked
  BY <1>10 DEF BootLocked, MakersKnown, Creating
<1>11. CASE UNCHANGED <<making, server>>
  BY <1>11 DEF MakersKnown, Creating
<1>12. CASE Purge \/ Tick \/ UNCHANGED vars
  BY <1>11, <1>12 DEF Purge, Tick, vars
<1>13. ASSUME NEW i \in Ids, Get(i) \/ Logout(i) \/ \E p \in Principals : Seal(i, p)
       PROVE  MakersKnown'
  BY <1>11, <1>13 DEF Get, Logout, Seal
<1> QED
  BY <1>2, <1>4, <1>5, <1>6, <1>7, <1>8, <1>9, <1>10, <1>12, <1>13 DEF Next
-----------------------------------------------------------------------------
(* What sessions hold and what files are sealed to.                        *)

\* The .ek of a keystore that is not replaced is never written again once a
\* pair is in it.
LEMMA EkStays ==
  IndInv /\ [Next]_vars =>
      /\ rotated \subseteq rotated'
      /\ \A p \in Principals : p \notin rotated' /\ ek[p] \in Pairs => ek'[p] = ek[p]
<1> SUFFICES ASSUME IndInv, [Next]_vars
             PROVE  /\ rotated \subseteq rotated'
                    /\ \A p \in Principals : p \notin rotated' /\ ek[p] \in Pairs => ek'[p] = ek[p]
  OBVIOUS
<1> USE DEF IndInv
<1>1. CASE \E m \in Makers : CreateStep(m)
  <2> PICK m \in Makers : CreateStep(m)
    BY <1>1
  <2>1. rotated' = rotated
    BY DEF CreateStep, TruncateEk, FillEk, TruncateSk, FillSk, CreateFails, history
  <2>2. CASE TruncateEk(m) \/ FillEk(m)
    <3>1. PICK q \in Principals : q = making[m].who
      BY <2>2 DEF TruncateEk, FillEk, At, TypeOK, Making
    <3>2. m \in CreatorsOf(q)
      BY <2>2, <3>1 DEF TruncateEk, FillEk, At, CreatorsOf, Creating
    <3>3. q \notin rotated => ek[q] \notin Pairs
      BY <2>2, <3>1, <3>2, NoneIsNoValue DEF TruncateEk, FillEk, At, FirstPair
    <3>4. \A p \in Principals : p # q => ek'[p] = ek[p]
      BY <2>2, <3>1 DEF TruncateEk, FillEk, TypeOK
    <3> QED
      BY <2>1, <3>3, <3>4
  <2>3. CASE TruncateSk(m) \/ FillSk(m) \/ CreateFails(m)
    BY <2>1, <2>3 DEF TruncateSk, FillSk, CreateFails, disk
  <2> QED
    BY <2>2, <2>3 DEF CreateStep
<1>2. CASE ~\E m \in Makers : CreateStep(m)
  BY <1>2 DEF Next, InitKeys, StartCreate, BootLocked, BootUnlocking, BootUnlock, Crash,
              StartLogin, Refuse, Unlock, Get, Logout, Seal, Purge, Tick, vars, disk, history
<1> QED
  BY <1>1, <1>2

\* A session is new, and holds the pair that is in the .sk of its user, or it
\* holds what it held; so does the server with the shared pair.
LEMMA SecretsFrom ==
  IndInv /\ [Next]_vars =>
      /\ \A i \in Ids : sessions'[i] # None =>
            \/ /\ sessions[i] # None
               /\ sessions'[i].user = sessions[i].user
               /\ sessions'[i].secrets = sessions[i].secrets
            \/ /\ sessions'[i].user \in Users
               /\ sessions'[i].secrets = sk[sessions'[i].user]
               /\ sk[sessions'[i].user] \in Pairs /\ UNCHANGED <<disk, history>>
      /\ \/ shared_secrets' \in {None, shared_secrets}
         \/ /\ shared_secrets' = sk[Shared] /\ sk[Shared] \in Pairs
            /\ UNCHANGED <<disk, history>>
<1> SUFFICES ASSUME IndInv, [Next]_vars
             PROVE  /\ \A i \in Ids : sessions'[i] # None =>
                          \/ /\ sessions[i] # None
                             /\ sessions'[i].user = sessions[i].user
                             /\ sessions'[i].secrets = sessions[i].secrets
                          \/ /\ sessions'[i].user \in Users
                             /\ sessions'[i].secrets = sk[sessions'[i].user]
                             /\ sk[sessions'[i].user] \in Pairs
                             /\ UNCHANGED <<disk, history>>
                    /\ \/ shared_secrets' \in {None, shared_secrets}
                       \/ /\ shared_secrets' = sk[Shared] /\ sk[Shared] \in Pairs
                          /\ UNCHANGED <<disk, history>>
  OBVIOUS
<1> USE DEF IndInv
<1>1. ASSUME NEW c \in Clients, NEW j \in Ids, Unlock(c, j)
      PROVE  /\ \A i \in Ids : sessions'[i] # None =>
                   \/ sessions'[i] = sessions[i]
                   \/ /\ sessions'[i].user \in Users
                      /\ sessions'[i].secrets = sk[sessions'[i].user]
                      /\ sk[sessions'[i].user] \in Pairs
                      /\ UNCHANGED <<disk, history>>
             /\ shared_secrets' = shared_secrets
  <2>1. PICK u \in Users : u = making[c].who
    BY <1>1 DEF Unlock, At, MakersKnown
  <2>2. sk[u] \in Pairs /\ UNCHANGED <<disk, history>> /\ shared_secrets' = shared_secrets
    BY <1>1, <2>1 DEF Unlock
  <2>3. sessions' = [sessions EXCEPT ![j] = [user |-> u, secrets |-> sk[u], idle |-> 0]]
    BY <1>1, <2>1 DEF Unlock
  <2> QED
    BY <2>2, <2>3 DEF TypeOK
<1>2. ASSUME NEW j \in Ids, Get(j) \/ Logout(j) \/ \E p \in Principals : Seal(j, p)
      PROVE  /\ \A i \in Ids : sessions'[i] # None =>
                   /\ sessions[i] # None
                   /\ sessions'[i].user = sessions[i].user
                   /\ sessions'[i].secrets = sessions[i].secrets
             /\ shared_secrets' = shared_secrets
  <2>1. /\ sessions[j] \in Session /\ shared_secrets' = shared_secrets
        /\ \A i \in Ids : i # j => sessions'[i] = sessions[i]
        /\ sessions'[j] \in {None, [sessions[j] EXCEPT !.idle = 0]}
    BY <1>2 DEF Get, Logout, Seal, TypeOK
  <2>2. sessions[j] # None
    BY <2>1, NoneIsNoValue
  <2>3. sessions'[j] # None => /\ sessions'[j].user = sessions[j].user
                               /\ sessions'[j].secrets = sessions[j].secrets
    BY <2>1 DEF Session
  <2> QED
    BY <2>1, <2>2, <2>3
<1>3. CASE Tick
  <2> SUFFICES ASSUME NEW i \in Ids, sessions'[i] # None
               PROVE  /\ sessions[i] # None
                      /\ sessions'[i].user = sessions[i].user
                      /\ sessions'[i].secrets = sessions[i].secrets
    BY <1>3 DEF Tick
  <2>1. sessions'[i] \in {sessions[i], [sessions[i] EXCEPT !.idle = @ + 1]}
    BY <1>3 DEF Tick
  <2>2. sessions[i] # None /\ sessions[i] \in Session
    BY <1>3 DEF Tick, TypeOK
  <2> QED
    BY <2>1, <2>2 DEF Session
<1>4. CASE Purge \/ Crash
  BY <1>4 DEF Purge, Crash
<1>5. CASE BootUnlock
  BY <1>5 DEF BootUnlock
<1>6. CASE UNCHANGED <<shared_secrets, sessions>>
  BY <1>6
<1>7. CASE \/ \E m \in Makers : CreateStep(m)
           \/ \E m \in Tools, p \in Principals : InitKeys(m, p)
           \/ BootLocked \/ BootUnlocking
           \/ \E c \in Clients, u \in Users : StartLogin(c, u)
           \/ \E c \in Clients : Refuse(c)
           \/ UNCHANGED vars
  BY <1>6, <1>7 DEF CreateStep, CreateFails, InitKeys, BootLocked, BootUnlocking, StartLogin,
                    Refuse, vars
<1> QED
  BY <1>1, <1>2, <1>3, <1>4, <1>5, <1>7 DEF Next

\* A file is sealed to the keys that are on the disk at the time.
LEMMA FilesFrom ==
  IndInv /\ [Next]_vars =>
      \A f \in files' : f \notin files =>
          /\ f.space \in Principals /\ f.key = ek[f.space] /\ f.key \in Pairs
          /\ f.wrap # None => f.wrap = ek[Shared] /\ f.wrap \in Pairs
          /\ UNCHANGED <<disk, history>>
<1> SUFFICES ASSUME IndInv, [Next]_vars, NEW f \in files', f \notin files
             PROVE  /\ f.space \in Principals /\ f.key = ek[f.space] /\ f.key \in Pairs
                    /\ f.wrap # None => f.wrap = ek[Shared] /\ f.wrap \in Pairs
                    /\ UNCHANGED <<disk, history>>
  OBVIOUS
<1> USE DEF IndInv
<1>1. PICK i \in Ids, p \in Principals : Seal(i, p)
  BY DEF Next, CreateStep, CreateFails, InitKeys, BootLocked, BootUnlocking, BootUnlock, Crash,
         StartLogin, Refuse, Unlock, Get, Logout, Purge, Tick, vars
<1>2. f = [space |-> p, key |-> ek[p], wrap |-> IF p = Shared THEN None ELSE ek[Shared]]
  BY <1>1 DEF Seal
<1>3. /\ f.space = p /\ f.key = ek[p] /\ ek[p] \in Pairs
      /\ f.wrap # None => f.wrap = ek[Shared] /\ ek[Shared] \in Pairs
  BY <1>1, <1>2, NoneIsNoValue DEF Seal, TypeOK, KeyFile
<1> QED
  BY <1>1, <1>3 DEF Seal

LEMMA FirstPairNext == IndInv /\ [Next]_vars => OfFirstPair'
<1> SUFFICES ASSUME IndInv, [Next]_vars
             PROVE  OfFirstPair'
  OBVIOUS
<1> USE DEF IndInv
<1>0. /\ rotated \subseteq rotated'
      /\ \A p \in Principals : p \notin rotated' /\ ek[p] \in Pairs => ek'[p] = ek[p]
  BY EkStays
<1>1. \A p \in Principals : p \notin rotated' /\ sk[p] \in Pairs => sk[p] = ek[p]
  BY <1>0 DEF FirstPair
<1>2. ASSUME NEW i \in Ids, sessions'[i] # None, sessions'[i].user \notin rotated'
      PROVE  sessions'[i].secrets = ek'[sessions'[i].user]
  <2>1. CASE /\ sessions[i] # None
             /\ sessions'[i].user = sessions[i].user
             /\ sessions'[i].secrets = sessions[i].secrets
    <3>1. PICK u \in Principals : u = sessions[i].user
      BY <2>1 DEF TypeOK, Session, Principals
    <3>2. sessions[i].secrets \in Pairs
      BY <2>1 DEF TypeOK, Session
    <3>3. u \notin rotated' /\ u \notin rotated
      BY <1>0, <1>2, <2>1, <3>1
    <3>4. sessions[i].secrets = ek[u]
      BY <2>1, <3>1, <3>3 DEF OfFirstPair
    <3>5. ek'[u] = ek[u]
      BY <1>0, <3>2, <3>3, <3>4
    <3> QED
      BY <2>1, <3>1, <3>4, <3>5
  <2>2. CASE /\ sessions'[i].user \in Users
             /\ sessions'[i].secrets = sk[sessions'[i].user]
             /\ sk[sessions'[i].user] \in Pairs /\ UNCHANGED <<disk, history>>
    BY <1>1, <1>2, <2>2 DEF disk, Principals
  <2> QED
    BY <1>2, <2>1, <2>2, SecretsFrom
<1>3. ASSUME shared_secrets' # None, Shared \notin rotated'
      PROVE  shared_secrets' = ek'[Shared]
  <2>1. CASE shared_secrets' = shared_secrets
    <3>1. shared_secrets \in Pairs /\ shared_secrets = ek[Shared]
      BY <1>0, <1>3, <2>1 DEF OfFirstPair, TypeOK
    <3> QED
      BY <1>0, <1>3, <2>1, <3>1, NoneIsNoValue
  <2>2. CASE shared_secrets' = sk[Shared] /\ sk[Shared] \in Pairs /\ UNCHANGED <<disk, history>>
    BY <1>1, <1>3, <2>2, NoneIsNoValue DEF disk
  <2> QED
    BY <1>3, <2>1, <2>2, SecretsFrom
<1>4. ASSUME NEW f \in files'
      PROVE  /\ f.space \notin rotated' => f.key = ek'[f.space]
             /\ f.wrap # None /\ Shared \notin rotated' => f.wrap = ek'[Shared]
  <2>1. CASE f \in files
    <3>1. f.space \in Principals /\ f.key \in Pairs /\ (f.wrap # None => f.wrap \in Pairs)
      BY <2>1 DEF TypeOK
    <3>2. /\ f.space \notin rotated => f.key = ek[f.space]
          /\ f.wrap # None /\ Shared \notin rotated => f.wrap = ek[Shared]
      BY <2>1 DEF OfFirstPair
    <3> QED
      BY <1>0, <3>1, <3>2, NoneIsNoValue
  <2>2. CASE f \notin files
    BY <1>4, <2>2, FilesFrom DEF disk
  <2> QED
    BY <2>1, <2>2
<1> QED
  BY <1>2, <1>3, <1>4 DEF OfFirstPair

-----------------------------------------------------------------------------
(* The theorems.                                                           *)

LEMMA InitInv == Init => IndInv
<1> SUFFICES ASSUME Init
             PROVE  IndInv
  OBVIOUS
<1>1. TypeOK
  BY AuthAssumption DEF Init, TypeOK, KeyFile
<1>2. MakersKnown /\ AloneMakes /\ PairMatches /\ FirstPair
  BY NoneIsNoValue, AuthAssumption
     DEF Init, MakersKnown, AloneMakes, PairMatches, FirstPair, Creating, CreatorsOf, Makers
<1>3. OfFirstPair
  BY DEF Init, OfFirstPair
<1> QED
  BY <1>1, <1>2, <1>3 DEF IndInv

LEMMA NextInv == IndInv /\ [Next]_vars => IndInv'
<1> SUFFICES ASSUME IndInv, [Next]_vars
             PROVE  IndInv'
  OBVIOUS
<1>1. TypeOK'
  BY TypeNext DEF IndInv
<1>2. MakersKnown' /\ KeysInv' /\ OfFirstPair'
  BY MakersNext, KeysNext, FirstPairNext
<1> QED
  BY <1>1, <1>2 DEF IndInv, KeysInv

\* The invariant that carries the others: what is known of a making, of the
\* two files of a keystore, and of the pair that sessions and files are of.
THEOREM Inductive == Spec => []IndInv
  BY InitInv, NextInv, PTL DEF Spec

\* The state has its types: no session and no file ever holds a key that is
\* not of a pair (create_user_keystore, login, open_header_and_dek).
THEOREM TypeCorrect == Spec => []TypeOK
<1>1. IndInv => TypeOK
  BY DEF IndInv
<1> QED
  BY <1>1, Inductive, PTL

\* However many logins, tools and starts make keys at a time, and wherever they
\* break off: after a making that ran by itself the .ek and the .sk of the
\* principal are of one pair.
THEOREM PairsMatch == Spec => []PairMatches
<1>1. IndInv => PairMatches
  BY DEF IndInv
<1> QED
  BY <1>1, Inductive, PTL

\* A session opens every file in the home of its user, unless the user's keys
\* were replaced or made twice at once (dek_for_path).
THEOREM OwnersRead == Spec => []OwnerReads
<1>1. IndInv => OwnerReads
  <2> SUFFICES ASSUME IndInv, NEW i \in Ids, NEW f \in files, sessions[i] # None,
                      f.space = sessions[i].user, f.space \notin rotated
               PROVE  Opens(KeyFor(i, f.space), f)
    BY DEF OwnerReads
  <2> QED
    BY DEF IndInv, OfFirstPair, KeyFor, Opens
<1> QED
  BY <1>1, Inductive, PTL

\* The unlocked shared keystore opens the files of shared/, and for an admin
\* those of the homes of others, unless it was itself replaced.
THEOREM SharedReads == Spec => []SharedKeyReads
<1>1. IndInv => SharedKeyReads
  <2> SUFFICES ASSUME IndInv, shared_secrets # None, Shared \notin rotated,
                      NEW i \in Ids, NEW f \in files, sessions[i] # None,
                      f.space # sessions[i].user, f.space = Shared \/ f.wrap # None
               PROVE  Opens(KeyFor(i, f.space), f)
    BY DEF SharedKeyReads
  <2> QED
    BY DEF IndInv, OfFirstPair, KeyFor, Opens
<1> QED
  BY <1>1, Inductive, PTL
=============================================================================
