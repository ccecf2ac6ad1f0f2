----------------------------- MODULE RemuxProofs -----------------------------
(***************************************************************************)
(* Proofs about module Remux, for any number of requests, processes and    *)
(* files, and any length of the output.                                    *)
(***************************************************************************)
EXTENDS Remux, TLAPS

-----------------------------------------------------------------------------
(* Processes.                                                              *)

LEMMA ProcessIs ==
  ASSUME TypeOK, NEW f \in Running
  PROVE  f \in Ffmpegs /\ ffmpeg[f] \in Process /\ ffmpeg[f] # None
  BY DEF TypeOK, Running

\* What has to be shown of a step that leaves the names alone: the files that are
\* mended still are, and so are those that are going to be replaced.
LEMMA MendedKeeps ==
  ASSUME IndInv, UNCHANGED <<copies, name>>, abandoned \subseteq abandoned',
         ~copies => \A i \in Inodes \ abandoned' :
            /\ Mended(i) => Mended(i)'
            /\ \A r \in Requests :
                  i \in opened[r] /\ Replacing(r) => i \in opened'[r] /\ Replacing(r)'
  PROVE  TranscodesFill'
<1>1. \A n \in {"tmp", "out"} : name[n] \notin {None} \cup abandoned' =>
         name[n] \in Inodes \ abandoned' /\ name[n] \notin {None} \cup abandoned
  BY DEF IndInv, TypeOK
<1>2. ASSUME ~copies, NEW i, i = name["tmp"], i \notin {None} \cup abandoned'
      PROVE  Mended(i)'
  <2>1. Mended(i)
    BY <1>1, <1>2 DEF IndInv, TranscodesFill
  <2> QED
    BY <1>1, <1>2, <2>1
<1>3. ASSUME ~copies, NEW i, i = name["out"], i \notin {None} \cup abandoned'
      PROVE  \/ Mended(i)'
             \/ name["tmp"] # None /\ \E r \in Requests : i \in opened'[r] /\ Replacing(r)'
  <2>1. \/ Mended(i)
        \/ name["tmp"] # None /\ \E r \in Requests : i \in opened[r] /\ Replacing(r)
    BY <1>1, <1>3 DEF IndInv, TranscodesFill
  <2> QED
    BY <1>1, <1>3, <2>1
<1>4. ASSUME ~copies
      PROVE  /\ name["tmp"] \notin {None} \cup abandoned' => Mended(name["tmp"])'
             /\ name["out"] \notin {None} \cup abandoned' =>
                   \/ Mended(name["out"])'
                   \/ /\ name["tmp"] # None
                      /\ \E r \in Requests : name["out"] \in opened'[r] /\ Replacing(r)'
  BY <1>2, <1>3, <1>4 DEF Mended, Filling
<1> QED
  BY <1>4 DEF TranscodesFill, Mended, Filling

\* A process that starts: it has no output yet, so a transcode is due or, where
\* the stream can be copied, a copy begins.
LEMMA SpawnKeeps ==
  ASSUME IndInv, NEW r \in Requests, NEW codec \in Codecs, Spawn(r, codec),
         copies => codec = "copy", request[r] \in {"none", "transcode"}
  PROVE  IndInv'
<1> USE DEF IndInv
<1>1. PICK f \in Ffmpegs \ Running :
         ffmpeg' = [ffmpeg EXCEPT ![f] = [by |-> r, codec |-> codec, inode |-> None, at |-> 0]]
  BY DEF Spawn
<1>2. /\ request' = [request EXCEPT ![r] = "ffmpeg"]
      /\ UNCHANGED <<copies, name, data, opened, abandoned>>
  BY DEF Spawn, history
<1>3. /\ ffmpeg'[f] \in Process /\ ffmpeg'[f].by = r /\ ffmpeg'[f].codec = codec
      /\ ffmpeg'[f].inode = None
      /\ ffmpeg' \in [Ffmpegs -> Process \cup {None}]
      /\ \A g \in Ffmpegs : g # f => ffmpeg'[g] = ffmpeg[g]
  <2> DEFINE p == [by |-> r, codec |-> codec, inode |-> None, at |-> 0]
  <2>1. p \in Process /\ p.by = r /\ p.codec = codec /\ p.inode = None
    BY RemuxAssumption DEF Process
  <2>2. ffmpeg' = [ffmpeg EXCEPT ![f] = p] /\ f \in Ffmpegs
    BY <1>1
  <2> HIDE DEF p
  <2> QED
    BY <2>1, <2>2 DEF TypeOK
<1>4. /\ \A g \in Running : g \in Running' /\ ffmpeg'[g] = ffmpeg[g] /\ g # f
      /\ \A g \in Running' : g = f \/ g \in Running
      /\ f \in Running'
  BY <1>1, <1>3, RemuxAssumption DEF Running
<1>5. TypeOK'
  BY <1>2, <1>3 DEF TypeOK
<1>6. Transcoding'
  <2>1. copies => \A q \in Requests : request'[q] # "transcode"
    BY <1>2 DEF Transcoding, TypeOK
  <2>2. copies => \A g \in Running' : ffmpeg'[g].codec = "copy"
    BY <1>3, <1>4 DEF Transcoding
  <2> QED
    BY <1>2, <2>1, <2>2 DEF Transcoding
<1>7. FromFront'
  <2>1. ffmpeg'[f].at = 0
    BY <1>1 DEF TypeOK
  <2> QED
    BY <1>4, <2>1 DEF FromFront
<1>8. \A i, c : Filling(i, c) => Filling(i, c)'
  BY <1>2, <1>4 DEF Filling
<1>9. CopiesFill'
  <2>1. \A i : Filling(i, "copy") => Filling(i, "copy")'
    BY <1>8
  <2> QED
    BY <1>2, <2>1 DEF CopiesFill, Filling
<1>10. TranscodesFill'
  <2>1. /\ request'[r] = "ffmpeg" /\ \A q \in Requests : q # r => request'[q] = request[q]
        /\ \A g \in Running : ffmpeg[g].by # r
    BY <1>2, RemuxAssumption DEF TypeOK, Waiting
  <2>2. Due(r)'
    BY <1>3, <1>4 DEF Due
  <2>3. ASSUME NEW q \in Requests
        PROVE  (Due(q) => Due(q)') /\ (Replacing(q) => Replacing(q)')
    <3>1. CASE q = r
      BY <2>1, <2>2, <3>1 DEF Replacing
    <3>2. CASE q # r
      BY <1>4, <2>1, <3>2 DEF Due, Replacing
    <3> QED
      BY <3>1, <3>2
  <2>4. \A i : Mended(i) => Mended(i)'
    BY <1>2, <1>8, <2>3 DEF Mended
  <2> QED
    BY <1>2, <2>3, <2>4, MendedKeeps DEF TypeOK
<1>12. Recorded' /\ Apart'
  BY <1>2, <1>3, <1>4 DEF Recorded, Apart
<1>11. Waiting'
  <2>1. \A g \in Running : ffmpeg[g].by # r
    BY RemuxAssumption DEF Waiting
  <2>2. request'[r] = "ffmpeg" /\ \A q \in Requests : q # r => request'[q] = request[q]
    BY <1>2 DEF TypeOK
  <2>3. \A g \in Running : ffmpeg[g].by \in Requests \cup {None}
    BY ProcessIs DEF Process
  <2> QED
    BY <1>3, <1>4, <2>1, <2>2, <2>3 DEF Waiting
<1> QED
  BY <1>5, <1>6, <1>7, <1>9, <1>10, <1>11, <1>12

LEMMA MoveKeeps ==
  ASSUME IndInv, NEW r \in Requests, Move(r)
  PROVE  IndInv'
<1> USE DEF IndInv
<1>1. /\ request[r] = "move" /\ request' = [request EXCEPT ![r] = "none"]
      /\ name' = IF name["tmp"] = None THEN name
                 ELSE [name EXCEPT !["out"] = name["tmp"], !["tmp"] = None]
      /\ opened' = [opened EXCEPT ![r] = {}]
      /\ UNCHANGED <<copies, data, ffmpeg, abandoned>>
  BY DEF Move
<1>2. /\ request' \in [Requests -> {"none", "ffmpeg", "transcode", "move"}]
      /\ \A q \in Requests : q # r => request'[q] = request[q] /\ opened'[q] = opened[q]
      /\ request'[r] = "none" /\ opened'[r] = {} /\ opened' \in [Requests -> SUBSET Inodes]
  BY <1>1 DEF TypeOK
<1>3. /\ name' \in [{"tmp", "out"} -> Inodes \cup {None}]
      /\ name["tmp"] = None => name' = name
      /\ name["tmp"] # None => name'["out"] = name["tmp"] /\ name'["tmp"] = None
  BY <1>1 DEF TypeOK
<1>4. Running' = Running
  BY <1>1 DEF Running
<1>5. TypeOK'
  BY <1>1, <1>2, <1>3 DEF TypeOK
<1>6. Transcoding' /\ FromFront'
  BY <1>1, <1>2, <1>4 DEF Transcoding, FromFront
<1>7. \A i, c : Filling(i, c)' <=> Filling(i, c)
  BY <1>1, <1>4 DEF Filling
<1>8. CopiesFill'
  <2> SUFFICES ASSUME copies, NEW n \in {"tmp", "out"}, name'[n] # None
               PROVE  \A b \in 1..Blocks :
                         \/ data[name'[n]][b] = "copy"
                         \/ \E f \in Running : /\ ffmpeg[f].codec = "copy"
                                               /\ ffmpeg[f].inode = name'[n]
                                               /\ ffmpeg[f].at < b
    BY <1>1, <1>4 DEF CopiesFill, Filling
  <2>1. \E k \in {"tmp", "out"} : name'[n] = name[k]
    BY <1>3
  <2> QED
    BY <2>1 DEF CopiesFill, Filling
<1>9. \A g \in Running : /\ ffmpeg[g].by # None => ffmpeg[g].by \in Requests
                        /\ ffmpeg[g].by # r
  BY <1>1, ProcessIs, RemuxAssumption DEF Waiting, Process
<1>11. TranscodesFill'
  <2>1. ASSUME NEW q \in Requests, Due(q)
        PROVE  q # r /\ Due(q)'
    BY <1>1, <1>2, <1>4, <1>9, <2>1 DEF Due
  <2>2. \A i : Mended(i) => Mended(i)'
    BY <1>2, <1>7, <2>1 DEF Mended
  <2> SUFFICES ASSUME ~copies
               PROVE  TranscodesFill'
    BY <1>1 DEF TranscodesFill
  <2>3. ASSUME NEW i, i = name'["out"], i \notin {None} \cup abandoned
        PROVE  Mended(i)'
    <3>1. i = name["tmp"] \/ (name["tmp"] = None /\ i = name["out"])
      BY <1>3, <2>3
    <3>2. Mended(i)
      BY <2>3, <3>1 DEF TranscodesFill
    <3> QED
      BY <2>2, <3>2
  <2>4. name'["tmp"] = None
    BY <1>3
  <2>5. name'["out"] \notin {None} \cup abandoned => Mended(name["out"])'
    <3>1. \A i : i = name'["out"] /\ i \notin {None} \cup abandoned => Mended(i)'
      BY <2>3
    <3> QED
      BY <3>1 DEF Mended, Filling
  <2> QED
    BY <1>1, <2>4, <2>5 DEF TranscodesFill
<1>12. Recorded'
  BY <1>1, <1>2, <1>4, <1>9 DEF Recorded
<1>13. Apart'
  BY <1>3 DEF Apart
<1>10. Waiting'
  BY <1>1, <1>2, <1>4, <1>9 DEF Waiting
<1> QED
  BY <1>5, <1>6, <1>8, <1>10, <1>11, <1>12, <1>13

\* What the request has opened is abandoned from now on.
LEMMA CancelKeeps ==
  ASSUME IndInv, NEW r \in Requests, Cancel(r)
  PROVE  IndInv'
<1> USE DEF IndInv
<1>1. /\ request' = [request EXCEPT ![r] = "none"]
      /\ ffmpeg' = [f \in Ffmpegs |-> IF f \in Running /\ ffmpeg[f].by = r
                                      THEN [ffmpeg[f] EXCEPT !.by = None] ELSE ffmpeg[f]]
      /\ opened' = [opened EXCEPT ![r] = {}]
      /\ abandoned' = abandoned \cup opened[r]
      /\ UNCHANGED <<copies, name, data>>
  BY DEF Cancel
<1>2. ASSUME NEW f \in Running
      PROVE  /\ ffmpeg'[f] \in Process /\ ffmpeg'[f].codec = ffmpeg[f].codec
             /\ ffmpeg'[f].inode = ffmpeg[f].inode /\ ffmpeg'[f].at = ffmpeg[f].at
             /\ ffmpeg'[f].by = IF ffmpeg[f].by = r THEN None ELSE ffmpeg[f].by
  <2>1. ffmpeg[f] \in Process /\ f \in Ffmpegs
    BY ProcessIs
  <2>2. /\ [ffmpeg[f] EXCEPT !.by = None] \in Process
        /\ [ffmpeg[f] EXCEPT !.by = None].codec = ffmpeg[f].codec
        /\ [ffmpeg[f] EXCEPT !.by = None].inode = ffmpeg[f].inode
        /\ [ffmpeg[f] EXCEPT !.by = None].at = ffmpeg[f].at
        /\ [ffmpeg[f] EXCEPT !.by = None].by = None
    BY <2>1 DEF Process
  <2> QED
    BY <1>1, <2>1, <2>2
<1>3. Running' = Running
  BY <1>1, <1>2, RemuxAssumption DEF Running
<1>4. TypeOK'
  <2>1. \A f \in Ffmpegs : ffmpeg'[f] \in Process \cup {None}
    BY <1>1, <1>2 DEF Running
  <2>2. ffmpeg' \in [Ffmpegs -> Process \cup {None}]
    BY <1>1, <2>1
  <2> QED
    BY <1>1, <2>2 DEF TypeOK
<1>5. Transcoding' /\ FromFront'
  BY <1>1, <1>2, <1>3 DEF Transcoding, FromFront, TypeOK
<1>6. CopiesFill'
  <2>1. ASSUME NEW i, Filling(i, "copy")
        PROVE  Filling(i, "copy")'
    BY <1>1, <1>2, <1>3, <2>1 DEF Filling
  <2>2. ASSUME copies, NEW n \in {"tmp", "out"}, name[n] # None
        PROVE  \E i : i = name'[n] /\ Filling(i, "copy")'
    BY <1>1, <2>1, <2>2 DEF CopiesFill
  <2>3. ASSUME copies, NEW n \in {"tmp", "out"}, name[n] # None
        PROVE  Filling(name[n], "copy")'
    BY <2>2, <2>3 DEF Filling
  <2> QED
    BY <1>1, <2>3 DEF CopiesFill
<1>7. TranscodesFill'
  <2>1. ASSUME NEW i, Filling(i, "h264")
        PROVE  Filling(i, "h264")'
    BY <1>1, <1>2, <1>3, <2>1 DEF Filling
  <2>2. /\ \A q \in Requests : q # r => request'[q] = request[q] /\ opened'[q] = opened[q]
        /\ opened[r] \subseteq abandoned'
    BY <1>1 DEF TypeOK
  <2>3. ASSUME NEW q \in Requests, q # r
        PROVE  (Due(q) => Due(q)') /\ (Replacing(q) => Replacing(q)')
    <3>1. \A g \in Running : ffmpeg[g].by = q => ffmpeg'[g].by = q
      BY <1>2, <2>3
    <3> QED
      BY <1>2, <1>3, <2>2, <2>3, <3>1 DEF Due, Replacing
  <2>4. \A i \in Inodes \ abandoned' : Mended(i) => Mended(i)'
    BY <2>1, <2>2, <2>3 DEF Mended
  <2> QED
    BY <1>1, <2>2, <2>3, <2>4, MendedKeeps
<1>9. Recorded'
  BY <1>1, <1>2, <1>3, ProcessIs DEF Recorded, TypeOK, Process
<1>10. Apart'
  BY <1>1 DEF Apart
<1>8. Waiting'
  <2> SUFFICES ASSUME NEW f \in Running, ffmpeg'[f].by # None
               PROVE  /\ request'[ffmpeg'[f].by] = "ffmpeg"
                      /\ \A g \in Running : ffmpeg'[g].by = ffmpeg'[f].by => g = f
    BY <1>3 DEF Waiting
  <2>1. ffmpeg'[f].by = ffmpeg[f].by /\ ffmpeg[f].by \in Requests /\ ffmpeg[f].by # r
    BY <1>2, ProcessIs DEF Process
  <2>2. request'[ffmpeg[f].by] = "ffmpeg"
    BY <1>1, <2>1 DEF Waiting, TypeOK
  <2>3. \A g \in Running : ffmpeg'[g].by = ffmpeg'[f].by => ffmpeg[g].by = ffmpeg[f].by
    BY <1>2, <2>1
  <2> QED
    BY <2>1, <2>2, <2>3 DEF Waiting
<1> QED
  BY <1>4, <1>5, <1>6, <1>7, <1>8, <1>9, <1>10

-----------------------------------------------------------------------------
(* ffmpeg.                                                                 *)

\* The output is opened: it is the temporary file, and all of it is still going
\* to be written by the process that has opened it.
LEMMA OpenKeeps ==
  ASSUME IndInv, NEW f \in Ffmpegs, OpenOutput(f)
  PROVE  IndInv'
<1> USE DEF IndInv
<1>1. PICK i : /\ i \in IF name["tmp"] # None THEN {name["tmp"]} ELSE Inodes \ Referred
               /\ name' = [name EXCEPT !["tmp"] = i]
               /\ data' = [data EXCEPT ![i] = Hole]
               /\ ffmpeg' = [ffmpeg EXCEPT ![f].inode = i]
               /\ LET stale == IF name["tmp"] = None THEN {i} ELSE {} IN
                     /\ opened' = [r \in Requests |->
                           IF r = ffmpeg[f].by THEN opened[r] \cup {i} ELSE opened[r] \ stale]
                     /\ abandoned' = IF ffmpeg[f].by = None THEN abandoned \cup {i}
                                     ELSE abandoned \ stale
  BY DEF OpenOutput
<1>2. /\ f \in Running /\ ffmpeg[f].inode = None /\ UNCHANGED <<copies, request>>
      /\ ffmpeg[f] \in Process
  BY ProcessIs DEF OpenOutput
<1>3. i \in Inodes /\ i # None
  BY <1>1, RemuxAssumption DEF TypeOK
<1>4. /\ ffmpeg'[f] \in Process /\ ffmpeg'[f].by = ffmpeg[f].by
      /\ ffmpeg'[f].codec = ffmpeg[f].codec /\ ffmpeg'[f].inode = i
      /\ ffmpeg'[f].at = ffmpeg[f].at
      /\ ffmpeg' \in [Ffmpegs -> Process \cup {None}]
      /\ \A g \in Ffmpegs : g # f => ffmpeg'[g] = ffmpeg[g]
  <2>1. /\ [ffmpeg[f] EXCEPT !.inode = i] \in Process
        /\ [ffmpeg[f] EXCEPT !.inode = i].by = ffmpeg[f].by
        /\ [ffmpeg[f] EXCEPT !.inode = i].codec = ffmpeg[f].codec
        /\ [ffmpeg[f] EXCEPT !.inode = i].inode = i
        /\ [ffmpeg[f] EXCEPT !.inode = i].at = ffmpeg[f].at
    BY <1>2, <1>3 DEF Process
  <2> QED
    BY <1>1, <2>1 DEF TypeOK
<1>5. Running' = Running
  BY <1>2, <1>4, RemuxAssumption DEF Running
<1>6. /\ name' \in [{"tmp", "out"} -> Inodes \cup {None}] /\ name'["tmp"] = i
      /\ name'["out"] = name["out"]
      /\ data' \in [Inodes -> [1..Blocks -> Codecs \cup {None}]]
      /\ \A j \in Inodes : j # i => data'[j] = data[j]
  BY <1>1, <1>3 DEF TypeOK, Hole
<1>14. /\ opened' \in [Requests -> SUBSET Inodes] /\ abandoned' \subseteq Inodes
       /\ ffmpeg[f].by = None => i \in abandoned'
       /\ ffmpeg[f].by # None => i \in opened'[ffmpeg[f].by]
       /\ \A j \in Inodes : j # i => /\ j \in abandoned' <=> j \in abandoned
                                    /\ \A r \in Requests : j \in opened'[r] <=> j \in opened[r]
       /\ name["tmp"] # None => /\ abandoned \subseteq abandoned'
                                /\ \A r \in Requests : opened[r] \subseteq opened'[r]
       /\ name["tmp"] = None => i \notin Referred
       /\ name["tmp"] # None => i = name["tmp"]
  BY <1>1, <1>2, <1>3 DEF TypeOK, Process
<1>7. TypeOK'
  BY <1>2, <1>4, <1>6, <1>14 DEF TypeOK
<1>8. Transcoding'
  <2>1. \A g \in Running : g \in Ffmpegs
    BY DEF Running
  <2> QED
    BY <1>2, <1>4, <1>5, <2>1 DEF Transcoding
<1>9. FromFront'
  BY <1>3, <1>4, <1>5 DEF FromFront, Running
<1>10. ASSUME NEW c, c = ffmpeg[f].codec
       PROVE  \A b \in 1..Blocks : \E g \in Running : /\ ffmpeg'[g].codec = c
                                                      /\ ffmpeg'[g].inode = i
                                                      /\ ffmpeg'[g].at < b
  <2>1. ffmpeg[f].at = 0
    BY <1>2 DEF FromFront
  <2> QED
    BY <1>2, <1>4, <1>10, <2>1
<1>11. CopiesFill'
  <2> SUFFICES ASSUME copies, NEW n \in {"tmp", "out"}, name'[n] # None,
                      NEW b \in 1..Blocks
               PROVE  \/ data'[name'[n]][b] = "copy"
                      \/ \E g \in Running : /\ ffmpeg'[g].codec = "copy"
                                            /\ ffmpeg'[g].inode = name'[n]
                                            /\ ffmpeg'[g].at < b
    BY <1>2, <1>5 DEF CopiesFill, Filling
  <2>1. CASE name'[n] = i
    BY <1>2, <1>10, <2>1 DEF Transcoding
  <2>2. CASE name'[n] # i
    <3>1. n = "out" /\ name'[n] = name[n] /\ name[n] \in Inodes
          /\ data'[name[n]] = data[name[n]]
      BY <1>6, <2>2 DEF TypeOK
    <3>2. \/ data[name[n]][b] = "copy"
          \/ \E g \in Running : /\ ffmpeg[g].codec = "copy"
                                /\ ffmpeg[g].inode = name[n]
                                /\ ffmpeg[g].at < b
      BY <3>1 DEF CopiesFill, Filling
    <3>3. \A g \in Running : ffmpeg[g].inode = name[n] => g # f /\ g \in Ffmpegs
      BY <1>2, <3>1 DEF Running
    <3> QED
      BY <1>4, <3>1, <3>2, <3>3
  <2> QED
    BY <2>1, <2>2
<1>15. Apart'
  BY <1>6, <1>14 DEF Apart, Referred
<1>16. Recorded'
  <2> SUFFICES ASSUME NEW g \in Running, ffmpeg'[g].inode # None
               PROVE  IF ffmpeg'[g].by = None THEN ffmpeg'[g].inode \in abandoned'
                      ELSE ffmpeg'[g].inode \in opened'[ffmpeg'[g].by]
    BY <1>5 DEF Recorded
  <2>1. CASE g = f
    BY <1>4, <1>14, <2>1
  <2>2. CASE g # f
    <3>1. ffmpeg'[g] = ffmpeg[g] /\ ffmpeg[g] \in Process /\ ffmpeg[g].inode \in Referred
      BY <1>4, <2>2, ProcessIs DEF Referred
    <3>2. /\ ffmpeg[g].by \in Requests \cup {None} /\ ffmpeg[g].inode \in Inodes
          /\ IF ffmpeg[g].by = None THEN ffmpeg[g].inode \in abandoned
             ELSE ffmpeg[g].inode \in opened[ffmpeg[g].by]
      BY <3>1 DEF Recorded, Process
    <3> QED
      BY <1>14, <3>1, <3>2
  <2> QED
    BY <2>1, <2>2
<1>12. TranscodesFill'
  <2> SUFFICES ASSUME ~copies
               PROVE  TranscodesFill'
    BY <1>2 DEF TranscodesFill
  <2>1. ASSUME i \notin abandoned'
        PROVE  Mended(i)'
    <3>1. PICK r \in Requests : r = ffmpeg[f].by /\ i \in opened'[r]
      BY <1>2, <1>14, <2>1 DEF Process
    <3>2. CASE ffmpeg[f].codec = "copy"
      BY <1>2, <1>4, <1>5, <3>1, <3>2 DEF Mended, Due
    <3>3. CASE ffmpeg[f].codec = "h264"
      <4>1. \A b \in 1..Blocks : \E g \in Running : /\ ffmpeg'[g].codec = "h264"
                                                    /\ ffmpeg'[g].inode = i
                                                    /\ ffmpeg'[g].at < b
        BY <1>10, <3>3
      <4>2. Filling(i, "h264")'
        BY <1>5, <4>1 DEF Filling
      <4> QED
        BY <4>2 DEF Mended
    <3> QED
      BY <1>2, <3>2, <3>3 DEF Process, Codecs
  <2>2. ASSUME NEW o, o = name["out"], o \notin {None} \cup abandoned'
        PROVE  Mended(o)' \/ \E r \in Requests : o \in opened'[r] /\ Replacing(r)'
    <3>1. o \in Inodes /\ o # i /\ o \notin {None} \cup abandoned
      BY <1>6, <1>14, <1>15, <2>2, <1>3 DEF Apart, TypeOK
    <3>2. ASSUME NEW q \in Requests, o \in opened[q], Due(q) \/ Replacing(q)
          PROVE  o \in opened'[q] /\ (Due(q)' \/ Replacing(q)')
      <4>1. o \in opened'[q]
        BY <1>14, <3>1, <3>2
      <4>2. CASE request[q] = "transcode" \/ request[q] = "move"
        BY <1>2, <4>1, <4>2 DEF Due, Replacing
      <4>3. ASSUME NEW g \in Running, ffmpeg[g].by = q
            PROVE  Due(q)' \/ Replacing(q)'
        <5>1. ffmpeg'[g].by = q /\ ffmpeg'[g].codec = ffmpeg[g].codec /\ g \in Running'
          BY <1>4, <1>5, <4>3 DEF Running
        <5>2. CASE g = f
          <6>1. ffmpeg'[g].inode # None /\ ffmpeg'[g].codec \in Codecs
            BY <1>2, <1>3, <1>4, <5>2 DEF Process
          <6> QED
            BY <5>1, <6>1 DEF Due, Replacing, Codecs
        <5>3. CASE g # f
          <6>1. ffmpeg'[g].codec \in Codecs
            BY <5>1, ProcessIs DEF Process
          <6> QED
            BY <5>1, <6>1 DEF Due, Replacing, Codecs
        <5> QED
          BY <5>2, <5>3
      <4> QED
        BY <3>2, <4>1, <4>2, <4>3 DEF Due, Replacing
    <3>3. ASSUME Filling(o, "h264")
          PROVE  Filling(o, "h264")'
      <4>1. \A g \in Running : ffmpeg[g].inode = o => g # f /\ g \in Ffmpegs
        BY <1>2, <3>1 DEF Running
      <4> QED
        BY <1>4, <1>5, <1>6, <3>1, <3>3, <4>1 DEF Filling
    <3> QED
      BY <2>2, <3>1, <3>2, <3>3 DEF TranscodesFill, Mended
  <2>3. name'["tmp"] \notin {None} \cup abandoned' => Mended(name["tmp"])'
    <3>1. \A j : j = name'["tmp"] /\ j \notin abandoned' => Mended(j)'
      BY <1>6, <2>1
    <3> QED
      BY <3>1 DEF Mended, Filling
  <2>4. ASSUME name'["out"] \notin {None} \cup abandoned'
        PROVE  \/ Mended(name["out"])'
               \/ \E r \in Requests : name'["out"] \in opened'[r] /\ Replacing(r)'
    <3>1. PICK o : /\ o = name'["out"]
                   /\ Mended(o)' \/ \E r \in Requests : o \in opened'[r] /\ Replacing(r)'
      BY <1>6, <2>2, <2>4
    <3> QED
      BY <3>1 DEF Mended, Filling
  <2> QED
    BY <1>3, <1>6, <2>3, <2>4 DEF TranscodesFill
<1>13. Waiting'
  <2>1. \A g \in Running : ffmpeg'[g].by = ffmpeg[g].by
    BY <1>4, ProcessIs
  <2> QED
    BY <1>2, <1>5, <2>1 DEF Waiting
<1> QED
  BY <1>7, <1>8, <1>9, <1>11, <1>12, <1>13, <1>15, <1>16

\* A block is written to whatever name the file has by now.
LEMMA WriteKeeps ==
  ASSUME IndInv, NEW f \in Ffmpegs, WriteBlock(f)
  PROVE  IndInv'
<1> USE DEF IndInv
<1>1. /\ f \in Running /\ ffmpeg[f] \in Process /\ ffmpeg[f].inode # None
      /\ ffmpeg[f].at < Blocks /\ UNCHANGED <<copies, name, request, opened, abandoned>>
      /\ data' = [data EXCEPT ![ffmpeg[f].inode][ffmpeg[f].at + 1] = ffmpeg[f].codec]
      /\ ffmpeg' = [ffmpeg EXCEPT ![f].at = ffmpeg[f].at + 1]
  BY ProcessIs DEF WriteBlock, history
<1>2. PICK i \in Inodes, n \in Nat, c \in Codecs :
         /\ i = ffmpeg[f].inode /\ n = ffmpeg[f].at /\ c = ffmpeg[f].codec
         /\ n < Blocks /\ n + 1 \in 1..Blocks /\ n + 1 \in 0..Blocks
  BY <1>1, RemuxAssumption DEF Process
<1>3. /\ ffmpeg'[f] \in Process /\ ffmpeg'[f].by = ffmpeg[f].by
      /\ ffmpeg'[f].codec = c /\ ffmpeg'[f].inode = i /\ ffmpeg'[f].at = n + 1
      /\ ffmpeg' \in [Ffmpegs -> Process \cup {None}]
      /\ \A g \in Ffmpegs : g # f => ffmpeg'[g] = ffmpeg[g]
  <2>1. /\ [ffmpeg[f] EXCEPT !.at = n + 1] \in Process
        /\ [ffmpeg[f] EXCEPT !.at = n + 1].by = ffmpeg[f].by
        /\ [ffmpeg[f] EXCEPT !.at = n + 1].codec = ffmpeg[f].codec
        /\ [ffmpeg[f] EXCEPT !.at = n + 1].inode = ffmpeg[f].inode
        /\ [ffmpeg[f] EXCEPT !.at = n + 1].at = n + 1
    BY <1>1, <1>2 DEF Process
  <2>2. ffmpeg' = [ffmpeg EXCEPT ![f] = [ffmpeg[f] EXCEPT !.at = n + 1]]
    BY <1>1, <1>2
  <2> QED
    BY <1>2, <2>1, <2>2 DEF TypeOK
<1>4. Running' = Running /\ \A g \in Running : g \in Ffmpegs
  BY <1>1, <1>3, RemuxAssumption DEF Running
<1>5. /\ data' \in [Inodes -> [1..Blocks -> Codecs \cup {None}]]
      /\ data'[i][n + 1] = c
      /\ \A j \in Inodes : \A b \in 1..Blocks :
            j # i \/ b # n + 1 => data'[j][b] = data[j][b]
  <2>1. data[i] \in [1..Blocks -> Codecs \cup {None}]
    BY DEF TypeOK
  <2>2. data' = [data EXCEPT ![i] = [data[i] EXCEPT ![n + 1] = c]]
    BY <1>1, <1>2
  <2>3. [data[i] EXCEPT ![n + 1] = c] \in [1..Blocks -> Codecs \cup {None}]
    BY <2>1
  <2> QED
    BY <1>2, <2>1, <2>2, <2>3 DEF TypeOK
<1>6. TypeOK'
  BY <1>1, <1>3, <1>5 DEF TypeOK
<1>7. Transcoding'
  BY <1>1, <1>2, <1>3, <1>4 DEF Transcoding
<1>8. FromFront'
  <2>1. i # None
    BY <1>1, <1>2
  <2> QED
    BY <1>3, <1>4, <2>1 DEF FromFront
<1>9. ASSUME NEW j \in Inodes, Filling(j, c)
      PROVE  Filling(j, c)'
  <2> SUFFICES ASSUME NEW b \in 1..Blocks
               PROVE  \/ data'[j][b] = c
                      \/ \E g \in Running : /\ ffmpeg'[g].codec = c
                                            /\ ffmpeg'[g].inode = j
                                            /\ ffmpeg'[g].at < b
    BY <1>4 DEF Filling
  <2>1. \/ data[j][b] = c
        \/ \E g \in Running : /\ ffmpeg[g].codec = c
                              /\ ffmpeg[g].inode = j
                              /\ ffmpeg[g].at < b
    BY <1>9 DEF Filling
  <2>2. CASE j = i /\ b = n + 1
    BY <1>5, <2>2
  <2>3. CASE ~(j = i /\ b = n + 1) /\ data[j][b] = c
    BY <1>5, <2>3
  <2>4. ASSUME ~(j = i /\ b = n + 1), NEW g \in Running, ffmpeg[g].codec = c,
               ffmpeg[g].inode = j, ffmpeg[g].at < b
        PROVE  ffmpeg'[g].codec = c /\ ffmpeg'[g].inode = j /\ ffmpeg'[g].at < b
    <3>1. CASE g = f
      <4>1. j = i /\ n < b
        BY <1>2, <2>4, <3>1
      <4>2. n + 1 < b
        BY <2>4, <4>1
      <4> QED
        BY <1>3, <3>1, <4>1, <4>2
    <3>2. CASE g # f
      BY <1>3, <1>4, <2>4, <3>2
    <3> QED
      BY <3>1, <3>2
  <2> QED
    BY <2>1, <2>2, <2>3, <2>4
<1>10. \A k \in {"tmp", "out"} : name[k] # None => name[k] \in Inodes
  BY DEF TypeOK
<1>11. CopiesFill'
  <2> SUFFICES ASSUME copies, NEW k \in {"tmp", "out"}, name[k] # None
               PROVE  Filling(name[k], "copy")'
    BY <1>1 DEF CopiesFill, Filling
  <2>1. c = "copy"
    BY <1>1, <1>2 DEF Transcoding
  <2>2. PICK j \in Inodes : j = name[k]
    BY <1>10
  <2>3. Filling(j, c)'
    BY <1>9, <2>1, <2>2 DEF CopiesFill
  <2> QED
    BY <1>1, <2>1, <2>2, <2>3 DEF Filling
<1>14. \A g \in Running : /\ ffmpeg'[g].by = ffmpeg[g].by /\ ffmpeg'[g].codec = ffmpeg[g].codec
                          /\ ffmpeg'[g].inode = ffmpeg[g].inode
  BY <1>2, <1>3, <1>4
<1>15. \A q \in Requests : (Due(q) => Due(q)') /\ (Replacing(q) => Replacing(q)')
  BY <1>1, <1>4, <1>14 DEF Due, Replacing
<1>12. TranscodesFill'
  <2>1. ASSUME NEW j \in Inodes \ abandoned, Filling(j, "h264")
        PROVE  Mended(j)'
    <3>1. CASE c = "h264"
      BY <1>9, <2>1, <3>1 DEF Mended
    <3>2. CASE c = "copy" /\ j = i
      <4>1. ffmpeg[f].by \in Requests /\ j \in opened'[ffmpeg[f].by]
        BY <1>1, <1>2, <2>1, <3>2 DEF Recorded, Process
      <4>2. f \in Running' /\ ffmpeg'[f].by = ffmpeg[f].by /\ ffmpeg'[f].codec = "copy"
        BY <1>1, <1>3, <1>4, <3>2
      <4> QED
        BY <4>1, <4>2 DEF Mended, Due
    <3>3. CASE c = "copy" /\ j # i
      <4>1. \A g \in Running : ffmpeg[g].codec = "h264" => ffmpeg'[g] = ffmpeg[g]
        BY <1>2, <1>3, <1>4, <3>3
      <4>2. \A b \in 1..Blocks : data'[j][b] = data[j][b]
        BY <1>5, <3>3
      <4>3. Filling(j, "h264")'
        BY <1>4, <2>1, <4>1, <4>2 DEF Filling
      <4> QED
        BY <4>3 DEF Mended
    <3> QED
      BY <3>1, <3>2, <3>3 DEF Codecs
  <2>2. ASSUME NEW j \in Inodes \ abandoned, Mended(j)
        PROVE  Mended(j)'
    BY <1>1, <1>15, <2>1, <2>2 DEF Mended
  <2> QED
    BY <1>1, <1>15, <2>2, MendedKeeps
<1>16. Recorded' /\ Apart'
  BY <1>1, <1>4, <1>14 DEF Recorded, Apart
<1>13. Waiting'
  <2>1. \A g \in Running : ffmpeg'[g].by = ffmpeg[g].by
    BY <1>3, <1>4
  <2> QED
    BY <1>1, <1>4, <2>1 DEF Waiting
<1> QED
  BY <1>6, <1>7, <1>8, <1>11, <1>12, <1>13, <1>16

\* A process that ends well has written all of its output.  A copy that does not
\* leaves its request to transcode, a transcode that does not abandons its files.
LEMMA ExitKeeps ==
  ASSUME IndInv, NEW f \in Ffmpegs, Exit(f)
  PROVE  IndInv'
<1> USE DEF IndInv
<1> DEFINE Ended(r, success) == r = ffmpeg[f].by /\ ~success /\ ffmpeg[f].codec = "h264"
<1>1. PICK success \in BOOLEAN :
      /\ Outcome(f, success)
      /\ request' = [r \in Requests |->
                        IF r = ffmpeg[f].by THEN AfterExit(f, success) ELSE request[r]]
      /\ opened' = [r \in Requests |-> IF Ended(r, success) THEN {} ELSE opened[r]]
      /\ abandoned' = abandoned \cup UNION {opened[r] : r \in {q \in Requests : Ended(q, success)}}
  BY DEF Exit
<1>2. /\ f \in Running /\ ffmpeg[f] \in Process /\ ffmpeg' = [ffmpeg EXCEPT ![f] = None]
      /\ UNCHANGED <<copies, name, data>>
  BY ProcessIs DEF Exit
<1>3. /\ Running' = Running \ {f}
      /\ \A g \in Running : g # f => ffmpeg'[g] = ffmpeg[g]
      /\ ffmpeg' \in [Ffmpegs -> Process \cup {None}]
  BY <1>2 DEF TypeOK, Running
<1>4. /\ abandoned \subseteq abandoned'
      /\ \A r \in Requests : \/ opened'[r] = opened[r]
                             \/ Ended(r, success) /\ opened'[r] = {} /\ opened[r] \subseteq abandoned'
  BY <1>1
<1>5. /\ opened' \in [Requests -> SUBSET Inodes]
      /\ abandoned' \subseteq Inodes
  BY <1>1 DEF TypeOK
<1>6. TypeOK'
  <2>1. AfterExit(f, success) \in {"none", "ffmpeg", "transcode", "move"}
    BY DEF AfterExit
  <2>2. request' \in [Requests -> {"none", "ffmpeg", "transcode", "move"}]
    BY <1>1, <2>1 DEF TypeOK
  <2> QED
    BY <1>2, <1>3, <1>5, <2>2 DEF TypeOK
<1>7. Transcoding'
  <2>1. copies => AfterExit(f, success) = "move"
    BY <1>1 DEF AfterExit, Outcome
  <2> QED
    BY <1>1, <1>2, <1>3, <2>1 DEF Transcoding
<1>8. FromFront' /\ Apart'
  BY <1>2, <1>3 DEF FromFront, Apart
<1>9. \A g \in Running' : /\ g \in Running /\ g # f /\ ffmpeg'[g] = ffmpeg[g]
                          /\ ffmpeg[g].by # None => /\ ffmpeg[g].by # ffmpeg[f].by
                                                    /\ ffmpeg[g].by \in Requests
  BY <1>2, <1>3, ProcessIs DEF Waiting, Process
<1>10. Waiting'
  BY <1>1, <1>9 DEF Waiting
<1>11. Recorded'
  BY <1>4, <1>9 DEF Recorded
<1>12. ASSUME success, NEW i, NEW c, Filling(i, c)
       PROVE  Filling(i, c)'
  <2> SUFFICES ASSUME NEW b \in 1..Blocks
               PROVE  \/ data[i][b] = c
                      \/ \E g \in Running \ {f} : /\ ffmpeg'[g].codec = c
                                                  /\ ffmpeg'[g].inode = i
                                                  /\ ffmpeg'[g].at < b
    BY <1>2, <1>3 DEF Filling
  <2>1. ~(ffmpeg[f].at < b)
    BY <1>1, <1>12, RemuxAssumption DEF Outcome
  <2> QED
    BY <1>3, <1>12, <2>1 DEF Filling
<1>13. CopiesFill'
  <2>1. ASSUME copies, NEW n \in {"tmp", "out"}, name[n] # None
        PROVE  \E i : i = name'[n] /\ Filling(i, "copy")'
    BY <1>1, <1>2, <1>12, <2>1 DEF CopiesFill, Outcome
  <2>2. ASSUME copies, NEW n \in {"tmp", "out"}, name[n] # None
        PROVE  Filling(name[n], "copy")'
    BY <2>1, <2>2 DEF Filling
  <2> QED
    BY <1>2, <2>2 DEF CopiesFill
<1>14. TranscodesFill'
  <2>1. ASSUME ~copies, NEW i \in Inodes \ abandoned', Filling(i, "h264")
        PROVE  Filling(i, "h264")'
    <3>1. CASE success
      BY <1>12, <2>1, <3>1
    <3>2. CASE ~success
      <4>1. ~(ffmpeg[f].codec = "h264" /\ ffmpeg[f].inode = i)
        <5> SUFFICES ASSUME ffmpeg[f].codec = "h264", ffmpeg[f].inode = i
                     PROVE  FALSE
          OBVIOUS
        <5>1. i # None /\ i \notin abandoned
          BY <1>4, <2>1, RemuxAssumption
        <5>2. ffmpeg[f].by \in Requests /\ i \in opened[ffmpeg[f].by]
          BY <1>2, <5>1 DEF Recorded, Process
        <5>3. i \in abandoned'
          BY <1>1, <3>2, <5>2
        <5> QED
          BY <2>1, <5>3
      <4> QED
        BY <1>2, <1>3, <2>1, <4>1 DEF Filling
    <3> QED
      BY <3>1, <3>2
  <2>2. ASSUME ~copies, NEW q \in Requests, ~Ended(q, success)
        PROVE  (Due(q) => Due(q)') /\ (Replacing(q) => Replacing(q)')
    <3>1. CASE q # ffmpeg[f].by
      <4>1. request'[q] = request[q]
        BY <1>1, <3>1
      <4> QED
        BY <1>3, <3>1, <4>1 DEF Due, Replacing
    <3>2. CASE q = ffmpeg[f].by
      <4>1. /\ request[q] = "ffmpeg" /\ request'[q] = AfterExit(f, success)
            /\ \A g \in Running : ffmpeg[g].by = q => g = f
        BY <1>1, <1>2, <3>2, RemuxAssumption DEF Waiting
      <4>2. CASE success
        <5>1. /\ ffmpeg[f].codec = "h264" /\ ffmpeg[f].inode # None
              /\ AfterExit(f, success) = "move"
          BY <1>1, <2>2, <4>2 DEF Outcome, AfterExit
        <5> QED
          BY <4>1, <5>1 DEF Due, Replacing
      <4>3. CASE ~success
        <5>1. ffmpeg[f].codec = "copy" /\ AfterExit(f, success) = "transcode"
          BY <1>2, <2>2, <3>2, <4>3 DEF AfterExit, Process, Codecs
        <5> QED
          BY <4>1, <5>1 DEF Due, Replacing
      <4> QED
        BY <4>2, <4>3
    <3> QED
      BY <3>1, <3>2
  <2>3. ASSUME ~copies, NEW i \in Inodes \ abandoned'
        PROVE  /\ Mended(i) => Mended(i)'
               /\ \A r \in Requests :
                     i \in opened[r] /\ Replacing(r) => i \in opened'[r] /\ Replacing(r)'
    <3>1. \A r \in Requests : i \in opened[r] => ~Ended(r, success) /\ i \in opened'[r]
      BY <1>1, <1>4, <2>3
    <3> QED
      BY <2>1, <2>2, <2>3, <3>1 DEF Mended
  <2> QED
    BY <1>2, <1>4, <2>3, MendedKeeps
<1> QED
  BY <1>6, <1>7, <1>8, <1>10, <1>11, <1>13, <1>14

-----------------------------------------------------------------------------
(* The theorems.                                                           *)

LEMMA InitInv == Init => IndInv
<1> SUFFICES ASSUME Init
             PROVE  IndInv
  OBVIOUS
<1>1. TypeOK
  BY DEF Init, TypeOK, Hole
<1>2. Running = {}
  BY DEF Init, Running
<1>3. Transcoding /\ FromFront /\ Waiting /\ Recorded /\ Apart /\ CopiesFill /\ TranscodesFill
  BY <1>2 DEF Init, Transcoding, FromFront, Waiting, Recorded, Apart, CopiesFill, TranscodesFill
<1> QED
  BY <1>1, <1>3 DEF IndInv

LEMMA NextInv == IndInv /\ [Next]_vars => IndInv'
<1> SUFFICES ASSUME IndInv, [Next]_vars
             PROVE  IndInv'
  OBVIOUS
<1>1. ASSUME NEW r \in Requests, Start(r) \/ Fallback(r)
      PROVE  IndInv'
  <2>1. CASE Start(r)
    BY <2>1, SpawnKeeps DEF Start, Codecs
  <2>2. CASE Fallback(r)
    <3>1. ~copies
      BY <2>2 DEF Fallback, IndInv, Transcoding
    <3> QED
      BY <2>2, <3>1, SpawnKeeps DEF Fallback, Codecs
  <2> QED
    BY <1>1, <2>1, <2>2
<1>2. CASE UNCHANGED vars
  BY <1>2 DEF vars, history, IndInv, TypeOK, Transcoding, FromFront, Waiting, Recorded, Apart,
              CopiesFill, TranscodesFill, Mended, Filling, Running, Due, Replacing
<1> QED
  BY <1>1, <1>2, MoveKeeps, CancelKeeps, OpenKeeps, WriteKeeps, ExitKeeps DEF Next

\* The invariant: whatever a file misses is going to be written to it, or a request
\* is still on its way that transcodes it again or puts another one in its place; or
\* else it is among the files of a request that was given up or failed.
THEOREM Inductive == Spec => []IndInv
  BY InitInv, NextInv, PTL DEF Spec

\* However many requests for one source run an ffmpeg of their own on the same
\* temporary file (remux_mp4), whichever of them are given up and whatever
\* transcodes fail, the cached file is whole once they are done, if the source can
\* be copied; and if it cannot, unless it is a file of a request that was given up
\* or whose transcode failed.
THEOREM CacheWhole == Spec => []SettledWhole
<1>1. IndInv => SettledWhole
  <2> SUFFICES ASSUME IndInv, Running = {}, \A r \in Requests : request[r] = "none",
                      name["out"] # None, copies \/ name["out"] \notin abandoned
               PROVE  Whole(name["out"])
    BY DEF SettledWhole, Settled
  <2>1. PICK c \in Codecs : Filling(name["out"], c)
    <3>1. CASE copies
      BY <3>1 DEF IndInv, CopiesFill, Codecs
    <3>2. CASE ~copies
      <4>1. \A r \in Requests : ~Due(r) /\ ~Replacing(r)
        BY DEF Due, Replacing
      <4> QED
        BY <3>2, <4>1 DEF IndInv, TranscodesFill, Mended, Codecs
    <3> QED
      BY <3>1, <3>2
  <2>2. \A b \in 1..Blocks : data[name["out"]][b] = c
    BY <2>1 DEF Filling
  <2>3. data[name["out"]] \in [1..Blocks -> Codecs \cup {None}]
    BY DEF IndInv, TypeOK
  <2>4. data[name["out"]] = [b \in 1..Blocks |-> c]
    BY <2>2, <2>3
  <2> QED
    BY <2>4 DEF Whole
<1> QED
  BY <1>1, Inductive, PTL
=============================================================================
