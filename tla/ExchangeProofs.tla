--------------------------- MODULE ExchangeProofs ---------------------------
(***************************************************************************)
(* Theorems of the exchange directory, for any number of processes and any *)
(* contents of the sources: overlapping generators that write one document *)
(* leave its pair, and a run that nobody disturbs tells the truth.         *)
(***************************************************************************)
EXTENDS Exchange, TLAPS

-----------------------------------------------------------------------------
(* The stages, and the order in which a process reads *)

StageInv ==
    \A p \in Processes :
        /\ pc[p] \in WritingStages \cup {"truncate yaml"} => job[p] \in Artifacts
        /\ pc[p] \in {"look", "compare"} => job[p] = Verify
        /\ pc[p] \in Ended => at[p] = 0
        /\ pc[p] = "read" => at[p] < Len(Reads(job[p]))

TypeInv == TypeOK /\ StageInv

\* What a writer is about to publish is what is being written; and when that is one
\* document, the .yaml is it or about to be, and so is the .sha256.
EpochInv ==
    /\ \A p \in Processes : pc[p] \in WritingStages => Bytes(p) \in epoch[job[p]]
    /\ \A a \in Artifacts : \A b \in epoch[a] :
          epoch[a] = {b} /\ b # Killed =>
              /\ yaml[a] \in {Empty, b}
              /\ yaml[a] = b \/ \E p \in Processes : pc[p] = "write yaml" /\ job[p] = a
              /\ digest[a] = sha256(b) \/ Writers(a) # {}

\* What a process that nobody has disturbed knows of its sources and of its artifact: y and
\* d are the .yaml and the .sha256.
Knows(stage, j, n, read, disk, s, y, d) ==
    LET b == canonical_bytes(Document(j, s))
    IN  /\ stage \in Running => \A k \in 1..n : read[Reads(j)[k]] = s[Reads(j)[k]]
        /\ stage \in Running \ {"read"} => n = Len(Reads(j))
        /\ stage = "write yaml" => y = Empty
        /\ stage \in {"truncate sha256", "write sha256"} => y = b
        /\ stage = "done" => j \in Artifacts /\ y = b /\ d = sha256(b)
        /\ stage = "compare" => disk = sha256(y)
        /\ stage = "AGREEMENT" => y = b /\ d = sha256(b)
        /\ stage = "DISAGREEMENT" => ~(y = b /\ d = sha256(b))
        /\ stage = "no fixture" => y = Absent

Informed(p) ==
    Knows(pc[p], job[p], at[p], snapshot[p], on_disk[p], source,
          yaml[Subject(job[p])], digest[Subject(job[p])])

StillInv == \A p \in Processes : still[p] => Informed(p)

-----------------------------------------------------------------------------

LEMMA ReadsFacts ==
    ASSUME NEW j \in Jobs
    PROVE  /\ Reads(j) \in Seq(Sources)
           /\ Len(Reads(j)) \in 1..3
           /\ DOMAIN Reads(j) = 1..Len(Reads(j))
           /\ \A k \in 1..Len(Reads(j)) : Reads(j)[k] \in Sources
<1>1. Subject(j) \in Artifacts
  BY DEF Subject, Jobs, Artifacts
<1>2. Reads(j) \in {<<"builder", "registry", "header">>, <<"contract", "suite", "mutations">>,
                   <<"FIXTURE">>}
  BY <1>1 DEF Reads, Artifacts
<1>3. Reads(j) \in Seq(Sources) /\ Len(Reads(j)) \in 1..3
  <2>1. CASE Reads(j) = <<"builder", "registry", "header">>
    BY <2>1 DEF Sources
  <2>2. CASE Reads(j) = <<"contract", "suite", "mutations">>
    BY <2>2 DEF Sources
  <2>3. CASE Reads(j) = <<"FIXTURE">>
    BY <2>3 DEF Sources
  <2> QED BY <1>2, <2>1, <2>2, <2>3
<1> QED BY <1>3 DEF Used

\* The stages of a process are of one kind each.
LEMMA StagesApart ==
    /\ Running \cap Ended = {} /\ WritingStages \subseteq Running
    /\ {"truncate yaml", "look", "compare", "read"} \subseteq Running \ WritingStages
    /\ {"done", "raised", "killed", "AGREEMENT", "DISAGREEMENT", "no fixture"} = Ended
BY DEF Running, Ended, WritingStages

LEMMA ExitTypeInv ==
    ASSUME TypeInv, NEW p \in Processes, NEW how \in Ended, Exit(p, how)
    PROVE  /\ pc' \in [Processes -> Running \cup Ended]
           /\ job' \in [Processes -> Jobs]
           /\ at' \in [Processes -> 0..3]
           /\ \A q \in Processes : at'[q] <= Len(Reads(job'[q]))
           /\ DOMAIN snapshot' = Processes /\ DOMAIN on_disk' = Processes
           /\ \A q \in Processes : DOMAIN snapshot'[q] = Sources
           /\ StageInv'
<1>1. /\ pc' = [pc EXCEPT ![p] = how] /\ job' = job
      /\ at' = [at EXCEPT ![p] = 0]
      /\ snapshot' = [snapshot EXCEPT ![p] = Unread]
      /\ on_disk' = [on_disk EXCEPT ![p] = Absent]
  BY DEF Exit, Goto
<1>2. Len(Reads(job[p])) \in 1..3
  BY ReadsFacts DEF TypeInv, TypeOK
<1>3. DOMAIN Unread = Sources
  BY DEF Unread
<1>4. StageInv'
  BY <1>1, StagesApart DEF TypeInv, TypeOK, StageInv
<1> QED BY <1>1, <1>2, <1>3, <1>4 DEF TypeInv, TypeOK

LEMMA InitTypeInv == Init => TypeInv
<1> SUFFICES ASSUME Init PROVE TypeInv
  OBVIOUS
<1> USE ExchangeAssumption
<1>1. Len(Reads(Verify)) \in 1..3
  BY ReadsFacts DEF Jobs
<1>2. /\ job \in [Processes -> Jobs] /\ pc \in [Processes -> Running \cup Ended]
      /\ DOMAIN snapshot = Processes /\ \A p \in Processes : DOMAIN snapshot[p] = Sources
  BY DEF Init, Jobs, Ended, Unread
<1>4. /\ at \in [Processes -> 0..3] /\ edits \in 0..MaxEdits
      /\ \A p \in Processes : at[p] <= Len(Reads(job[p]))
  BY <1>1 DEF Init
<1>5. TypeOK
  BY <1>2, <1>4 DEF Init, TypeOK
<1>3. StageInv
  BY StagesApart DEF Init, StageInv, Running, Ended
<1> QED BY <1>3, <1>5 DEF TypeInv

\* What a step that changes no source and nothing but the stage of p has to show.
LEMMA GotoTypeInv ==
    ASSUME TypeInv, NEW p \in Processes, NEW stage \in Running \ {"read"},
           pc' = [pc EXCEPT ![p] = stage],
           stage \in WritingStages \cup {"truncate yaml"} => job[p] \in Artifacts,
           stage \in {"look", "compare"} => job[p] = Verify,
           UNCHANGED <<jobs, job, at, snapshot, source, edits>>,
           still' \in [Processes -> BOOLEAN],
           DOMAIN yaml' = Artifacts, DOMAIN digest' = Artifacts, DOMAIN epoch' = Artifacts,
           DOMAIN on_disk' = Processes
    PROVE  TypeInv'
<1>1. TypeOK'
  BY DEF TypeInv, TypeOK
<1>2. StageInv'
  BY StagesApart DEF TypeInv, TypeOK, StageInv
<1> QED BY <1>1, <1>2 DEF TypeInv

LEMMA ReadTypeInv ==
    ASSUME TypeInv, NEW p \in Processes, Read(p)
    PROVE  TypeInv'
<1> DEFINE j == job[p]
           s == Reads(j)[at[p] + 1]
           read == [snapshot EXCEPT ![p][s] = source[s]]
<1>1. pc[p] = "read" /\ UNCHANGED <<jobs, source, yaml, digest, edits, epoch, still>>
  BY DEF Read
<1>2. j \in Jobs /\ Len(Reads(j)) \in 1..3 /\ at[p] \in 0..3 /\ at[p] < Len(Reads(j))
  BY <1>1, ReadsFacts DEF TypeInv, TypeOK, StageInv
<1>3. DOMAIN read = Processes /\ \A q \in Processes : DOMAIN read[q] = Sources
  BY DEF TypeInv, TypeOK
<1>4. CASE Exit(p, "raised")
  <2>1. "raised" \in Ended
    BY DEF Ended
  <2> QED BY <1>1, <1>4, <2>1, ExitTypeInv DEF TypeInv, TypeOK
<1>5. CASE /\ at[p] + 1 < Len(Reads(j))
           /\ snapshot' = read /\ at' = [at EXCEPT ![p] = @ + 1]
           /\ UNCHANGED <<pc, job, on_disk>>
  <2> HIDE DEF read
  <2>1. at' \in [Processes -> 0..3] /\ \A q \in Processes : at'[q] <= Len(Reads(job'[q]))
    <3>1. at[p] + 1 \in 0..3 /\ at[p] + 1 <= Len(Reads(job[p]))
      <4>1. \A n \in 0..3, m \in 1..3 : n < m => n + 1 \in 0..3 /\ n + 1 <= m
        OBVIOUS
      <4> QED BY <1>2, <4>1
    <3>2. at' = [at EXCEPT ![p] = at[p] + 1] /\ job' = job
      BY <1>5
    <3> HIDE DEF j, s
    <3> QED BY <3>1, <3>2 DEF TypeInv, TypeOK
  <2>3. TypeOK'
    BY <1>1, <1>3, <1>5, <2>1 DEF TypeInv, TypeOK
  <2>2. StageInv'
    BY <1>1, <1>2, <1>5, StagesApart DEF TypeInv, TypeOK, StageInv
  <2> QED BY <2>2, <2>3 DEF TypeInv
<1>6. CASE /\ ~(at[p] + 1 < Len(Reads(j)))
           /\ snapshot' = read /\ at' = [at EXCEPT ![p] = @ + 1]
           /\ Goto(p, IF j = Verify THEN "look" ELSE "truncate yaml")
           /\ UNCHANGED <<job, on_disk>>
  <2> HIDE DEF read
  <2>1. at' \in [Processes -> 0..3] /\ \A q \in Processes : at'[q] <= Len(Reads(job'[q]))
    <3>1. at[p] + 1 \in 0..3 /\ at[p] + 1 <= Len(Reads(job[p]))
      <4>1. \A n \in 0..3, m \in 1..3 : n < m => n + 1 \in 0..3 /\ n + 1 <= m
        OBVIOUS
      <4> QED BY <1>2, <4>1
    <3>2. at' = [at EXCEPT ![p] = at[p] + 1] /\ job' = job
      BY <1>6
    <3> HIDE DEF j, s
    <3> QED BY <3>1, <3>2 DEF TypeInv, TypeOK
  <2>3. pc' \in [Processes -> Running \cup Ended]
    BY <1>6, StagesApart DEF TypeInv, TypeOK, Goto
  <2>4. TypeOK'
    BY <1>1, <1>3, <1>6, <2>1, <2>3 DEF TypeInv, TypeOK
  <2>2. StageInv'
    BY <1>1, <1>2, <1>6, StagesApart DEF TypeInv, TypeOK, StageInv, Goto, Jobs
  <2> QED BY <2>2, <2>4 DEF TypeInv
<1> QED BY <1>4, <1>5, <1>6, Zenon DEF Read

LEMMA StepTypeInv ==
    ASSUME TypeInv, NEW p \in Processes, Step(p)
    PROVE  TypeInv'
<1> USE DEF Goto
<1>0. /\ still \in [Processes -> BOOLEAN] /\ DOMAIN yaml = Artifacts /\ DOMAIN digest = Artifacts
      /\ DOMAIN epoch = Artifacts /\ DOMAIN on_disk = Processes
      /\ pc[p] \in WritingStages \cup {"truncate yaml"} => job[p] \in Artifacts
      /\ pc[p] \in {"look", "compare"} => job[p] = Verify
  BY DEF TypeInv, TypeOK, StageInv
<1>1. CASE Read(p)
  BY <1>1, ReadTypeInv
<1>2. CASE TruncateYaml(p)
  <2>1. "write yaml" \in Running \ {"read"}
    BY DEF Running, WritingStages
  <2>2. still' \in [Processes -> BOOLEAN]
    BY <1>2 DEF TruncateYaml, Disturb
  <2> QED BY <1>0, <1>2, <2>1, <2>2, GotoTypeInv DEF TruncateYaml
<1>3. CASE WriteYaml(p)
  <2>1. "truncate sha256" \in Running \ {"read"} /\ "write yaml" \in WritingStages
    BY DEF Running, WritingStages
  <2>2. still' \in [Processes -> BOOLEAN]
    BY <1>3 DEF WriteYaml, Disturb
  <2> QED BY <1>0, <1>3, <2>1, <2>2, GotoTypeInv DEF WriteYaml
<1>4. CASE TruncateDigest(p)
  <2>1. "write sha256" \in Running \ {"read"} /\ "truncate sha256" \in WritingStages
    BY DEF Running, WritingStages
  <2>2. still' \in [Processes -> BOOLEAN]
    BY <1>4 DEF TruncateDigest, Disturb
  <2> QED BY <1>0, <1>4, <2>1, <2>2, GotoTypeInv DEF TruncateDigest
<1>5. CASE WriteDigest(p)
  <2>1. "done" \in Ended
    BY DEF Ended
  <2>2. still' \in [Processes -> BOOLEAN]
    BY <1>5 DEF WriteDigest, Disturb
  <2> QED BY <1>0, <1>5, <2>1, <2>2, ExitTypeInv DEF WriteDigest, TypeInv, TypeOK
<1>6. CASE Look(p)
  <2>1. CASE Exit(p, "no fixture")
    <3>1. "no fixture" \in Ended
      BY DEF Ended
    <3> QED BY <1>6, <2>1, <3>1, ExitTypeInv DEF Look, TypeInv, TypeOK
  <2>2. CASE ~Exit(p, "no fixture")
    <3>1. "compare" \in Running \ {"read"}
      BY DEF Running
    <3>2. /\ pc[p] = "look" /\ pc' = [pc EXCEPT ![p] = "compare"]
          /\ DOMAIN on_disk' = DOMAIN on_disk
          /\ UNCHANGED <<jobs, source, yaml, digest, edits, epoch, still, job, at, snapshot>>
      BY <1>6, <2>2 DEF Look
    <3> HIDE DEF Goto
    <3>3. "compare" \notin WritingStages \cup {"truncate yaml"}
      BY DEF WritingStages
    <3> QED BY <1>0, <3>1, <3>2, <3>3, GotoTypeInv
  <2> QED BY <2>1, <2>2
<1>7. CASE Compare(p)
  <2>1. PICK how \in {"AGREEMENT", "DISAGREEMENT"} : Exit(p, how)
    BY <1>7 DEF Compare
  <2>2. how \in Ended
    BY DEF Ended
  <2> QED BY <1>7, <2>1, <2>2, ExitTypeInv DEF Compare, TypeInv, TypeOK
<1> QED BY <1>1, <1>2, <1>3, <1>4, <1>5, <1>6, <1>7 DEF Step

LEMMA NextTypeInv == TypeInv /\ [Next]_vars => TypeInv'
<1> SUFFICES ASSUME TypeInv, [Next]_vars PROVE TypeInv'
  OBVIOUS
<1>1. ASSUME NEW p \in Processes, Step(p) PROVE TypeInv'
  BY <1>1, StepTypeInv
<1>2. ASSUME NEW p \in Processes, Kill(p) PROVE TypeInv'
  <2>1. "killed" \in Ended
    BY DEF Ended
  <2>2. DOMAIN epoch' = Artifacts
    BY <1>2 DEF Kill, TypeInv, TypeOK
  <2> QED BY <1>2, <2>1, <2>2, ExitTypeInv DEF Kill, TypeInv, TypeOK
<1>3. ASSUME NEW p \in Processes, NEW j \in Jobs, Start(p, j) PROVE TypeInv'
  <2>1. at[p] = 0 /\ Len(Reads(j)) \in 1..3
    BY <1>3, ReadsFacts DEF Start, TypeInv, StageInv
  <2>4. /\ pc' = [pc EXCEPT ![p] = "read"] /\ job' = [job EXCEPT ![p] = j]
        /\ still' = [still EXCEPT ![p] = TRUE]
        /\ UNCHANGED <<jobs, source, yaml, digest, at, snapshot, on_disk, edits, epoch>>
    BY <1>3 DEF Start, Goto
  <2>5. \A q \in Processes : at'[q] <= Len(Reads(job'[q]))
    BY <2>1, <2>4 DEF TypeInv, TypeOK
  <2>2. TypeOK'
    BY <2>4, <2>5, StagesApart DEF TypeInv, TypeOK
  <2>6. at[p] < Len(Reads(j))
    BY <2>1
  <2>3. StageInv'
    BY <2>4, <2>6, StagesApart DEF TypeInv, TypeOK, StageInv
  <2> QED BY <2>2, <2>3 DEF TypeInv
<1>4. ASSUME NEW s \in Sources, Edit(s) PROVE TypeInv'
  <2>1. PICK c \in Contents[s] : source' = [source EXCEPT ![s] = c]
    BY <1>4 DEF Edit
  <2>2. edits' \in 0..MaxEdits /\ still' \in [Processes -> BOOLEAN]
    BY <1>4, ExchangeAssumption DEF Edit, TypeInv, TypeOK
  <2>3. TypeOK'
    BY <1>4, <2>1, <2>2 DEF Edit, process, TypeInv, TypeOK
  <2>4. StageInv'
    BY <1>4 DEF Edit, process, TypeInv, StageInv
  <2> QED BY <2>3, <2>4 DEF TypeInv
<1>5. CASE UNCHANGED vars
  BY <1>5 DEF vars, process, TypeInv, TypeOK, StageInv
<1> QED BY <1>1, <1>2, <1>3, <1>4, <1>5 DEF Next

\* Types are kept, and every stage is one of a job that has it, however many processes run
\* and whatever becomes of the sources.
THEOREM TypesHold == Spec => []TypeInv
BY InitTypeInv, NextTypeInv, PTL DEF Spec

-----------------------------------------------------------------------------
(* Overlapping writers of one document *)

LEMMA DigestsAreApart == ASSUME NEW b, NEW c, sha256(b) = sha256(c) PROVE b = c
<1>1. sha256(b).sha256 = b /\ sha256(c).sha256 = c
  BY DEF sha256
<1> QED BY <1>1

\* A step that writes nothing and after which the same writers write the same.
LEMMA EpochKept ==
    ASSUME EpochInv, UNCHANGED <<yaml, digest, epoch>>,
           \A q \in Processes :
              /\ pc'[q] \in WritingStages <=> pc[q] \in WritingStages
              /\ pc'[q] = "write yaml" <=> pc[q] = "write yaml"
              /\ pc[q] \in WritingStages => job'[q] = job[q] /\ snapshot'[q] = snapshot[q]
    PROVE  EpochInv'
<1>1. "write yaml" \in WritingStages
  BY DEF WritingStages
<1>2. \A q \in Processes : pc[q] \in WritingStages => Bytes(q)' = Bytes(q)
  BY DEF Bytes
<1>3. \A a \in Artifacts : Writers(a)' = Writers(a)
  BY DEF Writers
<1>4. \A q \in Processes : pc'[q] \in WritingStages => Bytes(q)' \in epoch'[job'[q]]
  BY <1>2 DEF EpochInv
<1>5. ASSUME NEW a \in Artifacts, NEW b \in epoch[a], epoch[a] = {b}, b # Killed
      PROVE  /\ yaml'[a] \in {Empty, b}
             /\ yaml'[a] = b \/ \E q \in Processes : pc'[q] = "write yaml" /\ job'[q] = a
             /\ digest'[a] = sha256(b) \/ Writers(a)' # {}
  <2>1. /\ yaml[a] \in {Empty, b}
        /\ yaml[a] = b \/ \E q \in Processes : pc[q] = "write yaml" /\ job[q] = a
        /\ digest[a] = sha256(b) \/ Writers(a) # {}
    BY <1>5 DEF EpochInv
  <2>2. ASSUME NEW q \in Processes, pc[q] = "write yaml", job[q] = a
        PROVE  pc'[q] = "write yaml" /\ job'[q] = a
    BY <1>1, <2>2
  <2> QED BY <1>3, <2>1, <2>2
<1> QED BY <1>4, <1>5 DEF EpochInv

LEMMA WriterExits ==
    ASSUME TypeInv, NEW p \in Processes, NEW how \in Ended, Exit(p, how)
    PROVE  /\ pc'[p] = how /\ how \notin WritingStages /\ UNCHANGED job
           /\ \A q \in Processes \ {p} :
                 pc'[q] = pc[q] /\ snapshot'[q] = snapshot[q] /\ Bytes(q)' = Bytes(q)
<1>1. /\ pc' = [pc EXCEPT ![p] = how] /\ job' = job
      /\ snapshot' = [snapshot EXCEPT ![p] = Unread]
  BY DEF Exit, Goto
<1>2. \A q \in Processes \ {p} : snapshot'[q] = snapshot[q]
  BY <1>1 DEF TypeInv, TypeOK
<1>3. \A q \in Processes \ {p} : Bytes(q)' = Bytes(q)
  BY <1>1, <1>2 DEF Bytes
<1>4. how \notin WritingStages
  BY DEF Ended, WritingStages
<1> QED BY <1>1, <1>2, <1>3, <1>4 DEF TypeInv, TypeOK

LEMMA TruncateYamlEpochInv ==
    ASSUME TypeInv, EpochInv, NEW p \in Processes, TruncateYaml(p)
    PROVE  EpochInv'
<1> DEFINE a == job[p]
<1>1. /\ pc[p] = "truncate yaml" /\ pc' = [pc EXCEPT ![p] = "write yaml"]
      /\ yaml' = [yaml EXCEPT ![a] = Empty]
      /\ epoch' = [epoch EXCEPT ![a] =
                      IF Writers(a) = {} THEN {Bytes(p)} ELSE @ \cup {Bytes(p)}]
      /\ UNCHANGED <<digest, job, snapshot>>
  BY DEF TruncateYaml, Goto
<1>2. a \in Artifacts /\ "write yaml" \in WritingStages /\ pc[p] \notin WritingStages
  BY <1>1 DEF TypeInv, StageInv, WritingStages
<1>3. \A q \in Processes : Bytes(q)' = Bytes(q)
  BY <1>1 DEF Bytes
<1>4. /\ pc'[p] = "write yaml" /\ p \in Writers(a)'
      /\ \A q \in Processes \ {p} : pc'[q] = pc[q]
  BY <1>1, <1>2 DEF TypeInv, TypeOK, Writers
<1>5. \A q \in Processes : pc'[q] \in WritingStages => Bytes(q)' \in epoch'[job'[q]]
  <2> SUFFICES ASSUME NEW q \in Processes, pc'[q] \in WritingStages
               PROVE  Bytes(q) \in epoch'[job[q]]
    BY <1>1, <1>3
  <2>1. CASE q = p
    BY <1>1, <1>2, <2>1 DEF TypeInv, TypeOK
  <2>2. CASE q # p
    <3>1. pc[q] \in WritingStages /\ job[q] \in Artifacts /\ Bytes(q) \in epoch[job[q]]
      BY <1>4, <2>2 DEF TypeInv, StageInv, EpochInv
    <3>2. job[q] = a => Writers(a) # {}
      BY <3>1 DEF Writers
    <3> QED BY <1>1, <1>2, <3>1, <3>2 DEF TypeInv, TypeOK
  <2> QED BY <2>1, <2>2
<1>6. ASSUME NEW c \in Artifacts, NEW b \in epoch'[c], epoch'[c] = {b}, b # Killed
      PROVE  /\ yaml'[c] \in {Empty, b}
             /\ yaml'[c] = b \/ \E q \in Processes : pc'[q] = "write yaml" /\ job'[q] = c
             /\ digest'[c] = sha256(b) \/ Writers(c)' # {}
  <2>1. CASE c = a
    BY <1>1, <1>2, <1>4, <2>1 DEF TypeInv, TypeOK
  <2>2. CASE c # a
    <3>1. epoch'[c] = epoch[c] /\ yaml'[c] = yaml[c] /\ digest'[c] = digest[c]
      BY <1>1, <2>2 DEF TypeInv, TypeOK
    <3>2. Writers(c)' = Writers(c)
      BY <1>1, <1>4, <2>2, <1>2 DEF Writers
    <3>3. ASSUME NEW q \in Processes, pc[q] = "write yaml", job[q] = c
          PROVE  pc'[q] = "write yaml" /\ job'[q] = c
      BY <1>1, <1>4, <3>3
    <3> QED BY <1>6, <3>1, <3>2, <3>3 DEF EpochInv
  <2> QED BY <2>1, <2>2
<1> QED BY <1>5, <1>6 DEF EpochInv

LEMMA WriteYamlEpochInv ==
    ASSUME TypeInv, EpochInv, NEW p \in Processes, WriteYaml(p)
    PROVE  EpochInv'
<1> DEFINE a == job[p]
<1>1. PICK text \in {Bytes(p), Garbled} :
         /\ yaml[a] \in {Empty, Bytes(p)} => text = Bytes(p)
         /\ yaml' = [yaml EXCEPT ![a] = text]
  BY DEF WriteYaml
<1>2. /\ pc[p] = "write yaml" /\ pc' = [pc EXCEPT ![p] = "truncate sha256"]
      /\ UNCHANGED <<digest, epoch, job, snapshot>>
  BY DEF WriteYaml, Goto
<1>3. /\ a \in Artifacts /\ "write yaml" \in WritingStages /\ "truncate sha256" \in WritingStages
  BY <1>2 DEF TypeInv, StageInv, WritingStages
<1>4. /\ \A q \in Processes : Bytes(q)' = Bytes(q)
      /\ \A q \in Processes : pc'[q] \in WritingStages <=> pc[q] \in WritingStages
      /\ \A q \in Processes \ {p} : pc'[q] = pc[q]
  BY <1>2, <1>3 DEF Bytes, TypeInv, TypeOK
<1>5. \A c \in Artifacts : Writers(c)' = Writers(c)
  BY <1>2, <1>4 DEF Writers
<1>6. ASSUME NEW c \in Artifacts, NEW b \in epoch[c], epoch[c] = {b}, b # Killed
      PROVE  /\ yaml'[c] \in {Empty, b}
             /\ yaml'[c] = b \/ \E q \in Processes : pc'[q] = "write yaml" /\ job'[q] = c
             /\ digest'[c] = sha256(b) \/ Writers(c)' # {}
  <2>1. CASE c = a
    <3>1. Bytes(p) = b /\ yaml[a] \in {Empty, b}
      BY <1>2, <1>3, <1>6, <2>1 DEF EpochInv
    <3>2. yaml'[c] = b
      BY <1>1, <1>3, <2>1, <3>1 DEF TypeInv, TypeOK
    <3>3. digest[c] = sha256(b) \/ Writers(c) # {}
      BY <1>6 DEF EpochInv
    <3> QED BY <1>2, <1>5, <3>2, <3>3
  <2>2. CASE c # a
    <3>1. yaml'[c] = yaml[c]
      BY <1>1, <2>2 DEF TypeInv, TypeOK
    <3>2. ASSUME NEW q \in Processes, pc[q] = "write yaml", job[q] = c
          PROVE  pc'[q] = "write yaml" /\ job'[q] = c
      BY <1>2, <1>4, <2>2, <3>2
    <3> QED BY <1>2, <1>5, <1>6, <3>1, <3>2 DEF EpochInv
  <2> QED BY <2>1, <2>2
<1>7. \A q \in Processes : pc'[q] \in WritingStages => Bytes(q)' \in epoch'[job'[q]]
  BY <1>2, <1>4 DEF EpochInv
<1> QED BY <1>2, <1>6, <1>7 DEF EpochInv

LEMMA DigestEpochInv ==
    ASSUME TypeInv, EpochInv, NEW p \in Processes, TruncateDigest(p) \/ WriteDigest(p)
    PROVE  EpochInv'
<1> DEFINE a == job[p]
<1>1. CASE TruncateDigest(p)
  <2>1. /\ pc[p] = "truncate sha256" /\ pc' = [pc EXCEPT ![p] = "write sha256"]
        /\ \A c \in Artifacts \ {a} : digest'[c] = digest[c]
        /\ UNCHANGED <<yaml, epoch, job, snapshot>>
    BY <1>1 DEF TruncateDigest, Goto, TypeInv, TypeOK
  <2>2. "truncate sha256" \in WritingStages /\ "write sha256" \in WritingStages
    BY DEF WritingStages
  <2>3. /\ \A q \in Processes : Bytes(q)' = Bytes(q)
        /\ \A q \in Processes : pc'[q] \in WritingStages <=> pc[q] \in WritingStages
        /\ \A q \in Processes \ {p} : pc'[q] = pc[q]
    BY <2>1, <2>2 DEF Bytes, TypeInv, TypeOK
  <2>4. \A c \in Artifacts : Writers(c)' = Writers(c)
    BY <2>1, <2>3 DEF Writers
  <2>5. p \in Writers(a)
    BY <2>1, <2>2 DEF Writers
  <2>6. \A q \in Processes : pc'[q] \in WritingStages => Bytes(q)' \in epoch'[job'[q]]
    BY <2>1, <2>3 DEF EpochInv
  <2>7. ASSUME NEW c \in Artifacts, NEW b \in epoch[c], epoch[c] = {b}, b # Killed
        PROVE  /\ yaml'[c] \in {Empty, b}
               /\ yaml'[c] = b \/ \E q \in Processes : pc'[q] = "write yaml" /\ job'[q] = c
               /\ digest'[c] = sha256(b) \/ Writers(c)' # {}
    <3>1. /\ yaml[c] \in {Empty, b}
          /\ yaml[c] = b \/ \E q \in Processes : pc[q] = "write yaml" /\ job[q] = c
          /\ digest[c] = sha256(b) \/ Writers(c) # {}
      BY <2>7 DEF EpochInv
    <3>2. ASSUME NEW q \in Processes, pc[q] = "write yaml" PROVE pc'[q] = "write yaml"
      BY <2>1, <2>3, <3>2
    <3>3. c = a => Writers(c)' # {}
      BY <2>4, <2>5
    <3> QED BY <2>1, <2>4, <3>1, <3>2, <3>3
  <2> QED BY <2>1, <2>6, <2>7 DEF EpochInv
<1>2. CASE WriteDigest(p)
  <2>1. /\ pc[p] = "write sha256" /\ Exit(p, "done") /\ UNCHANGED <<yaml, epoch>>
        /\ digest' = [digest EXCEPT ![a] = sha256(Bytes(p))]
    BY <1>2 DEF WriteDigest
  <2>2. /\ pc'[p] = "done" /\ "done" \notin WritingStages /\ UNCHANGED job
        /\ \A q \in Processes \ {p} : pc'[q] = pc[q] /\ Bytes(q)' = Bytes(q)
    BY <2>1, WriterExits DEF Ended
  <2>3. a \in Artifacts /\ Bytes(p) \in epoch[a]
    BY <2>1 DEF TypeInv, StageInv, EpochInv, WritingStages
  <2>4. \A q \in Processes : pc'[q] \in WritingStages => Bytes(q)' \in epoch'[job'[q]]
    <3> SUFFICES ASSUME NEW q \in Processes, pc'[q] \in WritingStages
                 PROVE  Bytes(q)' \in epoch'[job'[q]]
      OBVIOUS
    <3>1. pc[q] \in WritingStages /\ Bytes(q)' = Bytes(q)
      BY <2>2
    <3> QED BY <2>1, <2>2, <3>1 DEF EpochInv
  <2>5. ASSUME NEW c \in Artifacts, NEW b \in epoch[c], epoch[c] = {b}, b # Killed
        PROVE  /\ yaml'[c] \in {Empty, b}
               /\ yaml'[c] = b \/ \E q \in Processes : pc'[q] = "write yaml" /\ job'[q] = c
               /\ digest'[c] = sha256(b) \/ Writers(c)' # {}
    <3>1. /\ yaml[c] \in {Empty, b}
          /\ yaml[c] = b \/ \E q \in Processes : pc[q] = "write yaml" /\ job[q] = c
          /\ digest[c] = sha256(b) \/ Writers(c) # {}
      BY <2>5 DEF EpochInv
    <3>2. ASSUME NEW q \in Processes, pc[q] = "write yaml" PROVE pc'[q] = "write yaml"
      BY <2>1, <2>2, <3>2
    <3>3. CASE c = a
      <4>1. digest'[c] = sha256(b)
        BY <2>1, <2>3, <2>5, <3>3 DEF TypeInv, TypeOK
      <4> QED BY <2>1, <2>2, <3>1, <3>2, <4>1
    <3>4. CASE c # a
      <4>1. digest'[c] = digest[c]
        BY <2>1, <3>4 DEF TypeInv, TypeOK
      <4>2. Writers(c)' = Writers(c)
        BY <2>2, <3>4 DEF Writers
      <4> QED BY <2>1, <2>2, <3>1, <3>2, <4>1, <4>2
    <3> QED BY <3>3, <3>4
  <2> QED BY <2>1, <2>4, <2>5 DEF EpochInv
<1> QED BY <1>1, <1>2

LEMMA KillEpochInv ==
    ASSUME TypeInv, EpochInv, NEW p \in Processes, Kill(p)
    PROVE  EpochInv'
<1>1. /\ Exit(p, "killed") /\ UNCHANGED <<yaml, digest>>
      /\ epoch' = IF pc[p] \in WritingStages THEN [epoch EXCEPT ![job[p]] = @ \cup {Killed}]
                  ELSE epoch
  BY DEF Kill
<1>2. /\ pc'[p] = "killed" /\ "killed" \notin WritingStages /\ UNCHANGED job
      /\ \A q \in Processes \ {p} : pc'[q] = pc[q] /\ Bytes(q)' = Bytes(q)
                                    /\ snapshot'[q] = snapshot[q]
  BY <1>1, WriterExits DEF Ended
<1>3. CASE pc[p] \notin WritingStages
  <2>1. "write yaml" \in WritingStages /\ "killed" # "write yaml"
    BY DEF WritingStages
  <2> QED BY <1>1, <1>2, <1>3, <2>1, EpochKept
<1>4. CASE pc[p] \in WritingStages
  <2>1. job[p] \in Artifacts /\ epoch' = [epoch EXCEPT ![job[p]] = @ \cup {Killed}]
    BY <1>1, <1>4 DEF TypeInv, StageInv
  <2>2. \A c \in Artifacts : epoch[c] \subseteq epoch'[c]
    BY <2>1 DEF TypeInv, TypeOK
  <2>3. \A q \in Processes : pc'[q] \in WritingStages => Bytes(q)' \in epoch'[job'[q]]
    <3> SUFFICES ASSUME NEW q \in Processes, pc'[q] \in WritingStages
                 PROVE  Bytes(q)' \in epoch'[job'[q]]
      OBVIOUS
    <3>1. q # p /\ pc[q] \in WritingStages
      BY <1>2
    <3>2. job[q] \in Artifacts /\ Bytes(q) \in epoch[job[q]]
      BY <3>1 DEF TypeInv, StageInv, EpochInv
    <3> QED BY <1>2, <2>2, <3>1, <3>2
  <2>4. ASSUME NEW c \in Artifacts, NEW b \in epoch'[c], epoch'[c] = {b}, b # Killed
        PROVE  /\ yaml'[c] \in {Empty, b}
               /\ yaml'[c] = b \/ \E q \in Processes : pc'[q] = "write yaml" /\ job'[q] = c
               /\ digest'[c] = sha256(b) \/ Writers(c)' # {}
    <3>1. c # job[p] /\ epoch[c] = {b}
      BY <2>1, <2>4 DEF TypeInv, TypeOK
    <3>2. /\ yaml[c] \in {Empty, b}
          /\ yaml[c] = b \/ \E q \in Processes : pc[q] = "write yaml" /\ job[q] = c
          /\ digest[c] = sha256(b) \/ Writers(c) # {}
      BY <2>4, <3>1 DEF EpochInv
    <3>3. ASSUME NEW q \in Processes, pc[q] = "write yaml", job[q] = c
          PROVE  pc'[q] = "write yaml"
      BY <1>2, <3>1, <3>3
    <3>4. Writers(c)' = Writers(c)
      BY <1>2, <3>1 DEF Writers
    <3> QED BY <1>1, <1>2, <3>2, <3>3, <3>4
  <2> QED BY <2>3, <2>4 DEF EpochInv
<1> QED BY <1>3, <1>4

LEMMA NextEpochInv == TypeInv /\ EpochInv /\ [Next]_vars => EpochInv'
<1> SUFFICES ASSUME TypeInv, EpochInv, [Next]_vars PROVE EpochInv'
  OBVIOUS
<1> USE DEF Goto
<1>0. /\ "write yaml" \in WritingStages
      /\ {"read", "look", "compare", "truncate yaml"} \cap WritingStages = {}
      /\ Ended \cap WritingStages = {}
      /\ {"raised", "no fixture", "AGREEMENT", "DISAGREEMENT"} \subseteq Ended
  BY DEF WritingStages, Ended
<1>1. ASSUME NEW p \in Processes, NEW how \in Ended, pc[p] \notin WritingStages, Exit(p, how),
             UNCHANGED <<yaml, digest, epoch>>
      PROVE  EpochInv'
  BY <1>0, <1>1, WriterExits, EpochKept
<1>2. ASSUME NEW p \in Processes, Read(p) PROVE EpochInv'
  <2>1. pc[p] = "read" /\ UNCHANGED <<yaml, digest, epoch>>
    BY <1>2 DEF Read
  <2>2. CASE Exit(p, "raised")
    BY <1>0, <1>1, <2>1, <2>2
  <2>3. CASE ~Exit(p, "raised")
    <3>1. /\ UNCHANGED job
          /\ snapshot' = [snapshot EXCEPT ![p][Reads(job[p])[at[p] + 1]] =
                             source[Reads(job[p])[at[p] + 1]]]
          /\ \/ UNCHANGED pc
             \/ pc' = [pc EXCEPT ![p] = "look"]
             \/ pc' = [pc EXCEPT ![p] = "truncate yaml"]
      BY <1>2, <2>3, Zenon DEF Read
    <3>2. \A q \in Processes \ {p} : snapshot'[q] = snapshot[q] /\ pc'[q] = pc[q]
      BY <3>1 DEF TypeInv, TypeOK
    <3>3. pc'[p] \in {"read", "look", "truncate yaml"}
      BY <2>1, <3>1 DEF TypeInv, TypeOK
    <3> QED BY <1>0, <2>1, <3>1, <3>2, <3>3, EpochKept
  <2> QED BY <2>2, <2>3
<1>3. ASSUME NEW p \in Processes, Look(p) \/ Compare(p) PROVE EpochInv'
  <2>1. pc[p] \in {"look", "compare"} /\ UNCHANGED <<yaml, digest, epoch>>
    BY <1>3 DEF Look, Compare
  <2>2. CASE \E how \in Ended : Exit(p, how)
    BY <1>0, <1>1, <2>1, <2>2
  <2>3. CASE pc' = [pc EXCEPT ![p] = "compare"] /\ UNCHANGED <<job, snapshot>>
    BY <1>0, <2>1, <2>3, EpochKept DEF TypeInv, TypeOK
  <2> QED BY <1>0, <1>3, <2>2, <2>3 DEF Look, Compare
<1>4. ASSUME NEW p \in Processes, Step(p) PROVE EpochInv'
  BY <1>2, <1>3, <1>4, TruncateYamlEpochInv, WriteYamlEpochInv, DigestEpochInv DEF Step
<1>5. ASSUME NEW p \in Processes, NEW j \in Jobs, Start(p, j) PROVE EpochInv'
  <2>1. /\ pc[p] \in Ended /\ pc' = [pc EXCEPT ![p] = "read"]
        /\ job' = [job EXCEPT ![p] = j]
        /\ UNCHANGED <<yaml, digest, epoch, snapshot>>
    BY <1>5 DEF Start
  <2> QED BY <1>0, <2>1, EpochKept DEF TypeInv, TypeOK
<1>6. ASSUME NEW s \in Sources, Edit(s) PROVE EpochInv'
  BY <1>6, EpochKept DEF Edit, process
<1>7. CASE UNCHANGED vars
  BY <1>7, EpochKept DEF vars, process
<1> QED BY <1>4, <1>5, <1>6, <1>7, KillEpochInv DEF Next

LEMMA EpochAlways == Spec => []EpochInv
<1>1. Init => EpochInv
  BY DEF Init, EpochInv, WritingStages
<1> QED BY <1>1, TypesHold, NextEpochInv, PTL DEF Spec

\* However many generators overlap, with whatever documents: once nobody writes an artifact
\* whose writers all meant one document and ran to their end, it is the pair of that document.
THEOREM PairsAreWhole == Spec => []QuietPairIsWhole
<1>1. EpochInv => QuietPairIsWhole
  <2> SUFFICES ASSUME EpochInv, NEW a \in Artifacts, NEW b \in epoch[a],
                      Writers(a) = {}, epoch[a] = {b}, b # Killed
               PROVE  IsPair(a, b)
    BY DEF QuietPairIsWhole
  <2>1. ~ \E p \in Processes : pc[p] = "write yaml" /\ job[p] = a
    BY DEF Writers, WritingStages
  <2> QED BY <2>1 DEF EpochInv, IsPair
<1> QED BY <1>1, EpochAlways, PTL

-----------------------------------------------------------------------------
(* A run that nobody disturbs *)

\* A document depends on nothing but what its job reads.
LEMMA DocumentIsOfReads ==
    ASSUME NEW j \in Jobs, NEW s, NEW t,
           \A k \in 1..Len(Reads(j)) : s[Reads(j)[k]] = t[Reads(j)[k]]
    PROVE  Document(j, s) = Document(j, t)
<1>1. \A x \in Used(j) : s[x] = t[x]
  BY ReadsFacts DEF Used
<1>2. [x \in Used(j) |-> s[x]] = [x \in Used(j) |-> t[x]]
  BY <1>1
<1> QED BY <1>2 DEF Document

\* Those whose step it is not, when they stay undisturbed.
LEMMA OthersKnow ==
    ASSUME StillInv, NEW q \in Processes, still'[q], still[q],
           pc'[q] = pc[q], job'[q] = job[q], at'[q] = at[q], snapshot'[q] = snapshot[q],
           on_disk'[q] = on_disk[q], source' = source,
           yaml'[Subject(job[q])] = yaml[Subject(job[q])],
           digest'[Subject(job[q])] = digest[Subject(job[q])]
    PROVE  Informed(q)'
BY DEF StillInv, Informed

\* Of its own artifact a step tells those who are about it.
LEMMA OthersStayKnowing ==
    ASSUME TypeInv, StillInv, NEW p \in Processes, job[p] \in Artifacts, Disturb(p, job[p]),
           \A a \in Artifacts \ {job[p]} : yaml'[a] = yaml[a] /\ digest'[a] = digest[a],
           UNCHANGED <<job, source>>,
           \A q \in Processes \ {p} : /\ pc'[q] = pc[q] /\ at'[q] = at[q]
                                      /\ snapshot'[q] = snapshot[q] /\ on_disk'[q] = on_disk[q]
    PROVE  \A q \in Processes \ {p} : still'[q] => Informed(q)'
<1> SUFFICES ASSUME NEW q \in Processes \ {p}, still'[q] PROVE Informed(q)'
  OBVIOUS
<1>1. still[q] /\ Subject(job[q]) # job[p]
  BY DEF Disturb
<1>2. Subject(job[q]) \in Artifacts
  BY DEF TypeInv, TypeOK, Subject, Jobs, Artifacts
<1> QED BY <1>1, <1>2, OthersKnow

LEMMA ExitLocals ==
    ASSUME TypeInv, NEW p \in Processes, NEW how \in Ended, Exit(p, how)
    PROVE  /\ pc'[p] = how /\ UNCHANGED job
           /\ \A q \in Processes \ {p} : /\ pc'[q] = pc[q] /\ at'[q] = at[q]
                                         /\ snapshot'[q] = snapshot[q]
                                         /\ on_disk'[q] = on_disk[q]
BY DEF Exit, Goto, TypeInv, TypeOK

\* It has read all its sources, and they are as it has read them.
LEMMA MeansTheSources ==
    ASSUME TypeInv, StillInv, NEW p \in Processes, still[p], pc[p] \in Running \ {"read"}
    PROVE  /\ Bytes(p) = canonical_bytes(Document(job[p], source))
           /\ \A k \in 1..at[p] : snapshot[p][Reads(job[p])[k]] = source[Reads(job[p])[k]]
           /\ at[p] = Len(Reads(job[p]))
<1>1. /\ \A k \in 1..at[p] : snapshot[p][Reads(job[p])[k]] = source[Reads(job[p])[k]]
      /\ at[p] = Len(Reads(job[p]))
  BY DEF StillInv, Informed, Knows
<1>2. Document(job[p], snapshot[p]) = Document(job[p], source)
  BY <1>1, DocumentIsOfReads DEF TypeInv, TypeOK
<1> QED BY <1>1, <1>2 DEF Bytes

LEMMA ReadStillInv ==
    ASSUME TypeInv, StillInv, NEW p \in Processes, Read(p)
    PROVE  StillInv'
<1>1. pc[p] = "read" /\ UNCHANGED <<source, yaml, digest, still>>
  BY DEF Read
<1>2. CASE Exit(p, "raised")
  <2>1. "raised" \in Ended
    BY DEF Ended
  <2>2. still[p] => Informed(p)'
    BY <1>2, <2>1, ExitLocals DEF Informed, Knows, Running, WritingStages
  <2>3. \A q \in Processes \ {p} : still[q] => Informed(q)'
    BY <1>1, <1>2, <2>1, ExitLocals, OthersKnow
  <2> QED BY <1>1, <2>2, <2>3 DEF StillInv
<1>3. CASE ~Exit(p, "raised")
  <2> DEFINE j == job[p]
             s == Reads(j)[at[p] + 1]
  <2>1. /\ snapshot' = [snapshot EXCEPT ![p][s] = source[s]]
        /\ at' = [at EXCEPT ![p] = @ + 1]
        /\ UNCHANGED <<job, on_disk>>
        /\ \/ at[p] + 1 < Len(Reads(j)) /\ UNCHANGED pc
           \/ /\ ~(at[p] + 1 < Len(Reads(j)))
              /\ \/ pc' = [pc EXCEPT ![p] = "look"]
                 \/ pc' = [pc EXCEPT ![p] = "truncate yaml"]
    BY <1>3, Zenon DEF Read, Goto
  <2>2. /\ \A q \in Processes \ {p} : /\ pc'[q] = pc[q] /\ at'[q] = at[q]
                                      /\ snapshot'[q] = snapshot[q] /\ on_disk'[q] = on_disk[q]
        /\ at'[p] = at[p] + 1
        /\ \A x \in Sources : snapshot'[p][x] = IF x = s THEN source[s] ELSE snapshot[p][x]
    BY <2>1 DEF TypeInv, TypeOK
  <2>3. \A q \in Processes \ {p} : still[q] => Informed(q)'
    BY <1>1, <2>1, <2>2, OthersKnow
  <2>4. ASSUME still[p] PROVE Informed(p)'
    <3>1. /\ at[p] \in 0..3 /\ at[p] < Len(Reads(j)) /\ Len(Reads(j)) \in 1..3
          /\ \A k \in 1..Len(Reads(j)) : Reads(j)[k] \in Sources
      <4>1. j \in Jobs /\ at[p] \in 0..3 /\ at[p] < Len(Reads(j))
        BY <1>1 DEF TypeInv, TypeOK, StageInv
      <4> QED BY <4>1, ReadsFacts
    <3>2. \A k \in 1..at[p] : snapshot[p][Reads(j)[k]] = source[Reads(j)[k]]
      BY <1>1, <2>4 DEF StillInv, Informed, Knows, Running
    <3>3. ASSUME NEW k \in 1..(at[p] + 1)
          PROVE  snapshot'[p][Reads(j)[k]] = source[Reads(j)[k]]
      <4>1. k \in 1..Len(Reads(j)) /\ (k \in 1..at[p] \/ k = at[p] + 1)
        BY <3>1
      <4> QED BY <2>2, <3>1, <3>2, <4>1
    <3>4. \/ pc'[p] = "read"
          \/ pc'[p] \in {"look", "truncate yaml"} /\ at[p] + 1 = Len(Reads(j))
      <4>1. ~(at[p] + 1 < Len(Reads(j))) => at[p] + 1 = Len(Reads(j))
        BY <3>1
      <4>2. \A stage : pc' = [pc EXCEPT ![p] = stage] => pc'[p] = stage
        BY DEF TypeInv, TypeOK
      <4> HIDE DEF j, s
      <4> QED BY <1>1, <2>1, <4>1, <4>2
    <3>5. source' = source /\ job'[p] = j
      BY <1>1, <2>1
    <3> HIDE DEF j, s
    <3> QED BY <2>2, <3>3, <3>4, <3>5 DEF Informed, Knows
  <2> QED BY <1>1, <2>3, <2>4 DEF StillInv
<1> QED BY <1>2, <1>3

LEMMA WriteStillInv ==
    ASSUME TypeInv, StillInv, NEW p \in Processes,
           TruncateYaml(p) \/ WriteYaml(p) \/ TruncateDigest(p)
    PROVE  StillInv'
<1> DEFINE j == job[p]
           b == canonical_bytes(Document(j, source))
<1>1. /\ Disturb(p, j) /\ UNCHANGED <<source, job, at, snapshot, on_disk>>
      /\ j \in Artifacts /\ Subject(j) = j
      /\ pc[p] \in {"truncate yaml", "write yaml", "truncate sha256"}
  BY DEF TruncateYaml, WriteYaml, TruncateDigest, TypeInv, StageInv, WritingStages, Subject,
     Artifacts, Verify
<1>2. /\ \A a \in Artifacts \ {j} : yaml'[a] = yaml[a] /\ digest'[a] = digest[a]
      /\ \A q \in Processes \ {p} : pc'[q] = pc[q]
      /\ \/ pc[p] = "truncate yaml" /\ pc'[p] = "write yaml" /\ yaml'[j] = Empty
         \/ /\ pc[p] = "write yaml" /\ pc'[p] = "truncate sha256"
            /\ yaml[j] \in {Empty, Bytes(p)} => yaml'[j] = Bytes(p)
         \/ pc[p] = "truncate sha256" /\ pc'[p] = "write sha256" /\ yaml'[j] = yaml[j]
  <2>1. CASE TruncateYaml(p)
    BY <1>1, <2>1 DEF TruncateYaml, Goto, TypeInv, TypeOK
  <2>2. CASE WriteYaml(p)
    <3>1. PICK t \in {Bytes(p), Garbled} :
             (yaml[j] \in {Empty, Bytes(p)} => t = Bytes(p)) /\ yaml' = [yaml EXCEPT ![j] = t]
      BY <2>2 DEF WriteYaml
    <3> QED BY <1>1, <2>2, <3>1 DEF WriteYaml, Goto, TypeInv, TypeOK
  <2>3. CASE TruncateDigest(p)
    BY <1>1, <2>3 DEF TruncateDigest, Goto, TypeInv, TypeOK
  <2> QED BY <2>1, <2>2, <2>3
<1>3. \A q \in Processes \ {p} : still'[q] => Informed(q)'
  BY <1>1, <1>2, OthersStayKnowing
<1>4. ASSUME still'[p] PROVE Informed(p)'
  <2>1. still[p]
    BY <1>1, <1>4 DEF Disturb
  <2>2. pc[p] \in Running \ {"read"}
    BY <1>1 DEF Running, WritingStages
  <2>3. /\ Bytes(p) = b /\ at[p] = Len(Reads(j))
        /\ \A k \in 1..at[p] : snapshot[p][Reads(j)[k]] = source[Reads(j)[k]]
    BY <2>1, <2>2, MeansTheSources
  <2>4. /\ pc[p] = "write yaml" => yaml[j] = Empty
        /\ pc[p] = "truncate sha256" => yaml[j] = b
    BY <1>1, <2>1 DEF StillInv, Informed, Knows
  <2>5. /\ pc'[p] \in {"write yaml", "truncate sha256", "write sha256"}
        /\ pc'[p] = "write yaml" => yaml'[j] = Empty
        /\ pc'[p] \in {"truncate sha256", "write sha256"} => yaml'[j] = b
    BY <1>2, <2>3, <2>4
  <2>6. Subject(job'[p]) = j /\ job'[p] = j /\ source' = source
    BY <1>1
  <2> QED BY <1>1, <2>3, <2>5, <2>6 DEF Informed, Knows
<1> QED BY <1>3, <1>4 DEF StillInv

LEMMA WriteDigestStillInv ==
    ASSUME TypeInv, StillInv, NEW p \in Processes, WriteDigest(p)
    PROVE  StillInv'
<1> DEFINE j == job[p]
           b == canonical_bytes(Document(j, source))
<1>1. /\ pc[p] = "write sha256" /\ Exit(p, "done") /\ Disturb(p, j) /\ UNCHANGED <<source, yaml>>
      /\ digest' = [digest EXCEPT ![j] = sha256(Bytes(p))]
  BY DEF WriteDigest
<1>2. /\ j \in Artifacts /\ Subject(j) = j /\ pc[p] \in Running \ {"read"}
  BY <1>1 DEF TypeInv, StageInv, WritingStages, Running, Subject, Artifacts, Verify
<1>3. /\ pc'[p] = "done" /\ UNCHANGED job
      /\ \A q \in Processes \ {p} : /\ pc'[q] = pc[q] /\ at'[q] = at[q]
                                    /\ snapshot'[q] = snapshot[q] /\ on_disk'[q] = on_disk[q]
  BY <1>1, ExitLocals DEF Ended
<1>4. /\ \A a \in Artifacts \ {j} : digest'[a] = digest[a]
      /\ digest'[j] = sha256(Bytes(p))
  BY <1>1, <1>2 DEF TypeInv, TypeOK
<1>5. \A q \in Processes \ {p} : still'[q] => Informed(q)'
  BY <1>1, <1>2, <1>3, <1>4, OthersStayKnowing
<1>6. ASSUME still'[p] PROVE Informed(p)'
  <2>1. still[p]
    BY <1>1, <1>6 DEF Disturb
  <2>2. Bytes(p) = b
    BY <1>2, <2>1, MeansTheSources
  <2>3. yaml[j] = b
    BY <1>1, <1>2, <2>1 DEF StillInv, Informed, Knows
  <2>4. "done" \notin Running
    BY DEF Running, WritingStages
  <2>5. Subject(job'[p]) = j /\ job'[p] = j /\ source' = source /\ yaml'[j] = b
        /\ digest'[j] = sha256(b) /\ pc'[p] = "done"
    BY <1>1, <1>2, <1>3, <1>4, <2>2, <2>3
  <2> QED BY <1>2, <2>4, <2>5 DEF Informed, Knows
<1> QED BY <1>5, <1>6 DEF StillInv

LEMMA VerifyStillInv ==
    ASSUME TypeInv, StillInv, NEW p \in Processes, Look(p) \/ Compare(p)
    PROVE  StillInv'
<1> DEFINE j == job[p]
           b == canonical_bytes(Document(j, source))
           y == yaml[Subject(j)]
           d == digest[Subject(j)]
<1>1. /\ pc[p] \in {"look", "compare"} /\ pc[p] \in Running \ {"read"}
      /\ UNCHANGED <<source, yaml, digest, still>>
  BY DEF Look, Compare, Running
<1>2. /\ UNCHANGED job
      /\ \A q \in Processes \ {p} : /\ pc'[q] = pc[q] /\ at'[q] = at[q]
                                    /\ snapshot'[q] = snapshot[q] /\ on_disk'[q] = on_disk[q]
      /\ \/ pc'[p] = "no fixture" /\ y = Absent
         \/ /\ pc'[p] = "compare" /\ on_disk'[p] = sha256(y)
            /\ at'[p] = at[p] /\ snapshot'[p] = snapshot[p]
         \/ /\ pc[p] = "compare" /\ pc'[p] = "AGREEMENT"
            /\ sha256(Bytes(p)) = on_disk[p] /\ on_disk[p] = d
         \/ /\ pc[p] = "compare" /\ pc'[p] = "DISAGREEMENT"
            /\ ~(sha256(Bytes(p)) = on_disk[p] /\ on_disk[p] = d)
  <2>1. {"no fixture", "AGREEMENT", "DISAGREEMENT"} \subseteq Ended
    BY DEF Ended
  <2>2. CASE Look(p) /\ y = Absent
    BY <2>1, <2>2, ExitLocals DEF Look
  <2>3. CASE Look(p) /\ y # Absent
    <3>1. /\ pc' = [pc EXCEPT ![p] = "compare"] /\ on_disk' = [on_disk EXCEPT ![p] = sha256(y)]
          /\ UNCHANGED <<job, at, snapshot>>
      BY <2>3 DEF Look, Goto
    <3> QED BY <3>1 DEF TypeInv, TypeOK
  <2>4. CASE Compare(p)
    <3>1. \/ /\ sha256(Bytes(p)) = on_disk[p] /\ on_disk[p] = d /\ Exit(p, "AGREEMENT")
          \/ /\ ~(sha256(Bytes(p)) = on_disk[p] /\ on_disk[p] = d) /\ Exit(p, "DISAGREEMENT")
      BY <2>4 DEF Compare
    <3>2. pc[p] = "compare"
      BY <2>4 DEF Compare
    <3>3. CASE Exit(p, "AGREEMENT")
      BY <2>1, <3>1, <3>2, <3>3, ExitLocals
    <3>4. CASE Exit(p, "DISAGREEMENT")
      BY <2>1, <3>1, <3>2, <3>4, ExitLocals
    <3> QED BY <3>1, <3>3, <3>4
  <2> QED BY <2>2, <2>3, <2>4
<1>3. \A q \in Processes \ {p} : still'[q] => Informed(q)'
  BY <1>1, <1>2, OthersKnow
<1>4. ASSUME still'[p] PROVE Informed(p)'
  <2>1. still[p]
    BY <1>1, <1>4
  <2>2. /\ Bytes(p) = b /\ at[p] = Len(Reads(j))
        /\ \A k \in 1..at[p] : snapshot[p][Reads(j)[k]] = source[Reads(j)[k]]
    BY <1>1, <2>1, MeansTheSources
  <2>3. pc[p] = "compare" => on_disk[p] = sha256(y)
    BY <2>1 DEF StillInv, Informed, Knows
  <2>4. sha256(b) = sha256(y) => y = b
    BY DigestsAreApart
  <2>5. /\ pc'[p] = "AGREEMENT" => y = b /\ d = sha256(b)
        /\ pc'[p] = "DISAGREEMENT" => ~(y = b /\ d = sha256(b))
    BY <1>2, <2>2, <2>3, <2>4
  <2>6. {"no fixture", "AGREEMENT", "DISAGREEMENT"} \cap Running = {}
    BY DEF Running, WritingStages
  <2>7. /\ job'[p] = j /\ source' = source
        /\ yaml'[Subject(job'[p])] = y /\ digest'[Subject(job'[p])] = d
    BY <1>1, <1>2
  <2> HIDE DEF j, b, y, d
  <2>8. CASE pc'[p] = "compare"
    <3>1. at'[p] = at[p] /\ snapshot'[p] = snapshot[p] /\ on_disk'[p] = sha256(y)
      BY <1>2, <2>8
    <3> QED BY <2>2, <2>7, <2>8, <3>1 DEF Informed, Knows
  <2>9. CASE pc'[p] # "compare"
    <3>1. /\ pc'[p] \in {"no fixture", "AGREEMENT", "DISAGREEMENT"}
          /\ pc'[p] = "no fixture" => y = Absent
      BY <1>2, <2>9
    <3> QED BY <2>5, <2>6, <2>7, <3>1 DEF Informed, Knows, b
  <2> QED BY <2>8, <2>9
<1> QED BY <1>3, <1>4 DEF StillInv

LEMMA EditStillInv ==
    ASSUME TypeInv, StillInv, NEW s \in Sources, Edit(s)
    PROVE  StillInv'
<1> SUFFICES ASSUME NEW p \in Processes, still'[p] PROVE Informed(p)'
  BY DEF StillInv
<1> DEFINE j == job[p]
<1>1. PICK c \in Contents[s] \ {source[s]} : source' = [source EXCEPT ![s] = c]
  BY DEF Edit
<1>2. still[p] /\ s \notin Used(j) /\ UNCHANGED <<yaml, digest, pc, job, at, snapshot, on_disk>>
  BY DEF Edit, process
<1>3. /\ j \in Jobs /\ at[p] \in 0..Len(Reads(j)) /\ Len(Reads(j)) \in 1..3
      /\ DOMAIN Reads(j) = 1..Len(Reads(j)) /\ \A k \in 1..Len(Reads(j)) : Reads(j)[k] \in Sources
  <2>1. j \in Jobs /\ at[p] \in 0..3 /\ at[p] <= Len(Reads(j))
    BY DEF TypeInv, TypeOK
  <2> QED BY <2>1, ReadsFacts
<1>4. \A k \in 1..Len(Reads(j)) : source'[Reads(j)[k]] = source[Reads(j)[k]]
  BY <1>1, <1>2, <1>3 DEF Used, TypeInv, TypeOK
<1>5. Document(j, source') = Document(j, source)
  BY <1>3, <1>4, DocumentIsOfReads
<1>6. \A k \in 1..at[p] : source'[Reads(j)[k]] = source[Reads(j)[k]]
  BY <1>3, <1>4
<1>7. Informed(p)
  BY <1>2 DEF StillInv
<1>8. /\ pc'[p] = pc[p] /\ job'[p] = j /\ at'[p] = at[p] /\ snapshot'[p] = snapshot[p]
      /\ on_disk'[p] = on_disk[p] /\ yaml' = yaml /\ digest' = digest
  BY <1>2
<1> QED BY <1>5, <1>6, <1>7, <1>8 DEF Informed, Knows

LEMMA NextStillInv == TypeInv /\ StillInv /\ [Next]_vars => StillInv'
<1> SUFFICES ASSUME TypeInv, StillInv, [Next]_vars PROVE StillInv'
  OBVIOUS
<1>1. ASSUME NEW p \in Processes, Step(p) PROVE StillInv'
  BY <1>1, ReadStillInv, WriteStillInv, WriteDigestStillInv, VerifyStillInv DEF Step
<1>2. ASSUME NEW p \in Processes, Kill(p) PROVE StillInv'
  <2>1. /\ Exit(p, "killed") /\ "killed" \in Ended /\ "killed" \notin Running
        /\ UNCHANGED <<source, yaml, digest, still>>
    BY <1>2 DEF Kill, Ended, Running, WritingStages
  <2>2. Informed(p)'
    BY <2>1, ExitLocals DEF Informed, Knows
  <2>3. \A q \in Processes \ {p} : still'[q] => Informed(q)'
    BY <2>1, ExitLocals, OthersKnow
  <2> QED BY <2>2, <2>3 DEF StillInv
<1>3. ASSUME NEW p \in Processes, NEW j \in Jobs, Start(p, j) PROVE StillInv'
  <2>1. /\ pc[p] \in Ended /\ pc' = [pc EXCEPT ![p] = "read"]
        /\ job' = [job EXCEPT ![p] = j] /\ still' = [still EXCEPT ![p] = TRUE]
        /\ UNCHANGED <<source, yaml, digest, at, snapshot, on_disk>>
    BY <1>3 DEF Start, Goto
  <2>2. pc'[p] = "read" /\ at'[p] = 0
    BY <2>1 DEF TypeInv, TypeOK, StageInv
  <2>3. Informed(p)'
    BY <2>2 DEF Informed, Knows
  <2>4. \A q \in Processes \ {p} : /\ pc'[q] = pc[q] /\ job'[q] = job[q] /\ still'[q] = still[q]
    BY <2>1 DEF TypeInv, TypeOK
  <2>5. \A q \in Processes \ {p} : still'[q] => Informed(q)'
    BY <2>1, <2>4, OthersKnow
  <2> QED BY <2>3, <2>5 DEF StillInv
<1>4. ASSUME NEW s \in Sources, Edit(s) PROVE StillInv'
  BY <1>4, EditStillInv
<1>5. CASE UNCHANGED vars
  BY <1>5 DEF vars, process, StillInv, Informed
<1> QED BY <1>1, <1>2, <1>3, <1>4, <1>5 DEF Next

LEMMA StillAlways == Spec => []StillInv
<1>1. Init => StillInv
  BY DEF Init, StillInv
<1> QED BY <1>1, TypesHold, NextStillInv, PTL DEF Spec

\* A generator that nobody disturbs publishes the sources as they are when it ends, however
\* many processes run besides it and whatever happened before it.
THEOREM SourcesArePublished == Spec => []RunPublishesSources
<1>1. TypeInv /\ StillInv => RunPublishesSources
  <2> SUFFICES ASSUME TypeInv, StillInv, NEW p \in Processes, pc[p] = "done", still[p]
               PROVE  IsPair(job[p], canonical_bytes(Document(job[p], source)))
    BY DEF RunPublishesSources
  <2>1. /\ job[p] \in Artifacts
        /\ yaml[Subject(job[p])] = canonical_bytes(Document(job[p], source))
        /\ digest[Subject(job[p])] = sha256(canonical_bytes(Document(job[p], source)))
    BY DEF StillInv, Informed, Knows
  <2>2. Subject(job[p]) = job[p]
    BY <2>1 DEF Subject, Artifacts, Verify
  <2> QED BY <2>1, <2>2 DEF IsPair
<1> QED BY <1>1, TypesHold, StillAlways, PTL

\* The verifier that nobody disturbs says AGREEMENT of the pair of the FIXTURE, DISAGREEMENT
\* of everything else that is there, and that there is no fixture only when there is none.
THEOREM VerdictsAreEarned == Spec => []VerdictIsEarned
<1>1. TypeInv /\ StillInv => VerdictIsEarned
  <2> SUFFICES ASSUME TypeInv, StillInv, NEW p \in Processes, job[p] = Verify, still[p]
               PROVE  LET fixture == canonical_bytes(Document(Verify, source))
                      IN  /\ pc[p] = "AGREEMENT" => IsPair("canonicalization_fixture", fixture)
                          /\ pc[p] = "DISAGREEMENT" =>
                                ~IsPair("canonicalization_fixture", fixture)
                          /\ pc[p] = "no fixture" => yaml["canonicalization_fixture"] = Absent
    BY DEF VerdictIsEarned
  <2>1. Subject(job[p]) = "canonicalization_fixture"
    BY DEF Subject
  <2>2. Informed(p)
    BY DEF StillInv
  <2> QED BY <2>1, <2>2 DEF Informed, Knows, IsPair
<1> QED BY <1>1, TypesHold, StillAlways, PTL
=============================================================================
