------------------------------ MODULE Exchange ------------------------------
(***************************************************************************)
(* The exchange directory: three artifacts, each a .yaml and the .sha256   *)
(* of its bytes; the generators that write them from the sources; and      *)
(* canonical_yaml.py --verify-fixture, which reads one pair back. Any of   *)
(* them may run at the same time as any other, and be killed.              *)
(***************************************************************************)
EXTENDS Naturals, Sequences, FiniteSets, Published

CONSTANTS
    Processes,
    Contents,   \* source file -> what may be in it
    Committed,  \* source file -> what is in it to begin with
    JobSets,    \* the sets of jobs that are run together
    MaxEdits    \* bound on the edits of the sources

Artifacts == {"scl_requirements", "scl_contract_clauses", "canonicalization_fixture"}
Sources == {"builder", "registry", "header", "contract", "suite", "mutations", "FIXTURE"}
Verify == "verify-fixture"
Jobs == Artifacts \cup {Verify}

ASSUME ExchangeAssumption ==
    /\ DOMAIN Contents = Sources /\ DOMAIN Committed = Sources
    /\ \A s \in Sources : Committed[s] \in Contents[s]
    /\ JobSets \subseteq SUBSET Jobs
    /\ MaxEdits \in Nat

VARIABLES
    jobs,      \* what is run
    source,    \* the sources as they are now
    yaml,      \* artifact -> the bytes of its .yaml
    digest,    \* artifact -> the bytes of its .sha256
    pc, job,
    at,        \* process -> how many of its sources it has read
    snapshot,  \* process -> what it has read in them
    on_disk,   \* process -> the digest of the fixture it has read
    edits,
    epoch,     \* what was being written since a writer of the artifact was last alone
    still      \* process -> nothing it looks at was changed by anyone else since it started

process == <<pc, job, at, snapshot, on_disk>>
vars == <<jobs, source, yaml, digest, process, edits, epoch, still>>

-----------------------------------------------------------------------------
(* What the processes compute *)

\* The artifact the job is about.
Subject(j) == IF j = Verify THEN "canonicalization_fixture" ELSE j

\* What they open, in this order: the modules of their own as they are imported first.
Reads(j) ==
    [scl_requirements |-> <<"builder", "registry", "header">>,
     scl_contract_clauses |-> <<"contract", "suite", "mutations">>,
     canonicalization_fixture |-> <<"FIXTURE">>][Subject(j)]

Used(j) == {Reads(j)[k] : k \in DOMAIN Reads(j)}

MadeFrom(j, read) ==
    CASE j = "scl_requirements" -> RequirementsDocument(read)
      [] j = "scl_contract_clauses" -> ClausesDocument(read)
      [] OTHER -> [fixture |-> read.FIXTURE]

\* From the sources the job reads, and no others.
Document(j, s) == MadeFrom(j, [x \in Used(j) |-> s[x]])

\* The contents of a file. Different documents have different bytes (CanonicalYaml), and
\* no two bytes the same digest.
canonical_bytes(document) == [bytes |-> document]
sha256(bytes) == [sha256 |-> bytes]
Absent == [absent |-> TRUE]
Empty == [empty |-> TRUE]
Garbled == [garbled |-> TRUE]
Killed == [killed |-> TRUE]

Bytes(p) == canonical_bytes(Document(job[p], snapshot[p]))

WritingStages == {"write yaml", "truncate sha256", "write sha256"}
Ended == {"done", "raised", "killed", "AGREEMENT", "DISAGREEMENT", "no fixture"}
Running == {"read", "truncate yaml", "look", "compare"} \cup WritingStages

Writers(a) == {p \in Processes : pc[p] \in WritingStages /\ job[p] = a}

\* Another process has changed something about the artifact.
Disturb(p, a) ==
    still' = [q \in Processes |-> still[q] /\ (q = p \/ Subject(job[q]) # a)]

Goto(p, stage) == pc' = [pc EXCEPT ![p] = stage]

Unread == [s \in Sources |-> Unparsable]

\* The locals of a process go with it.
Exit(p, how) ==
    /\ Goto(p, how)
    /\ at' = [at EXCEPT ![p] = 0]
    /\ snapshot' = [snapshot EXCEPT ![p] = Unread]
    /\ on_disk' = [on_disk EXCEPT ![p] = Absent]
    /\ UNCHANGED job

-----------------------------------------------------------------------------

Init ==
    /\ jobs \in JobSets
    /\ source = Committed
    /\ yaml = [a \in Artifacts |-> Absent]
    /\ digest = [a \in Artifacts |-> Absent]
    /\ pc = [p \in Processes |-> "done"]
    /\ job = [p \in Processes |-> Verify]
    /\ at = [p \in Processes |-> 0]
    /\ snapshot = [p \in Processes |-> Unread]
    /\ on_disk = [p \in Processes |-> Absent]
    /\ edits = 0
    /\ epoch = [a \in Artifacts |-> {}]
    /\ still = [p \in Processes |-> FALSE]

Start(p, j) ==
    /\ pc[p] \in Ended /\ j \in jobs
    /\ Goto(p, "read")
    /\ job' = [job EXCEPT ![p] = j]
    /\ still' = [still EXCEPT ![p] = TRUE]
    /\ UNCHANGED <<jobs, source, yaml, digest, at, snapshot, on_disk, edits, epoch>>

\* The next of its sources; after the last one its document is made, or the import raises.
Read(p) ==
    /\ pc[p] = "read"
    /\ LET j == job[p]
           s == Reads(j)[at[p] + 1]
           read == [snapshot EXCEPT ![p][s] = source[s]]
       IN  IF at[p] + 1 < Len(Reads(j))
           THEN /\ snapshot' = read /\ at' = [at EXCEPT ![p] = @ + 1]
                /\ UNCHANGED <<pc, job, on_disk>>
           ELSE IF Document(j, read[p]) = Raised THEN Exit(p, "raised")
           ELSE /\ snapshot' = read /\ at' = [at EXCEPT ![p] = @ + 1]
                /\ Goto(p, IF j = Verify THEN "look" ELSE "truncate yaml")
                /\ UNCHANGED <<job, on_disk>>
    /\ UNCHANGED <<jobs, source, yaml, digest, edits, epoch, still>>

\* Mutant: nothing is written when the .yaml is up to date.
TruncateYamlUnlessSame(p) ==
    /\ pc[p] = "truncate yaml"
    /\ IF yaml[job[p]] = Bytes(p) THEN Exit(p, "done") /\ UNCHANGED <<yaml, epoch, still>>
       ELSE /\ yaml' = [yaml EXCEPT ![job[p]] = Empty]
            /\ epoch' = [epoch EXCEPT ![job[p]] =
                            IF Writers(job[p]) = {} THEN {Bytes(p)} ELSE @ \cup {Bytes(p)}]
            /\ Disturb(p, job[p])
            /\ Goto(p, "write yaml") /\ UNCHANGED <<job, at, snapshot, on_disk>>
    /\ UNCHANGED <<jobs, source, digest, edits>>

\* write_bytes opens the file first, which empties it.
TruncateYaml(p) ==
    /\ pc[p] = "truncate yaml"
    /\ LET a == job[p]
       IN  /\ yaml' = [yaml EXCEPT ![a] = Empty]
           /\ epoch' = [epoch EXCEPT ![a] =
                            IF Writers(a) = {} THEN {Bytes(p)} ELSE @ \cup {Bytes(p)}]
           /\ Disturb(p, a)
    /\ Goto(p, "write yaml")
    /\ UNCHANGED <<jobs, source, digest, job, at, snapshot, on_disk, edits>>

\* From the start of the file: over what another process has put there since, the longer
\* of the two keeps its tail.
WriteYaml(p) ==
    /\ pc[p] = "write yaml"
    /\ LET a == job[p]
       IN  /\ \E b \in IF yaml[a] \in {Empty, Bytes(p)} THEN {Bytes(p)} ELSE {Bytes(p), Garbled} :
                  yaml' = [yaml EXCEPT ![a] = b]
           /\ Disturb(p, a)
    /\ Goto(p, "truncate sha256")
    /\ UNCHANGED <<jobs, source, digest, job, at, snapshot, on_disk, edits, epoch>>

TruncateDigest(p) ==
    /\ pc[p] = "truncate sha256"
    /\ digest' = [digest EXCEPT ![job[p]] = Empty]
    /\ Disturb(p, job[p])
    /\ Goto(p, "write sha256")
    /\ UNCHANGED <<jobs, source, yaml, job, at, snapshot, on_disk, edits, epoch>>

\* Mutant: the digest of a document made anew.
WriteDigestAnew(p) ==
    /\ pc[p] = "write sha256"
    /\ digest' = [digest EXCEPT ![job[p]] = sha256(canonical_bytes(Document(job[p], source)))]
    /\ Disturb(p, job[p])
    /\ Exit(p, "done")
    /\ UNCHANGED <<jobs, source, yaml, edits, epoch>>

\* All digests are of one length.
WriteDigest(p) ==
    /\ pc[p] = "write sha256"
    /\ digest' = [digest EXCEPT ![job[p]] = sha256(Bytes(p))]
    /\ Disturb(p, job[p])
    /\ Exit(p, "done")
    /\ UNCHANGED <<jobs, source, yaml, edits, epoch>>

\* --verify-fixture. With no fixture there is nothing to disagree with: exit 0.
Look(p) ==
    /\ pc[p] = "look"
    /\ IF yaml[Subject(job[p])] = Absent THEN Exit(p, "no fixture")
       ELSE /\ on_disk' = [on_disk EXCEPT ![p] = sha256(yaml[Subject(job[p])])]
            /\ Goto(p, "compare")
            /\ UNCHANGED <<job, at, snapshot>>
    /\ UNCHANGED <<jobs, source, yaml, digest, edits, epoch, still>>

\* Mutant: the two files against each other, and not against the source.
CompareFiles(p) ==
    /\ pc[p] = "compare"
    /\ Exit(p, IF on_disk[p] = digest[Subject(job[p])] THEN "AGREEMENT" ELSE "DISAGREEMENT")
    /\ UNCHANGED <<jobs, source, yaml, digest, edits, epoch, still>>

\* produced == on_disk == recorded
Compare(p) ==
    /\ pc[p] = "compare"
    /\ LET produced == sha256(Bytes(p))
           recorded == digest[Subject(job[p])]
       IN  Exit(p, IF produced = on_disk[p] /\ on_disk[p] = recorded
                   THEN "AGREEMENT" ELSE "DISAGREEMENT")
    /\ UNCHANGED <<jobs, source, yaml, digest, edits, epoch, still>>

\* Of a source that is read in what is run.
Edit(s) ==
    /\ edits < MaxEdits /\ \E j \in jobs : s \in Used(j)
    /\ \E c \in Contents[s] \ {source[s]} : source' = [source EXCEPT ![s] = c]
    /\ edits' = edits + 1
    /\ still' = [p \in Processes |-> still[p] /\ s \notin Used(job[p])]
    /\ UNCHANGED <<jobs, yaml, digest, process, epoch>>

Kill(p) ==
    /\ pc[p] \in Running
    /\ Exit(p, "killed")
    /\ epoch' = IF pc[p] \in WritingStages THEN [epoch EXCEPT ![job[p]] = @ \cup {Killed}]
                ELSE epoch
    /\ UNCHANGED <<jobs, source, yaml, digest, edits, still>>

Step(p) ==
    \/ Read(p) \/ TruncateYaml(p) \/ WriteYaml(p) \/ TruncateDigest(p) \/ WriteDigest(p)
    \/ Look(p) \/ Compare(p)

Next ==
    \/ \E p \in Processes : Step(p) \/ Kill(p) \/ (\E j \in Jobs : Start(p, j))
    \/ \E s \in Sources : Edit(s)

Spec == Init /\ [][Next]_vars

-----------------------------------------------------------------------------
(* Properties *)

TypeOK ==
    /\ jobs \in JobSets
    /\ DOMAIN source = Sources /\ \A s \in Sources : source[s] \in Contents[s]
    /\ pc \in [Processes -> Running \cup Ended]
    /\ job \in [Processes -> Jobs]
    /\ at \in [Processes -> 0..3]
    /\ \A p \in Processes : at[p] <= Len(Reads(job[p]))
    /\ DOMAIN snapshot = Processes
    /\ \A p \in Processes : DOMAIN snapshot[p] = Sources
    /\ still \in [Processes -> BOOLEAN]
    /\ DOMAIN yaml = Artifacts /\ DOMAIN digest = Artifacts /\ DOMAIN epoch = Artifacts
    /\ DOMAIN on_disk = Processes
    /\ edits \in 0..MaxEdits

IsPair(a, b) == yaml[a] = b /\ digest[a] = sha256(b)

\* Generators that overlap leave a whole pair behind as long as they write the same
\* document: however their four writes interleave, once nobody is writing the .yaml has
\* the bytes and the .sha256 their digest. After a writer that was killed, or a pair that
\* was mixed, one run that nobody overlaps makes it whole.
QuietPairIsWhole ==
    \A a \in Artifacts : \A b \in epoch[a] :
        Writers(a) = {} /\ epoch[a] = {b} /\ b # Killed => IsPair(a, b)

\* A run that nobody disturbs publishes what the sources say when it ends, although it
\* reads them one after the other: to generate again changes no byte.
RunPublishesSources ==
    \A p \in Processes :
        pc[p] = "done" /\ still[p] => IsPair(job[p], canonical_bytes(Document(job[p], source)))

\* The verdict of the verifier is about what is on disk: while nobody disturbs it, it is
\* AGREEMENT exactly when the pair is that of the FIXTURE of the source; a torn pair, a
\* stale one, or a digest that is not there is a DISAGREEMENT.
VerdictIsEarned ==
    \A p \in Processes :
        job[p] = Verify /\ still[p] =>
            LET fixture == canonical_bytes(Document(Verify, source))
            IN  /\ pc[p] = "AGREEMENT" => IsPair("canonicalization_fixture", fixture)
                /\ pc[p] = "DISAGREEMENT" => ~IsPair("canonicalization_fixture", fixture)
                /\ pc[p] = "no fixture" => yaml["canonicalization_fixture"] = Absent

=============================================================================
