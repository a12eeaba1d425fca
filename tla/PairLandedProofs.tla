--------------------------- MODULE PairLandedProofs ---------------------------
(***************************************************************************)
(* Theorems of verify_pair_landed.py, for any files, contents and branches *)
(* and any number of changes and failures.                                 *)
(***************************************************************************)
EXTENDS PairLanded, TLAPS

-----------------------------------------------------------------------------
(* Type correctness, and that a file is being compared when one is read. *)

TypeInv == TypeOK /\ (step \in {"exists", "read", "compare"} => file \in Files)

LEMMA InitTypeOK == Init => TypeOK
<1> SUFFICES ASSUME Init PROVE TypeOK
  OBVIOUS
<1>1. PICK t \in Trees, u \in Trees, b \in Branches :
         /\ branch = [r \in Repos |-> b]
         /\ tree = <<t, u>>
         /\ local = [r \in Repos |-> [c \in Branches |-> [id |-> 0, tree |-> tree[r]]]]
         /\ remote = [r \in Repos |-> [c \in Branches |->
               IF c = b THEN local[r][c] ELSE Empty]]
  BY DEF Init
<1>2. tree \in [Repos -> Trees]
  BY <1>1 DEF Repos
<1>3. \A r \in Repos : [id |-> 0, tree |-> tree[r]] \in Commits
  BY <1>2, PairAssumption DEF Commits
<1>4. local \in [Repos -> [Branches -> Commits]]
  BY <1>1, <1>3
<1>5. remote \in [Repos -> [Branches -> Commits \cup {Empty}]]
  BY <1>1, <1>4
<1>6. seen \in [branch : Branches \cup {Empty}, local : Commits \cup {Empty},
                remote : Commits \cup {Empty}]
  BY DEF Init, NothingSeen
<1>7. digests \in [Repos -> Contents \cup {Absent}]
  BY DEF Init, NoDigests
<1> QED
  BY <1>1, <1>2, <1>4, <1>5, <1>6, <1>7, PairAssumption DEF Init, TypeOK, Repos

\* The world is all that people change, the verifier all that it changes itself.
LEMMA PeopleTypeOK ==
    ASSUME TypeOK, NEW r \in Repos,
           Edit(r) \/ Commit(r) \/ Push(r) \/ RemoteAdvances(r) \/ Checkout(r)
    PROVE  TypeOK'
<1> USE PairAssumption DEF Change, verifier
<1>0. \A files \in SUBSET Files : {r} \X files \subseteq Repos \X Files
  OBVIOUS
<1>1. local[r] \in [Branches -> Commits] /\ branch[r] \in Branches /\ tree[r] \in Trees
  BY DEF TypeOK
<1>2. \A c \in Branches : local[r][c] \in Commits /\ local[r][c].tree \in Trees
  BY <1>1 DEF Commits
<1>3. CASE Edit(r)
  <2>1. PICK f \in Files, c \in Contents \cup {Absent} :
           tree' = [tree EXCEPT ![r][f] = c] /\ Change(r, {f}, FALSE)
    BY <1>3 DEF Edit
  <2>2. tree' \in [Repos -> Trees]
    BY <2>1 DEF TypeOK, Trees
  <2> QED BY <1>0, <1>3, <2>1, <2>2 DEF TypeOK, Edit
<1>4. CASE Commit(r)
  <2>1. [id |-> changes + 1, tree |-> tree[r]] \in Commits
    BY <1>1, <1>4 DEF TypeOK, Commits, Commit
  <2>2. local' \in [Repos -> [Branches -> Commits]]
    BY <1>1, <1>4, <2>1 DEF TypeOK, Commit
  <2> QED BY <1>0, <1>4, <2>2 DEF TypeOK, Commit
<1>5. CASE Push(r)
  <2>1. remote' \in [Repos -> [Branches -> Commits \cup {Empty}]]
    BY <1>1, <1>2, <1>5 DEF TypeOK, Push
  <2> QED BY <1>0, <1>5, <2>1 DEF TypeOK, Push
<1>6. CASE RemoteAdvances(r)
  <2>1. PICK b \in Branches :
           remote' = [remote EXCEPT ![r][b] = [id |-> changes + 1, tree |-> local[r][b].tree]]
    BY <1>6 DEF RemoteAdvances
  <2>2. [id |-> changes + 1, tree |-> local[r][b].tree] \in Commits
    BY <1>2, <1>6 DEF TypeOK, Commits, RemoteAdvances
  <2>3. remote' \in [Repos -> [Branches -> Commits \cup {Empty}]]
    BY <2>1, <2>2 DEF TypeOK
  <2> QED BY <1>0, <1>6, <2>3 DEF TypeOK, RemoteAdvances
<1>7. CASE Checkout(r)
  <2>1. PICK b \in Branches \ {branch[r]} :
           /\ branch' = [branch EXCEPT ![r] = b]
           /\ tree' = [tree EXCEPT ![r] = local[r][b].tree]
           /\ Change(r, {f \in Files : local[r][b].tree[f] # tree[r][f]}, TRUE)
    BY <1>7 DEF Checkout
  <2>2. tree' \in [Repos -> Trees] /\ branch' \in [Repos -> Branches]
    BY <1>2, <2>1 DEF TypeOK
  <2> QED BY <1>0, <1>7, <2>1, <2>2 DEF TypeOK, Checkout
<1> QED BY <1>3, <1>4, <1>5, <1>6, <1>7

LEMMA GitTypeOK ==
    ASSUME TypeOK, NEW field \in {"branch", "local", "remote"},
           NEW answer, Git(answer, field),
           answer \in (IF field = "branch" THEN Branches ELSE Commits) \cup {Empty}
    PROVE  /\ seen' \in [branch : Branches \cup {Empty}, local : Commits \cup {Empty},
                         remote : Commits \cup {Empty}]
           /\ failed' \in 0..MaxFailures
BY PairAssumption DEF Git, TypeOK

LEMMA NextRepoTypeOK ==
    ASSUME NEW again, NEW after, NextRepo(again, after)
    PROVE  repo' \in Repos /\ step' \in {again, after}
BY DEF NextRepo, Repos

LEMMA VerifyTypeInv == ASSUME TypeInv, Verify PROVE TypeInv'
<1> USE PairAssumption DEF world
<1>0. TypeOK
  BY DEF TypeInv
<1>1. CASE Start
  BY <1>1 DEF Start, TypeInv, TypeOK
<1>2. CASE ShowBranch
  <2>1. branch[repo] \in Branches
    BY DEF TypeInv, TypeOK
  <2> QED BY <1>0, <1>2, <2>1, GitTypeOK DEF ShowBranch, TypeInv, TypeOK
<1>3. CASE RevParse
  <2>1. local[repo][branch[repo]] \in Commits
    BY DEF TypeInv, TypeOK
  <2> QED BY <1>0, <1>3, <2>1, GitTypeOK DEF RevParse, TypeInv, TypeOK
<1>4. CASE LsRemote
  <2> DEFINE answer == IF seen.branch \in Branches THEN remote[repo][seen.branch] ELSE Empty
  <2>1. answer \in Commits \cup {Empty}
    BY DEF TypeInv, TypeOK
  <2>2. Git(answer, "remote")
    BY <1>4 DEF LsRemote
  <2> HIDE DEF answer
  <2>3. /\ seen' \in [branch : Branches \cup {Empty}, local : Commits \cup {Empty},
                      remote : Commits \cup {Empty}]
        /\ failed' \in 0..MaxFailures
    BY <1>0, <2>1, <2>2, GitTypeOK
  <2> QED BY <1>4, <2>3 DEF LsRemote, TypeInv, TypeOK
<1>5. CASE Synced
  BY <1>5, NextRepoTypeOK DEF Synced, NothingSeen, TypeInv, TypeOK
<1>6. CASE ListFiles
  BY <1>6, NextRepoTypeOK DEF ListFiles, Held, TypeInv, TypeOK
<1>7. CASE Shared
  <2>1. todo' \subseteq Files
    BY <1>7 DEF Shared, TypeInv, TypeOK, Repos
  <2>2. held' \in [Repos -> SUBSET Files]
    BY <1>7 DEF Shared
  <2> QED BY <1>7, <2>1, <2>2 DEF Shared, TypeInv, TypeOK
<1>8. CASE TakeFile
  BY <1>8 DEF TakeFile, TypeInv, TypeOK
<1>9. CASE PathExists
  <2>1. repo' \in Repos /\ step' \in {"read", "exists", "compare"}
    BY <1>9, NextRepoTypeOK DEF PathExists, TypeInv, TypeOK
  <2> QED BY <1>9, <2>1 DEF PathExists, TypeInv, TypeOK
<1>10. CASE ReadBytes
  <2>1. CASE tree[repo][file] # Absent
    <3>1. tree[repo] \in Trees
      BY DEF TypeInv, TypeOK
    <3>2. repo' \in Repos /\ step' \in {"exists", "compare"}
      BY <1>10, <2>1, NextRepoTypeOK DEF ReadBytes
    <3>3. file \in Files
      BY <1>10, <2>1 DEF ReadBytes, TypeInv, TypeOK
    <3> QED BY <1>10, <2>1, <3>1, <3>2, <3>3 DEF ReadBytes, TypeInv, TypeOK, Trees
  <2>2. CASE tree[repo][file] = Absent
    BY <1>10, <2>2 DEF ReadBytes, TypeInv, TypeOK
  <2> QED BY <2>1, <2>2
<1>11. CASE Compare
  BY <1>11 DEF Compare, NoDigests, TypeInv, TypeOK
<1>12. CASE Verdict
  BY <1>12 DEF Verdict, TypeInv, TypeOK
<1> QED
  BY <1>1, <1>2, <1>3, <1>4, <1>5, <1>6, <1>7, <1>8, <1>9, <1>10, <1>11, <1>12 DEF Verify

LEMMA NextTypeInv == TypeInv /\ [Next]_vars => TypeInv'
<1> SUFFICES ASSUME TypeInv, [Next]_vars PROVE TypeInv'
  OBVIOUS
<1>1. CASE Verify
  BY <1>1, VerifyTypeInv
<1>2. CASE People
  <2>1. PICK r \in Repos :
           Edit(r) \/ Commit(r) \/ Push(r) \/ RemoteAdvances(r) \/ Checkout(r)
    BY <1>2 DEF People
  <2>2. TypeOK'
    BY <2>1, PeopleTypeOK DEF TypeInv
  <2>3. UNCHANGED verifier
    BY <2>1 DEF Edit, Commit, Push, RemoteAdvances, Checkout, Change
  <2> QED BY <2>2, <2>3 DEF TypeInv, verifier
<1>3. CASE UNCHANGED vars
  BY <1>3 DEF TypeInv, TypeOK, vars, world, verifier, Held
<1> QED BY <1>1, <1>2, <1>3 DEF Next

\* The verifier is always in a place it can be in, with files of the pair in its hands,
\* whatever people do to the repositories.
THEOREM TypeCorrect == Spec => []TypeInv
<1>1. Init => TypeInv
  BY InitTypeOK DEF TypeInv, Init
<1> QED BY <1>1, NextTypeInv, PTL DEF Spec

COROLLARY TypesHold == Spec => []TypeOK
<1>1. TypeInv => TypeOK
  BY DEF TypeInv
<1> QED BY <1>1, TypeCorrect, PTL

-----------------------------------------------------------------------------
(* What people leave alone *)

LEMMA PeopleLeaveAlone ==
    ASSUME TypeInv, People
    PROVE  /\ UNCHANGED verifier
           /\ step # "idle" =>
                 /\ touched \subseteq touched' /\ moved \subseteq moved'
                 /\ \A q \in Repos, f \in Files :
                       <<q, f>> \notin touched' => tree'[q][f] = tree[q][f]
                 /\ \A q \in Repos \ moved' :
                       /\ branch'[q] = branch[q]
                       /\ local'[q] = local[q]
                       /\ remote'[q] = remote[q]
<1>1. PICK r \in Repos :
         Edit(r) \/ Commit(r) \/ Push(r) \/ RemoteAdvances(r) \/ Checkout(r)
  BY DEF People
<1> DEFINE Left ==
       /\ touched \subseteq touched' /\ moved \subseteq moved'
       /\ \A q \in Repos, f \in Files : <<q, f>> \notin touched' => tree'[q][f] = tree[q][f]
       /\ \A q \in Repos \ moved' :
             branch'[q] = branch[q] /\ local'[q] = local[q] /\ remote'[q] = remote[q]
<1>2. UNCHANGED verifier
  BY <1>1 DEF Edit, Commit, Push, RemoteAdvances, Checkout, Change
<1>3. ASSUME step # "idle" PROVE Left
  <2> USE <1>3 DEF Change, TypeInv, TypeOK
  <2>1. CASE Edit(r)
    <3>1. PICK f \in Files, c \in Contents \cup {Absent} :
             tree' = [tree EXCEPT ![r][f] = c] /\ Change(r, {f}, FALSE)
      BY <2>1 DEF Edit
    <3>2. touched' = touched \cup {<<r, f>>}
      BY <3>1
    <3>3. \A q \in Repos, g \in Files : <<q, g>> # <<r, f>> => tree'[q][g] = tree[q][g]
      BY <3>1 DEF Trees
    <3> QED BY <2>1, <3>1, <3>2, <3>3 DEF Edit
  <2>2. CASE Commit(r)
    BY <2>2 DEF Commit
  <2>3. CASE Push(r)
    BY <2>3 DEF Push
  <2>4. CASE RemoteAdvances(r)
    BY <2>4 DEF RemoteAdvances
  <2>5. CASE Checkout(r)
    <3>1. PICK b \in Branches \ {branch[r]} :
             /\ branch' = [branch EXCEPT ![r] = b]
             /\ tree' = [tree EXCEPT ![r] = local[r][b].tree]
             /\ Change(r, {f \in Files : local[r][b].tree[f] # tree[r][f]}, TRUE)
      BY <2>5 DEF Checkout
    <3>2. touched' = touched \cup
             ({r} \X {f \in Files : local[r][b].tree[f] # tree[r][f]})
      BY <3>1
    <3>3. \A f \in Files : <<r, f>> \notin touched' => tree'[r][f] = tree[r][f]
      BY <3>1, <3>2
    <3>4. \A q \in Repos \ {r} : tree'[q] = tree[q] /\ branch'[q] = branch[q]
      BY <3>1
    <3> QED BY <2>5, <3>1, <3>2, <3>3, <3>4 DEF Checkout
  <2> QED BY <1>1, <2>1, <2>2, <2>3, <2>4, <2>5
<1> QED BY <1>2, <1>3

-----------------------------------------------------------------------------
(* The inductive invariants *)

Asking == {"branch", "head", "remote", "synced"}
Comparing == {"files", "exists", "read", "compare"}
Concluded == Comparing \cup {"list", "shared", "done"}

\* Where each loop over the repositories starts, and what a verdict is given on.
PlaceInv ==
    /\ step \in {"idle", "shared", "files", "compare"} => repo = 1
    /\ step \notin {"done"} => exit = "none"
    /\ exit = "landed" => ok /\ todo = {}

\* A command that has failed has spoilt the verdict, or is about to.
FailInv ==
    failed > 0 =>
        \/ ~ok
        \/ step \in {"head", "remote"} /\ seen.branch = Empty
        \/ step \in {"remote", "synced"} /\ seen.local = Empty
        \/ step = "synced" /\ seen.remote = Empty

\* What git was seen to answer is still so, where nobody moved anything.
Passed(r) == step \in Concluded \/ (step \in Asking /\ repo = 2 /\ r = 1)
SyncInv ==
    /\ repo \notin moved =>
          /\ step \in {"head", "remote", "synced"} => seen.branch \in {branch[repo], Empty}
          /\ step \in {"remote", "synced"} => seen.local \in {local[repo][branch[repo]], Empty}
          /\ step = "synced" => seen.remote \in {remote[repo][branch[repo]], Empty}
    /\ \A r \in Repos \ moved : ok /\ Passed(r) => InSync(r)

\* What was listed and read is still so, where nobody touched the file; each file that
\* both hold has been compared, is being compared, or is still to come.
Listed(r) == step = "shared" \/ (step = "list" /\ repo = 2 /\ r = 1)
Digested(r) == step = "compare" \/ (step \in {"exists", "read"} /\ repo = 2 /\ r = 1)
Untouched(f) == <<1, f>> \notin touched /\ <<2, f>> \notin touched
Outstanding(f) == f \in todo \/ (step \in Comparing \ {"files"} /\ f = file)
FileInv ==
    /\ \A r \in Repos, f \in Files :
          Listed(r) /\ f \in Held(r) /\ <<r, f>> \notin touched => f \in held[r]
    /\ \A r \in Repos :
          /\ Digested(r) /\ <<r, file>> \notin touched => digests[r] = tree[r][file]
          /\ ~Digested(r) /\ step # "done" => digests[r] = Absent
    /\ ok /\ (step \in Comparing \/ exit = "landed") =>
          \A f \in Held(1) \cap Held(2) : Untouched(f) => Same(f) \/ Outstanding(f)

\* With nobody about and no command failing, a pair that has landed goes through.
Quiet == failed = 0 /\ moved = {} /\ touched = {}
Landed ==
    /\ \A r \in Repos : InSync(r)
    /\ \A f \in Held(1) \cap Held(2) : Same(f)
AlarmInv ==
    /\ step = "idle" => ok /\ todo = {} /\ held = [r \in Repos |-> {}]
    /\ Quiet /\ Landed =>
          /\ ok /\ exit \in {"none", "landed"}
          /\ step \in {"head", "remote", "synced"} => seen.branch = branch[repo]
          /\ step \in {"remote", "synced"} => seen.local = local[repo][branch[repo]]
          /\ step = "synced" => seen.remote = remote[repo][branch[repo]]
          /\ \A r \in Repos : held[r] \subseteq Held(r)
          /\ todo \subseteq Held(1) \cap Held(2)
          /\ step \in Comparing \ {"files"} => file \in Held(1) \cap Held(2)
          /\ step = "done" => exit # "none"

PairInv == PlaceInv /\ FailInv /\ SyncInv /\ FileInv /\ AlarmInv

LEMMA InitPairInv == Init => PairInv
<1> SUFFICES ASSUME Init PROVE PairInv
  OBVIOUS
<1> QED
  BY DEF Init, PairInv, PlaceInv, FailInv, SyncInv, FileInv, AlarmInv, Asking, Comparing,
     Concluded, Passed, Listed, Digested, NoDigests

LEMMA PeoplePairInv == ASSUME TypeInv, PairInv, People PROVE PairInv'
<1> USE DEF Asking, Comparing, Concluded
<1>1. UNCHANGED verifier
  BY PeopleLeaveAlone
<1>2. PlaceInv' /\ FailInv'
  BY <1>1 DEF PairInv, PlaceInv, FailInv, verifier
<1>3. CASE step = "idle"
  <2>1. SyncInv'
    BY <1>1, <1>3 DEF SyncInv, Passed, verifier
  <2>2. FileInv'
    BY <1>1, <1>3 DEF PairInv, PlaceInv, FileInv, Listed, Digested, verifier
  <2>3. AlarmInv'
    BY <1>1, <1>3 DEF PairInv, PlaceInv, AlarmInv, verifier
  <2> QED BY <1>2, <2>1, <2>2, <2>3 DEF PairInv
<1>4. CASE step # "idle"
  <2>1. /\ touched \subseteq touched' /\ moved \subseteq moved'
        /\ \A q \in Repos, f \in Files :
              <<q, f>> \notin touched' => tree'[q][f] = tree[q][f]
        /\ \A q \in Repos \ moved' :
              branch'[q] = branch[q] /\ local'[q] = local[q] /\ remote'[q] = remote[q]
    BY <1>4, PeopleLeaveAlone
  <2>2. repo \in Repos /\ (step \in Comparing \ {"files"} => file \in Files)
    BY DEF TypeInv, TypeOK
  <2>3. SyncInv'
    BY <1>1, <2>1, <2>2 DEF PairInv, SyncInv, Passed, InSync, verifier
  <2>4. FileInv'
    <3>1. \A r \in Repos, f \in Files :
             (Listed(r) /\ f \in Held(r) /\ <<r, f>> \notin touched => f \in held[r])'
      BY <1>1, <2>1 DEF PairInv, FileInv, Listed, Held, verifier
    <3>2. \A r \in Repos :
             (/\ Digested(r) /\ <<r, file>> \notin touched => digests[r] = tree[r][file]
              /\ ~Digested(r) /\ step # "done" => digests[r] = Absent)'
      BY <1>1, <2>1, <2>2 DEF PairInv, FileInv, Digested, verifier
    <3>3. (ok /\ (step \in Comparing \/ exit = "landed") =>
              \A f \in Held(1) \cap Held(2) : Untouched(f) => Same(f) \/ Outstanding(f))'
      BY <1>1, <2>1 DEF PairInv, FileInv, Held, Untouched, Same, Outstanding, verifier, Repos
    <3> QED BY <3>1, <3>2, <3>3 DEF FileInv
  <2>5. AlarmInv'
    <3>1. SUFFICES ASSUME (Quiet /\ Landed)' PROVE AlarmInv'
      BY <1>1, <1>4 DEF AlarmInv, verifier
    <3>2. \A q \in Repos : /\ branch'[q] = branch[q] /\ local'[q] = local[q]
                           /\ remote'[q] = remote[q] /\ Held(q)' = Held(q)
      BY <2>1, <3>1 DEF Quiet, Held
    <3>3. Quiet /\ Landed
      BY <1>1, <2>1, <3>1, <3>2 DEF Quiet, Landed, InSync, Held, Same, Repos, verifier
    <3> QED BY <1>1, <1>4, <2>2, <3>2, <3>3 DEF PairInv, AlarmInv, verifier, Repos
  <2> QED BY <1>2, <2>3, <2>4, <2>5 DEF PairInv
<1> QED BY <1>3, <1>4

LEMMA VerifyPlaceInv == ASSUME TypeInv, PairInv, Verify PROVE PlaceInv'
BY DEF TypeInv, TypeOK, PairInv, PlaceInv, Verify, Start, ShowBranch, RevParse, LsRemote,
       Synced, ListFiles, Shared, TakeFile, PathExists, ReadBytes, Compare, Verdict,
       NextRepo, Repos

LEMMA VerifyFailInv == ASSUME TypeInv, PairInv, Verify PROVE FailInv'
<1> USE PairAssumption DEF PairInv, FailInv
<1>1. CASE Start
  BY <1>1 DEF Start
<1>2. CASE ShowBranch
  BY <1>2 DEF ShowBranch, Git, TypeInv, TypeOK
<1>3. CASE RevParse
  BY <1>3 DEF RevParse, Git, TypeInv, TypeOK
<1>4. CASE LsRemote
  BY <1>4 DEF LsRemote, Git, TypeInv, TypeOK
<1>5. CASE Synced
  BY <1>5 DEF Synced, TypeInv, TypeOK
<1>6. CASE ListFiles \/ Shared \/ TakeFile \/ PathExists \/ ReadBytes \/ Compare \/ Verdict
  BY <1>6 DEF ListFiles, Shared, TakeFile, PathExists, ReadBytes, Compare, Verdict, TypeInv,
     TypeOK
<1> QED BY <1>1, <1>2, <1>3, <1>4, <1>5, <1>6 DEF Verify

LEMMA VerifySyncInv == ASSUME TypeInv, PairInv, Verify PROVE SyncInv'
<1> USE PairAssumption DEF PairInv, SyncInv, Passed, InSync, Asking, Comparing, Concluded, world
<1>0. repo \in Repos /\ branch[repo] \in Branches
  BY DEF TypeInv, TypeOK
<1>1. CASE Start
  BY <1>0, <1>1 DEF Start, PlaceInv
<1>2. CASE ShowBranch
  BY <1>0, <1>2 DEF ShowBranch, Git, TypeInv, TypeOK
<1>3. CASE RevParse
  BY <1>0, <1>3 DEF RevParse, Git, TypeInv, TypeOK
<1>4. CASE LsRemote
  BY <1>0, <1>4 DEF LsRemote, Git, TypeInv, TypeOK
<1>5. CASE Synced
  BY <1>0, <1>5 DEF Synced, NextRepo, TypeInv, TypeOK, Repos
<1>6. CASE ListFiles \/ Shared \/ TakeFile \/ PathExists \/ ReadBytes \/ Compare \/ Verdict
  <2>1. (ok' => ok) /\ step \in Concluded /\ step' \in Concluded
    BY <1>6 DEF ListFiles, Shared, TakeFile, PathExists, ReadBytes, Compare, Verdict, NextRepo,
       TypeInv, TypeOK
  <2>2. UNCHANGED world
    BY <1>6 DEF ListFiles, Shared, TakeFile, PathExists, ReadBytes, Compare, Verdict
  <2> QED BY <2>1, <2>2
<1> QED BY <1>1, <1>2, <1>3, <1>4, <1>5, <1>6 DEF Verify

LEMMA VerifyFileInv == ASSUME TypeInv, PairInv, Verify PROVE FileInv'
<1> USE DEF PairInv, PlaceInv, FileInv, Listed, Digested, Untouched, Same, Outstanding, Held,
            Asking, Comparing, Concluded, world
<1>0. repo \in Repos /\ (step \in Comparing \ {"files"} => file \in Files)
  BY DEF TypeInv, TypeOK
<1>1. CASE Start \/ ShowBranch \/ RevParse \/ LsRemote
  BY <1>0, <1>1 DEF Start, ShowBranch, RevParse, LsRemote
<1>2. CASE Synced
  BY <1>0, <1>2 DEF Synced, NextRepo
<1>3. CASE ListFiles
  BY <1>0, <1>3 DEF ListFiles, NextRepo, TypeInv, TypeOK, Repos
<1>4. CASE Shared
  BY <1>0, <1>4 DEF Shared, Repos
<1>5. CASE TakeFile
  BY <1>0, <1>5 DEF TakeFile
<1>6. CASE PathExists
  BY <1>0, <1>6 DEF PathExists, NextRepo, Repos
<1>7. CASE ReadBytes
  BY <1>0, <1>7 DEF ReadBytes, NextRepo, TypeInv, TypeOK, Repos
<1>8. CASE Compare
  BY <1>0, <1>8 DEF Compare, NoDigests, TypeInv, TypeOK, Repos
<1>9. CASE Verdict
  BY <1>0, <1>9 DEF Verdict
<1> QED BY <1>1, <1>2, <1>3, <1>4, <1>5, <1>6, <1>7, <1>8, <1>9 DEF Verify

LEMMA VerifyAlarmInv == ASSUME TypeInv, PairInv, Verify PROVE AlarmInv'
<1> USE EmptyAssumption, PairAssumption DEF PairInv, PlaceInv, AlarmInv, Asking, Comparing
<1>0. /\ repo \in Repos /\ branch[repo] \in Branches
      /\ local[repo][branch[repo]] \in Commits
      /\ failed \in Nat
  BY DEF TypeInv, TypeOK
<1>1. step' # "idle"
  BY DEF Verify, Start, ShowBranch, RevParse, LsRemote, Synced, ListFiles, Shared, TakeFile,
     PathExists, ReadBytes, Compare, Verdict, NextRepo
<1>2. UNCHANGED world
  BY DEF Verify, Start, ShowBranch, RevParse, LsRemote, Synced, ListFiles, Shared, TakeFile,
     PathExists, ReadBytes, Compare, Verdict
<1>3. failed' = failed \/ failed' = failed + 1
  BY DEF Verify, Start, ShowBranch, RevParse, LsRemote, Synced, ListFiles, Shared, TakeFile,
     PathExists, ReadBytes, Compare, Verdict, Git
<1> SUFFICES ASSUME (Quiet /\ Landed)' PROVE AlarmInv'
  BY <1>1
<1>4. Quiet /\ Landed /\ failed' = failed
  BY <1>0, <1>2, <1>3 DEF Quiet, Landed, InSync, Held, Same, world
<1>5. remote[repo][branch[repo]] = local[repo][branch[repo]]
  BY <1>0, <1>4 DEF Landed, InSync
<1>6. \A r \in Repos : Held(r)' = Held(r)
  BY <1>2 DEF Held, world
<1> HIDE DEF Quiet, Landed
<1>7. CASE Start
  BY <1>1, <1>2, <1>4, <1>6, <1>7 DEF Start, world, Repos
<1>8. CASE ShowBranch \/ RevParse \/ LsRemote
  <2>1. step \in {"branch", "head", "remote"} /\ step' \in {"head", "remote", "synced"}
    BY <1>8 DEF ShowBranch, RevParse, LsRemote
  <2>2. /\ step' \in {"head", "remote", "synced"} => seen'.branch = branch[repo]
        /\ step' \in {"remote", "synced"} => seen'.local = local[repo][branch[repo]]
        /\ step' = "synced" => seen'.remote = remote[repo][branch[repo]]
    <3> USE <1>0, <1>4 DEF Git, TypeInv, TypeOK
    <3>1. CASE ShowBranch
      BY <3>1 DEF ShowBranch
    <3>2. CASE RevParse
      BY <3>2 DEF RevParse
    <3>3. CASE LsRemote
      <4>1. seen.branch = branch[repo] /\ seen.local = local[repo][branch[repo]]
        BY <3>3 DEF LsRemote
      <4>2. Git(remote[repo][branch[repo]], "remote")
        BY <3>3, <4>1 DEF LsRemote
      <4>3. seen' = [seen EXCEPT !["remote"] = remote[repo][branch[repo]]]
        BY <4>2
      <4>4. /\ seen'.branch = seen.branch /\ seen'.local = seen.local
            /\ seen'.remote = remote[repo][branch[repo]]
        BY <4>3
      <4> QED BY <4>1, <4>4
    <3> QED BY <1>8, <3>1, <3>2, <3>3
  <2>3. UNCHANGED <<repo, held, todo, file, ok, exit>>
    BY <1>8 DEF ShowBranch, RevParse, LsRemote
  <2> QED BY <1>1, <1>2, <1>4, <1>6, <2>1, <2>2, <2>3 DEF world, Repos
<1>9. CASE Synced
  BY <1>0, <1>1, <1>2, <1>4, <1>5, <1>6, <1>9 DEF Synced, NextRepo, world, Repos
<1>10. CASE ListFiles \/ Shared \/ TakeFile
  <2> USE <1>0, <1>1, <1>2, <1>4, <1>6 DEF NextRepo, TypeInv, TypeOK, world, Repos
  <2>1. CASE ListFiles
    BY <2>1 DEF ListFiles
  <2>2. CASE Shared
    BY <2>2 DEF Shared
  <2>3. CASE TakeFile
    BY <2>3 DEF TakeFile
  <2> QED BY <1>10, <2>1, <2>2, <2>3
<1>11. CASE PathExists \/ ReadBytes
  BY <1>0, <1>1, <1>2, <1>4, <1>6, <1>11
     DEF PathExists, ReadBytes, NextRepo, Held, world, Repos
<1>12. CASE Compare
  BY <1>0, <1>1, <1>2, <1>4, <1>6, <1>12
     DEF Compare, FileInv, Digested, Quiet, Landed, Held, Same, world, Repos
<1>13. CASE Verdict
  BY <1>0, <1>1, <1>2, <1>4, <1>6, <1>13 DEF Verdict, world, Repos
<1> QED
  BY <1>7, <1>8, <1>9, <1>10, <1>11, <1>12, <1>13 DEF Verify

LEMMA NextPairInv == TypeInv /\ PairInv /\ [Next]_vars => PairInv'
<1> SUFFICES ASSUME TypeInv, PairInv, [Next]_vars PROVE PairInv'
  OBVIOUS
<1>1. CASE Verify
  BY <1>1, VerifyPlaceInv, VerifyFailInv, VerifySyncInv, VerifyFileInv, VerifyAlarmInv
     DEF PairInv
<1>2. CASE People
  BY <1>2, PeoplePairInv
<1>3. CASE UNCHANGED vars
  BY <1>3 DEF PairInv, PlaceInv, FailInv, SyncInv, FileInv, AlarmInv, Passed, InSync, Listed,
     Digested, Untouched, Outstanding, Same, Quiet, Landed, Held, vars, world, verifier
<1> QED BY <1>1, <1>2, <1>3 DEF Next

\* What the verifier has seen, listed and read is still so, where nobody interfered.
THEOREM PairCorrect == Spec => []PairInv
BY InitPairInv, TypeCorrect, NextPairInv, PTL DEF Spec

-----------------------------------------------------------------------------
(* What PAIR LANDED means *)

\* Landed: each repository that nobody moved is in sync with its remote.
THEOREM LandedIsInSync == Spec => []StillRepositoryIsInSync
<1>1. TypeInv /\ PairInv => StillRepositoryIsInSync
  BY DEF TypeInv, TypeOK, PairInv, PlaceInv, SyncInv, Passed, Concluded, Comparing,
     StillRepositoryIsInSync
<1> QED BY <1>1, TypeCorrect, PairCorrect, PTL

\* Landed: each file that both repositories hold and nobody touched is the same in both.
THEOREM LandedFilesAreSame == Spec => []StillFilesAreSame
<1>1. PairInv => StillFilesAreSame
  BY DEF PairInv, PlaceInv, FileInv, Untouched, Outstanding, Comparing, StillFilesAreSame
<1> QED BY <1>1, PairCorrect, PTL

\* No false alarm: a pair that has landed, and is left alone, is reported as landed.
THEOREM NoFalseAlarm == Spec => []LandedPairIsReported
<1>1. PairInv => LandedPairIsReported
  BY DEF PairInv, AlarmInv, Quiet, Landed, LandedPairIsReported
<1> QED BY <1>1, PairCorrect, PTL

\* A git command that fails is never taken for a repository in sync.
THEOREM FailureIsNeverLanded == Spec => []FailureNeverLands
<1>1. PairInv => FailureNeverLands
  BY DEF PairInv, PlaceInv, FailInv, FailureNeverLands
<1> QED BY <1>1, PairCorrect, PTL
=============================================================================
