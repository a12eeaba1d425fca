----------------------------- MODULE PairLanded -----------------------------
(***************************************************************************)
(* verify_pair_landed.py: did a reissue land in both repositories? The     *)
(* verifier asks git about one repository and then the other, lists the    *)
(* shared files, and reads them one at a time, while people edit, commit,  *)
(* switch branches and push.                                               *)
(***************************************************************************)
EXTENDS Integers, FiniteSets

CONSTANTS
    Files,      \* the paths under architecture/
    Contents,   \* what a file may hold
    Branches,   \* the local branches of each repository
    Absent,     \* no such file
    Empty,      \* git printed nothing
    MaxChanges, \* bound on what people do
    MaxFailures \* bound on the git commands that fail

ASSUME PairAssumption ==
    /\ Absent \notin Contents
    /\ Empty \notin Branches
    /\ MaxChanges \in Nat /\ MaxFailures \in Nat

Repos == {1, 2}

VARIABLES
    branch,   \* the branch each repository has checked out
    local,    \* the commit at the end of each local branch
    remote,   \* the commit at the end of each branch of origin, or Empty
    tree,     \* the files of each working tree
    changes,  \* how often people have changed anything
    step,     \* where the verifier is
    repo,     \* and in which repository
    seen,     \* what git answered of it
    held,     \* the files it found in each
    todo,     \* shared files still to compare
    file,     \* the one being compared
    digests,  \* its digest in each repository, None being Absent
    ok, exit, \* the verdict so far, the exit code
    moved,    \* history: repositories whose commits or branch changed since the start
    touched,  \* history: <<repository, file>> changed in a working tree since the start
    failed    \* history: how many git commands have failed

world == <<branch, local, remote, tree, changes, moved, touched>>
verifier == <<step, repo, seen, held, todo, file, digests, ok, exit, failed>>
vars == <<world, verifier>>

Trees == [Files -> Contents \cup {Absent}]
\* Every commit has a hash of its own.
Commits == [id : 0..MaxChanges, tree : Trees]

ASSUME EmptyAssumption == Empty \notin Commits

NothingSeen == [branch |-> Empty, local |-> Empty, remote |-> Empty]
NoDigests == [r \in Repos |-> Absent]
Held(r) == {f \in Files : tree[r][f] # Absent}

\* A reissue is due: each repository is clean, on the one branch that origin has.
Init ==
    /\ \E t \in Trees, u \in Trees, b \in Branches :
          /\ branch = [r \in Repos |-> b]
          /\ tree = <<t, u>>
          /\ local = [r \in Repos |-> [c \in Branches |-> [id |-> 0, tree |-> tree[r]]]]
          /\ remote = [r \in Repos |-> [c \in Branches |->
                IF c = b THEN local[r][c] ELSE Empty]]
    /\ changes = 0
    /\ step = "idle" /\ repo = 1
    /\ seen = NothingSeen
    /\ held = [r \in Repos |-> {}]
    /\ todo = {} /\ file = Absent /\ digests = NoDigests
    /\ ok = TRUE /\ exit = "none"
    /\ moved = {} /\ touched = {} /\ failed = 0

-----------------------------------------------------------------------------
(* What people do, to the commits of a repository or to its working tree *)

Change(r, files, commits) ==
    /\ changes < MaxChanges /\ changes' = changes + 1
    /\ touched' = IF step = "idle" THEN {} ELSE touched \cup ({r} \X files)
    /\ moved' = IF step = "idle" \/ ~commits THEN moved ELSE moved \cup {r}
    /\ UNCHANGED verifier

Edit(r) ==
    \E f \in Files, c \in Contents \cup {Absent} :
        /\ c # tree[r][f]
        /\ tree' = [tree EXCEPT ![r][f] = c]
        /\ Change(r, {f}, FALSE)
        /\ UNCHANGED <<branch, local, remote>>

Commit(r) ==
    /\ local[r][branch[r]].tree # tree[r]
    /\ local' = [local EXCEPT ![r][branch[r]] = [id |-> changes + 1, tree |-> tree[r]]]
    /\ Change(r, {}, TRUE)
    /\ UNCHANGED <<branch, remote, tree>>

Push(r) ==
    /\ remote[r][branch[r]] # local[r][branch[r]]
    /\ remote' = [remote EXCEPT ![r][branch[r]] = local[r][branch[r]]]
    /\ Change(r, {}, TRUE)
    /\ UNCHANGED <<branch, local, tree>>

\* Somebody else pushes a commit this clone does not have. Nothing reads its files.
RemoteAdvances(r) ==
    \E b \in Branches :
        /\ remote' = [remote EXCEPT ![r][b] = [id |-> changes + 1, tree |-> local[r][b].tree]]
        /\ Change(r, {}, TRUE)
        /\ UNCHANGED <<branch, local, tree>>

\* git refuses to leave a working tree that differs from its commit.
Checkout(r) ==
    \E b \in Branches \ {branch[r]} :
        /\ tree[r] = local[r][branch[r]].tree
        /\ branch' = [branch EXCEPT ![r] = b]
        /\ tree' = [tree EXCEPT ![r] = local[r][b].tree]
        /\ Change(r, {f \in Files : local[r][b].tree[f] # tree[r][f]}, TRUE)
        /\ UNCHANGED <<local, remote>>

-----------------------------------------------------------------------------
(* in_sync_with_remote, for one repository and then the other *)

Start ==
    /\ step = "idle"
    /\ step' = "branch"
    /\ UNCHANGED <<world, repo, seen, held, todo, file, digests, ok, exit, failed>>

\* _git: the output of the command, or nothing when it fails, which nobody looks at.
Git(answer, field) ==
    \/ seen' = [seen EXCEPT ![field] = answer] /\ UNCHANGED failed
    \/ /\ failed < MaxFailures /\ failed' = failed + 1
       /\ seen' = [seen EXCEPT ![field] = Empty]

ShowBranch ==
    /\ step = "branch"
    /\ Git(branch[repo], "branch")
    /\ step' = "head"
    /\ UNCHANGED <<world, repo, held, todo, file, digests, ok, exit>>

RevParse ==
    /\ step = "head"
    /\ Git(local[repo][branch[repo]], "local")
    /\ step' = "remote"
    /\ UNCHANGED <<world, repo, held, todo, file, digests, ok, exit>>

\* It asks for the branch it was told of; without one no reference matches.
LsRemote ==
    /\ step = "remote"
    /\ Git(IF seen.branch \in Branches THEN remote[repo][seen.branch] ELSE Empty,
           "remote")
    /\ step' = "synced"
    /\ UNCHANGED <<world, repo, held, todo, file, digests, ok, exit>>

NextRepo(again, after) ==
    IF repo = 1 THEN repo' = 2 /\ step' = again ELSE repo' = 1 /\ step' = after

\* Mutant: the second repository decides.
SyncedLast ==
    /\ step = "synced"
    /\ ok' = (seen.remote # Empty /\ seen.local = seen.remote)
    /\ NextRepo("branch", "list")
    /\ seen' = NothingSeen
    /\ UNCHANGED <<world, held, todo, file, digests, exit, failed>>

Synced ==
    /\ step = "synced"
    /\ ok' = (ok /\ seen.remote # Empty /\ seen.local = seen.remote)
    /\ NextRepo("branch", "list")
    /\ seen' = NothingSeen
    /\ UNCHANGED <<world, held, todo, file, digests, exit, failed>>

-----------------------------------------------------------------------------
(* shared_files, and the loop over them. Their order is left open. *)

ListFiles ==
    /\ step = "list"
    /\ held' = [held EXCEPT ![repo] = Held(repo)]
    /\ NextRepo("list", "shared")
    /\ UNCHANGED <<world, seen, todo, file, digests, ok, exit, failed>>

\* Mutant: a file added on one side since is asked for as well.
SharedIsUnion ==
    /\ step = "shared"
    /\ todo' = held[1] \cup held[2]
    /\ held' = [r \in Repos |-> {}]
    /\ step' = "files"
    /\ UNCHANGED <<world, repo, seen, file, digests, ok, exit, failed>>

Shared ==
    /\ step = "shared"
    /\ todo' = held[1] \cap held[2]
    /\ held' = [r \in Repos |-> {}]
    /\ step' = "files"
    /\ UNCHANGED <<world, repo, seen, file, digests, ok, exit, failed>>

TakeFile ==
    /\ step = "files"
    /\ \E f \in todo :
          /\ file' = f
          /\ todo' = todo \ {f}
    /\ step' = "exists"
    /\ UNCHANGED <<world, repo, seen, held, digests, ok, exit, failed>>

\* path.exists(): a file that has gone has no digest.
PathExists ==
    /\ step = "exists"
    /\ IF tree[repo][file] # Absent
       THEN step' = "read" /\ UNCHANGED repo
       ELSE NextRepo("exists", "compare")
    /\ UNCHANGED <<world, seen, held, todo, file, digests, ok, exit, failed>>

\* path.read_bytes(): it may have gone by now, and nothing catches that.
ReadBytes ==
    /\ step = "read"
    /\ IF tree[repo][file] # Absent
       THEN /\ digests' = [digests EXCEPT ![repo] = tree[repo][file]]
            /\ NextRepo("exists", "compare")
            /\ UNCHANGED exit
       ELSE step' = "done" /\ exit' = "raised" /\ UNCHANGED <<repo, digests>>
    /\ UNCHANGED <<world, seen, held, todo, file, ok, failed>>

\* Mutant: the verdict is that of the last file.
CompareLast ==
    /\ step = "compare"
    /\ ok' = (digests[1] = digests[2] /\ digests[1] # Absent)
    /\ file' = Absent /\ digests' = NoDigests
    /\ step' = "files"
    /\ UNCHANGED <<world, repo, seen, held, todo, exit, failed>>

Compare ==
    /\ step = "compare"
    /\ ok' = (ok /\ digests[1] = digests[2] /\ digests[1] # Absent)
    /\ file' = Absent /\ digests' = NoDigests
    /\ step' = "files"
    /\ UNCHANGED <<world, repo, seen, held, todo, exit, failed>>

Verdict ==
    /\ step = "files" /\ todo = {}
    /\ exit' = IF ok THEN "landed" ELSE "not_landed"
    /\ step' = "done"
    /\ UNCHANGED <<world, repo, seen, held, todo, file, digests, ok, failed>>

-----------------------------------------------------------------------------

Verify ==
    \/ Start \/ ShowBranch \/ RevParse \/ LsRemote \/ Synced
    \/ ListFiles \/ Shared \/ TakeFile \/ PathExists \/ ReadBytes \/ Compare \/ Verdict

People ==
    \E r \in Repos : Edit(r) \/ Commit(r) \/ Push(r) \/ RemoteAdvances(r) \/ Checkout(r)

Next == Verify \/ People

Spec == Init /\ [][Next]_vars

-----------------------------------------------------------------------------
(* Properties *)

TypeOK ==
    /\ branch \in [Repos -> Branches]
    /\ local \in [Repos -> [Branches -> Commits]]
    /\ remote \in [Repos -> [Branches -> Commits \cup {Empty}]]
    /\ tree \in [Repos -> Trees]
    /\ changes \in 0..MaxChanges
    /\ step \in {"idle", "branch", "head", "remote", "synced", "list", "shared", "files",
                 "exists", "read", "compare", "done"}
    /\ repo \in Repos
    /\ seen \in [branch : Branches \cup {Empty}, local : Commits \cup {Empty},
                 remote : Commits \cup {Empty}]
    /\ held \in [Repos -> SUBSET Files]
    /\ todo \subseteq Files
    /\ file \in Files \cup {Absent}
    /\ digests \in [Repos -> Contents \cup {Absent}]
    /\ ok \in BOOLEAN /\ failed \in 0..MaxFailures
    /\ exit \in {"none", "landed", "not_landed", "raised"}
    /\ moved \subseteq Repos /\ touched \subseteq Repos \X Files

InSync(r) == remote[r][branch[r]] = local[r][branch[r]]
Same(f) == tree[1][f] = tree[2][f]

\* Landed: each repository whose commits and branch were left alone is in sync with
\* its remote, whatever happened to the other one meanwhile.
StillRepositoryIsInSync ==
    exit = "landed" => \A r \in Repos \ moved : InSync(r)

\* Landed: each file that both hold and nobody has touched is the same in both,
\* however many others were edited, added or removed under the verifier.
StillFilesAreSame ==
    exit = "landed" =>
        \A f \in Held(1) \cap Held(2) :
            <<1, f>> \notin touched /\ <<2, f>> \notin touched => Same(f)

\* A pair that has landed, and that nobody touches, is reported as landed unless git
\* fails: the verifier raises no false alarm.
LandedPairIsReported ==
    /\ exit # "none" /\ failed = 0 /\ moved = {} /\ touched = {}
    /\ \A r \in Repos : InSync(r)
    /\ \A f \in Held(1) \cap Held(2) : Same(f)
    => exit = "landed"

\* A git command that fails is never taken for a repository in sync, although its
\* exit status is not looked at: not even when two of them print the same nothing.
FailureNeverLands == failed > 0 => exit # "landed"

-----------------------------------------------------------------------------
(* What verify_pair_landed.py says of its verdict, and the code does not do *)

\* It asks the remotes, not the locals, and compares content: so that of every file it
\* compared the remotes hold the same. With nobody about and no command failing, an edit
\* that was never committed makes them look alike.
LandedMeansRemotesAgree ==
    exit = "landed" /\ moved = {} /\ touched = {} /\ failed = 0 =>
        LET at(r) == remote[r][branch[r]].tree
        IN  \A f \in Held(1) \cap Held(2) :
                at(1)[f] # Absent /\ at(2)[f] # Absent => at(1)[f] = at(2)[f]
=============================================================================
