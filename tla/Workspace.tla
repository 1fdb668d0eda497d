----------------------------- MODULE Workspace -----------------------------
(***************************************************************************)
(* The working copies of one project: the canonical checkout that          *)
(* projects.rs clones and refreshes in the background, and the workspace   *)
(* of every epic and standalone task, which workspace.rs clones from it    *)
(* and attaches to again, with the git commands of git.rs.                 *)
(*                                                                         *)
(* A git command is a step, and a step may fail; the two steps of a clone  *)
(* are its start and its end.  A tree is the number of commits its branch  *)
(* has; what is uncommitted is in TaskPipeline.                            *)
(***************************************************************************)
EXTENDS Naturals, FiniteSets

CONSTANTS
    Container,    \* epics and standalone tasks of the project
    Epics,        \* those that are epics
    Branch,       \* branches of the remote that may be a base
    Default,      \* the one origin/HEAD points at
    NoBase,       \* base_branch is NULL
    EpicBase,     \* base_branch of each container's row at first
    Job,          \* background jobs of projects.rs
    Nobody,
    Asks,         \* what is requested: "base", "refresh", "walk", "title"
    Faults,       \* what may go wrong: "git", "hang", "setup", "db", "crash", "stray"
    MaxFaults,    \* bound: how many of them in a behaviour
    MaxCommits,   \* bound: commits of a branch
    MaxTitles,    \* bound: titles a container has in its life
    MaxRequests   \* bound: requests about the project and walks

ASSUME WorkspaceAssumption ==
    /\ Epics \subseteq Container
    /\ Default \in Branch /\ NoBase \notin Branch
    /\ EpicBase \in [Container -> Branch \cup {NoBase}]
    /\ Nobody \notin Container
    /\ {MaxFaults, MaxCommits, MaxTitles, MaxRequests} \subseteq Nat

VARIABLES
    project,      \* clone_status and base_branch of the row
    canon,        \* the canonical checkout: its .git and the branch it is on
    job,          \* per background job: where it is
    lock,         \* the holder of project_refresh_lock
    row,          \* per container: title, branch_name, base_branch
    tree,         \* per container: its workspace
    walk,         \* per container: where its claimed walk is
    faults, requests

vars == <<project, canon, job, lock, row, tree, walk, faults, requests>>

NoName == 0       \* branch_name is NULL; a name is made of a title
Gone == [dir |-> "absent", branch |-> NoName, from |-> NoBase, commits |-> 0]
Idle == [pc |-> "idle", base |-> NoBase, name |-> NoName, first |-> FALSE]

Init ==
    /\ project = [status |-> "pending", base |-> NoBase]
    /\ canon = [git |-> "none", head |-> Default]
    /\ \E j \in Job : job = [i \in Job |-> IF i = j THEN "create" ELSE "none"]
    /\ lock = Nobody
    /\ row = [c \in Container |-> [title |-> 1, name |-> NoName, base |-> EpicBase[c]]]
    /\ tree = [c \in Container |-> Gone]
    /\ walk = [c \in Container |-> Idle]
    /\ faults = 0 /\ requests = 0

Fails(what) == what \in Faults /\ faults < MaxFaults /\ faults' = faults + 1
Request(what) == what \in Asks /\ requests < MaxRequests /\ requests' = requests + 1

\* What a checkout of a base checks out.
Target(base) == IF base = NoBase THEN Default ELSE base

-----------------------------------------------------------------------------
(***************************************************************************)
(* projects.rs.  A created project has its clone job from the start; none  *)
(* of the jobs takes the refresh lock.                                     *)
(***************************************************************************)

JobGoes(j, there) == job' = [job EXCEPT ![j] = there]
jobsOnly == <<lock, row, tree, walk, requests>>

\* update_project
SetProjectBase(b) ==
    /\ Request("base")
    /\ project' = [project EXCEPT !.base = b]
    /\ UNCHANGED <<canon, job, lock, row, tree, walk, faults>>

\* refresh_project: the status is written before the job is spawned.
RefreshProject(j) ==
    /\ Request("refresh") /\ job[j] = "none"
    /\ project' = [project EXCEPT !.status = "pending"]
    /\ JobGoes(j, "refresh")
    /\ UNCHANGED <<canon, lock, row, tree, walk, faults>>

\* clone_repo: of a new project, or for a refresh that finds no .git.  What is
\* there is removed first; git removes what it began when it fails.
StartClone(j) ==
    /\ \/ job[j] = "create" /\ JobGoes(j, "creating")
       \/ job[j] = "refresh" /\ canon.git = "none" /\ JobGoes(j, "cloning")
    /\ canon' = [git |-> "partial", head |-> Default]
    /\ UNCHANGED <<project, faults, jobsOnly>>

EndClone(j) ==
    /\ job[j] \in {"creating", "cloning"}
    /\ canon' = [git |-> "whole", head |-> Default]
    /\ JobGoes(j, IF job[j] = "creating" THEN "ready" ELSE "fetched")
    /\ UNCHANGED <<project, faults, jobsOnly>>

CloneFails(j) ==
    /\ job[j] \in {"creating", "cloning"} /\ Fails("git")
    /\ canon' = [canon EXCEPT !.git = "none"]
    /\ JobGoes(j, "error")
    /\ UNCHANGED <<project, jobsOnly>>

JobFetches(j) ==
    /\ job[j] = "refresh" /\ canon.git # "none"
    /\ JobGoes(j, "fetched")
    /\ UNCHANGED <<project, canon, faults, jobsOnly>>

\* refresh_repo without a base: without a whole clone there is no origin/HEAD.
JobCheckout(j) ==
    /\ job[j] = "fetched"
    /\ IF canon.git = "whole"
       THEN canon' = [canon EXCEPT !.head = Default] /\ JobGoes(j, "ready")
       ELSE JobGoes(j, "error") /\ UNCHANGED canon
    /\ UNCHANGED <<project, faults, jobsOnly>>

JobFetchFails(j) ==
    /\ job[j] \in {"refresh", "fetched"} /\ Fails("git")
    /\ JobGoes(j, "error")
    /\ UNCHANGED <<project, canon, jobsOnly>>

record_clone_outcome(j) ==
    /\ job[j] \in {"ready", "error"}
    /\ project' = [project EXCEPT !.status = job[j]]
    /\ JobGoes(j, "none")
    /\ UNCHANGED <<canon, faults, jobsOnly>>

-----------------------------------------------------------------------------
(***************************************************************************)
(* provision_workspace                                                     *)
(***************************************************************************)

WalkGoes(c, there) == walk' = [walk EXCEPT ![c].pc = there]
WalkAt(c, here) == walk[c].pc = here
ours == <<project, job, requests>>

\* A worker has claimed the container.
BeginWalk(c) ==
    /\ WalkAt(c, "idle") /\ Request("walk")
    /\ WalkGoes(c, "load")
    /\ UNCHANGED <<project, canon, job, lock, row, tree, faults>>

\* The persisted name, or one made of the title on the first provision.
BranchName(c) == IF row[c].name = NoName THEN row[c].title ELSE row[c].name

\* load_project and load_container_for_provision: a project that is not ready
\* fails the walk; the base and the name are decided by what is read here.
LoadForProvision(c) ==
    /\ WalkAt(c, "load")
    /\ IF project.status # "ready"
       THEN WalkGoes(c, "failed")
       ELSE walk' = [walk EXCEPT ![c] =
              [pc |-> "lock",
               base |-> IF row[c].base # NoBase THEN row[c].base ELSE project.base,
               name |-> BranchName(c), first |-> row[c].name = NoName]]
    /\ UNCHANGED <<ours, canon, lock, row, tree, faults>>

TakeRefreshLock(c) ==
    /\ WalkAt(c, "lock") /\ lock = Nobody
    /\ lock' = c
    /\ WalkGoes(c, "refresh")
    /\ UNCHANGED <<ours, canon, row, tree, faults>>

\* refresh_repo: clone_repo when there is no .git ...
RefreshClones(c) ==
    /\ WalkAt(c, "refresh") /\ canon.git = "none"
    /\ canon' = [git |-> "partial", head |-> Default]
    /\ WalkGoes(c, "cloning")
    /\ UNCHANGED <<ours, lock, row, tree, faults>>

RefreshCloned(c) ==
    /\ WalkAt(c, "cloning")
    /\ canon' = [git |-> "whole", head |-> Default]
    /\ WalkGoes(c, "fetched")
    /\ UNCHANGED <<ours, lock, row, tree, faults>>

RefreshFetches(c) ==
    /\ WalkAt(c, "refresh") /\ canon.git # "none"
    /\ WalkGoes(c, "fetched")
    /\ UNCHANGED <<ours, canon, lock, row, tree, faults>>

\* ... then a checkout of the base, and the lock is released.
RefreshChecksOut(c) ==
    /\ WalkAt(c, "fetched")
    /\ IF walk[c].base = NoBase /\ canon.git # "whole"
       THEN WalkGoes(c, "failed") /\ UNCHANGED canon
       ELSE /\ canon' = [canon EXCEPT !.head = Target(walk[c].base)]
            /\ WalkGoes(c, "attach")
    /\ lock' = Nobody
    /\ UNCHANGED <<ours, row, tree, faults>>

workspace_reattachable(c) == tree[c].dir = "git" /\ tree[c].branch = walk[c].name

\* Mutant: a workspace that is there is thrown away.
AttachNever(c) ==
    /\ WalkAt(c, "attach")
    /\ tree' = [tree EXCEPT ![c] = Gone]
    /\ WalkGoes(c, "clone")
    /\ UNCHANGED <<ours, canon, lock, row, faults>>

\* reset --hard and clean -fd, which keep every commit, or the removal that
\* clone_local begins with.
Attach(c) ==
    /\ WalkAt(c, "attach")
    /\ IF workspace_reattachable(c)
       THEN WalkGoes(c, "setup") /\ UNCHANGED tree
       ELSE WalkGoes(c, "clone") /\ tree' = [tree EXCEPT ![c] = Gone]
    /\ UNCHANGED <<ours, canon, lock, row, faults>>

\* git clone of the canonical checkout: of the branch that is checked out there.
CloneLocal(c) ==
    /\ WalkAt(c, "clone")
    /\ IF canon.git = "whole"
       THEN /\ tree' = [tree EXCEPT ![c] = [Gone EXCEPT !.dir = "git", !.from = canon.head]]
            /\ WalkGoes(c, "branch")
       ELSE WalkGoes(c, "failed") /\ UNCHANGED tree
    /\ UNCHANGED <<ours, canon, lock, row, faults>>

\* set_remote_url and checkout_new_branch
CheckoutNewBranch(c) ==
    /\ WalkAt(c, "branch")
    /\ tree' = [tree EXCEPT ![c].branch = walk[c].name]
    /\ WalkGoes(c, "setup")
    /\ UNCHANGED <<ours, canon, lock, row, faults>>

\* run_setup, or no setup_cmd.
RunSetup(c) ==
    /\ WalkAt(c, "setup")
    /\ WalkGoes(c, IF walk[c].first THEN "persist" ELSE "work")
    /\ UNCHANGED <<ours, canon, lock, row, tree, faults>>

SetupFails(c) ==
    /\ WalkAt(c, "setup") /\ Fails("setup")
    /\ WalkGoes(c, "failed")
    /\ UNCHANGED <<ours, canon, lock, row, tree>>

\* persist_container_branch_name: of an epic with the base it resolved to.
PersistBranchName(c) ==
    /\ WalkAt(c, "persist")
    /\ row' = [row EXCEPT ![c].name = walk[c].name,
                          ![c].base = IF c \in Epics THEN walk[c].base ELSE @]
    /\ WalkGoes(c, "work")
    /\ UNCHANGED <<ours, canon, lock, tree, faults>>

\* A git command of the provision runs.
GitRuns(c) == walk[c].pc \in {"refresh", "cloning", "fetched", "attach", "clone", "branch"}

\* run_git waits for the command without a timeout: one that never returns keeps
\* its walk, and the lock if it is held, until the process is restarted.
GitHangs(c) ==
    /\ GitRuns(c) /\ Fails("hang")
    /\ WalkGoes(c, "hung")
    /\ UNCHANGED <<ours, canon, lock, row, tree>>

\* Mutant: the guard of the lock is forgotten when a git command fails.
StepFailsLocked(c) ==
    /\ \/ GitRuns(c) /\ Fails("git")
       \/ WalkAt(c, "persist") /\ Fails("db")
    /\ canon' = IF WalkAt(c, "cloning") THEN [canon EXCEPT !.git = "none"] ELSE canon
    /\ WalkGoes(c, "failed")
    /\ UNCHANGED <<ours, lock, row, tree>>

\* Any git command fails, or the last write: the walk is failed where it is.
StepFails(c) ==
    /\ \/ GitRuns(c) /\ Fails("git")
       \/ WalkAt(c, "persist") /\ Fails("db")
    /\ canon' = IF WalkAt(c, "cloning") THEN [canon EXCEPT !.git = "none"] ELSE canon
    /\ lock' = IF lock = c THEN Nobody ELSE lock
    /\ WalkGoes(c, "failed")
    /\ UNCHANGED <<ours, row, tree>>

-----------------------------------------------------------------------------
(***************************************************************************)
(* What is done in a workspace, and what ends it.                          *)
(***************************************************************************)

\* An agent with a shell may leave the branch it was put on.
AgentStrays(c) ==
    /\ WalkAt(c, "work") /\ Fails("stray")
    /\ tree' = [tree EXCEPT ![c].branch = NoName]
    /\ UNCHANGED <<ours, canon, lock, row, walk>>

\* add_all, status_porcelain and commit_all.
CommitAll(c) ==
    /\ WalkAt(c, "work") /\ tree[c].commits < MaxCommits
    /\ tree' = [tree EXCEPT ![c].commits = @ + 1]
    /\ UNCHANGED <<ours, canon, lock, row, walk, faults>>

EndWalk(c) ==
    /\ walk[c].pc \in {"work", "failed"}
    /\ walk' = [walk EXCEPT ![c] = Idle]
    /\ UNCHANGED <<ours, canon, lock, row, tree, faults>>

\* update_epic and update_task
EditTitle(c) ==
    /\ Request("title") /\ row[c].title < MaxTitles
    /\ row' = [row EXCEPT ![c].title = @ + 1]
    /\ UNCHANGED <<project, job, canon, lock, tree, walk, faults>>

\* The poller deletes the workspace of what is merged or closed; nothing
\* claims it any more.
DeleteWorkspace(c) ==
    /\ WalkAt(c, "idle") /\ tree[c].commits > 0
    /\ tree' = [tree EXCEPT ![c] = Gone]
    /\ walk' = [walk EXCEPT ![c].pc = "over"]
    /\ UNCHANGED <<ours, canon, lock, row, faults>>

\* What is on disk stays as the git command that ran has left it.
Crash ==
    /\ Fails("crash")
    /\ job' = [j \in Job |-> "none"]
    /\ lock' = Nobody
    /\ walk' = [c \in Container |-> IF WalkAt(c, "over") THEN walk[c] ELSE Idle]
    /\ UNCHANGED <<project, canon, row, tree, requests>>

-----------------------------------------------------------------------------
ProvisionStep(c) ==
    \/ LoadForProvision(c) \/ TakeRefreshLock(c)
    \/ RefreshClones(c) \/ RefreshCloned(c) \/ RefreshFetches(c)
    \/ RefreshChecksOut(c) \/ Attach(c) \/ CloneLocal(c) \/ CheckoutNewBranch(c)
    \/ RunSetup(c) \/ PersistBranchName(c)

JobStep(j) ==
    StartClone(j) \/ EndClone(j) \/ JobFetches(j) \/ JobCheckout(j) \/ record_clone_outcome(j)

Next ==
    \/ \E b \in Branch \cup {NoBase} : SetProjectBase(b)
    \/ \E j \in Job : RefreshProject(j) \/ JobStep(j) \/ CloneFails(j) \/ JobFetchFails(j)
    \/ \E c \in Container :
          \/ BeginWalk(c) \/ ProvisionStep(c) \/ SetupFails(c) \/ StepFails(c)
          \/ GitHangs(c) \/ AgentStrays(c) \/ CommitAll(c) \/ EndWalk(c)
          \/ EditTitle(c) \/ DeleteWorkspace(c)
    \/ Crash

\* The runtime drives what is claimed, its set-up command has a timeout, and the
\* lock serves its waiters in order.  A git command may hang, which is a fault
\* of its own; nothing is asked of the background jobs.
Spec ==
    /\ Init /\ [][Next]_vars
    /\ \A c \in Container : WF_vars(ProvisionStep(c)) /\ SF_vars(TakeRefreshLock(c))

-----------------------------------------------------------------------------
Provisioning(c) == walk[c].pc \notin {"idle", "work", "failed", "over"}

\* Committed work is never thrown away by a provision: however walks fail and
\* are claimed again, after title edits, crashes and half-made clones, the
\* commits of a branch stay as long as the workspace is on that branch.
CommitsSurvive ==
    [][\A c \in Container :
          tree'[c].commits < tree[c].commits =>
             walk'[c].pc = "over" \/ tree[c].branch # row[c].name]_vars

\* Every provision ends, unless its own git command hangs or that of the one
\* that holds the project's lock: no failure of another, no crash and no hang
\* without the lock keeps it.
ProvisionEnds ==
    \A c \in Container :
        Provisioning(c) ~> \/ ~Provisioning(c) \/ WalkAt(c, "hung")
                           \/ \E d \in Container : lock = d /\ WalkAt(d, "hung")

\* A new workspace is made of the base branch of its own container: "the clone
\* below branches off exactly that commit graph".
WorkspaceOnItsBase ==
    \A c \in Container : WalkAt(c, "branch") => tree[c].from = Target(walk[c].base)
=============================================================================

