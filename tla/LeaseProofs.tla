---------------------------- MODULE LeaseProofs ----------------------------
(***************************************************************************)
(* Theorems about Lease, for any number of workers and items.  The claim,  *)
(* the fenced renewal and the fenced release are proved to keep the lease  *)
(* table honest whatever lapses, is cleared or crashes; that they also     *)
(* exclude two walks of one item is proved only for the calm runs.  The    *)
(* last part is about Workspace: what such a walk finds on disk.           *)
(***************************************************************************)
EXTENDS CalmLease, Naturals, TLAPS

\* Every step of the protocol, and every stuttering step, keeps the types.
LEMMA TypeStep == TypeOK /\ [Next]_vars => TypeOK'
<1> SUFFICES ASSUME TypeOK, [Next]_vars PROVE TypeOK'
  OBVIOUS
<1> USE LeaseAssumption DEF TypeOK
<1>1. ASSUME NEW i \in Item, Requeue(i) PROVE TypeOK'
  BY <1>1 DEF Requeue
<1>2. ASSUME NEW i \in Item, RequeueFresh(i) PROVE TypeOK'
  BY <1>2 DEF RequeueFresh
<1>3. ASSUME NEW i \in Item, Retire(i) PROVE TypeOK'
  BY <1>3 DEF Retire
<1>4. ASSUME NEW i \in Item, Clear(i) PROVE TypeOK'
  BY <1>4 DEF Clear
<1>5. ASSUME NEW i \in Item, Lapse(i) PROVE TypeOK'
  BY <1>5 DEF Lapse
<1>6. ASSUME NEW w \in Worker, NEW i \in Item, Claim(w, i) PROVE TypeOK'
  BY <1>6 DEF Claim
<1>7. ASSUME NEW w \in Worker, Renew(w) PROVE TypeOK'
  BY <1>7 DEF Renew
<1>8. ASSUME NEW w \in Worker, FenceOut(w) PROVE TypeOK'
  BY <1>8 DEF FenceOut
<1>9. ASSUME NEW w \in Worker, Release(w) PROVE TypeOK'
  BY <1>9 DEF Release
<1>10. CASE Reboot
  BY <1>10 DEF Reboot
<1>11. CASE UNCHANGED vars
  BY <1>11 DEF vars
<1> QED
  BY <1>1, <1>2, <1>3, <1>4, <1>5, <1>6, <1>7, <1>8, <1>9, <1>10, <1>11
     DEF Next

\* Every variable keeps its type in every run of the protocol (the lease
\* columns of `epic` / `task` and the in-memory LeaseHandle).
THEOREM TypeCorrect == Spec => []TypeOK
<1>1. Init => TypeOK
  BY LeaseAssumption DEF Init, TypeOK
<1> QED
  BY <1>1, TypeStep, PTL DEF Spec

\* No exit path, restart or theft of the real protocol leaves a lease_owner on
\* a row that its worker is not walking.
THEOREM OwnersWalk == Spec => []OwnerWalks
<1>1. Init => OwnerWalks
  BY LeaseAssumption DEF Init, OwnerWalks
<1>2. TypeOK /\ OwnerWalks /\ [Next]_vars => OwnerWalks'
  <2> SUFFICES ASSUME TypeOK, OwnerWalks, [Next]_vars PROVE OwnerWalks'
    OBVIOUS
  <2> USE LeaseAssumption DEF TypeOK, OwnerWalks, Walks
  <2>1. ASSUME NEW i \in Item, Requeue(i) PROVE OwnerWalks'
    BY <2>1 DEF Requeue
  <2>2. ASSUME NEW i \in Item, RequeueFresh(i) PROVE OwnerWalks'
    BY <2>2 DEF RequeueFresh
  <2>3. ASSUME NEW i \in Item, Retire(i) PROVE OwnerWalks'
    BY <2>3 DEF Retire
  <2>4. ASSUME NEW i \in Item, Clear(i) PROVE OwnerWalks'
    BY <2>4 DEF Clear
  <2>5. ASSUME NEW i \in Item, Lapse(i) PROVE OwnerWalks'
    BY <2>5 DEF Lapse
  <2>6. ASSUME NEW w \in Worker, NEW i \in Item, Claim(w, i)
        PROVE OwnerWalks'
    BY <2>6 DEF Claim
  <2>7. ASSUME NEW w \in Worker, Renew(w) PROVE OwnerWalks'
    BY <2>7 DEF Renew
  <2>8. ASSUME NEW w \in Worker, FenceOut(w) PROVE OwnerWalks'
    BY <2>8 DEF FenceOut
  <2>9. ASSUME NEW w \in Worker, Release(w) PROVE OwnerWalks'
    BY <2>9 DEF Release
  <2>10. CASE Reboot
    BY <2>10 DEF Reboot
  <2>11. CASE UNCHANGED vars
    BY <2>11 DEF vars
  <2> QED
    BY <2>1, <2>2, <2>3, <2>4, <2>5, <2>6, <2>7, <2>8, <2>9, <2>10, <2>11
       DEF Next
<1> QED
  BY <1>1, <1>2, TypeCorrect, PTL DEF Spec

\* A step of the protocol never gives a row back to a walk that had lost it:
\* the renewal is fenced, and a claim is made only between two walks.
LEMMA StepFences ==
    ASSUME TypeOK, [Next]_vars, NEW w \in Worker,
           walking[w] # NoItem, owner[walking[w]] # w,
           walking'[w] = walking[w]
    PROVE  owner'[walking[w]] # w
<1> USE LeaseAssumption DEF TypeOK
<1>1. ASSUME NEW i \in Item, Requeue(i) PROVE owner'[walking[w]] # w
  BY <1>1 DEF Requeue
<1>2. ASSUME NEW i \in Item, RequeueFresh(i) PROVE owner'[walking[w]] # w
  BY <1>2 DEF RequeueFresh
<1>3. ASSUME NEW i \in Item, Retire(i) PROVE owner'[walking[w]] # w
  BY <1>3 DEF Retire
<1>4. ASSUME NEW i \in Item, Clear(i) PROVE owner'[walking[w]] # w
  BY <1>4 DEF Clear
<1>5. ASSUME NEW i \in Item, Lapse(i) PROVE owner'[walking[w]] # w
  BY <1>5 DEF Lapse
<1>6. ASSUME NEW v \in Worker, NEW i \in Item, Claim(v, i)
      PROVE owner'[walking[w]] # w
  BY <1>6 DEF Claim
<1>7. ASSUME NEW v \in Worker, Renew(v) PROVE owner'[walking[w]] # w
  BY <1>7 DEF Renew
<1>8. ASSUME NEW v \in Worker, FenceOut(v) PROVE owner'[walking[w]] # w
  BY <1>8 DEF FenceOut
<1>9. ASSUME NEW v \in Worker, Release(v) PROVE owner'[walking[w]] # w
  BY <1>9 DEF Release
<1>10. CASE Reboot
  BY <1>10 DEF Reboot
<1>11. CASE UNCHANGED vars
  BY <1>11 DEF vars
<1> QED
  BY <1>1, <1>2, <1>3, <1>4, <1>5, <1>6, <1>7, <1>8, <1>9, <1>10, <1>11
     DEF Next

\* A walk that a claim or a clear has fenced out never owns its row again.
THEOREM FencingIsFinal == Spec => FencedForGood
<1>1. TypeOK /\ [Next]_vars
        => [\A w \in Worker :
              (/\ walking[w] # NoItem
               /\ owner[walking[w]] # w
               /\ walking'[w] = walking[w])
              => owner'[walking[w]] # w]_vars
  BY StepFences
<1> QED
  BY <1>1, TypeCorrect, PTL DEF Spec, FencedForGood

\* A LeaseHandle reads lost only while its walk really is fenced out.
THEOREM LostNeverLies == Spec => []LostIsFenced
<1>1. Init => LostIsFenced
  BY DEF Init, LostIsFenced
<1>2. TypeOK /\ LostIsFenced /\ [Next]_vars => LostIsFenced'
  <2> SUFFICES ASSUME TypeOK, LostIsFenced, [Next]_vars,
                      NEW w \in Worker, lost'[w]
               PROVE  walking'[w] # NoItem /\ owner'[walking'[w]] # w
    BY DEF LostIsFenced
  <2>1. CASE FenceOut(w)
    BY <2>1 DEF FenceOut, TypeOK
  <2>2. CASE lost[w] /\ walking'[w] = walking[w]
    BY <2>2, StepFences DEF LostIsFenced
  <2>3. lost[w] \/ FenceOut(w)
    BY DEF Next, Requeue, RequeueFresh, Retire, Clear, Lapse, Claim, Renew,
           FenceOut, Release, Reboot, TypeOK, vars
  <2>4. walking'[w] = walking[w]
    BY LeaseAssumption DEF Next, Requeue, RequeueFresh, Retire, Clear, Lapse,
       Claim, Renew, FenceOut, Release, Reboot, TypeOK, vars
  <2> QED
    BY <2>1, <2>2, <2>3, <2>4
<1> QED
  BY <1>1, <1>2, TypeCorrect, PTL DEF Spec

-----------------------------------------------------------------------------
\* Why the claim is a mutex in a calm run: whoever walks an item owns its row,
\* and a row that is owned has not lapsed, so nobody else may claim it.
WalkerOwns ==
    /\ \A w \in Worker : walking[w] # NoItem => owner[walking[w]] = w
    /\ \A i \in Item : owner[i] # NoWorker => i \in live

\* Every calm step keeps it.
LEMMA CalmStep == TypeOK /\ WalkerOwns /\ Next /\ Calm => WalkerOwns'
<1> SUFFICES ASSUME TypeOK, WalkerOwns, Next, Calm PROVE WalkerOwns'
  OBVIOUS
<1> USE LeaseAssumption DEF TypeOK, WalkerOwns
<1>1. ASSUME NEW i \in Item, Requeue(i) \/ Retire(i) PROVE WalkerOwns'
  BY <1>1 DEF Requeue, Retire
<1>2. ASSUME NEW i \in Item, RequeueFresh(i) \/ Clear(i) PROVE WalkerOwns'
  <2>1. \A w \in Worker : walking[w] # i
    BY <1>2 DEF RequeueFresh, Clear, Calm, Unwalked
  <2> QED
    BY <1>2, <2>1 DEF RequeueFresh, Clear
<1>3. ASSUME NEW i \in Item, Lapse(i) PROVE WalkerOwns'
  BY <1>3 DEF Lapse, Calm
<1>4. ASSUME NEW w \in Worker, NEW i \in Item, Claim(w, i) PROVE WalkerOwns'
  <2>1. owner[i] = NoWorker
    BY <1>4 DEF Claim, Claimable
  <2> QED
    BY <1>4, <2>1 DEF Claim
<1>5. ASSUME NEW w \in Worker, Renew(w) \/ FenceOut(w) PROVE WalkerOwns'
  BY <1>5 DEF Renew, FenceOut
<1>6. ASSUME NEW w \in Worker, Release(w) PROVE WalkerOwns'
  BY <1>6 DEF Release
<1>7. CASE Reboot
  BY <1>7 DEF Reboot
<1> QED
  BY <1>1, <1>2, <1>3, <1>4, <1>5, <1>6, <1>7 DEF Next

\* The single UPDATE of claim_row is a mutual exclusion lock for as long as no
\* lease lapses and none is cleared under a walk.
THEOREM CalmMutualExclusion == CalmSpec => []MutexWhileCalm
<1> DEFINE Inv == TypeOK /\ (history = "calm" => WalkerOwns)
<1>1. CalmInit => Inv
  BY LeaseAssumption DEF CalmInit, Init, TypeOK, WalkerOwns
<1>2. Inv /\ [CalmNext]_<<vars, history>> => Inv'
  <2> SUFFICES ASSUME Inv, [CalmNext]_<<vars, history>> PROVE Inv'
    OBVIOUS
  <2>1. TypeOK'
    BY TypeStep DEF CalmNext
  <2>2. CASE CalmNext
    <3>1. history' = "calm" => history = "calm" /\ Calm
      BY <2>2 DEF CalmNext
    <3> QED
      BY <2>1, <2>2, <3>1, CalmStep DEF CalmNext
  <2>3. CASE UNCHANGED <<vars, history>>
    BY <2>1, <2>3 DEF vars, WalkerOwns
  <2> QED
    BY <2>2, <2>3
<1>3. Inv => MutexWhileCalm
  BY LeaseAssumption
     DEF TypeOK, WalkerOwns, MutexWhileCalm, MutualExclusion, Walks
<1> QED
  BY <1>1, <1>2, <1>3, PTL DEF CalmSpec

-----------------------------------------------------------------------------
(***************************************************************************)
(* What a claimed walk finds on disk: Workspace, whose Container is what   *)
(* Lease calls Item.  Nothing is asked of its constants.                   *)
(***************************************************************************)
CONSTANTS Container, Epics, Branch, Default, NoBase, EpicBase, Job, Nobody, Asks, Faults,
          MaxFaults, MaxCommits, MaxTitles, MaxRequests
VARIABLES project, canon, job, lock, row, tree, walk, faults, requests

Space == INSTANCE Workspace

Bases == {NoBase} \cup Branch \cup {EpicBase[c] : c \in Container}
Heads == {Default} \cup Bases
WalkPc == {"idle", "load", "lock", "refresh", "cloning", "fetched", "attach", "clone",
           "branch", "setup", "persist", "work", "failed", "hung", "over"}

CanonRec == [git : {"none", "partial", "whole"}, head : Heads]
RowRec == [title : Nat \ {0}, name : Nat, base : Bases]
TreeRec == [dir : {"absent", "git"}, branch : Nat, from : Heads, commits : Nat]
WalkRec == [pc : WalkPc, base : Bases, name : Nat, first : BOOLEAN]

SpaceTypes ==
    /\ project \in [status : {"pending", "ready", "error"}, base : Bases]
    /\ canon \in CanonRec
    /\ row \in [Container -> RowRec]
    /\ tree \in [Container -> TreeRec]
    /\ walk \in [Container -> WalkRec]

\* What a provision has read of its row is still so: nobody else names the
\* branch while it goes on.
NameIsKnown(r, w) ==
    /\ w.pc \in {"lock", "refresh", "cloning", "fetched", "attach", "clone", "branch", "setup",
                 "persist"} => /\ w.first = (r.name = 0) /\ w.name # 0
                               /\ ~w.first => w.name = r.name
    /\ w.pc = "persist" => w.first
    /\ w.pc = "work" => r.name # 0

\* Commits are in a git directory, and on a branch that is recorded; a clone is
\* made only where there are none.
CommitsAreNamed(r, t, w) ==
    /\ w.pc \in {"branch", "setup", "persist", "work"} => t.dir = "git"
    /\ w.pc \in {"clone", "branch"} => t.commits = 0
    /\ t.commits > 0 => t.dir = "git" /\ r.name # 0

Named(c) == NameIsKnown(row[c], walk[c]) /\ CommitsAreNamed(row[c], tree[c], walk[c])

SpaceInv == SpaceTypes /\ \A c \in Container : Named(c)

\* A job and a request about the project touch no container.
ProjectStep ==
    \/ \E b \in Branch \cup {NoBase} : Space!SetProjectBase(b)
    \/ \E j \in Job : \/ Space!RefreshProject(j) \/ Space!JobStep(j)
                      \/ Space!CloneFails(j) \/ Space!JobFetchFails(j)

\* One step of one container.
ContainerStep(c) ==
    \/ Space!BeginWalk(c) \/ Space!ProvisionStep(c) \/ Space!SetupFails(c)
    \/ Space!StepFails(c) \/ Space!GitHangs(c) \/ Space!AgentStrays(c) \/ Space!CommitAll(c)
    \/ Space!EndWalk(c) \/ Space!EditTitle(c) \/ Space!DeleteWorkspace(c)

\* The bases that there are, and what the canonical checkout may be on.
LEMMA BasesAre ==
    NoBase \in Bases /\ Branch \subseteq Bases /\ Bases \subseteq Heads /\ Default \in Heads
  BY DEF Bases, Heads

\* The canonical checkout after a git command.
LEMMA CanonFits ==
    ASSUME NEW g \in {"none", "partial", "whole"}, NEW h \in Heads
    PROVE  /\ [git |-> g, head |-> h] \in CanonRec
           /\ canon \in CanonRec => /\ [canon EXCEPT !.git = g] \in CanonRec
                                  /\ [canon EXCEPT !.head = h] \in CanonRec
  BY DEF CanonRec

\* A walk that goes to a place of the program is still a walk.
LEMMA WalkFits ==
    ASSUME walk \in [Container -> WalkRec], NEW c \in Container, NEW there \in WalkPc,
           Space!WalkGoes(c, there)
    PROVE  walk' \in [Container -> WalkRec]
  BY DEF Space!WalkGoes, WalkRec

\* What belongs to the project never touches a container.
LEMMA ProjectKeeps ==
    ASSUME SpaceTypes, ProjectStep
    PROVE  SpaceTypes' /\ UNCHANGED <<row, tree, walk>>
<1> USE BasesAre, CanonFits DEF SpaceTypes, Space!jobsOnly
<1>1. ASSUME NEW b \in Branch \cup {NoBase}, Space!SetProjectBase(b)
      PROVE  SpaceTypes' /\ UNCHANGED <<row, tree, walk>>
  BY <1>1 DEF Space!SetProjectBase
<1>2. ASSUME NEW j \in Job, Space!RefreshProject(j)
      PROVE  SpaceTypes' /\ UNCHANGED <<row, tree, walk>>
  BY <1>2 DEF Space!RefreshProject
<1>3. ASSUME NEW j \in Job, Space!JobStep(j)
      PROVE  SpaceTypes' /\ UNCHANGED <<row, tree, walk>>
  <2>1. CASE Space!record_clone_outcome(j)
    BY <2>1 DEF Space!record_clone_outcome
  <2>2. CASE Space!StartClone(j) \/ Space!EndClone(j)
    BY <2>2 DEF Space!StartClone, Space!EndClone
  <2>3. CASE Space!JobFetches(j) \/ Space!JobCheckout(j)
    BY <2>3 DEF Space!JobFetches, Space!JobCheckout
  <2> QED
    BY <1>3, <2>1, <2>2, <2>3 DEF Space!JobStep
<1>4. ASSUME NEW j \in Job, Space!CloneFails(j) \/ Space!JobFetchFails(j)
      PROVE  SpaceTypes' /\ UNCHANGED <<row, tree, walk>>
  BY <1>4 DEF Space!CloneFails, Space!JobFetchFails
<1> QED
  BY <1>1, <1>2, <1>3, <1>4 DEF ProjectStep

\* What a step that is not its own leaves of a container.
Others(c) ==
    \A d \in Container \ {c} : row'[d] = row[d] /\ tree'[d] = tree[d] /\ walk'[d] = walk[d]

\* A step throws commits away only where the container is over, or where the
\* workspace has left the recorded branch.
LeavesCommits(c) ==
    tree'[c].commits < tree[c].commits => walk'[c].pc = "over" \/ tree[c].branch # row[c].name

\* A container's step keeps the types and every other container's row,
\* workspace and walk; its own stay named, with their commits.
LEMMA ContainerKeeps ==
    ASSUME SpaceTypes, NEW c \in Container, Named(c), ContainerStep(c)
    PROVE  SpaceTypes' /\ Others(c) /\ Named(c)' /\ LeavesCommits(c)
<1> USE DEF Space!ours, Space!WalkAt
<1>1. CASE Space!BeginWalk(c)
  <2> USE <1>1 DEF Space!BeginWalk
  <2>1. SpaceTypes'
    BY BasesAre, CanonFits, WalkFits DEF SpaceTypes, WalkPc
  <2>2. Others(c)
    BY DEF SpaceTypes, Others, Space!WalkGoes
  <2>3. Named(c)' /\ LeavesCommits(c)
    BY DEF SpaceTypes, RowRec, TreeRec, WalkRec, Named, NameIsKnown, CommitsAreNamed, LeavesCommits,
           Space!WalkGoes, Space!NoName, Space!Gone, Space!Idle
  <2> QED
    BY <2>1, <2>2, <2>3
<1>2. CASE Space!EndWalk(c)
  <2> USE <1>2 DEF Space!EndWalk
  <2>1. SpaceTypes'
    <3>1. Space!Idle \in WalkRec
      BY BasesAre DEF Space!Idle, Space!NoName, WalkRec, WalkPc
    <3> QED
      BY <3>1 DEF SpaceTypes
  <2>2. Others(c)
    BY DEF SpaceTypes, Others, Space!WalkGoes
  <2>3. Named(c)' /\ LeavesCommits(c)
    BY DEF SpaceTypes, RowRec, TreeRec, WalkRec, Named, NameIsKnown, CommitsAreNamed, LeavesCommits,
           Space!WalkGoes, Space!NoName, Space!Gone, Space!Idle
  <2> QED
    BY <2>1, <2>2, <2>3
<1>3. CASE Space!LoadForProvision(c)
  <2> USE <1>3 DEF Space!LoadForProvision, Space!BranchName
  <2>1. SpaceTypes'
    <3> DEFINE r == [pc |-> "lock",
                     base |-> IF row[c].base # NoBase THEN row[c].base ELSE project.base,
                     name |-> IF row[c].name = 0 THEN row[c].title ELSE row[c].name,
                     first |-> row[c].name = 0]
    <3>1. r \in WalkRec
      BY DEF SpaceTypes, RowRec, WalkRec, WalkPc
    <3>2. walk' = [walk EXCEPT ![c] = r] \/ Space!WalkGoes(c, "failed")
      BY DEF Space!NoName
    <3> HIDE DEF r
    <3> QED
      BY <3>1, <3>2, WalkFits DEF SpaceTypes, WalkPc
  <2>2. Others(c)
    BY DEF SpaceTypes, Others, Space!WalkGoes
  <2>3. Named(c)' /\ LeavesCommits(c)
    <3>1. row'[c] = row[c] /\ tree'[c] = tree[c] /\ row[c].title # 0 /\ tree[c].commits \in Nat
      BY DEF SpaceTypes, RowRec, TreeRec
    <3>2. \/ /\ walk'[c].pc = "lock" /\ walk'[c].first = (row[c].name = 0)
             /\ walk'[c].name = IF row[c].name = 0 THEN row[c].title ELSE row[c].name
          \/ walk'[c].pc = "failed"
      BY DEF SpaceTypes, WalkRec, Space!WalkGoes, Space!NoName
    <3>3. LeavesCommits(c)
      BY <3>1 DEF LeavesCommits
    <3>4. NameIsKnown(row[c], walk'[c])
      BY <3>1, <3>2 DEF NameIsKnown
    <3>5. CommitsAreNamed(row[c], tree[c], walk'[c])
      BY <3>2 DEF Named, CommitsAreNamed
    <3> QED
      BY <3>1, <3>3, <3>4, <3>5 DEF Named
  <2> QED
    BY <2>1, <2>2, <2>3
<1>4. CASE Space!TakeRefreshLock(c)
  <2> USE <1>4 DEF Space!TakeRefreshLock
  <2>1. SpaceTypes'
    BY BasesAre, CanonFits, WalkFits DEF SpaceTypes, WalkPc
  <2>2. Others(c)
    BY DEF SpaceTypes, Others, Space!WalkGoes
  <2>3. Named(c)' /\ LeavesCommits(c)
    BY DEF SpaceTypes, RowRec, TreeRec, WalkRec, Named, NameIsKnown, CommitsAreNamed, LeavesCommits,
           Space!WalkGoes, Space!NoName, Space!Gone, Space!Idle
  <2> QED
    BY <2>1, <2>2, <2>3
<1>5. CASE Space!RefreshClones(c)
  <2> USE <1>5 DEF Space!RefreshClones
  <2>1. SpaceTypes'
    BY BasesAre, CanonFits, WalkFits DEF SpaceTypes, WalkPc
  <2>2. Others(c)
    BY DEF SpaceTypes, Others, Space!WalkGoes
  <2>3. Named(c)' /\ LeavesCommits(c)
    BY DEF SpaceTypes, RowRec, TreeRec, WalkRec, Named, NameIsKnown, CommitsAreNamed, LeavesCommits,
           Space!WalkGoes, Space!NoName, Space!Gone, Space!Idle
  <2> QED
    BY <2>1, <2>2, <2>3
<1>6. CASE Space!RefreshCloned(c)
  <2> USE <1>6 DEF Space!RefreshCloned
  <2>1. SpaceTypes'
    BY BasesAre, CanonFits, WalkFits DEF SpaceTypes, WalkPc
  <2>2. Others(c)
    BY DEF SpaceTypes, Others, Space!WalkGoes
  <2>3. Named(c)' /\ LeavesCommits(c)
    BY DEF SpaceTypes, RowRec, TreeRec, WalkRec, Named, NameIsKnown, CommitsAreNamed, LeavesCommits,
           Space!WalkGoes, Space!NoName, Space!Gone, Space!Idle
  <2> QED
    BY <2>1, <2>2, <2>3
<1>7. CASE Space!RefreshFetches(c)
  <2> USE <1>7 DEF Space!RefreshFetches
  <2>1. SpaceTypes'
    BY BasesAre, CanonFits, WalkFits DEF SpaceTypes, WalkPc
  <2>2. Others(c)
    BY DEF SpaceTypes, Others, Space!WalkGoes
  <2>3. Named(c)' /\ LeavesCommits(c)
    BY DEF SpaceTypes, RowRec, TreeRec, WalkRec, Named, NameIsKnown, CommitsAreNamed, LeavesCommits,
           Space!WalkGoes, Space!NoName, Space!Gone, Space!Idle
  <2> QED
    BY <2>1, <2>2, <2>3
<1>8. CASE Space!RefreshChecksOut(c)
  <2> USE <1>8 DEF Space!RefreshChecksOut, Space!Target
  <2>1. SpaceTypes'
    <3>1. Space!Target(walk[c].base) \in Heads
      BY BasesAre DEF SpaceTypes, WalkRec
    <3>2. canon' \in CanonRec
      BY <3>1, CanonFits DEF SpaceTypes
    <3> QED
      BY <3>2, WalkFits DEF SpaceTypes, WalkPc
  <2>2. Others(c)
    BY DEF SpaceTypes, Others, Space!WalkGoes
  <2>3. Named(c)' /\ LeavesCommits(c)
    BY DEF SpaceTypes, RowRec, TreeRec, WalkRec, Named, NameIsKnown, CommitsAreNamed, LeavesCommits,
           Space!WalkGoes, Space!NoName, Space!Gone, Space!Idle
  <2> QED
    BY <2>1, <2>2, <2>3
<1>9. CASE Space!Attach(c)
  <2> USE <1>9 DEF Space!Attach, Space!workspace_reattachable
  <2>1. SpaceTypes'
    <3>1. Space!Gone \in TreeRec
      BY BasesAre DEF Space!Gone, Space!NoName, TreeRec
    <3> QED
      BY <3>1, WalkFits DEF SpaceTypes, WalkPc
  <2>2. Others(c)
    BY DEF SpaceTypes, Others, Space!WalkGoes
  <2>3. Named(c)' /\ LeavesCommits(c)
    BY DEF SpaceTypes, RowRec, TreeRec, WalkRec, Named, NameIsKnown, CommitsAreNamed, LeavesCommits,
           Space!WalkGoes, Space!NoName, Space!Gone, Space!Idle
  <2> QED
    BY <2>1, <2>2, <2>3
<1>10. CASE Space!CloneLocal(c)
  <2> USE <1>10 DEF Space!CloneLocal
  <2>1. SpaceTypes'
    <3>1. [Space!Gone EXCEPT !.dir = "git", !.from = canon.head] \in TreeRec
      BY DEF SpaceTypes, Space!Gone, Space!NoName, TreeRec, CanonRec
    <3> QED
      BY <3>1, WalkFits DEF SpaceTypes, WalkPc
  <2>2. Others(c)
    BY DEF SpaceTypes, Others, Space!WalkGoes
  <2>3. Named(c)' /\ LeavesCommits(c)
    <3>1. row'[c] = row[c] /\ tree[c].commits = 0
      BY DEF Named, CommitsAreNamed
    <3>2. \/ /\ tree'[c].dir = "git" /\ tree'[c].commits = 0
             /\ walk'[c] = [walk[c] EXCEPT !.pc = "branch"]
          \/ tree'[c] = tree[c] /\ walk'[c] = [walk[c] EXCEPT !.pc = "failed"]
      <4>1. CASE canon.git = "whole"
        <5>1. tree' = [tree EXCEPT ![c] = [Space!Gone EXCEPT !.dir = "git", !.from = canon.head]]
          BY <4>1
        <5>2. Space!WalkGoes(c, "branch")
          BY <4>1
        <5>3. tree'[c].dir = "git" /\ tree'[c].commits = 0
          BY <5>1 DEF SpaceTypes, Space!Gone
        <5> QED
          BY <5>2, <5>3 DEF SpaceTypes, Space!WalkGoes
      <4>2. CASE canon.git # "whole"
        BY <4>2 DEF SpaceTypes, Space!WalkGoes
      <4> QED
        BY <4>1, <4>2
    <3> QED
      BY <3>1, <3>2 DEF SpaceTypes, WalkRec, Named, NameIsKnown, CommitsAreNamed, LeavesCommits
  <2> QED
    BY <2>1, <2>2, <2>3
<1>11. CASE Space!CheckoutNewBranch(c)
  <2> USE <1>11 DEF Space!CheckoutNewBranch
  <2>1. SpaceTypes'
    <3>1. [tree[c] EXCEPT !.branch = walk[c].name] \in TreeRec
      BY DEF SpaceTypes, TreeRec, WalkRec
    <3> QED
      BY <3>1, WalkFits DEF SpaceTypes, WalkPc
  <2>2. Others(c)
    BY DEF SpaceTypes, Others, Space!WalkGoes
  <2>3. Named(c)' /\ LeavesCommits(c)
    BY DEF SpaceTypes, RowRec, TreeRec, WalkRec, Named, NameIsKnown, CommitsAreNamed, LeavesCommits,
           Space!WalkGoes, Space!NoName, Space!Gone, Space!Idle
  <2> QED
    BY <2>1, <2>2, <2>3
<1>12. CASE Space!RunSetup(c)
  <2> USE <1>12 DEF Space!RunSetup
  <2>1. SpaceTypes'
    BY BasesAre, CanonFits, WalkFits DEF SpaceTypes, WalkPc
  <2>2. Others(c)
    BY DEF SpaceTypes, Others, Space!WalkGoes
  <2>3. Named(c)' /\ LeavesCommits(c)
    BY DEF SpaceTypes, RowRec, TreeRec, WalkRec, Named, NameIsKnown, CommitsAreNamed, LeavesCommits,
           Space!WalkGoes, Space!NoName, Space!Gone, Space!Idle
  <2> QED
    BY <2>1, <2>2, <2>3
<1>13. CASE Space!SetupFails(c)
  <2> USE <1>13 DEF Space!SetupFails
  <2>1. SpaceTypes'
    BY BasesAre, CanonFits, WalkFits DEF SpaceTypes, WalkPc
  <2>2. Others(c)
    BY DEF SpaceTypes, Others, Space!WalkGoes
  <2>3. Named(c)' /\ LeavesCommits(c)
    BY DEF SpaceTypes, RowRec, TreeRec, WalkRec, Named, NameIsKnown, CommitsAreNamed, LeavesCommits,
           Space!WalkGoes, Space!NoName, Space!Gone, Space!Idle
  <2> QED
    BY <2>1, <2>2, <2>3
<1>14. CASE Space!PersistBranchName(c)
  <2> USE <1>14 DEF Space!PersistBranchName
  <2>1. SpaceTypes'
    <3> DEFINE r == [row[c] EXCEPT !.name = walk[c].name,
                                   !.base = IF c \in Epics THEN walk[c].base ELSE @]
    <3>1. r \in RowRec
      BY DEF SpaceTypes, RowRec, WalkRec
    <3>2. row' = [row EXCEPT ![c] = r]
      OBVIOUS
    <3> HIDE DEF r
    <3> QED
      BY <3>1, <3>2, WalkFits DEF SpaceTypes, WalkPc
  <2>2. Others(c)
    BY DEF SpaceTypes, Others, Space!WalkGoes
  <2>3. Named(c)' /\ LeavesCommits(c)
    BY DEF SpaceTypes, RowRec, TreeRec, WalkRec, Named, NameIsKnown, CommitsAreNamed, LeavesCommits,
           Space!WalkGoes, Space!NoName, Space!Gone, Space!Idle
  <2> QED
    BY <2>1, <2>2, <2>3
<1>15. CASE Space!StepFails(c)
  <2> USE <1>15 DEF Space!StepFails, Space!GitRuns
  <2>1. SpaceTypes'
    BY BasesAre, CanonFits, WalkFits DEF SpaceTypes, WalkPc
  <2>2. Others(c)
    BY DEF SpaceTypes, Others, Space!WalkGoes
  <2>3. Named(c)' /\ LeavesCommits(c)
    BY DEF SpaceTypes, RowRec, TreeRec, WalkRec, Named, NameIsKnown, CommitsAreNamed, LeavesCommits,
           Space!WalkGoes, Space!NoName, Space!Gone, Space!Idle
  <2> QED
    BY <2>1, <2>2, <2>3
<1>16. CASE Space!AgentStrays(c)
  <2> USE <1>16 DEF Space!AgentStrays
  <2>1. SpaceTypes'
    <3>1. [tree[c] EXCEPT !.branch = 0] \in TreeRec
      BY DEF SpaceTypes, TreeRec
    <3> QED
      BY <3>1 DEF SpaceTypes, Space!NoName
  <2>2. Others(c)
    BY DEF SpaceTypes, Others, Space!WalkGoes
  <2>3. Named(c)' /\ LeavesCommits(c)
    BY DEF SpaceTypes, RowRec, TreeRec, WalkRec, Named, NameIsKnown, CommitsAreNamed, LeavesCommits,
           Space!WalkGoes, Space!NoName, Space!Gone, Space!Idle
  <2> QED
    BY <2>1, <2>2, <2>3
<1>17. CASE Space!CommitAll(c)
  <2> USE <1>17 DEF Space!CommitAll
  <2>1. SpaceTypes'
    <3>1. [tree[c] EXCEPT !.commits = @ + 1] \in TreeRec
      BY DEF SpaceTypes, TreeRec
    <3> QED
      BY <3>1 DEF SpaceTypes
  <2>2. Others(c)
    BY DEF SpaceTypes, Others, Space!WalkGoes
  <2>3. Named(c)' /\ LeavesCommits(c)
    BY DEF SpaceTypes, RowRec, TreeRec, WalkRec, Named, NameIsKnown, CommitsAreNamed, LeavesCommits,
           Space!WalkGoes, Space!NoName, Space!Gone, Space!Idle
  <2> QED
    BY <2>1, <2>2, <2>3
<1>18. CASE Space!EditTitle(c)
  <2> USE <1>18 DEF Space!EditTitle
  <2>1. SpaceTypes'
    <3>1. [row[c] EXCEPT !.title = @ + 1] \in RowRec
      BY DEF SpaceTypes, RowRec
    <3> QED
      BY <3>1 DEF SpaceTypes
  <2>2. Others(c)
    BY DEF SpaceTypes, Others, Space!WalkGoes
  <2>3. Named(c)' /\ LeavesCommits(c)
    BY DEF SpaceTypes, RowRec, TreeRec, WalkRec, Named, NameIsKnown, CommitsAreNamed, LeavesCommits,
           Space!WalkGoes, Space!NoName, Space!Gone, Space!Idle
  <2> QED
    BY <2>1, <2>2, <2>3
<1>19. CASE Space!DeleteWorkspace(c)
  <2> USE <1>19 DEF Space!DeleteWorkspace
  <2>1. SpaceTypes'
    <3>1. Space!Gone \in TreeRec
      BY BasesAre DEF Space!Gone, Space!NoName, TreeRec
    <3> QED
      BY <3>1, WalkFits DEF SpaceTypes, WalkPc, Space!WalkGoes
  <2>2. Others(c)
    BY DEF SpaceTypes, Others, Space!WalkGoes
  <2>3. Named(c)' /\ LeavesCommits(c)
    BY DEF SpaceTypes, RowRec, TreeRec, WalkRec, Named, NameIsKnown, CommitsAreNamed, LeavesCommits,
           Space!WalkGoes, Space!NoName, Space!Gone, Space!Idle
  <2> QED
    BY <2>1, <2>2, <2>3
<1>20. CASE Space!GitHangs(c)
  <2> USE <1>20 DEF Space!GitHangs, Space!GitRuns
  <2>1. SpaceTypes'
    BY WalkFits DEF SpaceTypes, WalkPc
  <2>2. Others(c)
    BY DEF SpaceTypes, Others, Space!WalkGoes
  <2>3. Named(c)' /\ LeavesCommits(c)
    BY DEF SpaceTypes, RowRec, TreeRec, WalkRec, Named, NameIsKnown, CommitsAreNamed, LeavesCommits,
           Space!WalkGoes
  <2> QED
    BY <2>1, <2>2, <2>3
<1> QED
  BY <1>1, <1>2, <1>3, <1>4, <1>5, <1>6, <1>7, <1>8, <1>9, <1>10, <1>11, <1>12, <1>13, <1>14,
     <1>15, <1>16, <1>17, <1>18, <1>19, <1>20
     DEF ContainerStep, Space!ProvisionStep

\* A crash ends every walk where it is and leaves the disk and the rows alone.
LEMMA CrashKeeps ==
    ASSUME SpaceInv, Space!Crash
    PROVE  SpaceInv' /\ UNCHANGED tree
<1> USE DEF Space!Crash, Space!WalkAt, Space!Idle, Space!NoName
<1>1. SpaceTypes'
  BY BasesAre DEF SpaceInv, SpaceTypes, WalkRec, WalkPc
<1>2. ASSUME NEW c \in Container PROVE Named(c)'
  <2>1. walk'[c].pc \in {"idle", "over"} /\ row'[c] = row[c] /\ tree'[c] = tree[c]
    OBVIOUS
  <2> QED
    BY <2>1 DEF SpaceInv, Named, NameIsKnown, CommitsAreNamed
<1> QED
  BY <1>1, <1>2 DEF SpaceInv

\* Every step of the working copies keeps the invariant, and none throws
\* commits away that are on the recorded branch.
LEMMA SpaceStep ==
    ASSUME SpaceInv, [Space!Next]_(Space!vars)
    PROVE  /\ SpaceInv'
           /\ \A c \in Container : LeavesCommits(c)
<1>1. ASSUME NEW c \in Container, tree'[c] = tree[c] PROVE LeavesCommits(c)
  BY <1>1 DEF SpaceInv, SpaceTypes, TreeRec, LeavesCommits
<1>2. CASE ProjectStep \/ UNCHANGED Space!vars
  <2>1. SpaceTypes' /\ UNCHANGED <<row, tree, walk>>
    BY <1>2, ProjectKeeps DEF SpaceInv, Space!vars, SpaceTypes
  <2> QED
    BY <1>1, <2>1 DEF SpaceInv, Named
<1>3. ASSUME NEW c \in Container, ContainerStep(c)
      PROVE  /\ SpaceInv'
             /\ \A d \in Container : LeavesCommits(d)
  <2>1. SpaceTypes /\ Named(c)
    BY DEF SpaceInv
  <2>2. SpaceTypes' /\ Others(c) /\ Named(c)' /\ LeavesCommits(c)
    BY <1>3, <2>1, ContainerKeeps
  <2>3. ASSUME NEW d \in Container, d # c PROVE Named(d)' /\ LeavesCommits(d)
    BY <1>1, <2>2, <2>3 DEF SpaceInv, Others, Named, LeavesCommits
  <2> QED
    BY <2>2, <2>3 DEF SpaceInv
<1>4. CASE Space!Crash
  BY <1>1, <1>4, CrashKeeps
<1>5. ProjectStep \/ (\E c \in Container : ContainerStep(c)) \/ Space!Crash \/ UNCHANGED Space!vars
  BY DEF Space!Next, ProjectStep, ContainerStep
<1> QED
  BY <1>2, <1>3, <1>4, <1>5

\* Committed work is never thrown away by a provision, however walks fail, are
\* cut off by crashes and claimed again: what `workspace_reattachable` refuses
\* has no commits yet, or has left the recorded branch.
THEOREM CommitsAreKept == Space!Spec => Space!CommitsSurvive
<1>1. Space!Init => SpaceInv
  <2> SUFFICES ASSUME Space!Init PROVE SpaceInv
    OBVIOUS
  <2> USE DEF Space!Init, Space!NoName
  <2>1. Space!Gone \in TreeRec /\ Space!Idle \in WalkRec
    BY BasesAre DEF Space!Gone, Space!Idle, TreeRec, WalkRec, WalkPc
  <2>2. ASSUME NEW c \in Container
        PROVE  [title |-> 1, name |-> 0, base |-> EpicBase[c]] \in RowRec
    BY DEF RowRec, Bases
  <2>3. project \in [status : {"pending", "ready", "error"}, base : Bases]
    BY BasesAre
  <2>4. SpaceTypes
    BY <2>1, <2>2, <2>3, BasesAre, CanonFits DEF SpaceTypes
  <2>5. ASSUME NEW c \in Container PROVE Named(c)
    BY DEF Named, NameIsKnown, CommitsAreNamed, Space!Gone, Space!Idle
  <2> QED
    BY <2>4, <2>5 DEF SpaceInv
<1>2. SpaceInv /\ [Space!Next]_(Space!vars) => SpaceInv'
  BY SpaceStep
<1>3. SpaceInv /\ [Space!Next]_(Space!vars) =>
        [\A c \in Container : tree'[c].commits < tree[c].commits =>
            walk'[c].pc = "over" \/ tree[c].branch # row[c].name]_(Space!vars)
  BY SpaceStep DEF LeavesCommits
<1> QED
  BY <1>1, <1>2, <1>3, PTL DEF Space!Spec, Space!CommitsSurvive
=============================================================================
