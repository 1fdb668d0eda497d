# A TLA+ development of Dearborn's server

Dearborn turns a destination into merged pull requests: people and agents settle
a planning map, the map becomes a document, the document is broken down into an
epic with a DAG of tasks, and a pool of workers runs every task through coding
agents (implement, test, commit, review, fix), opens one pull request per epic
and follows it until it is merged, closed or answered with change requests.

The server is one process (Rust, axum, tokio) over one libSQL connection.  What
makes it hard is that several long-lived tasks write the same rows: the workers,
their heartbeats, the lane / retry / run handlers, the review poller, and the
boot sequence after a crash.  There are no transactions around these writes: each
SQL statement is atomic and nothing larger is.  The modules here are about that.

Paths below are relative to `src/`; `worker.rs` means
`dearborn-server/src/worker.rs`, and so for its neighbours.

## 1. Inventory

### Executor pool (`worker.rs`: `spawn_pool`, `worker_loop`, `claim_next`, `claim_row`, heartbeat, `release_lease`)
State: `status`, `lease_owner`, `lease_expires_at` of `epic` and `task` rows; in
memory one `LeaseHandle` per walk.  A worker claims an `InProgress` row whose
lease is free or expired with one `UPDATE ... RETURNING`, epics before standalone
tasks, spawns a heartbeat and the body, awaits the body, aborts the heartbeat and
releases the lease by a fenced write.  Hard: expiry under a slow walk, theft, a
lease cleared under a walk, panics, restarts.
*Correct when* a lease always names a worker that walks the row; a walk that lost
its row never gets it back; the handle never says "lost" falsely; while nothing
disturbs the leases, at most one worker walks an item.

### Epic walk and standalone walk (`worker.rs`: `run_epic_pipeline_inner`, `run_standalone_pipeline_inner`, `fail_item`, `finalize_epic`, `finalize_task`, `push_and_ensure_pr`)
State: epic and task statuses, `pr_url`/`pr_number`, `blocked_reason`, the
workspace.  Provision, preflight, then task after task of the DAG, then summary,
push, pull request, `InReview`.  Stage boundaries re-read the status and the
lease handle; everything between two boundaries uses what was read before.  Hard:
cancels and re-enqueues in the middle, failures between two writes, crashes
between an external effect and the row that records it.
*Correct when* an enqueued epic leaves `InProgress`; a walk never finds a DAG that
cannot progress; a task is started only when its blockers are Done; an item under
review has a recorded pull request and no unfinished work; a cancelled item is
left alone.

### Task pipeline (`worker.rs`: `process_one_task`, `run_test_gate_loop`, `run_review_fix_converge`, `run_verify_complete`, `run_verdict_stage`, `commit_if_dirty`)
State: the tree and branch of the workspace, `base_sha`, the `agent_run` rows and
their attempts, and four nested counters.  Hard: three nested loops of agent
stages that may answer anything, share an attempt sequence and start each other
over.
*Correct when* Done means committed, green and approved, all of the same commit;
the loops end and their bounds multiply as configured; no two review rows collide.

### Stage runner, cancel registry, evidence (`task_agent.rs`, `cmd.rs`, `harness_pi.rs`, `evidence.rs`)
State: `cancel_registry`, item → handle of the running stage; the child process, its
pipe, the drain thread and the log flusher of a stage; one `agent_run` row per stage.
`CancelGuard::new` registers, its drop removes; a lane cancel, a stage deadline and a
fenced-out heartbeat look the *item* up and cancel whatever they find.  A shell stage
has a watchdog instead and a guard that closes its row on a panic.  At boot the rows
still running are cancelled.  *Correct when* an entry belongs to a stage that runs on
that item, every running stage can be reached, a stage counts as ok only when its
process ended well and was read to its end, and every row is closed once.

### Lanes, tasks, breakdown (`lanes.rs`, `tasks.rs`, `breakdown.rs`)
`POST /epics/{id}/lane` reads the row, checks `transition_permitted`, writes, then
kills or clears the lease by further statements.  `POST /tasks/{id}/retry` writes
the task, then unblocks the epic.  `POST /tasks/{id}/run` starts a standalone task.
`PATCH /tasks/{id}` writes any valid status.  `compute_dag` derives readiness.
`link_dependency` checks for cycles and inserts by two statements.  A breakdown run
lists the tasks there are, lets an agent create and link through the CLI, and either
deletes what was added or moves the epic to Ready.
*Correct when* the graph stays acyclic, a failed breakdown leaves nothing, and an
epic becomes Ready only with all that its agent asked for.

### Review poller (`review_poll.rs`)
State: `InReview` rows, `pr_feedback` rows (in_progress, handled, addressed), the posts
known to be ours, the clones it reads commits in.  Every tick, candidate by candidate:
the pull request is merged → Completed / Done, closed → Cancelled; open → first close the
loop on change work that has landed, then collect the comments in scope and triage each
one: nothing, a reply, or change tasks and the flip back to `InProgress`.
Hard: a comment is handled by up to six statements and posts, any of which may fail or
be the last before a crash; the executor, the host and people move the same rows.
*Correct when* "addressed" is the truth, landed work is answered, settled feedback is
never touched again, the poller never answers itself, and a merge is noticed.

### Git host, git, pull requests (`git_host.rs`, `git.rs`, `pr.rs`, `retry.rs`)
External state: branches, pull requests, comments and threads.  The code relies on: at
most one open pull request per branch, refusal of a second one, replies that may be lost
after the effect took place.

### Projects and workspaces (`projects.rs`, `workspace.rs`)
A canonical clone per project, made and refreshed by background jobs and by every
provision under a per-project lock; a local clone of it per epic or standalone task,
re-attached (`reset --hard`, `clean`) on later walks when it is on its branch, else made
anew.  *Correct when* commits survive, a provision ends, and a workspace starts
from its container's own base.

### Planning map, document, node runs (`map.rs`, `resolve.rs`, `comments.rs`, `node_asset.rs`, `document.rs`, `planning.rs`, `node_engine.rs`, `afk_engine.rs`, `capability.rs`)
Nodes with blocking edges, settled by a conversation or by an unattended agent.  A
resolution is one request of many statements: an edit of the document, the node, nodes
graduated out of the fog, nodes ruled out, updates of others, an artefact.  The document
is written under a per-epic lock against a base version.  An agent acts through the
same handlers with a capability token that lives as long as its run.  *Correct when* a
recorded decision is in the document, a settled node is not changed by an engine that
read it open, tokens die with their runs, and the lock is always passed on.

### Accounts and settings (`users.rs`, `sessions.rs`, `auth.rs`, `agent_settings.rs`, `agent_slot.rs`)
Users with roles, sessions with refresh tokens, access tokens that are valid until they
expire; a global agent setting, overrides per project and slot, resolved at launch.
*Correct when* an active administrator remains, a revocation lands, and no stored
setting launches a harness that is disabled or cannot run the slot.

### Stream (`hub.rs`, `ws.rs`)
A bounded broadcast channel per topic, a forwarder and a bounded outbox per connection.
*Correct when* a viewer who lags still gets the last frame.

### The rest
`epics.rs`, `spec.rs`, `activity.rs`, `cost.rs`, `board.rs` (single-statement CRUD and
views), `crypto.rs`, `config.rs`, `db.rs`, `error.rs`, `cli.rs`, `lib.rs`,
`bin/dearborn.rs` (assembly, parsing, I/O; of `main.rs` the boot order and of
`lib.rs` the locks and run guards are modelled), and the web client (a view).

How they interact: everything meets in the rows.  Handlers and the poller change
statuses and notify the pool; the pool claims what is `InProgress`; walks write
tasks and epics and ask the git host; the registry, the per-epic and per-project locks
and the in-flight sets are the memory they share.

## 2. Modules

| module | models | composed of |
| --- | --- | --- |
| `Lease` | the lease protocol alone: the abstract specification of the pool | |
| `CalmLease` | `Lease` with a history variable: has anything disturbed the leases yet | `Lease` |
| `Executor` | workers, heartbeats, walks, handlers, registry, pull-state polling, host, crashes | refines `Lease` |
| `CalmExecutor` | `Executor` with a history variable: which of four things that the code does not prevent have happened to an item | `Executor` |
| `TaskPipeline` | one task through implement, gate, commit, review, fix, verify, and its retries | the stage `vet` of `Executor` in detail |
| `ReviewPoll` | the poller's tick and the feedback lifecycle | the walk reduced to claim, work, push, leave |
| `TaskDag` | the task graph while it is planned: handlers and breakdown run | |
| `Document` | the sync of the living document | |
| `PlanningMap` | nodes, edges, prose, resolution, threads | extends `Document` |
| `NodeRuns` | conversations, unattended runs, tokens, crashes; the complete planning half | extends `PlanningMap` |
| `Workspace` | clones of a project, provisions, background jobs | |
| `Stream` | hub topic, subscription, connection, viewer | |
| `Stage` | agent and shell stages with their evidence, publishing to a viewer | extends `Stream` |
| `Accounts`, `Settings` | users, sessions, tokens; agent settings | |
| `Admin` | both, by requests that carry a token, with crashes | extends `Accounts`, `Settings` |
| `MC...` | instances for TLC | |
| `LeaseProofs` | theorems about `Lease` and, in its last part, about `Workspace` | `CalmLease`, an instance of `Workspace` |
| `TaskPipelineProofs`, `ReviewProofs`, `TaskDagProofs`, `StageProofs` | theorems about the module of that name (`ReviewPoll` for `ReviewProofs`) | |
| `ExecutorProofs` | theorems about `Executor` and `CalmExecutor` | `CalmExecutor` |
| `PlanningProofs`, `AdminProofs` | theorems about `NodeRuns` with what it extends, and about `Admin` with what it extends | |

A step is one SQL statement, one agent run or one command, or one call of the git host.
Where the code reads, decides and writes by several statements, the model does so by
several steps with the read values in a local record (`req`, `call`, `walk`, `poll`, ...).

**Lease.**  One action per thing that can happen to a row's lease: `Claim` (the `WHERE` clause of
`claim_row` is `Claimable`), `Renew` and `FenceOut` (the two outcomes of the
heartbeat's fenced `UPDATE`), `Release`, `Lapse` (the expiry passes), `Reboot`
(`clear_all_leases`), `Clear` (the enqueue's second statement) and the status
changes `Requeue`, `RequeueFresh`, `Retire` of everybody else.  Time is one bit per
row: `live` holds the rows whose `lease_expires_at` is ahead.

**Executor.**  `walk[w]` is what `try_claim_and_run` holds in memory: the program
counter, the item, the task, the handle's `lost`, the heartbeat, whether the stage
has been killed, the `pr_url` seen when the row was last read.  `Boundary` is the
stage-boundary check, `UnlessLost` the bare `is_lost` check; which of the two the code
has at a place, or none, is what the actions record.  A worker is three processes as in the
code: `WorkerLoop` (claims, awaits, releases), `Body` and `Beat`.  A handler is a
request in the middle of its statements (`req`), the poller a candidate between its
fetch and its write (`poll`).  `PatchTask` writes the statuses in `PatchTo`, on tasks no
matter who works on them.  `CrashAndBoot` loses all memory and clears the leases,
in the boot order of `main.rs`.  The implement stage is a stage of its own (it alone
is retried without a boundary); test gate, review, fix and verify are the repeated stage
`vet`.  External: the pull requests of the host (`prState`).

**CalmExecutor.**  The code does not prevent everything that can disturb an item, and nothing here forbids it.  `past[i]`
remembers which of four things have happened to item `i`: two walks worked on it at a time (`Shared`), a lane request wrote over a
lane it had not read (`Stale`), a task was taken out of Done by `PATCH` (`Reopened`), the process died between the
poller's insertion of change tasks and its flip (`Torn`).  A property that one of them breaks says "until it has happened";
each excuse is needed, since without it TLC finds the property violated.  `Workspace` (a hung git), `TaskDag` and `Admin`
(`races`) do the same on a smaller scale.

**TaskPipeline.**  One task, walked by one worker at a time; the container's status and the lease
handle are environment and may change at any step.  The branch is a number of
commits, the tree is clean or dirty against HEAD, `tests` says whether the tests
were green since the tree last changed.  `StartTask` is a claim with its re-attach
and the new `base_sha`; `RetryTask` makes a failed task claimable again.

**ReviewPoll.**  `feedback` is `pr_feedback` by comment, `posts` what Dearborn has put on the
host, with `ours` the ids it has recorded; `tip` is the commits in the item's workspace, `head` those on the
pull request's branch, `workspace` the items whose workspace directory exists.  `CheckRow` to `RecordClosing` are `close_the_loop`, `FetchActionable` to `RecordChange`
`handle_open_feedback` and `act_on_item`; the locals of a candidate (`todo`, `plan`,
`spawned`, `base`, `reply`) are lost in a `Crash`.

**TaskDag.**  `call[h]` is a request of a person or a tool call of the agent, `run` the
breakdown run with the list it read first and the calls of it that were refused.  `Reach` is what the
backward search of `would_create_cycle` visits: the least set with the starting task that is `Closed` under the
blockers of its members.  `races` remembers that an edge was inserted between another caller's check and its insertion
("links"), and that one was tied to a task between the rollback's two deletions ("tied").

**Document, PlanningMap, NodeRuns.**  `doc` is a version and the set of edits the text contains,
`docLock` the holder of the tokio mutex and `sync[c]` the sync a caller is in, `call[c]` a request of a
person or of a node's agent with its bundle and what it has read.  A request that is answered with an error or dropped by its
client keeps what it has written.  `inflight`, `run[n]` and `token` are the run lock, the agent and
the capability of a node.

**Workspace.**  A tree is absent, half a clone or a checkout with a branch, the base it was
made from and a number of commits; `lock` is the project's refresh lock, `walk[c]` a provision
and what its agent then does, `job` a background clone.  A git command ends, fails, or hangs for ever (`GitHangs`), with or
without the lock.  `MCWorkspace` and `MCSharedCheckout` choose by `Asks` what is requested.

**Stream, Stage.**  A topic is a window of numbered frames, a subscription a cursor; a frame
passes `Forward`, the outbox and `WriterSends`.  `proc`, `pipe`, `drain`, `out` and `flusher`
are the child, what it wrote, the drain thread, the shared outcome and the log snapshot task;
each run keeps its own, since a run that ignored its cancel is left behind.

**Accounts, Settings, Admin.**  A password is the number of times it was set, a token the
claims it was signed with.  A request checks its token, reads, and writes; a crash loses the
requests in the middle.  `races` remembers that an administrator was removed between the check and the write of another
removal ("admins"), and the same of the settings ("settings").

### Assumptions made
* `PATCH /tasks/{id}` (`tasks.rs:383`) writes any valid status over anything.  The runs patch a standalone task to Todo and
  Cancelled (`MCSolo`) and no task of an epic; the theorems of `CalmExecutor` are for any patches, with "reopened" where
  one matters.  `PullRequestsExist`, `SoloHasOneStage` and `OneStage` exclude InReview or Failed by `PATCH`, see section 6.
* Tasks of one epic block each other, and none of another epic: `compute_dag` reads the tasks and edges epic by epic.
* The loop top's reads of the epic and of the DAG are one step; which of several claimable
  rows comes first is open.
* Only implement and fix stages change the tree; agents do not commit; test runs do
  not dirty the tree.  (`Workspace` has agents that leave their branch.)
* The reviewer on the host never reopens a pull request.
* A tokio mutex serves its waiters in order and lets a dropped waiter go.
* Nobody but Dearborn itself posts under its owner's account with an id it has recorded.

## 3. Runs

| run | instance | distinct states | question |
| --- | --- | --- | --- |
| `MCLease` | 3 workers, 2 items, symmetric | 245 | the lease protocol; the claim is a mutex until a lease lapses or is cleared under a walk |
| `MCPipeline` | 1 worker, 1 handler, an epic of 3 tasks (t2 after t1, t3 a change task); every permitted lane change, retry, merge, close, change, a lost reply, one crash | 209,036 | the walk of an epic from enqueue to review and back: progress, what InReview means, what a cancel and a restart leave, and until when |
| `MCPool` | 2 workers, 1 handler, an epic of 2 dependent tasks; lapses, panics, Ready, re-enqueue, cancel, retry | 1.6 million | `Executor` implements `Lease`; the registry is sound although two walks overlap; until they do, stages can be killed and dependencies hold |
| `MCSolo` | 2 workers on a standalone task; run, retry, patches, change requests, lost replies | 90,852 | one agent at a time; a pull request for every task in review; the task settles |
| `MCTaskPipeline` | 2 implement tries, 1 fix attempt, 2 verdict tries, 2 fix rounds, 2 runs | 393,058 | Done is vetted; commits are green; the loops end; review rows are unique |
| `MCReviewPoll` | an epic with an inline comment, a task with a review, 2 triages, one fault of any kind | 224,096 | the life of a comment from the host to its closing reply |
| `MCTaskDag` | 3 tasks, a person who does everything and the agent at the same time, 3 requests, two breakdown runs, one fault | 1.1 million | acyclicity, and what a breakdown leaves, until callers cross |
| `MCPlanning` | a prototype, a research and a graduated grilling node, 2 people and the nodes' agents, 2 requests, one fault | 36,939 | the planning half: document, map, runs, tokens |
| `MCWorkspace` | an epic on `release` and a task on `main`, two jobs, 2 faults (one may be a git that hangs) | 198,831 | commits survive; provisions end unless git hangs |
| `MCStage` | one stage, of an agent or of a shell, buffers of one frame, two faults | 656,670 | how a stage ends, what its row says, what the viewer sees last |
| `MCAdmin` | 2 users, two desks, one device, 2 sessions, two editors, 2 slots, 2 harnesses | 446,323 | who can administer, what a revocation reaches, what is launched, while requests overlap |
| `MCSharedCheckout` | the containers of `MCWorkspace`, nothing but walks | a violation | the documented base of a workspace (section 6) |

**Bounds, and why they are enough.**  `Lease` needs three workers for a walk that
was robbed by one that was robbed itself, and two items for a worker that goes on to another
item while its old row is claimed.  `Executor`: `MaxCrashes` is 1 (a second crash
finds the rows the first one left), `MaxStages` 1 (every repetition happens once; their real
counting is `TaskPipeline`'s; none in `MCPool`, where a repeated stage would only be one more chance for the lapse).
`MCPool` has two dependent tasks on one epic, because it is about two walks of one item and what one finds of the other's.
One handler is enough for a lane written from a stale read: the walk blocks, finalizes, the poller cancels on a closed pull
request and the crash brings a new walk, all under a request that has read.  (With "stale" not excused TLC finds
`ReviewedIsDone` and `CancelledIsLeft` violated in `MCPipeline`; with "shared" not excused, `StageKillable` and `DepsRespected` in
`MCPool`.)  Two handlers were run for the invariants alone: 2.6 million states, too many for the liveness properties.
"reopened" is covered by the theorems only, for any `PatchTo`.  `TaskPipeline`'s counters
all reach their limit, and `MaxRuns` is 2 for a run after a failed one; the proofs remove
these bounds.  `MaxFaults` (1, in `Workspace` 2) counts what goes wrong, of any kind at any step:
the recovery is then checked to its end.  Three tasks are the shortest cycle that is not an edge and its
reverse.  Two breakdown runs give a repetition after an abort, and three requests of the person
let an edge be drawn, taken back and drawn again while the agent's are in flight.  In `MCPlanning` the two bundles are a
decision that edits the document and graduates a node, and one that rules something out and settles the
research; two requests are a pair that can overlap, beside the agents' own.  Buffers of one frame make a viewer lag at the second.
`MCStage` has one stage per behaviour and two faults, a crash and then a boot sweep that fails among them; that a late
write of one stage spares the row of the next is `RowsStayClosed`.
Two sessions and two requests are one that overlaps the other's revocation, two desks two removals that cross.

Where a module has liveness properties its run uses the specification with fairness.  Deadlock
is checked in the runs whose system always polls; `MCTaskDag`, `MCPlanning`, `MCWorkspace`,
`MCStage` and `MCSharedCheckout` have `CHECK_DEADLOCK FALSE`: with the bounds on requests, runs and
faults used up the modelled part is quiet, and the server waits for people.

**Fairness.**  `Executor`: weak fairness of each worker's loop, body and heartbeat, of
each accepted request and of the poller.  The tokio runtime drives every spawned
task; the loop waits on a notification *or* the poll interval; agent stages end by
their deadline and commands by `cmd_timeout_secs`; the heartbeat and the poller tick.
Nothing is assumed of people, of the host, or of the faults.  The actions of one
process are lumped together, so fairness never forces a particular outcome: a stage that may
succeed, fail, be repeated or time out may always choose the bad one.  `TaskPipeline`:
weak fairness of the run's own `Step`, for the same reason.  `ReviewPoll`: of the
tick and of the walks; strong fairness of the host's answer for each item and of a closing post, because a
bounded number of failures is retried by the next tick.  `NodeRuns` and `Workspace`: of every
request, run and job, but not of a git command that has begun to hang: `run_git` (`git.rs:515`) has no timeout, and
it runs while the project's lock is held (`workspace.rs:388`); strong fairness of *taking* a lock stands for the FIFO queue of
a tokio mutex.  `Stage`: of the stage, its deadlines, drains and of the connection's tasks; the viewer that stays connected reads (`ws.rs:101` writes to its socket without a timeout, so one that stops reading just
stops; nothing about it is promised); strong
fairness of `Forward` alone, which waits for room in a buffer that others fill: a tokio channel serves its
senders in order.  `Admin`: of requests and of the passing of a token's lifetime.

**Mutants.**  Operators marked "Mutant:" in a module are small plausible bugs of the
definition that follows (a dropped fence, a forgotten release, a retry that is not
counted).  No specification uses them; with one of them in place the named
property fails, which is how we know that the property depends on that code.

## 4. Properties worth a comment

* `ImplementsLease` - every write to the lease columns in the detailed executor, in
  whatever order the walks, heartbeats, handlers and crashes come, is a step of the
  protocol whose guarantees are proved.
* `RegistrySound`, `StageKillable` - the registry is keyed by item and entries are replaced
  and removed by key.  Even with overlapping walks an entry always belongs to a
  stage that runs on that item.  That an overlapped walk's stage may have *no*
  entry is a consequence of overlap; `StageKillable` holds on every item until two walks have worked on it at a time.
* `EpicSettlesOrFails` - with a crash between the two writes of `fail_item` an epic can stay
  InProgress for ever; it then shows the Failed task a person has to retry.
* `CancelledIsLeft` - although the implement stage is restarted without looking at
  the epic and the summary and push come after the last check, the walk of a
  cancelled epic ends and nobody claims it again, unless a lane request that had read the epic before the cancel writes
  after it (`lanes.rs:173`) and so takes it out of Cancelled.
* `ReviewedIsDone` - needs four excuses, each of which is a way in which the code really breaks it (section 6).
* `AddressedIsLanded` and `LandedIsAddressed` are the two directions of the promise "Addressed in
  `<commit>`": never too early, and in the end.  The first depends on the head that was recorded
  when the work was picked up.
* `AbortIsClean`, `ReadyIsWhole` - a breakdown is not a transaction: what is left of one is what a
  difference of two lists removes, and what makes the epic Ready is the absence of refused calls.
* `DecisionInDocument` - a resolution writes the document first, under the lock and against its
  base version; a refused edit refuses the resolution before the node is touched.
* `TokensDieWithRuns` - the order in which the guards of a run are dropped.
* `OkIsFinished` - the deadline, the cancel, the exit and the drain race; the row says ok only for one
  order of them.
* `AnAdminRemains`, `EveryLaunchAllowed`, `Acyclic` - a check and the write it guards are separate statements.  Requests overlap
  in the runs; the properties hold until two of them have crossed in exactly that way, and fail after it.
* `ProvisionEnds` - no failure, crash or wait for the lock keeps a provision for ever; a git that hangs does, its own provision and,
  when it holds the lock, every other one of the project.

## 5. Proofs

`LeaseProofs` (any workers, any items):
* `TypeCorrect`: `Spec => []TypeOK`.
* `OwnersWalk`: `Spec => []OwnerWalks`.  With the types it is inductive as it
  stands; it is what the others rest on.
* `FencingIsFinal`: `Spec => FencedForGood`.  A walk's ownership can only come
  from `Claim`, which needs a worker between two walks.
* `LostNeverLies`: `Spec => []LostIsFenced`.  Rests on the fencing step: once not
  owned, never owned again within the walk.
* `CalmMutualExclusion`: `CalmSpec => []MutexWhileCalm`.  Mutual exclusion alone is
  not inductive: nothing in it says that a walked row's lease is taken.  The
  strengthening is that while the run is calm every walker owns its row and the row
  is live (`WalkerOwns`); then `Claimable` excludes every walked row.
* `CommitsAreKept`: `Space!Spec => Space!CommitsSurvive`, for any containers, bounds and faults of `Workspace`.
  A provision may throw a workspace away because it is not a git directory, or because it is not on the branch whose
  name was read when the provision began.  So the invariant (`SpaceInv`) has to say that commits are only ever in a git
  directory and of a container whose branch is recorded (`CommitsAreNamed`), and that the name a provision has read is
  still the recorded one, whatever titles were edited since (`NameIsKnown`).

`TaskPipelineProofs` (any limits):
* `PipelineTypes`: `Spec => []TypeOK`, which contains that no counter passes its limit.
* `DoneVetted`, `VerdictsOnGreen`: from the inductive invariant `Vetted`, which
  says at each program counter what is already known: in a commit the tests are
  green, in a verdict stage also the tree is clean, in front of the Done write also
  the verdict is for the head, and a Done status keeps all of it because
  nothing starts a Done task again.
* `CommitsGreen`: an action property from the same invariant.
* `RowsUnique`: from `RowsNumbered`, which bounds all attempts recorded so far by the
  current one, strictly while a fix is on its way to the next review.

`ExecutorProofs` (any epics, tasks, dependencies, bounds and faults, and, where nothing else is said, any workers and
handlers):
* `TypeCorrect` and `RegistryIsSound`, from `IInv`.  `RegistrySound` alone is not inductive: a
  step that moves a walk on has to know that a walk in a stage holds an item, and which
  one.  `IInv` adds the types, that exactly the workers between two claims hold no item
  (`BusyOnItem`), that a heartbeat beats for an item (`BeatsOnItem`), and that a heartbeat
  between its cancel and its `mark_lost` does not own the row any more (`KillerIsFenced`).
* `PoolImplementsLease`: `Spec => ImplementsLease`.  The mapping takes the rows' status and
  lease columns as they are and, of a walk, its item and its `lost`.  Every action is mapped to one
  action of `Lease` or to a stutter under `IInv`; steps of a walk that leave item and lease alone
  (`SameWalks`), steps that end one walk (`OthersKeepRunning`) and writes of a status
  (`StatusStep`) are the three patterns, and `KillerIsFenced` is what makes `FenceMark` a
  `FenceOut`.  With `LeaseProofs`, the executor inherits `OwnerWalks`, `LostIsFenced` and `FencedForGood`.
* `PullRequestsExist`: `"InReview" \notin PatchTo` implies `Spec => []PrRowSound`.  The
  strengthening (`PrInMemory`, `RequestOnEpic`) follows the pull request from the host's answer through
  the walk's memory to the row, and says which requests can write an epic's lane.  Without the assumption it is false: a
  person may set InReview by `PATCH`.

* `StagesAreKillable`: `CalmSpec => []StageKillable`.  A walk in a stage and the registry entry of its item belong together
  as long as no two walks work on the item (`ApartOn`, `KillableOn`, for the items that are not "shared").  A stage's
  handle may be removed by the poller's triage, by a cancel and by the heartbeat; it is removed only where the stage is
  being killed.  `PastStep` and `StaysApart` turn the history into a hypothesis about one step, once for this and the
  next theorems: what is undisturbed after a step was undisturbed before it, and the step is not the disturbance.
* `SoloHasOneStage`: for any workers, epics, crashes and panics, where no lease lapses and nobody writes Failed by `PATCH`, a
  standalone task has one stage at a time and its handle stays registered.  The claim is no mutex here, since a failed body
  still holds the row while it pushes and a retry takes the row from it.  The strengthening is about the body that still
  has stages to run: it owns the row, the row is not Failed (`SoloHeld`), and an owned row has not lapsed (`OwnedIsLive`), so
  neither a claim nor a retry can bring a second one in.
* `OneStage`: the same, for an instance of standalone tasks alone: `Spec => []OneStagePerItem`.
* `DependenciesHold`: `CalmSpec => []DepsRespected`.  The walk picks its
  task at the top of the loop and starts it some statements later; `TaskFits` and `BlockersDone` keep what it saw true
  until then: on an item that is neither "shared" nor "reopened" a Done blocker is set back by nobody.
* `ReviewsAreDone`: `CalmSpec => []ReviewedIsDone`.  `ReviewInv` says who can disturb an undisturbed epic that is in review
  or that the poller has fetched: no walk but one that is leaving (`ReviewedIsLeft`), no poller that has read another lane
  (`PolledLane`), and what closes the review finds it done (`ClosingIsDone`).  `WritesArePermitted` keeps what a lane request has
  checked: when it is not stale it cannot move an epic in review anywhere but to an end.
* The last two and `StagesAreKillable` have no hypotheses: any workers, handlers, requests, patches, lapses, lost replies, panics
  and crashes.  What breaks a property is in its statement, per item and from the moment it happens, and is described
  in section 6.

`ReviewProofs` (any items, comments, triages and faults):
* `OwnPostsAreLeft`: `Spec => []OwnPostsLeftAlone`, with `SettledStaySettled`: `Spec => SettledForGood`, from `LoopInv`.
  A post is on the host before its id is recorded: `PostsKnown` allows exactly the one that is in the poller's memory, as
  long as no crash has lost that.  `ItemsOK` says that each row of the tick is met once, that what is being triaged or
  answered has no settled row, and that it is a human's; `ClosingOK` the same of the rows to be closed.
* `AddressedHasLanded`: `Spec => []AddressedIsLanded`, for any numbers of pull requests.  `LandInv` relates
  the head that was recorded at pick-up to the branch now: a row that waits for its tasks has recorded a head of its own
  item (`RowsOK`), the branch has moved past it when a row is taken for closing (`ClosingLand`), and an item under review is not
  worked on, so that its workspace and its branch agree (`IdleOK`).  The rows are found by pull request number alone, and projects
  have repositories of their own: so `ClosingLand` takes a row for the candidate's only where its number is its own
(`OwnNumber`), and so does the property what it says of the branch, see section 6.

`TaskDagProofs` (any tasks, callers, runs and faults):
* `CheckIsRight`: adding the edge that `would_create_cycle` lets pass to a graph without a cycle leaves it without
  one.  `Reach` is a least fixed point, so that `ReachClosed` and `ReachLeast` stand for the induction.
* `GraphHasNoCycle`: `Spec => []Acyclic`.  The check and the insert are two statements, and any number of callers may be between
  them; `OrderInv` says that what was checked is still so when it is inserted, until an insertion has overtaken a check ("links").
* `ReadyEpicIsWhole`: `Spec => ReadyIsWhole`.  `WholeInv`: unless the agent has died, none of its calls is left when its
  run goes on, and a run that makes the epic Ready had none refused.
* `AbortLeavesNothing`: `Spec => []AbortIsClean`.  `CleanInv` has the rollback's list: every
  row that is not a person's is on it, until it and its edges are deleted.  An edge that a person ties to a row between the
  deletion of its edges and its own makes the second one fail, which is what "tied" in the property is about; people may link
  whenever they like.

`AdminProofs` (any users, devices, sessions, editors, slots and harnesses):
* `AdminRemains`: `Spec => []AnAdminRemains`, for any number of desks.  The guard counts the administrators and a later
  statement writes: until two removals have crossed, `WriteOK` says of every request on its way that another administrator is
  still there.  Nothing else takes an administrator away.
* `LaunchesAllowed`: `Spec => []EveryLaunchAllowed`, for any number of editors.  `SettingsInv`: until two edits have crossed, the
  global setting is `Sound`, each override is allowed by it, and what every edit has read and merged is still true (`EditOK`).

`PlanningProofs` (any nodes, people, bundles and faults; `Document`, `PlanningMap` and `NodeRuns` together):
* `DecisionsStay`: `Spec => []DecisionInDocument`.  Not inductive: the text that replaces the document was
  pulled long before.  `LockInv` says why that is safe: only the lock's holder is past the version check
  (`HolderWrites`), what it has checked stays true until it has written (`CheckedStays`), and a text whose
  base is still the version contains the document (`TextIsCurrent`).  So the document never loses an edit
  (`SyncStepSound`), and `EditIsThere` follows a resolution's edit from its sync to the document, up to the
  statement that settles the node.
* `TokensDie`: `Spec => []TokensDieWithRuns`.  `FirerHoldsLock` adds the requests that hold a node's lock before
  there is a run, and `RevokedHasNone` the moment between the drop of the token's guard and that of the run's.
* `SettledNodesStay`: `Spec => SettledStays`.  A node's state is written by a request that counts itself, by the steps
  of a request in `NodeWrites`, or by `AfkSettle`.  `NodeWritesSay` shows that each of `NodeWrites` is about the node it
  moves or finds it unsettled; the statements of the engines and of a session's opening (`AfkSettle`, `FireFlip`, `Flip`)
  look at the node as they write it, so nothing they have read before is needed.
* Most actions touch neither: `Quiet` and `Aside` say what such a step leaves alone, once for all of them.

`StageProofs` (any stages, events, buffers, viewers, cancels and faults):
* `OkHasFinished`: `Spec => []OkIsFinished`.  `StageInv` follows an exit from the process through the pipe and
  the shared outcome to the outcome the stage is closed with (`ExitIsTrue`, `FinalIsTrue`): what is closed with is
  the drained outcome or is marked as timed out, and a stage nobody has opened has no process, events or outcome (`Ahead`).
* `RowsStayClosed`: `Spec => ClosedForGood`.  Whoever writes a status writes it to the row of the stage the walk is in,
  which is open until the walk leaves it (`RowIsOpen`), or at boot to rows that are still running; the log flush, which
  may come late, writes no status.

Assumptions: `LeaseAssumption` and `ExecutorAssumption` (the null values are not workers, items or tasks,
epics and tasks are different, parents and blockers are functions on the tasks), `PipelineAssumption` (limits
are naturals, the tries at least one), `StageAssumption` (its bounds are naturals), `DocumentAssumption`, `PlanningMapAssumption` and
`NodeRunsAssumption` (null values, the shape of bundles, a node's agent is a caller), `ReviewPollAssumption`,
`TaskDagAssumption`, `AccountsAssumption` and `SettingsAssumption` (null values, the types of the constants, and that some
enabled harness runs every slot).  Three theorems need more of the environment and say so in their `ASSUME`, as quoted above:
`PullRequestsExist`, `SoloHasOneStage` and `OneStage`; these hypotheses hold of the run that checks the property, `MCSolo`.

Only model-checked: liveness (`RunEnds`, `EpicSettlesOrFails`, `SoloSettles`, `CancelledIsLeft`, `MergedLeaves`, `LandedIsAddressed`,
`SiblingsNeverStall`, `ProvisionEnds`, `RowsClose`, `LastFrameArrives`, `RevocationLands`), which is out of the prover's
reach.  Every other property of a passing run is a theorem.

## 6. Where the code and its documentation differ

Shown by a run:
* `MCSharedCheckout` - `workspace.rs` promises a workspace on the container's own base.  The refresh checks
  the base out in the clone that the whole project shares, under the project's lock; the local clone is made after the lock is
  released (`workspace.rs:397`).  Another container's refresh in between leaves the checkout on *its* base.  That is the run's
  trace; there is no background job in it.  The `refresh_project` job, which takes no lock at all, leads to the same state on a
  second way (`Asks` with "refresh").

The following were found while the models were written, most of them by a model that was then given the
code's behaviour; no run is kept for them.  The models contain what the code does.

Executor:
* `docs/OPERATIONS.md:239` ("No PR is ever opened on a cancelled epic"; `CONVENTIONS.md:420`): after the
  all-Done read nothing looks at the status before `open_pr` (`worker.rs:5839`).  A cancel during the
  summary or the push leaves a cancelled epic with an open pull request.
* `lanes.rs:107` ("`Cancelled -> (none)` - terminal"): `set_epic_lane` writes unconditionally what it checked on an
  earlier read (`lanes.rs:173`); it also leaves `blocked_reason`, which is documented as cleared.  A request that read the epic
  before its cancel takes it out of Cancelled, to be claimed again.  One that read InProgress writes Blocked over InReview while
  the poller has fetched the epic; a person moves it to Ready and to InProgress, which the table permits (`lanes.rs:127`), the walk
  finds all tasks Done, then the poller inserts its change task, its flip finds the epic InProgress and does nothing, and
  the walk puts an epic with an unfinished task in review.
* `task_agent.rs:719` (at most one agent stage): the enqueue makes an epic claimable before it clears its
  lease (`lanes.rs:233`), and a worker that claims in between is robbed while it walks.  The triage agents
  of the poller run beside walks in any case.
* `docs/OPERATIONS.md:133` (a fenced-out heartbeat kills the stage it owns): it kills whatever is
  registered under the item, which may be the new owner's (`worker.rs:1840`).
* `docs/OPERATIONS.md:143` (a restart resumes in-flight work): a standalone task is Done before its pull
  request exists (`worker.rs:3205`), and the claim takes only `InProgress`.
* `worker.rs:378` (the reviewer sees the entire diff): `base_sha` is recorded anew in every run
  (`worker.rs:2776`), past the commits of an earlier one.
* `PATCH /tasks/{id}` (`tasks.rs:383`) writes any status.  Failed, then a retry, on a running task gives it two agents;
  InReview makes a task under review without a pull request; a Done blocker set back lets its dependents run before it.
* A crash between the poller's change tasks and the flip (`review_poll.rs:1597`) leaves an epic in review with tasks that are not
  done, until the next poll handles the comment again.
* `CONVENTIONS.md:325` has the lease released before a standalone task is `Failed`; `fail_item` writes
  `Failed` and then pushes with the lease held (`worker.rs:4784`).  `run_preflight` fails the item after a long command
  without a look at the lease (`worker.rs:5317`, `5338`).  A crash between the two writes of `fail_item` (`worker.rs:4792`)
  leaves an `InProgress` epic that is claimed, found stuck and released until a person retries its task.
* `docs/OPERATIONS.md` has standalone tasks claimed from `Todo`; the code claims `InProgress`.
  `CONVENTIONS.md` has finalize set `Completed`; it sets `InReview`, and the poller `Completed`.

Review poller:
* One comment may get two rows (`review_poll.rs:701`, against 50-54 and 689), and an `in_progress` row is triaged and
  answered by every poll (38-40, 1178).  A change that lands late is answered late (810-812).
* A crash between a post and its record (1336) makes the next poll answer again; between the change tasks and
  the flip, makes them twice; between the status and `delete_workspace`, leaks the workspace.
* The rows of a pull request are found by its number alone (`review_poll.rs:701`, against "for one PR" at 688), and two projects
  have two repositories: where two items in review have one number, the poll of one closes the loop of the other's
  comments, with its own head for a commit (with one number for both items in `MCReviewPoll`, an addressed row's own branch need not have moved; the
  property says that it has only where the number is the item's own).
* `send_rest` retries a POST whose reply was lost (`git_host.rs:851`); lists are read without pagination (498-511).

Tasks and breakdown:
* Two callers who link at the same time close a cycle (`tasks.rs:180-220`, against 175-178).
* The rollback deletes what *others* added meanwhile (`breakdown.rs:631-634`); a breakdown may run on an epic still in
  planning (263); an agent that dies with a call in flight leaves an epic Ready without it (528-545).

Planning:
* A crash between the version row and the document leaves a version that every later sync collides with
  (`document.rs:379-392`, `migrations/0015:88-96`, against 22-23); one between the `DELETE` and the `INSERT` of the
  sections leaves none.  A view may read document and sections of two versions.
* `append_out_of_scope_prose` reads, then writes: of two rulings at once one line is lost.  Two promotions of one thread
  make two nodes (`comments.rs:22`); a reply to a resolved thread opens it (8-11).
* An unattended run starts on a node that was settled after it was read, and `fire_node` does not ask whether the node is on
  the frontier (`afk_engine.rs:276-290`).  Two resolutions of one node both run.  The links of `create_map_node` may fail
  halfway.  A message that arrives during a reply is never answered.  Planning, unattended and breakdown agents have no deadline.

Workspace, stages, stream:
* `run_git` has no timeout (`git.rs:515-531`): a fetch or clone that hangs under the project's refresh lock (`workspace.rs:388`) stalls
  every provision of the project.  An agent that leaves its branch loses the commits there at the next provision.  `refresh_project`
  writes `pending` and so fails a walk that is provisioning; a crash during a job leaves `pending` for ever, one during a clone a
  `.git` without `origin/HEAD`.  `create_epic` writes by several statements.
* A log flush may land after the row is closed and shorten its log (`task_agent.rs:1190-1208`, `1282`).  A command that closes
  its output and runs on is waited for without a deadline (`cmd.rs:180`, `192`).  An agent that ignores its cancel is
  left running.  A close that fails leaves the row `running` until the next boot, and a sweep that fails at the boot
  (`main.rs:62-74`, best effort) until the one after.
* A viewer who lags by 1024 frames loses some (`ws.rs:221-222`, "guaranteed to receive"), though never the last;
  `publish_board` reads and then publishes, so two may arrive in the wrong order (88-105).

Accounts, settings, database:
* Two administrators who demote or deactivate each other at the same time leave none (`users.rs:31-37`: "The product forbids
  locking an instance out"); the guards count and the writes follow, and nothing serialises the requests.  `AnAdminRemains` holds until then.
* Two setups at once both succeed (`sessions.rs:343-365`); a login whose password was verified before an admin's reset
  outlives it (10-16).
* An override of the harness alone keeps the other harness's model (`agent_settings.rs:16-19`).  A harness may be disabled while
  a slot is being set to it; `EveryLaunchAllowed` holds until two edits have crossed like that.
* A crash between a migration's batch and the row that records it makes the next boot run the file
  again, on tables that exist (`db.rs:173-181`).

## 7. What could be added

* What still holds of an epic once it has been disturbed: when a second walk, or a stale lane write, is over.
* An abstract specification of a comment's life (seen, picked up, addressed) refined by `ReviewPoll`, and one of
  the claim-work-leave walk that `ReviewPoll` and `Executor` now state twice.
* The properties without their excuses, when a guard is made one statement with the write it guards.

## 8. Not modelled, and why

* `epics.rs`, `spec.rs`, `activity.rs`, `cost.rs`, `board.rs`, the comment feed: single statements and views without a
  protocol of their own.
* `crypto.rs`, `config.rs`, `error.rs`, `cli.rs`, `bin/dearborn.rs`, most of `lib.rs` and `main.rs`: assembly, parsing and pure
  functions.  Of `main.rs` the boot order is modelled, of `db.rs` nothing but that a statement is atomic.
* The git host and `git` themselves are external: what the code relies on is in `ReviewPoll`, `Executor` and `Workspace`.
  Their requests, retries within a call, and the parsing of their answers are data.
* Prompts, agents' transport, parsing of events and verdicts, rendering of documents and maps, cost accounting, comment
  anchors, the model that goes with a harness: data.
* The web client: a view of what the stream and the handlers give it.
* About half of the server's lines are tests, request and row types, and prompts, and a large part of the repository is
  the client's.  The modules cover the handlers and loops that write the shared state; the rest has no
  transition that a property here could be about.
