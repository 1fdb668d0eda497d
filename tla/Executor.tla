------------------------------ MODULE Executor ------------------------------
(***************************************************************************)
(* The executor pool of worker.rs with everything that writes the same     *)
(* rows at the same time: the lane, retry and run handlers of lanes.rs and *)
(* tasks.rs, the review poller of review_poll.rs, and the cancel registry  *)
(* of task_agent.rs.                                                       *)
(*                                                                         *)
(* The granularity is the code's: one SQL statement, one agent stage or    *)
(* one call of the git host is a step, and whatever was read before an     *)
(* await is kept in the walk (or the request) and used after it.  The      *)
(* stages between the implement stage and the Done write (test gate,       *)
(* review, fix, verify) are one repeated stage "vet" here; TaskPipeline    *)
(* has their detail.                                                       *)
(***************************************************************************)
EXTENDS Naturals, FiniteSets

CONSTANTS
    Worker,       \* the worker loops of spawn_pool
    Handler,      \* HTTP requests that may be in progress at once
    Epic,         \* rows of `epic`
    EpicTask,     \* rows of `task` with an epic_id
    Solo,         \* rows of `task` without one: standalone tasks
    ChangeTask,   \* the epic tasks that do not exist before the poller's change
    Parent,       \* epic_id of each epic task
    Blockers,     \* task_dependency, as compute_dag reads it: the tasks of the
                  \* same epic that each epic task waits for
    NoWorker, NoItem, NoTask,
    Request,      \* what humans ask for: target lanes, "retry", "run", and
                  \* on the host "merge", "close", "change"
    PatchTo,      \* the statuses humans write with PATCH /tasks/{id}
    Faults,       \* what may go wrong: "lapse", "panic", "lostReply"
    MaxCrashes,   \* bound: process crashes in a behaviour
    MaxStages     \* bound: stages a task may start after its first two

Item == Epic \cup Solo
Task == EpicTask \cup Solo

ASSUME ExecutorAssumption ==
    /\ NoWorker \notin Worker
    /\ NoItem \notin Item
    /\ NoTask \notin Task
    /\ Epic \cap Task = {}
    /\ EpicTask \cap Solo = {}
    /\ ChangeTask \subseteq EpicTask
    /\ Parent \in [EpicTask -> Epic]
    /\ Blockers \in [EpicTask -> SUBSET EpicTask]
    /\ \A t \in EpicTask : \A b \in Blockers[t] : Parent[b] = Parent[t]
    /\ PatchTo \subseteq {"Todo", "InProgress", "InReview", "Done", "Failed",
                          "Cancelled"}
    /\ MaxCrashes \in Nat
    /\ MaxStages \in Nat

VARIABLES
    estatus,      \* epic.status
    tstatus,      \* task.status, "Absent" before the row is inserted
    prRow,        \* the items whose pr_url / pr_number are recorded
    owner, live,  \* lease_owner, and the rows whose lease_expires_at is ahead
    walk,         \* per worker: what try_claim_and_run holds in memory
    registry,     \* cancel_registry: the stage registered under each item
    req,          \* per handler: the request it is in the middle of
    poll,         \* the review poller's current candidate
    prState,      \* the git host: the newest pull request of each branch
    crashes       \* crashes so far

rows == <<estatus, tstatus, prRow>>
lease == <<owner, live>>
env == <<req, poll, prState, crashes>>
vars == <<rows, lease, walk, registry, env>>

Lane == {"Planning", "Ready", "InProgress", "InReview", "Completed",
         "Cancelled", "Blocked"}
TaskStatus == {"Absent", "Todo", "InProgress", "InReview", "Done", "Failed",
               "Cancelled"}
AgentStage == {"implement", "vet", "summarize"}
PC == AgentStage \cup
      {"idle", "second", "orphans", "enter", "provision", "preflight", "walk",
       "start", "launch", "launchVet", "done", "final", "push", "openPr",
       "persist", "failing", "blocking", "triage", "leave"}
Heartbeat == {"none", "beating", "killing"}
PrState == {"none", "open", "merged", "closed"}

\* A worker between two claims.
Idle == [pc |-> "idle", item |-> NoItem, task |-> NoTask, lost |-> FALSE,
         hb |-> "none", killed |-> FALSE, prSeen |-> FALSE, stages |-> 0]

NoRequest == [at |-> "idle", epic |-> NoItem, from |-> "Ready", to |-> "Ready"]
NoCandidate == [at |-> "idle", item |-> NoItem, pr |-> "none"]

TypeOK ==
    /\ estatus \in [Epic -> Lane]
    /\ tstatus \in [Task -> TaskStatus]
    /\ prRow \in SUBSET Item
    /\ owner \in [Item -> Worker \cup {NoWorker}]
    /\ live \in SUBSET Item
    /\ walk \in [Worker -> [pc : PC, item : Item \cup {NoItem},
                            task : Task \cup {NoTask}, lost : BOOLEAN,
                            hb : Heartbeat, killed : BOOLEAN,
                            prSeen : BOOLEAN, stages : 0..MaxStages]]
    /\ registry \in [Item -> Worker \cup {NoWorker}]
    /\ req \in [Handler -> [at : {"idle", "write", "kill", "clear", "unblock"},
                            epic : Epic \cup {NoItem}, from : Lane, to : Lane]]
    /\ poll \in [at : {"idle", "fetched", "flip"}, item : Item \cup {NoItem},
                 pr : PrState]
    /\ prState \in [Item -> PrState]
    /\ crashes \in 0..MaxCrashes

\* Breakdown has left every epic Ready with its tasks Todo; a standalone task
\* is created Todo.
Init ==
    /\ estatus = [e \in Epic |-> "Ready"]
    /\ tstatus = [t \in Task |-> IF t \in ChangeTask THEN "Absent" ELSE "Todo"]
    /\ prRow = {}
    /\ owner = [i \in Item |-> NoWorker]
    /\ live = {}
    /\ walk = [w \in Worker |-> Idle]
    /\ registry = [i \in Item |-> NoWorker]
    /\ req = [h \in Handler |-> NoRequest]
    /\ poll = NoCandidate
    /\ prState = [i \in Item |-> "none"]
    /\ crashes = 0

-----------------------------------------------------------------------------
(***************************************************************************)
(* Shared reads.                                                           *)
(***************************************************************************)

\* Mutant: a cancelled epic still counts as claimable and in progress.
RunningWhenCancelled(i) ==
    IF i \in Epic THEN estatus[i] \in {"InProgress", "Cancelled"}
                  ELSE tstatus[i] = "InProgress"

\* container_still_in_progress, and the status test of both claim queries.
Running(i) == IF i \in Epic THEN estatus[i] = "InProgress"
                            ELSE tstatus[i] = "InProgress"

TasksOf(e) == {t \in EpicTask : Parent[t] = e /\ tstatus[t] # "Absent"}

\* Mutant: readiness looks at the task and not at its blockers.
ReadyIgnoresBlockers(t) == tstatus[t] = "Todo"

\* compute_dag: a Todo task all of whose blockers are Done.
Ready(t) == tstatus[t] = "Todo" /\ \A b \in Blockers[t] : tstatus[b] = "Done"

\* Mutant: the claim looks at the status and not at the lease.
ClaimableByStatus(i) == Running(i)

\* The WHERE clause of claim_row.
Claimable(i) == Running(i) /\ (owner[i] = NoWorker \/ i \notin live)

\* `if lease.is_lost() { return }` before going on to step l.
UnlessLost(w, l) == IF walk[w].lost THEN "leave" ELSE l

\* The stage boundary: neither lost nor moved out of InProgress.
Boundary(w, l) ==
    IF walk[w].lost \/ ~Running(walk[w].item) THEN "leave" ELSE l

\* RunControl::cancel() on whatever handle is registered under item i.
KillRegistered(f, i) ==
    IF registry[i] = NoWorker THEN f
                              ELSE [f EXCEPT ![registry[i]].killed = TRUE]

InStage(w) == walk[w].pc \in AgentStage

-----------------------------------------------------------------------------
(***************************************************************************)
(* worker_loop / claim_next: epics first, then standalone tasks.  Which of *)
(* several claimable rows is taken (ORDER BY updated_at) is left open.     *)
(***************************************************************************)

Take(w, i, l) ==
    /\ Claimable(i)
    /\ owner' = [owner EXCEPT ![i] = w]
    /\ live' = live \cup {i}
    /\ walk' = [walk EXCEPT ![w] = [Idle EXCEPT
                    !.pc = l, !.item = i,
                    !.task = IF i \in Solo THEN i ELSE NoTask,
                    !.hb = IF i \in Solo THEN "beating" ELSE "none"]]
    /\ UNCHANGED <<rows, registry, env>>

ClaimEpic(w) ==
    /\ walk[w].pc = "idle"
    /\ \E e \in Epic : Take(w, e, "orphans")

NoEpicToClaim(w) ==
    /\ walk[w].pc = "idle"
    /\ \A e \in Epic : ~Claimable(e)
    /\ walk' = [walk EXCEPT ![w].pc = "second"]
    /\ UNCHANGED <<rows, lease, registry, env>>

ClaimTask(w) ==
    /\ walk[w].pc = "second"
    /\ \E s \in Solo : Take(w, s, "enter")

NothingToClaim(w) ==
    /\ walk[w].pc = "second"
    /\ \A s \in Solo : ~Claimable(s)
    /\ walk' = [walk EXCEPT ![w].pc = "idle"]
    /\ UNCHANGED <<rows, lease, registry, env>>

\* reset_orphaned_tasks, then the heartbeat and the body are spawned.
ResetOrphans(w) ==
    LET e == walk[w].item IN
    /\ walk[w].pc = "orphans"
    /\ tstatus' = [t \in Task |->
                     IF t \in TasksOf(e) /\ tstatus[t] = "InProgress"
                     THEN "Todo" ELSE tstatus[t]]
    /\ walk' = [walk EXCEPT ![w].pc = "enter", ![w].hb = "beating"]
    /\ UNCHANGED <<estatus, prRow, lease, registry, env>>

-----------------------------------------------------------------------------
(***************************************************************************)
(* The heartbeat task of a walk.                                           *)
(***************************************************************************)

Renew(w) ==
    /\ walk[w].hb = "beating"
    /\ owner[walk[w].item] = w
    /\ live' = live \cup {walk[w].item}
    /\ UNCHANGED <<rows, owner, walk, registry, env>>

\* The renewal matched no row: cancel what is registered under the item ...
FenceKill(w) ==
    /\ walk[w].hb = "beating"
    /\ owner[walk[w].item] # w
    /\ walk' = [KillRegistered(walk, walk[w].item) EXCEPT ![w].hb = "killing"]
    /\ UNCHANGED <<rows, lease, registry, env>>

\* ... and only then mark_lost.
FenceMark(w) ==
    /\ walk[w].hb = "killing"
    /\ walk' = [walk EXCEPT ![w].hb = "none", ![w].lost = TRUE]
    /\ UNCHANGED <<rows, lease, registry, env>>

\* lease_expires_at passes before the heartbeat renews it.
Lapse(i) ==
    /\ "lapse" \in Faults
    /\ i \in live
    /\ live' = live \ {i}
    /\ UNCHANGED <<rows, owner, walk, registry, env>>

-----------------------------------------------------------------------------
(***************************************************************************)
(* The body of a walk, run_epic_pipeline_inner and                         *)
(* run_standalone_pipeline_inner, up to the task it starts.                *)
(***************************************************************************)

Go(w, l) ==
    /\ walk' = [walk EXCEPT ![w].pc = l]
    /\ UNCHANGED <<rows, lease, registry, env>>

Enter(w) ==
    /\ walk[w].pc = "enter"
    /\ Go(w, Boundary(w, "provision"))

\* provision_*_workspace, then the boundary check in front of the preflight.
Provision(w) ==
    /\ walk[w].pc = "provision"
    /\ Go(w, Boundary(w, "preflight")) \/ Go(w, UnlessLost(w, "failing"))

\* A red preflight fails the item without looking at the lease.
Preflight(w) ==
    /\ walk[w].pc = "preflight"
    /\ \/ Go(w, "failing")
       \/ Go(w, IF walk[w].item \in Epic THEN "walk" ELSE Boundary(w, "start"))

\* The loop top: the epic row and its DAG are read, and decide.
DagStep(w) ==
    LET e == walk[w].item
        ready == {t \in TasksOf(e) : Ready(t)}
        inFlight == \E t \in TasksOf(e) : tstatus[t] = "InProgress"
        allDone == \A t \in TasksOf(e) : tstatus[t] = "Done"
    IN
    /\ walk[w].pc = "walk"
    /\ \/ /\ Boundary(w, "go") = "leave" \/ inFlight \/ (ready = {} /\ ~allDone)
          /\ Go(w, "leave")
       \/ /\ Boundary(w, "go") = "go" /\ ~inFlight /\ ready = {} /\ allDone
          /\ walk' = [walk EXCEPT ![w].pc = "final",
                                  ![w].prSeen = e \in prRow]
          /\ UNCHANGED <<rows, lease, registry, env>>
       \/ /\ Boundary(w, "go") = "go" /\ ~inFlight
          /\ \E t \in ready :
               walk' = [walk EXCEPT ![w].pc = "start", ![w].task = t]
          /\ UNCHANGED <<rows, lease, registry, env>>

-----------------------------------------------------------------------------
(***************************************************************************)
(* process_one_task and the agent stages it awaits.                        *)
(***************************************************************************)

\* The InProgress write names the task and nothing else.
StartTask(w) ==
    /\ walk[w].pc = "start"
    /\ tstatus' = [tstatus EXCEPT ![walk[w].task] = "InProgress"]
    /\ walk' = [walk EXCEPT ![w].pc = "launch", ![w].stages = 0]
    /\ UNCHANGED <<estatus, prRow, lease, registry, env>>

\* base_sha, the agent settings or the spawn itself cannot be had.
LaunchFails(w) ==
    /\ walk[w].pc \in {"start", "launch", "launchVet"}
    /\ Go(w, UnlessLost(w, "failing"))

\* Mutant: the stage runs without an entry in the cancel registry.
RegisterNothing(w, l) ==
    /\ walk' = [walk EXCEPT ![w].pc = l, ![w].killed = FALSE]
    /\ UNCHANGED <<rows, lease, registry, env>>

\* run_agent_stage starts the agent and CancelGuard::new registers it,
\* replacing any other entry of the item.
Register(w, l) ==
    /\ registry' = [registry EXCEPT ![walk[w].item] = w]
    /\ walk' = [walk EXCEPT ![w].pc = l, ![w].killed = FALSE]
    /\ UNCHANGED <<rows, lease, env>>

LaunchStage(w) ==
    \/ walk[w].pc = "launch" /\ Register(w, "implement")
    \/ walk[w].pc = "launchVet" /\ Register(w, "vet")
    \/ walk[w].pc = "final" /\ ~walk[w].lost /\ Register(w, "summarize")

\* The summary is best-effort, and skipped when the lease is lost.
SkipSummary(w) ==
    /\ walk[w].pc = "final"
    /\ Go(w, "push")

\* Mutant: the stage ends and its entry stays in the cancel registry.
UnregisterForgets(w, l) ==
    /\ walk' = [walk EXCEPT ![w].pc = l, ![w].killed = FALSE]
    /\ UNCHANGED <<rows, lease, registry, env>>

\* The stage ends; CancelGuard's drop removes the item's entry, whosever it is.
Unregister(w, l) ==
    /\ registry' = [registry EXCEPT ![walk[w].item] = NoWorker]
    /\ walk' = [walk EXCEPT ![w].pc = l, ![w].killed = FALSE]
    /\ UNCHANGED <<rows, lease, env>>

StageOk(w) ==
    \/ walk[w].pc = "implement" /\ Unregister(w, Boundary(w, "launchVet"))
    \/ walk[w].pc = "vet" /\ Unregister(w, UnlessLost(w, "done"))

\* Another implement stage, after a transient provider error, is started with
\* no check at all; a fix or another review round is behind a stage boundary.
StageRepeats(w) ==
    /\ walk[w].pc \in {"implement", "vet"}
    /\ walk[w].stages < MaxStages
    /\ registry' = [registry EXCEPT ![walk[w].item] = NoWorker]
    /\ walk' = [walk EXCEPT
                  ![w].pc = IF walk[w].pc = "implement"
                            THEN "launch" ELSE Boundary(w, "launchVet"),
                  ![w].killed = FALSE,
                  ![w].stages = @ + 1]
    /\ UNCHANGED <<rows, lease, env>>

\* route_stage_failure on an ordinary error or an exhausted bound.
StageFails(w) ==
    /\ walk[w].pc \in {"implement", "vet"}
    /\ Unregister(w, UnlessLost(w, "failing"))

\* route_stage_failure on a cancelled stage: handle_cancelled_task.
StageCancelled(w) ==
    /\ walk[w].pc \in {"implement", "vet"}
    /\ walk[w].killed
    /\ tstatus' = IF walk[w].lost
                  THEN tstatus
                  ELSE [tstatus EXCEPT ![walk[w].task] = "Todo"]
    /\ registry' = [registry EXCEPT ![walk[w].item] = NoWorker]
    /\ walk' = [walk EXCEPT ![w].pc = "leave", ![w].killed = FALSE]
    /\ UNCHANGED <<estatus, prRow, lease, env>>

\* The deadline cancels what is registered under the item, then the stage ends.
StageTimeout(w) ==
    /\ InStage(w)
    /\ registry' = [registry EXCEPT ![walk[w].item] = NoWorker]
    /\ walk' = [KillRegistered(walk, walk[w].item) EXCEPT
                   ![w].killed = FALSE,
                   ![w].pc = IF walk[w].pc = "summarize"
                             THEN "push" ELSE UnlessLost(w, "failing")]
    /\ UNCHANGED <<rows, lease, env>>

\* The Done write; an epic's walk goes back to the loop top, a standalone one
\* re-reads its row and finalizes.
MarkDone(w) ==
    LET i == walk[w].item IN
    /\ walk[w].pc = "done"
    /\ tstatus' = [tstatus EXCEPT ![walk[w].task] = "Done"]
    /\ walk' = [walk EXCEPT
                  ![w].pc = IF i \in Epic THEN "walk" ELSE UnlessLost(w, "final"),
                  ![w].task = IF i \in Epic THEN NoTask ELSE @,
                  ![w].prSeen = i \in prRow]
    /\ UNCHANGED <<estatus, prRow, lease, registry, env>>

-----------------------------------------------------------------------------
(***************************************************************************)
(* finalize_epic / finalize_task.                                          *)
(***************************************************************************)

SummaryEnds(w) ==
    /\ walk[w].pc = "summarize"
    /\ Unregister(w, "push")

\* Mutant: the push goes on to the InReview write without a pull request.
PushSkipsOpen(w) ==
    /\ walk[w].pc = "push"
    /\ Go(w, "persist")

\* push_and_ensure_pr: a recorded pull request is reused after the push.
Push(w) ==
    /\ walk[w].pc = "push"
    /\ \/ Go(w, IF walk[w].prSeen THEN "persist" ELSE "openPr")
       \/ Go(w, UnlessLost(w, "failing"))

\* open_pr, with its retries of transient answers: the host opens a pull request
\* unless the branch has an open one, and the reply may be lost all the same.
HostOpens(i) ==
    /\ prState[i] # "open"
    /\ prState' = [prState EXCEPT ![i] = "open"]

OpenPr(w) ==
    /\ walk[w].pc = "openPr"
    /\ \/ /\ HostOpens(walk[w].item)
          /\ \/ walk' = [walk EXCEPT ![w].pc = "persist"]
             \/ /\ "lostReply" \in Faults
                /\ walk' = [walk EXCEPT ![w].pc = UnlessLost(w, "failing")]
          /\ UNCHANGED <<rows, lease, registry, req, poll, crashes>>
       \/ Go(w, UnlessLost(w, "failing"))

\* The fenced write to InReview, which records the pull request it opened.
RecordPr(w, fits) ==
    /\ prRow' = IF fits /\ ~walk[w].prSeen THEN prRow \cup {walk[w].item}
                                           ELSE prRow
    /\ walk' = [walk EXCEPT ![w].pc = "leave"]
    /\ UNCHANGED <<lease, registry, env>>

PersistEpic(w) ==
    LET e == walk[w].item
        fits == ~walk[w].lost /\ estatus[e] = "InProgress"
    IN
    /\ walk[w].pc = "persist" /\ e \in Epic
    /\ estatus' = IF fits THEN [estatus EXCEPT ![e] = "InReview"] ELSE estatus
    /\ RecordPr(w, fits)
    /\ UNCHANGED tstatus

PersistTask(w) ==
    LET s == walk[w].item
        fits == ~walk[w].lost /\ tstatus[s] = "Done"
    IN
    /\ walk[w].pc = "persist" /\ s \in Solo
    /\ tstatus' = IF fits THEN [tstatus EXCEPT ![s] = "InReview"] ELSE tstatus
    /\ RecordPr(w, fits)
    /\ UNCHANGED estatus

-----------------------------------------------------------------------------
(***************************************************************************)
(* fail_item: the task first, then the epic, each by its own statement.    *)
(***************************************************************************)

FailTask(w) ==
    LET t == walk[w].task IN
    /\ walk[w].pc = "failing"
    /\ tstatus' = IF t = NoTask THEN tstatus
                                ELSE [tstatus EXCEPT ![t] = "Failed"]
    /\ walk' = [walk EXCEPT ![w].pc = IF walk[w].item \in Epic
                                      THEN "blocking" ELSE "triage"]
    /\ UNCHANGED <<estatus, prRow, lease, registry, env>>

BlockEpic(w) ==
    LET e == walk[w].item
        took == estatus[e] = "InProgress"
    IN
    /\ walk[w].pc = "blocking"
    /\ estatus' = IF took THEN [estatus EXCEPT ![e] = "Blocked"] ELSE estatus
    /\ walk' = [walk EXCEPT ![w].pc = "triage"]
    /\ UNCHANGED <<tstatus, prRow, lease, registry, env>>

\* push_on_failure, or its omission: whatever comes of it, the failure stands.
TriagePush(w) ==
    /\ walk[w].pc = "triage"
    /\ Go(w, "leave")

\* Mutant: the release is not fenced by lease_owner.
LeaveUnfenced(w) ==
    /\ walk[w].pc = "leave"
    /\ owner' = [owner EXCEPT ![walk[w].item] = NoWorker]
    /\ live' = live \ {walk[w].item}
    /\ walk' = [walk EXCEPT ![w] = Idle]
    /\ UNCHANGED <<rows, registry, env>>

\* Mutant: an exit path forgets the release.
LeaveKeepsLease(w) ==
    /\ walk[w].pc = "leave"
    /\ walk' = [walk EXCEPT ![w] = Idle]
    /\ UNCHANGED <<rows, lease, registry, env>>

\* The body has returned: the heartbeat is aborted and the lease released by a
\* fenced write.
Leave(w) ==
    LET i == walk[w].item
        mine == owner[i] = w
    IN
    /\ walk[w].pc = "leave"
    /\ owner' = IF mine THEN [owner EXCEPT ![i] = NoWorker] ELSE owner
    /\ live' = IF mine THEN live \ {i} ELSE live
    /\ walk' = [walk EXCEPT ![w] = Idle]
    /\ UNCHANGED <<rows, registry, env>>

\* The spawned body panics; the worker's JoinHandle resolves as an error.
BodyPanics(w) ==
    /\ "panic" \in Faults
    /\ walk[w].pc \notin {"idle", "second", "orphans", "leave"}
    /\ walk' = [walk EXCEPT ![w].pc = "leave", ![w].killed = FALSE]
    /\ registry' = IF InStage(w)
                   THEN [registry EXCEPT ![walk[w].item] = NoWorker]
                   ELSE registry
    /\ UNCHANGED <<rows, lease, env>>

\* Mutant: the boot skips clear_all_leases.
CrashKeepsLeases ==
    /\ crashes < MaxCrashes
    /\ crashes' = crashes + 1
    /\ walk' = [w \in Worker |-> Idle]
    /\ registry' = [i \in Item |-> NoWorker]
    /\ req' = [h \in Handler |-> NoRequest]
    /\ poll' = NoCandidate
    /\ UNCHANGED <<rows, lease, prState>>

\* The process dies and boots: memory is gone, clear_all_leases runs before
\* the pool, the poller and the listener start.
CrashAndBoot ==
    /\ crashes < MaxCrashes
    /\ crashes' = crashes + 1
    /\ owner' = [i \in Item |-> NoWorker]
    /\ live' = {}
    /\ walk' = [w \in Worker |-> Idle]
    /\ registry' = [i \in Item |-> NoWorker]
    /\ req' = [h \in Handler |-> NoRequest]
    /\ poll' = NoCandidate
    /\ UNCHANGED <<rows, prState>>

-----------------------------------------------------------------------------
(***************************************************************************)
(* POST /epics/{id}/lane.                                                  *)
(***************************************************************************)

transition_permitted(current, target) ==
    \/ current = "Planning" /\ target = "Cancelled"
    \/ current = "Ready" /\ target \in {"InProgress", "Cancelled"}
    \/ current = "InProgress" /\ target \in {"Cancelled", "Blocked"}
    \/ current = "InReview" /\ target = "Cancelled"
    \/ current = "Blocked" /\ target \in {"Ready", "Cancelled"}

SetLaneRead(h, e, target) ==
    /\ req[h] = NoRequest
    /\ transition_permitted(estatus[e], target)
    /\ req' = [req EXCEPT ![h] = [at |-> "write", epic |-> e,
                                  from |-> estatus[e], to |-> target]]
    /\ UNCHANGED <<rows, lease, walk, registry, poll, prState, crashes>>

\* The write does not look at the status again.
SetLaneWrite(h) ==
    LET r == req[h]
        next == IF r.from = "InProgress" /\ r.to = "Cancelled" THEN "kill"
                ELSE IF r.from = "Ready" /\ r.to = "InProgress" THEN "clear"
                ELSE "idle"
    IN
    /\ r.at = "write"
    /\ estatus' = [estatus EXCEPT ![r.epic] = r.to]
    /\ req' = [req EXCEPT ![h] = IF next = "idle" THEN NoRequest
                                 ELSE [r EXCEPT !.at = next]]
    /\ UNCHANGED <<tstatus, prRow, lease, walk, registry, poll, prState,
                   crashes>>

SetLaneKill(h) ==
    /\ req[h].at = "kill"
    /\ walk' = KillRegistered(walk, req[h].epic)
    /\ req' = [req EXCEPT ![h] = NoRequest]
    /\ UNCHANGED <<rows, lease, registry, poll, prState, crashes>>

\* The enqueue clears the lease by a statement of its own, then notifies.
SetLaneClear(h) ==
    /\ req[h].at = "clear"
    /\ owner' = [owner EXCEPT ![req[h].epic] = NoWorker]
    /\ live' = live \ {req[h].epic}
    /\ req' = [req EXCEPT ![h] = NoRequest]
    /\ UNCHANGED <<rows, walk, registry, poll, prState, crashes>>

-----------------------------------------------------------------------------
(***************************************************************************)
(* POST /tasks/{id}/retry and /tasks/{id}/run.                             *)
(***************************************************************************)

RetryTask(h, t) ==
    /\ req[h] = NoRequest
    /\ tstatus[t] = "Failed"
    /\ tstatus' = [tstatus EXCEPT ![t] = IF t \in Solo THEN "InProgress"
                                                       ELSE "Todo"]
    /\ owner' = IF t \in Solo THEN [owner EXCEPT ![t] = NoWorker] ELSE owner
    /\ live' = live \ {t}
    /\ req' = IF t \in Solo THEN req
              ELSE [req EXCEPT ![h] = [NoRequest EXCEPT !.at = "unblock",
                                                        !.epic = Parent[t]]]
    /\ UNCHANGED <<estatus, prRow, walk, registry, poll, prState,
                   crashes>>

RetryUnblock(h) ==
    LET e == req[h].epic
        took == estatus[e] = "Blocked"
    IN
    /\ req[h].at = "unblock"
    /\ estatus' = IF took THEN [estatus EXCEPT ![e] = "InProgress"] ELSE estatus
    /\ owner' = IF took THEN [owner EXCEPT ![e] = NoWorker] ELSE owner
    /\ live' = IF took THEN live \ {e} ELSE live
    /\ req' = [req EXCEPT ![h] = NoRequest]
    /\ UNCHANGED <<tstatus, prRow, walk, registry, poll, prState, crashes>>

RunTask(s) ==
    /\ tstatus[s] = "Todo"
    /\ tstatus' = [tstatus EXCEPT ![s] = "InProgress"]
    /\ UNCHANGED <<estatus, prRow, lease, walk, registry, env>>

\* PATCH /tasks/{id} looks at nothing: any status, over whatever a walk wrote.
PatchTask(t, to) ==
    /\ tstatus[t] \notin {"Absent", to}
    /\ tstatus' = [tstatus EXCEPT ![t] = to]
    /\ UNCHANGED <<estatus, prRow, lease, walk, registry, env>>

-----------------------------------------------------------------------------
(***************************************************************************)
(* The human reviewer on the git host, and the review poller.              *)
(***************************************************************************)

HostDecides(i, verdict) ==
    /\ prState[i] = "open"
    /\ prState' = [prState EXCEPT ![i] = verdict]
    /\ UNCHANGED <<rows, lease, walk, registry, req, poll, crashes>>

InReview(i) == IF i \in Epic THEN estatus[i] = "InReview"
                             ELSE tstatus[i] = "InReview"

\* A candidate row is selected and its pull request fetched.
PollFetch(i) ==
    /\ poll = NoCandidate
    /\ InReview(i) /\ i \in prRow
    /\ poll' = [at |-> "fetched", item |-> i, pr |-> prState[i]]
    /\ UNCHANGED <<rows, lease, walk, registry, req, prState, crashes>>

\* Every status write of the poller is conditional on InReview.
PollMove(i, lane, status) ==
    /\ estatus' = IF i \in Epic /\ InReview(i)
                  THEN [estatus EXCEPT ![i] = lane] ELSE estatus
    /\ tstatus' = IF i \in Solo /\ InReview(i)
                  THEN [tstatus EXCEPT ![i] = status] ELSE tstatus
    /\ poll' = NoCandidate
    /\ UNCHANGED <<prRow, lease, walk, registry, req, prState, crashes>>

\* apply_epic_pull_state / apply_task_pull_state, and amend_standalone_task.
PollApply ==
    LET i == poll.item IN
    /\ poll.at = "fetched"
    /\ \/ poll.pr = "merged" /\ PollMove(i, "Completed", "Done")
       \/ poll.pr = "closed" /\ PollMove(i, "Cancelled", "Cancelled")
       \/ /\ poll.pr = "open"
          /\ poll' = NoCandidate
          /\ UNCHANGED <<rows, lease, walk, registry, req, prState, crashes>>
       \/ /\ poll.pr = "open" /\ "change" \in Request /\ i \in Solo
          /\ PollMove(i, "InProgress", "InProgress")

\* Mutant: the change tasks are inserted and the epic stays InReview.
PollSpawnNoFlip ==
    /\ poll.at = "fetched" /\ poll.pr = "open" /\ "change" \in Request
    /\ \E t \in ChangeTask :
        /\ Parent[t] = poll.item
        /\ tstatus[t] = "Absent"
        /\ tstatus' = [tstatus EXCEPT ![t] = "Todo"]
    /\ poll' = NoCandidate
    /\ UNCHANGED <<estatus, prRow, lease, walk, registry, req, prState,
                   crashes>>

\* spawn_epic_change_tasks inserts the tasks without re-reading the epic ...
PollSpawn ==
    /\ poll.at = "fetched" /\ poll.pr = "open" /\ "change" \in Request
    /\ \E t \in ChangeTask :
        /\ Parent[t] = poll.item
        /\ tstatus[t] = "Absent"
        /\ tstatus' = [tstatus EXCEPT ![t] = "Todo"]
    /\ poll' = [poll EXCEPT !.at = "flip"]
    /\ UNCHANGED <<estatus, prRow, lease, walk, registry, req, prState,
                   crashes>>

\* ... and then moves the epic back to InProgress, if it is still InReview.
PollFlip ==
    /\ poll.at = "flip"
    /\ PollMove(poll.item, "InProgress", "InProgress")

-----------------------------------------------------------------------------
WorkerLoop(w) ==
    \/ ClaimEpic(w) \/ NoEpicToClaim(w) \/ ClaimTask(w) \/ NothingToClaim(w)
    \/ ResetOrphans(w) \/ Leave(w)

Body(w) ==
    \/ Enter(w) \/ Provision(w) \/ Preflight(w) \/ DagStep(w) \/ StartTask(w)
    \/ LaunchFails(w) \/ LaunchStage(w) \/ SkipSummary(w) \/ StageOk(w)
    \/ StageRepeats(w) \/ StageFails(w) \/ StageCancelled(w) \/ StageTimeout(w)
    \/ MarkDone(w) \/ SummaryEnds(w) \/ Push(w) \/ OpenPr(w) \/ PersistEpic(w)
    \/ PersistTask(w) \/ FailTask(w) \/ BlockEpic(w) \/ TriagePush(w)

Beat(w) == Renew(w) \/ FenceKill(w) \/ FenceMark(w)

\* A request that has been accepted runs to its end.
HandlerStep(h) ==
    SetLaneWrite(h) \/ SetLaneKill(h) \/ SetLaneClear(h) \/ RetryUnblock(h)

NewRequest ==
    \/ \E h \in Handler, e \in Epic, l \in Request \cap Lane :
         SetLaneRead(h, e, l)
    \/ "retry" \in Request /\ \E h \in Handler, t \in Task : RetryTask(h, t)
    \/ "run" \in Request /\ \E s \in Solo : RunTask(s)
    \/ \E t \in Task, to \in PatchTo : PatchTask(t, to)

Reviewer ==
    \/ "merge" \in Request /\ \E i \in Item : HostDecides(i, "merged")
    \/ "close" \in Request /\ \E i \in Item : HostDecides(i, "closed")

PollStep == PollApply \/ PollSpawn \/ PollFlip

Next ==
    \/ \E w \in Worker : WorkerLoop(w) \/ Body(w) \/ Beat(w) \/ BodyPanics(w)
    \/ \E i \in Item : Lapse(i)
    \/ CrashAndBoot
    \/ \E h \in Handler : HandlerStep(h)
    \/ NewRequest
    \/ Reviewer
    \/ \E i \in Item : PollFetch(i)
    \/ PollStep

Spec == Init /\ [][Next]_vars

\* The runtime drives every spawned task: a worker loop polls at least every
\* poll interval, a body's awaits all end (agent stages by their timeout), the
\* heartbeat ticks, an accepted request is served and the poller goes on.
\* Nothing is assumed of humans, of the host's users or of the faults.
Fairness ==
    /\ \A w \in Worker : /\ WF_vars(WorkerLoop(w))
                         /\ WF_vars(Body(w))
                         /\ WF_vars(Beat(w))
    /\ \A h \in Handler : WF_vars(HandlerStep(h))
    /\ \A i \in Item : WF_vars(PollFetch(i))
    /\ WF_vars(PollStep)

FairSpec == Spec /\ Fairness

-----------------------------------------------------------------------------
(***************************************************************************)
(* What the pool promises.                                                 *)
(***************************************************************************)

\* Lease is what the pool implements: the status writes of all actors are its
\* environment, and every claim, renewal, fence-out and release is one of its.
Leases == INSTANCE Lease WITH
    runnable <- {i \in Item : Running(i)},
    walking <- [w \in Worker |-> walk[w].item],
    lost <- [w \in Worker |-> walk[w].lost]

ImplementsLease == Leases!Spec

\* A handle in the cancel registry always belongs to a stage that is running
\* on that item: no cancel, timeout or fence-out can reach an agent of a walk
\* that has moved on to another item.
RegistrySound ==
    \A i \in Item : registry[i] # NoWorker =>
        InStage(registry[i]) /\ walk[registry[i]].item = i

\* No two agents work on one item at a time.
OneStagePerItem ==
    \A v, w \in Worker :
        InStage(v) /\ InStage(w) /\ walk[v].item = walk[w].item => v = w

\* A pull request is recorded only for a branch that has one, and a standalone
\* task awaits its review only when it is recorded.
PrRowSound ==
    /\ \A i \in prRow : prState[i] # "none"
    /\ \A s \in Solo : tstatus[s] = "InReview" => s \in prRow

\* A standalone task that is run does not stop half way, not even when a human
\* writes another status under its walk: it reaches its review, Failed, the Todo
\* it can be run again from, or the Cancelled that the human gave it.
SoloSettles ==
    \A s \in Solo : tstatus[s] = "InProgress" ~>
        tstatus[s] \in {"InReview", "Failed", "Todo", "Cancelled"}

=============================================================================
