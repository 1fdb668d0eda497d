------------------------------ MODULE TaskDag ------------------------------
(***************************************************************************)
(* The task graph of one epic while it is being planned: the handlers of   *)
(* tasks.rs that insert, link, unlink and delete, and the breakdown run of *)
(* breakdown.rs, whose agent uses two of them through the CLI.             *)
(*                                                                         *)
(* A step is one SQL statement.  The walk over the edges that looks for a  *)
(* cycle is one read; the insert that follows it is another step.  Foreign *)
(* keys are on: an edge needs both tasks, and a task with an edge cannot   *)
(* be deleted.                                                             *)
(***************************************************************************)
EXTENDS Naturals, FiniteSets

CONSTANTS
    Task,         \* task ids that may be drawn
    Handler,      \* requests of signed-in users that may be in progress at once
    Agent,        \* the CLI calls of the breakdown agent: one at a time
    NoTask,
    HumanOps,     \* what users ask for: "create", "link", "unlink", "delete",
                  \* "breakdown", "cancel", "reopen"
    Faults,       \* what may go wrong, each once: "db", "lock", "agentDies", "crash"
    MaxFaults,    \* bound: how many of them in a behaviour
    MaxRuns,      \* bound: breakdown runs
    MaxAsks       \* bound: requests of users

Caller == Handler \cup {Agent}
Human == MaxRuns + 1     \* as the author of a task; a run is its number

ASSUME TaskDagAssumption ==
    /\ Agent \notin Handler
    /\ NoTask \notin Task
    /\ {MaxFaults, MaxRuns, MaxAsks} \subseteq Nat

VARIABLES
    epic,         \* epic.status: Planning, Ready or Cancelled
    clear,        \* "yes" while the map has no open node and no fog
    rows,         \* the tasks of the epic
    by,           \* who inserted each task: Human, a run, or 0 for nobody yet
    deps,         \* task_dependency: <<blocker, blocked>>
    call,         \* per caller: the request it is in the middle of
    inflight,     \* "yes" while the epic's run lock is held
    run,          \* the breakdown run: its phase and what it remembers
    runs,         \* breakdown runs so far
    asks,         \* requests of users so far
    hurt,         \* what has gone wrong so far
    races         \* the races so far that end badly: "links", "tied"

graph == <<rows, by, deps>>
counters == <<runs, hurt>>
vars == <<epic, clear, graph, call, inflight, run, counters, asks, races>>

-----------------------------------------------------------------------------
Closed(edges, S) == \A e \in edges : e[1] \in S => e[2] \in S

\* Everything the edges lead to from a task, itself included: the visited set
\* of the walk is the smallest that the edges do not leave.
Reach(edges, from) ==
    {t \in Task : \A S \in SUBSET Task : from \in S /\ Closed(edges, S) => t \in S}

\* Mutant: the walk starts at the blocker and looks for the blocked task.
WouldCycleBackwards(blocker, blocked) == blocked \in Reach(deps, blocker)

would_create_cycle(blocker, blocked) == blocker \in Reach(deps, blocked)

Fails(what) ==
    /\ what \in Faults \ hurt /\ Cardinality(hurt) < MaxFaults
    /\ hurt' = hurt \cup {what}

NoCall == [pc |-> "idle", op |-> "none", task |-> NoTask, blocked |-> NoTask]
NoRun == [pc |-> "none", pre |-> {}, failed |-> "no", left |-> {}, at |-> NoTask]

Init ==
    /\ epic = "Planning" /\ clear = "yes"
    /\ rows = {} /\ by = [t \in Task |-> 0] /\ deps = {}
    /\ call = [c \in Caller |-> NoCall]
    /\ inflight = "no" /\ run = NoRun
    /\ runs = 0 /\ asks = 0 /\ hurt = {} /\ races = {}

-----------------------------------------------------------------------------
(***************************************************************************)
(* The handlers.  An answer that is not a success ends the request where   *)
(* it stands; what was written before it stays.                            *)
(***************************************************************************)

May(c, op) == IF c = Agent THEN run.pc = "running" /\ op \in {"create", "link"}
                           ELSE op \in HumanOps

\* A request of a user; what the agent asks is bounded by its tasks.
Asks(c) == IF c = Agent THEN UNCHANGED asks ELSE asks < MaxAsks /\ asks' = asks + 1

Done(c) == call' = [call EXCEPT ![c] = NoCall]

\* The agent's failed calls are remembered by the run that drains its events.
Rejected(c) ==
    /\ Done(c)
    /\ run' = IF c = Agent THEN [run EXCEPT !.failed = "yes"] ELSE run

\* POST /epics/{id}/tasks, with at most one task it blocks.
CreateTask(c, t, blocked) ==
    /\ call[c].pc = "idle" /\ May(c, "create")
    /\ blocked = NoTask \/ (blocked \in rows /\ May(c, "link"))
    /\ t \in Task \ rows /\ by[t] = 0
    /\ rows' = rows \cup {t}
    /\ by' = [by EXCEPT ![t] = IF c = Agent THEN runs ELSE Human]
    /\ call' = IF blocked = NoTask THEN call
               ELSE [call EXCEPT ![c] = [pc |-> "check", op |-> "create",
                                         task |-> t, blocked |-> blocked]]
    /\ Asks(c)
    /\ UNCHANGED <<epic, clear, deps, inflight, run, counters, races>>

\* A call that fails before it writes anything: a locked database, say.
CallFails(c) ==
    /\ call[c].pc = "idle"
    /\ May(c, "create") \/ May(c, "link")
    /\ Fails("db")
    /\ Rejected(c)
    /\ UNCHANGED <<epic, clear, graph, inflight, runs, asks, races>>

PostDependency(c, a, b) ==
    /\ call[c].pc = "idle" /\ May(c, "link")
    /\ a \in rows /\ b \in rows
    /\ call' = [call EXCEPT ![c] = [pc |-> "check", op |-> "link",
                                    task |-> a, blocked |-> b]]
    /\ Asks(c)
    /\ UNCHANGED <<epic, clear, graph, inflight, run, counters, races>>

\* link_dependency up to its INSERT: self-edge, both tasks there, no cycle.
LinkCheck(c) ==
    LET a == call[c].task
        b == call[c].blocked
        fits == a # b /\ a \in rows /\ b \in rows /\ ~would_create_cycle(a, b)
    IN
    /\ call[c].pc = "check"
    /\ IF fits THEN call' = [call EXCEPT ![c].pc = "insert"] /\ UNCHANGED run
               ELSE Rejected(c)
    /\ UNCHANGED <<epic, clear, graph, inflight, counters, asks, races>>

\* What nothing prevents: an edge that is inserted between the check and the
\* INSERT of another, or tied to a task between the two statements of the
\* rollback that deletes it.
Overtakes(c) == \E d \in Caller \ {c} : call[d].pc = "insert"
TiesDoomed(a, b) == run.pc = "deletingRow" /\ run.at \in {a, b}

LinkInsert(c) ==
    LET a == call[c].task
        b == call[c].blocked
    IN
    /\ call[c].pc = "insert"
    /\ IF a \in rows /\ b \in rows
       THEN /\ deps' = deps \cup {<<a, b>>}
            /\ races' = races \cup {x \in {"links"} : Overtakes(c)}
                             \cup {x \in {"tied"} : TiesDoomed(a, b)}
            /\ Done(c) /\ UNCHANGED run
       ELSE UNCHANGED <<deps, races>> /\ Rejected(c)
    /\ UNCHANGED <<epic, clear, rows, by, inflight, counters, asks>>

Unlink(h, e) ==
    /\ call[h].pc = "idle" /\ May(h, "unlink")
    /\ e \in deps
    /\ deps' = deps \ {e}
    /\ Asks(h)
    /\ UNCHANGED <<epic, clear, rows, by, call, inflight, run, counters, races>>

EdgesOf(t) == {e \in deps : t \in {e[1], e[2]}}

\* delete_task: the edges, and by a second statement the task.
DeleteEdges(h, t) ==
    /\ call[h].pc = "idle" /\ May(h, "delete") /\ t \in rows
    /\ deps' = deps \ EdgesOf(t)
    /\ call' = [call EXCEPT ![h] = [pc |-> "delete", op |-> "delete",
                                    task |-> t, blocked |-> NoTask]]
    /\ Asks(h)
    /\ UNCHANGED <<epic, clear, rows, by, inflight, run, counters, races>>

DeleteRow(h) ==
    LET t == call[h].task IN
    /\ call[h].pc = "delete"
    /\ rows' = IF EdgesOf(t) = {} THEN rows \ {t} ELSE rows
    /\ Done(h)
    /\ UNCHANGED <<epic, clear, by, deps, inflight, run, counters, asks, races>>

-----------------------------------------------------------------------------
(***************************************************************************)
(* trigger_breakdown: the status and the map are read before the run lock  *)
(* is taken.                                                               *)
(***************************************************************************)

TriggerRead(h) ==
    /\ call[h].pc = "idle" /\ May(h, "breakdown") /\ runs < MaxRuns
    /\ epic = "Planning" /\ clear = "yes"
    /\ call' = [call EXCEPT ![h] = [NoCall EXCEPT !.pc = "acquire",
                                                  !.op = "breakdown"]]
    /\ Asks(h)
    /\ UNCHANGED <<epic, clear, graph, inflight, run, counters, races>>

TriggerAcquire(h) ==
    /\ call[h].pc = "acquire"
    /\ Done(h)
    /\ IF inflight = "no" /\ runs < MaxRuns
       THEN /\ inflight' = "yes"
            /\ run' = [NoRun EXCEPT !.pc = "start"]
            /\ runs' = runs + 1
       ELSE UNCHANGED <<inflight, run, runs>>
    /\ UNCHANGED <<epic, clear, graph, hurt, asks, races>>

(***************************************************************************)
(* spawn_breakdown: settings, the tasks there are, the agent, the rollback *)
(* if a call failed, and the move to Ready if none did.                    *)
(***************************************************************************)

Idle == run' = NoRun /\ inflight' = "no"

SettingsFail ==
    /\ run.pc = "start" /\ Fails("db")
    /\ Idle
    /\ UNCHANGED <<epic, clear, graph, call, runs, asks, races>>

SnapshotTasks ==
    /\ run.pc = "start"
    /\ run' = [run EXCEPT !.pc = "running", !.pre = rows]
    /\ UNCHANGED <<epic, clear, graph, call, inflight, counters, asks, races>>

\* Mutant: the calls that failed are only logged.
AgentExitsContent ==
    /\ run.pc = "running"
    /\ call[Agent].pc = "idle"
    /\ run' = [run EXCEPT !.pc = "ready"]
    /\ UNCHANGED <<epic, clear, graph, call, inflight, counters, asks, races>>

AgentExits ==
    /\ run.pc = "running"
    /\ call[Agent].pc = "idle"
    /\ run' = [run EXCEPT !.pc = IF run.failed = "yes" THEN "rollback" ELSE "ready"]
    /\ UNCHANGED <<epic, clear, graph, call, inflight, counters, asks, races>>

\* The agent's process dies: what the server is doing for it goes on, and the
\* run sees the end of the events as it sees a regular one.
AgentDies ==
    /\ run.pc = "running" /\ Fails("agentDies")
    /\ run' = [run EXCEPT !.pc = IF run.failed = "yes" THEN "rollback" ELSE "ready"]
    /\ UNCHANGED <<epic, clear, graph, call, inflight, runs, asks, races>>

\* rollback_partial_dag: whatever is there now and was not there before.
RollbackList ==
    /\ run.pc = "rollback"
    /\ run' = [run EXCEPT !.pc = "deleting", !.left = rows \ run.pre]
    /\ UNCHANGED <<epic, clear, graph, call, inflight, counters, asks, races>>

RollbackEdges(t) ==
    /\ run.pc = "deleting" /\ t \in run.left
    /\ deps' = deps \ EdgesOf(t)
    /\ run' = [run EXCEPT !.pc = "deletingRow", !.left = @ \ {t}, !.at = t]
    /\ UNCHANGED <<epic, clear, rows, by, call, inflight, counters, asks, races>>

\* Mutant: the rollback removes the edges and forgets the tasks.
RollbackRowForgets ==
    /\ run.pc = "deletingRow"
    /\ run' = [run EXCEPT !.pc = "deleting"]
    /\ UNCHANGED <<epic, clear, graph, call, inflight, counters, asks, races>>

RollbackRow ==
    /\ run.pc = "deletingRow"
    /\ rows' = IF EdgesOf(run.at) = {} THEN rows \ {run.at} ELSE rows
    /\ run' = [run EXCEPT !.pc = "deleting"]
    /\ UNCHANGED <<epic, clear, by, deps, call, inflight, counters, asks, races>>

\* A delete that fails is logged, and the rollback goes on to the next task.
RollbackFails(t) ==
    /\ run.pc = "deleting" /\ t \in run.left
    /\ Fails("lock")
    /\ run' = [run EXCEPT !.left = @ \ {t}]
    /\ UNCHANGED <<epic, clear, graph, call, inflight, runs, asks, races>>

RollbackEnds ==
    /\ run.pc = "deleting" /\ run.left = {}
    /\ Idle
    /\ UNCHANGED <<epic, clear, graph, call, counters, asks, races>>

MoveToReady ==
    /\ run.pc = "ready"
    /\ epic' = IF epic = "Planning" THEN "Ready" ELSE epic
    /\ Idle
    /\ UNCHANGED <<clear, graph, call, counters, asks, races>>

-----------------------------------------------------------------------------
CancelEpic ==
    /\ "cancel" \in HumanOps /\ epic \in {"Planning", "Ready"}
    /\ epic' = "Cancelled"
    /\ Asks(Human)
    /\ UNCHANGED <<clear, graph, call, inflight, run, counters, races>>

\* A node or fog is added to the map, or its last one is settled.
MapChanges ==
    /\ "reopen" \in HumanOps
    /\ clear' = IF clear = "yes" THEN "no" ELSE "yes"
    /\ Asks(Human)
    /\ UNCHANGED <<epic, graph, call, inflight, run, counters, races>>

\* Locks, requests and the run live in memory; a dead run is not resumed.
Crash ==
    /\ Fails("crash")
    /\ call' = [c \in Caller |-> NoCall]
    /\ Idle
    /\ UNCHANGED <<epic, clear, graph, runs, asks, races>>

Next ==
    \/ \E c \in Caller :
         \/ \E t \in Task, b \in rows \cup {NoTask} : CreateTask(c, t, b)
         \/ \E a, b \in rows : PostDependency(c, a, b)
         \/ CallFails(c) \/ LinkCheck(c) \/ LinkInsert(c)
    \/ \E h \in Handler :
         \/ \E e \in deps : Unlink(h, e)
         \/ \E t \in rows : DeleteEdges(h, t)
         \/ DeleteRow(h) \/ TriggerRead(h) \/ TriggerAcquire(h)
    \/ SettingsFail \/ SnapshotTasks \/ AgentExits \/ AgentDies
    \/ RollbackList \/ (\E t \in run.left : RollbackEdges(t) \/ RollbackFails(t)) \/ RollbackRow
    \/ RollbackEnds \/ MoveToReady
    \/ CancelEpic \/ MapChanges \/ Crash

Spec == Init /\ [][Next]_vars

-----------------------------------------------------------------------------
(***************************************************************************)
(* Properties.                                                             *)
(***************************************************************************)

\* The graph has no cycle: some order of the tasks satisfies every edge, however
\* users and the agent link, unlink and delete, until an edge is inserted between
\* the check and the INSERT of another one.  Those are two statements without a
\* transaction, so that two callers can close a cycle together.
Acyclic == "links" \notin races => \A e \in deps : e[1] \notin Reach(deps, e[2])

\* An aborted breakdown leaves nothing of its own behind, so that it can be run
\* again without duplicates, whatever users create, link and delete meanwhile:
\* unless the process died in the middle of it, the agent died with a call on
\* its way, a delete failed, or an edge was tied to a task that the rollback
\* had just freed of its edges.
AbortIsClean ==
    epic = "Planning" /\ run.pc = "none" /\ hurt \subseteq {"db"} /\ "tied" \notin races
        => \A t \in rows : by[t] = Human

\* An epic reaches Ready with everything its agent set out to write: no call of
\* that run was rejected, and none is still on its way.
ReadyIsWhole ==
    [][epic = "Planning" /\ epic' = "Ready" /\ "agentDies" \notin hurt =>
          run.failed = "no" /\ call[Agent].pc = "idle"]_vars

=============================================================================
