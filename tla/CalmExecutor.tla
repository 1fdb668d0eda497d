---------------------------- MODULE CalmExecutor ----------------------------
(***************************************************************************)
(* Executor with the history of what has happened to each item that the    *)
(* code does not prevent: two walks working on it at a time, a lane write  *)
(* over a lane its handler never read, a Done task reopened by hand, a     *)
(* crash in the middle of the poller's insertion of change tasks.  Nothing *)
(* is forbidden: every step of Executor is a step here, and a property     *)
(* says which of the four it does not survive.                             *)
(***************************************************************************)
EXTENDS Executor

VARIABLE past   \* per item, which of the four have happened to it

Disturbance == {"shared", "stale", "reopened", "torn"}

\* Past its last write a walk only pushes the branch of a failure and leaves.
WorksOn(w, i) == walk[w].item = i /\ walk[w].pc \notin {"triage", "leave"}

Shared(i) ==
    \E v, w \in Worker : v # w /\ WorksOn(v, i) /\ WorksOn(w, i)

\* set_epic_lane writes, and the lane is not the one it read.
Stale(i) ==
    \E h \in Handler :
        req[h].epic = i /\ estatus[i] # req[h].from /\ SetLaneWrite(h)

\* PATCH takes a task of the epic out of Done.
Reopened(i) ==
    \E t \in EpicTask, to \in PatchTo :
        Parent[t] = i /\ tstatus[t] = "Done" /\ PatchTask(t, to)

\* The process dies between PollSpawn and PollFlip.
Torn(i) == poll.at = "flip" /\ poll.item = i /\ CrashAndBoot

Happens(i) ==
    (IF Shared(i)' THEN {"shared"} ELSE {}) \cup
    (IF Stale(i) THEN {"stale"} ELSE {}) \cup
    (IF Reopened(i) THEN {"reopened"} ELSE {}) \cup
    (IF Torn(i) THEN {"torn"} ELSE {})

CalmInit == Init /\ past = [i \in Item |-> {}]

CalmNext == Next /\ past' = [i \in Item |-> past[i] \cup Happens(i)]

CalmSpec == CalmInit /\ [][CalmNext]_<<vars, past>>

CalmFairSpec == CalmSpec /\ Fairness

-----------------------------------------------------------------------------
\* A running stage can be reached by the cancel of its epic, its deadline and a
\* fence-out, whatever lapses, panics or is re-enqueued, until two walks have
\* worked on its item at a time: then one's guard drops the other's entry.
StageKillable ==
    \A w \in Worker :
        InStage(w) /\ "shared" \notin past[walk[w].item] =>
            registry[walk[w].item] = w

\* No agent runs on a task whose blockers are not all Done, until two walks have
\* worked on the epic at a time or a human has taken a task of it out of Done.
DepsRespected ==
    \A w \in Worker :
        /\ walk[w].pc \in {"implement", "vet"} /\ walk[w].task \in EpicTask
        /\ past[walk[w].item] \cap {"shared", "reopened"} = {}
        => \A b \in Blockers[walk[w].task] : tstatus[b] = "Done"

\* An epic under review has a recorded pull request and no unfinished task but
\* the change tasks the poller has just inserted.  Each of the four breaks it:
\* a crash before the flip leaves the inserted tasks there for the next comment
\* to pick up, a stale Blocked over InReview lets the epic be run again under a
\* poller that has fetched it, and so on.
ReviewedIsDone ==
    \A e \in Epic : estatus[e] = "InReview" /\ past[e] = {} =>
        /\ e \in prRow
        /\ \/ \A t \in TasksOf(e) : tstatus[t] = "Done"
           \/ poll.at = "flip" /\ poll.item = e

\* Whatever crashes and whatever lanes humans choose, an InProgress epic leaves
\* that lane or shows a human the Failed task that holds it up, unless humans
\* take its tasks out of Done again and again.
EpicSettlesOrFails ==
    \A e \in Epic :
        \/ []<><<Reopened(e)>>_vars
        \/ estatus[e] = "InProgress" ~>
             \/ estatus[e] # "InProgress"
             \/ \E t \in TasksOf(e) : tstatus[t] = "Failed"

\* A cancelled epic is left alone: its walk ends and nobody claims it again,
\* unless a lane request that was read before the cancel writes after it and
\* takes the epic out of Cancelled.
CancelledIsLeft ==
    \A e \in Epic :
        estatus[e] = "Cancelled" ~>
            \/ [](\A w \in Worker : walk[w].item # e)
            \/ estatus[e] # "Cancelled" /\ "stale" \in past[e]

=============================================================================
