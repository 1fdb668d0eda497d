----------------------------- MODULE ReviewPoll -----------------------------
(***************************************************************************)
(* The feedback lifecycle of review_poll.rs: one sequential poller that    *)
(* reads the pull requests of the items in review, closes the loop on      *)
(* change work that landed, and triages new comments into replies or into  *)
(* work handed back to the executor.                                       *)
(*                                                                         *)
(* A step is one SQL statement, one call of the git host or one agent run. *)
(* The executor is reduced to what the poller can see of it: a walk claims *)
(* an InProgress item, commits or not for each task, and pushes before it  *)
(* writes InReview (Executor has the walk itself).  A comment of the host  *)
(* is in scope or not for good; the order within a fetched list is free.   *)
(***************************************************************************)
EXTENDS Naturals, FiniteSets, Sequences

CONSTANTS
    Epic, Solo,   \* epics, and standalone tasks, each with a recorded pull request
    Comment,      \* what humans may write: reviews, inline and top-level comments
    On,           \* the item whose pull request each comment is written on
    Kind,         \* its FeedbackKind
    Threaded,     \* the inline comments whose review thread the host reports
    PrNumber,     \* pr_number of each item
    NoSha, NoItem,
    Faults,       \* what may go wrong: "host", "git", "walk", "crash", "cancel"
    Decision,     \* what becomes of a pull request: "merged", "closed"
    MaxSpecs,     \* bound: tasks named by one change
    MaxTriages,   \* bound: triage runs that classify their comment
    MaxFaults     \* bound: how much goes wrong in a behaviour

Item == Epic \cup Solo
FeedbackKind == {"review", "review_comment", "issue_comment"}

ASSUME ReviewPollAssumption ==
    /\ Epic \cap Solo = {}
    /\ NoItem \notin Item
    /\ NoSha \notin Nat
    /\ Comment \cap Nat = {}
    /\ On \in [Comment -> Item]
    /\ Kind \in [Comment -> FeedbackKind]
    /\ Threaded \subseteq {c \in Comment : Kind[c] = "review_comment"}
    /\ PrNumber \in [Item -> Nat]
    /\ MaxSpecs \in Nat \ {0}
    /\ MaxTriages \in Nat
    /\ MaxFaults \in Nat

VARIABLES
    \* the git host
    pr,           \* per item: its pull request is open, merged or closed
    head,         \* per item: commits on the pull request's branch
    said,         \* the comments humans have written so far
    posts,        \* what Dearborn has posted, in order: an id is an index
    resolved,     \* the comments whose thread is resolved
    \* the database
    status,       \* epic.status, and task.status of a standalone task
    tasks,        \* the change tasks, in order of creation
    feedback,     \* pr_feedback: a row per comment id, "our_post" rows apart
    ours,         \* the ids of the our_post rows
    \* the executor
    walk,         \* per item: nothing, a stage at work, or past the last task
    tip,          \* per item: commits in its workspace
    workspace,    \* the items whose workspace directory exists
    \* the poller's memory
    pc, phase, batch, cur, seen, todo, at, reply, base, plan, spawned,
    triages, faults,
    crashed       \* "yes" once the process has died

host == <<pr, head, said, posts, resolved>>
db == <<status, tasks, feedback, ours>>
executor == <<walk, tip, workspace>>
tick == <<phase, batch>>
candidate == <<cur, seen, todo>>
item == <<at, reply, base, plan, spawned>>
memory == <<tick, candidate, item>>
counters == <<triages, faults, crashed>>
vars == <<host, db, executor, pc, memory, counters>>

-----------------------------------------------------------------------------
Fails(what) == what \in Faults /\ faults < MaxFaults /\ faults' = faults + 1

PostId == 1..Len(posts)

\* A reply to an inline comment is itself an inline comment of that review;
\* any other post is a top-level comment without the `dearborn:` prefix.
KindOf(k) == IF k \in Comment THEN Kind[k] ELSE posts[k].kind
OnOf(k) == IF k \in Comment THEN On[k] ELSE posts[k].on

Rows == DOMAIN feedback
TasksOf(i) == {k \in 1..Len(tasks) : tasks[k].epic = i}
Drained(i) == \A k \in TasksOf(i) : tasks[k].status = "Done"

\* What a function's end forgets: the locals of act_on_item or of one row, and
\* with them the candidate's.
Return(where) ==
    /\ pc' = where
    /\ at' = 0 /\ reply' = 0 /\ base' = NoSha /\ plan' = 0 /\ spawned' = {}

NextCandidate ==
    /\ Return("candidates")
    /\ cur' = NoItem /\ seen' = [state |-> "open", head |-> 0] /\ todo' = {}

Init ==
    /\ pr = [i \in Item |-> "open"]
    /\ head = [i \in Item |-> 0]
    /\ said = {} /\ posts = <<>> /\ resolved = {}
    /\ status = [i \in Item |-> "InReview"]
    /\ tasks = <<>> /\ feedback = <<>> /\ ours = {}
    /\ walk = [i \in Item |-> "none"]
    /\ tip = [i \in Item |-> 0]
    /\ workspace = Item
    /\ pc = "sleep" /\ phase = "tasks" /\ batch = {} /\ cur = NoItem
    /\ seen = [state |-> "open", head |-> 0]
    /\ todo = {} /\ at = 0 /\ reply = 0 /\ base = NoSha
    /\ plan = 0 /\ spawned = {}
    /\ triages = 0 /\ faults = 0 /\ crashed = "no"

-----------------------------------------------------------------------------
(***************************************************************************)
(* review_tick: the epics in review, then the standalone tasks in review,  *)
(* each list read once and worked through one candidate at a time.         *)
(***************************************************************************)

LoadEpics ==
    /\ pc = "sleep"
    /\ pc' = "candidates"
    /\ phase' = "epics"
    /\ batch' = {i \in Epic : status[i] = "InReview"}
    /\ UNCHANGED <<host, db, executor, candidate, item, counters>>

LoadTasks ==
    /\ pc = "candidates" /\ batch = {} /\ phase = "epics"
    /\ phase' = "tasks"
    /\ batch' = {i \in Solo : status[i] = "InReview"}
    /\ UNCHANGED <<host, db, executor, pc, candidate, item, counters>>

EndTick ==
    /\ pc = "candidates" /\ batch = {} /\ phase = "tasks"
    /\ pc' = "sleep"
    /\ UNCHANGED <<host, db, executor, memory, counters>>

\* The rows of this pull request number, of whatever project.
InProgressRows(i) ==
    {k \in Rows : /\ feedback[k].state = "in_progress"
                  /\ PrNumber[feedback[k].item] = PrNumber[i]}

\* The open arm goes on to load the rows in progress: nobody else writes them.
GetPull(i) ==
    /\ pc = "candidates" /\ i \in batch
    /\ batch' = batch \ {i}
    /\ cur' = i
    /\ seen' = [state |-> pr[i], head |-> head[i]]
    /\ IF pr[i] = "open" THEN pc' = "closing" /\ todo' = InProgressRows(i)
                         ELSE pc' = "apply" /\ UNCHANGED todo
    /\ UNCHANGED <<host, db, executor, phase, item, counters>>

GetPullFails(i) ==
    /\ pc = "candidates" /\ i \in batch
    /\ Fails("host")
    /\ batch' = batch \ {i}
    /\ UNCHANGED <<host, db, executor, pc, phase, candidate, item, triages, crashed>>

\* Mutant: only a closed pull request ends the review.
ApplyPullStateClosedOnly ==
    LET moves == status[cur] = "InReview" /\ seen.state = "closed" IN
    /\ pc = "apply"
    /\ status' = IF moves THEN [status EXCEPT ![cur] = "Cancelled"] ELSE status
    /\ IF moves THEN pc' = "delete" /\ UNCHANGED <<candidate, item>>
                ELSE NextCandidate
    /\ UNCHANGED <<host, tasks, feedback, ours, executor, tick, counters>>

\* Merged or closed: the move is conditional on the item still being in review.
ApplyPullState ==
    LET final == IF seen.state = "closed" THEN "Cancelled"
                 ELSE IF cur \in Epic THEN "Completed" ELSE "Done"
        moves == status[cur] = "InReview"
    IN
    /\ pc = "apply"
    /\ status' = IF moves THEN [status EXCEPT ![cur] = final] ELSE status
    /\ IF moves THEN pc' = "delete" /\ UNCHANGED <<candidate, item>>
                ELSE NextCandidate
    /\ UNCHANGED <<host, tasks, feedback, ours, executor, tick, counters>>

DeleteWorkspace ==
    /\ pc = "delete"
    /\ workspace' = workspace \ {cur}
    /\ NextCandidate
    /\ UNCHANGED <<host, db, walk, tip, tick, counters>>

-----------------------------------------------------------------------------
(***************************************************************************)
(* close_the_loop: each row in progress against the head that get_pull     *)
(* returned.                                                               *)
(***************************************************************************)

WorkComplete(row) ==
    IF row.item \in Solo
    THEN status[row.item] = "InReview"
    ELSE row.spawned # {} /\ \A t \in row.spawned : tasks[t].status = "Done"

\* Mutant: the comparison is the wrong way round.
LandedUnmoved(row) ==
    /\ WorkComplete(row)
    /\ row.base # NoSha
    /\ seen.head = row.base

\* The work is complete and the head at hand is not the commit at which it was
\* picked up.  The head is the candidate's: another item's is another commit.
Landed(row) ==
    /\ WorkComplete(row)
    /\ row.base # NoSha
    /\ seen.head # row.base \/ row.item # cur

\* Mutant: the work is complete, so the row is closed, whatever the head is.
CheckRowIgnoresHead(k) ==
    /\ pc = "closing" /\ k \in todo
    /\ todo' = todo \ {k}
    /\ IF WorkComplete(feedback[k]) THEN at' = k /\ pc' = "postClosing"
                                    ELSE UNCHANGED <<at, pc>>
    /\ UNCHANGED <<host, db, executor, tick, cur, seen, reply, base, plan,
                   spawned, counters>>

CheckRow(k) ==
    /\ pc = "closing" /\ k \in todo
    /\ todo' = todo \ {k}
    /\ IF Landed(feedback[k]) THEN at' = k /\ pc' = "postClosing"
                              ELSE UNCHANGED <<at, pc>>
    /\ UNCHANGED <<host, db, executor, tick, cur, seen, reply, base, plan,
                   spawned, counters>>

\* A reply goes to the candidate's pull request; an inline one to the thread.
Post ==
    /\ posts' = Append(posts, [re |-> at, on |-> cur,
                               kind |-> IF KindOf(at) = "review_comment"
                                        THEN "review_comment"
                                        ELSE "issue_comment"])
    /\ reply' = Len(posts) + 1

\* Resolving the thread is best effort: a failure changes nothing else.
Resolve ==
    \/ /\ resolved' = IF at \in Threaded THEN resolved \cup {at} ELSE resolved
       /\ UNCHANGED faults
    \/ at \in Threaded /\ Fails("host") /\ UNCHANGED resolved

PostClosing ==
    /\ pc = "postClosing"
    /\ Post
    /\ Resolve
    /\ pc' = "markAddressed"
    /\ UNCHANGED <<pr, head, said, db, executor, tick, candidate, at, base,
                   plan, spawned, triages, crashed>>

PostClosingFails ==
    /\ pc = "postClosing" /\ Fails("host")
    /\ Return("closing")
    /\ UNCHANGED <<host, db, executor, tick, candidate, triages, crashed>>

MarkAddressed ==
    /\ pc = "markAddressed"
    /\ feedback' = IF feedback[at].state = "in_progress"
                   THEN [feedback EXCEPT ![at].state = "addressed"]
                   ELSE feedback
    /\ pc' = "recordClosing"
    /\ UNCHANGED <<host, status, tasks, ours, executor, memory, counters>>

RecordClosing ==
    /\ pc = "recordClosing"
    /\ ours' = ours \cup {reply}
    /\ Return("closing")
    /\ UNCHANGED <<host, status, tasks, feedback, executor, tick, candidate,
                   counters>>

-----------------------------------------------------------------------------
(***************************************************************************)
(* fetch_actionable: what the host lists, less our own posts, the handled  *)
(* rows and the resolved threads.  A row in progress is not left out.      *)
(***************************************************************************)

Settled == {"handled_reply", "addressed"}

\* Mutant: only answered questions are left out.
ActionableAgain(i) ==
    {k \in said \cup PostId :
        /\ OnOf(k) = i
        /\ k \in PostId => KindOf(k) = "review_comment"
        /\ k \notin resolved /\ k \notin ours
        /\ ~(k \in Rows /\ feedback[k].state = "handled_reply")}

Actionable(i) ==
    {k \in said \cup PostId :
        /\ OnOf(k) = i
        /\ k \in PostId => KindOf(k) = "review_comment"
        /\ k \notin resolved /\ k \notin ours
        /\ ~(k \in Rows /\ feedback[k].state \in Settled)}

FetchActionable ==
    /\ pc = "closing" /\ todo = {}
    /\ todo' = Actionable(cur)
    /\ pc' = "items"
    /\ UNCHANGED <<host, db, executor, tick, cur, seen, item, counters>>

FetchFails ==
    /\ pc = "closing" /\ todo = {} /\ Fails("host")
    /\ NextCandidate
    /\ UNCHANGED <<host, db, executor, tick, triages, crashed>>

EndCandidate ==
    /\ pc = "items" /\ todo = {}
    /\ NextCandidate
    /\ UNCHANGED <<host, db, executor, tick, counters>>

-----------------------------------------------------------------------------
(***************************************************************************)
(* act_on_item: one triage run per item of the fetched list, then a reply  *)
(* or change work.  A failed or unreadable triage leaves no trace.         *)
(***************************************************************************)

Triage(k) ==
    /\ pc = "items" /\ k \in todo
    /\ todo' = todo \ {k}
    /\ at' = k
    /\ pc' = "triage"
    /\ UNCHANGED <<host, db, executor, tick, cur, seen, reply, base, plan,
                   spawned, counters>>

TriageNone ==
    /\ pc = "triage"
    /\ Return("items")
    /\ UNCHANGED <<host, db, executor, tick, candidate, counters>>

TriageQuestion ==
    /\ pc = "triage" /\ triages < MaxTriages
    /\ triages' = triages + 1
    /\ pc' = "answer"
    /\ UNCHANGED <<host, db, executor, memory, faults, crashed>>

\* A change names at least one task; a standalone task ignores the names.
TriageChange(n) ==
    /\ pc = "triage" /\ triages < MaxTriages
    /\ triages' = triages + 1
    /\ plan' = IF cur \in Epic THEN n ELSE 0
    /\ pc' = "interim"
    /\ UNCHANGED <<host, db, executor, tick, candidate, at, reply, base,
                   spawned, faults, crashed>>

PostAnswer ==
    /\ pc = "answer"
    /\ Post
    /\ Resolve
    /\ pc' = "recordHandled"
    /\ UNCHANGED <<pr, head, said, db, executor, tick, candidate, at, base,
                   plan, spawned, triages, crashed>>

PostAnswerFails ==
    /\ pc = "answer" /\ Fails("host")
    /\ Return("items")
    /\ UNCHANGED <<host, db, executor, tick, candidate, triages, crashed>>

\* INSERT OR IGNORE: the row of a comment that already has one stays.
InsertRow(row) ==
    feedback' = IF at \in Rows THEN feedback
                ELSE [k \in Rows \cup {at} |-> IF k = at THEN row ELSE feedback[k]]

RecordHandled ==
    /\ pc = "recordHandled"
    /\ InsertRow([item |-> cur, state |-> "handled_reply",
                  base |-> NoSha, spawned |-> {}])
    /\ pc' = "recordReply"
    /\ UNCHANGED <<host, status, tasks, ours, executor, memory, counters>>

\* Mutant: the reply's id is never stored.
RecordReplyForgets ==
    /\ pc = "recordReply"
    /\ Return("items")
    /\ UNCHANGED <<host, db, executor, tick, candidate, counters>>

RecordReply ==
    /\ pc = "recordReply"
    /\ ours' = IF reply = 0 THEN ours ELSE ours \cup {reply}
    /\ Return("items")
    /\ UNCHANGED <<host, status, tasks, feedback, executor, tick, candidate,
                   counters>>

-----------------------------------------------------------------------------
(***************************************************************************)
(* handle_change: the interim reply, the base commit, and then the work.   *)
(***************************************************************************)

PostInterim ==
    /\ pc = "interim"
    /\ \/ Post /\ UNCHANGED faults
       \/ Fails("host") /\ UNCHANGED <<posts, reply>>
    /\ pc' = "base"
    /\ UNCHANGED <<pr, head, said, resolved, db, executor, tick, candidate, at,
                   base, plan, spawned, triages, crashed>>

CaptureBase ==
    /\ pc = "base"
    /\ \/ cur \in workspace /\ base' = tip[cur] /\ UNCHANGED faults
       \/ cur \notin workspace /\ base' = NoSha /\ UNCHANGED faults
       \/ Fails("git") /\ base' = NoSha
    /\ pc' = IF cur \in Epic THEN "spawn" ELSE "amend"
    /\ UNCHANGED <<host, db, executor, tick, candidate, at, reply, plan,
                   spawned, triages, crashed>>

\* One INSERT per named task: the executor sees each as soon as it is there.
CreateTask ==
    /\ pc = "spawn" /\ plan > 0
    /\ tasks' = Append(tasks, [epic |-> cur, status |-> "Todo"])
    /\ spawned' = spawned \cup {Len(tasks) + 1}
    /\ plan' = plan - 1
    /\ UNCHANGED <<host, status, feedback, ours, executor, pc, tick, candidate,
                   at, reply, base, counters>>

RecordChange ==
    /\ \/ pc = "spawn" /\ plan = 0 /\ pc' = "flip"
       \/ pc = "recordSolo" /\ pc' = "recordReply"
    /\ InsertRow([item |-> cur, state |-> "in_progress",
                  base |-> base, spawned |-> spawned])
    /\ UNCHANGED <<host, status, tasks, ours, executor, memory, counters>>

FlipEpic ==
    /\ pc = "flip"
    /\ status' = IF status[cur] = "InReview"
                 THEN [status EXCEPT ![cur] = "InProgress"] ELSE status
    /\ pc' = "recordReply"
    /\ UNCHANGED <<host, tasks, feedback, ours, executor, memory, counters>>

\* A standalone task moves first and is recorded only if it moved.
AmendTask ==
    LET moves == status[cur] = "InReview" IN
    /\ pc = "amend"
    /\ status' = IF moves THEN [status EXCEPT ![cur] = "InProgress"] ELSE status
    /\ pc' = IF moves THEN "recordSolo" ELSE "recordReply"
    /\ UNCHANGED <<host, tasks, feedback, ours, executor, memory, counters>>

-----------------------------------------------------------------------------
(***************************************************************************)
(* What happens around the poller: the executor's walks, and the humans.   *)
(***************************************************************************)

ClaimItem(i) ==
    /\ status[i] = "InProgress" /\ walk[i] = "none"
    /\ walk' = [walk EXCEPT ![i] = "working"]
    /\ workspace' = workspace \cup {i}
    /\ UNCHANGED <<host, db, tip, pc, memory, counters>>

\* A task may be found complete with nothing to commit.
Commits(i) == \/ tip' = [tip EXCEPT ![i] = @ + 1]
              \/ tip' = tip

WorkTask(i, k) ==
    /\ walk[i] = "working" /\ status[i] = "InProgress"
    /\ k \in TasksOf(i) /\ tasks[k].status = "Todo"
    /\ tasks' = [tasks EXCEPT ![k].status = "Done"]
    /\ Commits(i)
    /\ UNCHANGED <<host, status, feedback, ours, walk, workspace, pc, memory,
                   counters>>

\* The DAG was read and nothing is left; what is inserted from here on is not
\* seen by this walk.
LastTaskDone(i) ==
    /\ walk[i] = "working" /\ status[i] = "InProgress"
    /\ IF i \in Epic THEN Drained(i) /\ UNCHANGED tip ELSE Commits(i)
    /\ walk' = [walk EXCEPT ![i] = "pushing"]
    /\ UNCHANGED <<host, db, workspace, pc, memory, counters>>

PushAndReview(i) ==
    /\ walk[i] = "pushing"
    /\ head' = [head EXCEPT ![i] = tip[i]]
    /\ status' = IF status[i] = "InProgress"
                 THEN [status EXCEPT ![i] = "InReview"] ELSE status
    /\ walk' = [walk EXCEPT ![i] = "none"]
    /\ UNCHANGED <<pr, said, posts, resolved, tasks, feedback, ours, tip,
                   workspace, pc, memory, counters>>

WalkFails(i) ==
    /\ walk[i] = "working" /\ Fails("walk")
    /\ status' = IF status[i] = "InProgress"
                 THEN [status EXCEPT ![i] = "Blocked"] ELSE status
    /\ walk' = [walk EXCEPT ![i] = "none"]
    /\ UNCHANGED <<host, tasks, feedback, ours, tip, workspace, pc, memory,
                   triages, crashed>>

WalkLeaves(i) ==
    /\ walk[i] = "working" /\ status[i] # "InProgress"
    /\ walk' = [walk EXCEPT ![i] = "none"]
    /\ UNCHANGED <<host, db, tip, workspace, pc, memory, counters>>

Retry(i) ==
    /\ status[i] = "Blocked"
    /\ status' = [status EXCEPT ![i] = "InProgress"]
    /\ UNCHANGED <<host, tasks, feedback, ours, executor, pc, memory, counters>>

CancelEpic(i) ==
    /\ i \in Epic /\ status[i] \in {"InReview", "InProgress", "Blocked"}
    /\ Fails("cancel")
    /\ status' = [status EXCEPT ![i] = "Cancelled"]
    /\ UNCHANGED <<host, tasks, feedback, ours, executor, pc, memory, triages,
                   crashed>>

Comments(c) ==
    /\ c \notin said /\ pr[On[c]] = "open"
    /\ said' = said \cup {c}
    /\ UNCHANGED <<pr, head, posts, resolved, db, executor, pc, memory, counters>>

HostDecides(i, s) ==
    /\ pr[i] = "open"
    /\ pr' = [pr EXCEPT ![i] = s]
    /\ UNCHANGED <<head, said, posts, resolved, db, executor, pc, memory, counters>>

\* The process dies: every walk and the whole tick are gone, the rows are not.
Crash ==
    /\ Fails("crash")
    /\ crashed' = "yes"
    /\ walk' = [i \in Item |-> "none"]
    /\ Return("sleep")
    /\ cur' = NoItem /\ seen' = [state |-> "open", head |-> 0] /\ todo' = {}
    /\ phase' = "tasks" /\ batch' = {}
    /\ UNCHANGED <<host, db, tip, workspace, triages>>

-----------------------------------------------------------------------------
Tick ==
    \/ LoadTasks \/ EndTick
    \/ \E i \in Item : GetPull(i) \/ GetPullFails(i)
    \/ ApplyPullState \/ DeleteWorkspace
    \/ \E k \in todo : CheckRow(k) \/ Triage(k)
    \/ PostClosing \/ PostClosingFails \/ MarkAddressed \/ RecordClosing
    \/ FetchActionable \/ FetchFails \/ EndCandidate
    \/ TriageNone \/ TriageQuestion \/ \E n \in 1..MaxSpecs : TriageChange(n)
    \/ PostAnswer \/ PostAnswerFails \/ RecordHandled \/ RecordReply
    \/ PostInterim \/ CaptureBase \/ CreateTask \/ RecordChange
    \/ FlipEpic \/ AmendTask

WalkStep(i) ==
    \/ ClaimItem(i) \/ \E k \in 1..Len(tasks) : WorkTask(i, k)
    \/ LastTaskDone(i) \/ PushAndReview(i) \/ WalkFails(i) \/ WalkLeaves(i)

Human ==
    \/ \E i \in Item : Retry(i) \/ CancelEpic(i)
    \/ \E c \in Comment : Comments(c)
    \/ \E i \in Item, s \in Decision : HostDecides(i, s)

Next == LoadEpics \/ Tick \/ (\E i \in Item : WalkStep(i)) \/ Human \/ Crash

Spec == Init /\ [][Next]_vars

\* review_loop never stops sleeping and ticking, every call it makes returns or
\* times out, and the pool polls for InProgress items.  A host that refuses
\* every call is not fair to anyone: a call that is tried again and again
\* succeeds at last.
FairSpec ==
    /\ Spec
    /\ WF_vars(LoadEpics)
    /\ WF_vars(Tick)
    /\ \A i \in Item : SF_vars(GetPull(i)) /\ WF_vars(WalkStep(i))
    /\ SF_vars(PostClosing)

-----------------------------------------------------------------------------
(***************************************************************************)
(* Properties.                                                             *)
(***************************************************************************)

\* No other item has a pull request of this number, in whatever repository.
OwnNumber(i) == \A j \in Item : PrNumber[j] = PrNumber[i] => j = i

\* "Addressed in <commit>" is the truth: an addressed row's base commit is known
\* and its own tasks are Done, and the branch of its own item moved past that
\* commit, whatever walks, pushes, failures and crashes came in between.  A row
\* is found by its pull request's number alone: where two repositories have the
\* same one, the branch that moved may be the other's.
AddressedIsLanded ==
    \A k \in Rows : feedback[k].state = "addressed" =>
        LET row == feedback[k] IN
        /\ row.base # NoSha
        /\ \A t \in row.spawned : tasks[t].status = "Done"
        /\ OwnNumber(row.item) => head[row.item] > row.base

\* Dearborn posts under its owner's account, so its own replies are told from
\* feedback by their recorded ids alone: none of them is triaged, for as long
\* as no crash falls between a post and its record.
OwnPostsLeftAlone ==
    pc = "triage" /\ crashed = "no" => at \in Comment

\* What was answered or addressed is settled for good: no later poll, walk or
\* restart triages it again, replies to it again or changes its row.
SettledForGood ==
    [][\A k \in Rows : feedback[k].state \in Settled =>
          /\ k \in DOMAIN feedback' /\ feedback'[k] = feedback[k]
          /\ \A n \in 1..Len(posts') : posts'[n].re = k => n \in PostId
          /\ pc' = "triage" => at' # k]_vars

\* A merged pull request takes its item out of review, though the poller looks
\* only at items in review, skips those the host fails on and dies at times.
MergedLeaves ==
    \A i \in Item :
        pr[i] = "merged" /\ status[i] = "InReview" ~> status[i] # "InReview"

AwaitsClosing(c) ==
    /\ c \in Rows /\ feedback[c].state = "in_progress"
    /\ feedback[c].base # NoSha /\ head[On[c]] > feedback[c].base
    /\ WorkComplete(feedback[c])

Closed(c) ==
    \/ c \in Rows /\ feedback[c].state = "addressed"
    \/ pr[On[c]] # "open" \/ status[On[c]] \in {"Cancelled", "Blocked"}

\* Change work that landed gets its closing reply: a row in progress whose work
\* is complete and whose branch moved is addressed, unless the pull request is
\* decided or the item given up first.
LandedIsAddressed ==
    \A c \in Comment : AwaitsClosing(c) ~> Closed(c)

=============================================================================
