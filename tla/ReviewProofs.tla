---------------------------- MODULE ReviewProofs ----------------------------
(***************************************************************************)
(* Proofs about ReviewPoll, for any epics, standalone tasks, comments,     *)
(* faults and bounds: what was settled stays settled, Dearborn's own posts *)
(* are not taken for feedback, and "addressed" is the truth.               *)
(***************************************************************************)
EXTENDS ReviewPoll, TLAPS

Id == Comment \cup Nat
RowRec == [item : Item, state : {"handled_reply", "in_progress", "addressed"},
           base : Nat \cup {NoSha}, spawned : SUBSET Nat]
TaskRec == [epic : Item, status : {"Todo", "Done"}]
PostRec == [re : Id, on : Item, kind : FeedbackKind]

ClosePCs == {"closing", "postClosing", "markAddressed", "recordClosing"}
ItemPCs == {"items", "triage", "answer", "recordHandled", "recordReply", "interim",
            "base", "spawn", "flip", "amend", "recordSolo"}
PCs == {"sleep", "candidates", "apply", "delete"} \cup ClosePCs \cup ItemPCs

HostTypes ==
    /\ head \in [Item -> Nat]
    /\ said \subseteq Comment
    /\ posts \in Seq(PostRec)

RowTypes ==
    /\ status \in [Item -> {"InReview", "InProgress", "Blocked", "Cancelled",
                            "Completed", "Done"}]
    /\ tasks \in Seq(TaskRec)
    /\ feedback \in [Rows -> RowRec] /\ Rows \subseteq Id
    /\ ours \subseteq Nat

WalkTypes ==
    /\ walk \in [Item -> {"none", "working", "pushing"}]
    /\ tip \in [Item -> Nat]

MemoryTypes ==
    /\ pc \in PCs /\ batch \subseteq Item /\ cur \in Item \cup {NoItem}
    /\ seen.head \in Nat
    /\ todo \subseteq Id /\ at \in Id /\ reply \in Nat
    /\ base \in Nat \cup {NoSha} /\ plan \in Nat
    /\ spawned \subseteq 1..Len(tasks)

Types == HostTypes /\ RowTypes /\ WalkTypes /\ MemoryTypes

-----------------------------------------------------------------------------
\* A step of a walk or of a human: the poller and its rows do not move.
Outside ==
    /\ \/ \E i \in Item : WalkStep(i)
       \/ Human
    /\ UNCHANGED <<posts, feedback, ours, pc, memory, crashed>>

\* Walks and humans touch neither the poller nor its rows.
LEMMA OutsideSteps ==
  ASSUME (\E i \in Item : WalkStep(i)) \/ Human
  PROVE  Outside
  BY DEF Outside, WalkStep, Human, ClaimItem, WorkTask, LastTaskDone, PushAndReview, WalkFails,
         WalkLeaves, Retry, CancelEpic, Comments, HostDecides, host, db, executor, memory,
         tick, candidate, item, counters

\* Tasks are appended and done, never undone.
TasksGrow ==
    /\ tasks' \in Seq(TaskRec) /\ Len(tasks) <= Len(tasks')
    /\ \A k \in 1..Len(tasks) : tasks[k].status = "Done" => tasks'[k].status = "Done"

\* What the poller reads and the outside does not write.
LEMMA OutsideKeeps ==
  ASSUME Outside
  PROVE  UNCHANGED <<posts, feedback, ours, pc, batch, cur, seen, todo, at, reply, base, plan, spawned>>
  BY DEF Outside, memory, tick, candidate, item

\* A walk does one of its tasks.
LEMMA WorkTaskMoves ==
  ASSUME RowTypes, WalkTypes, NEW i \in Item, NEW k \in 1..Len(tasks), WorkTask(i, k)
  PROVE  TasksGrow /\ Len(tasks') = Len(tasks) /\ tip' \in [Item -> Nat]
  <1>1. tasks' = [tasks EXCEPT ![k].status = "Done"] /\ tasks \in Seq(TaskRec)
    BY DEF WorkTask, RowTypes
  <1>2. tasks' = [tasks EXCEPT ![k] = [tasks[k] EXCEPT !.status = "Done"]]
    BY <1>1
  <1>3. tasks[k] \in TaskRec
    BY <1>1
  <1>4. [tasks[k] EXCEPT !.status = "Done"] \in TaskRec
    BY <1>3 DEF TaskRec
  <1>5. tasks' \in Seq(TaskRec) /\ Len(tasks') = Len(tasks)
    BY <1>1, <1>2, <1>4
  <1>6. \A j \in 1..Len(tasks) : tasks[j].status = "Done" => tasks'[j].status = "Done"
    BY <1>1, <1>3 DEF TaskRec
  <1>7. tip' \in [Item -> Nat]
    BY DEF WorkTask, Commits, WalkTypes
  <1> QED BY <1>5, <1>6, <1>7 DEF TasksGrow

\* What a walk or a human may do to a branch, a workspace and the tasks.
LEMMA OutsideMoves ==
  ASSUME Types, Outside
  PROVE  Types' /\ TasksGrow
  <1> DEFINE Moved == /\ TasksGrow
                      /\ head' \in [Item -> Nat] /\ tip' \in [Item -> Nat]
                      /\ said' \subseteq Comment
                      /\ walk' \in [Item -> {"none", "working", "pushing"}]
                      /\ status' \in [Item -> {"InReview", "InProgress", "Blocked", "Cancelled",
                                               "Completed", "Done"}]
  <1>0. tasks \in Seq(TaskRec)
    BY DEF Types, RowTypes
  <1>2. ASSUME NEW i \in Item, NEW k \in 1..Len(tasks), WorkTask(i, k)
        PROVE  Moved
    <2>1. TasksGrow /\ tip' \in [Item -> Nat]
      BY <1>2, WorkTaskMoves DEF Types
    <2>2. UNCHANGED <<head, said, status, walk>>
      BY <1>2 DEF WorkTask, host
    <2> QED BY <2>1, <2>2 DEF Types, HostTypes, RowTypes, WalkTypes
  <1>3. ASSUME NEW i \in Item,
               ClaimItem(i) \/ LastTaskDone(i) \/ PushAndReview(i) \/ WalkFails(i) \/ WalkLeaves(i)
        PROVE  Moved
    <2>1. UNCHANGED <<said, tasks>>
      BY <1>3 DEF ClaimItem, LastTaskDone, PushAndReview, WalkFails, WalkLeaves, host, db
    <2>2. tip' \in [Item -> Nat]
      BY <1>3 DEF ClaimItem, LastTaskDone, PushAndReview, WalkFails, WalkLeaves, Commits,
                  Types, WalkTypes
    <2>3. head' \in [Item -> Nat]
      BY <1>3 DEF ClaimItem, LastTaskDone, PushAndReview, WalkFails, WalkLeaves, host,
                  Types, WalkTypes, HostTypes
    <2>4. walk' \in [Item -> {"none", "working", "pushing"}]
      BY <1>3 DEF ClaimItem, LastTaskDone, PushAndReview, WalkFails, WalkLeaves, Types, WalkTypes
    <2>5. status' \in [Item -> {"InReview", "InProgress", "Blocked", "Cancelled", "Completed", "Done"}]
      BY <1>3 DEF ClaimItem, LastTaskDone, PushAndReview, WalkFails, WalkLeaves, db, Types, RowTypes
    <2> QED BY <1>0, <2>1, <2>2, <2>3, <2>4, <2>5 DEF TasksGrow, Types, HostTypes
  <1>4. ASSUME Human
        PROVE  Moved
    <2>1. UNCHANGED <<head, tasks, walk, tip>>
      BY <1>4 DEF Human, Retry, CancelEpic, Comments, HostDecides, host, db, executor
    <2>2. said' \subseteq Comment
      BY <1>4 DEF Human, Retry, CancelEpic, Comments, HostDecides, host, Types, HostTypes
    <2>3. status' \in [Item -> {"InReview", "InProgress", "Blocked", "Cancelled", "Completed", "Done"}]
      BY <1>4 DEF Human, Retry, CancelEpic, Comments, HostDecides, db, Types, RowTypes
    <2>4. TasksGrow
      BY <1>0, <2>1 DEF TasksGrow
    <2> QED BY <2>1, <2>2, <2>3, <2>4 DEF Types, HostTypes, WalkTypes
  <1>5. Moved
    <2> HIDE DEF Moved
    <2> QED BY <1>2, <1>3, <1>4 DEF Outside, WalkStep
  <1>6. 1..Len(tasks) \subseteq 1..Len(tasks')
    BY <1>0, <1>5 DEF TasksGrow
  <1> QED
    BY <1>5, <1>6, OutsideKeeps
    DEF Types, HostTypes, RowTypes, WalkTypes, MemoryTypes, TasksGrow, Rows

-----------------------------------------------------------------------------
\* A post is appended, for the comment that is at work.
LEMMA PostAppends ==
  ASSUME Types, cur \in Item, Post
  PROVE  /\ posts' \in Seq(PostRec) /\ Len(posts') = Len(posts) + 1
         /\ reply' = Len(posts') /\ reply' \in Nat \ {0}
         /\ \A n \in 1..Len(posts) : posts'[n] = posts[n]
         /\ posts'[Len(posts) + 1].re = at
  <1> DEFINE p == [re |-> at, on |-> cur,
                   kind |-> IF KindOf(at) = "review_comment" THEN "review_comment" ELSE "issue_comment"]
  <1>1. p \in PostRec /\ p.re = at
    BY DEF PostRec, FeedbackKind, Types, MemoryTypes
  <1>2. posts' = Append(posts, p) /\ reply' = Len(posts) + 1 /\ posts \in Seq(PostRec)
    BY DEF Post, Types, HostTypes
  <1> HIDE DEF p
  <1> QED BY <1>1, <1>2

\* INSERT OR IGNORE keeps every row there is.
LEMMA InsertRowKeeps ==
  ASSUME Types, NEW row \in RowRec, InsertRow(row)
  PROVE  /\ feedback' \in [Rows' -> RowRec] /\ Rows' = Rows \cup {at} /\ Rows' \subseteq Id
         /\ \A k \in Rows : feedback'[k] = feedback[k]
         /\ at \notin Rows => feedback'[at] = row
  BY DEF InsertRow, Rows, Types, RowTypes, MemoryTypes

\* MarkAddressed changes the state of one row, and only of one in progress.
LEMMA MarkAddressedKeeps ==
  ASSUME Types, MarkAddressed
  PROVE  /\ feedback' \in [Rows' -> RowRec] /\ Rows' = Rows
         /\ \A k \in Rows : /\ feedback'[k].item = feedback[k].item
                            /\ feedback'[k].base = feedback[k].base
                            /\ feedback'[k].spawned = feedback[k].spawned
         /\ \A k \in Rows : \/ feedback'[k] = feedback[k]
                            \/ /\ k = at /\ feedback[k].state = "in_progress"
                               /\ feedback'[k].state = "addressed"
  <1>1. CASE at \in Rows /\ feedback[at].state = "in_progress"
    <2>1. feedback' = [feedback EXCEPT ![at].state = "addressed"] /\ feedback[at] \in RowRec
      BY <1>1 DEF MarkAddressed, Types, RowTypes
    <2>2. feedback' = [feedback EXCEPT ![at] = [feedback[at] EXCEPT !.state = "addressed"]]
      BY <2>1
    <2>3. [feedback[at] EXCEPT !.state = "addressed"] \in RowRec
      BY <2>1 DEF RowRec
    <2>4. feedback' \in [Rows -> RowRec] /\ Rows' = Rows
      BY <2>2, <2>3 DEF Types, RowTypes, Rows
    <2> QED BY <1>1, <2>1, <2>4 DEF Types, RowTypes, RowRec
  <1>2. CASE ~(at \in Rows /\ feedback[at].state = "in_progress")
    <2>1. feedback' = feedback
      BY <1>2 DEF MarkAddressed, Types, RowTypes, Rows
    <2> QED BY <2>1 DEF Types, RowTypes, Rows
  <1> QED BY <1>1, <1>2

-----------------------------------------------------------------------------
Poll == LoadEpics \/ Tick

\* Steps of the poller that write no row, post nothing and create no task.
Thinks ==
    \/ LoadEpics \/ LoadTasks \/ EndTick \/ (\E i \in Item : GetPull(i) \/ GetPullFails(i))
    \/ (\E k \in todo : CheckRow(k) \/ Triage(k))
    \/ FetchActionable \/ FetchFails \/ EndCandidate
    \/ TriageNone \/ TriageQuestion \/ (\E n \in 1..MaxSpecs : TriageChange(n))
    \/ PostClosingFails \/ PostAnswerFails \/ CaptureBase \/ DeleteWorkspace

Posts == PostClosing \/ PostAnswer \/ PostInterim
Records == MarkAddressed \/ RecordHandled \/ RecordChange
Stores == RecordClosing \/ RecordReply
Moves == ApplyPullState \/ FlipEpic \/ AmendTask

\* Every step of the poller is one of these.
LEMMA PollSteps ==
  ASSUME Poll
  PROVE  Thinks \/ Posts \/ Records \/ Stores \/ Moves \/ CreateTask
  BY DEF Poll, Tick, Thinks, Posts, Records, Stores, Moves

\* What each kind of step leaves alone.
LEMMA PollKeeps ==
  /\ Thinks => UNCHANGED <<head, said, posts, status, tasks, feedback, ours, walk, tip, crashed>>
  /\ Posts => UNCHANGED <<head, said, status, tasks, feedback, ours, walk, tip, crashed>>
  /\ Records => UNCHANGED <<head, said, posts, status, tasks, ours, walk, tip, crashed>>
  /\ Stores => UNCHANGED <<head, said, posts, status, tasks, feedback, walk, tip, crashed>>
  /\ Moves => UNCHANGED <<head, said, posts, tasks, feedback, ours, walk, tip, crashed>>
  /\ CreateTask => UNCHANGED <<head, said, posts, status, feedback, ours, walk, tip, crashed>>
  <1> USE DEF host, db, executor, counters
  <1>1. Thinks => UNCHANGED <<head, said, posts, status, tasks, feedback, ours, walk, tip, crashed>>
    BY DEF Thinks, LoadEpics, LoadTasks, EndTick, GetPull, GetPullFails, CheckRow, Triage,
           FetchActionable, FetchFails, EndCandidate, TriageNone, TriageQuestion, TriageChange,
           PostClosingFails, PostAnswerFails, CaptureBase, DeleteWorkspace
  <1>2. Posts => UNCHANGED <<head, said, status, tasks, feedback, ours, walk, tip, crashed>>
    BY DEF Posts, PostClosing, PostAnswer, PostInterim
  <1>3. Records => UNCHANGED <<head, said, posts, status, tasks, ours, walk, tip, crashed>>
    BY DEF Records, MarkAddressed, RecordHandled, RecordChange
  <1>4. Stores => UNCHANGED <<head, said, posts, status, tasks, feedback, walk, tip, crashed>>
    BY DEF Stores, RecordClosing, RecordReply
  <1>5. Moves => UNCHANGED <<head, said, posts, tasks, feedback, ours, walk, tip, crashed>>
    BY DEF Moves, ApplyPullState, FlipEpic, AmendTask
  <1>6. CreateTask => UNCHANGED <<head, said, posts, status, feedback, ours, walk, tip, crashed>>
    BY DEF CreateTask
  <1> QED BY <1>1, <1>2, <1>3, <1>4, <1>5, <1>6

-----------------------------------------------------------------------------
\* A reply waits to be recorded; a base commit was captured.
PendingPCs == {"markAddressed", "recordClosing", "recordHandled", "recordReply", "base",
               "spawn", "flip", "amend", "recordSolo"}
WorkPCs == {"spawn", "flip", "amend", "recordSolo", "recordReply"}

\* What the poller remembers, it remembers of the candidate and row it is at.
MemoryOK ==
    /\ IF pc \in {"sleep", "candidates"} THEN cur = NoItem ELSE cur \in Item \ batch
    /\ reply # 0 => pc \in PendingPCs
    /\ base # NoSha => pc \in WorkPCs
    /\ spawned # {} => pc \in {"spawn", "flip", "recordReply"} /\ cur \in Epic
    /\ pc \in {"spawn", "flip"} => cur \in Epic

\* The poller keeps its memory in order.
LEMMA PollMemory ==
  ASSUME Types, MemoryOK, Poll
  PROVE  MemoryTypes' /\ MemoryOK'
  <1> USE ReviewPollAssumption DEF MemoryTypes, MemoryOK, PCs, ClosePCs, ItemPCs, PendingPCs, WorkPCs
  <1>0. /\ MemoryTypes /\ Rows \subseteq Id /\ tasks \in Seq(TaskRec) /\ posts \in Seq(PostRec)
        /\ said \subseteq Comment /\ head \in [Item -> Nat] /\ tip \in [Item -> Nat]
        /\ ours \subseteq Nat
    BY DEF Types, RowTypes, HostTypes, WalkTypes
  <1>1. CASE LoadEpics \/ LoadTasks \/ EndTick
    BY <1>0, <1>1 DEF LoadEpics, LoadTasks, EndTick, Item, db, candidate, item, memory, tick
  <1>2. CASE \E i \in Item : GetPull(i) \/ GetPullFails(i)
    BY <1>0, <1>2 DEF GetPull, GetPullFails, InProgressRows, db, candidate, item
  <1>3. CASE ApplyPullState \/ DeleteWorkspace
    BY <1>0, <1>3 DEF ApplyPullState, DeleteWorkspace, NextCandidate, Return, candidate, item, tick, db, Id
  <1>4. CASE \E k \in todo : CheckRow(k) \/ Triage(k)
    BY <1>0, <1>4 DEF CheckRow, Triage, tick, db
  <1>5. CASE PostClosing \/ PostAnswer \/ PostInterim
    BY <1>0, <1>5, PostAppends DEF PostClosing, PostAnswer, PostInterim, tick, candidate, db
  <1>6. CASE PostClosingFails \/ PostAnswerFails
    BY <1>0, <1>6 DEF PostClosingFails, PostAnswerFails, Return, tick, candidate, db, Id
  <1>7. CASE MarkAddressed \/ RecordHandled \/ FlipEpic \/ AmendTask
    BY <1>0, <1>7 DEF MarkAddressed, RecordHandled, FlipEpic, AmendTask, memory, tick, candidate, item
  <1>8. CASE RecordClosing \/ RecordReply
    BY <1>0, <1>8 DEF RecordClosing, RecordReply, Return, tick, candidate, Id
  <1>9. CASE FetchActionable \/ FetchFails \/ EndCandidate
    <2>1. Actionable(cur) \subseteq Id
      BY <1>0 DEF Actionable, PostId, Id
    <2>2. CASE FetchActionable
      BY <1>0, <2>1, <2>2 DEF FetchActionable, tick, item, db
    <2>3. CASE FetchFails \/ EndCandidate
      BY <1>0, <2>3 DEF FetchFails, EndCandidate, NextCandidate, Return, tick, db, Id
    <2> QED BY <1>9, <2>2, <2>3
  <1>10. CASE TriageNone \/ TriageQuestion \/ \E n \in 1..MaxSpecs : TriageChange(n)
    <2>1. CASE TriageNone
      BY <1>0, <2>1 DEF TriageNone, Return, tick, candidate, db, Id
    <2>2. CASE TriageQuestion
      BY <1>0, <2>2 DEF TriageQuestion, memory, tick, candidate, item, db
    <2>3. ASSUME NEW n \in 1..MaxSpecs, TriageChange(n)
          PROVE  MemoryTypes' /\ MemoryOK'
      <3>1. plan' \in Nat
        BY <2>3 DEF TriageChange
      <3> QED BY <1>0, <2>3, <3>1 DEF TriageChange, tick, candidate, db
    <2> QED BY <1>10, <2>1, <2>2, <2>3
  <1>11. CASE CaptureBase
    BY <1>0, <1>11 DEF CaptureBase, tick, candidate, db
  <1>12. CASE CreateTask
    <2>1. Len(tasks') = Len(tasks) + 1
      BY <1>0, <1>12 DEF CreateTask
    <2>2. spawned' = spawned \cup {Len(tasks) + 1} /\ plan' \in Nat /\ spawned \subseteq 1..Len(tasks)
      BY <1>0, <1>12 DEF CreateTask
    <2>3. spawned' \subseteq 1..Len(tasks')
      <3>1. Len(tasks) \in Nat
        BY <1>0
      <3>2. 1..Len(tasks) \cup {Len(tasks) + 1} \subseteq 1..(Len(tasks) + 1)
        BY <3>1
      <3> QED BY <2>1, <2>2, <3>2
    <2> QED BY <1>0, <1>12, <2>2, <2>3 DEF CreateTask, tick, candidate
  <1>13. CASE RecordChange
    BY <1>0, <1>13 DEF RecordChange, memory, tick, candidate, item
  <1> QED BY <1>1, <1>2, <1>3, <1>4, <1>5, <1>6, <1>7, <1>8, <1>9, <1>10, <1>11, <1>12, <1>13
          DEF Poll, Tick

\* The row a change or an answer is recorded with.
LEMMA NewRowType ==
  ASSUME Types, MemoryOK
  PROVE  /\ cur \in Item => /\ [item |-> cur, state |-> "handled_reply",
                                base |-> NoSha, spawned |-> {}] \in RowRec
                            /\ [item |-> cur, state |-> "in_progress",
                                base |-> base, spawned |-> spawned] \in RowRec
         /\ pc \in {"recordHandled", "spawn", "recordSolo"} => cur \in Item
  BY DEF Types, MemoryTypes, MemoryOK, RowRec, PCs, ClosePCs, ItemPCs

\* The poller keeps the types, and tasks only grow.
LEMMA PollTypes ==
  ASSUME Types, MemoryOK, Poll
  PROVE  Types' /\ TasksGrow
  <1>0. MemoryTypes' /\ tasks \in Seq(TaskRec)
    BY PollMemory DEF Types, RowTypes
  <1>1. CASE UNCHANGED <<head, said, posts, status, tasks, feedback, ours, walk, tip>>
    BY <1>0, <1>1 DEF Types, HostTypes, RowTypes, WalkTypes, Rows, TasksGrow
  <1>2. CASE Posts
    <2>1. cur \in Item \/ posts' = posts
      BY <1>2 DEF Posts, PostClosing, PostAnswer, PostInterim, MemoryOK
    <2>2. posts' \in Seq(PostRec)
      BY <1>2, <2>1, PostAppends DEF Posts, PostClosing, PostAnswer, PostInterim, Types, HostTypes
    <2> QED BY <1>0, <1>2, <2>2, PollKeeps
            DEF Types, HostTypes, RowTypes, WalkTypes, Rows, TasksGrow
  <1>3. CASE Records
    <2>1. feedback' \in [Rows' -> RowRec] /\ Rows' \subseteq Id
      BY <1>3, NewRowType, InsertRowKeeps, MarkAddressedKeeps
      DEF Records, RecordHandled, RecordChange, Types, RowTypes
    <2>2. UNCHANGED <<head, said, posts, status, tasks, ours, walk, tip>>
      BY <1>3, PollKeeps
    <2> QED BY <1>0, <2>1, <2>2 DEF Types, HostTypes, RowTypes, WalkTypes, TasksGrow
  <1>4. CASE Stores
    <2>1. ours' \subseteq Nat
      BY <1>4 DEF Stores, RecordClosing, RecordReply, Types, RowTypes, MemoryTypes
    <2> QED BY <1>0, <1>4, <2>1, PollKeeps DEF Types, HostTypes, RowTypes, WalkTypes, Rows, TasksGrow
  <1>5. CASE Moves
    <2>1. status' \in [Item -> {"InReview", "InProgress", "Blocked", "Cancelled", "Completed", "Done"}]
      BY <1>5 DEF Moves, ApplyPullState, FlipEpic, AmendTask, Types, RowTypes
    <2> QED BY <1>0, <1>5, <2>1, PollKeeps DEF Types, HostTypes, RowTypes, WalkTypes, Rows, TasksGrow
  <1>6. CASE CreateTask
    <2>1. cur \in Item
      BY <1>6 DEF CreateTask, MemoryOK
    <2>2. [epic |-> cur, status |-> "Todo"] \in TaskRec
      BY <2>1 DEF TaskRec
    <2>3. tasks' = Append(tasks, [epic |-> cur, status |-> "Todo"])
      BY <1>6 DEF CreateTask
    <2>4. tasks' \in Seq(TaskRec) /\ TasksGrow
      BY <1>0, <2>2, <2>3 DEF TasksGrow
    <2> QED BY <1>0, <1>6, <2>4, PollKeeps DEF Types, HostTypes, RowTypes, WalkTypes, Rows
  <1> QED BY <1>1, <1>2, <1>3, <1>4, <1>5, <1>6, PollSteps, PollKeeps

\* A crash forgets the tick and the walks.
LEMMA CrashTypes ==
  ASSUME Types, Crash
  PROVE  Types' /\ TasksGrow /\ MemoryOK'
  <1>1. /\ UNCHANGED <<head, said, posts, status, tasks, feedback, ours, tip>>
        /\ walk' = [i \in Item |-> "none"] /\ pc' = "sleep"
        /\ at' = 0 /\ reply' = 0 /\ base' = NoSha /\ plan' = 0 /\ spawned' = {}
        /\ cur' = NoItem /\ seen' = [state |-> "open", head |-> 0] /\ todo' = {} /\ batch' = {}
    BY DEF Crash, Return, host, db
  <1> QED BY <1>1 DEF Types, HostTypes, RowTypes, WalkTypes, MemoryTypes, MemoryOK, Rows, TasksGrow,
                      PCs, Id

\* A new instance.
LEMMA InitTypes == Init => Types /\ MemoryOK
  <1> SUFFICES ASSUME Init PROVE Types /\ MemoryOK
    OBVIOUS
  <1>1. HostTypes /\ WalkTypes
    BY DEF Init, HostTypes, WalkTypes
  <1>2. tasks \in Seq(TaskRec) /\ tasks = <<>>
    BY DEF Init
  <1>3. Rows = {} /\ feedback \in [Rows -> RowRec]
    BY DEF Init, Rows
  <1>4. RowTypes
    BY <1>2, <1>3 DEF Init, RowTypes
  <1> QED BY <1>1, <1>4 DEF Init, Types, MemoryTypes, MemoryOK, PCs, Id

\* Walks and humans leave the poller's memory alone.
LEMMA OutsideMemory ==
  ASSUME MemoryOK, Outside
  PROVE  MemoryOK'
  BY OutsideKeeps DEF MemoryOK

-----------------------------------------------------------------------------
\* What every step keeps: the rest is about posts, rows and landed work.
Base == Types /\ MemoryOK

\* A step is of the poller, of what is around it, or the end of the process.
LEMMA NextCases ==
  ASSUME [Next]_vars
  PROVE  Poll \/ Outside \/ Crash \/ UNCHANGED vars
  BY OutsideSteps DEF Next, Poll

\* Every step keeps the types and the memory, and tasks are never undone.
LEMMA BaseStep ==
  ASSUME Base, [Next]_vars
  PROVE  Base' /\ TasksGrow
  <1>1. CASE Poll
    BY <1>1, PollTypes, PollMemory DEF Base
  <1>2. CASE Outside
    BY <1>2, OutsideMoves, OutsideMemory DEF Base
  <1>3. CASE Crash
    BY <1>3, CrashTypes DEF Base
  <1>4. CASE UNCHANGED vars
    BY <1>4 DEF Base, Types, HostTypes, RowTypes, WalkTypes, MemoryTypes, MemoryOK, Rows, TasksGrow,
                vars, host, db, executor, memory, tick, candidate, item
  <1> QED BY <1>1, <1>2, <1>3, <1>4, NextCases

-----------------------------------------------------------------------------
(***************************************************************************)
(* What is settled stays settled, and no own post is triaged.              *)
(***************************************************************************)

InProgress(k) == k \in Rows /\ feedback[k].state = "in_progress"
Unsettled(k) == k \in Rows => feedback[k].state \notin Settled

\* Every post is recorded as ours, but for the one that waits to be.
PostsKnown == crashed = "no" => \A n \in PostId : n \in ours \/ n = reply

\* The rows that may be closed are in progress until they are.
ClosingOK ==
    /\ pc \in ClosePCs => \A k \in todo : InProgress(k)
    /\ pc \in {"postClosing", "markAddressed"} => InProgress(at) /\ at \notin todo

AtWorkPCs == {"triage", "answer", "recordHandled", "interim", "base", "spawn", "amend", "recordSolo"}

\* The items that may be triaged are unsettled and are not our own.
ItemsOK ==
    /\ pc \in ItemPCs => \A k \in todo : Unsettled(k)
    /\ pc \in ItemPCs /\ crashed = "no" => todo \subseteq Comment
    /\ pc \in ItemPCs \ {"items"} => at \notin todo
    /\ pc \in AtWorkPCs => Unsettled(at) /\ (crashed = "no" => at \in Comment)

LoopInv == Base /\ PostsKnown /\ ClosingOK /\ ItemsOK

\* Where nothing of the poller moves, nothing of this does.
LEMMA LoopIdles ==
  ASSUME LoopInv, Base',
         UNCHANGED <<posts, feedback, ours, pc, batch, cur, seen, todo, at, reply, crashed>>
  PROVE  LoopInv'
  BY DEF LoopInv, PostsKnown, PostId, ClosingOK, ItemsOK, InProgress, Unsettled, Rows

\* A post of the poller goes out when no other waits to be recorded.
LEMMA LoopPosts ==
  ASSUME LoopInv, Base', Posts
  PROVE  LoopInv'
  <1>1. /\ UNCHANGED <<feedback, ours, todo, at, cur, crashed>>
        /\ pc \in {"postClosing", "answer", "interim"} /\ pc' \in {"markAddressed", "recordHandled", "base"}
        /\ pc' = "markAddressed" => pc = "postClosing"
        /\ pc = "postClosing" => pc' = "markAddressed"
    BY DEF Posts, PostClosing, PostAnswer, PostInterim, db, counters, candidate
  <1>2. reply = 0 /\ cur \in Item /\ Types
    BY <1>1 DEF LoopInv, Base, MemoryOK, PendingPCs
  <1>3. PostsKnown'
    <2>1. CASE Post
      <3>1. Len(posts') = Len(posts) + 1 /\ reply' = Len(posts) + 1 /\ Len(posts) \in Nat
        BY <1>2, <2>1, PostAppends DEF Types, HostTypes
      <3>2. crashed = "no" => \A n \in 1..Len(posts) : n \in ours
        BY <1>2 DEF LoopInv, PostsKnown, PostId
      <3> QED BY <1>1, <3>1, <3>2 DEF PostsKnown, PostId
    <2>2. CASE UNCHANGED <<posts, reply>>
      BY <1>1, <2>2 DEF LoopInv, PostsKnown, PostId
    <2> QED BY <2>1, <2>2 DEF Posts, PostClosing, PostAnswer, PostInterim
  <1>4. ClosingOK' /\ ItemsOK'
    BY <1>1 DEF LoopInv, ClosingOK, ItemsOK, InProgress, Unsettled, Rows, ClosePCs, ItemPCs, AtWorkPCs
  <1> QED BY <1>3, <1>4 DEF LoopInv

\* A row is written for the item at work, which is not looked at again.
LEMMA LoopRecords ==
  ASSUME LoopInv, Base', Records
  PROVE  LoopInv'
  <1>1. UNCHANGED <<posts, ours, todo, at, cur, reply, crashed>>
    BY DEF Records, MarkAddressed, RecordHandled, RecordChange, host, counters, memory, candidate, item
  <1>2. PostsKnown'
    BY <1>1 DEF LoopInv, PostsKnown, PostId
  <1>3. Types /\ MemoryOK
    BY DEF LoopInv, Base
  <1>4. CASE MarkAddressed
    <2>1. pc = "markAddressed" /\ pc' = "recordClosing"
      BY <1>4 DEF MarkAddressed
    <2>2. \A k \in todo : InProgress(k)'
      BY <1>3, <1>4, <2>1, MarkAddressedKeeps DEF LoopInv, ClosingOK, InProgress, ClosePCs
    <2>3. ClosingOK' /\ ItemsOK'
      BY <1>1, <2>1, <2>2 DEF ClosingOK, ItemsOK, ItemPCs, AtWorkPCs
    <2> QED BY <1>2, <2>3 DEF LoopInv
  <1>5. CASE RecordHandled \/ RecordChange
    <2>1. pc \in ItemPCs \ {"items"} /\ pc' \in {"recordReply", "flip"}
      BY <1>5 DEF RecordHandled, RecordChange, ItemPCs
    <2>2. \A k \in Rows : k \in Rows' /\ feedback'[k] = feedback[k]
      BY <1>3, <1>5, NewRowType, InsertRowKeeps DEF RecordHandled, RecordChange
    <2>3. Rows' = Rows \cup {at}
      BY <1>3, <1>5, NewRowType, InsertRowKeeps DEF RecordHandled, RecordChange
    <2>4. at \notin todo /\ \A k \in todo : Unsettled(k)
      BY <2>1 DEF LoopInv, ItemsOK
    <2>5. \A k \in todo : Unsettled(k)'
      BY <2>2, <2>3, <2>4 DEF Unsettled
    <2>6. ItemsOK' /\ ClosingOK'
      BY <1>1, <2>1, <2>4, <2>5 DEF LoopInv, ItemsOK, ClosingOK, ItemPCs, AtWorkPCs, ClosePCs
    <2> QED BY <1>2, <2>6 DEF LoopInv
  <1> QED BY <1>4, <1>5 DEF Records

\* The post that waited is recorded as ours.
LEMMA LoopStores ==
  ASSUME LoopInv, Base', Stores
  PROVE  LoopInv'
  <1>1. /\ UNCHANGED <<posts, feedback, todo, cur, crashed>>
        /\ ours \subseteq ours' /\ (reply # 0 => reply \in ours')
        /\ \/ pc = "recordClosing" /\ pc' = "closing"
           \/ pc = "recordReply" /\ pc' = "items"
    BY DEF Stores, RecordClosing, RecordReply, Return, host, counters, candidate
  <1>2. PostsKnown'
    BY <1>1 DEF LoopInv, PostsKnown, PostId
  <1>3. ClosingOK' /\ ItemsOK'
    BY <1>1 DEF LoopInv, ClosingOK, ItemsOK, InProgress, Unsettled, Rows, ClosePCs, ItemPCs, AtWorkPCs
  <1> QED BY <1>2, <1>3 DEF LoopInv

\* The poller thinks: what it puts on its list, and what it takes from it.
LEMMA LoopThinks ==
  ASSUME LoopInv, Base', Thinks
  PROVE  LoopInv'
  <1>1. UNCHANGED <<head, said, posts, status, tasks, feedback, ours, walk, tip, crashed>>
    BY PollKeeps
  <1>2. \A k : /\ Unsettled(k) => Unsettled(k)'
               /\ InProgress(k) => InProgress(k)'
    BY <1>1 DEF Unsettled, InProgress, Rows
  <1>3. Base /\ MemoryOK /\ Types
    BY DEF LoopInv, Base
  <1>4. reply' = reply
    BY <1>3
    DEF Thinks, LoadEpics, LoadTasks, EndTick, GetPull, GetPullFails, CheckRow, Triage,
        FetchActionable, FetchFails, EndCandidate, TriageNone, TriageQuestion, TriageChange,
        PostClosingFails, PostAnswerFails, CaptureBase, DeleteWorkspace, NextCandidate, Return,
        memory, candidate, item, MemoryOK, PendingPCs
  <1>5. PostsKnown'
    BY <1>1, <1>4 DEF LoopInv, PostsKnown, PostId
  <1> SUFFICES ClosingOK' /\ ItemsOK'
    BY <1>5 DEF LoopInv
  <1> USE DEF ClosePCs, ItemPCs, AtWorkPCs
  <1>6. CASE pc' \notin ClosePCs \cup ItemPCs
    BY <1>6 DEF ClosingOK, ItemsOK
  <1>7. CASE \E i \in Item : GetPull(i)
    <2>1. PICK i \in Item : GetPull(i)
      BY <1>7
    <2>2. CASE pc' = "closing"
      <3>1. todo' = InProgressRows(i)
        BY <2>1, <2>2 DEF GetPull
      <3>2. \A k \in todo' : InProgress(k)'
        BY <1>2, <3>1 DEF InProgressRows, InProgress
      <3> QED BY <2>2, <3>2 DEF ClosingOK, ItemsOK
    <2> QED BY <1>6, <2>1, <2>2 DEF GetPull
  <1>8. CASE \E k \in todo : CheckRow(k)
    BY <1>2, <1>8 DEF CheckRow, LoopInv, ClosingOK, ItemsOK
  <1>9. CASE \E k \in todo : Triage(k)
    BY <1>1, <1>2, <1>9 DEF Triage, LoopInv, ClosingOK, ItemsOK
  <1>10. CASE FetchActionable
    <2>1. pc = "closing" /\ pc' = "items" /\ todo' = Actionable(cur)
      BY <1>10 DEF FetchActionable
    <2>2. reply = 0
      BY <1>3, <2>1 DEF MemoryOK, PendingPCs
    <2>3. crashed = "no" => \A n \in PostId : n \in ours
      <3>1. \A n \in PostId : n # 0
        BY <1>3 DEF PostId, Types, HostTypes
      <3> QED BY <2>2, <3>1 DEF LoopInv, PostsKnown
    <2>4. \A k \in todo' : Unsettled(k) /\ (crashed = "no" => k \in Comment)
      BY <1>3, <2>1, <2>3 DEF Actionable, Unsettled, Types, HostTypes
    <2> QED BY <1>1, <1>2, <2>1, <2>4 DEF ClosingOK, ItemsOK
  <1>11. CASE TriageNone \/ TriageQuestion \/ (\E n \in 1..MaxSpecs : TriageChange(n)) \/ CaptureBase
              \/ PostAnswerFails
    <2>1. /\ pc \in AtWorkPCs /\ pc' \in {"items", "answer", "interim", "spawn", "amend"}
          /\ todo' = todo /\ (pc' = "items" \/ at' = at)
      BY <1>11 DEF TriageNone, TriageQuestion, TriageChange, CaptureBase, PostAnswerFails, Return,
                   memory, candidate, item
    <2> QED BY <1>1, <1>2, <2>1 DEF LoopInv, ClosingOK, ItemsOK
  <1>12. CASE PostClosingFails
    BY <1>1, <1>2, <1>12 DEF PostClosingFails, Return, candidate, LoopInv, ClosingOK, ItemsOK
  <1>13. CASE \/ LoadEpics \/ LoadTasks \/ EndTick \/ (\E i \in Item : GetPullFails(i))
              \/ FetchFails \/ EndCandidate \/ DeleteWorkspace
    BY <1>6, <1>13 DEF LoadEpics, LoadTasks, EndTick, GetPullFails, FetchFails, EndCandidate,
                       DeleteWorkspace, NextCandidate, Return
  <1> QED BY <1>7, <1>8, <1>9, <1>10, <1>11, <1>12, <1>13 DEF Thinks

\* An item is moved, or a task created: nothing of the loop's lists changes.
LEMMA LoopMoves ==
  ASSUME LoopInv, Base', Moves \/ CreateTask
  PROVE  LoopInv'
  <1>1. UNCHANGED <<posts, feedback, ours, crashed>>
    BY PollKeeps
  <1>2. \/ UNCHANGED <<todo, at, reply>> /\ pc = "flip" /\ pc' = "recordReply"
        \/ UNCHANGED <<todo, at, reply>> /\ pc = "amend" /\ pc' \in {"recordSolo", "recordReply"}
        \/ UNCHANGED <<todo, at, reply>> /\ pc = "spawn" /\ pc' = "spawn"
        \/ UNCHANGED <<todo, at, reply>> /\ pc = "apply" /\ pc' = "delete"
        \/ reply' = 0 /\ pc = "apply" /\ pc' = "candidates"
    BY DEF Moves, ApplyPullState, FlipEpic, AmendTask, CreateTask, NextCandidate, Return, memory,
           candidate, item
  <1>3. reply' = reply
    BY <1>2 DEF LoopInv, Base, MemoryOK, PendingPCs
  <1>4. PostsKnown'
    BY <1>1, <1>3 DEF LoopInv, PostsKnown, PostId
  <1>5. ClosingOK' /\ ItemsOK'
    BY <1>1, <1>2 DEF LoopInv, ClosingOK, ItemsOK, InProgress, Unsettled, Rows, ClosePCs, ItemPCs, AtWorkPCs
  <1> QED BY <1>4, <1>5 DEF LoopInv

\* Every step keeps it.
LEMMA LoopStep ==
  ASSUME LoopInv, [Next]_vars
  PROVE  LoopInv'
  <1>0. Base'
    BY BaseStep DEF LoopInv
  <1>1. CASE Poll
    BY <1>0, <1>1, PollSteps, LoopThinks, LoopPosts, LoopRecords, LoopStores, LoopMoves
  <1>2. CASE Outside
    BY <1>0, <1>2, LoopIdles, OutsideKeeps DEF Outside
  <1>3. CASE Crash
    <2>1. crashed' = "yes" /\ pc' = "sleep"
      BY <1>3 DEF Crash, Return
    <2> QED BY <1>0, <2>1 DEF LoopInv, PostsKnown, ClosingOK, ItemsOK, ClosePCs, ItemPCs, AtWorkPCs
  <1>4. CASE UNCHANGED vars
    BY <1>0, <1>4, LoopIdles DEF vars, host, db, memory, tick, candidate, item, counters
  <1> QED BY <1>1, <1>2, <1>3, <1>4, NextCases

\* So it holds for ever.
LEMMA LoopInvHolds == Spec => []LoopInv
  <1>1. Init => LoopInv
    BY InitTypes DEF Init, LoopInv, Base, PostsKnown, PostId, ClosingOK, ItemsOK, ClosePCs, ItemPCs,
                     AtWorkPCs
  <1>2. LoopInv /\ [Next]_vars => LoopInv'
    BY LoopStep
  <1> QED BY <1>1, <1>2, PTL DEF Spec

\* As long as no crash falls between a post and its record, what the poller
\* triages is a human's.
THEOREM OwnPostsAreLeft == Spec => []OwnPostsLeftAlone
  <1>1. LoopInv => OwnPostsLeftAlone
    BY DEF LoopInv, ItemsOK, OwnPostsLeftAlone, AtWorkPCs
  <1> QED BY <1>1, LoopInvHolds, PTL

\* What no step may do to a row that is settled.
SettledKept ==
    \A k \in Rows : feedback[k].state \in Settled =>
        /\ k \in DOMAIN feedback' /\ feedback'[k] = feedback[k]
        /\ \A n \in 1..Len(posts') : posts'[n].re = k => n \in PostId
        /\ pc' = "triage" => at' # k

\* A settled row is not rewritten.
LEMMA SettledRowsKept ==
  ASSUME LoopInv, [Next]_vars, NEW k \in Rows, feedback[k].state \in Settled
  PROVE  k \in Rows' /\ feedback'[k] = feedback[k]
  <1>0. Types /\ MemoryOK
    BY DEF LoopInv, Base
  <1>1. CASE feedback' = feedback
    BY <1>1 DEF Rows
  <1>2. CASE MarkAddressed
    BY <1>0, <1>2, MarkAddressedKeeps DEF Settled
  <1>3. CASE RecordHandled \/ RecordChange
    BY <1>0, <1>3, NewRowType, InsertRowKeeps DEF RecordHandled, RecordChange
  <1>4. feedback' = feedback \/ Records
    <2>1. CASE Poll
      BY <2>1, PollSteps, PollKeeps
    <2> QED BY <2>1, NextCases DEF Outside, Crash, vars, db
  <1> QED BY <1>1, <1>2, <1>3, <1>4 DEF Records

\* A post is about the row at work, which is unsettled.
LEMMA NewPostsUnsettled ==
  ASSUME LoopInv, [Next]_vars, NEW n \in 1..Len(posts'), n \notin PostId
  PROVE  Unsettled(posts'[n].re)
  <1>0. Types /\ MemoryOK /\ Len(posts) \in Nat
    BY DEF LoopInv, Base, Types, HostTypes
  <1>1. posts' # posts
    BY DEF PostId
  <1>2. Posts
    <2>1. CASE Poll
      BY <1>1, <2>1, PollSteps, PollKeeps
    <2> QED BY <1>1, <2>1, NextCases DEF Outside, Crash, vars, host
  <1>3. Post /\ pc \in {"postClosing", "answer", "interim"}
    BY <1>1, <1>2 DEF Posts, PostClosing, PostAnswer, PostInterim
  <1>4. cur \in Item
    BY <1>0, <1>3 DEF MemoryOK
  <1>5. Len(posts') = Len(posts) + 1 /\ posts'[Len(posts) + 1].re = at
    BY <1>0, <1>3, <1>4, PostAppends
  <1>6. n = Len(posts) + 1
    BY <1>0, <1>5 DEF PostId
  <1>7. Unsettled(at)
    BY <1>3 DEF LoopInv, ClosingOK, ItemsOK, AtWorkPCs, InProgress, Unsettled, Settled
  <1> QED BY <1>5, <1>6, <1>7

\* An answered or addressed comment is not triaged, replied to or rewritten by
\* any later tick, walk or restart.
THEOREM SettledStaySettled == Spec => SettledForGood
  <1>1. LoopInv /\ [Next]_vars => SettledKept
    <2> SUFFICES ASSUME LoopInv, [Next]_vars, NEW k \in Rows, feedback[k].state \in Settled
                 PROVE  /\ k \in DOMAIN feedback' /\ feedback'[k] = feedback[k]
                        /\ \A n \in 1..Len(posts') : posts'[n].re = k => n \in PostId
                        /\ pc' = "triage" => at' # k
      BY DEF SettledKept
    <2>1. k \in Rows' /\ feedback'[k] = feedback[k]
      BY SettledRowsKept
    <2>2. \A n \in 1..Len(posts') : posts'[n].re = k => n \in PostId
      BY NewPostsUnsettled DEF Unsettled
    <2>3. pc' = "triage" => at' # k
      BY <2>1, LoopStep DEF LoopInv, ItemsOK, AtWorkPCs, Unsettled
    <2> QED BY <2>1, <2>2, <2>3 DEF Rows
  <1>2. LoopInv /\ [Next]_vars => [SettledKept]_vars
    BY <1>1
  <1>3. Spec => [][SettledKept]_vars
    BY <1>2, LoopInvHolds, PTL DEF Spec
  <1> QED BY <1>3 DEF SettledForGood, SettledKept

-----------------------------------------------------------------------------
(***************************************************************************)
(* Addressed is the truth.                                                 *)
(***************************************************************************)

\* An item in review, or taken for one by this tick, is not being worked on.
IdleOK ==
    /\ \A i \in Item : head[i] <= tip[i]
    /\ \A i \in Item : status[i] = "InReview" \/ i \in batch => walk[i] = "none" /\ head[i] = tip[i]
    /\ \A i \in batch : status[i] \in {"InReview", "Cancelled"}

\* Branches and their workspaces only grow.
LEMMA BranchesGrow ==
  ASSUME Base, IdleOK, [Next]_vars
  PROVE  \A i \in Item : head[i] <= head'[i] /\ tip[i] <= tip'[i] /\ head'[i] <= tip'[i]
  <1>0. head \in [Item -> Nat] /\ tip \in [Item -> Nat]
    BY DEF Base, Types, HostTypes, WalkTypes
  <1>1. CASE UNCHANGED <<head, tip>>
    BY <1>0, <1>1 DEF IdleOK
  <1>2. ASSUME NEW i \in Item, NEW k \in 1..Len(tasks), WorkTask(i, k)
        PROVE  \A j \in Item : head[j] <= head'[j] /\ tip[j] <= tip'[j] /\ head'[j] <= tip'[j]
    <2>1. head' = head /\ (tip' = [tip EXCEPT ![i] = @ + 1] \/ tip' = tip)
      BY <1>2 DEF WorkTask, Commits, host
    <2> QED BY <1>0, <2>1 DEF IdleOK
  <1>3. ASSUME NEW i \in Item, LastTaskDone(i)
        PROVE  \A j \in Item : head[j] <= head'[j] /\ tip[j] <= tip'[j] /\ head'[j] <= tip'[j]
    BY <1>0, <1>3 DEF LastTaskDone, Commits, host, IdleOK
  <1>4. ASSUME NEW i \in Item, PushAndReview(i)
        PROVE  \A j \in Item : head[j] <= head'[j] /\ tip[j] <= tip'[j] /\ head'[j] <= tip'[j]
    BY <1>0, <1>4 DEF PushAndReview, IdleOK
  <1>5. ASSUME NEW i \in Item, ClaimItem(i) \/ WalkFails(i) \/ WalkLeaves(i)
        PROVE  UNCHANGED <<head, tip>>
    BY <1>5 DEF ClaimItem, WalkFails, WalkLeaves, host
  <1>6. CASE Human \/ Crash \/ Poll \/ UNCHANGED vars
    <2>1. UNCHANGED <<head, tip>>
      BY <1>6, PollSteps, PollKeeps
      DEF Human, Retry, CancelEpic, Comments, HostDecides, Crash, vars, host, executor
    <2> QED BY <1>1, <2>1
  <1> QED BY <1>1, <1>2, <1>3, <1>4, <1>5, <1>6, NextCases DEF Outside, WalkStep

\* What is not being worked on stays so until the poller moves it.
LEMMA IdleStep ==
  ASSUME Base, IdleOK, [Next]_vars
  PROVE  IdleOK'
  <1>0. /\ head \in [Item -> Nat] /\ tip \in [Item -> Nat] /\ batch \subseteq Item
        /\ status \in [Item -> {"InReview", "InProgress", "Blocked", "Cancelled", "Completed", "Done"}]
        /\ walk \in [Item -> {"none", "working", "pushing"}]
    BY DEF Base, Types, HostTypes, WalkTypes, RowTypes, MemoryTypes
  <1> DEFINE Rest ==
        /\ \A i \in Item : status'[i] = "InReview" \/ i \in batch' => walk'[i] = "none" /\ head'[i] = tip'[i]
        /\ \A i \in batch' : status'[i] \in {"InReview", "Cancelled"}
  <1> SUFFICES Rest
    BY BranchesGrow DEF IdleOK
  <1>1. CASE Outside
    <2>0. batch' = batch
      BY <1>1, OutsideKeeps
    <2>1. ASSUME NEW i \in Item, NEW k \in 1..Len(tasks), WorkTask(i, k)
          PROVE  Rest
      <3>1. /\ UNCHANGED <<head, status, walk>> /\ walk[i] = "working"
            /\ tip' = [tip EXCEPT ![i] = @ + 1] \/ tip' = tip
        BY <2>1 DEF WorkTask, Commits, host
      <3> QED BY <1>0, <2>0, <3>1 DEF IdleOK
    <2>2. ASSUME NEW i \in Item, LastTaskDone(i)
          PROVE  Rest
      BY <1>0, <2>0, <2>2 DEF LastTaskDone, Commits, host, db, IdleOK
    <2>3. ASSUME NEW i \in Item, PushAndReview(i)
          PROVE  Rest
      BY <1>0, <2>0, <2>3 DEF PushAndReview, IdleOK
    <2>4. ASSUME NEW i \in Item, ClaimItem(i) \/ WalkLeaves(i)
          PROVE  Rest
      BY <1>0, <2>0, <2>4 DEF ClaimItem, WalkLeaves, host, db, IdleOK
    <2>5. ASSUME NEW i \in Item, WalkFails(i) \/ Retry(i) \/ CancelEpic(i)
          PROVE  Rest
      BY <1>0, <2>0, <2>5 DEF WalkFails, Retry, CancelEpic, host, executor, IdleOK
    <2>6. CASE UNCHANGED <<status, walk, head, tip>>
      BY <2>0, <2>6 DEF IdleOK
    <2>7. (\E i \in Item, k \in 1..Len(tasks) : WorkTask(i, k))
          \/ (\E i \in Item : \/ LastTaskDone(i) \/ PushAndReview(i) \/ ClaimItem(i) \/ WalkLeaves(i)
                              \/ WalkFails(i) \/ Retry(i) \/ CancelEpic(i))
          \/ UNCHANGED <<status, walk, head, tip>>
      BY <1>1 DEF Outside, WalkStep, Human, Comments, HostDecides, db, executor
    <2> HIDE DEF Rest
    <2> QED BY <2>1, <2>2, <2>3, <2>4, <2>5, <2>6, <2>7
  <1>2. CASE Moves
    <2>1. UNCHANGED <<walk, head, tip, batch>> /\ cur \in Item \ batch
      BY <1>2, PollKeeps DEF Moves, ApplyPullState, FlipEpic, AmendTask, memory, tick, Base, MemoryOK
    <2>2. status' = status \/ (\E s \in {"InProgress", "Cancelled", "Completed", "Done"} :
                                  status' = [status EXCEPT ![cur] = s])
      BY <1>2 DEF Moves, ApplyPullState, FlipEpic, AmendTask
    <2> QED BY <1>0, <2>1, <2>2 DEF IdleOK
  <1>3. CASE Poll /\ ~Moves
    <2>1. UNCHANGED <<status, walk, head, tip>>
      BY <1>3, PollSteps, PollKeeps
    <2>2. batch' \subseteq batch \/ \A i \in batch' : i \in Item /\ status[i] = "InReview"
      BY <1>3 DEF Poll, Tick, Moves, LoadEpics, LoadTasks, EndTick, GetPull, GetPullFails,
           DeleteWorkspace, CheckRow, Triage, PostClosing, PostClosingFails, MarkAddressed,
           RecordClosing, FetchActionable, FetchFails, EndCandidate, TriageNone, TriageQuestion,
           TriageChange, PostAnswer, PostAnswerFails, RecordHandled, RecordReply, PostInterim,
           CaptureBase, CreateTask, RecordChange, Item, memory, tick
    <2> QED BY <2>1, <2>2 DEF IdleOK
  <1>4. CASE Crash
    <2>1. UNCHANGED <<status, head, tip>> /\ batch' = {} /\ walk' = [i \in Item |-> "none"]
      BY <1>4 DEF Crash, host, db
    <2> QED BY <2>1 DEF IdleOK
  <1>5. CASE UNCHANGED vars
    BY <1>5 DEF IdleOK, vars, host, db, executor, memory, tick
  <1> QED BY <1>1, <1>2, <1>3, <1>4, <1>5, NextCases

\* How far an addressed row's work got.
LandedRow(row) ==
    /\ row.base # NoSha
    /\ \A t \in row.spawned : tasks[t].status = "Done"
    /\ OwnNumber(row.item) => head[row.item] > row.base

\* A row's base commit is a commit of its own item, and the tasks it spawned
\* are an epic's.
RowsOK ==
    \A k \in Rows : LET row == feedback[k] IN
        /\ row.base # NoSha => row.base <= tip[row.item]
        /\ row.spawned \subseteq 1..Len(tasks)
        /\ row.item \in Solo => row.spawned = {}

\* The head that get_pull returned is one of the branch of the candidate, and
\* the rows at hand are the candidate's, picked up no later, or those of items
\* that share its number.
ClosingLand ==
    pc \in ClosePCs =>
        /\ seen.head <= head[cur]
        /\ \A k \in Rows : feedback[k].item = cur /\ feedback[k].base # NoSha =>
                              feedback[k].base <= seen.head
        /\ \A k \in todo :
              k \in Rows /\ (OwnNumber(feedback[k].item) => feedback[k].item = cur)

\* What holds in every state.
LandInv ==
    /\ LoopInv
    /\ IdleOK
    /\ RowsOK
    /\ base # NoSha => base <= tip[cur]
    /\ ClosingLand
    /\ pc \in {"postClosing", "markAddressed"} => LandedRow(feedback[at])
    /\ AddressedIsLanded
\* What has landed stays landed.
LEMMA LandedGrows ==
  ASSUME Base, IdleOK, [Next]_vars, NEW row \in RowRec, row.spawned \subseteq 1..Len(tasks),
         LandedRow(row)
  PROVE  /\ row.base # NoSha
         /\ \A t \in row.spawned : tasks'[t].status = "Done"
         /\ OwnNumber(row.item) => head'[row.item] > row.base
  <1>1. row.item \in Item /\ row.base \in Nat
    BY DEF RowRec, LandedRow
  <1>2. head[row.item] \in Nat /\ head'[row.item] \in Nat
    BY <1>1, BaseStep DEF Base, Types, HostTypes
  <1>3. head[row.item] <= head'[row.item]
    BY <1>1, BranchesGrow
  <1>4. \A k \in 1..Len(tasks) : tasks[k].status = "Done" => tasks'[k].status = "Done"
    BY BaseStep DEF TasksGrow
  <1> QED BY <1>1, <1>2, <1>3, <1>4 DEF LandedRow

\* A row as this tick writes it.
NewRow(row) ==
    \/ row = [item |-> cur, state |-> "handled_reply", base |-> NoSha, spawned |-> {}]
    \/ row = [item |-> cur, state |-> "in_progress", base |-> base, spawned |-> spawned]

\* A row of another tick is the one it was, but for its state.
LEMMA RowsKeep ==
  ASSUME LandInv, [Next]_vars
  PROVE  /\ \A k \in Rows : /\ k \in Rows'
                            /\ feedback'[k].item = feedback[k].item
                            /\ feedback'[k].base = feedback[k].base
                            /\ feedback'[k].spawned = feedback[k].spawned
                            /\ feedback'[k].state = feedback[k].state \/ (MarkAddressed /\ k = at)
         /\ Rows' = Rows \/ (\E row : NewRow(row) /\ \A k \in Rows' \ Rows : feedback'[k] = row)
         /\ Rows' = Rows \/ (/\ cur \in Item /\ pc \notin ClosePCs /\ pc' \notin ClosePCs
                             /\ UNCHANGED <<tip, tasks>>)
  <1>0. Types /\ MemoryOK
    BY DEF LandInv, LoopInv, Base
  <1>1. CASE feedback' = feedback
    <2>1. Rows' = Rows
      BY <1>1 DEF Rows
    <2> QED BY <1>1, <2>1
  <1>2. CASE MarkAddressed
    <2>1. Rows' = Rows
      BY <1>0, <1>2, MarkAddressedKeeps
    <2>2. \A k \in Rows : /\ feedback'[k].item = feedback[k].item
                          /\ feedback'[k].base = feedback[k].base
                          /\ feedback'[k].spawned = feedback[k].spawned
                          /\ feedback'[k].state = feedback[k].state \/ k = at
      BY <1>0, <1>2, MarkAddressedKeeps
    <2> QED BY <1>2, <2>1, <2>2
  <1>3. CASE RecordHandled \/ RecordChange
    <2>1. PICK row \in RowRec : InsertRow(row) /\ NewRow(row)
      BY <1>0, <1>3, NewRowType DEF RecordHandled, RecordChange, NewRow
    <2>2. /\ cur \in Item /\ pc \notin ClosePCs /\ pc' \notin ClosePCs
          /\ UNCHANGED <<tip, tasks>>
      BY <1>0, <1>3, NewRowType DEF RecordHandled, RecordChange, ClosePCs, executor
    <2>3. /\ Rows' = Rows \cup {at}
          /\ \A k \in Rows : feedback'[k] = feedback[k]
          /\ at \notin Rows => feedback'[at] = row
      BY <1>0, <2>1, InsertRowKeeps
    <2>4. \A k \in Rows' \ Rows : feedback'[k] = row
      BY <2>3
    <2>5. \E r : NewRow(r) /\ \A k \in Rows' \ Rows : feedback'[k] = r
      BY <2>1, <2>4
    <2> QED BY <2>2, <2>3, <2>5
  <1>4. feedback' = feedback \/ Records
    <2>1. CASE Poll
      BY <2>1, PollSteps, PollKeeps
    <2> QED BY <2>1, NextCases DEF Outside, Crash, vars, db
  <1> QED BY <1>1, <1>2, <1>3, <1>4 DEF Records

\* A row keeps a base commit its item's branch has, and tasks that there are.
LEMMA RowsStep ==
  ASSUME LandInv, [Next]_vars
  PROVE  RowsOK' /\ (base' # NoSha => base' <= tip'[cur'])
  <1>0. /\ Base /\ Base' /\ Types /\ Types' /\ MemoryOK /\ MemoryOK' /\ TasksGrow /\ IdleOK /\ RowsOK
        /\ (base # NoSha => base <= tip[cur])
    BY BaseStep DEF LandInv, LoopInv, Base
  <1>1. \A i \in Item : tip[i] \in Nat /\ tip'[i] \in Nat /\ tip[i] <= tip'[i]
    BY <1>0, BranchesGrow DEF Types, WalkTypes
  <1>2. RowsOK'
    <2> SUFFICES ASSUME NEW k \in Rows'
                 PROVE  /\ feedback'[k].base # NoSha => feedback'[k].base <= tip'[feedback'[k].item]
                        /\ feedback'[k].spawned \subseteq 1..Len(tasks')
                        /\ feedback'[k].item \in Solo => feedback'[k].spawned = {}
      BY DEF RowsOK
    <2>1. CASE k \in Rows
      <3>1. /\ feedback'[k].item = feedback[k].item /\ feedback'[k].base = feedback[k].base
            /\ feedback'[k].spawned = feedback[k].spawned
        BY <2>1, RowsKeep
      <3>2. feedback[k] \in RowRec
        BY <1>0, <2>1 DEF Types, RowTypes
      <3>3. 1..Len(tasks) \subseteq 1..Len(tasks')
        BY <1>0 DEF TasksGrow, Types, RowTypes
      <3> QED BY <1>0, <1>1, <2>1, <3>1, <3>2, <3>3 DEF RowsOK, RowRec
    <2>2. CASE k \notin Rows
      <3>1. NewRow(feedback'[k]) /\ UNCHANGED <<tip, tasks>>
        BY <2>2, RowsKeep
      <3>2. spawned \subseteq 1..Len(tasks) /\ (cur \in Solo => spawned = {})
        BY <1>0, ReviewPollAssumption DEF Types, MemoryTypes, MemoryOK
      <3> QED BY <1>0, <3>1, <3>2 DEF NewRow
    <2> QED BY <2>1, <2>2
  <1>3. base' # NoSha => base' <= tip'[cur']
    <2>1. CASE base' = base /\ cur' = cur
      <3>1. base # NoSha => cur \in Item /\ base \in Nat
        BY <1>0 DEF MemoryOK, Types, MemoryTypes, WorkPCs
      <3> QED BY <1>0, <1>1, <2>1, <3>1
    <2>2. CASE CaptureBase
      BY <1>0, <2>2 DEF CaptureBase, executor, candidate, MemoryOK, Types, WalkTypes
    <2>3. CASE base' = NoSha
      BY <2>3
    <2>4. (base' = base /\ cur' = cur) \/ base' = NoSha \/ CaptureBase
      <3>1. base # NoSha => pc \in WorkPCs
        BY <1>0 DEF MemoryOK
      <3>2. CASE Poll
        BY <3>1, <3>2
        DEF Poll, Tick, LoadEpics, LoadTasks, EndTick, GetPull, GetPullFails, ApplyPullState,
            DeleteWorkspace, CheckRow, Triage, PostClosing, PostClosingFails, MarkAddressed,
            RecordClosing, FetchActionable, FetchFails, EndCandidate, TriageNone, TriageQuestion,
            TriageChange, PostAnswer, PostAnswerFails, RecordHandled, RecordReply, PostInterim,
            CreateTask, RecordChange, FlipEpic, AmendTask, NextCandidate, Return, WorkPCs,
            memory, tick, candidate, item
      <3>3. CASE Outside \/ UNCHANGED vars
        BY <3>3, OutsideKeeps DEF vars, memory, candidate, item
      <3>4. CASE Crash
        BY <3>4 DEF Crash, Return
      <3> QED BY <3>2, <3>3, <3>4, NextCases
    <2> QED BY <2>1, <2>2, <2>3, <2>4
  <1> QED BY <1>2, <1>3

\* A tick reads the head once, after the rows it is to close were written.
LEMMA ClosingStep ==
  ASSUME LandInv, [Next]_vars
  PROVE  ClosingLand'
  <1>0. Base /\ Base' /\ Types /\ MemoryOK /\ IdleOK /\ RowsOK /\ ClosingLand
    BY BaseStep DEF LandInv, LoopInv, Base
  <1>1. \A i \in Item : head[i] \in Nat /\ head'[i] \in Nat /\ head[i] <= head'[i]
    BY <1>0, BranchesGrow DEF Base, Types, HostTypes
  <1> SUFFICES ASSUME pc' \in ClosePCs
               PROVE  /\ seen'.head <= head'[cur']
                      /\ \A k \in Rows' : feedback'[k].item = cur' /\ feedback'[k].base # NoSha =>
                                          feedback'[k].base <= seen'.head
                      /\ \A k \in todo' :
                            k \in Rows' /\ (OwnNumber(feedback'[k].item) => feedback'[k].item = cur')
    BY DEF ClosingLand
  <1>2. CASE pc \in ClosePCs /\ UNCHANGED <<cur, seen>> /\ todo' \subseteq todo
    <2>1. cur \in Item /\ seen.head \in Nat
      BY <1>0, <1>2 DEF MemoryOK, ClosePCs, Types, MemoryTypes
    <2>2. Rows' = Rows
      BY <1>2, RowsKeep
    <2> QED BY <1>0, <1>1, <1>2, <2>1, <2>2, RowsKeep DEF ClosingLand
  <1>3. ASSUME NEW i \in Item, GetPull(i)
        PROVE  /\ seen'.head <= head'[cur']
               /\ \A k \in Rows' : feedback'[k].item = cur' /\ feedback'[k].base # NoSha =>
                                   feedback'[k].base <= seen'.head
               /\ \A k \in todo' :
                     k \in Rows' /\ (OwnNumber(feedback'[k].item) => feedback'[k].item = cur')
    <2>1. /\ cur' = i /\ seen'.head = head[i] /\ UNCHANGED <<feedback, head>> /\ i \in batch
          /\ todo' = InProgressRows(i)
      BY <1>3 DEF GetPull, host, db, ClosePCs
    <2>2. head[i] = tip[i]
      BY <1>0, <2>1 DEF IdleOK
    <2>3. \A k \in InProgressRows(i) :
             k \in Rows /\ (OwnNumber(feedback[k].item) => feedback[k].item = i)
      <3>1. \A k \in Rows : feedback[k].item \in Item
        BY <1>0 DEF Types, RowTypes, RowRec
      <3> QED BY <3>1 DEF InProgressRows, OwnNumber
    <2> QED BY <1>0, <1>1, <2>1, <2>2, <2>3 DEF RowsOK, Rows
  <1>4. (pc \in ClosePCs /\ UNCHANGED <<cur, seen>> /\ todo' \subseteq todo) \/ \E i \in Item : GetPull(i)
    <2>1. CASE Poll
      BY <2>1
      DEF Poll, Tick, LoadEpics, LoadTasks, EndTick, GetPullFails, ApplyPullState,
          DeleteWorkspace, CheckRow, Triage, PostClosing, PostClosingFails, MarkAddressed,
          RecordClosing, FetchActionable, FetchFails, EndCandidate, TriageNone, TriageQuestion,
          TriageChange, PostAnswer, PostAnswerFails, RecordHandled, RecordReply, PostInterim,
          CaptureBase, CreateTask, RecordChange, FlipEpic, AmendTask, NextCandidate, Return, ClosePCs,
          memory, tick, candidate, item
    <2>2. CASE Outside \/ UNCHANGED vars
      BY <2>2, OutsideKeeps DEF vars, memory, candidate
    <2>3. CASE Crash
      BY <2>3 DEF Crash, Return, ClosePCs
    <2> QED BY <2>1, <2>2, <2>3, NextCases
  <1> QED BY <1>2, <1>3, <1>4

\* The row that is closed has landed, from the check to the write.
LEMMA AtLandStep ==
  ASSUME LandInv, [Next]_vars, pc' \in {"postClosing", "markAddressed"}
  PROVE  at' \in Rows' /\ LandedRow(feedback[at])'
  <1>0. Base /\ Types /\ MemoryOK /\ IdleOK /\ RowsOK /\ ClosingLand
    BY DEF LandInv, LoopInv, Base
  <1>1. LoopInv'
    BY LoopStep DEF LandInv
  <1>2. at' \in Rows'
    BY <1>1 DEF LoopInv, ClosingOK, InProgress
  <1>3. ASSUME NEW k \in Rows, at' = k, LandedRow(feedback[k])
        PROVE  LandedRow(feedback[at])'
    <2>1. feedback[k] \in RowRec /\ feedback[k].spawned \subseteq 1..Len(tasks)
      BY <1>0 DEF Types, RowTypes, RowsOK
    <2>2. /\ feedback[k].base # NoSha
          /\ \A t \in feedback[k].spawned : tasks'[t].status = "Done"
          /\ OwnNumber(feedback[k].item) => head'[feedback[k].item] > feedback[k].base
      BY <1>0, <1>3, <2>1, LandedGrows
    <2>3. /\ feedback'[k].item = feedback[k].item /\ feedback'[k].base = feedback[k].base
          /\ feedback'[k].spawned = feedback[k].spawned
      BY RowsKeep
    <2> QED BY <1>3, <2>2, <2>3 DEF LandedRow
  <1>4. CASE pc \in {"postClosing", "markAddressed"} /\ at' = at
    <2>1. at \in Rows /\ LandedRow(feedback[at])
      BY <1>4 DEF LandInv, LoopInv, ClosingOK, InProgress
    <2> QED BY <1>2, <1>3, <1>4, <2>1
  <1>5. ASSUME NEW k \in todo, CheckRow(k)
        PROVE  LandedRow(feedback[at])'
    <2>1. pc = "closing" /\ at' = k /\ Landed(feedback[k])
      BY <1>5 DEF CheckRow
    <2>2. /\ k \in Rows /\ cur \in Item /\ seen.head <= head[cur]
          /\ OwnNumber(feedback[k].item) => feedback[k].item = cur
      BY <1>0, <2>1 DEF ClosingLand, ClosePCs, MemoryOK
    <2>3. /\ feedback[k].base \in Nat /\ feedback[k].base # NoSha
          /\ feedback[k].item = cur => seen.head # feedback[k].base
      BY <1>0, <2>1, <2>2 DEF Landed, Types, RowTypes, RowRec
    <2>4. feedback[k].item = cur => feedback[k].base <= seen.head
      BY <1>0, <2>1, <2>2, <2>3 DEF ClosingLand, ClosePCs
    <2>5. feedback[k].item = cur => head[cur] > feedback[k].base
      BY <1>0, <2>2, <2>3, <2>4 DEF Types, HostTypes, MemoryTypes
    <2>6. \A t \in feedback[k].spawned : tasks[t].status = "Done"
      BY <1>0, <2>1, <2>2 DEF Landed, WorkComplete, RowsOK
    <2>7. LandedRow(feedback[k])
      BY <2>2, <2>3, <2>5, <2>6 DEF LandedRow
    <2> QED BY <1>3, <2>1, <2>2, <2>7
  <1>6. (pc \in {"postClosing", "markAddressed"} /\ at' = at) \/ \E k \in todo : CheckRow(k)
    <2>1. CASE Poll
      BY <2>1
      DEF Poll, Tick, LoadEpics, LoadTasks, EndTick, GetPull, GetPullFails, ApplyPullState,
          DeleteWorkspace, Triage, PostClosing, PostClosingFails, MarkAddressed,
          RecordClosing, FetchActionable, FetchFails, EndCandidate, TriageNone, TriageQuestion,
          TriageChange, PostAnswer, PostAnswerFails, RecordHandled, RecordReply, PostInterim,
          CaptureBase, CreateTask, RecordChange, FlipEpic, AmendTask, NextCandidate, Return,
          memory, tick, candidate, item
    <2>2. CASE Outside \/ UNCHANGED vars
      BY <2>2, OutsideKeeps DEF vars, memory, item
    <2>3. CASE Crash
      BY <2>3 DEF Crash, Return
    <2> QED BY <2>1, <2>2, <2>3, NextCases
  <1> QED BY <1>2, <1>4, <1>5, <1>6

\* Every step keeps it.
LEMMA LandStep ==
  ASSUME LandInv, [Next]_vars
  PROVE  LandInv'
  <1>0. Base /\ Types /\ IdleOK /\ RowsOK /\ AddressedIsLanded
    BY DEF LandInv, LoopInv, Base
  <1>1. LoopInv' /\ IdleOK'
    BY <1>0, LoopStep, IdleStep DEF LandInv
  <1>2. RowsOK' /\ (base' # NoSha => base' <= tip'[cur']) /\ ClosingLand'
    BY RowsStep, ClosingStep
  <1>3. pc' \in {"postClosing", "markAddressed"} => LandedRow(feedback[at])'
    BY AtLandStep
  <1>4. AddressedIsLanded'
    <2> SUFFICES ASSUME NEW k \in Rows', feedback'[k].state = "addressed"
                 PROVE  /\ feedback'[k].base # NoSha
                        /\ \A t \in feedback'[k].spawned : tasks'[t].status = "Done"
                        /\ OwnNumber(feedback'[k].item) => head'[feedback'[k].item] > feedback'[k].base
      BY DEF AddressedIsLanded
    <2>1. k \in Rows
      BY RowsKeep DEF NewRow
    <2>2. LandedRow(feedback[k])
      <3>1. CASE feedback[k].state = "addressed"
        BY <1>0, <2>1, <3>1 DEF AddressedIsLanded, LandedRow
      <3>2. CASE MarkAddressed /\ k = at
        BY <3>2 DEF MarkAddressed, LandInv
      <3> QED BY <2>1, <3>1, <3>2, RowsKeep
    <2>3. feedback[k] \in RowRec /\ feedback[k].spawned \subseteq 1..Len(tasks)
      BY <1>0, <2>1 DEF Types, RowTypes, RowsOK
    <2>4. /\ feedback[k].base # NoSha
          /\ \A t \in feedback[k].spawned : tasks'[t].status = "Done"
          /\ OwnNumber(feedback[k].item) => head'[feedback[k].item] > feedback[k].base
      BY <1>0, <2>2, <2>3, LandedGrows
    <2>5. /\ feedback'[k].item = feedback[k].item /\ feedback'[k].base = feedback[k].base
          /\ feedback'[k].spawned = feedback[k].spawned
      BY <2>1, RowsKeep
    <2> QED BY <2>4, <2>5
  <1> QED BY <1>1, <1>2, <1>3, <1>4 DEF LandInv

\* A comment is said to be addressed only when its own tasks are done and, unless
\* another repository has a pull request of the same number, its own branch has
\* moved: for any items, numbers, comments, failures and crashes.
THEOREM AddressedHasLanded == Spec => []AddressedIsLanded
  <1>1. Init => LandInv
    <2>1. Init => LoopInv
      BY InitTypes DEF Init, LoopInv, Base, PostsKnown, PostId, ClosingOK, ItemsOK, ClosePCs, ItemPCs,
                       AtWorkPCs
    <2>2. Init => IdleOK /\ RowsOK /\ base = NoSha /\ ClosingLand /\ AddressedIsLanded /\ pc = "sleep"
      BY DEF Init, IdleOK, RowsOK, ClosingLand, AddressedIsLanded, Rows, ClosePCs
    <2> QED BY <2>1, <2>2 DEF LandInv
  <1>2. LandInv /\ [Next]_vars => LandInv'
    BY LandStep
  <1>3. LandInv => AddressedIsLanded
    BY DEF LandInv
  <1> QED BY <1>1, <1>2, <1>3, PTL DEF Spec

=============================================================================
