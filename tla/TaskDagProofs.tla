--------------------------- MODULE TaskDagProofs ---------------------------
(***************************************************************************)
(* Proofs about TaskDag, for any tasks, handlers, faults and bounds: no    *)
(* edge closes a cycle until one is inserted between the check and the     *)
(* INSERT of another, an aborted breakdown leaves nothing behind, and an   *)
(* epic is Ready only with all its agent wrote.                            *)
(***************************************************************************)
EXTENDS TaskDag, TLAPS

Edges == SUBSET (Task \X Task)

\* A task is reached from itself.
LEMMA ReachSelf ==
  ASSUME NEW E, NEW x \in Task
  PROVE  x \in Reach(E, x)
  BY DEF Reach

\* The edges do not lead out of what they reach.
LEMMA ReachClosed ==
  ASSUME NEW E \in Edges, NEW x \in Task
  PROVE  Closed(E, Reach(E, x))
  <1> SUFFICES ASSUME NEW e \in E, e[1] \in Reach(E, x),
                      NEW S \in SUBSET Task, x \in S, Closed(E, S)
               PROVE  e[2] \in S /\ e[2] \in Task
    BY DEF Closed, Reach, Edges
  <1>1. e[1] \in S
    BY DEF Reach
  <1> QED BY <1>1 DEF Closed, Edges

\* Nor do they reach beyond any set that they do not lead out of.
LEMMA ReachLeast ==
  ASSUME NEW E, NEW x, NEW S \in SUBSET Task, x \in S, Closed(E, S)
  PROVE  Reach(E, x) \subseteq S
  BY DEF Reach

\* Fewer edges reach less.
LEMMA ReachShrinks ==
  ASSUME NEW E, NEW F \in SUBSET E, NEW x
  PROVE  Reach(F, x) \subseteq Reach(E, x)
  BY DEF Reach, Closed

NoCycle(E) == \A e \in E : e[1] \notin Reach(E, e[2])

\* Removing edges closes no cycle.
LEMMA RemovalKeepsOrder ==
  ASSUME NEW E, NoCycle(E), NEW F \in SUBSET E
  PROVE  NoCycle(F)
  BY ReachShrinks DEF NoCycle

\* What would_create_cycle decides is right: an edge whose blocker is not
\* reached from its blocked task closes no cycle.
LEMMA CheckIsRight ==
  ASSUME NEW E \in Edges, NoCycle(E), NEW a \in Task, NEW b \in Task, a \notin Reach(E, b)
  PROVE  NoCycle(E \cup {<<a, b>>})
  <1> DEFINE F == E \cup {<<a, b>>}
  <1>1. ASSUME NEW S \in SUBSET Task, Closed(E, S), a \in S => b \in S
        PROVE  Closed(F, S)
    BY <1>1 DEF Closed
  <1>2. Reach(F, b) \subseteq Reach(E, b)
    <2>1. Reach(E, b) \in SUBSET Task
      BY DEF Reach
    <2>2. Closed(F, Reach(E, b))
      BY <1>1, <2>1, ReachClosed
    <2> HIDE DEF F
    <2> QED BY <2>1, <2>2, ReachSelf, ReachLeast
  <1>3. ASSUME NEW e \in E
        PROVE  e[1] \notin Reach(F, e[2])
    <2>1. e[1] \in Task /\ e[2] \in Task /\ e[1] \notin Reach(E, e[2])
      BY <1>3 DEF Edges, NoCycle
    <2> DEFINE S == Reach(E, e[2])
    <2>2. S \in SUBSET Task /\ Closed(E, S) /\ e[2] \in S
      BY <2>1, ReachClosed, ReachSelf DEF Reach
    <2>3. CASE a \notin S
      <3>1. Closed(F, S)
        BY <1>1, <2>2, <2>3
      <3> HIDE DEF F, S
      <3>2. Reach(F, e[2]) \subseteq S
        BY <2>2, <3>1, ReachLeast
      <3> QED BY <2>1, <3>2 DEF S
    <2>4. CASE a \in S
      <3> DEFINE U == S \cup Reach(E, b)
      <3>1. Reach(E, b) \in SUBSET Task /\ Closed(E, Reach(E, b)) /\ b \in Reach(E, b)
        BY ReachClosed, ReachSelf DEF Reach
      <3>2. U \in SUBSET Task /\ Closed(E, U) /\ b \in U /\ e[2] \in U
        BY <2>2, <3>1 DEF Closed
      <3>3. e[1] \notin Reach(E, b)
        <4>1. SUFFICES ASSUME e[1] \in Reach(E, b)
                       PROVE  FALSE
          OBVIOUS
        <4>2. e[2] \in Reach(E, b)
          BY <1>3, <3>1, <4>1 DEF Closed
        <4> HIDE DEF S
        <4>3. S \subseteq Reach(E, b)
          BY <3>1, <4>2, ReachLeast DEF S
        <4> QED BY <2>4, <4>3
      <3>4. Closed(F, U)
        BY <1>1, <3>2
      <3>5. e[1] \notin U
        BY <2>1, <3>3
      <3> HIDE DEF F, S, U
      <3>6. Reach(F, e[2]) \subseteq U
        BY <3>2, <3>4, ReachLeast
      <3> QED BY <3>5, <3>6
    <2> QED BY <2>3, <2>4
  <1>4. a \notin Reach(F, b)
    BY <1>2
  <1> HIDE DEF F
  <1>5. \A e \in F : e[1] \notin Reach(F, e[2])
    BY <1>3, <1>4 DEF F
  <1> QED BY <1>5 DEF NoCycle, F

-----------------------------------------------------------------------------
CallRec == [pc : {"idle", "check", "insert", "delete", "acquire"},
            op : {"none", "create", "link", "delete", "breakdown"},
            task : Task \cup {NoTask}, blocked : Task \cup {NoTask}]
RunRec == [pc : {"none", "start", "running", "ready", "rollback", "deleting", "deletingRow"},
           pre : SUBSET Task, failed : {"no", "yes"}, left : SUBSET Task,
           at : Task \cup {NoTask}]

GraphTypes == rows \subseteq Task /\ by \in [Task -> Nat] /\ deps \in Edges
Types ==
    /\ GraphTypes
    /\ call \in [Caller -> CallRec]
    /\ run \in RunRec
    /\ runs \in 0..MaxRuns

\* Who may be in the middle of what.
CallsOK ==
    /\ \A h \in Handler : /\ call[h].pc \in {"check", "insert"} => "link" \in HumanOps
                          /\ call[h].pc = "acquire" => "breakdown" \in HumanOps
    /\ call[Agent].pc \in {"idle", "check", "insert"}
    /\ call[Agent].pc # "idle" \/ run.pc # "none" => runs > 0
    /\ runs > 0 => "breakdown" \in HumanOps

Base == Types /\ CallsOK

\* One caller moves: the others stand where they stood.
LEMMA OneCallMoves ==
  ASSUME Types, NEW c \in Caller, NEW r \in CallRec, call' = [call EXCEPT ![c] = r]
  PROVE  /\ call' \in [Caller -> CallRec] /\ call'[c] = r
         /\ \A d \in Caller \ {c} : call'[d] = call[d]
  BY DEF Types

\* A request ends.
LEMMA DoneMoves ==
  ASSUME Types, NEW c \in Caller, Done(c)
  PROVE  /\ call' \in [Caller -> CallRec] /\ call'[c].pc = "idle"
         /\ \A d \in Caller \ {c} : call'[d] = call[d]
  <1>1. NoCall \in CallRec /\ NoCall.pc = "idle"
    BY DEF NoCall, CallRec
  <1> QED BY <1>1, OneCallMoves DEF Done

\* A refused call ends, and the run remembers one of its own agent.
LEMMA RejectedMoves ==
  ASSUME Types, NEW c \in Caller, Rejected(c)
  PROVE  /\ call' \in [Caller -> CallRec] /\ call'[c].pc = "idle"
         /\ \A d \in Caller \ {c} : call'[d] = call[d]
         /\ run' \in RunRec
         /\ run'.pc = run.pc /\ run'.pre = run.pre /\ run'.left = run.left /\ run'.at = run.at
         /\ c # Agent => run' = run
  <1>1. Done(c) /\ (run' = [run EXCEPT !.failed = "yes"] \/ run' = run) /\ (c # Agent => run' = run)
    BY DEF Rejected
  <1>2. run \in RunRec
    BY DEF Types
  <1>3. /\ run' \in RunRec /\ run'.pc = run.pc /\ run'.pre = run.pre
        /\ run'.left = run.left /\ run'.at = run.at
    BY <1>1, <1>2 DEF RunRec
  <1> QED BY <1>1, <1>3, DoneMoves

\* The handlers of requests, the agent's and the users'.
Requests ==
    \/ \E c \in Caller :
         \/ \E t \in Task, b \in rows \cup {NoTask} : CreateTask(c, t, b)
         \/ \E a, b \in rows : PostDependency(c, a, b)
         \/ CallFails(c) \/ LinkCheck(c) \/ LinkInsert(c)
    \/ \E h \in Handler :
         \/ \E e \in deps : Unlink(h, e)
         \/ \E t \in rows : DeleteEdges(h, t)
         \/ DeleteRow(h) \/ TriggerRead(h) \/ TriggerAcquire(h)

\* The run itself.
RunSteps ==
    \/ SettingsFail \/ SnapshotTasks \/ AgentExits \/ AgentDies
    \/ RollbackList \/ (\E t \in run.left : RollbackEdges(t) \/ RollbackFails(t)) \/ RollbackRow
    \/ RollbackEnds \/ MoveToReady

\* A step is of a request, of the run, or of what is around them.
LEMMA NextCases ==
  ASSUME [Next]_vars
  PROVE  Requests \/ RunSteps \/ CancelEpic \/ MapChanges \/ Crash \/ UNCHANGED vars
  BY DEF Next, Requests, RunSteps

\* Requests keep the types and their own order.
LEMMA RequestsBase ==
  ASSUME Base, Requests
  PROVE  Base'
  <1>0. Types /\ CallsOK /\ GraphTypes /\ Agent \in Caller /\ Agent \notin Handler /\ MaxRuns \in Nat
        /\ Handler = Caller \ {Agent} /\ NoTask \notin Task
    BY TaskDagAssumption DEF Base, Types, Caller
  <1>1. ASSUME NEW c \in Caller, NEW t \in Task, NEW b \in rows \cup {NoTask}, CreateTask(c, t, b)
        PROVE  Base'
    <2>1. GraphTypes' /\ UNCHANGED <<run, runs>>
      BY <1>0, <1>1 DEF CreateTask, GraphTypes, Types, Human, counters
    <2>2. CASE b = NoTask
      BY <1>0, <1>1, <2>1, <2>2 DEF CreateTask, Base, Types, CallsOK
    <2>3. CASE b # NoTask
      <3> DEFINE r == [pc |-> "check", op |-> "create", task |-> t, blocked |-> b]
      <3>1. r \in CallRec /\ r.pc = "check"
        BY <1>0, <2>3 DEF CallRec, GraphTypes
      <3>2. call' = [call EXCEPT ![c] = r] /\ May(c, "link")
        BY <1>1, <2>3 DEF CreateTask
      <3> HIDE DEF r
      <3>3. call' \in [Caller -> CallRec] /\ call'[c].pc = "check" /\ \A d \in Caller \ {c} : call'[d] = call[d]
        BY <1>0, <3>1, <3>2, OneCallMoves
      <3>4. CallsOK'
        BY <1>0, <2>1, <3>2, <3>3 DEF CallsOK, May
      <3> QED BY <1>0, <2>1, <3>3, <3>4 DEF Base, Types
    <2> QED BY <2>2, <2>3
  <1>2. ASSUME NEW c \in Caller, NEW a \in rows, NEW b \in rows, PostDependency(c, a, b)
        PROVE  Base'
    <2> DEFINE r == [pc |-> "check", op |-> "link", task |-> a, blocked |-> b]
    <2>1. r \in CallRec /\ r.pc = "check"
      BY <1>0 DEF CallRec, GraphTypes
    <2>2. call' = [call EXCEPT ![c] = r] /\ May(c, "link") /\ UNCHANGED <<graph, run, runs>>
      BY <1>2 DEF PostDependency, counters
    <2> HIDE DEF r
    <2>3. call' \in [Caller -> CallRec] /\ call'[c].pc = "check" /\ \A d \in Caller \ {c} : call'[d] = call[d]
      BY <1>0, <2>1, <2>2, OneCallMoves
    <2>4. CallsOK'
      BY <1>0, <2>2, <2>3 DEF CallsOK, May
    <2> QED BY <1>0, <2>2, <2>3, <2>4 DEF Base, Types, GraphTypes, graph
  <1>3. ASSUME NEW c \in Caller, CallFails(c)
        PROVE  Base'
    <2>1. Rejected(c) /\ UNCHANGED <<graph, runs>>
      BY <1>3 DEF CallFails
    <2>2. CallsOK' /\ call' \in [Caller -> CallRec] /\ run' \in RunRec
      BY <1>0, <2>1, RejectedMoves DEF CallsOK
    <2> QED BY <1>0, <2>1, <2>2 DEF Base, Types, GraphTypes, graph
  <1>4. ASSUME NEW c \in Caller, LinkCheck(c)
        PROVE  Base'
    <2>1. UNCHANGED <<graph, runs>> /\ call[c].pc = "check"
      BY <1>4 DEF LinkCheck, counters
    <2>2. CASE Rejected(c)
      <3>1. CallsOK' /\ call' \in [Caller -> CallRec] /\ run' \in RunRec
        BY <1>0, <2>1, <2>2, RejectedMoves DEF CallsOK
      <3> QED BY <1>0, <2>1, <3>1 DEF Base, Types, GraphTypes, graph
    <2>3. CASE call' = [call EXCEPT ![c].pc = "insert"] /\ UNCHANGED run
      <3> DEFINE r == [call[c] EXCEPT !.pc = "insert"]
      <3>1. r \in CallRec /\ r.pc = "insert" /\ call' = [call EXCEPT ![c] = r]
        <4>1. call[c] \in CallRec
          BY <1>0 DEF Types
        <4> QED BY <2>3, <4>1 DEF CallRec
      <3> HIDE DEF r
      <3>2. call' \in [Caller -> CallRec] /\ call'[c].pc = "insert" /\ \A d \in Caller \ {c} : call'[d] = call[d]
        BY <1>0, <3>1, OneCallMoves
      <3>3. CallsOK'
        BY <1>0, <2>1, <2>3, <3>2 DEF CallsOK
      <3> QED BY <1>0, <2>1, <2>3, <3>2, <3>3 DEF Base, Types, GraphTypes, graph
    <2> QED BY <1>4, <2>2, <2>3 DEF LinkCheck
  <1>5. ASSUME NEW c \in Caller, LinkInsert(c)
        PROVE  Base'
    <2>1. UNCHANGED <<rows, by, runs>> /\ deps' \in Edges
      BY <1>0, <1>5 DEF LinkInsert, counters, GraphTypes, Edges
    <2>2. CASE Rejected(c)
      <3>1. CallsOK' /\ call' \in [Caller -> CallRec] /\ run' \in RunRec
        BY <1>0, <1>5, <2>1, <2>2, RejectedMoves DEF CallsOK, LinkInsert
      <3> QED BY <1>0, <2>1, <3>1 DEF Base, Types, GraphTypes
    <2>3. CASE Done(c) /\ UNCHANGED run
      <3>1. CallsOK' /\ call' \in [Caller -> CallRec]
        BY <1>0, <2>1, <2>3, DoneMoves DEF CallsOK
      <3> QED BY <1>0, <2>1, <2>3, <3>1 DEF Base, Types, GraphTypes
    <2> QED BY <1>5, <2>2, <2>3 DEF LinkInsert
  <1>6. ASSUME NEW h \in Handler, NEW e \in deps, Unlink(h, e)
        PROVE  Base'
    BY <1>0, <1>6 DEF Unlink, counters, Base, Types, GraphTypes, Edges, CallsOK
  <1>7. ASSUME NEW h \in Handler, NEW t \in rows, DeleteEdges(h, t)
        PROVE  Base'
    <2> DEFINE r == [pc |-> "delete", op |-> "delete", task |-> t, blocked |-> NoTask]
    <2>1. r \in CallRec /\ r.pc = "delete"
      BY <1>0 DEF CallRec, GraphTypes
    <2>2. call' = [call EXCEPT ![h] = r] /\ UNCHANGED <<rows, by, run, runs>> /\ deps' \in Edges
      BY <1>0, <1>7 DEF DeleteEdges, counters, GraphTypes, Edges
    <2> HIDE DEF r
    <2>3. call' \in [Caller -> CallRec] /\ call'[h].pc = "delete" /\ \A d \in Caller \ {h} : call'[d] = call[d]
      BY <1>0, <2>1, <2>2, OneCallMoves
    <2>4. CallsOK'
      BY <1>0, <2>2, <2>3 DEF CallsOK
    <2> QED BY <1>0, <2>2, <2>3, <2>4 DEF Base, Types, GraphTypes
  <1>8. ASSUME NEW h \in Handler, DeleteRow(h)
        PROVE  Base'
    <2>1. Done(h) /\ UNCHANGED <<by, deps, run, runs>> /\ rows' \subseteq Task
      BY <1>0, <1>8 DEF DeleteRow, counters, GraphTypes
    <2>2. CallsOK' /\ call' \in [Caller -> CallRec]
      BY <1>0, <2>1, DoneMoves DEF CallsOK
    <2> QED BY <1>0, <2>1, <2>2 DEF Base, Types, GraphTypes
  <1>9. ASSUME NEW h \in Handler, TriggerRead(h)
        PROVE  Base'
    <2> DEFINE r == [NoCall EXCEPT !.pc = "acquire", !.op = "breakdown"]
    <2>1. r \in CallRec /\ r.pc = "acquire"
      BY DEF CallRec, NoCall
    <2>2. call' = [call EXCEPT ![h] = r] /\ UNCHANGED <<graph, run, runs>> /\ "breakdown" \in HumanOps
      BY <1>0, <1>9 DEF TriggerRead, May, counters
    <2> HIDE DEF r
    <2>3. call' \in [Caller -> CallRec] /\ call'[h].pc = "acquire" /\ \A d \in Caller \ {h} : call'[d] = call[d]
      BY <1>0, <2>1, <2>2, OneCallMoves
    <2>4. CallsOK'
      BY <1>0, <2>2, <2>3 DEF CallsOK
    <2> QED BY <1>0, <2>2, <2>3, <2>4 DEF Base, Types, GraphTypes, graph
  <1>10. ASSUME NEW h \in Handler, TriggerAcquire(h)
         PROVE  Base'
    <2>1. /\ Done(h) /\ UNCHANGED graph /\ call[h].pc = "acquire"
          /\ \/ UNCHANGED <<run, runs>>
             \/ runs < MaxRuns /\ runs' = runs + 1 /\ run' = [NoRun EXCEPT !.pc = "start"]
      BY <1>10 DEF TriggerAcquire
    <2>2. [NoRun EXCEPT !.pc = "start"] \in RunRec
      BY DEF NoRun, RunRec
    <2>3. run' \in RunRec /\ runs' \in 0..MaxRuns
      BY <1>0, <2>1, <2>2 DEF Types
    <2>4. "breakdown" \in HumanOps /\ runs \in Nat
      BY <1>0, <2>1 DEF CallsOK, Types
    <2>5. CallsOK' /\ call' \in [Caller -> CallRec]
      BY <1>0, <2>1, <2>4, DoneMoves DEF CallsOK
    <2> QED BY <1>0, <2>1, <2>3, <2>5 DEF Base, Types, GraphTypes, graph
  <1> QED BY <1>1, <1>2, <1>3, <1>4, <1>5, <1>6, <1>7, <1>8, <1>9, <1>10 DEF Requests

\* The run keeps the types, and touches no request.
LEMMA RunBase ==
  ASSUME Base, RunSteps
  PROVE  /\ Base' /\ UNCHANGED <<by, call, runs, races>> /\ rows' \subseteq rows /\ deps' \subseteq deps
         /\ run.pc # "none"
  <1>0. Types /\ CallsOK /\ run \in RunRec /\ rows \subseteq Task
    BY DEF Base, Types, GraphTypes
  <1>1. UNCHANGED <<by, call, runs, races>> /\ rows' \subseteq rows /\ deps' \subseteq deps /\ run.pc # "none"
    BY DEF RunSteps, SettingsFail, SnapshotTasks, AgentExits, AgentDies, RollbackList, RollbackEdges,
           RollbackFails, RollbackRow, RollbackEnds, MoveToReady, graph, counters
  <1>2. run' \in RunRec
    <2>1. NoRun \in RunRec
      BY DEF NoRun, RunRec
    <2>2. CASE SettingsFail \/ RollbackEnds \/ MoveToReady
      BY <2>1, <2>2 DEF SettingsFail, RollbackEnds, MoveToReady, Idle
    <2>3. CASE SnapshotTasks \/ AgentExits \/ AgentDies \/ RollbackList \/ RollbackRow
      BY <1>0, <2>3 DEF SnapshotTasks, AgentExits, AgentDies, RollbackList, RollbackRow, RunRec
    <2>4. ASSUME NEW t \in run.left, RollbackEdges(t) \/ RollbackFails(t)
          PROVE  run' \in RunRec
      BY <1>0, <2>4 DEF RollbackEdges, RollbackFails, RunRec
    <2> QED BY <2>2, <2>3, <2>4 DEF RunSteps
  <1>3. GraphTypes'
    BY <1>0, <1>1 DEF Types, GraphTypes, Edges
  <1>4. CallsOK'
    BY <1>0, <1>1 DEF CallsOK
  <1> QED BY <1>0, <1>1, <1>2, <1>3, <1>4 DEF Base, Types

\* A crash forgets the requests and the run.
LEMMA CrashBase ==
  ASSUME Base, Crash
  PROVE  /\ Base' /\ UNCHANGED <<epic, rows, by, deps, runs, races>> /\ run' = NoRun
         /\ \A c \in Caller : call'[c].pc = "idle"
  <1>1. UNCHANGED <<epic, rows, by, deps, runs, races>> /\ run' = NoRun /\ call' = [c \in Caller |-> NoCall]
    BY DEF Crash, Idle, graph
  <1>2. NoRun \in RunRec /\ NoCall \in CallRec /\ NoCall.pc = "idle" /\ NoRun.pc = "none"
    BY DEF NoRun, RunRec, NoCall, CallRec
  <1> HIDE DEF NoCall, NoRun
  <1>3. call' \in [Caller -> CallRec] /\ \A c \in Caller : call'[c].pc = "idle"
    BY <1>1, <1>2
  <1> QED BY <1>1, <1>2, <1>3 DEF Base, Types, GraphTypes, CallsOK, Caller

\* Every step keeps the types.
LEMMA BaseStep ==
  ASSUME Base, [Next]_vars
  PROVE  Base'
  <1>1. CASE CancelEpic \/ MapChanges \/ UNCHANGED vars
    BY <1>1 DEF CancelEpic, MapChanges, vars, graph, counters, Base, Types, GraphTypes, CallsOK
  <1> QED BY <1>1, NextCases, RequestsBase, RunBase, CrashBase

\* A new epic.
LEMMA InitBase == Init => Base
  <1>1. NoRun \in RunRec /\ NoCall \in CallRec /\ NoCall.pc = "idle" /\ NoRun.pc = "none"
    BY DEF NoRun, RunRec, NoCall, CallRec
  <1> HIDE DEF NoCall, NoRun
  <1> QED BY <1>1, TaskDagAssumption DEF Init, Base, Types, GraphTypes, CallsOK, Caller, Edges

-----------------------------------------------------------------------------
(***************************************************************************)
(* No cycle.                                                               *)
(***************************************************************************)

\* An edge that is about to be inserted was checked, and still closes no cycle,
\* as long as no other was inserted in between.
OrderInv ==
    /\ Base
    /\ "links" \notin races =>
          /\ NoCycle(deps)
          /\ \A c \in Caller : call[c].pc = "insert" => call[c].task \notin Reach(deps, call[c].blocked)

\* A check that holds goes on holding while edges only go.
LEMMA OrderShrinks ==
  ASSUME OrderInv, Base', deps' \subseteq deps, races \subseteq races',
         \A c \in Caller : call'[c].pc = "insert" => call'[c] = call[c]
  PROVE  OrderInv'
  <1> SUFFICES ASSUME "links" \notin races
               PROVE  /\ NoCycle(deps')
                      /\ \A c \in Caller : call'[c].pc = "insert" =>
                            call'[c].task \notin Reach(deps', call'[c].blocked)
    BY DEF OrderInv
  <1>1. NoCycle(deps')
    BY RemovalKeepsOrder DEF OrderInv
  <1>2. ASSUME NEW c \in Caller, call'[c].pc = "insert"
        PROVE  call'[c].task \notin Reach(deps', call'[c].blocked)
    <2>1. call'[c] = call[c] /\ call[c].task \notin Reach(deps, call[c].blocked)
      BY <1>2 DEF OrderInv
    <2>2. Reach(deps', call[c].blocked) \subseteq Reach(deps, call[c].blocked)
      BY ReachShrinks
    <2> QED BY <2>1, <2>2
  <1> QED BY <1>1, <1>2

\* The requests, the inserting ones last.
LEMMA OrderRequests ==
  ASSUME OrderInv, Requests
  PROVE  OrderInv'
  <1>0. Base /\ Base' /\ Types /\ GraphTypes
    BY RequestsBase DEF OrderInv, Base, Types
  <1>1. ASSUME NEW c \in Caller, Rejected(c) \/ Done(c), deps' \subseteq deps, races \subseteq races'
        PROVE  OrderInv'
    BY <1>0, <1>1, RejectedMoves, DoneMoves, OrderShrinks
  <1>2. ASSUME NEW c \in Caller, NEW t \in Task, NEW b \in rows \cup {NoTask}, CreateTask(c, t, b)
        PROVE  OrderInv'
    <2> DEFINE r == [pc |-> "check", op |-> "create", task |-> t, blocked |-> b]
    <2>1. deps' = deps /\ races' = races /\ (call' = call \/ call' = [call EXCEPT ![c] = r]) /\ r.pc = "check"
      BY <1>2 DEF CreateTask
    <2> HIDE DEF r
    <2>2. \A d \in Caller : call'[d].pc = "insert" => call'[d] = call[d]
      BY <1>0, <2>1 DEF Types
    <2> QED BY <1>0, <2>1, <2>2, OrderShrinks
  <1>3. ASSUME NEW c \in Caller, NEW a \in rows, NEW b \in rows, PostDependency(c, a, b)
        PROVE  OrderInv'
    <2> DEFINE r == [pc |-> "check", op |-> "link", task |-> a, blocked |-> b]
    <2>1. deps' = deps /\ races' = races /\ call' = [call EXCEPT ![c] = r] /\ r.pc = "check"
      BY <1>3 DEF PostDependency, graph
    <2> HIDE DEF r
    <2>2. \A d \in Caller : call'[d].pc = "insert" => call'[d] = call[d]
      BY <1>0, <2>1 DEF Types
    <2> QED BY <1>0, <2>1, <2>2, OrderShrinks
  <1>4. ASSUME NEW h \in Handler, NEW t \in rows, DeleteEdges(h, t)
        PROVE  OrderInv'
    <2> DEFINE r == [pc |-> "delete", op |-> "delete", task |-> t, blocked |-> NoTask]
    <2>1. deps' \subseteq deps /\ races' = races /\ call' = [call EXCEPT ![h] = r] /\ r.pc = "delete"
      BY <1>4 DEF DeleteEdges
    <2> HIDE DEF r
    <2>2. \A d \in Caller : call'[d].pc = "insert" => call'[d] = call[d]
      BY <1>0, <2>1 DEF Types, Caller
    <2> QED BY <1>0, <2>1, <2>2, OrderShrinks
  <1>5. ASSUME NEW h \in Handler, TriggerRead(h)
        PROVE  OrderInv'
    <2> DEFINE r == [NoCall EXCEPT !.pc = "acquire", !.op = "breakdown"]
    <2>1. deps' = deps /\ races' = races /\ call' = [call EXCEPT ![h] = r] /\ r.pc = "acquire"
      BY <1>5 DEF TriggerRead, graph, NoCall
    <2> HIDE DEF r
    <2>2. \A d \in Caller : call'[d].pc = "insert" => call'[d] = call[d]
      BY <1>0, <2>1 DEF Types, Caller
    <2> QED BY <1>0, <2>1, <2>2, OrderShrinks
  <1>6. ASSUME NEW h \in Handler, TriggerAcquire(h) \/ DeleteRow(h) \/ \E e \in deps : Unlink(h, e)
        PROVE  OrderInv'
    <2>1. (Done(h) \/ call' = call) /\ deps' \subseteq deps /\ races' = races
      BY <1>6 DEF TriggerAcquire, DeleteRow, Unlink, graph
    <2> QED BY <1>0, <1>1, <2>1, OrderShrinks DEF Caller
  <1>7. ASSUME NEW c \in Caller, CallFails(c)
        PROVE  OrderInv'
    BY <1>1, <1>7 DEF CallFails, graph
  <1>8. ASSUME NEW c \in Caller, LinkCheck(c)
        PROVE  OrderInv'
    <2>1. deps' = deps /\ races' = races /\ call[c].pc = "check"
      BY <1>8 DEF LinkCheck, graph
    <2>2. CASE Rejected(c)
      BY <1>1, <2>1, <2>2
    <2>3. CASE ~Rejected(c)
      <3>1. /\ call' = [call EXCEPT ![c].pc = "insert"]
            /\ call[c].task \in rows /\ call[c].blocked \in rows
            /\ call[c].task \notin Reach(deps, call[c].blocked)
        BY <1>8, <2>3 DEF LinkCheck, would_create_cycle
      <3>2. /\ call'[c].task = call[c].task /\ call'[c].blocked = call[c].blocked
            /\ \A d \in Caller \ {c} : call'[d] = call[d]
        BY <1>0, <3>1 DEF Types, CallRec
      <3>3. "links" \notin races => \A d \in Caller : call'[d].pc = "insert" =>
               call'[d].task \notin Reach(deps, call'[d].blocked)
        BY <3>1, <3>2 DEF OrderInv
      <3> QED BY <1>0, <2>1, <3>3 DEF OrderInv
    <2> QED BY <2>2, <2>3
  <1>9. ASSUME NEW c \in Caller, LinkInsert(c)
        PROVE  OrderInv'
    <2> DEFINE a == call[c].task
               b == call[c].blocked
    <2>1. call[c].pc = "insert"
      BY <1>9 DEF LinkInsert
    <2>2. CASE Rejected(c) /\ deps' = deps /\ races' = races
      BY <1>1, <2>2
    <2>3. ASSUME Done(c), deps' = deps \cup {<<a, b>>}, a \in rows, b \in rows,
                 races \subseteq races', Overtakes(c) => "links" \in races'
          PROVE  OrderInv'
      <3> SUFFICES ASSUME "links" \notin races'
                   PROVE  /\ NoCycle(deps')
                          /\ \A d \in Caller : call'[d].pc # "insert"
        BY <1>0 DEF OrderInv
      <3>1. /\ a \in Task /\ b \in Task /\ deps \in Edges
            /\ NoCycle(deps) /\ a \notin Reach(deps, b)
        BY <1>0, <2>1, <2>3 DEF OrderInv, GraphTypes
      <3>2. \A d \in Caller : call'[d].pc # "insert"
        BY <1>0, <2>3, DoneMoves DEF Overtakes
      <3> HIDE DEF a, b
      <3>3. NoCycle(deps')
        BY <2>3, <3>1, CheckIsRight
      <3> QED BY <3>2, <3>3
    <2> QED BY <1>9, <2>2, <2>3 DEF LinkInsert
  <1> QED BY <1>2, <1>3, <1>4, <1>5, <1>6, <1>7, <1>8, <1>9 DEF Requests

\* However many users and agents link, unlink and delete at once, the graph has no
\* cycle until an edge is inserted between the check and the INSERT of another.
THEOREM GraphHasNoCycle == Spec => []Acyclic
  <1>1. Init => OrderInv
    <2> SUFFICES ASSUME Init PROVE OrderInv
      OBVIOUS
    <2>1. deps = {} /\ \A c \in Caller : call[c].pc = "idle"
      BY DEF Init, NoCall
    <2> QED BY <2>1, InitBase DEF OrderInv, NoCycle
  <1>2. OrderInv /\ [Next]_vars => OrderInv'
    <2> SUFFICES ASSUME OrderInv, [Next]_vars PROVE OrderInv'
      OBVIOUS
    <2>0. Base /\ Base'
      BY BaseStep DEF OrderInv
    <2>1. CASE RunSteps
      BY <2>0, <2>1, RunBase, OrderShrinks
    <2>2. CASE CancelEpic \/ MapChanges \/ UNCHANGED vars
      BY <2>0, <2>2, OrderShrinks DEF CancelEpic, MapChanges, vars, graph
    <2>3. CASE Crash
      BY <2>0, <2>3, CrashBase, OrderShrinks
    <2> QED BY <2>1, <2>2, <2>3, OrderRequests, NextCases
  <1>3. OrderInv => Acyclic
    BY DEF OrderInv, NoCycle, Acyclic
  <1> QED BY <1>1, <1>2, <1>3, PTL DEF Spec

-----------------------------------------------------------------------------
(***************************************************************************)
(* What a breakdown leaves behind.                                         *)
(***************************************************************************)

Starts == inflight = "no" /\ inflight' = "yes" /\ run' = [NoRun EXCEPT !.pc = "start"]

\* The run lock is held as long as there is a run.
LockOK == inflight \in {"no", "yes"} /\ (inflight = "no" <=> run.pc = "none")

\* What requests do to the run: they start one, and the agent's own may mark it.
LEMMA RequestsOnRun ==
  ASSUME Base, Requests
  PROVE  /\ epic' = epic /\ hurt \subseteq hurt'
         /\ \/ Starts
            \/ /\ inflight' = inflight /\ run'.pc = run.pc /\ run'.pre = run.pre
               /\ run'.left = run.left /\ run'.at = run.at
  <1>0. Types
    BY DEF Base
  <1>1. epic' = epic /\ hurt \subseteq hurt'
    BY DEF Requests, CreateTask, PostDependency, CallFails, LinkCheck, LinkInsert, Unlink,
           DeleteEdges, DeleteRow, TriggerRead, TriggerAcquire, Fails, counters
  <1>2. ASSUME NEW c \in Caller, Rejected(c)
        PROVE  run'.pc = run.pc /\ run'.pre = run.pre /\ run'.left = run.left /\ run'.at = run.at
    BY <1>0, <1>2, RejectedMoves
  <1>3. \/ Starts
        \/ inflight' = inflight /\ (run' = run \/ \E c \in Caller : Rejected(c))
    BY DEF Requests, CreateTask, PostDependency, CallFails, LinkCheck, LinkInsert, Unlink,
           DeleteEdges, DeleteRow, TriggerRead, TriggerAcquire, Starts
  <1> QED BY <1>1, <1>2, <1>3

\* Once its calls are over, a run that is past its agent has no more of them.
LEMMA AgentIsDone ==
  ASSUME Base, Requests, run.pc # "running", call[Agent].pc = "idle"
  PROVE  call'[Agent].pc = "idle" /\ (run' = run \/ Starts)
  <1>0. Types /\ CallsOK /\ Agent \in Caller /\ Agent \notin Handler /\ Handler = Caller \ {Agent}
    BY TaskDagAssumption DEF Base, Caller
  <1>1. ASSUME NEW c \in Caller,
               \/ \E t \in Task, b \in rows \cup {NoTask} : CreateTask(c, t, b)
               \/ \E a, b \in rows : PostDependency(c, a, b)
               \/ CallFails(c) \/ LinkCheck(c) \/ LinkInsert(c)
        PROVE  run' = run /\ call'[Agent] = call[Agent]
    <2>1. c # Agent
      BY <1>1 DEF CreateTask, PostDependency, CallFails, LinkCheck, LinkInsert, May
    <2>2. run' = run
      BY <1>1, <2>1 DEF CreateTask, PostDependency, CallFails, LinkCheck, LinkInsert, Rejected
    <2>3. \A d \in Caller \ {c} : call'[d] = call[d]
      BY <1>0, <1>1
      DEF CreateTask, PostDependency, CallFails, LinkCheck, LinkInsert, Rejected, Done, Types
    <2> QED BY <1>0, <2>1, <2>2, <2>3
  <1>2. ASSUME NEW h \in Handler,
               \/ \E e \in deps : Unlink(h, e)
               \/ \E t \in rows : DeleteEdges(h, t)
               \/ DeleteRow(h) \/ TriggerRead(h) \/ TriggerAcquire(h)
        PROVE  call'[Agent] = call[Agent] /\ (run' = run \/ Starts)
    <2>1. \A d \in Caller \ {h} : call'[d] = call[d]
      BY <1>0, <1>2 DEF Unlink, DeleteEdges, DeleteRow, TriggerRead, TriggerAcquire, Done, Types
    <2>2. run' = run \/ Starts
      BY <1>2 DEF Unlink, DeleteEdges, DeleteRow, TriggerRead, TriggerAcquire, Starts, graph
    <2> QED BY <1>0, <2>1, <2>2
  <1> QED BY <1>1, <1>2 DEF Requests

\* A request adds at most one edge, and one that is tied to the task whose row the
\* rollback is about to delete is remembered.
LEMMA RequestsOnEdges ==
  ASSUME Requests
  PROVE  /\ races \subseteq races'
         /\ run.pc = "deletingRow" /\ EdgesOf(run.at) = {} /\ "tied" \notin races' =>
               \A e \in deps' : run.at \notin {e[1], e[2]}
  <1>1. ASSUME NEW c \in Caller, LinkInsert(c)
        PROVE  /\ races \subseteq races'
               /\ run.pc = "deletingRow" /\ EdgesOf(run.at) = {} /\ "tied" \notin races' =>
                     \A e \in deps' : run.at \notin {e[1], e[2]}
    BY <1>1 DEF LinkInsert, TiesDoomed, EdgesOf
  <1>2. CASE \A c \in Caller : ~LinkInsert(c)
    <2>1. deps' \subseteq deps /\ races' = races
      BY <1>2 DEF Requests, CreateTask, PostDependency, CallFails, LinkCheck, Unlink,
                  DeleteEdges, DeleteRow, TriggerRead, TriggerAcquire, graph
    <2> QED BY <2>1 DEF EdgesOf
  <1> QED BY <1>1, <1>2

\* A task keeps its author, and a new one has one: a user, or the run at work.
LEMMA RequestsOnRows ==
  ASSUME Base, Requests
  PROVE  /\ \A t \in Task : by[t] # 0 => by'[t] = by[t]
         /\ \A t \in rows' \ rows : /\ t \in Task /\ by[t] = 0
                                    /\ by'[t] = Human \/ (run.pc = "running" /\ by'[t] # 0)
  <1>0. Types /\ CallsOK /\ GraphTypes /\ runs \in Nat
    BY DEF Base, Types
  <1>1. ASSUME NEW c \in Caller, NEW t \in Task, NEW b \in rows \cup {NoTask}, CreateTask(c, t, b)
        PROVE  /\ by[t] = 0 /\ by' = [by EXCEPT ![t] = IF c = Agent THEN runs ELSE Human]
               /\ rows' = rows \cup {t} /\ (c = Agent => run.pc = "running" /\ runs # 0)
    BY <1>0, <1>1 DEF CreateTask, May, CallsOK
  <1>2. (by' = by /\ rows' \subseteq rows)
        \/ \E c \in Caller, t \in Task, b \in rows \cup {NoTask} : CreateTask(c, t, b)
    BY DEF Requests, PostDependency, CallFails, LinkCheck, LinkInsert, Unlink,
           DeleteEdges, DeleteRow, TriggerRead, TriggerAcquire, graph
  <1>3. CASE by' = by /\ rows' \subseteq rows
    BY <1>3
  <1>4. ASSUME NEW c \in Caller, NEW t \in Task, NEW b \in rows \cup {NoTask}, CreateTask(c, t, b)
        PROVE  /\ \A u \in Task : by[u] # 0 => by'[u] = by[u]
               /\ \A u \in rows' \ rows : /\ u \in Task /\ by[u] = 0
                                          /\ by'[u] = Human \/ (run.pc = "running" /\ by'[u] # 0)
    BY <1>0, <1>1, <1>4 DEF GraphTypes
  <1> QED BY <1>2, <1>3, <1>4

-----------------------------------------------------------------------------
\* While no agent has died, its calls are over before its run moves on, and a
\* run that moves the epic to Ready had none refused.
WholeInv ==
    /\ Base /\ LockOK
    /\ "agentDies" \notin hurt =>
          /\ run.pc # "running" => call[Agent].pc = "idle"
          /\ run.pc = "ready" => run.failed = "no"

\* Every step keeps it.
LEMMA WholeStep ==
  ASSUME WholeInv, [Next]_vars
  PROVE  WholeInv' /\ hurt \subseteq hurt'
  <1>0. Base /\ Base' /\ Types /\ LockOK /\ run \in RunRec /\ hurt \subseteq hurt'
    <2>1. hurt \subseteq hurt'
      <3>1. CASE RunSteps
        BY <3>1 DEF RunSteps, SettingsFail, SnapshotTasks, AgentExits, AgentDies, RollbackList,
                    RollbackEdges, RollbackFails, RollbackRow, RollbackEnds, MoveToReady, Fails, counters
      <3> QED BY <3>1, NextCases, RequestsOnRun
              DEF CancelEpic, MapChanges, Crash, Fails, counters, vars, WholeInv
    <2> QED BY <2>1, BaseStep DEF WholeInv, Base, Types
  <1>1. CASE Requests
    <2>1. LockOK'
      BY <1>0, <1>1, RequestsOnRun DEF LockOK, Starts, NoRun
    <2>2. CASE run.pc = "running"
      <3>1. run'.pc = "running"
        BY <1>0, <1>1, <2>2, RequestsOnRun DEF LockOK, Starts
      <3> QED BY <1>0, <2>1, <3>1 DEF WholeInv
    <2>3. CASE run.pc # "running" /\ "agentDies" \notin hurt
      <3>1. call[Agent].pc = "idle"
        BY <2>3 DEF WholeInv
      <3>2. call'[Agent].pc = "idle" /\ (run' = run \/ Starts)
        BY <1>0, <1>1, <2>3, <3>1, AgentIsDone
      <3>3. run'.pc = "ready" => run' = run
        BY <3>2 DEF Starts, NoRun
      <3> QED BY <1>0, <2>1, <2>3, <3>2, <3>3 DEF WholeInv
    <2> QED BY <1>0, <2>1, <2>2, <2>3 DEF WholeInv
  <1>2. CASE RunSteps
    <2>1. call' = call
      BY <1>0, <1>2, RunBase
    <2>2. CASE SettingsFail \/ RollbackEnds \/ MoveToReady
      <3>1. run' = NoRun /\ inflight' = "no" /\ run.pc # "running"
        BY <2>2 DEF SettingsFail, RollbackEnds, MoveToReady, Idle
      <3>2. NoRun.pc = "none"
        BY DEF NoRun
      <3> QED BY <1>0, <2>1, <3>1, <3>2 DEF WholeInv, LockOK
    <2>3. CASE SnapshotTasks \/ RollbackList \/ RollbackRow
               \/ \E t \in run.left : RollbackEdges(t) \/ RollbackFails(t)
      <3>1. /\ inflight' = inflight /\ run.pc \notin {"none", "running"}
            /\ run'.pc \notin {"none", "ready"}
        BY <1>0, <2>3 DEF SnapshotTasks, RollbackList, RollbackRow, RollbackEdges, RollbackFails, RunRec
      <3> QED BY <1>0, <2>1, <3>1 DEF WholeInv, LockOK
    <2>4. CASE AgentExits
      <3>1. /\ inflight' = inflight /\ run.pc = "running" /\ call[Agent].pc = "idle"
            /\ run'.pc \in {"ready", "rollback"} /\ (run'.pc = "ready" => run'.failed = "no")
        BY <1>0, <2>4 DEF AgentExits, RunRec
      <3> QED BY <1>0, <2>1, <3>1 DEF WholeInv, LockOK
    <2>5. CASE AgentDies
      <3>1. /\ inflight' = inflight /\ run.pc = "running" /\ "agentDies" \in hurt'
            /\ run'.pc \in {"ready", "rollback"}
        BY <1>0, <2>5 DEF AgentDies, Fails, RunRec
      <3> QED BY <1>0, <3>1 DEF WholeInv, LockOK
    <2> QED BY <1>2, <2>2, <2>3, <2>4, <2>5 DEF RunSteps
  <1>3. CASE Crash
    <2>1. run' = NoRun /\ inflight' = "no" /\ call'[Agent].pc = "idle" /\ NoRun.pc = "none"
      BY <1>0, <1>3, CrashBase DEF Crash, Idle, NoRun, Caller
    <2> QED BY <1>0, <2>1 DEF WholeInv, LockOK
  <1>4. CASE CancelEpic \/ MapChanges \/ UNCHANGED vars
    BY <1>0, <1>4 DEF CancelEpic, MapChanges, vars, counters, WholeInv, LockOK
  <1> QED BY <1>0, <1>1, <1>2, <1>3, <1>4, NextCases

\* It holds in a new epic.
LEMMA InitWhole == Init => WholeInv
  BY InitBase DEF Init, WholeInv, LockOK, NoRun, NoCall, Caller

\* An epic reaches Ready with all its agent set out to write.
THEOREM ReadyEpicIsWhole == Spec => ReadyIsWhole
  <1> DEFINE Whole == epic = "Planning" /\ epic' = "Ready" /\ "agentDies" \notin hurt =>
                         run.failed = "no" /\ call[Agent].pc = "idle"
  <1>1. WholeInv /\ [Next]_vars => WholeInv'
    BY WholeStep
  <1>2. WholeInv /\ [Next]_vars => Whole
    <2> SUFFICES ASSUME WholeInv, [Next]_vars, epic = "Planning", epic' = "Ready", "agentDies" \notin hurt
                 PROVE  run.failed = "no" /\ call[Agent].pc = "idle"
      OBVIOUS
    <2>1. run.pc = "ready"
      <3>1. CASE RunSteps
        BY <3>1 DEF RunSteps, SettingsFail, SnapshotTasks, AgentExits, AgentDies, RollbackList,
                    RollbackEdges, RollbackFails, RollbackRow, RollbackEnds, MoveToReady
      <3> QED BY <3>1, NextCases, RequestsOnRun DEF CancelEpic, MapChanges, Crash, vars, WholeInv
    <2> QED BY <2>1 DEF WholeInv
  <1>3. WholeInv /\ [Next]_vars => [Whole]_vars
    BY <1>2
  <1> HIDE DEF Whole
  <1>4. Spec => [][Whole]_vars
    BY <1>1, <1>3, InitWhole, PTL DEF Spec
  <1> QED BY <1>4 DEF ReadyIsWhole, Whole

-----------------------------------------------------------------------------
\* Tasks of a run's snapshot and tasks that are there have an author.
Known == \A t \in rows \cup run.pre : by[t] # 0

\* In an epic that is still planned, after nothing worse than a refused call, and
\* with no edge tied to what a rollback was deleting:
\* what is not a user's is a run's that is not over, and on the list of the
\* rollback once there is one.
CleanInv ==
    /\ WholeInv /\ Known
    /\ epic = "Planning" /\ hurt \subseteq {"db"} /\ "tied" \notin races =>
          /\ run.pc \in {"none", "start"} => \A t \in rows : by[t] = Human
          /\ run.pc \in {"running", "rollback"} => \A t \in rows \cap run.pre : by[t] = Human
          /\ run.pc = "deleting" => \A t \in rows : by[t] = Human \/ t \in run.left
          /\ run.pc = "deletingRow" =>
                /\ \A t \in rows : by[t] = Human \/ t \in run.left \/ t = run.at
                /\ EdgesOf(run.at) = {}

\* Requests: what they insert is a user's, or the agent's at work.
LEMMA CleanRequests ==
  ASSUME CleanInv, Requests, WholeInv'
  PROVE  CleanInv'
  <1>0. Base /\ LockOK /\ Types /\ GraphTypes /\ run \in RunRec /\ Human # 0
    BY TaskDagAssumption DEF CleanInv, WholeInv, Base, Types, Human
  <1>1. \A t \in rows' : \/ t \in rows /\ by'[t] = by[t] /\ by[t] # 0
                         \/ /\ t \notin rows /\ by[t] = 0 /\ by'[t] # 0
                            /\ by'[t] = Human \/ run.pc = "running"
    BY <1>0, RequestsOnRows DEF CleanInv, Known, GraphTypes
  <1>2. \A t \in run.pre : by[t] # 0 /\ by'[t] = by[t]
    BY <1>0, RequestsOnRows DEF CleanInv, Known, RunRec
  <1>3. CASE Starts
    <2>1. run'.pc = "start" /\ run'.pre = {} /\ run.pc = "none"
      BY <1>0, <1>3 DEF Starts, NoRun, LockOK
    <2>2. Known'
      BY <1>1, <2>1 DEF Known
    <2> QED BY <1>0, <1>1, <2>1, <2>2, RequestsOnRun, RequestsOnEdges DEF CleanInv
  <1>4. CASE /\ inflight' = inflight /\ run'.pc = run.pc /\ run'.pre = run.pre
             /\ run'.left = run.left /\ run'.at = run.at
    <2>1. Known'
      BY <1>1, <1>2, <1>4 DEF Known
    <2> SUFFICES ASSUME epic = "Planning", hurt \subseteq {"db"}, "tied" \notin races'
                 PROVE  /\ run.pc \in {"none", "start"} => \A t \in rows' : by'[t] = Human
                        /\ run.pc \in {"running", "rollback"} => \A t \in rows' \cap run.pre : by'[t] = Human
                        /\ run.pc = "deleting" => \A t \in rows' : by'[t] = Human \/ t \in run.left
                        /\ run.pc = "deletingRow" =>
                              /\ \A t \in rows' : by'[t] = Human \/ t \in run.left \/ t = run.at
                              /\ EdgesOf(run.at)' = {}
      BY <1>0, <1>4, <2>1, RequestsOnRun DEF CleanInv, EdgesOf
    <2>2. "tied" \notin races
      BY RequestsOnEdges
    <2>3. run.pc = "deletingRow" => EdgesOf(run.at)' = {}
      <3> SUFFICES ASSUME run.pc = "deletingRow" PROVE EdgesOf(run.at)' = {}
        OBVIOUS
      <3>1. EdgesOf(run.at) = {}
        BY <2>2 DEF CleanInv
      <3> QED BY <1>4, <3>1, RequestsOnEdges DEF EdgesOf
    <2> QED BY <1>1, <1>2, <2>2, <2>3 DEF CleanInv
  <1> QED BY <1>0, <1>3, <1>4, RequestsOnRun

\* The run: its rollback lists all that is not a user's, and deletes it.
LEMMA CleanRun ==
  ASSUME CleanInv, RunSteps, WholeInv'
  PROVE  CleanInv'
  <1>0. Base /\ Types /\ GraphTypes /\ run \in RunRec
    BY DEF CleanInv, WholeInv, Base, Types
  <1>1. by' = by /\ rows' \subseteq rows /\ races' = races
    BY <1>0, RunBase
  <1>2. CASE SettingsFail \/ RollbackEnds \/ MoveToReady
    <2>1. run' = NoRun /\ NoRun.pre = {} /\ NoRun.pc = "none" /\ rows' = rows
      BY <1>2 DEF SettingsFail, RollbackEnds, MoveToReady, Idle, NoRun, graph
    <2>2. epic' = "Planning" => /\ epic = "Planning"
                                /\ run.pc = "start" \/ (run.pc = "deleting" /\ run.left = {})
      BY <1>2 DEF SettingsFail, RollbackEnds, MoveToReady
    <2>3. hurt \subseteq hurt'
      BY <1>2 DEF SettingsFail, RollbackEnds, MoveToReady, Fails, counters
    <2> QED BY <1>1, <2>1, <2>2, <2>3 DEF CleanInv, Known
  <1>3. CASE SnapshotTasks
    <2>1. run'.pc = "running" /\ run'.pre = rows /\ run.pc = "start" /\ UNCHANGED <<rows, epic, hurt>>
      BY <1>0, <1>3 DEF SnapshotTasks, RunRec, graph, counters
    <2> QED BY <1>1, <2>1 DEF CleanInv, Known
  <1>4. CASE AgentExits \/ AgentDies
    <2>1. /\ run'.pc \in {"ready", "rollback"} /\ run'.pre = run.pre /\ run.pc = "running"
          /\ UNCHANGED <<rows, epic>> /\ hurt \subseteq hurt'
      BY <1>0, <1>4 DEF AgentExits, AgentDies, RunRec, graph, Fails, counters
    <2> QED BY <1>1, <2>1 DEF CleanInv, Known
  <1>5. CASE RollbackList
    <2>1. /\ run'.pc = "deleting" /\ run'.pre = run.pre /\ run'.left = rows \ run.pre
          /\ run.pc = "rollback" /\ UNCHANGED <<rows, epic, hurt>>
      BY <1>0, <1>5 DEF RollbackList, RunRec, graph, counters
    <2> QED BY <1>1, <2>1 DEF CleanInv, Known
  <1>6. ASSUME NEW t \in run.left, RollbackEdges(t)
        PROVE  CleanInv'
    <2>1. /\ run'.pc = "deletingRow" /\ run'.pre = run.pre /\ run'.left = run.left \ {t} /\ run'.at = t
          /\ run.pc = "deleting" /\ UNCHANGED <<rows, epic, hurt>> /\ deps' = deps \ EdgesOf(t)
      BY <1>0, <1>6 DEF RollbackEdges, RunRec, counters
    <2>2. EdgesOf(run.at)' = {}
      BY <2>1 DEF EdgesOf
    <2> QED BY <1>1, <2>1, <2>2 DEF CleanInv, Known
  <1>7. ASSUME NEW t \in run.left, RollbackFails(t)
        PROVE  CleanInv'
    <2>1. run'.pre = run.pre /\ rows' = rows /\ "lock" \in hurt'
      BY <1>0, <1>7 DEF RollbackFails, RunRec, Fails, graph
    <2> QED BY <1>1, <2>1 DEF CleanInv, Known
  <1>8. CASE RollbackRow
    <2>1. /\ run'.pc = "deleting" /\ run'.pre = run.pre /\ run'.left = run.left
          /\ run.pc = "deletingRow" /\ UNCHANGED <<epic, hurt>>
          /\ EdgesOf(run.at) = {} => rows' = rows \ {run.at}
      BY <1>0, <1>8 DEF RollbackRow, RunRec, counters
    <2> QED BY <1>1, <2>1 DEF CleanInv, Known
  <1> QED BY <1>2, <1>3, <1>4, <1>5, <1>6, <1>7, <1>8 DEF RunSteps

\* Whatever users create, link and delete in the middle of it, an aborted breakdown
\* leaves nothing of its own behind, unless an edge is tied to a task between the
\* rollback's two deletes of it, or something worse than a refused call happened.
THEOREM AbortLeavesNothing == Spec => []AbortIsClean
  <1>1. Init => CleanInv
    BY InitWhole DEF Init, CleanInv, Known, NoRun
  <1>2. CleanInv /\ [Next]_vars => CleanInv'
    <2> SUFFICES ASSUME CleanInv, [Next]_vars PROVE CleanInv'
      OBVIOUS
    <2>0. Base /\ WholeInv' /\ hurt \subseteq hurt'
      BY WholeStep DEF CleanInv, WholeInv
    <2>1. CASE CancelEpic \/ MapChanges \/ UNCHANGED vars
      <3>1. UNCHANGED <<rows, by, deps, run, hurt, races>> /\ (epic' = epic \/ epic' = "Cancelled")
        BY <2>1 DEF CancelEpic, MapChanges, vars, graph, counters
      <3> QED BY <2>0, <3>1 DEF CleanInv, Known, EdgesOf
    <2>2. CASE Crash
      <3>1. "crash" \in hurt' /\ UNCHANGED <<rows, by>> /\ run' = NoRun /\ NoRun.pre = {}
        BY <2>0, <2>2, CrashBase DEF Crash, Fails, NoRun
      <3> QED BY <2>0, <3>1 DEF CleanInv, Known
    <2> QED BY <2>0, <2>1, <2>2, CleanRequests, CleanRun, NextCases
  <1>3. CleanInv => AbortIsClean
    BY DEF CleanInv, AbortIsClean
  <1> QED BY <1>1, <1>2, <1>3, PTL DEF Spec

=============================================================================
