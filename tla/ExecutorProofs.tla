--------------------------- MODULE ExecutorProofs ---------------------------
(***************************************************************************)
(* Proofs about Executor, for any workers, handlers, epics and tasks: type *)
(* correctness, the soundness of the cancel registry and of the recorded   *)
(* pull requests, that the pool implements Lease, and that a standalone    *)
(* task has one stage at a time; about CalmExecutor, until an item is      *)
(* disturbed: every stage of it can be cancelled, tasks wait for their     *)
(* blockers, and an epic is reviewed when it is whole.                     *)
(***************************************************************************)
EXTENDS CalmExecutor, TLAPS

WalkRec == [pc : PC, item : Item \cup {NoItem}, task : Task \cup {NoTask},
            lost : BOOLEAN, hb : Heartbeat, killed : BOOLEAN, prSeen : BOOLEAN,
            stages : 0..MaxStages]

\* A worker between two claims, and only such a one, holds no item.
BusyOnItem ==
    \A w \in Worker :
        walk[w].item = NoItem <=> walk[w].pc \in {"idle", "second"}

\* A heartbeat beats for an item.
BeatsOnItem == \A w \in Worker : walk[w].hb # "none" => walk[w].item # NoItem

\* Between its cancel and its mark_lost, a fenced heartbeat stays fenced.
KillerIsFenced ==
    \A w \in Worker : walk[w].hb = "killing" => owner[walk[w].item] # w

\* A request that has been accepted names an epic.
RequestOnEpic == \A h \in Handler : req[h].at # "idle" => req[h].epic \in Epic

\* RegistrySound is not inductive alone: a step that moves a walk on has to know
\* that a walk in a stage holds an item, and which one.
IInv == TypeOK /\ BusyOnItem /\ BeatsOnItem /\ KillerIsFenced /\ RegistrySound

-----------------------------------------------------------------------------
LEMMA InitInv == Init => IInv
  <1> SUFFICES ASSUME Init PROVE IInv
    OBVIOUS
  <1>1. Idle \in WalkRec
    BY ExecutorAssumption DEF Idle, WalkRec, PC, AgentStage, Heartbeat
  <1>2. TypeOK
    BY <1>1, ExecutorAssumption
    DEF Init, TypeOK, WalkRec, Lane, TaskStatus, PrState, NoRequest, NoCandidate
  <1>3. BusyOnItem /\ BeatsOnItem /\ KillerIsFenced /\ RegistrySound
    BY DEF Init, Idle, BusyOnItem, BeatsOnItem, KillerIsFenced, RegistrySound
  <1> QED BY <1>2, <1>3 DEF IInv

LEMMA KillType ==
  ASSUME NEW f \in [Worker -> WalkRec], NEW i \in Item,
         registry \in [Item -> Worker \cup {NoWorker}]
  PROVE  KillRegistered(f, i) \in [Worker -> WalkRec]
  <1>1. CASE registry[i] = NoWorker
    BY <1>1 DEF KillRegistered
  <1>2. CASE registry[i] # NoWorker
    <2>1. registry[i] \in Worker /\ f[registry[i]] \in WalkRec
      BY <1>2
    <2>2. [f[registry[i]] EXCEPT !.killed = TRUE] \in WalkRec
      BY <2>1 DEF WalkRec
    <2> QED BY <2>1, <2>2, <1>2 DEF KillRegistered
  <1> QED BY <1>1, <1>2

LEMMA WalkType == ASSUME IInv PROVE walk \in [Worker -> WalkRec]
  BY DEF IInv, TypeOK, WalkRec

\* A cancel changes nothing of a walk but its killed flag.
LEMMA KillKeeps ==
  ASSUME NEW f \in [Worker -> WalkRec], NEW i \in Item,
         registry \in [Item -> Worker \cup {NoWorker}], NEW v \in Worker
  PROVE  LET g == KillRegistered(f, i) IN
         /\ g[v].pc = f[v].pc /\ g[v].item = f[v].item
         /\ g[v].hb = f[v].hb /\ g[v].lost = f[v].lost
  BY DEF KillRegistered, WalkRec

\* A walk in its body holds an item.
LEMMA InBody ==
  ASSUME IInv, NEW w \in Worker, walk[w].pc \notin {"idle", "second"}
  PROVE  walk[w] \in WalkRec /\ walk[w].item \in Item
  BY DEF IInv, TypeOK, WalkRec, BusyOnItem

LEMMA Labels ==
  /\ AgentStage \subseteq PC
  /\ {"idle", "second", "orphans", "enter", "provision", "preflight", "walk",
      "start", "launch", "launchVet", "done", "final", "push", "openPr",
      "persist", "failing", "blocking", "triage", "leave"} \subseteq PC
  /\ \A w \in Worker, l \in PC : UnlessLost(w, l) \in PC /\ Boundary(w, l) \in PC
  BY DEF PC, UnlessLost, Boundary

LEMMA StartTaskInv ==
  ASSUME IInv, NEW w \in Worker, StartTask(w)
  PROVE  IInv'
  <1>1. walk[w] \in WalkRec /\ walk[w].item \in Item
    BY InBody DEF StartTask
  <1>2. walk' \in [Worker -> WalkRec]
    <2>1. "launch" \in PC /\ 0 \in 0..MaxStages
      BY Labels, ExecutorAssumption
    <2>2. [walk[w] EXCEPT !.pc = "launch", !.stages = 0] \in WalkRec
      BY <1>1, <2>1 DEF WalkRec
    <2>3. walk' = [walk EXCEPT ![w] = [walk[w] EXCEPT !.pc = "launch", !.stages = 0]]
      BY WalkType DEF StartTask
    <2> QED BY <2>2, <2>3, WalkType
  <1>3. TypeOK'
    BY <1>1, <1>2, ExecutorAssumption
    DEF IInv, StartTask, TypeOK, WalkRec, env, rows, lease, TaskStatus
  <1>4. BusyOnItem' /\ BeatsOnItem'
    BY <1>1, ExecutorAssumption
    DEF IInv, StartTask, BusyOnItem, BeatsOnItem, TypeOK
  <1>5. KillerIsFenced'
    BY <1>1 DEF IInv, StartTask, KillerIsFenced, TypeOK, lease
  <1>6. RegistrySound'
    BY <1>1, ExecutorAssumption
    DEF IInv, StartTask, RegistrySound, TypeOK, InStage, AgentStage
  <1> QED BY <1>3, <1>4, <1>5, <1>6 DEF IInv

LEMMA MarkDoneInv ==
  ASSUME IInv, NEW w \in Worker, MarkDone(w)
  PROVE  IInv'
  <1>1. walk[w] \in WalkRec /\ walk[w].item \in Item
    BY InBody DEF MarkDone
  <1>2. walk' \in [Worker -> WalkRec]
    <2> DEFINE l == IF walk[w].item \in Epic THEN "walk" ELSE UnlessLost(w, "final")
               t == IF walk[w].item \in Epic THEN NoTask ELSE walk[w].task
               b == walk[w].item \in prRow
               r == [walk[w] EXCEPT !.pc = l, !.task = t, !.prSeen = b]
    <2>1. l \in PC /\ t \in Task \cup {NoTask} /\ b \in BOOLEAN
      BY <1>1, Labels DEF WalkRec
    <2>2. walk' = [walk EXCEPT ![w] = r]
      BY WalkType DEF MarkDone
    <2> HIDE DEF l, t, b
    <2>3. r \in WalkRec
      BY <1>1, <2>1 DEF WalkRec
    <2> QED BY <2>2, <2>3, WalkType
  <1>3. TypeOK'
    BY <1>1, <1>2, ExecutorAssumption
    DEF IInv, MarkDone, TypeOK, WalkRec, env, rows, lease, TaskStatus
  <1>4. BusyOnItem' /\ BeatsOnItem'
    BY <1>1, ExecutorAssumption
    DEF IInv, MarkDone, BusyOnItem, BeatsOnItem, TypeOK, UnlessLost
  <1>5. KillerIsFenced'
    BY <1>1 DEF IInv, MarkDone, KillerIsFenced, TypeOK, lease
  <1>6. RegistrySound'
    BY <1>1, ExecutorAssumption
    DEF IInv, MarkDone, RegistrySound, TypeOK, InStage, AgentStage, UnlessLost
  <1> QED BY <1>3, <1>4, <1>5, <1>6 DEF IInv

LEMMA GoInv ==
  ASSUME IInv, NEW w \in Worker, NEW l \in PC \ {"idle", "second"},
         Go(w, l), walk[w].pc \notin {"idle", "second"}, ~InStage(w)
  PROVE  IInv'
  <1>1. walk[w] \in WalkRec /\ walk[w].item \in Item
    BY InBody DEF Go
  <1>2. walk' \in [Worker -> WalkRec]
    <2>1. l \in PC
      BY Labels
    <2>2. [walk[w] EXCEPT !.pc = l] \in WalkRec
      BY <1>1, <2>1 DEF WalkRec
    <2>3. walk' = [walk EXCEPT ![w] = [walk[w] EXCEPT !.pc = l]]
      BY WalkType DEF Go
    <2> QED BY <2>2, <2>3, WalkType
  <1>3. TypeOK'
    BY <1>1, <1>2, ExecutorAssumption
    DEF IInv, Go, TypeOK, WalkRec, env, rows, lease
  <1>4. BusyOnItem' /\ BeatsOnItem'
    BY <1>1, ExecutorAssumption
    DEF IInv, Go, BusyOnItem, BeatsOnItem, TypeOK
  <1>5. KillerIsFenced'
    BY <1>1 DEF IInv, Go, KillerIsFenced, TypeOK, lease
  <1>6. RegistrySound'
    BY <1>1, ExecutorAssumption
    DEF IInv, Go, RegistrySound, TypeOK, InStage, AgentStage
  <1> QED BY <1>3, <1>4, <1>5, <1>6 DEF IInv

LEMMA RegisterInv ==
  ASSUME IInv, NEW w \in Worker, NEW l \in AgentStage,
         Register(w, l), walk[w].pc \notin {"idle", "second"}
  PROVE  IInv'
  <1>1. walk[w] \in WalkRec /\ walk[w].item \in Item
    BY InBody DEF Register
  <1>2. walk' \in [Worker -> WalkRec]
    <2>1. l \in PC
      BY Labels
    <2>2. [walk[w] EXCEPT !.pc = l, !.killed = FALSE] \in WalkRec
      BY <1>1, <2>1 DEF WalkRec
    <2>3. walk' = [walk EXCEPT ![w] = [walk[w] EXCEPT !.pc = l, !.killed = FALSE]]
      BY WalkType DEF Register
    <2> QED BY <2>2, <2>3, WalkType
  <1>3. TypeOK'
    BY <1>1, <1>2, ExecutorAssumption
    DEF IInv, Register, TypeOK, WalkRec, env, rows, lease
  <1>4. BusyOnItem' /\ BeatsOnItem'
    BY <1>1, ExecutorAssumption
    DEF IInv, Register, BusyOnItem, BeatsOnItem, TypeOK, AgentStage
  <1>5. KillerIsFenced'
    BY <1>1 DEF IInv, Register, KillerIsFenced, TypeOK, lease
  <1>6. RegistrySound'
    BY <1>1, ExecutorAssumption
    DEF IInv, Register, RegistrySound, TypeOK, InStage, AgentStage
  <1> QED BY <1>3, <1>4, <1>5, <1>6 DEF IInv

LEMMA UnregisterInv ==
  ASSUME IInv, NEW w \in Worker, NEW l \in PC \ {"idle", "second"},
         Unregister(w, l), walk[w].pc \notin {"idle", "second"}
  PROVE  IInv'
  <1>1. walk[w] \in WalkRec /\ walk[w].item \in Item
    BY InBody DEF Unregister
  <1>2. walk' \in [Worker -> WalkRec]
    <2>1. l \in PC
      BY Labels
    <2>2. [walk[w] EXCEPT !.pc = l, !.killed = FALSE] \in WalkRec
      BY <1>1, <2>1 DEF WalkRec
    <2>3. walk' = [walk EXCEPT ![w] = [walk[w] EXCEPT !.pc = l, !.killed = FALSE]]
      BY WalkType DEF Unregister
    <2> QED BY <2>2, <2>3, WalkType
  <1>3. TypeOK'
    BY <1>1, <1>2, ExecutorAssumption
    DEF IInv, Unregister, TypeOK, WalkRec, env, rows, lease
  <1>4. BusyOnItem' /\ BeatsOnItem'
    BY <1>1, ExecutorAssumption
    DEF IInv, Unregister, BusyOnItem, BeatsOnItem, TypeOK
  <1>5. KillerIsFenced'
    BY <1>1 DEF IInv, Unregister, KillerIsFenced, TypeOK, lease
  <1>6. RegistrySound'
    BY <1>1, ExecutorAssumption
    DEF IInv, Unregister, RegistrySound, TypeOK, InStage, AgentStage
  <1> QED BY <1>3, <1>4, <1>5, <1>6 DEF IInv

LEMMA StageCancelledInv ==
  ASSUME IInv, NEW w \in Worker, StageCancelled(w)
  PROVE  IInv'
  <1>1. walk[w] \in WalkRec /\ walk[w].item \in Item
    BY InBody DEF StageCancelled
  <1>2. walk' \in [Worker -> WalkRec]
    <2>1. "leave" \in PC
      BY Labels, ExecutorAssumption
    <2>2. [walk[w] EXCEPT !.pc = "leave", !.killed = FALSE] \in WalkRec
      BY <1>1, <2>1 DEF WalkRec
    <2>3. walk' = [walk EXCEPT ![w] = [walk[w] EXCEPT !.pc = "leave", !.killed = FALSE]]
      BY WalkType DEF StageCancelled
    <2> QED BY <2>2, <2>3, WalkType
  <1>3. TypeOK'
    BY <1>1, <1>2, ExecutorAssumption
    DEF IInv, StageCancelled, TypeOK, WalkRec, env, rows, lease, TaskStatus
  <1>4. BusyOnItem' /\ BeatsOnItem'
    BY <1>1, ExecutorAssumption
    DEF IInv, StageCancelled, BusyOnItem, BeatsOnItem, TypeOK
  <1>5. KillerIsFenced'
    BY <1>1 DEF IInv, StageCancelled, KillerIsFenced, TypeOK, lease
  <1>6. RegistrySound'
    BY <1>1, ExecutorAssumption
    DEF IInv, StageCancelled, RegistrySound, TypeOK, InStage, AgentStage
  <1> QED BY <1>3, <1>4, <1>5, <1>6 DEF IInv

LEMMA FailTaskInv ==
  ASSUME IInv, NEW w \in Worker, FailTask(w)
  PROVE  IInv'
  <1>1. walk[w] \in WalkRec /\ walk[w].item \in Item
    BY InBody DEF FailTask
  <1>2. walk' \in [Worker -> WalkRec]
    <2> DEFINE l == IF walk[w].item \in Epic THEN "blocking" ELSE "triage"
    <2>1. l \in PC
      BY Labels
    <2>2. [walk[w] EXCEPT !.pc = l] \in WalkRec
      BY <1>1, <2>1 DEF WalkRec
    <2>3. walk' = [walk EXCEPT ![w] = [walk[w] EXCEPT !.pc = l]]
      BY WalkType DEF FailTask
    <2> QED BY <2>2, <2>3, WalkType
  <1>3. TypeOK'
    BY <1>1, <1>2, ExecutorAssumption
    DEF IInv, FailTask, TypeOK, WalkRec, env, rows, lease, TaskStatus
  <1>4. BusyOnItem' /\ BeatsOnItem'
    BY <1>1, ExecutorAssumption
    DEF IInv, FailTask, BusyOnItem, BeatsOnItem, TypeOK
  <1>5. KillerIsFenced'
    BY <1>1 DEF IInv, FailTask, KillerIsFenced, TypeOK, lease
  <1>6. RegistrySound'
    BY <1>1, ExecutorAssumption
    DEF IInv, FailTask, RegistrySound, TypeOK, InStage, AgentStage
  <1> QED BY <1>3, <1>4, <1>5, <1>6 DEF IInv

LEMMA BlockEpicInv ==
  ASSUME IInv, NEW w \in Worker, BlockEpic(w)
  PROVE  IInv'
  <1>1. walk[w] \in WalkRec /\ walk[w].item \in Item
    BY InBody DEF BlockEpic
  <1>2. walk' \in [Worker -> WalkRec]
    <2>1. "triage" \in PC
      BY Labels, ExecutorAssumption
    <2>2. [walk[w] EXCEPT !.pc = "triage"] \in WalkRec
      BY <1>1, <2>1 DEF WalkRec
    <2>3. walk' = [walk EXCEPT ![w] = [walk[w] EXCEPT !.pc = "triage"]]
      BY WalkType DEF BlockEpic
    <2> QED BY <2>2, <2>3, WalkType
  <1>3. TypeOK'
    BY <1>1, <1>2, ExecutorAssumption
    DEF IInv, BlockEpic, TypeOK, WalkRec, env, rows, lease, Lane
  <1>4. BusyOnItem' /\ BeatsOnItem'
    BY <1>1, ExecutorAssumption
    DEF IInv, BlockEpic, BusyOnItem, BeatsOnItem, TypeOK
  <1>5. KillerIsFenced'
    BY <1>1 DEF IInv, BlockEpic, KillerIsFenced, TypeOK, lease
  <1>6. RegistrySound'
    BY <1>1, ExecutorAssumption
    DEF IInv, BlockEpic, RegistrySound, TypeOK, InStage, AgentStage
  <1> QED BY <1>3, <1>4, <1>5, <1>6 DEF IInv

LEMMA PersistEpicInv ==
  ASSUME IInv, NEW w \in Worker, PersistEpic(w)
  PROVE  IInv'
  <1>1. walk[w] \in WalkRec /\ walk[w].item \in Item
    BY InBody DEF PersistEpic, RecordPr
  <1>2. walk' \in [Worker -> WalkRec]
    <2>1. "leave" \in PC
      BY Labels, ExecutorAssumption
    <2>2. [walk[w] EXCEPT !.pc = "leave"] \in WalkRec
      BY <1>1, <2>1 DEF WalkRec
    <2>3. walk' = [walk EXCEPT ![w] = [walk[w] EXCEPT !.pc = "leave"]]
      BY WalkType DEF PersistEpic, RecordPr
    <2> QED BY <2>2, <2>3, WalkType
  <1>3. TypeOK'
    BY <1>1, <1>2, ExecutorAssumption
    DEF IInv, PersistEpic, TypeOK, WalkRec, env, rows, lease, RecordPr, Lane, TaskStatus
  <1>4. BusyOnItem' /\ BeatsOnItem'
    BY <1>1, ExecutorAssumption
    DEF IInv, PersistEpic, BusyOnItem, BeatsOnItem, TypeOK, RecordPr
  <1>5. KillerIsFenced'
    BY <1>1 DEF IInv, PersistEpic, KillerIsFenced, TypeOK, lease, RecordPr
  <1>6. RegistrySound'
    BY <1>1, ExecutorAssumption
    DEF IInv, PersistEpic, RegistrySound, TypeOK, InStage, AgentStage, RecordPr
  <1> QED BY <1>3, <1>4, <1>5, <1>6 DEF IInv

LEMMA PersistTaskInv ==
  ASSUME IInv, NEW w \in Worker, PersistTask(w)
  PROVE  IInv'
  <1>1. walk[w] \in WalkRec /\ walk[w].item \in Item
    BY InBody DEF PersistTask, RecordPr
  <1>2. walk' \in [Worker -> WalkRec]
    <2>1. "leave" \in PC
      BY Labels, ExecutorAssumption
    <2>2. [walk[w] EXCEPT !.pc = "leave"] \in WalkRec
      BY <1>1, <2>1 DEF WalkRec
    <2>3. walk' = [walk EXCEPT ![w] = [walk[w] EXCEPT !.pc = "leave"]]
      BY WalkType DEF PersistTask, RecordPr
    <2> QED BY <2>2, <2>3, WalkType
  <1>3. TypeOK'
    BY <1>1, <1>2, ExecutorAssumption
    DEF IInv, PersistTask, TypeOK, WalkRec, env, rows, lease, RecordPr, TaskStatus, Task
  <1>4. BusyOnItem' /\ BeatsOnItem'
    BY <1>1, ExecutorAssumption
    DEF IInv, PersistTask, BusyOnItem, BeatsOnItem, TypeOK, RecordPr
  <1>5. KillerIsFenced'
    BY <1>1 DEF IInv, PersistTask, KillerIsFenced, TypeOK, lease, RecordPr
  <1>6. RegistrySound'
    BY <1>1, ExecutorAssumption
    DEF IInv, PersistTask, RegistrySound, TypeOK, InStage, AgentStage, RecordPr
  <1> QED BY <1>3, <1>4, <1>5, <1>6 DEF IInv

LEMMA ResetOrphansInv ==
  ASSUME IInv, NEW w \in Worker, ResetOrphans(w)
  PROVE  IInv'
  <1>1. walk[w] \in WalkRec /\ walk[w].item \in Item
    BY InBody DEF ResetOrphans
  <1>2. walk' \in [Worker -> WalkRec]
    <2>1. "enter" \in PC /\ "beating" \in Heartbeat
      BY Labels, ExecutorAssumption DEF Heartbeat
    <2>2. [walk[w] EXCEPT !.pc = "enter", !.hb = "beating"] \in WalkRec
      BY <1>1, <2>1 DEF WalkRec
    <2>3. walk' = [walk EXCEPT ![w] = [walk[w] EXCEPT !.pc = "enter", !.hb = "beating"]]
      BY WalkType DEF ResetOrphans
    <2> QED BY <2>2, <2>3, WalkType
  <1>3. TypeOK'
    BY <1>1, <1>2, ExecutorAssumption
    DEF IInv, ResetOrphans, TypeOK, WalkRec, env, rows, lease, TaskStatus
  <1>4. BusyOnItem' /\ BeatsOnItem'
    BY <1>1, ExecutorAssumption
    DEF IInv, ResetOrphans, BusyOnItem, BeatsOnItem, TypeOK
  <1>5. KillerIsFenced'
    BY <1>1 DEF IInv, ResetOrphans, KillerIsFenced, TypeOK, lease
  <1>6. RegistrySound'
    BY <1>1, ExecutorAssumption
    DEF IInv, ResetOrphans, RegistrySound, TypeOK, InStage, AgentStage
  <1> QED BY <1>3, <1>4, <1>5, <1>6 DEF IInv

LEMMA StageRepeatsInv ==
  ASSUME IInv, NEW w \in Worker, StageRepeats(w)
  PROVE  IInv'
  <1>1. walk[w] \in WalkRec /\ walk[w].item \in Item
    BY InBody DEF StageRepeats
  <1>2. walk' \in [Worker -> WalkRec]
    <2> DEFINE l == IF walk[w].pc = "implement" THEN "launch"
                                           ELSE Boundary(w, "launchVet")
               n == walk[w].stages + 1
               r == [walk[w] EXCEPT !.pc = l, !.killed = FALSE, !.stages = n]
    <2>1. l \in PC
      BY Labels
    <2>2. n \in 0..MaxStages
      BY <1>1, ExecutorAssumption DEF StageRepeats, WalkRec
    <2>3. walk' = [walk EXCEPT ![w] = r]
      BY WalkType DEF StageRepeats
    <2> HIDE DEF l, n
    <2>4. r \in WalkRec
      BY <1>1, <2>1, <2>2 DEF WalkRec
    <2> QED BY <2>3, <2>4, WalkType
  <1>3. TypeOK'
    BY <1>1, <1>2, ExecutorAssumption
    DEF IInv, StageRepeats, TypeOK, WalkRec, env, rows, lease
  <1>4. BusyOnItem' /\ BeatsOnItem'
    BY SMTT(30), <1>1, ExecutorAssumption
    DEF IInv, StageRepeats, BusyOnItem, BeatsOnItem, TypeOK, Boundary
  <1>5. KillerIsFenced'
    BY <1>1 DEF IInv, StageRepeats, KillerIsFenced, TypeOK, lease
  <1>6. RegistrySound'
    BY <1>1, ExecutorAssumption
    DEF IInv, StageRepeats, RegistrySound, TypeOK, InStage, AgentStage, Boundary
  <1> QED BY <1>3, <1>4, <1>5, <1>6 DEF IInv

LEMMA OpenPrInv ==
  ASSUME IInv, NEW w \in Worker, OpenPr(w)
  PROVE  IInv'
  <1>1. PICK l \in {"persist", UnlessLost(w, "failing")} :
          /\ walk[w].pc = "openPr"
          /\ walk' = [walk EXCEPT ![w].pc = l]
          /\ prState' \in {prState, [prState EXCEPT ![walk[w].item] = "open"]}
          /\ UNCHANGED <<rows, lease, registry, req, poll, crashes>>
    BY DEF OpenPr, HostOpens, Go, env
  <1>2. walk[w] \in WalkRec /\ walk[w].item \in Item
    BY <1>1, InBody
  <1>3. l \in PC \ {"idle", "second"}
    BY Labels DEF UnlessLost
  <1>4. walk' \in [Worker -> WalkRec]
    <2>1. [walk[w] EXCEPT !.pc = l] \in WalkRec
      BY <1>2, <1>3 DEF WalkRec
    <2> QED BY <1>1, <2>1, WalkType
  <1>5. ~InStage(w) /\ l \notin AgentStage
    BY <1>1 DEF InStage, AgentStage, UnlessLost
  <1> USE DEF IInv
  <1>6. TypeOK'
    BY <1>1, <1>4 DEF TypeOK, WalkRec, rows, lease, PrState
  <1>7. BusyOnItem' /\ BeatsOnItem'
    BY <1>1, <1>2, <1>3, ExecutorAssumption DEF BusyOnItem, BeatsOnItem, TypeOK
  <1>8. KillerIsFenced'
    BY <1>1, <1>2 DEF KillerIsFenced, TypeOK, lease
  <1>9. RegistrySound'
    BY <1>1, <1>5 DEF RegistrySound, TypeOK, InStage
  <1> QED BY <1>6, <1>7, <1>8, <1>9

LEMMA StageTimeoutInv ==
  ASSUME IInv, NEW w \in Worker, StageTimeout(w)
  PROVE  IInv'
  <1> DEFINE g == KillRegistered(walk, walk[w].item)
             l == IF walk[w].pc = "summarize" THEN "push"
                                              ELSE UnlessLost(w, "failing")
  <1>1. walk[w].item \in Item /\ registry \in [Item -> Worker \cup {NoWorker}]
    BY InBody DEF IInv, TypeOK, StageTimeout, InStage, AgentStage
  <1>2. g \in [Worker -> WalkRec]
    BY <1>1, WalkType, KillType
  <1>3. l \in PC \ {"idle", "second"} /\ l \notin AgentStage
    BY Labels DEF UnlessLost, AgentStage
  <1>4. \A v \in Worker : /\ g[v].pc = walk[v].pc /\ g[v].item = walk[v].item
                          /\ g[v].hb = walk[v].hb
    BY <1>1, WalkType, KillKeeps
  <1>5. walk' = [g EXCEPT ![w] = [g[w] EXCEPT !.killed = FALSE, !.pc = l]]
    BY <1>2 DEF StageTimeout
  <1>6. UNCHANGED <<rows, lease, env>>
        /\ registry' = [registry EXCEPT ![walk[w].item] = NoWorker]
    BY DEF StageTimeout
  <1>7. walk[w].pc \notin {"idle", "second"}
    BY DEF StageTimeout, InStage, AgentStage
  <1> HIDE DEF g, l
  <1>8. walk' \in [Worker -> WalkRec]
    <2>1. [g[w] EXCEPT !.killed = FALSE, !.pc = l] \in WalkRec
      BY <1>2, <1>3 DEF WalkRec
    <2> QED BY <1>2, <1>5, <2>1
  <1>9. /\ walk'[w].pc = l /\ walk'[w].item = walk[w].item
        /\ walk'[w].hb = walk[w].hb
    BY <1>2, <1>4, <1>5 DEF WalkRec
  <1>10. \A v \in Worker : v # w =>
            /\ walk'[v].pc = walk[v].pc /\ walk'[v].item = walk[v].item
            /\ walk'[v].hb = walk[v].hb
    BY <1>2, <1>4, <1>5
  <1>11. TypeOK'
    BY <1>6, <1>8 DEF IInv, TypeOK, WalkRec, rows, lease, env
  <1>12. BusyOnItem' /\ BeatsOnItem'
    BY <1>1, <1>3, <1>7, <1>9, <1>10 DEF IInv, BusyOnItem, BeatsOnItem
  <1>13. KillerIsFenced'
    BY <1>6, <1>9, <1>10 DEF IInv, KillerIsFenced, lease
  <1>14. RegistrySound'
    BY <1>1, <1>3, <1>6, <1>9, <1>10 DEF IInv, RegistrySound, InStage
  <1> QED BY <1>11, <1>12, <1>13, <1>14 DEF IInv

\* A cancel from outside: of the lane handler, or of a fenced heartbeat.
LEMMA KillInv ==
  ASSUME IInv, NEW i \in Item, TypeOK',
         walk' = KillRegistered(walk, i), UNCHANGED <<owner, registry>>
  PROVE  IInv'
  <1>1. \A v \in Worker : /\ walk'[v].pc = walk[v].pc
                          /\ walk'[v].item = walk[v].item
                          /\ walk'[v].hb = walk[v].hb
    BY SMTT(30), WalkType, KillKeeps DEF IInv, TypeOK
  <1>2. BusyOnItem' /\ BeatsOnItem' /\ KillerIsFenced'
    BY <1>1 DEF IInv, BusyOnItem, BeatsOnItem, KillerIsFenced
  <1>3. RegistrySound'
    BY <1>1, ExecutorAssumption DEF IInv, TypeOK, RegistrySound, InStage
  <1> QED BY <1>2, <1>3 DEF IInv

LEMMA SetLaneKillInv ==
  ASSUME IInv, RequestOnEpic, NEW h \in Handler, SetLaneKill(h)
  PROVE  IInv'
  <1>1. req[h].epic \in Item
    BY DEF RequestOnEpic, SetLaneKill, Item
  <1>2. req' \in [Handler -> [at : {"idle", "write", "kill", "clear", "unblock"},
                              epic : Epic \cup {NoItem}, from : Lane, to : Lane]]
    BY DEF IInv, TypeOK, SetLaneKill, NoRequest, Lane
  <1>3. TypeOK'
    BY <1>1, <1>2, WalkType, KillType
    DEF IInv, TypeOK, SetLaneKill, WalkRec, rows, lease
  <1> QED BY <1>1, <1>3, KillInv DEF SetLaneKill, lease

LEMMA FenceMarkInv ==
  ASSUME IInv, NEW w \in Worker, FenceMark(w)
  PROVE  IInv'
  <1>1. walk[w] \in WalkRec
    BY WalkType
  <1>2. walk' \in [Worker -> WalkRec]
    <2>1. [walk[w] EXCEPT !.hb = "none", !.lost = TRUE] \in WalkRec
      BY <1>1 DEF WalkRec, Heartbeat
    <2>2. walk' = [walk EXCEPT ![w] = [walk[w] EXCEPT !.hb = "none", !.lost = TRUE]]
      BY WalkType DEF FenceMark
    <2> QED BY <2>1, <2>2, WalkType
  <1>3. TypeOK'
    BY <1>2 DEF IInv, FenceMark, TypeOK, WalkRec, env, rows, lease
  <1>4. BusyOnItem' /\ BeatsOnItem'
    BY DEF IInv, FenceMark, BusyOnItem, BeatsOnItem, TypeOK
  <1>5. KillerIsFenced' /\ RegistrySound'
    BY ExecutorAssumption
    DEF IInv, FenceMark, KillerIsFenced, RegistrySound, InStage, TypeOK, lease
  <1> QED BY <1>3, <1>4, <1>5 DEF IInv

LEMMA FenceKillInv ==
  ASSUME IInv, NEW w \in Worker, FenceKill(w)
  PROVE  IInv'
  <1> DEFINE g == KillRegistered(walk, walk[w].item)
  <1>1. walk[w].item \in Item /\ registry \in [Item -> Worker \cup {NoWorker}]
    BY DEF IInv, TypeOK, FenceKill, BeatsOnItem
  <1>2. g \in [Worker -> WalkRec]
    BY <1>1, WalkType, KillType
  <1>3. \A v \in Worker : /\ g[v].pc = walk[v].pc /\ g[v].item = walk[v].item
                          /\ g[v].hb = walk[v].hb
    BY <1>1, WalkType, KillKeeps
  <1>4. walk' = [g EXCEPT ![w] = [g[w] EXCEPT !.hb = "killing"]]
    BY <1>2 DEF FenceKill
  <1> HIDE DEF g
  <1>5. walk' \in [Worker -> WalkRec]
    <2>1. [g[w] EXCEPT !.hb = "killing"] \in WalkRec
      BY <1>2 DEF WalkRec, Heartbeat
    <2> QED BY <1>2, <1>4, <2>1
  <1>6. \A v \in Worker :
          /\ walk'[v].pc = walk[v].pc /\ walk'[v].item = walk[v].item
          /\ walk'[v].hb = IF v = w THEN "killing" ELSE walk[v].hb
    BY <1>2, <1>3, <1>4 DEF WalkRec
  <1>7. TypeOK'
    BY <1>5 DEF IInv, FenceKill, TypeOK, WalkRec, rows, lease, env
  <1>8. BusyOnItem' /\ BeatsOnItem'
    BY <1>1, <1>6, ExecutorAssumption DEF IInv, BusyOnItem, BeatsOnItem, FenceKill
  <1>9. KillerIsFenced' /\ RegistrySound'
    BY <1>6, ExecutorAssumption
    DEF IInv, TypeOK, FenceKill, KillerIsFenced, RegistrySound, InStage, lease
  <1> QED BY <1>7, <1>8, <1>9 DEF IInv

LEMMA DagStepInv ==
  ASSUME IInv, NEW w \in Worker, DagStep(w)
  PROVE  IInv'
  <1>1. walk[w].pc = "walk" /\ walk[w] \in WalkRec /\ walk[w].item \in Item
    BY InBody DEF DagStep
  <1>2. CASE Go(w, "leave")
    BY <1>1, <1>2, Labels, GoInv DEF InStage, AgentStage
  <1>3. CASE \E l \in {"final", "start"}, t \in Task \cup {NoTask}, b \in BOOLEAN :
               /\ walk' = [walk EXCEPT ![w] =
                             [@ EXCEPT !.pc = l, !.task = t, !.prSeen = b]]
               /\ UNCHANGED <<rows, lease, registry, env>>
    <2>1. PICK l \in {"final", "start"}, t \in Task \cup {NoTask}, b \in BOOLEAN :
               /\ walk' = [walk EXCEPT ![w] =
                             [walk[w] EXCEPT !.pc = l, !.task = t, !.prSeen = b]]
               /\ UNCHANGED <<rows, lease, registry, env>>
      BY <1>3
    <2>2. [walk[w] EXCEPT !.pc = l, !.task = t, !.prSeen = b] \in WalkRec
      BY <1>1, Labels DEF WalkRec
    <2>3. TypeOK'
      BY <2>1, <2>2, WalkType DEF IInv, TypeOK, WalkRec, rows, lease, env
    <2>4. BusyOnItem' /\ BeatsOnItem'
      BY <1>1, <2>1, ExecutorAssumption DEF IInv, BusyOnItem, BeatsOnItem, TypeOK
    <2>5. KillerIsFenced' /\ RegistrySound'
      BY <1>1, <2>1 DEF IInv, TypeOK, KillerIsFenced, RegistrySound, InStage,
                        AgentStage, lease
    <2> QED BY <2>3, <2>4, <2>5 DEF IInv
  <1>4. Go(w, "leave") \/ \E l \in {"final", "start"}, t \in Task \cup {NoTask}, b \in BOOLEAN :
               /\ walk' = [walk EXCEPT ![w] =
                             [@ EXCEPT !.pc = l, !.task = t, !.prSeen = b]]
               /\ UNCHANGED <<rows, lease, registry, env>>
    <2>1. CASE Go(w, "leave")
      BY <2>1
    <2>2. CASE /\ walk' = [walk EXCEPT ![w].pc = "final",
                                       ![w].prSeen = walk[w].item \in prRow]
               /\ UNCHANGED <<rows, lease, registry, env>>
      <3>1. walk' = [walk EXCEPT ![w] = [walk[w] EXCEPT !.pc = "final",
                 !.task = walk[w].task, !.prSeen = (walk[w].item \in prRow)]]
        BY <1>1, <2>2, WalkType DEF WalkRec
      <3>2. walk[w].task \in Task \cup {NoTask}
            /\ (walk[w].item \in prRow) \in BOOLEAN
        BY <1>1 DEF WalkRec
      <3> QED BY <2>2, <3>1, <3>2
    <2>3. ASSUME NEW t \in Task,
                 walk' = [walk EXCEPT ![w].pc = "start", ![w].task = t],
                 UNCHANGED <<rows, lease, registry, env>>
          PROVE \E l \in {"final", "start"}, u \in Task \cup {NoTask}, b \in BOOLEAN :
               /\ walk' = [walk EXCEPT ![w] =
                             [@ EXCEPT !.pc = l, !.task = u, !.prSeen = b]]
               /\ UNCHANGED <<rows, lease, registry, env>>
      <3>1. walk' = [walk EXCEPT ![w] = [walk[w] EXCEPT !.pc = "start",
                 !.task = t, !.prSeen = walk[w].prSeen]]
        BY <1>1, <2>3, WalkType DEF WalkRec
      <3>2. walk[w].prSeen \in BOOLEAN
        BY <1>1 DEF WalkRec
      <3> QED BY <2>3, <3>1, <3>2
    <2> QED BY <2>1, <2>2, <2>3 DEF DagStep, TasksOf, Task
  <1> QED BY <1>2, <1>3, <1>4

LEMMA BodyPanicsInv ==
  ASSUME IInv, NEW w \in Worker, BodyPanics(w)
  PROVE  IInv'
  <1>1. walk[w] \in WalkRec /\ walk[w].item \in Item
    BY InBody DEF BodyPanics
  <1>2. walk' \in [Worker -> WalkRec]
    <2>1. [walk[w] EXCEPT !.pc = "leave", !.killed = FALSE] \in WalkRec
      BY <1>1, Labels DEF WalkRec
    <2>2. walk' = [walk EXCEPT ![w] =
                     [walk[w] EXCEPT !.pc = "leave", !.killed = FALSE]]
      BY WalkType DEF BodyPanics
    <2> QED BY <2>1, <2>2, WalkType
  <1>3. TypeOK'
    BY <1>1, <1>2 DEF IInv, BodyPanics, TypeOK, WalkRec, env, rows, lease
  <1>4. BusyOnItem' /\ BeatsOnItem' /\ KillerIsFenced'
    BY <1>1, ExecutorAssumption
    DEF IInv, BodyPanics, BusyOnItem, BeatsOnItem, KillerIsFenced, TypeOK, lease
  <1>5. RegistrySound'
    BY <1>1, ExecutorAssumption
    DEF IInv, BodyPanics, RegistrySound, TypeOK, InStage, AgentStage
  <1> QED BY <1>3, <1>4, <1>5 DEF IInv

LEMMA LeaveInv ==
  ASSUME IInv, NEW w \in Worker, Leave(w)
  PROVE  IInv'
  <1>1. walk[w].item \in Item /\ Idle \in WalkRec
    BY InBody, Labels, ExecutorAssumption DEF Leave, Idle, WalkRec, Heartbeat
  <1>2. walk' \in [Worker -> WalkRec] /\ walk' = [walk EXCEPT ![w] = Idle]
    BY <1>1, WalkType DEF Leave
  <1>3. TypeOK'
    BY <1>2 DEF IInv, Leave, TypeOK, WalkRec, env, rows
  <1>4. BusyOnItem' /\ BeatsOnItem'
    BY <1>2 DEF IInv, BusyOnItem, BeatsOnItem, TypeOK, Idle
  <1>5. KillerIsFenced'
    BY <1>2, ExecutorAssumption DEF IInv, Leave, KillerIsFenced, TypeOK, Idle
  <1>6. RegistrySound'
    BY <1>2 DEF IInv, Leave, RegistrySound, TypeOK, InStage, AgentStage
  <1> QED BY <1>3, <1>4, <1>5, <1>6 DEF IInv

LEMMA TakeInv ==
  ASSUME IInv, NEW w \in Worker, NEW i \in Item, NEW l \in {"orphans", "enter"},
         walk[w].pc \in {"idle", "second"}, Take(w, i, l)
  PROVE  IInv'
  <1> DEFINE r == [Idle EXCEPT
                    !.pc = l, !.item = i,
                    !.task = IF i \in Solo THEN i ELSE NoTask,
                    !.hb = IF i \in Solo THEN "beating" ELSE "none"]
  <1>1. r \in WalkRec
    <2>1. Idle \in WalkRec
      BY Labels, ExecutorAssumption DEF Idle, WalkRec, Heartbeat
    <2> DEFINE t == IF i \in Solo THEN i ELSE NoTask
               b == IF i \in Solo THEN "beating" ELSE "none"
    <2>2. t \in Task \cup {NoTask} /\ b \in Heartbeat /\ l \in PC
      BY Labels DEF Task, Heartbeat
    <2> HIDE DEF t, b
    <2>3. [Idle EXCEPT !.pc = l, !.item = i, !.task = t, !.hb = b] \in WalkRec
      BY <2>1, <2>2 DEF WalkRec
    <2> QED BY <2>3 DEF t, b
  <1>2. r.pc = l /\ r.item = i /\ r.hb \in {"none", "beating"}
    BY DEF Idle
  <1>3. walk' = [walk EXCEPT ![w] = r]
    BY DEF Take
  <1> HIDE DEF r
  <1>4. TypeOK'
    <2>1. walk' \in [Worker -> WalkRec]
      BY <1>1, <1>3, WalkType
    <2> QED BY <2>1 DEF IInv, Take, TypeOK, WalkRec, env, rows
  <1>5. BusyOnItem' /\ BeatsOnItem'
    BY <1>2, <1>3, ExecutorAssumption DEF IInv, BusyOnItem, BeatsOnItem, TypeOK
  <1>6. KillerIsFenced'
    BY <1>2, <1>3 DEF IInv, Take, KillerIsFenced, TypeOK
  <1>7. RegistrySound'
    BY <1>2, <1>3 DEF IInv, Take, RegistrySound, TypeOK, InStage, AgentStage
  <1> QED BY <1>4, <1>5, <1>6, <1>7 DEF IInv

\* A worker that finds nothing to claim.
LEMMA IdlesInv ==
  ASSUME IInv, NEW w \in Worker, NoEpicToClaim(w) \/ NothingToClaim(w)
  PROVE  IInv'
  <1>1. PICK l \in {"idle", "second"} :
          /\ walk[w].pc \in {"idle", "second"}
          /\ walk' = [walk EXCEPT ![w].pc = l]
          /\ UNCHANGED <<rows, lease, registry, env>>
    BY DEF NoEpicToClaim, NothingToClaim
  <1>2. [walk[w] EXCEPT !.pc = l] \in WalkRec
    BY WalkType, Labels DEF WalkRec
  <1>3. TypeOK'
    BY <1>1, <1>2, WalkType DEF IInv, TypeOK, WalkRec, env, rows, lease
  <1>4. BusyOnItem' /\ BeatsOnItem' /\ KillerIsFenced'
    BY <1>1 DEF IInv, BusyOnItem, BeatsOnItem, KillerIsFenced, TypeOK, lease
  <1>5. RegistrySound'
    BY <1>1 DEF IInv, RegistrySound, TypeOK, InStage, AgentStage
  <1> QED BY <1>3, <1>4, <1>5 DEF IInv

LEMMA CrashInv == ASSUME IInv, CrashAndBoot PROVE IInv'
  <1>1. Idle \in WalkRec
    BY Labels, ExecutorAssumption DEF Idle, WalkRec, Heartbeat
  <1>2. TypeOK'
    BY <1>1, ExecutorAssumption
    DEF IInv, CrashAndBoot, TypeOK, WalkRec, rows, NoRequest, NoCandidate, Lane,
        PrState
  <1>3. BusyOnItem' /\ BeatsOnItem' /\ KillerIsFenced' /\ RegistrySound'
    BY DEF CrashAndBoot, BusyOnItem, BeatsOnItem, KillerIsFenced, RegistrySound, Idle
  <1> QED BY <1>2, <1>3 DEF IInv

-----------------------------------------------------------------------------
\* A step that touches no walk and hands no lease to a worker.
LEMMA QuietInv ==
  ASSUME IInv, TypeOK', UNCHANGED <<walk, registry>>,
         \A i \in Item : owner'[i] \in {owner[i], NoWorker}
  PROVE  IInv'
  <1>1. BusyOnItem' /\ BeatsOnItem' /\ RegistrySound'
    BY DEF IInv, BusyOnItem, BeatsOnItem, RegistrySound, InStage
  <1>2. KillerIsFenced'
    <2> SUFFICES ASSUME NEW w \in Worker, walk[w].hb = "killing"
                 PROVE  owner'[walk[w].item] # w
      BY DEF KillerIsFenced
    <2>1. walk[w].item \in Item /\ owner[walk[w].item] # w
      BY DEF IInv, TypeOK, BeatsOnItem, KillerIsFenced, Heartbeat
    <2> QED BY <2>1, ExecutorAssumption
  <1> QED BY <1>1, <1>2 DEF IInv

LEMMA RenewInv ==
  ASSUME IInv, NEW w \in Worker, Renew(w)
  PROVE  IInv'
  <1>1. walk[w].item \in Item
    BY DEF IInv, TypeOK, BeatsOnItem, Renew
  <1>2. TypeOK'
    BY <1>1 DEF IInv, Renew, TypeOK, rows, env
  <1> QED BY <1>2, QuietInv DEF Renew

LEMMA LapseInv ==
  ASSUME IInv, NEW i \in Item, Lapse(i)
  PROVE  IInv'
  <1>1. TypeOK'
    BY DEF IInv, Lapse, TypeOK, rows, env
  <1> QED BY <1>1, QuietInv DEF Lapse

LEMMA SetLaneReadInv ==
  ASSUME IInv, NEW h \in Handler, NEW e \in Epic, NEW l \in Lane,
         SetLaneRead(h, e, l)
  PROVE  IInv'
  <1>1. TypeOK'
    BY DEF IInv, SetLaneRead, TypeOK, rows, lease
  <1> QED BY <1>1, QuietInv DEF SetLaneRead, lease

LEMMA SetLaneWriteInv ==
  ASSUME IInv, RequestOnEpic, NEW h \in Handler, SetLaneWrite(h)
  PROVE  IInv'
  <1>1. TypeOK'
    <2>1. req[h].epic \in Epic
      BY DEF RequestOnEpic, SetLaneWrite
    <2>2. estatus' \in [Epic -> Lane]
      BY <2>1 DEF IInv, SetLaneWrite, TypeOK
    <2>3. NoRequest \in [at : {"idle", "write", "kill", "clear", "unblock"},
                         epic : Epic \cup {NoItem}, from : Lane, to : Lane]
      BY DEF NoRequest, Lane
    <2>4. \A a \in {"kill", "clear"} : [req[h] EXCEPT !.at = a] \in
            [at : {"idle", "write", "kill", "clear", "unblock"},
             epic : Epic \cup {NoItem}, from : Lane, to : Lane]
      BY DEF IInv, TypeOK
    <2>5. PICK r \in {NoRequest, [req[h] EXCEPT !.at = "kill"],
                                 [req[h] EXCEPT !.at = "clear"]} :
            req' = [req EXCEPT ![h] = r]
      BY DEF SetLaneWrite
    <2>6. req' \in [Handler ->
            [at : {"idle", "write", "kill", "clear", "unblock"},
             epic : Epic \cup {NoItem}, from : Lane, to : Lane]]
      BY <2>3, <2>4, <2>5 DEF IInv, TypeOK
    <2> QED BY <2>2, <2>6 DEF IInv, SetLaneWrite, TypeOK, lease
  <1> QED BY <1>1, QuietInv DEF SetLaneWrite, lease

LEMMA SetLaneClearInv ==
  ASSUME IInv, RequestOnEpic, NEW h \in Handler, SetLaneClear(h)
  PROVE  IInv'
  <1>1. NoRequest \in [at : {"idle", "write", "kill", "clear", "unblock"},
                       epic : Epic \cup {NoItem}, from : Lane, to : Lane]
    BY DEF NoRequest, Lane
  <1>2. TypeOK'
    BY <1>1 DEF IInv, SetLaneClear, TypeOK, rows
  <1> QED BY <1>2, QuietInv DEF SetLaneClear, IInv, TypeOK

LEMMA RetryTaskInv ==
  ASSUME IInv, NEW h \in Handler, NEW t \in Task, RetryTask(h, t)
  PROVE  IInv'
  <1>1. [NoRequest EXCEPT !.at = "unblock", !.epic = Parent[t]] \in
          [at : {"idle", "write", "kill", "clear", "unblock"},
           epic : Epic \cup {NoItem}, from : Lane, to : Lane]
        \/ t \in Solo
    BY ExecutorAssumption DEF NoRequest, Lane, Task
  <1>2. req' \in [Handler ->
          [at : {"idle", "write", "kill", "clear", "unblock"},
           epic : Epic \cup {NoItem}, from : Lane, to : Lane]]
    BY <1>1 DEF IInv, RetryTask, TypeOK
  <1>3. tstatus' \in [Task -> TaskStatus]
    BY DEF IInv, RetryTask, TypeOK, TaskStatus
  <1>4. TypeOK'
    BY <1>2, <1>3 DEF IInv, RetryTask, TypeOK
  <1> QED BY <1>4, QuietInv DEF RetryTask, IInv, TypeOK

LEMMA RetryUnblockInv ==
  ASSUME IInv, NEW h \in Handler, RetryUnblock(h)
  PROVE  IInv'
  <1>1. NoRequest \in [at : {"idle", "write", "kill", "clear", "unblock"},
                       epic : Epic \cup {NoItem}, from : Lane, to : Lane]
    BY DEF NoRequest, Lane
  <1>2. estatus' \in [Epic -> Lane]
    BY DEF IInv, RetryUnblock, TypeOK, Lane
  <1>3. TypeOK'
    BY <1>1, <1>2 DEF IInv, RetryUnblock, TypeOK
  <1> QED BY <1>3, QuietInv DEF RetryUnblock, IInv, TypeOK

LEMMA RunTaskInv ==
  ASSUME IInv, NEW s \in Solo, RunTask(s)
  PROVE  IInv'
  <1>1. TypeOK'
    BY DEF IInv, RunTask, TypeOK, TaskStatus, lease, env
  <1> QED BY <1>1, QuietInv DEF RunTask, lease

LEMMA PatchTaskInv ==
  ASSUME IInv, NEW t \in Task, NEW to \in PatchTo, PatchTask(t, to)
  PROVE  IInv'
  <1>1. to \in TaskStatus
    BY ExecutorAssumption DEF TaskStatus
  <1>2. TypeOK'
    BY <1>1 DEF IInv, PatchTask, TypeOK, lease, env
  <1> QED BY <1>2, QuietInv DEF PatchTask, lease

LEMMA HostDecidesInv ==
  ASSUME IInv, NEW i \in Item, NEW v \in {"merged", "closed"}, HostDecides(i, v)
  PROVE  IInv'
  <1>1. TypeOK'
    BY DEF IInv, HostDecides, TypeOK, PrState, rows, lease
  <1> QED BY <1>1, QuietInv DEF HostDecides, lease

LEMMA PollFetchInv ==
  ASSUME IInv, NEW i \in Item, PollFetch(i)
  PROVE  IInv'
  <1>1. TypeOK'
    BY DEF IInv, PollFetch, TypeOK, rows, lease
  <1> QED BY <1>1, QuietInv DEF PollFetch, lease

LEMMA PollMoveInv ==
  ASSUME IInv, NEW i, NEW l \in Lane, NEW s \in TaskStatus, PollMove(i, l, s)
  PROVE  IInv'
  <1>1. NoCandidate \in [at : {"idle", "fetched", "flip"},
                         item : Item \cup {NoItem}, pr : PrState]
    BY DEF NoCandidate, PrState
  <1>2. TypeOK'
    BY <1>1 DEF IInv, PollMove, TypeOK, lease
  <1> QED BY <1>2, QuietInv DEF PollMove, lease

LEMMA PollStepInv ==
  ASSUME IInv, PollStep
  PROVE  IInv'
  <1>1. NoCandidate \in [at : {"idle", "fetched", "flip"},
                         item : Item \cup {NoItem}, pr : PrState]
    BY DEF NoCandidate, PrState
  <1>2. {"Completed", "Cancelled", "InProgress"} \subseteq Lane
        /\ {"Done", "Cancelled", "InProgress", "Todo"} \subseteq TaskStatus
    BY DEF Lane, TaskStatus
  <1>3. CASE PollSpawn
    <2>1. tstatus' \in [Task -> TaskStatus]
      BY <1>2, <1>3 DEF IInv, PollSpawn, TypeOK
    <2>2. [poll EXCEPT !.at = "flip"] \in [at : {"idle", "fetched", "flip"},
                                item : Item \cup {NoItem}, pr : PrState]
      BY DEF IInv, TypeOK
    <2>3. TypeOK'
      BY <1>3, <2>1, <2>2 DEF IInv, PollSpawn, TypeOK, lease
    <2> QED BY <1>3, <2>3, QuietInv DEF PollSpawn, lease
  <1>4. CASE poll' = NoCandidate /\ UNCHANGED <<rows, lease, walk, registry, req,
                                                prState, crashes>>
    <2>1. TypeOK'
      BY <1>1, <1>4 DEF IInv, TypeOK, rows, lease
    <2> QED BY <1>4, <2>1, QuietInv DEF lease
  <1>5. CASE PollFlip
    BY <1>2, <1>5, PollMoveInv DEF PollFlip
  <1>6. CASE PollApply
    BY <1>2, <1>4, <1>6, PollMoveInv DEF PollApply
  <1> QED BY <1>3, <1>5, <1>6 DEF PollStep

-----------------------------------------------------------------------------
\* Accepted requests keep naming an epic.
LEMMA RequestStep ==
  ASSUME IInv, RequestOnEpic, [Next]_vars
  PROVE  RequestOnEpic'
  <1>1. CASE req' = req
    BY <1>1 DEF RequestOnEpic
  <1>2. ASSUME NEW h \in Handler, req' = [req EXCEPT ![h] = NoRequest]
        PROVE  RequestOnEpic'
    BY <1>2 DEF RequestOnEpic, NoRequest, IInv, TypeOK
  <1>3. ASSUME NEW w \in Worker,
               WorkerLoop(w) \/ Body(w) \/ Beat(w) \/ BodyPanics(w)
        PROVE  RequestOnEpic'
    <2>1. CASE WorkerLoop(w)
      BY <1>1, <2>1 DEF WorkerLoop, ClaimEpic, NoEpicToClaim, ClaimTask, Take,
           NothingToClaim, ResetOrphans, Leave, env
    <2>2. CASE Body(w)
      BY <1>1, <2>2 DEF Body, Enter, Provision, Preflight, DagStep, StartTask,
           LaunchFails, LaunchStage, SkipSummary, StageOk, StageRepeats,
           StageFails, StageCancelled, StageTimeout, MarkDone, SummaryEnds, Push,
           OpenPr, PersistEpic, PersistTask, RecordPr, FailTask, BlockEpic,
           TriagePush, Go, Register, Unregister, env
    <2>3. CASE Beat(w)
      BY <1>1, <2>3 DEF Beat, Renew, FenceKill, FenceMark, env
    <2>4. CASE BodyPanics(w)
      BY <1>1, <2>4 DEF BodyPanics, env
    <2> QED BY <1>3, <2>1, <2>2, <2>3, <2>4
  <1>4. ASSUME NEW h \in Handler, HandlerStep(h)
        PROVE  RequestOnEpic'
    <2>1. CASE SetLaneWrite(h)
      BY <2>1 DEF SetLaneWrite, RequestOnEpic, NoRequest, IInv, TypeOK
    <2>2. CASE SetLaneKill(h) \/ SetLaneClear(h) \/ RetryUnblock(h)
      BY <1>2, <2>2 DEF SetLaneKill, SetLaneClear, RetryUnblock
    <2> QED BY <1>4, <2>1, <2>2 DEF HandlerStep
  <1>5. CASE NewRequest
    <2>1. ASSUME NEW h \in Handler, NEW e \in Epic, NEW l \in Lane,
                 SetLaneRead(h, e, l)
          PROVE  RequestOnEpic'
      BY <2>1 DEF SetLaneRead, RequestOnEpic, IInv, TypeOK
    <2>2. ASSUME NEW h \in Handler, NEW t \in Task, RetryTask(h, t)
          PROVE  RequestOnEpic'
      <3>1. CASE t \in Solo
        BY <1>1, <2>2, <3>1 DEF RetryTask
      <3>2. CASE t \notin Solo
        <4>1. Parent[t] \in Epic
          BY <3>2, ExecutorAssumption DEF Task
        <4> QED BY <2>2, <3>2, <4>1
                DEF RetryTask, RequestOnEpic, NoRequest, IInv, TypeOK
      <3> QED BY <3>1, <3>2
    <2>3. ASSUME (\E s \in Solo : RunTask(s))
                 \/ \E t \in Task, to \in PatchTo : PatchTask(t, to)
          PROVE  RequestOnEpic'
      BY <1>1, <2>3 DEF RunTask, PatchTask, env
    <2> QED BY <1>5, <2>1, <2>2, <2>3 DEF NewRequest
  <1>6. CASE CrashAndBoot
    BY <1>6 DEF CrashAndBoot, RequestOnEpic, NoRequest
  <1>7. CASE (\E i \in Item : Lapse(i) \/ PollFetch(i)) \/ Reviewer \/ PollStep
    BY <1>1, <1>7 DEF Lapse, PollFetch, Reviewer, HostDecides, PollStep,
         PollApply, PollSpawn, PollFlip, PollMove, env
  <1>8. CASE UNCHANGED vars
    BY <1>1, <1>8 DEF vars, env
  <1> QED BY <1>3, <1>4, <1>5, <1>6, <1>7, <1>8 DEF Next

\* Whatever a walk's own worker does.
LEMMA WorkerStep ==
  ASSUME IInv, NEW w \in Worker,
         WorkerLoop(w) \/ Body(w) \/ Beat(w) \/ BodyPanics(w)
  PROVE  IInv'
  <1>1. CASE WorkerLoop(w)
    <2>1. ASSUME ClaimEpic(w) PROVE IInv'
      BY <2>1, TakeInv DEF ClaimEpic, Item
    <2>2. ASSUME ClaimTask(w) PROVE IInv'
      BY <2>2, TakeInv DEF ClaimTask, Item
    <2> QED BY <1>1, <2>1, <2>2, IdlesInv, ResetOrphansInv, LeaveInv
            DEF WorkerLoop
  <1> DEFINE Label == PC \ {"idle", "second"}
  <1>2. /\ {"provision", "preflight", "walk", "start", "launchVet", "done",
            "push", "openPr", "persist", "failing", "triage", "leave"}
             \subseteq Label
        /\ \A l \in Label : UnlessLost(w, l) \in Label /\ Boundary(w, l) \in Label
        /\ AgentStage \subseteq Label
    BY DEF PC, AgentStage, UnlessLost, Boundary
  <1>3. ASSUME NEW l \in Label, Go(w, l),
               walk[w].pc \in {"enter", "provision", "preflight", "start",
                               "launch", "launchVet", "final", "push", "triage"}
        PROVE  IInv'
    BY <1>3, GoInv DEF InStage, AgentStage
  <1>4. ASSUME NEW l \in Label, Unregister(w, l), InStage(w)
        PROVE  IInv'
    BY <1>4, UnregisterInv DEF InStage, AgentStage
  <1>5. ASSUME NEW l \in AgentStage, Register(w, l),
               walk[w].pc \in {"launch", "launchVet", "final"}
        PROVE  IInv'
    BY <1>5, RegisterInv
  <1> HIDE DEF Label
  <1>6. CASE Enter(w) \/ Provision(w) \/ Preflight(w) \/ LaunchFails(w)
             \/ SkipSummary(w) \/ Push(w) \/ TriagePush(w)
    <2>1. CASE Enter(w)
      BY <1>2, <1>3, <2>1 DEF Enter
    <2>2. CASE Provision(w)
      BY <1>2, <1>3, <2>2 DEF Provision
    <2>3. CASE Preflight(w)
      BY <1>2, <1>3, <2>3 DEF Preflight
    <2>4. CASE LaunchFails(w)
      BY <1>2, <1>3, <2>4 DEF LaunchFails
    <2>5. CASE SkipSummary(w)
      BY <1>2, <1>3, <2>5 DEF SkipSummary
    <2>6. CASE Push(w)
      BY <1>2, <1>3, <2>6 DEF Push
    <2>7. CASE TriagePush(w)
      BY <1>2, <1>3, <2>7 DEF TriagePush
    <2> QED BY <1>6, <2>1, <2>2, <2>3, <2>4, <2>5, <2>6, <2>7
  <1>7. CASE LaunchStage(w)
    BY <1>5, <1>7 DEF LaunchStage, AgentStage
  <1>8. CASE StageOk(w) \/ StageFails(w) \/ SummaryEnds(w)
    BY <1>2, <1>4, <1>8
    DEF StageOk, StageFails, SummaryEnds, InStage, AgentStage
  <1>9. CASE Body(w)
    BY <1>6, <1>7, <1>8, <1>9, DagStepInv, StartTaskInv, StageRepeatsInv,
       StageCancelledInv, StageTimeoutInv, MarkDoneInv, OpenPrInv,
       PersistEpicInv, PersistTaskInv, FailTaskInv, BlockEpicInv
    DEF Body
  <1>10. CASE Beat(w) \/ BodyPanics(w)
    BY <1>10, RenewInv, FenceKillInv, FenceMarkInv, BodyPanicsInv DEF Beat
  <1> QED BY <1>1, <1>9, <1>10

LEMMA Step == IInv /\ RequestOnEpic /\ [Next]_vars => IInv' /\ RequestOnEpic'
  <1> SUFFICES ASSUME IInv, RequestOnEpic, [Next]_vars
               PROVE  IInv' /\ RequestOnEpic'
    OBVIOUS
  <1>1. RequestOnEpic'
    BY RequestStep
  <1>2. ASSUME NEW h \in Handler, HandlerStep(h) PROVE IInv'
    BY <1>2, SetLaneWriteInv, SetLaneKillInv, SetLaneClearInv, RetryUnblockInv
    DEF HandlerStep
  <1>3. ASSUME NewRequest PROVE IInv'
    <2>1. ASSUME NEW h \in Handler, NEW e \in Epic, NEW l \in Request \cap Lane,
                 SetLaneRead(h, e, l)
          PROVE  IInv'
      BY <2>1, SetLaneReadInv
    <2>2. ASSUME NEW h \in Handler, NEW t \in Task, RetryTask(h, t) PROVE IInv'
      BY <2>2, RetryTaskInv
    <2>3. ASSUME NEW s \in Solo, RunTask(s) PROVE IInv'
      BY <2>3, RunTaskInv
    <2>4. ASSUME NEW t \in Task, NEW to \in PatchTo, PatchTask(t, to) PROVE IInv'
      BY <2>4, PatchTaskInv
    <2> QED BY <1>3, <2>1, <2>2, <2>3, <2>4 DEF NewRequest
  <1>4. ASSUME Reviewer PROVE IInv'
    <2>1. ASSUME NEW i \in Item, NEW v \in {"merged", "closed"},
                 HostDecides(i, v)
          PROVE  IInv'
      BY <2>1, HostDecidesInv
    <2> QED BY <1>4, <2>1 DEF Reviewer
  <1>5. ASSUME UNCHANGED vars PROVE IInv'
    <2>1. TypeOK'
      BY <1>5 DEF IInv, TypeOK, vars, rows, lease, env
    <2>2. UNCHANGED <<walk, registry, owner>>
      BY <1>5 DEF vars, lease
    <2> QED BY <2>1, <2>2, QuietInv
  <1>6. IInv'
    BY <1>2, <1>3, <1>4, <1>5, WorkerStep, LapseInv, CrashInv, PollFetchInv,
       PollStepInv
    DEF Next
  <1> QED BY <1>1, <1>6

LEMMA Inductive == Spec => [](IInv /\ RequestOnEpic)
  <1>1. Init => RequestOnEpic
    BY DEF Init, RequestOnEpic, NoRequest
  <1> QED BY <1>1, InitInv, Step, PTL DEF Spec

\* Every row, walk, request and registry entry keeps its type, for any pool.
THEOREM TypeCorrect == Spec => []TypeOK
  BY Inductive, PTL DEF IInv

\* The cancel registry never holds the handle of a walk that has moved on: a
\* cancel, a deadline or a fence-out cannot kill a stage of another item.
THEOREM RegistryIsSound == Spec => []RegistrySound
  BY Inductive, PTL DEF IInv

-----------------------------------------------------------------------------
(***************************************************************************)
(* The pool implements Lease.  A step of a walk, a handler or the poller   *)
(* either writes the status of at most one row, or is one step of the      *)
(* protocol, or changes nothing that Lease sees.                           *)
(***************************************************************************)
SameWalks ==
    \A w \in Worker :
        walk'[w].item = walk[w].item /\ walk'[w].lost = walk[w].lost

OthersKeepRunning(i) == \A j \in Item \ {i} : Running(j)' <=> Running(j)

LEMMA SameWalking ==
  ASSUME SameWalks
  PROVE  /\ [w \in Worker |-> walk[w].item]' = [w \in Worker |-> walk[w].item]
         /\ [w \in Worker |-> walk[w].lost]' = [w \in Worker |-> walk[w].lost]
  BY DEF SameWalks

\* One row's status is written, or none.
LEMMA StatusStep ==
  ASSUME SameWalks, UNCHANGED lease, NEW i, OthersKeepRunning(i)
  PROVE  [Leases!Next]_(Leases!vars)
  <1> DEFINE run == {j \in Item : Running(j)}
  <1>1. CASE i \in Item /\ Running(i)'
    <2>1. run' = run \cup {i}
      BY <1>1 DEF OthersKeepRunning
    <2>2. Leases!Requeue(i)
      BY <2>1, SameWalking DEF Leases!Requeue, lease
    <2> QED BY <1>1, <2>2 DEF Leases!Next
  <1>2. CASE i \in Item /\ ~Running(i)'
    <2>1. run' = run \ {i}
      BY <1>2 DEF OthersKeepRunning
    <2>2. Leases!Retire(i)
      BY <2>1, SameWalking DEF Leases!Retire, lease
    <2> QED BY <1>2, <2>2 DEF Leases!Next
  <1>3. CASE i \notin Item
    <2>1. run' = run
      BY <1>3 DEF OthersKeepRunning
    <2> QED BY <2>1, SameWalking DEF Leases!vars, lease
  <1> QED BY <1>1, <1>2, <1>3

\* No status is written.
LEMMA QuietStep ==
  ASSUME SameWalks, UNCHANGED lease, UNCHANGED <<estatus, tstatus>>
  PROVE  [Leases!Next]_(Leases!vars)
  BY StatusStep DEF OthersKeepRunning, Running

\* The status of a task is written, of one that is claimed or of another.
LEMMA TaskWrite ==
  ASSUME IInv, SameWalks, UNCHANGED lease, UNCHANGED estatus,
         NEW t, NEW s, tstatus' = [tstatus EXCEPT ![t] = s]
  PROVE  [Leases!Next]_(Leases!vars)
  <1>1. OthersKeepRunning(t)
    BY DEF OthersKeepRunning, Running, IInv, TypeOK, Item, Task
  <1> QED BY <1>1, StatusStep

LEMMA EpicWrite ==
  ASSUME IInv, SameWalks, UNCHANGED lease, UNCHANGED tstatus,
         NEW e, NEW s, estatus' = [estatus EXCEPT ![e] = s]
  PROVE  [Leases!Next]_(Leases!vars)
  <1>1. OthersKeepRunning(e)
    BY DEF OthersKeepRunning, Running, IInv, TypeOK
  <1> QED BY <1>1, StatusStep

\* A step that only moves one walk on.
LEMMA SameOnItem ==
  ASSUME IInv, NEW w \in Worker, NEW r \in WalkRec,
         walk' = [walk EXCEPT ![w] = r],
         r.item = walk[w].item, r.lost = walk[w].lost
  PROVE  SameWalks
  BY WalkType DEF SameWalks

\* No step of a body touches an item, a lost flag or a lease.
LEMMA BodySame ==
  ASSUME IInv, NEW w \in Worker, Body(w)
  PROVE  SameWalks /\ UNCHANGED lease
  <1>0. walk \in [Worker -> WalkRec]
    BY WalkType
  <1>1. ASSUME NEW l, Go(w, l) \/ Register(w, l) \/ Unregister(w, l)
        PROVE  SameWalks /\ UNCHANGED lease
    BY <1>0, <1>1 DEF Go, Register, Unregister, SameWalks, lease, WalkRec
  <1>2. CASE Enter(w) \/ Provision(w) \/ Preflight(w) \/ LaunchFails(w)
             \/ SkipSummary(w) \/ Push(w) \/ TriagePush(w)
    BY <1>1, <1>2 DEF Enter, Provision, Preflight, LaunchFails, SkipSummary, Push,
         TriagePush
  <1>3. CASE LaunchStage(w) \/ StageOk(w) \/ StageFails(w) \/ SummaryEnds(w)
    BY <1>1, <1>3 DEF LaunchStage, StageOk, StageFails, SummaryEnds
  <1>4. CASE StartTask(w) \/ MarkDone(w)
    BY <1>0, <1>4 DEF StartTask, MarkDone, SameWalks, lease, WalkRec
  <1>5. CASE StageRepeats(w) \/ StageCancelled(w)
    BY <1>0, <1>5 DEF StageRepeats, StageCancelled, SameWalks, lease, WalkRec
  <1>6. CASE FailTask(w) \/ BlockEpic(w)
    BY <1>0, <1>6 DEF FailTask, BlockEpic, SameWalks, lease, WalkRec
  <1>7. CASE PersistEpic(w) \/ PersistTask(w)
    BY <1>0, <1>7 DEF PersistEpic, PersistTask, RecordPr, SameWalks, lease, WalkRec
  <1>8. CASE OpenPr(w)
    BY <1>0, <1>1, <1>8 DEF OpenPr, SameWalks, lease, WalkRec
  <1>9. CASE DagStep(w)
    BY <1>0, <1>1, <1>9 DEF DagStep, SameWalks, lease, WalkRec
  <1>10. CASE StageTimeout(w)
    <2> DEFINE g == KillRegistered(walk, walk[w].item)
    <2>1. walk[w].item \in Item
      BY <1>10, InBody DEF StageTimeout, InStage, AgentStage
    <2>2. g \in [Worker -> WalkRec]
      BY <1>0, <2>1, KillType DEF IInv, TypeOK
    <2>3. \A v \in Worker : g[v].item = walk[v].item /\ g[v].lost = walk[v].lost
      BY <1>0, <2>1, KillKeeps DEF IInv, TypeOK
    <2>4. /\ walk' = [g EXCEPT ![w].killed = FALSE,
                               ![w].pc = IF walk[w].pc = "summarize"
                                         THEN "push" ELSE UnlessLost(w, "failing")]
          /\ UNCHANGED lease
      BY <1>10 DEF StageTimeout
    <2> HIDE DEF g
    <2>5. SameWalks
      BY <2>2, <2>3, <2>4 DEF SameWalks, WalkRec
    <2> QED BY <2>4, <2>5
  <1> QED BY <1>2, <1>3, <1>4, <1>5, <1>6, <1>7, <1>8, <1>9, <1>10 DEF Body

\* A body writes the status of its task or of its epic, or none.
LEMMA BodyRefines ==
  ASSUME IInv, NEW w \in Worker, Body(w)
  PROVE  [Leases!Next]_(Leases!vars)
  <1>1. SameWalks /\ UNCHANGED lease
    BY BodySame
  <1>2. CASE UNCHANGED <<estatus, tstatus>>
    BY <1>1, <1>2, QuietStep
  <1>3. ASSUME NEW t, NEW s, UNCHANGED estatus,
               tstatus' = [tstatus EXCEPT ![t] = s]
        PROVE  [Leases!Next]_(Leases!vars)
    BY <1>1, <1>3, TaskWrite
  <1>4. ASSUME NEW e, NEW s, UNCHANGED tstatus,
               estatus' = [estatus EXCEPT ![e] = s]
        PROVE  [Leases!Next]_(Leases!vars)
    BY <1>1, <1>4, EpicWrite
  <1>5. CASE Enter(w) \/ Provision(w) \/ Preflight(w) \/ DagStep(w)
             \/ LaunchFails(w) \/ SkipSummary(w) \/ Push(w) \/ TriagePush(w)
    BY <1>2, <1>5 DEF Enter, Provision, Preflight, DagStep, LaunchFails,
         SkipSummary, Push, TriagePush, Go, rows
  <1>6. CASE LaunchStage(w) \/ StageOk(w) \/ StageFails(w) \/ SummaryEnds(w)
             \/ StageRepeats(w) \/ StageTimeout(w) \/ OpenPr(w)
    BY <1>2, <1>6 DEF LaunchStage, StageOk, StageFails, SummaryEnds, StageRepeats,
         StageTimeout, OpenPr, Go, Register, Unregister, rows
  <1>7. CASE StartTask(w) \/ MarkDone(w)
    BY <1>3, <1>7 DEF StartTask, MarkDone
  <1>8. CASE StageCancelled(w)
    BY <1>2, <1>3, <1>8 DEF StageCancelled
  <1>9. CASE FailTask(w)
    BY <1>2, <1>3, <1>9 DEF FailTask
  <1>10. CASE BlockEpic(w)
    BY <1>2, <1>4, <1>10 DEF BlockEpic
  <1>11. CASE PersistEpic(w)
    BY <1>2, <1>4, <1>11 DEF PersistEpic
  <1>12. CASE PersistTask(w)
    BY <1>2, <1>3, <1>12 DEF PersistTask
  <1> QED BY <1>5, <1>6, <1>7, <1>8, <1>9, <1>10, <1>11, <1>12 DEF Body

\* The claim, the orphan reset and the release.
LEMMA LoopRefines ==
  ASSUME IInv, NEW w \in Worker, WorkerLoop(w)
  PROVE  [Leases!Next]_(Leases!vars)
  <1>0. walk \in [Worker -> WalkRec]
    BY WalkType
  <1>1. ASSUME NEW i \in Item, NEW l, walk[w].pc \in {"idle", "second"},
               Take(w, i, l)
        PROVE  Leases!Claim(w, i)
    <2>1. walk[w].item = NoItem
      BY <1>1 DEF IInv, BusyOnItem
    <2>2. Leases!Claimable(i)
      BY <1>1 DEF Take, Claimable, Leases!Claimable
    <2> DEFINE r == [Idle EXCEPT
                    !.pc = l, !.item = i,
                    !.task = IF i \in Solo THEN i ELSE NoTask,
                    !.hb = IF i \in Solo THEN "beating" ELSE "none"]
    <2>3. r.item = i /\ r.lost = FALSE
      BY DEF Idle
    <2>4. walk' = [walk EXCEPT ![w] = r]
      BY <1>1 DEF Take
    <2> HIDE DEF r
    <2>5. /\ [v \in Worker |-> walk[v].item]'
               = [[v \in Worker |-> walk[v].item] EXCEPT ![w] = i]
          /\ [v \in Worker |-> walk[v].lost]'
               = [[v \in Worker |-> walk[v].lost] EXCEPT ![w] = FALSE]
      BY <1>0, <2>3, <2>4
    <2>6. {j \in Item : Running(j)}' = {j \in Item : Running(j)}
      BY <1>1 DEF Take, rows, Running
    <2> QED BY <1>1, <2>1, <2>2, <2>5, <2>6 DEF Leases!Claim, Take
  <1>2. CASE ClaimEpic(w) \/ ClaimTask(w)
    BY <1>1, <1>2 DEF ClaimEpic, ClaimTask, Item, Leases!Next
  <1>3. CASE NoEpicToClaim(w) \/ NothingToClaim(w)
    <2>1. SameWalks
      BY <1>0, <1>3 DEF NoEpicToClaim, NothingToClaim, SameWalks, WalkRec
    <2> QED BY <1>3, <2>1, QuietStep DEF NoEpicToClaim, NothingToClaim, rows
  <1>4. CASE ResetOrphans(w)
    <2>1. SameWalks
      BY <1>0, <1>4 DEF ResetOrphans, SameWalks, WalkRec
    <2>2. OthersKeepRunning(NoItem)
      BY <1>4, ExecutorAssumption
      DEF ResetOrphans, OthersKeepRunning, Running, TasksOf, Item, Task
    <2> QED BY <1>4, <2>1, <2>2, StatusStep DEF ResetOrphans
  <1>5. CASE Leave(w)
    <2>1. walk[w].item # NoItem
      BY <1>5 DEF Leave, IInv, BusyOnItem
    <2>2. Idle.item = NoItem /\ Idle.lost = FALSE
      BY DEF Idle
    <2>3. /\ [v \in Worker |-> walk[v].item]'
               = [[v \in Worker |-> walk[v].item] EXCEPT ![w] = NoItem]
          /\ [v \in Worker |-> walk[v].lost]'
               = [[v \in Worker |-> walk[v].lost] EXCEPT ![w] = FALSE]
      BY <1>0, <1>5, <2>2 DEF Leave
    <2>4. {j \in Item : Running(j)}' = {j \in Item : Running(j)}
      BY <1>5 DEF Leave, rows, Running
    <2>5. Leases!Release(w)
      BY <1>5, <2>1, <2>3, <2>4 DEF Leave, Leases!Release
    <2> QED BY <2>5 DEF Leases!Next
  <1> QED BY <1>2, <1>3, <1>4, <1>5 DEF WorkerLoop

\* The heartbeat: renewals and fence-outs, and the cancel before a fence-out.
LEMMA BeatRefines ==
  ASSUME IInv, NEW w \in Worker, Beat(w)
  PROVE  [Leases!Next]_(Leases!vars)
  <1>0. walk \in [Worker -> WalkRec]
    BY WalkType
  <1>1. CASE Renew(w)
    <2>1. walk[w].item # NoItem
      BY <1>1 DEF Renew, IInv, BeatsOnItem
    <2>2. /\ {j \in Item : Running(j)}' = {j \in Item : Running(j)}
          /\ [v \in Worker |-> walk[v].item]' = [v \in Worker |-> walk[v].item]
          /\ [v \in Worker |-> walk[v].lost]' = [v \in Worker |-> walk[v].lost]
      BY <1>1 DEF Renew, rows, Running
    <2>3. Leases!Renew(w)
      BY <1>1, <2>1, <2>2 DEF Renew, Leases!Renew
    <2> QED BY <2>3 DEF Leases!Next
  <1>2. CASE FenceKill(w)
    <2> DEFINE g == KillRegistered(walk, walk[w].item)
    <2>1. walk[w].item \in Item
      BY <1>0, <1>2 DEF FenceKill, IInv, BeatsOnItem, WalkRec
    <2>2. g \in [Worker -> WalkRec]
      BY <1>0, <2>1, KillType DEF IInv, TypeOK
    <2>3. \A v \in Worker : g[v].item = walk[v].item /\ g[v].lost = walk[v].lost
      BY <1>0, <2>1, KillKeeps DEF IInv, TypeOK
    <2>4. walk' = [g EXCEPT ![w].hb = "killing"]
      BY <1>2 DEF FenceKill
    <2> HIDE DEF g
    <2>5. SameWalks
      BY <2>2, <2>3, <2>4 DEF SameWalks, WalkRec
    <2> QED BY <1>2, <2>5, QuietStep DEF FenceKill, rows
  <1>3. CASE FenceMark(w)
    <2>1. walk[w].item # NoItem /\ owner[walk[w].item] # w
      BY <1>3 DEF FenceMark, IInv, BeatsOnItem, KillerIsFenced
    <2>2. /\ [v \in Worker |-> walk[v].item]' = [v \in Worker |-> walk[v].item]
          /\ [v \in Worker |-> walk[v].lost]'
               = [[v \in Worker |-> walk[v].lost] EXCEPT ![w] = TRUE]
      BY <1>0, <1>3 DEF FenceMark, WalkRec
    <2>3. {j \in Item : Running(j)}' = {j \in Item : Running(j)}
      BY <1>3 DEF FenceMark, rows, Running
    <2>4. Leases!FenceOut(w)
      BY <1>3, <2>1, <2>2, <2>3 DEF FenceMark, Leases!FenceOut, lease
    <2> QED BY <2>4 DEF Leases!Next
  <1> QED BY <1>1, <1>2, <1>3 DEF Beat

\* Panics, expiries and crashes.
LEMMA FaultRefines ==
  ASSUME IInv,
         (\E w \in Worker : BodyPanics(w)) \/ (\E i \in Item : Lapse(i))
         \/ CrashAndBoot
  PROVE  [Leases!Next]_(Leases!vars)
  <1>1. ASSUME NEW w \in Worker, BodyPanics(w)
        PROVE  [Leases!Next]_(Leases!vars)
    <2>1. SameWalks
      BY <1>1, WalkType DEF BodyPanics, SameWalks, WalkRec
    <2> QED BY <1>1, <2>1, QuietStep DEF BodyPanics, rows
  <1>2. ASSUME NEW i \in Item, Lapse(i)
        PROVE  Leases!Lapse(i)
    <2>1. /\ {j \in Item : Running(j)}' = {j \in Item : Running(j)}
          /\ [v \in Worker |-> walk[v].item]' = [v \in Worker |-> walk[v].item]
          /\ [v \in Worker |-> walk[v].lost]' = [v \in Worker |-> walk[v].lost]
      BY <1>2 DEF Lapse, rows, Running
    <2> QED BY <1>2, <2>1 DEF Lapse, Leases!Lapse
  <1>3. CASE CrashAndBoot
    <2>1. Idle.item = NoItem /\ Idle.lost = FALSE
      BY DEF Idle
    <2>2. /\ {j \in Item : Running(j)}' = {j \in Item : Running(j)}
          /\ [v \in Worker |-> walk[v].item]' = [v \in Worker |-> NoItem]
          /\ [v \in Worker |-> walk[v].lost]' = [v \in Worker |-> FALSE]
      BY <1>3, <2>1 DEF CrashAndBoot, rows, Running
    <2>3. Leases!Reboot
      BY <1>3, <2>2 DEF CrashAndBoot, Leases!Reboot
    <2> QED BY <2>3 DEF Leases!Next
  <1> QED BY <1>1, <1>2, <1>3 DEF Leases!Next

\* The lane handlers: an unfenced status write, a cancel, a lease clear.
LEMMA HandlerRefines ==
  ASSUME IInv, RequestOnEpic, NEW h \in Handler, HandlerStep(h)
  PROVE  [Leases!Next]_(Leases!vars)
  <1>0. walk \in [Worker -> WalkRec]
    BY WalkType
  <1>1. CASE SetLaneWrite(h)
    <2>1. SameWalks
      BY <1>1 DEF SetLaneWrite, SameWalks
    <2> QED BY <1>1, <2>1, EpicWrite DEF SetLaneWrite
  <1>2. CASE SetLaneKill(h)
    <2>1. req[h].epic \in Item
      BY <1>2 DEF SetLaneKill, RequestOnEpic, Item
    <2>2. SameWalks
      BY <1>0, <1>2, <2>1, KillKeeps DEF SetLaneKill, SameWalks, IInv, TypeOK
    <2> QED BY <1>2, <2>2, QuietStep DEF SetLaneKill, rows
  <1>3. CASE SetLaneClear(h)
    <2>1. req[h].epic \in Item
      BY <1>3 DEF SetLaneClear, RequestOnEpic, Item
    <2>2. /\ {j \in Item : Running(j)}' = {j \in Item : Running(j)}
          /\ [v \in Worker |-> walk[v].item]' = [v \in Worker |-> walk[v].item]
          /\ [v \in Worker |-> walk[v].lost]' = [v \in Worker |-> walk[v].lost]
      BY <1>3 DEF SetLaneClear, rows, Running
    <2>3. Leases!Clear(req[h].epic)
      BY <1>3, <2>2 DEF SetLaneClear, Leases!Clear
    <2> QED BY <2>1, <2>3 DEF Leases!Next
  <1>4. CASE RetryUnblock(h)
    <2> DEFINE e == req[h].epic
    <2>1. e \in Epic /\ e \in Item
      BY <1>4 DEF RetryUnblock, RequestOnEpic, Item
    <2>2. SameWalks
      BY <1>4 DEF RetryUnblock, SameWalks
    <2>3. CASE estatus[e] = "Blocked"
      <3>1. {j \in Item : Running(j)}' = {j \in Item : Running(j)} \cup {e}
        BY <1>4, <2>1, <2>3 DEF RetryUnblock, Running, IInv, TypeOK
      <3>2. Leases!RequeueFresh(e)
        BY <1>4, <2>2, <2>3, <3>1, SameWalking
        DEF RetryUnblock, Leases!RequeueFresh
      <3> QED BY <2>1, <3>2 DEF Leases!Next
    <2>4. CASE estatus[e] # "Blocked"
      BY <1>4, <2>2, <2>4, QuietStep DEF RetryUnblock, lease
    <2> QED BY <2>3, <2>4
  <1> QED BY <1>1, <1>2, <1>3, <1>4 DEF HandlerStep

\* What humans ask for: an accepted lane change, a retry, a run, a PATCH.
LEMMA RequestRefines ==
  ASSUME IInv, NewRequest
  PROVE  [Leases!Next]_(Leases!vars)
  <1>1. ASSUME NEW h \in Handler, NEW e \in Epic, NEW l \in Lane,
               SetLaneRead(h, e, l)
        PROVE  [Leases!Next]_(Leases!vars)
    <2>1. SameWalks
      BY <1>1 DEF SetLaneRead, SameWalks
    <2> QED BY <1>1, <2>1, QuietStep DEF SetLaneRead, rows
  <1>2. ASSUME NEW h \in Handler, NEW t \in Task, RetryTask(h, t)
        PROVE  [Leases!Next]_(Leases!vars)
    <2>1. SameWalks
      BY <1>2 DEF RetryTask, SameWalks
    <2>2. CASE t \in Solo
      <3>1. t \in Item /\ t \notin Epic
        BY <2>2, ExecutorAssumption DEF Item, Task
      <3>2. {j \in Item : Running(j)}' = {j \in Item : Running(j)} \cup {t}
        BY <1>2, <2>2, <3>1 DEF RetryTask, Running, IInv, TypeOK
      <3>3. Leases!RequeueFresh(t)
        BY <1>2, <2>1, <2>2, <3>2, SameWalking
        DEF RetryTask, Leases!RequeueFresh
      <3> QED BY <3>1, <3>3 DEF Leases!Next
    <2>3. CASE t \notin Solo
      <3>1. t \notin live
        BY <2>3, ExecutorAssumption DEF IInv, TypeOK, Item, Task
      <3>2. UNCHANGED lease
        BY <1>2, <2>3, <3>1 DEF RetryTask, lease
      <3> QED BY <1>2, <2>1, <3>2, TaskWrite DEF RetryTask
    <2> QED BY <2>2, <2>3
  <1>3. ASSUME NEW s \in Solo, RunTask(s)
        PROVE  [Leases!Next]_(Leases!vars)
    <2>1. SameWalks
      BY <1>3 DEF RunTask, SameWalks
    <2> QED BY <1>3, <2>1, TaskWrite DEF RunTask
  <1>4. ASSUME NEW t \in Task, NEW to \in PatchTo, PatchTask(t, to)
        PROVE  [Leases!Next]_(Leases!vars)
    <2>1. SameWalks
      BY <1>4 DEF PatchTask, SameWalks
    <2> QED BY <1>4, <2>1, TaskWrite DEF PatchTask
  <1>5. ASSUME NEW h \in Handler, NEW e \in Epic, NEW l \in Request \cap Lane,
               SetLaneRead(h, e, l)
        PROVE  [Leases!Next]_(Leases!vars)
    BY <1>1, <1>5
  <1> QED BY <1>2, <1>3, <1>4, <1>5 DEF NewRequest

\* The review poller writes the status of its candidate, or of nothing.
LEMMA PollRefines ==
  ASSUME IInv, Reviewer \/ (\E i \in Item : PollFetch(i)) \/ PollStep
  PROVE  [Leases!Next]_(Leases!vars)
  <1>1. CASE Reviewer \/ \E i \in Item : PollFetch(i)
    <2>1. SameWalks /\ UNCHANGED <<rows, lease>>
      BY <1>1 DEF Reviewer, HostDecides, PollFetch, SameWalks
    <2> QED BY <2>1, QuietStep DEF rows
  <1>2. ASSUME NEW i, NEW l, NEW s, PollMove(i, l, s)
        PROVE  [Leases!Next]_(Leases!vars)
    <2>1. SameWalks /\ UNCHANGED lease
      BY <1>2 DEF PollMove, SameWalks
    <2>2. OthersKeepRunning(i)
      BY <1>2 DEF PollMove, OthersKeepRunning, Running, IInv, TypeOK, Item, Task
    <2> QED BY <2>1, <2>2, StatusStep
  <1>3. CASE PollSpawn
    <2>1. SameWalks /\ UNCHANGED lease /\ UNCHANGED estatus
      BY <1>3 DEF PollSpawn, SameWalks
    <2> QED BY <1>3, <2>1, TaskWrite DEF PollSpawn
  <1>4. CASE PollFlip
    BY <1>2, <1>4 DEF PollFlip
  <1>5. CASE PollApply
    <2>1. CASE UNCHANGED <<rows, lease, walk>>
      <3>1. SameWalks
        BY <2>1 DEF SameWalks
      <3> QED BY <2>1, <3>1, QuietStep DEF rows
    <2> QED BY <1>2, <1>5, <2>1 DEF PollApply
  <1> QED BY <1>1, <1>3, <1>4, <1>5 DEF PollStep

LEMMA RefinedStep ==
  IInv /\ RequestOnEpic /\ [Next]_vars => [Leases!Next]_(Leases!vars)
  <1> SUFFICES ASSUME IInv, RequestOnEpic, [Next]_vars
               PROVE  [Leases!Next]_(Leases!vars)
    OBVIOUS
  <1>1. CASE UNCHANGED vars
    <2>1. SameWalks /\ UNCHANGED <<rows, lease>>
      BY <1>1 DEF vars, SameWalks
    <2> QED BY <2>1, QuietStep DEF rows
  <1> QED
    BY <1>1, BodyRefines, LoopRefines, BeatRefines, FaultRefines, HandlerRefines,
       RequestRefines, PollRefines
    DEF Next

\* Whatever the handlers, the poller, the faults and the git host do, the pool
\* of worker.rs claims, renews, fences and releases as Lease says; what
\* LeaseProofs proves of Lease holds of the pool.
THEOREM PoolImplementsLease == Spec => ImplementsLease
  <1>1. Init => Leases!Init
    <2> SUFFICES ASSUME Init PROVE Leases!Init
      OBVIOUS
    <2>1. {i \in Item : Running(i)} = {}
      BY DEF Init, Running, Item, Task
    <2>2. /\ [w \in Worker |-> walk[w].item] = [w \in Worker |-> NoItem]
          /\ [w \in Worker |-> walk[w].lost] = [w \in Worker |-> FALSE]
      BY DEF Init, Idle
    <2> QED BY <2>1, <2>2 DEF Init, Leases!Init
  <1> QED BY <1>1, Inductive, RefinedStep, PTL DEF Spec, ImplementsLease, Leases!Spec

-----------------------------------------------------------------------------
(***************************************************************************)
(* Recorded pull requests.                                                 *)
(***************************************************************************)

\* A walk that is about to record a pull request has seen the host open it, and
\* what it remembers as recorded is recorded.
PrInMemory ==
    \A w \in Worker :
        /\ walk[w].pc = "persist" /\ ~walk[w].prSeen =>
               prState[walk[w].item] # "none"
        /\ walk[w].prSeen => walk[w].item \in prRow

\* PrRowSound, with its second half for the standalone tasks of S.
PrSound(S) ==
    /\ \A i \in prRow : prState[i] # "none"
    /\ \A s \in S : tstatus[s] = "InReview" => s \in prRow

\* A walk's prSeen and item stay, and it does not enter "persist".
LEMMA PrQuiet ==
  ASSUME NEW S \in SUBSET Solo, IInv, PrInMemory, PrSound(S),
         UNCHANGED <<prRow, prState>>,
         \A w \in Worker :
             \/ ~walk'[w].prSeen /\ walk'[w].pc # "persist"
             \/ /\ walk'[w].prSeen = walk[w].prSeen
                /\ walk'[w].item = walk[w].item
                /\ walk'[w].pc = "persist" => walk[w].pc = "persist",
         \A s \in S : tstatus'[s] = "InReview" => tstatus[s] = "InReview"
  PROVE  PrInMemory' /\ PrSound(S)'
  BY DEF PrInMemory, PrSound

LEMMA PrBody ==
  ASSUME NEW S \in SUBSET Solo, IInv, PrInMemory, PrSound(S),
         NEW w \in Worker, Body(w)
  PROVE  PrInMemory' /\ PrSound(S)'
  <1>0. walk \in [Worker -> WalkRec] /\ tstatus \in [Task -> TaskStatus]
    BY WalkType DEF IInv, TypeOK
  <1> DEFINE Stays(f) == \A v \in Worker :
                           /\ f[v].prSeen = walk[v].prSeen
                           /\ f[v].item = walk[v].item
                           /\ f[v].pc = "persist" => walk[v].pc = "persist"
  <1>1. ASSUME Stays(walk'), UNCHANGED <<prRow, prState>>,
               \A s \in S : tstatus'[s] = "InReview" => tstatus[s] = "InReview"
        PROVE  PrInMemory' /\ PrSound(S)'
    BY <1>1, PrQuiet
  <1>2. ASSUME NEW l, l # "persist",
               Go(w, l) \/ Register(w, l) \/ Unregister(w, l)
        PROVE  PrInMemory' /\ PrSound(S)'
    <2>1. Stays(walk')
      BY <1>0, <1>2 DEF Go, Register, Unregister, WalkRec
    <2> QED BY <1>1, <1>2, <2>1 DEF Go, Register, Unregister, rows, env
  <1>3. CASE Enter(w) \/ Provision(w) \/ Preflight(w) \/ LaunchFails(w)
             \/ SkipSummary(w) \/ TriagePush(w) \/ LaunchStage(w) \/ StageOk(w)
             \/ StageFails(w) \/ SummaryEnds(w)
    <2>1. \A l \in {"provision", "preflight", "start", "failing", "launchVet",
                    "done"} :
            UnlessLost(w, l) # "persist" /\ Boundary(w, l) # "persist"
      BY DEF UnlessLost, Boundary
    <2>2. CASE Enter(w) \/ Provision(w) \/ Preflight(w)
      BY <1>2, <2>1, <2>2 DEF Enter, Provision, Preflight
    <2>3. CASE LaunchFails(w) \/ SkipSummary(w) \/ TriagePush(w)
      BY <1>2, <2>1, <2>3 DEF LaunchFails, SkipSummary, TriagePush
    <2>4. CASE LaunchStage(w) \/ StageOk(w) \/ StageFails(w) \/ SummaryEnds(w)
      BY <1>2, <2>1, <2>4 DEF LaunchStage, StageOk, StageFails, SummaryEnds
    <2> QED BY <1>3, <2>2, <2>3, <2>4
  <1>4. CASE StartTask(w) \/ FailTask(w) \/ BlockEpic(w) \/ StageRepeats(w)
             \/ StageCancelled(w)
    <2>1. Stays(walk')
      BY <1>0, <1>4 DEF StartTask, FailTask, BlockEpic, StageRepeats,
           StageCancelled, WalkRec, Boundary
    <2>2. \A s \in S : tstatus'[s] = "InReview" => tstatus[s] = "InReview"
      BY <1>0, <1>4 DEF StartTask, FailTask, BlockEpic, StageRepeats,
           StageCancelled, rows, Task
    <2>3. UNCHANGED <<prRow, prState>>
      BY <1>4 DEF StartTask, FailTask, BlockEpic, StageRepeats,
           StageCancelled, rows, env
    <2> QED BY <1>1, <2>1, <2>2, <2>3
  <1>5. CASE StageTimeout(w)
    <2> DEFINE g == KillRegistered(walk, walk[w].item)
    <2>1. walk[w].item \in Item
      BY <1>5, InBody DEF StageTimeout, InStage, AgentStage
    <2>2. g \in [Worker -> WalkRec]
      BY <1>0, <2>1, KillType DEF IInv, TypeOK
    <2>3. \A v \in Worker : g[v].item = walk[v].item /\ g[v].pc = walk[v].pc
                            /\ g[v].prSeen = walk[v].prSeen
      BY <1>0, <2>1 DEF KillRegistered, WalkRec, IInv, TypeOK
    <2> DEFINE l == IF walk[w].pc = "summarize"
                    THEN "push" ELSE UnlessLost(w, "failing")
    <2>4. /\ l # "persist"
          /\ walk' = [g EXCEPT ![w].killed = FALSE, ![w].pc = l]
      BY <1>5 DEF StageTimeout, UnlessLost
    <2> HIDE DEF g, l
    <2>5. Stays(walk')
      BY <2>2, <2>3, <2>4 DEF WalkRec
    <2> QED BY <1>1, <1>5, <2>5 DEF StageTimeout, rows, env
  <1>6. CASE MarkDone(w)
    <2>1. walk[w].item \in Item
      BY <1>6, InBody DEF MarkDone
    <2>2. /\ \A v \in Worker \ {w} : walk'[v] = walk[v]
          /\ walk'[w].prSeen => walk[w].item \in prRow
          /\ walk'[w].item = walk[w].item
          /\ walk'[w].pc # "persist"
      BY <1>0, <1>6 DEF MarkDone, WalkRec, UnlessLost
    <2>3. \A s \in S : tstatus'[s] = "InReview" => tstatus[s] = "InReview"
      BY <1>0, <1>6 DEF MarkDone, Task
    <2>4. UNCHANGED <<prRow, prState>>
      BY <1>6 DEF MarkDone, env
    <2>5. PrInMemory'
      BY <2>2, <2>4 DEF PrInMemory
    <2> QED BY <2>3, <2>4, <2>5 DEF PrSound
  <1>7. CASE DagStep(w)
    <2>1. ASSUME NEW t, walk' = [walk EXCEPT ![w].pc = "start", ![w].task = t],
                 UNCHANGED <<rows, env>>
          PROVE  PrInMemory' /\ PrSound(S)'
      <3>1. Stays(walk')
        BY <1>0, <2>1 DEF WalkRec
      <3> QED BY <1>1, <2>1, <3>1 DEF rows, env
    <2>2. ASSUME walk' = [walk EXCEPT ![w].pc = "final",
                                      ![w].prSeen = walk[w].item \in prRow],
                 UNCHANGED <<rows, env>>
          PROVE  PrInMemory' /\ PrSound(S)'
      <3>1. /\ \A v \in Worker \ {w} : walk'[v] = walk[v]
            /\ walk'[w].prSeen => walk[w].item \in prRow
            /\ walk'[w].item = walk[w].item
            /\ walk'[w].pc # "persist"
        BY <1>0, <2>2 DEF WalkRec
      <3>2. UNCHANGED <<prRow, prState, tstatus>>
        BY <2>2 DEF rows, env
      <3>3. PrInMemory'
        BY <3>1, <3>2 DEF PrInMemory
      <3> QED BY <3>2, <3>3 DEF PrSound
    <2>3. CASE Go(w, "leave")
      BY <1>2, <2>3
    <2>4. \/ Go(w, "leave")
          \/ \E t : /\ walk' = [walk EXCEPT ![w].pc = "start", ![w].task = t]
                    /\ UNCHANGED <<rows, lease, registry, env>>
          \/ /\ walk' = [walk EXCEPT ![w].pc = "final",
                                      ![w].prSeen = walk[w].item \in prRow]
             /\ UNCHANGED <<rows, lease, registry, env>>
      BY <1>7 DEF DagStep
    <2> QED BY <2>1, <2>2, <2>3, <2>4
  <1>8. CASE Push(w)
    <2>1. ASSUME Go(w, "persist"), walk[w].prSeen
          PROVE  PrInMemory' /\ PrSound(S)'
      <3>1. /\ \A v \in Worker \ {w} : walk'[v] = walk[v]
            /\ walk'[w].prSeen = walk[w].prSeen
            /\ walk'[w].item = walk[w].item
        BY <1>0, <2>1 DEF Go, WalkRec
      <3> QED BY <2>1, <3>1 DEF Go, PrInMemory, PrSound, rows, env
    <2> QED BY <1>2, <1>8, <2>1 DEF Push, UnlessLost
  <1>9. CASE OpenPr(w)
    <2>1. CASE Go(w, UnlessLost(w, "failing"))
      BY <1>2, <2>1 DEF UnlessLost
    <2>2. ASSUME NEW l, HostOpens(walk[w].item),
                 walk' = [walk EXCEPT ![w].pc = l], UNCHANGED rows
          PROVE  PrInMemory' /\ PrSound(S)'
      <3>1. walk[w].item \in Item
        BY <1>9, InBody DEF OpenPr
      <3>2. /\ \A i \in Item : prState[i] # "none" => prState'[i] # "none"
            /\ prState'[walk[w].item] # "none"
        BY <2>2, <3>1 DEF HostOpens, IInv, TypeOK
      <3>3. /\ \A v \in Worker \ {w} : walk'[v] = walk[v]
            /\ walk'[w].prSeen = walk[w].prSeen
            /\ walk'[w].item = walk[w].item
        BY <1>0, <2>2 DEF WalkRec
      <3>4. \A v \in Worker : walk[v].pc = "persist" => walk[v].item \in Item
        BY InBody
      <3>5. prRow \subseteq Item
        BY DEF IInv, TypeOK
      <3> QED BY <2>2, <3>2, <3>3, <3>4, <3>5 DEF PrInMemory, PrSound, rows
    <2> QED BY <1>9, <2>1, <2>2 DEF OpenPr
  <1>10. CASE PersistEpic(w) \/ PersistTask(w)
    <2>1. PICK fits \in BOOLEAN :
            /\ RecordPr(w, fits)
            /\ walk[w].pc = "persist" /\ walk[w].item \in Item
            /\ \A s \in S : tstatus'[s] = "InReview" =>
                 tstatus[s] = "InReview" \/ (fits /\ s = walk[w].item)
      <3>1. CASE PersistEpic(w)
        <4> DEFINE f == ~walk[w].lost /\ estatus[walk[w].item] = "InProgress"
        <4>1. f \in BOOLEAN /\ RecordPr(w, f)
          BY <3>1 DEF PersistEpic
        <4> HIDE DEF f
        <4> QED BY <3>1, <4>1 DEF PersistEpic, Item
      <3>2. CASE PersistTask(w)
        <4> DEFINE f == ~walk[w].lost /\ tstatus[walk[w].item] = "Done"
        <4>1. /\ f \in BOOLEAN /\ RecordPr(w, f)
              /\ walk[w].pc = "persist" /\ walk[w].item \in Solo
              /\ tstatus' = IF f THEN [tstatus EXCEPT ![walk[w].item] = "InReview"]
                                 ELSE tstatus
          BY <3>2 DEF PersistTask
        <4> HIDE DEF f
        <4>2. \A s \in S : tstatus'[s] = "InReview" =>
                tstatus[s] = "InReview" \/ (f /\ s = walk[w].item)
          BY <1>0, <4>1 DEF Task
        <4> QED BY <4>1, <4>2 DEF Item
      <3> QED BY <1>10, <3>1, <3>2
    <2>2. /\ \A v \in Worker \ {w} : walk'[v] = walk[v]
          /\ walk'[w].prSeen = walk[w].prSeen
          /\ walk'[w].item = walk[w].item /\ walk'[w].pc = "leave"
      BY <1>0, <2>1 DEF RecordPr, WalkRec
    <2>3. PrInMemory'
      BY <2>1, <2>2 DEF RecordPr, PrInMemory, env
    <2>4. PrSound(S)'
      BY <2>1 DEF RecordPr, PrInMemory, PrSound, env
    <2> QED BY <2>3, <2>4
  <1> QED BY <1>3, <1>4, <1>5, <1>6, <1>7, <1>8, <1>9, <1>10 DEF Body

LEMMA PrOthers ==
  ASSUME NEW S \in SUBSET Solo, S = {} \/ "InReview" \notin PatchTo,
         IInv, PrInMemory, PrSound(S), RequestOnEpic, [Next]_vars, ~ \E w \in Worker : Body(w)
  PROVE  PrInMemory' /\ PrSound(S)'
  <1>0. walk \in [Worker -> WalkRec] /\ tstatus \in [Task -> TaskStatus]
    BY WalkType DEF IInv, TypeOK
  <1>1. ASSUME UNCHANGED <<walk, prRow, prState>>,
               \A s \in S : tstatus'[s] = "InReview" => tstatus[s] = "InReview"
        PROVE  PrInMemory' /\ PrSound(S)'
    BY <1>1, PrQuiet
  <1>2. ~Idle.prSeen /\ Idle.pc # "persist"
    BY DEF Idle
  <1>3. ASSUME NEW w \in Worker, WorkerLoop(w)
        PROVE  PrInMemory' /\ PrSound(S)'
    <2>1. /\ \A v \in Worker \ {w} : walk'[v] = walk[v]
          /\ \/ ~walk'[w].prSeen /\ walk'[w].pc # "persist"
             \/ /\ walk'[w].prSeen = walk[w].prSeen
                /\ walk'[w].item = walk[w].item /\ walk'[w].pc # "persist"
      <3>1. ASSUME NEW i \in Item, NEW l \in {"orphans", "enter"}, Take(w, i, l)
            PROVE  /\ \A v \in Worker \ {w} : walk'[v] = walk[v]
                   /\ ~walk'[w].prSeen /\ walk'[w].pc # "persist"
        BY <1>0, <3>1 DEF Take, Idle
      <3>2. CASE ClaimEpic(w) \/ ClaimTask(w)
        BY <3>1, <3>2 DEF ClaimEpic, ClaimTask, Item
      <3>3. CASE Leave(w)
        BY <1>0, <1>2, <3>3 DEF Leave
      <3>4. CASE NoEpicToClaim(w) \/ NothingToClaim(w) \/ ResetOrphans(w)
        BY <1>0, <3>4 DEF NoEpicToClaim, NothingToClaim, ResetOrphans, WalkRec
      <3> QED BY <1>3, <3>2, <3>3, <3>4 DEF WorkerLoop
    <2>2. UNCHANGED <<prRow, prState>>
          /\ \A s \in S : tstatus'[s] = "InReview" => tstatus[s] = "InReview"
      BY <1>0, <1>3 DEF WorkerLoop, ClaimEpic, ClaimTask, Take, NoEpicToClaim,
           NothingToClaim, ResetOrphans, Leave, rows, env, Task
    <2> QED BY <2>1, <2>2, PrQuiet
  <1>4. ASSUME NEW w \in Worker, Beat(w) \/ BodyPanics(w)
        PROVE  PrInMemory' /\ PrSound(S)'
    <2>1. \A v \in Worker : /\ walk'[v].prSeen = walk[v].prSeen
                            /\ walk'[v].item = walk[v].item
                            /\ walk'[v].pc = "persist" => walk[v].pc = "persist"
      <3>1. CASE FenceKill(w)
        <4> DEFINE g == KillRegistered(walk, walk[w].item)
        <4>1. walk[w].item \in Item
          BY <1>0, <3>1 DEF FenceKill, IInv, BeatsOnItem, WalkRec
        <4>2. g \in [Worker -> WalkRec]
          BY <1>0, <4>1, KillType DEF IInv, TypeOK
        <4>3. \A v \in Worker : g[v].item = walk[v].item /\ g[v].pc = walk[v].pc
                                /\ g[v].prSeen = walk[v].prSeen
          BY <1>0, <4>1 DEF KillRegistered, WalkRec, IInv, TypeOK
        <4>4. walk' = [g EXCEPT ![w].hb = "killing"]
          BY <3>1 DEF FenceKill
        <4> HIDE DEF g
        <4> QED BY <4>2, <4>3, <4>4 DEF WalkRec
      <3>2. CASE Renew(w)
        BY <3>2 DEF Renew
      <3>3. CASE FenceMark(w) \/ BodyPanics(w)
        BY <1>0, <3>3 DEF FenceMark, BodyPanics, WalkRec
      <3> QED BY <1>4, <3>1, <3>2, <3>3 DEF Beat
    <2>2. UNCHANGED <<prRow, prState, tstatus>>
      BY <1>4 DEF Beat, Renew, FenceKill, FenceMark, BodyPanics, rows, env
    <2> QED BY <2>1, <2>2, PrQuiet
  <1>5. ASSUME NEW h \in Handler, HandlerStep(h)
        PROVE  PrInMemory' /\ PrSound(S)'
    <2>1. CASE SetLaneKill(h)
      <3>1. req[h].epic \in Item
        BY <2>1 DEF SetLaneKill, RequestOnEpic, Item
      <3>2. \A v \in Worker : /\ walk'[v].prSeen = walk[v].prSeen
                              /\ walk'[v].item = walk[v].item
                              /\ walk'[v].pc = walk[v].pc
        BY <1>0, <2>1, <3>1 DEF SetLaneKill, KillRegistered, WalkRec, IInv, TypeOK
      <3> QED BY <2>1, <3>2, PrQuiet DEF SetLaneKill, rows
    <2>2. CASE SetLaneWrite(h) \/ SetLaneClear(h) \/ RetryUnblock(h)
      BY <1>1, <2>2 DEF SetLaneWrite, SetLaneClear, RetryUnblock, rows
    <2> QED BY <1>5, <2>1, <2>2 DEF HandlerStep
  <1>6. CASE NewRequest
    <2>1. /\ UNCHANGED <<walk, prRow, prState>>
          /\ \A s \in S : tstatus'[s] = "InReview" => tstatus[s] = "InReview"
      <3>1. ASSUME NEW t \in Task, NEW to \in PatchTo, PatchTask(t, to)
            PROVE  /\ UNCHANGED <<walk, prRow, prState>>
                   /\ \A s \in S : tstatus'[s] = "InReview" =>
                                      tstatus[s] = "InReview"
        BY <1>0, <3>1 DEF PatchTask, env
      <3>2. ASSUME NEW h \in Handler, NEW t \in Task, RetryTask(h, t)
            PROVE  /\ UNCHANGED <<walk, prRow, prState>>
                   /\ \A s \in S : tstatus'[s] = "InReview" =>
                                      tstatus[s] = "InReview"
        BY <1>0, <3>2 DEF RetryTask
      <3>3. ASSUME NEW s \in Solo, RunTask(s)
            PROVE  /\ UNCHANGED <<walk, prRow, prState>>
                   /\ \A u \in S : tstatus'[u] = "InReview" =>
                                      tstatus[u] = "InReview"
        BY <1>0, <3>3 DEF RunTask, env
      <3>4. ASSUME NEW h \in Handler, NEW e \in Epic, NEW l, SetLaneRead(h, e, l)
            PROVE  UNCHANGED <<walk, prRow, prState, tstatus>>
        BY <3>4 DEF SetLaneRead, rows
      <3> QED BY <1>6, <3>1, <3>2, <3>3, <3>4 DEF NewRequest
    <2> QED BY <1>1, <2>1
  <1>7. CASE CrashAndBoot
    <2>1. /\ \A v \in Worker : walk'[v] = Idle
          /\ UNCHANGED <<prRow, prState, tstatus>>
      BY <1>7 DEF CrashAndBoot, rows
    <2> QED BY <1>2, <2>1, PrQuiet
  <1>8. CASE Reviewer
    <2>1. PICK i \in Item, v \in {"merged", "closed"} : HostDecides(i, v)
      BY <1>8 DEF Reviewer
    <2>2. \A j \in Item : prState[j] # "none" => prState'[j] # "none"
      BY <2>1 DEF HostDecides, IInv, TypeOK
    <2>3. UNCHANGED <<walk, rows>>
      BY <2>1 DEF HostDecides
    <2>4. \A v1 \in Worker : walk[v1].pc = "persist" => walk[v1].item \in Item
      BY InBody
    <2> QED BY <2>2, <2>3, <2>4 DEF PrInMemory, PrSound, rows, IInv, TypeOK
  <1>9. ASSUME (\E i \in Item : Lapse(i) \/ PollFetch(i)) \/ PollStep
        PROVE  PrInMemory' /\ PrSound(S)'
    <2>1. ASSUME NEW i, NEW l, NEW s, s # "InReview", PollMove(i, l, s)
          PROVE  PrInMemory' /\ PrSound(S)'
      BY <1>0, <1>1, <2>1 DEF PollMove
    <2>2. CASE PollSpawn
      BY <1>0, <1>1, <2>2 DEF PollSpawn
    <2>3. CASE PollFlip
      BY <2>1, <2>3 DEF PollFlip
    <2>4. CASE PollApply
      <3>1. CASE UNCHANGED <<rows, walk, prState>>
        BY <1>1, <3>1 DEF rows
      <3> QED BY <2>1, <2>4, <3>1 DEF PollApply
    <2>5. CASE \E i \in Item : Lapse(i) \/ PollFetch(i)
      BY <1>1, <2>5 DEF Lapse, PollFetch, rows, env
    <2> QED BY <1>9, <2>2, <2>3, <2>4, <2>5 DEF PollStep
  <1>10. CASE UNCHANGED vars
    BY <1>1, <1>10 DEF vars, rows, env
  <1> QED BY <1>3, <1>4, <1>5, <1>6, <1>7, <1>8, <1>9, <1>10 DEF Next

\* As long as nobody writes InReview by PATCH, a recorded pull request exists on
\* the host and a standalone task under review has one, whatever replies are
\* lost, whoever loses a lease, and wherever the process crashes.
THEOREM PullRequestsExist ==
  ASSUME "InReview" \notin PatchTo
  PROVE  Spec => []PrRowSound
  <1> DEFINE Inv == IInv /\ RequestOnEpic /\ PrInMemory /\ PrSound(Solo)
  <1>1. Init => Inv
    <2>1. Init => RequestOnEpic
      BY DEF Init, RequestOnEpic, NoRequest
    <2>2. Init => PrInMemory /\ PrSound(Solo)
      BY DEF Init, PrInMemory, PrSound, Idle, Task
    <2> QED BY <2>1, <2>2, InitInv
  <1>2. Inv /\ [Next]_vars => Inv'
    BY Step, PrBody, PrOthers
  <1>3. Inv => PrRowSound
    BY DEF PrSound, PrRowSound
  <1> QED BY <1>1, <1>2, <1>3, PTL DEF Spec

-----------------------------------------------------------------------------
(***************************************************************************)
(* What a step does to walks and rows, put once for the invariants that    *)
(* follow: a body moves its own walk on and writes at most one row.        *)
(***************************************************************************)

OnTask == {"start", "launch", "implement", "launchVet", "vet"}
Closing == {"final", "summarize", "push", "openPr", "persist"}
Over == {"triage", "leave"}

AllDone(e) == \A t \in TasksOf(e) : tstatus[t] = "Done"

SameWalk(v) ==
    /\ walk'[v].pc = walk[v].pc
    /\ walk'[v].item = walk[v].item
    /\ walk'[v].task = walk[v].task

\* Nothing is written; the walk may reach a task or the end of its item only
\* from there, or is a standalone one.
GoesOn(w) ==
    /\ walk'[w].task = walk[w].task
    /\ walk'[w].pc \in Closing => walk[w].pc \in Closing
    /\ walk'[w].pc \in OnTask => walk[w].pc \in OnTask \/ walk[w].item \in Solo
    /\ walk[w].pc \in Over => walk'[w].pc \in Over
    /\ UNCHANGED rows

\* The loop top picks a ready task, or finds all of them Done.
Decides(w) ==
    LET e == walk[w].item IN
    /\ walk[w].pc = "walk"
    /\ \/ /\ walk'[w].pc = "start"
          /\ walk'[w].task \in {t \in TasksOf(e) : Ready(t)}
       \/ /\ walk'[w].pc = "final"
          /\ walk'[w].task = walk[w].task
          /\ AllDone(e)
    /\ UNCHANGED rows

WritesTask(w, s) ==
    /\ tstatus' = [tstatus EXCEPT ![walk[w].task] = s]
    /\ walk[w].pc \notin Over
    /\ \/ s = "InProgress" /\ walk[w].pc = "start" /\ walk'[w].pc = "launch"
       \/ s = "Done" /\ walk'[w].pc \notin OnTask
          /\ (walk[w].item \in Solo \/ walk'[w].pc \notin Closing)
       \/ s = "Todo" /\ walk'[w].pc = "leave"
       \/ s = "Failed" /\ walk[w].pc = "failing"
          /\ walk'[w].pc = IF walk[w].item \in Epic THEN "blocking" ELSE "triage"
    /\ \/ walk'[w].task = walk[w].task
       \/ walk[w].item \in Epic /\ walk'[w].task = NoTask
    /\ UNCHANGED <<estatus, prRow>>

\* finalize has the item reviewed; fail_item blocks the epic.
WritesItem(w) ==
    LET i == walk[w].item IN
    /\ walk'[w].task = walk[w].task
    /\ \/ /\ walk[w].pc = "persist" /\ i \in Epic /\ walk'[w].pc = "leave"
          /\ estatus[i] = "InProgress"
          /\ estatus' = [estatus EXCEPT ![i] = "InReview"]
          /\ prRow' = IF walk[w].prSeen THEN prRow ELSE prRow \cup {i}
          /\ UNCHANGED tstatus
       \/ /\ walk[w].pc = "persist" /\ i \in Solo /\ walk'[w].pc = "leave"
          /\ tstatus' = [tstatus EXCEPT ![i] = "InReview"]
          /\ prRow' \in {prRow, prRow \cup {i}}
          /\ UNCHANGED estatus
       \/ /\ walk[w].pc = "blocking" /\ walk'[w].pc = "triage"
          /\ estatus[i] = "InProgress"
          /\ estatus' = [estatus EXCEPT ![i] = "Blocked"]
          /\ UNCHANGED <<tstatus, prRow>>

BodyMove(w) ==
    /\ \A v \in Worker \ {w} : SameWalk(v)
    /\ walk'[w].item = walk[w].item
    /\ \/ GoesOn(w) \/ Decides(w) \/ WritesItem(w)
       \/ \E s \in TaskStatus : WritesTask(w, s)
    /\ UNCHANGED <<lease, req, poll, crashes>>

\* A plain move of the program counter.
LEMMA GoMoves ==
  ASSUME IInv, NEW w \in Worker, NEW l, UNCHANGED <<rows, lease, req, poll, crashes>>,
         \/ Go(w, l) \/ Register(w, l) \/ Unregister(w, l)
         \/ \E n : walk' = [walk EXCEPT ![w].pc = l, ![w].killed = FALSE,
                                        ![w].stages = n]
         \/ walk' = [walk EXCEPT ![w].pc = l],
         l \in Closing => walk[w].pc \in Closing,
         l \in OnTask => walk[w].pc \in OnTask \/ walk[w].item \in Solo,
         walk[w].pc \in Over => l \in Over
  PROVE  BodyMove(w)
  <1>0. walk \in [Worker -> WalkRec]
    BY WalkType
  <1>1. /\ \A v \in Worker \ {w} : SameWalk(v)
        /\ walk'[w].item = walk[w].item
        /\ walk'[w].pc = l /\ walk'[w].task = walk[w].task
    BY <1>0 DEF Go, Register, Unregister, SameWalk, WalkRec
  <1> QED BY <1>1 DEF BodyMove, GoesOn

\* Every step of a body is such a move.
LEMMA BodyMoves ==
  ASSUME IInv, NEW w \in Worker, Body(w)
  PROVE  BodyMove(w)
  <1>0. /\ walk \in [Worker -> WalkRec]
        /\ tstatus \in [Task -> TaskStatus] /\ estatus \in [Epic -> Lane]
    BY WalkType DEF IInv, TypeOK
  <1> DEFINE Fits(l) == /\ l \in Closing => walk[w].pc \in Closing
                        /\ l \in OnTask => \/ walk[w].pc \in OnTask
                                           \/ walk[w].item \in Solo
                        /\ walk[w].pc \in Over => l \in Over
  <1>1. ASSUME NEW l, UNCHANGED <<rows, lease, req, poll, crashes>>, Fits(l),
               \/ Go(w, l) \/ Register(w, l) \/ Unregister(w, l)
               \/ \E n : walk' = [walk EXCEPT ![w].pc = l, ![w].killed = FALSE,
                                              ![w].stages = n]
               \/ walk' = [walk EXCEPT ![w].pc = l]
        PROVE  BodyMove(w)
    BY <1>1, GoMoves
  <1>2. ASSUME NEW l, Fits(l), Go(w, l) \/ Register(w, l) \/ Unregister(w, l)
        PROVE  BodyMove(w)
    BY <1>1, <1>2 DEF Go, Register, Unregister, env
  <1>3. CASE Enter(w) \/ Provision(w) \/ Preflight(w)
    <2>1. \A l \in {"provision", "preflight", "failing"} :
            walk[w].pc \in {"enter", "provision", "preflight"} =>
              Fits(l) /\ Fits(UnlessLost(w, l)) /\ Fits(Boundary(w, l))
      BY DEF UnlessLost, Boundary, Closing, OnTask, Over
    <2>2. CASE Enter(w)
      BY <1>2, <2>1, <2>2 DEF Enter
    <2>3. CASE Provision(w)
      BY <1>2, <2>1, <2>3 DEF Provision
    <2>4. CASE Preflight(w)
      <3>1. /\ walk[w].pc = "preflight"
            /\ walk[w].item \in Item
        BY <2>4, InBody DEF Preflight
      <3>2. Fits(IF walk[w].item \in Epic THEN "walk" ELSE Boundary(w, "start"))
        BY <3>1 DEF Boundary, Closing, OnTask, Over, Item
      <3> QED BY <1>2, <2>1, <2>4, <3>1, <3>2 DEF Preflight
    <2> QED BY <1>3, <2>2, <2>3, <2>4
  <1>4. CASE LaunchFails(w) \/ SkipSummary(w) \/ TriagePush(w) \/ Push(w)
    <2>1. (Fits("failing") /\ Fits(UnlessLost(w, "failing"))) \/ walk[w].pc \in Over
      BY DEF UnlessLost, Closing, OnTask, Over
    <2>2. CASE LaunchFails(w)
      BY <1>2, <2>1, <2>2 DEF LaunchFails, Over
    <2>3. CASE SkipSummary(w)
      <3>1. Fits("push")
        BY <2>3 DEF SkipSummary, Closing, OnTask, Over
      <3> QED BY <1>2, <2>3, <3>1 DEF SkipSummary
    <2>4. CASE TriagePush(w)
      <3>1. Fits("leave")
        BY <2>4 DEF TriagePush, Closing, OnTask, Over
      <3> QED BY <1>2, <2>4, <3>1 DEF TriagePush
    <2>5. CASE Push(w)
      <3>1. Fits(IF walk[w].prSeen THEN "persist" ELSE "openPr")
        BY <2>5 DEF Push, Closing, OnTask, Over
      <3>2. walk[w].pc \notin Over
        BY <2>5 DEF Push, Over
      <3> QED BY <1>2, <2>1, <2>5, <3>1, <3>2 DEF Push
    <2> QED BY <1>4, <2>2, <2>3, <2>4, <2>5
  <1>5. CASE LaunchStage(w) \/ StageOk(w) \/ StageFails(w) \/ SummaryEnds(w)
    <2>1. CASE LaunchStage(w)
      <3>1. walk[w].pc \in {"launch", "launchVet"} =>
              Fits("implement") /\ Fits("vet")
        BY DEF Closing, OnTask, Over
      <3>2. walk[w].pc = "final" => Fits("summarize")
        BY DEF Closing, OnTask, Over
      <3> QED BY <1>2, <2>1, <3>1, <3>2 DEF LaunchStage
    <2>2. CASE StageOk(w)
      <3>1. walk[w].pc \in {"implement", "vet"} =>
              Fits(Boundary(w, "launchVet")) /\ Fits(UnlessLost(w, "done"))
        BY DEF Closing, OnTask, Over, UnlessLost, Boundary
      <3> QED BY <1>2, <2>2, <3>1 DEF StageOk
    <2>3. CASE StageFails(w)
      <3>1. Fits(UnlessLost(w, "failing"))
        BY <2>3 DEF StageFails, Closing, OnTask, Over, UnlessLost
      <3> QED BY <1>2, <2>3, <3>1 DEF StageFails
    <2>4. CASE SummaryEnds(w)
      <3>1. Fits("push")
        BY <2>4 DEF SummaryEnds, Closing, OnTask, Over
      <3> QED BY <1>2, <2>4, <3>1 DEF SummaryEnds
    <2> QED BY <1>5, <2>1, <2>2, <2>3, <2>4
  <1>6. CASE StageRepeats(w)
    <2> DEFINE l == IF walk[w].pc = "implement"
                    THEN "launch" ELSE Boundary(w, "launchVet")
    <2>1. Fits(l)
      BY <1>6 DEF StageRepeats, Boundary, Closing, OnTask, Over
    <2>2. /\ walk' = [walk EXCEPT ![w].pc = l, ![w].killed = FALSE,
                                  ![w].stages = walk[w].stages + 1]
          /\ UNCHANGED <<rows, lease, req, poll, crashes>>
      BY <1>0, <1>6 DEF StageRepeats, env, WalkRec
    <2> HIDE DEF l
    <2> QED BY <1>1, <2>1, <2>2
  <1>7. CASE OpenPr(w)
    <2>1. \A l \in {"persist", UnlessLost(w, "failing")} :
            walk[w].pc = "openPr" => Fits(l)
      BY DEF UnlessLost, Closing, OnTask, Over
    <2> QED BY <1>1, <1>2, <1>7, <2>1 DEF OpenPr, HostOpens, Go, env
  <1>8. CASE StageTimeout(w)
    <2> DEFINE g == KillRegistered(walk, walk[w].item)
               l == IF walk[w].pc = "summarize"
                    THEN "push" ELSE UnlessLost(w, "failing")
               r == [g[w] EXCEPT !.killed = FALSE, !.pc = l]
    <2>1. walk[w].item \in Item /\ walk[w].pc \in AgentStage
      BY <1>8, InBody DEF StageTimeout, InStage, AgentStage
    <2>2. g \in [Worker -> WalkRec]
      BY <1>0, <2>1, KillType DEF IInv, TypeOK
    <2>3. \A v \in Worker : /\ g[v].item = walk[v].item /\ g[v].pc = walk[v].pc
                            /\ g[v].task = walk[v].task
      BY <1>0, <2>1 DEF KillRegistered, WalkRec, IInv, TypeOK
    <2>4. walk' = [g EXCEPT ![w].killed = FALSE, ![w].pc = l]
      BY <1>8 DEF StageTimeout
    <2>5. Fits(l)
      BY <2>1 DEF UnlessLost, Closing, OnTask, Over, AgentStage
    <2>6. UNCHANGED <<rows, lease, req, poll, crashes>>
      BY <1>8 DEF StageTimeout, env
    <2>7. l \in PC
      BY DEF UnlessLost, PC, AgentStage
    <2> HIDE DEF g, l
    <2>8. /\ \A v \in Worker \ {w} : SameWalk(v)
          /\ walk'[w].item = walk[w].item
          /\ walk'[w].pc = l /\ walk'[w].task = walk[w].task
      BY <2>2, <2>3, <2>4, <2>7 DEF SameWalk, WalkRec
    <2> QED BY <2>5, <2>6, <2>8 DEF BodyMove, GoesOn
  <1>9. CASE DagStep(w)
    <2>1. CASE Go(w, "leave")
      BY <1>2, <2>1 DEF Closing, OnTask, Over
    <2>2. ASSUME NEW t \in {u \in TasksOf(walk[w].item) : Ready(u)},
                 walk' = [walk EXCEPT ![w].pc = "start", ![w].task = t],
                 UNCHANGED <<rows, lease, registry, env>>
          PROVE  BodyMove(w)
      <3>1. /\ \A v \in Worker \ {w} : SameWalk(v)
            /\ walk'[w].item = walk[w].item
            /\ walk'[w].pc = "start" /\ walk'[w].task = t
        BY <1>0, <2>2 DEF SameWalk, WalkRec
      <3> QED BY <1>9, <2>2, <3>1 DEF BodyMove, Decides, DagStep, env
    <2>3. ASSUME AllDone(walk[w].item),
                 walk' = [walk EXCEPT ![w].pc = "final",
                                      ![w].prSeen = walk[w].item \in prRow],
                 UNCHANGED <<rows, lease, registry, env>>
          PROVE  BodyMove(w)
      <3>1. /\ \A v \in Worker \ {w} : SameWalk(v)
            /\ walk'[w].item = walk[w].item
            /\ walk'[w].pc = "final" /\ walk'[w].task = walk[w].task
        BY <1>0, <2>3 DEF SameWalk, WalkRec
      <3> QED BY <1>9, <2>3, <3>1 DEF BodyMove, Decides, DagStep, env
    <2> QED BY <1>9, <2>1, <2>2, <2>3 DEF DagStep, AllDone
  <1>10. CASE StartTask(w) \/ MarkDone(w) \/ StageCancelled(w) \/ FailTask(w)
    <2>1. CASE StartTask(w)
      <3>1. /\ \A v \in Worker \ {w} : SameWalk(v)
            /\ walk'[w].item = walk[w].item
            /\ walk'[w].pc = "launch" /\ walk'[w].task = walk[w].task
        BY <1>0, <2>1 DEF SameWalk, WalkRec, StartTask
      <3>2. WritesTask(w, "InProgress")
        BY <2>1, <3>1 DEF StartTask, WritesTask, Over
      <3> QED BY <2>1, <3>1, <3>2 DEF BodyMove, StartTask, TaskStatus, env
    <2>2. CASE MarkDone(w)
      <3> DEFINE i == walk[w].item
                 l == IF i \in Epic THEN "walk" ELSE UnlessLost(w, "final")
                 t == IF i \in Epic THEN NoTask ELSE walk[w].task
      <3>1. /\ \A v \in Worker \ {w} : SameWalk(v)
            /\ walk'[w].item = i /\ walk'[w].pc = l /\ walk'[w].task = t
        BY <1>0, <2>2 DEF SameWalk, WalkRec, MarkDone
      <3>2. i \in Item
        BY <2>2, InBody DEF MarkDone
      <3>3. WritesTask(w, "Done")
        BY <2>2, <3>1, <3>2
        DEF MarkDone, WritesTask, Over, OnTask, Closing, UnlessLost, Item
      <3> QED BY <2>2, <3>1, <3>3 DEF BodyMove, MarkDone, TaskStatus, env
    <2>3. CASE StageCancelled(w)
      <3>1. /\ \A v \in Worker \ {w} : SameWalk(v)
            /\ walk'[w].item = walk[w].item
            /\ walk'[w].pc = "leave" /\ walk'[w].task = walk[w].task
        BY <1>0, <2>3 DEF SameWalk, WalkRec, StageCancelled
      <3>2. GoesOn(w) \/ WritesTask(w, "Todo")
        BY <2>3, <3>1
        DEF StageCancelled, GoesOn, WritesTask, rows, Over, OnTask, Closing
      <3> QED BY <2>3, <3>1, <3>2 DEF BodyMove, StageCancelled, TaskStatus, env
    <2>4. CASE FailTask(w)
      <3> DEFINE l == IF walk[w].item \in Epic THEN "blocking" ELSE "triage"
      <3>1. /\ \A v \in Worker \ {w} : SameWalk(v)
            /\ walk'[w].item = walk[w].item
            /\ walk'[w].pc = l /\ walk'[w].task = walk[w].task
        BY <1>0, <2>4 DEF SameWalk, WalkRec, FailTask
      <3>2. GoesOn(w) \/ WritesTask(w, "Failed")
        BY <2>4, <3>1
        DEF FailTask, GoesOn, WritesTask, rows, Over, OnTask, Closing
      <3> QED BY <2>4, <3>1, <3>2 DEF BodyMove, FailTask, TaskStatus, env
    <2> QED BY <1>10, <2>1, <2>2, <2>3, <2>4
  <1>11. CASE BlockEpic(w) \/ PersistEpic(w) \/ PersistTask(w)
    <2>1. CASE BlockEpic(w)
      <3>1. /\ \A v \in Worker \ {w} : SameWalk(v)
            /\ walk'[w].item = walk[w].item
            /\ walk'[w].pc = "triage" /\ walk'[w].task = walk[w].task
        BY <1>0, <2>1 DEF SameWalk, WalkRec, BlockEpic
      <3>2. GoesOn(w) \/ WritesItem(w)
        BY <2>1, <3>1
        DEF BlockEpic, GoesOn, WritesItem, rows, Over, OnTask, Closing
      <3> QED BY <2>1, <3>1, <3>2 DEF BodyMove, BlockEpic, env
    <2>2. CASE PersistEpic(w)
      <3>1. /\ \A v \in Worker \ {w} : SameWalk(v)
            /\ walk'[w].item = walk[w].item
            /\ walk'[w].pc = "leave" /\ walk'[w].task = walk[w].task
        BY <1>0, <2>2 DEF SameWalk, WalkRec, PersistEpic, RecordPr
      <3>2. GoesOn(w) \/ WritesItem(w)
        BY <2>2, <3>1
        DEF PersistEpic, RecordPr, GoesOn, WritesItem, rows, Over, OnTask, Closing
      <3> QED BY <2>2, <3>1, <3>2 DEF BodyMove, PersistEpic, RecordPr, env
    <2>3. CASE PersistTask(w)
      <3>1. /\ \A v \in Worker \ {w} : SameWalk(v)
            /\ walk'[w].item = walk[w].item
            /\ walk'[w].pc = "leave" /\ walk'[w].task = walk[w].task
        BY <1>0, <2>3 DEF SameWalk, WalkRec, PersistTask, RecordPr
      <3>2. GoesOn(w) \/ WritesItem(w)
        BY <2>3, <3>1
        DEF PersistTask, RecordPr, GoesOn, WritesItem, rows, Over, OnTask, Closing
      <3> QED BY <2>3, <3>1, <3>2 DEF BodyMove, PersistTask, RecordPr, env
    <2> QED BY <1>11, <2>1, <2>2, <2>3
  <1> QED BY <1>3, <1>4, <1>5, <1>6, <1>7, <1>8, <1>9, <1>10, <1>11 DEF Body

LEMMA BodyBusy ==
  ASSUME NEW w \in Worker, Body(w)
  PROVE  walk[w].pc \notin {"idle", "second", "leave"}
  BY DEF Body, Enter, Provision, Preflight, DagStep, StartTask, LaunchFails,
     LaunchStage, SkipSummary, StageOk, StageRepeats, StageFails,
     StageCancelled, StageTimeout, InStage, AgentStage, MarkDone,
     SummaryEnds, Push, OpenPr, PersistEpic, PersistTask, FailTask,
     BlockEpic, TriagePush

-----------------------------------------------------------------------------
(***************************************************************************)
(* The cancel registry reaches every running stage of the items in I, as   *)
(* long as no two walks work on one of them.                               *)
(***************************************************************************)

KillableOn(I) ==
    \A w \in Worker :
        InStage(w) /\ walk[w].item \in I => registry[walk[w].item] = w

ApartOn(I) ==
    \A v, w \in Worker :
        /\ walk[v].item = walk[w].item /\ walk[w].item \in I
        /\ walk[v].pc \notin Over /\ walk[w].pc \notin Over
        => v = w

\* What a body does to the registry: it enters a stage, ends one, or neither.
Registers(w) ==
    \/ /\ walk[w].pc \notin Over /\ walk'[w].pc \in AgentStage
       /\ registry' = [registry EXCEPT ![walk[w].item] = w]
    \/ /\ InStage(w) /\ walk'[w].pc \notin AgentStage
       /\ registry' = [registry EXCEPT ![walk[w].item] = NoWorker]
    \/ walk'[w].pc \notin AgentStage /\ UNCHANGED registry

LEMMA BodyRegisters ==
  ASSUME IInv, NEW w \in Worker, Body(w)
  PROVE  Registers(w)
  <1>0. walk \in [Worker -> WalkRec]
    BY WalkType
  <1> USE DEF Registers
  <1>1. ASSUME NEW l, l \notin AgentStage,
               \/ Go(w, l) /\ walk[w].pc \notin AgentStage
               \/ Unregister(w, l) /\ InStage(w)
               \/ Go(w, l)
        PROVE  Registers(w)
    BY <1>0, <1>1 DEF Go, Unregister, WalkRec
  <1>2. \A l \in {"provision", "preflight", "start", "failing", "launchVet",
                  "done", "push", "persist", "openPr", "leave", "walk"} :
          /\ l \notin AgentStage
          /\ UnlessLost(w, l) \notin AgentStage /\ Boundary(w, l) \notin AgentStage
    BY DEF UnlessLost, Boundary, AgentStage
  <1>3. CASE Enter(w) \/ Provision(w) \/ Preflight(w) \/ LaunchFails(w)
    BY <1>1, <1>2, <1>3 DEF Enter, Provision, Preflight, LaunchFails
  <1>4. CASE SkipSummary(w) \/ TriagePush(w) \/ Push(w)
    BY <1>1, <1>2, <1>4 DEF SkipSummary, TriagePush, Push
  <1>5. CASE LaunchStage(w)
    <2>1. ASSUME NEW l \in AgentStage, Register(w, l), walk[w].pc \notin Over
          PROVE  Registers(w)
      BY <1>0, <2>1 DEF Register, WalkRec
    <2> QED BY <1>5, <2>1 DEF LaunchStage, AgentStage, Over
  <1>6. CASE StageOk(w) \/ StageFails(w) \/ SummaryEnds(w)
    BY <1>1, <1>2, <1>6 DEF StageOk, StageFails, SummaryEnds, InStage, AgentStage
  <1>7. CASE StageRepeats(w)
    <2> DEFINE l == IF walk[w].pc = "implement"
                    THEN "launch" ELSE Boundary(w, "launchVet")
    <2>1. /\ InStage(w) /\ l \notin AgentStage
          /\ registry' = [registry EXCEPT ![walk[w].item] = NoWorker]
      BY <1>7 DEF StageRepeats, InStage, AgentStage, Boundary
    <2>2. walk' = [walk EXCEPT ![w].pc = l, ![w].killed = FALSE,
                               ![w].stages = walk[w].stages + 1]
      BY <1>0, <1>7 DEF StageRepeats, WalkRec
    <2> HIDE DEF l
    <2>3. walk'[w].pc = l
      BY <1>0, <2>2 DEF WalkRec
    <2> QED BY <2>1, <2>3
  <1>8. CASE StageCancelled(w)
    BY <1>0, <1>8 DEF StageCancelled, WalkRec, InStage, AgentStage
  <1>9. CASE StageTimeout(w)
    <2> DEFINE g == KillRegistered(walk, walk[w].item)
               l == IF walk[w].pc = "summarize"
                    THEN "push" ELSE UnlessLost(w, "failing")
    <2>1. walk[w].item \in Item /\ InStage(w)
      BY <1>9, InBody DEF StageTimeout, InStage, AgentStage
    <2>2. g \in [Worker -> WalkRec]
      BY <1>0, <2>1, KillType DEF IInv, TypeOK
    <2>3. /\ walk' = [g EXCEPT ![w].killed = FALSE, ![w].pc = l]
          /\ registry' = [registry EXCEPT ![walk[w].item] = NoWorker]
      BY <1>9 DEF StageTimeout
    <2>4. l \notin AgentStage
      BY <1>2 DEF AgentStage
    <2> HIDE DEF g, l
    <2>5. walk'[w].pc = l
      BY <2>2, <2>3 DEF WalkRec
    <2> QED BY <2>1, <2>3, <2>4, <2>5
  <1>10. CASE StartTask(w) \/ MarkDone(w) \/ FailTask(w) \/ BlockEpic(w)
    BY <1>0, <1>10
    DEF StartTask, MarkDone, FailTask, BlockEpic, WalkRec, AgentStage, UnlessLost
  <1>11. CASE PersistEpic(w) \/ PersistTask(w)
    BY <1>0, <1>11 DEF PersistEpic, PersistTask, RecordPr, WalkRec, AgentStage
  <1>12. CASE OpenPr(w)
    BY <1>0, <1>1, <1>2, <1>12 DEF OpenPr, WalkRec
  <1>13. CASE DagStep(w)
    BY <1>0, <1>1, <1>2, <1>13 DEF DagStep, WalkRec, AgentStage
  <1> QED BY <1>3, <1>4, <1>5, <1>6, <1>7, <1>8, <1>9, <1>10, <1>11, <1>12, <1>13
       DEF Body

\* A worker loop claims, resets the orphans of its epic or lets go.
LEMMA LoopMoves ==
  ASSUME IInv, NEW w \in Worker, WorkerLoop(w)
  PROVE  /\ \A v \in Worker \ {w} : SameWalk(v)
         /\ walk[w].pc \in {"idle", "second", "orphans", "leave"}
         /\ walk'[w].pc \in {"idle", "second", "orphans", "enter"}
         /\ \/ walk'[w].item = walk[w].item /\ walk'[w].task = walk[w].task
            \/ walk'[w].item = NoItem
            \/ /\ walk'[w].item \in Item /\ Claimable(walk'[w].item)
               /\ walk[w].pc \in {"idle", "second"}
               /\ walk'[w].task = IF walk'[w].item \in Solo
                                  THEN walk'[w].item ELSE NoTask
         /\ walk[w].pc = "leave" => walk'[w].item = NoItem
         /\ UNCHANGED <<estatus, prRow, registry, req, poll, crashes>>
  <1>0. walk \in [Worker -> WalkRec]
    BY WalkType
  <1>1. ASSUME NEW i \in Item, NEW l \in {"orphans", "enter"}, Take(w, i, l),
               walk[w].pc \in {"idle", "second"}
        PROVE  /\ \A v \in Worker \ {w} : SameWalk(v)
               /\ walk'[w].pc = l /\ walk'[w].item = i /\ Claimable(i)
               /\ walk'[w].task = IF i \in Solo THEN i ELSE NoTask
               /\ UNCHANGED <<rows, registry, env>>
    <2> DEFINE r == [Idle EXCEPT
                    !.pc = l, !.item = i,
                    !.task = IF i \in Solo THEN i ELSE NoTask,
                    !.hb = IF i \in Solo THEN "beating" ELSE "none"]
    <2>1. r.item = i /\ r.pc = l /\ r.task = IF i \in Solo THEN i ELSE NoTask
      BY DEF Idle
    <2>2. walk' = [walk EXCEPT ![w] = r]
      BY <1>1 DEF Take
    <2> HIDE DEF r
    <2> QED BY <1>0, <1>1, <2>1, <2>2 DEF Take, SameWalk
  <1>2. CASE ClaimEpic(w) \/ ClaimTask(w)
    <2>1. PICK i \in Item, l \in {"orphans", "enter"} :
            Take(w, i, l) /\ walk[w].pc \in {"idle", "second"}
      BY <1>2 DEF ClaimEpic, ClaimTask, Item
    <2> QED BY <1>1, <2>1 DEF rows, env
  <1>3. CASE NoEpicToClaim(w) \/ NothingToClaim(w)
    BY <1>0, <1>3 DEF NoEpicToClaim, NothingToClaim, SameWalk, WalkRec, rows, env
  <1>4. CASE ResetOrphans(w)
    BY <1>0, <1>4 DEF ResetOrphans, SameWalk, WalkRec, env
  <1>5. CASE Leave(w)
    <2>1. Idle.item = NoItem /\ Idle.pc = "idle"
      BY DEF Idle
    <2> QED BY <1>0, <1>5, <2>1 DEF Leave, SameWalk, rows, env
  <1> QED BY <1>2, <1>3, <1>4, <1>5 DEF WorkerLoop

\* Heartbeats and cancels leave every walk where it is.
LEMMA CancelSame ==
  ASSUME IInv, NEW i \in Item, walk' = KillRegistered(walk, i), NEW v \in Worker
  PROVE  SameWalk(v)
  BY WalkType DEF IInv, TypeOK, WalkRec, KillRegistered, SameWalk

LEMMA BeatSame ==
  ASSUME IInv, NEW w \in Worker, Beat(w), NEW v \in Worker
  PROVE  SameWalk(v) /\ UNCHANGED <<rows, owner, registry, env>>
  <1>0. walk \in [Worker -> WalkRec]
    BY WalkType
  <1>1. CASE Renew(w)
    BY <1>1 DEF Renew, SameWalk
  <1>2. CASE FenceMark(w)
    BY <1>0, <1>2 DEF FenceMark, SameWalk, WalkRec, lease
  <1>3. CASE FenceKill(w)
    <2> DEFINE g == KillRegistered(walk, walk[w].item)
    <2>1. walk[w].item \in Item
      BY <1>0, <1>3 DEF FenceKill, IInv, BeatsOnItem, WalkRec
    <2>2. g \in [Worker -> WalkRec]
      BY <1>0, <2>1, KillType DEF IInv, TypeOK
    <2>3. \A u \in Worker : /\ g[u].item = walk[u].item /\ g[u].pc = walk[u].pc
                            /\ g[u].task = walk[u].task
      BY <1>0, <2>1 DEF KillRegistered, WalkRec, IInv, TypeOK
    <2>4. walk' = [g EXCEPT ![w].hb = "killing"]
      BY <1>3 DEF FenceKill
    <2> HIDE DEF g
    <2> QED BY <1>3, <2>2, <2>3, <2>4 DEF SameWalk, WalkRec, FenceKill, lease
  <1> QED BY <1>1, <1>2, <1>3 DEF Beat

LEMMA PanicMoves ==
  ASSUME IInv, NEW w \in Worker, BodyPanics(w)
  PROVE  /\ \A v \in Worker \ {w} : SameWalk(v)
         /\ walk'[w].item = walk[w].item /\ walk'[w].task = walk[w].task
         /\ walk'[w].pc = "leave"
         /\ Registers(w)
         /\ UNCHANGED <<rows, lease, env>>
  BY WalkType DEF BodyPanics, SameWalk, WalkRec, Registers, InStage, AgentStage

\* Requests, the host and the poller leave the walks and the registry alone.
Outside ==
    \/ \E i \in Item : Lapse(i)
    \/ \E h \in Handler : HandlerStep(h)
    \/ NewRequest \/ Reviewer
    \/ \E i \in Item : PollFetch(i)
    \/ PollStep

LEMMA OutsideSame ==
  ASSUME IInv, RequestOnEpic, Outside
  PROVE  (\A v \in Worker : SameWalk(v)) /\ UNCHANGED <<registry, crashes>>
  <1>1. ASSUME UNCHANGED walk PROVE \A v \in Worker : SameWalk(v)
    BY <1>1 DEF SameWalk
  <1>2. ASSUME NEW h \in Handler, HandlerStep(h)
        PROVE  (\A v \in Worker : SameWalk(v)) /\ UNCHANGED <<registry, crashes>>
    <2>1. CASE SetLaneKill(h)
      <3>1. req[h].epic \in Item
        BY <2>1 DEF SetLaneKill, RequestOnEpic, Item
      <3> QED BY <2>1, <3>1, CancelSame DEF SetLaneKill
    <2>2. CASE SetLaneWrite(h) \/ SetLaneClear(h) \/ RetryUnblock(h)
      BY <1>1, <2>2 DEF SetLaneWrite, SetLaneClear, RetryUnblock
    <2> QED BY <1>2, <2>1, <2>2 DEF HandlerStep
  <1>3. CASE NewRequest
    BY <1>1, <1>3 DEF NewRequest, SetLaneRead, RetryTask, RunTask, PatchTask, env
  <1>4. CASE Reviewer \/ \E i \in Item : Lapse(i) \/ PollFetch(i)
    BY <1>1, <1>4 DEF Reviewer, HostDecides, Lapse, PollFetch, env
  <1>5. CASE PollStep
    BY <1>1, <1>5 DEF PollStep, PollApply, PollMove, PollSpawn, PollFlip
  <1> QED BY <1>2, <1>3, <1>4, <1>5 DEF Outside

LEMMA NextSplits ==
  ASSUME [Next]_vars
  PROVE  \/ \E w \in Worker : WorkerLoop(w) \/ Body(w) \/ Beat(w) \/ BodyPanics(w)
         \/ CrashAndBoot \/ Outside \/ UNCHANGED vars
  BY DEF Next, Outside

LEMMA KillableStep ==
  ASSUME IInv, RequestOnEpic, [Next]_vars, NEW I, NoItem \notin I,
         KillableOn(I), ApartOn(I)
  PROVE  KillableOn(I)'
  <1>1. ASSUME NEW w \in Worker, Registers(w), walk'[w].item = walk[w].item,
               \A v \in Worker \ {w} : SameWalk(v)
        PROVE  KillableOn(I)'
    <2> SUFFICES ASSUME NEW v \in Worker, walk'[v].pc \in AgentStage,
                        walk'[v].item \in I
                 PROVE  registry'[walk'[v].item] = v
      BY DEF KillableOn, InStage
    <2>1. CASE v = w
      <3>1. registry' = [registry EXCEPT ![walk[w].item] = w]
        BY <1>1, <2>1 DEF Registers
      <3>2. walk[w].item \in Item
        BY <1>1, <2>1, WalkType DEF WalkRec
      <3>3. registry \in [Item -> Worker \cup {NoWorker}]
        BY DEF IInv, TypeOK
      <3> QED BY <1>1, <2>1, <3>1, <3>2, <3>3
    <2>2. CASE v # w
      <3>1. InStage(v) /\ walk[v].item \in I /\ walk'[v].item = walk[v].item
        BY <1>1, <2>2 DEF SameWalk, InStage
      <3>2. registry[walk[v].item] = v /\ walk[v].pc \notin Over
        BY <3>1 DEF KillableOn, InStage, AgentStage, Over
      <3>3. UNCHANGED registry \/ walk[w].item # walk[v].item
        BY <1>1, <2>2, <3>1, <3>2 DEF Registers, ApartOn, InStage, AgentStage, Over
      <3>4. /\ registry \in [Item -> Worker \cup {NoWorker}]
            /\ walk[v].item \in Item
        BY <3>1, WalkType DEF IInv, TypeOK, WalkRec
      <3> QED BY <1>1, <3>1, <3>2, <3>3, <3>4 DEF Registers
    <2> QED BY <2>1, <2>2
  <1>2. ASSUME UNCHANGED registry,
               \A v \in Worker : SameWalk(v) \/ walk'[v].pc \notin AgentStage
        PROVE  KillableOn(I)'
    BY <1>2 DEF KillableOn, SameWalk, InStage
  <1>3. ASSUME NEW w \in Worker,
               WorkerLoop(w) \/ Body(w) \/ Beat(w) \/ BodyPanics(w)
        PROVE  KillableOn(I)'
    <2>1. CASE Body(w)
      BY <1>1, <2>1, BodyMoves, BodyRegisters DEF BodyMove
    <2>2. CASE BodyPanics(w)
      BY <1>1, <2>2, PanicMoves
    <2>3. CASE Beat(w)
      BY <1>2, <2>3, BeatSame
    <2>4. CASE WorkerLoop(w)
      BY <1>2, <2>4, LoopMoves DEF AgentStage
    <2> QED BY <1>3, <2>1, <2>2, <2>3, <2>4
  <1>4. CASE CrashAndBoot
    <2>1. \A v \in Worker : walk'[v].pc = "idle"
      BY <1>4 DEF CrashAndBoot, Idle
    <2> QED BY <2>1 DEF KillableOn, InStage, AgentStage
  <1>5. CASE Outside
    BY <1>2, <1>5, OutsideSame
  <1>6. CASE UNCHANGED vars
    BY <1>2, <1>6 DEF vars, SameWalk
  <1> QED BY <1>3, <1>4, <1>5, <1>6, NextSplits

\* The items no two walks have worked on at a time.
Unshared == {i \in Item : "shared" \notin past[i]}

PastType == past \in [Item -> SUBSET Disturbance]

\* What the history adds to a step: what has happened to an item stays, and two
\* walks at work on it are seen.
LEMMA PastStep ==
  ASSUME PastType, ApartOn(Unshared), [CalmNext]_<<vars, past>>
  PROVE  /\ [Next]_vars /\ PastType' /\ ApartOn(Unshared)'
         /\ \A i \in Item : past[i] \subseteq past'[i]
  <1>1. CASE UNCHANGED <<vars, past>>
    <2>1. UNCHANGED <<walk, past>>
      BY <1>1 DEF vars
    <2> QED BY <1>1, <2>1 DEF PastType, ApartOn, Unshared
  <1>2. CASE CalmNext
    <2>1. past' = [i \in Item |-> past[i] \cup Happens(i)]
      BY <1>2 DEF CalmNext
    <2>2. \A i \in Item : Happens(i) \in SUBSET Disturbance
      BY DEF Happens, Disturbance
    <2>3. PastType'
      BY <2>1, <2>2 DEF PastType
    <2>4. \A i \in Item : past[i] \subseteq past'[i]
      BY <2>1
    <2>5. \A i \in Item : "shared" \notin past'[i] => ~Shared(i)'
      BY <2>1 DEF Happens
    <2>6. ApartOn(Unshared)'
      <3> SUFFICES ASSUME NEW v \in Worker, NEW w \in Worker, v # w,
                          walk'[v].item = walk'[w].item, walk'[w].item \in Item,
                          walk'[v].pc \notin Over, walk'[w].pc \notin Over
                   PROVE  "shared" \in past'[walk'[w].item]
        BY DEF ApartOn, Unshared
      <3>1. PICK i \in Item : i = walk'[w].item
        OBVIOUS
      <3>2. Shared(i)'
        BY <3>1 DEF Shared, WorksOn, Over
      <3> QED BY <2>5, <3>1, <3>2
    <2> QED BY <1>2, <2>3, <2>4, <2>6 DEF CalmNext
  <1> QED BY <1>1, <1>2

\* An item that is unshared after a step was so before it.
LEMMA StaysApart ==
  ASSUME ApartOn(Unshared), NEW I \in SUBSET Item,
         \A i \in Item : past[i] \subseteq past'[i],
         \A i \in I : "shared" \notin past'[i]
  PROVE  ApartOn(I)
  <1>1. I \subseteq Unshared
    BY DEF Unshared
  <1> QED BY <1>1 DEF ApartOn

\* The cancel of an epic, a deadline or a fence-out reaches the stage it is
\* meant for, whatever lapses, panics, is re-enqueued or crashes, until two
\* walks have worked on the item at a time.
THEOREM StagesAreKillable == CalmSpec => []StageKillable
  <1> DEFINE Inv == /\ IInv /\ RequestOnEpic /\ PastType
                    /\ ApartOn(Unshared) /\ KillableOn(Unshared)
  <1>1. CalmInit => Inv
    <2> SUFFICES ASSUME CalmInit PROVE Inv
      OBVIOUS
    <2>1. RequestOnEpic /\ PastType
      BY DEF CalmInit, Init, RequestOnEpic, NoRequest, PastType
    <2>2. \A w \in Worker : walk[w].pc = "idle" /\ walk[w].item = NoItem
      BY DEF CalmInit, Init, Idle
    <2>3. ApartOn(Unshared) /\ KillableOn(Unshared)
      BY <2>2, ExecutorAssumption
      DEF ApartOn, KillableOn, InStage, AgentStage, Unshared
    <2> QED BY <2>1, <2>3, InitInv DEF CalmInit
  <1>2. Inv /\ [CalmNext]_<<vars, past>> => Inv'
    <2> SUFFICES ASSUME Inv, [CalmNext]_<<vars, past>> PROVE Inv'
      OBVIOUS
    <2>1. /\ [Next]_vars /\ PastType' /\ ApartOn(Unshared)'
          /\ \A i \in Item : past[i] \subseteq past'[i]
      BY PastStep
    <2>2. PICK I \in SUBSET Item : I = {i \in Item : "shared" \notin past'[i]}
      OBVIOUS
    <2>3. ApartOn(I)
      BY <2>1, <2>2, StaysApart
    <2>4. KillableOn(I) /\ NoItem \notin I
      BY <2>1, <2>2, ExecutorAssumption DEF KillableOn, Unshared
    <2>5. KillableOn(I)'
      BY <2>1, <2>3, <2>4, KillableStep
    <2>6. KillableOn(Unshared)'
      BY <2>2, <2>5 DEF KillableOn, Unshared
    <2> QED BY <2>1, <2>6, Step
  <1>3. Inv => StageKillable
    BY InBody DEF KillableOn, StageKillable, InStage, AgentStage, Unshared
  <1> QED BY <1>1, <1>2, <1>3, PTL DEF CalmSpec

-----------------------------------------------------------------------------
(***************************************************************************)
(* Standalone tasks: one walk works on a task at a time, as long as no     *)
(* lease lapses and nobody writes Failed by PATCH.                         *)
(***************************************************************************)

\* A walk is on a task of its own item.
TaskFits ==
    \A w \in Worker :
        /\ walk[w].item \in Solo => walk[w].task = walk[w].item
        /\ walk[w].item \in Epic =>
             \/ walk[w].task = NoTask
             \/ /\ walk[w].task \in EpicTask
                /\ Parent[walk[w].task] = walk[w].item

\* The row of a standalone task that has an owner has a lease that runs.
OwnedIsLive == \A s \in Solo : owner[s] # NoWorker => s \in live

\* Until its body has failed or finished, the walk of a standalone task owns
\* the row, and the row is not Failed: no retry can hand it to another walk.
SoloHeld ==
    \A w \in Worker :
        walk[w].item \in Solo /\ walk[w].pc \notin Over =>
            owner[walk[w].item] = w /\ tstatus[walk[w].item] # "Failed"

LEMMA TaskFitsStep ==
  ASSUME IInv, RequestOnEpic, [Next]_vars, TaskFits
  PROVE  TaskFits'
  <1>1. ASSUME \A v \in Worker : SameWalk(v)
        PROVE  TaskFits'
    BY <1>1 DEF TaskFits, SameWalk
  <1>2. ASSUME NEW w \in Worker, \A v \in Worker \ {w} : SameWalk(v),
               walk'[w].item \in Solo => walk'[w].task = walk'[w].item,
               walk'[w].item \in Epic =>
                 \/ walk'[w].task = NoTask
                 \/ /\ walk'[w].task \in EpicTask
                    /\ Parent[walk'[w].task] = walk'[w].item
        PROVE  TaskFits'
    BY <1>2 DEF TaskFits, SameWalk
  <1>3. ASSUME NEW w \in Worker, Body(w) PROVE TaskFits'
    <2>1. BodyMove(w)
      BY <1>3, BodyMoves
    <2>2. CASE \/ walk'[w].task = walk[w].task
               \/ walk'[w].task = NoTask /\ walk[w].item \in Epic
      BY <1>2, <2>1, <2>2, ExecutorAssumption DEF BodyMove, TaskFits, Task
    <2>3. CASE walk'[w].task \in TasksOf(walk[w].item)
      <3>1. /\ walk'[w].task \in EpicTask
            /\ Parent[walk'[w].task] = walk[w].item
            /\ walk[w].item \in Epic
        BY <2>3, ExecutorAssumption DEF TasksOf
      <3>2. walk[w].item \notin Solo
        BY <3>1, ExecutorAssumption DEF Task
      <3>3. /\ \A v \in Worker \ {w} : SameWalk(v)
            /\ walk'[w].item = walk[w].item
        BY <2>1 DEF BodyMove
      <3> QED BY <1>2, <3>1, <3>2, <3>3
    <2> QED BY <2>1, <2>2, <2>3
         DEF BodyMove, GoesOn, Decides, WritesTask, WritesItem
  <1>4. ASSUME NEW w \in Worker, WorkerLoop(w) PROVE TaskFits'
    <2>1. Solo \cap Epic = {} /\ NoItem \notin Item
      BY ExecutorAssumption DEF Task
    <2> QED BY <1>2, <1>4, <2>1, LoopMoves DEF TaskFits, Item
  <1>5. ASSUME NEW w \in Worker, Beat(w) \/ BodyPanics(w) PROVE TaskFits'
    BY <1>1, <1>2, <1>5, BeatSame, PanicMoves DEF TaskFits
  <1>6. CASE CrashAndBoot
    <2>1. \A v \in Worker : walk'[v].item = NoItem
      BY <1>6 DEF CrashAndBoot, Idle
    <2> QED BY <2>1, ExecutorAssumption DEF TaskFits, Item
  <1>7. CASE Outside
    BY <1>1, <1>7, OutsideSame
  <1>8. CASE UNCHANGED vars
    BY <1>1, <1>8 DEF vars, SameWalk
  <1> QED BY <1>3, <1>4, <1>5, <1>6, <1>7, <1>8, NextSplits

LEMMA HeldIsApart == ASSUME SoloHeld PROVE ApartOn(Solo)
  BY DEF SoloHeld, ApartOn

LEMMA SoloBody ==
  ASSUME IInv, TaskFits, OwnedIsLive, SoloHeld, NEW w \in Worker, Body(w)
  PROVE  OwnedIsLive' /\ SoloHeld'
  <1>1. BodyMove(w) /\ walk[w].item \in Item
    BY BodyBusy, BodyMoves, InBody
  <1>2. OwnedIsLive' /\ owner' = owner
    BY <1>1 DEF BodyMove, OwnedIsLive, lease
  <1>3. tstatus \in [Task -> TaskStatus]
    BY DEF IInv, TypeOK
  <1> SUFFICES ASSUME NEW v \in Worker, walk'[v].item \in Solo,
                      walk'[v].pc \notin Over
               PROVE  /\ owner[walk'[v].item] = v
                      /\ tstatus'[walk'[v].item] # "Failed"
    BY <1>2 DEF SoloHeld
  <1>4. walk'[v].item = walk[v].item /\ walk[v].pc \notin Over
    BY <1>1 DEF BodyMove, SameWalk, GoesOn, Decides, WritesTask, WritesItem, Over
  <1>5. /\ owner[walk[v].item] = v /\ tstatus[walk[v].item] # "Failed"
        /\ walk[v].item \in Task
    BY <1>4 DEF SoloHeld, Task
  <1>6. tstatus'[walk[v].item] # "Failed"
    <2>1. CASE GoesOn(w) \/ Decides(w)
      BY <1>5, <2>1 DEF GoesOn, Decides, rows
    <2>2. CASE WritesItem(w)
      BY <1>3, <1>5, <2>2 DEF WritesItem
    <2>3. ASSUME NEW s \in TaskStatus, WritesTask(w, s)
          PROVE  tstatus'[walk[v].item] # "Failed"
      <3>1. CASE s # "Failed"
        BY <1>3, <1>5, <2>3, <3>1 DEF WritesTask
      <3>2. CASE walk[w].item \in Epic
        <4>1. walk[w].task # walk[v].item
          BY <1>4, <3>2, ExecutorAssumption DEF TaskFits, Task
        <4> QED BY <1>3, <1>5, <2>3, <4>1 DEF WritesTask
      <3>3. CASE s = "Failed" /\ walk[w].item \notin Epic
        <4>1. walk[w].item \in Solo /\ walk[w].task = walk[w].item
          BY <1>1, <3>3 DEF Item, TaskFits
        <4>2. walk'[w].pc = "triage"
          BY <2>3, <3>3 DEF WritesTask
        <4>3. v # w
          BY <4>2 DEF Over
        <4>4. owner[walk[w].item] = w
          BY <2>3, <4>1 DEF WritesTask, SoloHeld
        <4>5. walk[w].task # walk[v].item
          BY <1>5, <4>1, <4>3, <4>4
        <4> QED BY <1>3, <1>5, <2>3, <4>5 DEF WritesTask
      <3> QED BY <3>1, <3>2, <3>3
    <2> QED BY <1>1, <2>1, <2>2, <2>3 DEF BodyMove
  <1> QED BY <1>4, <1>5, <1>6

LEMMA SoloLoop ==
  ASSUME IInv, TaskFits, OwnedIsLive, SoloHeld, NEW w \in Worker, WorkerLoop(w)
  PROVE  OwnedIsLive' /\ SoloHeld'
  <1>0. /\ walk \in [Worker -> WalkRec] /\ owner \in [Item -> Worker \cup {NoWorker}]
        /\ tstatus \in [Task -> TaskStatus] /\ NoWorker \notin Worker
        /\ NoItem \notin Solo /\ Solo \cap Epic = {} /\ Solo \subseteq Item
    BY WalkType, ExecutorAssumption DEF IInv, TypeOK, Item, Task
  <1>1. ASSUME NEW i \in Item, NEW l \in {"orphans", "enter"}, Take(w, i, l)
        PROVE  OwnedIsLive' /\ SoloHeld'
    <2> DEFINE r == [Idle EXCEPT
                    !.pc = l, !.item = i,
                    !.task = IF i \in Solo THEN i ELSE NoTask,
                    !.hb = IF i \in Solo THEN "beating" ELSE "none"]
    <2>1. r.item = i
      BY DEF Idle
    <2>2. walk' = [walk EXCEPT ![w] = r]
      BY <1>1 DEF Take
    <2> HIDE DEF r
    <2>3. /\ walk'[w].item = i
          /\ \A v \in Worker \ {w} : walk'[v] = walk[v]
      BY <1>0, <2>1, <2>2
    <2>4. /\ owner' = [owner EXCEPT ![i] = w] /\ live' = live \cup {i}
          /\ UNCHANGED tstatus
          /\ Running(i) /\ (owner[i] = NoWorker \/ i \notin live)
      BY <1>1 DEF Take, rows, Claimable
    <2>5. OwnedIsLive'
      BY <1>0, <2>4 DEF OwnedIsLive
    <2>6. i \in Solo => owner[i] = NoWorker /\ tstatus[i] = "InProgress"
      BY <1>0, <2>4 DEF OwnedIsLive, Running
    <2>7. SoloHeld'
      BY <1>0, <2>3, <2>4, <2>6 DEF SoloHeld
    <2> QED BY <2>5, <2>7
  <1>2. CASE ClaimEpic(w) \/ ClaimTask(w)
    BY <1>1, <1>2 DEF ClaimEpic, ClaimTask, Item
  <1>3. CASE NoEpicToClaim(w) \/ NothingToClaim(w)
    <2>1. walk[w].item = NoItem
      BY <1>3 DEF NoEpicToClaim, NothingToClaim, IInv, BusyOnItem
    <2>2. /\ walk'[w].item = NoItem
          /\ \A v \in Worker \ {w} : walk'[v] = walk[v]
          /\ UNCHANGED <<owner, live, tstatus>>
      BY <1>0, <1>3, <2>1 DEF NoEpicToClaim, NothingToClaim, WalkRec, rows, lease
    <2> QED BY <1>0, <2>2 DEF OwnedIsLive, SoloHeld
  <1>4. CASE ResetOrphans(w)
    <2>1. /\ \A v \in Worker : /\ walk'[v].item = walk[v].item
                               /\ walk'[v].pc = walk[v].pc \/ walk[v].pc = "orphans"
          /\ UNCHANGED <<owner, live>>
      BY <1>0, <1>4 DEF ResetOrphans, WalkRec, lease
    <2>2. \A s \in Solo : tstatus'[s] = tstatus[s]
      BY <1>4, ExecutorAssumption DEF ResetOrphans, TasksOf, Task
    <2> QED BY <1>0, <2>1, <2>2 DEF OwnedIsLive, SoloHeld, Over
  <1>5. CASE Leave(w)
    <2>1. Idle.item = NoItem
      BY DEF Idle
    <2>2. /\ walk'[w].item = NoItem
          /\ \A v \in Worker \ {w} : walk'[v] = walk[v]
          /\ UNCHANGED tstatus
          /\ \/ UNCHANGED <<owner, live>>
             \/ /\ owner[walk[w].item] = w
                /\ owner' = [owner EXCEPT ![walk[w].item] = NoWorker]
                /\ live' = live \ {walk[w].item}
      BY <1>0, <1>5, <2>1 DEF Leave, rows
    <2>3. walk[w].item \in Item
      BY <1>5, InBody DEF Leave
    <2>4. OwnedIsLive'
      BY <1>0, <2>2, <2>3 DEF OwnedIsLive
    <2>5. SoloHeld'
      BY <1>0, <2>2, <2>3 DEF SoloHeld
    <2> QED BY <2>4, <2>5
  <1> QED BY <1>2, <1>3, <1>4, <1>5 DEF WorkerLoop

LEMMA SoloOutside ==
  ASSUME IInv, RequestOnEpic, OwnedIsLive, SoloHeld, Outside,
         "lapse" \notin Faults, "Failed" \notin PatchTo
  PROVE  OwnedIsLive' /\ SoloHeld'
  <1>0. /\ owner \in [Item -> Worker \cup {NoWorker}]
        /\ tstatus \in [Task -> TaskStatus] /\ NoWorker \notin Worker
        /\ Solo \cap Epic = {} /\ Solo \cap EpicTask = {}
        /\ Solo \subseteq Item /\ Solo \subseteq Task
    BY ExecutorAssumption DEF IInv, TypeOK, Item, Task
  <1>1. \A v \in Worker : walk'[v].item = walk[v].item /\ walk'[v].pc = walk[v].pc
    BY OutsideSame DEF SameWalk
  <1>2. ASSUME \A s \in Solo : owner'[s] = owner[s] /\ (s \in live => s \in live'),
               \A s \in Solo : tstatus'[s] = "Failed" => tstatus[s] = "Failed"
        PROVE  OwnedIsLive' /\ SoloHeld'
    BY <1>1, <1>2 DEF OwnedIsLive, SoloHeld
  <1>3. ASSUME NEW h \in Handler, HandlerStep(h)
        PROVE  OwnedIsLive' /\ SoloHeld'
    <2>1. /\ UNCHANGED tstatus
          /\ \/ UNCHANGED <<owner, live>>
             \/ /\ req[h].epic \in Epic
                /\ owner' = [owner EXCEPT ![req[h].epic] = NoWorker]
                /\ live' = live \ {req[h].epic}
      BY <1>3 DEF HandlerStep, SetLaneWrite, SetLaneKill, SetLaneClear,
           RetryUnblock, RequestOnEpic, rows, lease
    <2> QED BY <1>0, <1>2, <2>1
  <1>4. CASE NewRequest
    <2>1. ASSUME NEW h \in Handler, NEW t \in Task, RetryTask(h, t)
          PROVE  OwnedIsLive' /\ SoloHeld'
      <3>1. CASE t \in Solo
        <4>1. /\ tstatus[t] = "Failed"
              /\ tstatus' = [tstatus EXCEPT ![t] = "InProgress"]
              /\ owner' = [owner EXCEPT ![t] = NoWorker] /\ live' = live \ {t}
          BY <2>1, <3>1 DEF RetryTask
        <4>2. OwnedIsLive'
          BY <1>0, <4>1 DEF OwnedIsLive
        <4>3. SoloHeld'
          BY <1>0, <1>1, <4>1 DEF SoloHeld
        <4> QED BY <4>2, <4>3
      <3>2. CASE t \notin Solo
        BY <1>0, <1>2, <2>1, <3>2 DEF RetryTask
      <3> QED BY <3>1, <3>2
    <2>2. ASSUME NEW h, NEW e, NEW l, SetLaneRead(h, e, l)
          PROVE  OwnedIsLive' /\ SoloHeld'
      BY <1>2, <2>2 DEF SetLaneRead, rows, lease
    <2>3. ASSUME NEW s \in Solo, RunTask(s)
          PROVE  OwnedIsLive' /\ SoloHeld'
      BY <1>0, <1>2, <2>3 DEF RunTask, lease
    <2>4. ASSUME NEW t \in Task, NEW to \in PatchTo, PatchTask(t, to)
          PROVE  OwnedIsLive' /\ SoloHeld'
      BY <1>0, <1>2, <2>4 DEF PatchTask, lease
    <2> QED BY <1>4, <2>1, <2>2, <2>3, <2>4 DEF NewRequest
  <1>5. CASE Reviewer \/ \E i \in Item : PollFetch(i)
    BY <1>2, <1>5 DEF Reviewer, HostDecides, PollFetch, rows, lease
  <1>6. CASE PollStep
    <2>1. ASSUME NEW i, NEW l, NEW s, s # "Failed", PollMove(i, l, s)
          PROVE  OwnedIsLive' /\ SoloHeld'
      BY <1>0, <1>2, <2>1 DEF PollMove, lease
    <2>2. CASE PollSpawn
      BY <1>0, <1>2, <2>2 DEF PollSpawn, lease
    <2>3. CASE UNCHANGED <<rows, lease>>
      BY <1>2, <2>3 DEF rows, lease
    <2> QED BY <1>6, <2>1, <2>2, <2>3 DEF PollStep, PollApply, PollFlip
  <1>7. ~ \E i \in Item : Lapse(i)
    BY DEF Lapse
  <1> QED BY <1>3, <1>4, <1>5, <1>6, <1>7 DEF Outside

LEMMA SoloStep ==
  ASSUME IInv, RequestOnEpic, TaskFits, OwnedIsLive, SoloHeld, [Next]_vars,
         "lapse" \notin Faults, "Failed" \notin PatchTo
  PROVE  OwnedIsLive' /\ SoloHeld'
  <1>1. ASSUME NEW w \in Worker, Beat(w)
        PROVE  OwnedIsLive' /\ SoloHeld'
    <2>1. live \subseteq live'
      BY <1>1 DEF Beat, Renew, FenceKill, FenceMark, lease
    <2> QED BY <1>1, <2>1, BeatSame DEF OwnedIsLive, SoloHeld, SameWalk, rows
  <1>2. ASSUME NEW w \in Worker, BodyPanics(w)
        PROVE  OwnedIsLive' /\ SoloHeld'
    BY <1>2, PanicMoves DEF OwnedIsLive, SoloHeld, SameWalk, Over, rows, lease
  <1>3. CASE CrashAndBoot
    <2>1. /\ \A v \in Worker : walk'[v].item = NoItem
          /\ \A i \in Item : owner'[i] = NoWorker
      BY <1>3 DEF CrashAndBoot, Idle
    <2> QED BY <2>1, ExecutorAssumption DEF OwnedIsLive, SoloHeld, Item
  <1>4. CASE UNCHANGED vars
    BY <1>4 DEF vars, rows, lease, OwnedIsLive, SoloHeld
  <1> QED BY <1>1, <1>2, <1>3, <1>4, SoloBody, SoloLoop, SoloOutside, NextSplits

\* Two walks never have an agent on one standalone task, and the handle of its
\* stage stays registered: a retry, a PATCH of another status, a panic or a
\* crash cannot bring a second walk in while the first still has work to do.
SoloStages ==
    /\ KillableOn(Solo)
    /\ \A v, w \in Worker :
         /\ InStage(v) /\ InStage(w)
         /\ walk[v].item = walk[w].item /\ walk[w].item \in Solo
         => v = w

\* It holds whatever epics run beside, for any number of workers and crashes.
THEOREM SoloHasOneStage ==
  ASSUME "lapse" \notin Faults, "Failed" \notin PatchTo
  PROVE  Spec => []SoloStages
  <1> DEFINE Inv == /\ IInv /\ RequestOnEpic /\ TaskFits /\ OwnedIsLive /\ SoloHeld
                    /\ KillableOn(Solo)
  <1>0. NoItem \notin Solo
    BY ExecutorAssumption DEF Item
  <1>1. Init => Inv
    <2> SUFFICES ASSUME Init PROVE Inv
      OBVIOUS
    <2>1. RequestOnEpic
      BY DEF Init, RequestOnEpic, NoRequest
    <2>2. TaskFits /\ SoloHeld
      BY ExecutorAssumption DEF Init, TaskFits, SoloHeld, Idle, Item
    <2>3. OwnedIsLive
      BY DEF Init, OwnedIsLive, Item
    <2>4. KillableOn(Solo)
      BY DEF Init, KillableOn, InStage, AgentStage, Idle
    <2> QED BY <2>1, <2>2, <2>3, <2>4, InitInv
  <1>2. Inv /\ [Next]_vars => Inv'
    <2> SUFFICES ASSUME Inv, [Next]_vars PROVE Inv'
      OBVIOUS
    <2>1. KillableOn(Solo)'
      BY <1>0, HeldIsApart, KillableStep
    <2> QED BY <2>1, Step, TaskFitsStep, SoloStep
  <1>3. Inv => SoloStages
    BY HeldIsApart DEF SoloStages, ApartOn, InStage, AgentStage, Over
  <1> QED BY <1>1, <1>2, <1>3, PTL DEF Spec

\* In a pool that runs standalone tasks alone, no item has two agents.
THEOREM OneStage ==
  ASSUME "lapse" \notin Faults, "Failed" \notin PatchTo, Epic = {}
  PROVE  Spec => []OneStagePerItem
  <1>1. Spec => []SoloStages
    BY SoloHasOneStage
  <1>2. IInv /\ SoloStages => OneStagePerItem
    <2>1. ASSUME IInv, NEW w \in Worker, InStage(w)
          PROVE  walk[w].item \in Solo
      BY <2>1, InBody DEF InStage, AgentStage, Item
    <2> QED BY <2>1 DEF SoloStages, OneStagePerItem
  <1> QED BY <1>1, <1>2, Inductive, PTL

-----------------------------------------------------------------------------
(***************************************************************************)
(* Dependencies and reviews, for the epics in I: no two walks work on one  *)
(* of them, and the step at hand does not disturb them.                    *)
(***************************************************************************)

\* The task a walk has in hand waits for nothing that is not Done.
BlockersDone(I) ==
    \A w \in Worker :
        /\ walk[w].item \in I /\ walk[w].pc \in OnTask
        /\ walk[w].task \in EpicTask
        => /\ walk[w].task \notin Blockers[walk[w].task]
           /\ \A b \in Blockers[walk[w].task] : tstatus[b] = "Done"

\* Outside the bodies a Done task stays Done, and only the poller inserts one.
TasksMove(I) ==
    \A t \in EpicTask : Parent[t] \in I =>
        /\ tstatus[t] = "Done" => tstatus'[t] = "Done"
        /\ tstatus[t] = "Absent" =>
             \/ tstatus'[t] = "Absent"
             \/ /\ poll.at = "fetched" /\ Parent[t] = poll.item
                /\ poll' = [poll EXCEPT !.at = "flip"]

LEMMA OutsideTasks ==
  ASSUME IInv, [Next]_vars, NEW I, \A e \in I : ~Reopened(e),
         ~ \E w \in Worker : Body(w)
  PROVE  TasksMove(I)
  <1>0. /\ tstatus \in [Task -> TaskStatus]
        /\ EpicTask \subseteq Task /\ EpicTask \cap Solo = {}
    BY ExecutorAssumption DEF IInv, TypeOK, Task
  <1>1. ASSUME NEW w \in Worker, WorkerLoop(w) \/ Beat(w) \/ BodyPanics(w)
        PROVE  TasksMove(I)
    <2>1. CASE ResetOrphans(w)
      BY <1>0, <2>1 DEF ResetOrphans, TasksMove, TasksOf
    <2>2. CASE UNCHANGED tstatus
      BY <2>2 DEF TasksMove
    <2> QED BY <1>1, <2>1, <2>2, BeatSame, PanicMoves
         DEF WorkerLoop, ClaimEpic, ClaimTask, Take, NoEpicToClaim,
             NothingToClaim, Leave, rows
  <1>2. CASE CrashAndBoot \/ UNCHANGED vars
    BY <1>2 DEF CrashAndBoot, vars, rows, TasksMove
  <1>3. CASE NewRequest
    <2>1. ASSUME NEW h \in Handler, NEW t \in Task, RetryTask(h, t)
          PROVE  TasksMove(I)
      BY <1>0, <2>1 DEF RetryTask, TasksMove
    <2>2. ASSUME NEW s \in Solo, RunTask(s)
          PROVE  TasksMove(I)
      BY <1>0, <2>2 DEF RunTask, TasksMove
    <2>3. ASSUME NEW t \in Task, NEW to \in PatchTo, PatchTask(t, to)
          PROVE  TasksMove(I)
      <3>1. tstatus[t] # "Absent" /\ tstatus' = [tstatus EXCEPT ![t] = to]
        BY <2>3 DEF PatchTask
      <3>2. t \in EpicTask /\ Parent[t] \in I => tstatus[t] # "Done"
        BY <2>3 DEF Reopened
      <3> QED BY <1>0, <3>1, <3>2 DEF TasksMove
    <2>4. ASSUME NEW h, NEW e, NEW l, SetLaneRead(h, e, l)
          PROVE  TasksMove(I)
      BY <2>4 DEF SetLaneRead, rows, TasksMove
    <2> QED BY <1>3, <2>1, <2>2, <2>3, <2>4 DEF NewRequest
  <1>4. CASE PollSpawn
    <2>1. PICK t \in ChangeTask : /\ Parent[t] = poll.item /\ tstatus[t] = "Absent"
                                  /\ tstatus' = [tstatus EXCEPT ![t] = "Todo"]
      BY <1>4 DEF PollSpawn
    <2> QED BY <1>0, <1>4, <2>1 DEF PollSpawn, TasksMove
  <1>5. CASE PollApply \/ PollFlip
    <2>1. ASSUME NEW i, NEW l, NEW s, PollMove(i, l, s)
          PROVE  TasksMove(I)
      BY <1>0, <2>1 DEF PollMove, TasksMove
    <2>2. CASE UNCHANGED rows
      BY <2>2 DEF rows, TasksMove
    <2> QED BY <1>5, <2>1, <2>2 DEF PollApply, PollFlip
  <1>6. CASE Reviewer \/ \E i \in Item : Lapse(i) \/ PollFetch(i)
    BY <1>6 DEF Reviewer, HostDecides, Lapse, PollFetch, rows, TasksMove
  <1>7. CASE \E h \in Handler : HandlerStep(h)
    BY <1>7 DEF HandlerStep, SetLaneWrite, SetLaneKill, SetLaneClear,
         RetryUnblock, rows, TasksMove
  <1> QED BY <1>1, <1>2, <1>3, <1>4, <1>5, <1>6, <1>7, NextSplits
       DEF Outside, PollStep

LEMMA BlockersStep ==
  ASSUME IInv, RequestOnEpic, TaskFits, [Next]_vars,
         NEW I \in SUBSET Epic, BlockersDone(I), ApartOn(I),
         \A e \in I : ~Reopened(e)
  PROVE  BlockersDone(I)'
  <1>0. /\ tstatus \in [Task -> TaskStatus]
        /\ EpicTask \subseteq Task /\ EpicTask \cap Solo = {}
        /\ NoTask \notin EpicTask /\ Epic \cap Solo = {}
        /\ Blockers \in [EpicTask -> SUBSET EpicTask]
        /\ \A t \in EpicTask : \A b \in Blockers[t] : Parent[b] = Parent[t]
    BY ExecutorAssumption DEF IInv, TypeOK, Task
  <1>1. ASSUME NEW w \in Worker, Body(w) PROVE BlockersDone(I)'
    <2>1. BodyMove(w) /\ walk[w].item \in Item
      BY <1>1, BodyMoves, BodyBusy, InBody
    <2>2. ASSUME walk'[w].item \in I, walk'[w].pc \in OnTask,
                 walk'[w].task \in EpicTask
          PROVE  /\ walk'[w].task \notin Blockers[walk'[w].task]
                 /\ \A b \in Blockers[walk'[w].task] : tstatus'[b] = "Done"
      <3>0. walk[w].item \in I /\ walk[w].item \notin Solo
        BY <1>0, <2>1, <2>2 DEF BodyMove
      <3>1. CASE GoesOn(w)
        BY <2>2, <3>0, <3>1 DEF GoesOn, BlockersDone, rows
      <3>2. CASE Decides(w)
        <4>1. /\ Ready(walk'[w].task) /\ UNCHANGED tstatus
              /\ walk'[w].task \in EpicTask
          BY <2>2, <3>2 DEF Decides, OnTask, rows, TasksOf
        <4> QED BY <4>1 DEF Ready
      <3>3. CASE \E s \in TaskStatus : WritesTask(w, s)
        <4>1. /\ walk[w].pc = "start"
              /\ walk'[w].task = walk[w].task
              /\ tstatus' = [tstatus EXCEPT ![walk[w].task] = "InProgress"]
          BY <1>0, <2>2, <3>3 DEF WritesTask, OnTask
        <4>2. /\ walk[w].task \notin Blockers[walk[w].task]
              /\ \A b \in Blockers[walk[w].task] : tstatus[b] = "Done"
          BY <2>2, <3>0, <4>1 DEF BlockersDone, OnTask
        <4> QED BY <1>0, <2>2, <4>1, <4>2
      <3>4. CASE WritesItem(w)
        BY <2>2, <3>4 DEF WritesItem, OnTask
      <3> QED BY <2>1, <3>1, <3>2, <3>3, <3>4 DEF BodyMove
    <2>3. ASSUME NEW v \in Worker \ {w}, walk'[v].item \in I,
                 walk'[v].pc \in OnTask, walk'[v].task \in EpicTask
          PROVE  /\ walk'[v].task \notin Blockers[walk'[v].task]
                 /\ \A b \in Blockers[walk'[v].task] : tstatus'[b] = "Done"
      <3>1. SameWalk(v)
        BY <2>1 DEF BodyMove
      <3>2. /\ walk[v].task \in EpicTask
            /\ walk[v].task \notin Blockers[walk[v].task]
            /\ \A b \in Blockers[walk[v].task] : tstatus[b] = "Done"
            /\ Parent[walk[v].task] = walk[v].item
        <4>1. /\ walk[v].item \in I /\ walk[v].pc \in OnTask
              /\ walk[v].task \in EpicTask
          BY <2>3, <3>1 DEF SameWalk
        <4> QED BY <1>0, <4>1 DEF BlockersDone, TaskFits
      <3>3. \/ \A b \in EpicTask : tstatus'[b] = tstatus[b]
            \/ \E s : /\ tstatus' = [tstatus EXCEPT ![walk[w].task] = s]
                     /\ walk[w].pc \notin Over
        <4>1. CASE GoesOn(w) \/ Decides(w)
          BY <4>1 DEF GoesOn, Decides, rows
        <4>2. CASE WritesItem(w)
          BY <1>0, <4>2 DEF WritesItem
        <4>3. CASE \E s \in TaskStatus : WritesTask(w, s)
          BY <4>3 DEF WritesTask
        <4> QED BY <2>1, <4>1, <4>2, <4>3 DEF BodyMove
      <3>4. CASE \A b \in EpicTask : tstatus'[b] = tstatus[b]
        BY <1>0, <3>1, <3>2, <3>4 DEF SameWalk
      <3>5. ASSUME walk[w].pc \notin Over
            PROVE  walk[w].task \notin Blockers[walk[v].task]
        <4>1. walk[w].item # walk[v].item
          BY <2>3, <3>1, <3>5 DEF SameWalk, ApartOn, OnTask, Over
        <4> QED BY <1>0, <2>1, <3>2, <4>1 DEF TaskFits, Item
      <3> QED BY <1>0, <3>1, <3>2, <3>3, <3>4, <3>5 DEF SameWalk
    <2>4. QED BY <2>2, <2>3 DEF BlockersDone
  <1>2. ASSUME ~ \E w \in Worker : Body(w),
               \A v \in Worker : SameWalk(v) \/ walk'[v].pc \notin OnTask
        PROVE  BlockersDone(I)'
    <2>1. \A b \in EpicTask :
            Parent[b] \in I /\ tstatus[b] = "Done" => tstatus'[b] = "Done"
      BY <1>2, OutsideTasks DEF TasksMove
    <2> SUFFICES ASSUME NEW v \in Worker, walk'[v].item \in I,
                        walk'[v].pc \in OnTask, walk'[v].task \in EpicTask
                 PROVE  /\ walk'[v].task \notin Blockers[walk'[v].task]
                        /\ \A b \in Blockers[walk'[v].task] : tstatus'[b] = "Done"
      BY DEF BlockersDone
    <2>2. SameWalk(v) /\ walk[v].item \in I
      BY <1>2 DEF SameWalk
    <2>3. /\ walk[v].task \in EpicTask
          /\ walk[v].task \notin Blockers[walk[v].task]
          /\ \A b \in Blockers[walk[v].task] : tstatus[b] = "Done"
          /\ Parent[walk[v].task] = walk[v].item
      BY <1>0, <2>2 DEF BlockersDone, TaskFits, SameWalk
    <2> QED BY <1>0, <2>1, <2>2, <2>3 DEF SameWalk
  <1>3. ASSUME NEW w \in Worker, WorkerLoop(w) \/ Beat(w) \/ BodyPanics(w)
        PROVE  \A v \in Worker : SameWalk(v) \/ walk'[v].pc \notin OnTask
    BY <1>3, LoopMoves, BeatSame, PanicMoves DEF OnTask
  <1>4. ASSUME CrashAndBoot
        PROVE  \A v \in Worker : walk'[v].pc \notin OnTask
    BY <1>4 DEF CrashAndBoot, Idle, OnTask
  <1>5. ASSUME UNCHANGED vars
        PROVE  \A v \in Worker : SameWalk(v)
    BY <1>5 DEF vars, SameWalk
  <1> QED BY <1>1, <1>2, <1>3, <1>4, <1>5, OutsideSame, NextSplits

\* The epics whose dependencies nothing has disturbed.
Steady == {e \in Epic : past[e] \cap {"shared", "reopened"} = {}}

\* Whatever fails, lapses, is retried, re-enqueued, cancelled or crashes, no
\* agent runs on a task whose blockers are not Done, until two walks have worked
\* on the epic at a time or a human has taken a task of it out of Done.
THEOREM DependenciesHold == CalmSpec => []DepsRespected
  <1> DEFINE Inv == /\ IInv /\ RequestOnEpic /\ PastType /\ TaskFits
                    /\ ApartOn(Unshared) /\ BlockersDone(Steady)
  <1>1. CalmInit => Inv
    <2> SUFFICES ASSUME CalmInit PROVE Inv
      OBVIOUS
    <2>1. RequestOnEpic /\ PastType
      BY DEF CalmInit, Init, RequestOnEpic, NoRequest, PastType
    <2>2. \A w \in Worker : walk[w].pc = "idle" /\ walk[w].item = NoItem
      BY DEF CalmInit, Init, Idle
    <2>3. TaskFits /\ ApartOn(Unshared) /\ BlockersDone(Steady)
      BY <2>2, ExecutorAssumption
      DEF TaskFits, ApartOn, BlockersDone, Unshared, Item, OnTask
    <2> QED BY <2>1, <2>3, InitInv DEF CalmInit
  <1>2. Inv /\ [CalmNext]_<<vars, past>> => Inv'
    <2> SUFFICES ASSUME Inv, [CalmNext]_<<vars, past>> PROVE Inv'
      OBVIOUS
    <2>1. /\ [Next]_vars /\ PastType' /\ ApartOn(Unshared)'
          /\ \A i \in Item : past[i] \subseteq past'[i]
      BY PastStep
    <2>2. PICK I \in SUBSET Epic :
            I = {e \in Epic : past'[e] \cap {"shared", "reopened"} = {}}
      OBVIOUS
    <2>3. ApartOn(I) /\ BlockersDone(I)
      <3>1. ApartOn(I)
        BY <2>1, <2>2, StaysApart DEF Item
      <3>2. I \subseteq Steady
        BY <2>1, <2>2 DEF Steady, Item
      <3> QED BY <3>1, <3>2 DEF BlockersDone
    <2>4. CASE CalmNext
      <3>1. \A e \in I : ~Reopened(e)
        BY <2>2, <2>4 DEF CalmNext, Happens, Item
      <3>2. BlockersDone(I)'
        BY <2>1, <2>3, <3>1, BlockersStep
      <3>3. BlockersDone(Steady)'
        BY <2>2, <3>2 DEF BlockersDone, Steady
      <3> QED BY <2>1, <3>3, Step, TaskFitsStep
    <2>5. CASE UNCHANGED <<vars, past>>
      <3>1. UNCHANGED <<walk, tstatus, past>>
        BY <2>5 DEF vars, rows
      <3>2. BlockersDone(Steady)'
        BY <3>1 DEF BlockersDone, Steady
      <3> QED BY <2>1, <3>2, Step, TaskFitsStep
    <2> QED BY <2>4, <2>5
  <1>3. Inv => DepsRespected
    <2> SUFFICES ASSUME Inv, NEW w \in Worker,
                        walk[w].pc \in {"implement", "vet"},
                        walk[w].task \in EpicTask,
                        past[walk[w].item] \cap {"shared", "reopened"} = {}
                 PROVE  \A b \in Blockers[walk[w].task] : tstatus[b] = "Done"
      BY DEF DepsRespected
    <2>1. walk[w].item \in Epic
      BY InBody, ExecutorAssumption DEF TaskFits, Item
    <2> QED BY <2>1 DEF BlockersDone, OnTask, Steady
  <1> QED BY <1>1, <1>2, <1>3, PTL DEF CalmSpec

-----------------------------------------------------------------------------
(***************************************************************************)
(* Epics under review.                                                     *)
(***************************************************************************)

\* The poller is at the epic: it has fetched its pull request, or inserted a
\* change task and not yet flipped the lane.
Polled(e) == poll.at # "idle" /\ poll.item = e

Reviewed(e) == estatus[e] = "InReview" \/ Polled(e)

\* A walk finalizes an epic none of whose tasks is unfinished.
ClosingIsDone(I) ==
    \A w \in Worker :
        walk[w].item \in I /\ walk[w].pc \in Closing => AllDone(walk[w].item)

\* A walk of an epic under review is on its way out, and none comes in.
ReviewedIsLeft(I) ==
    \A w \in Worker :
        walk[w].item \in I /\ Reviewed(walk[w].item) => walk[w].pc \in Over

\* What the poller has fetched has been under review since.
PolledLane(I) ==
    \A e \in I : Polled(e) => estatus[e] \in {"InReview", "Completed", "Cancelled"}

ReviewedIsWhole(I) ==
    \A e \in I : estatus[e] = "InReview" =>
        /\ e \in prRow
        /\ AllDone(e) \/ (poll.at = "flip" /\ poll.item = e)

ReviewInv(I) ==
    ClosingIsDone(I) /\ ReviewedIsLeft(I) /\ PolledLane(I) /\ ReviewedIsWhole(I)

\* A lane request that has been accepted asks for a lane its own read permits.
WritesArePermitted ==
    \A h \in Handler :
        req[h].at = "write" => transition_permitted(req[h].from, req[h].to)

LEMMA PermittedStep ==
  ASSUME IInv, WritesArePermitted, [Next]_vars
  PROVE  WritesArePermitted'
  <1>0. req \in [Handler -> [at : {"idle", "write", "kill", "clear", "unblock"},
                             epic : Epic \cup {NoItem}, from : Lane, to : Lane]]
    BY DEF IInv, TypeOK
  <1>1. ASSUME UNCHANGED req PROVE WritesArePermitted'
    BY <1>1 DEF WritesArePermitted
  <1>2. ASSUME NEW h \in Handler, req'[h].at # "write",
               \A g \in Handler \ {h} : req'[g] = req[g]
        PROVE  WritesArePermitted'
    BY <1>2 DEF WritesArePermitted
  <1>3. ASSUME NEW w \in Worker, WorkerLoop(w) \/ Body(w) \/ Beat(w) \/ BodyPanics(w)
        PROVE  WritesArePermitted'
    <2>1. CASE Body(w)
      BY <1>1, <2>1, BodyMoves DEF BodyMove
    <2> QED BY <1>1, <1>3, <2>1, LoopMoves, BeatSame, PanicMoves DEF env
  <1>4. CASE CrashAndBoot
    BY <1>4 DEF CrashAndBoot, NoRequest, WritesArePermitted
  <1>5. ASSUME NEW h \in Handler, HandlerStep(h)
        PROVE  WritesArePermitted'
    <2>1. CASE SetLaneWrite(h)
      BY <1>0, <1>2, <2>1 DEF SetLaneWrite, NoRequest
    <2>2. CASE SetLaneKill(h) \/ SetLaneClear(h) \/ RetryUnblock(h)
      BY <1>0, <1>2, <2>2 DEF SetLaneKill, SetLaneClear, RetryUnblock, NoRequest
    <2> QED BY <1>5, <2>1, <2>2 DEF HandlerStep
  <1>6. CASE NewRequest
    <2>1. ASSUME NEW h \in Handler, NEW e \in Epic, NEW l \in Request \cap Lane,
                 SetLaneRead(h, e, l)
          PROVE  WritesArePermitted'
      <3>1. /\ transition_permitted(req'[h].from, req'[h].to)
            /\ \A g \in Handler \ {h} : req'[g] = req[g]
        BY <1>0, <2>1 DEF SetLaneRead
      <3> QED BY <3>1 DEF WritesArePermitted
    <2>2. ASSUME NEW h \in Handler, NEW t \in Task, RetryTask(h, t)
          PROVE  WritesArePermitted'
      BY <1>0, <1>1, <1>2, <2>2 DEF RetryTask, NoRequest
    <2>3. CASE (\E s \in Solo : RunTask(s))
               \/ \E t \in Task, to \in PatchTo : PatchTask(t, to)
      BY <1>1, <2>3 DEF RunTask, PatchTask, env
    <2> QED BY <1>6, <2>1, <2>2, <2>3 DEF NewRequest
  <1>7. CASE Reviewer \/ PollStep \/ \E i \in Item : Lapse(i) \/ PollFetch(i)
    BY <1>1, <1>7 DEF Reviewer, HostDecides, PollStep, PollApply, PollMove,
         PollSpawn, PollFlip, Lapse, PollFetch, env
  <1>8. CASE UNCHANGED vars
    BY <1>1, <1>8 DEF vars, env
  <1> QED BY <1>3, <1>4, <1>5, <1>6, <1>7, <1>8, NextSplits DEF Outside

LEMMA ReviewBody ==
  ASSUME IInv, PrInMemory, TaskFits, NEW I \in SUBSET Epic, ReviewInv(I),
         ApartOn(I), NEW w \in Worker, Body(w)
  PROVE  ReviewInv(I)'
  <1> DEFINE i == walk[w].item
  <1>0. /\ tstatus \in [Task -> TaskStatus] /\ estatus \in [Epic -> Lane]
        /\ EpicTask \subseteq Task /\ EpicTask \cap Solo = {}
        /\ NoTask \notin EpicTask /\ Solo \cap Epic = {}
    BY ExecutorAssumption DEF IInv, TypeOK, Task
  <1>1. BodyMove(w) /\ i \in Item
    BY BodyMoves, BodyBusy, InBody
  <1>2. /\ UNCHANGED poll /\ walk'[w].item = i
        /\ \A v \in Worker \ {w} : SameWalk(v)
    BY <1>1 DEF BodyMove
  <1>3. CASE walk[w].pc \in Over
    <2>1. UNCHANGED rows /\ walk'[w].pc \in Over
      BY <1>1, <1>3
      DEF BodyMove, GoesOn, Decides, WritesTask, WritesItem, Over
    <2>2. ClosingIsDone(I)'
      BY <1>2, <2>1
      DEF ReviewInv, ClosingIsDone, SameWalk, rows, AllDone, TasksOf, Over, Closing
    <2>3. ReviewedIsLeft(I)'
      BY <1>2, <2>1 DEF ReviewInv, ReviewedIsLeft, Reviewed, Polled, SameWalk, rows
    <2>4. PolledLane(I)' /\ ReviewedIsWhole(I)'
      BY <1>2, <2>1
      DEF ReviewInv, PolledLane, ReviewedIsWhole, Polled, rows, AllDone, TasksOf
    <2> QED BY <2>2, <2>3, <2>4 DEF ReviewInv
  <1>4. CASE walk[w].pc \notin Over
    <2>1. i \in I => ~Reviewed(i)
      BY <1>4 DEF ReviewInv, ReviewedIsLeft
    <2>2. \A v \in Worker \ {w} : walk[v].item = i /\ i \in I => walk[v].pc \in Over
      BY <1>4 DEF ApartOn
    <2>3. /\ \A t \in EpicTask : Parent[t] # i => tstatus'[t] = tstatus[t]
          /\ \A e \in Epic : e # i => estatus'[e] = estatus[e]
      <3>1. CASE GoesOn(w) \/ Decides(w)
        BY <3>1 DEF GoesOn, Decides, rows
      <3>2. CASE WritesItem(w)
        BY <1>0, <3>2 DEF WritesItem
      <3>3. ASSUME NEW s \in TaskStatus, WritesTask(w, s)
            PROVE  /\ \A t \in EpicTask : Parent[t] # i => tstatus'[t] = tstatus[t]
                   /\ \A e \in Epic : e # i => estatus'[e] = estatus[e]
        <4>1. \A t \in EpicTask : Parent[t] # i => t # walk[w].task
          BY <1>0, <1>1 DEF TaskFits, Item
        <4> QED BY <1>0, <3>3, <4>1 DEF WritesTask
      <3> QED BY <1>1, <3>1, <3>2, <3>3 DEF BodyMove
    <2>4. /\ i \in I /\ estatus'[i] = "InReview" =>
               /\ walk'[w].pc = "leave" /\ i \in prRow' /\ AllDone(i)
               /\ UNCHANGED tstatus
          /\ prRow \subseteq prRow'
      <3>1. CASE GoesOn(w) \/ Decides(w) \/ \E s \in TaskStatus : WritesTask(w, s)
        BY <2>1, <3>1 DEF GoesOn, Decides, WritesTask, rows, Reviewed
      <3>2. CASE WritesItem(w)
        <4>1. walk[w].pc = "persist" /\ i \in I => AllDone(i)
          BY DEF ReviewInv, ClosingIsDone, Closing
        <4>2. walk[w].prSeen => i \in prRow
          BY DEF PrInMemory
        <4> QED BY <1>0, <2>1, <3>2, <4>1, <4>2 DEF WritesItem, Reviewed
      <3> QED BY <1>1, <3>1, <3>2 DEF BodyMove
    <2>5. \A e \in I : e # i => AllDone(e)' = AllDone(e)
      BY <2>3 DEF AllDone, TasksOf
    <2>6. ClosingIsDone(I)'
      <3>1. ASSUME i \in I, walk'[w].pc \in Closing
            PROVE  AllDone(i) /\ UNCHANGED tstatus
        <4>1. CASE GoesOn(w)
          BY <3>1, <4>1 DEF GoesOn, ReviewInv, ClosingIsDone, rows
        <4>2. CASE Decides(w)
          BY <3>1, <4>2 DEF Decides, Closing, rows
        <4>3. CASE WritesItem(w) \/ \E s \in TaskStatus : WritesTask(w, s)
          BY <1>0, <3>1, <4>3 DEF WritesItem, WritesTask, Closing
        <4> QED BY <1>1, <4>1, <4>2, <4>3 DEF BodyMove
      <3>2. ASSUME NEW v \in Worker \ {w}, walk'[v].item \in I, walk'[v].pc \in Closing
            PROVE  walk[v].item # i /\ AllDone(walk[v].item)
        BY <1>2, <2>2, <3>2
        DEF SameWalk, ReviewInv, ClosingIsDone, Closing, Over
      <3>3. ASSUME NEW v \in Worker, walk'[v].item \in I, walk'[v].pc \in Closing,
                   NEW e \in I, e = walk[v].item
            PROVE  AllDone(e)'
        <4>1. CASE v = w
          BY <1>2, <3>1, <3>3, <4>1 DEF AllDone, TasksOf
        <4>2. CASE v # w
          BY <2>5, <3>2, <3>3, <4>2
        <4> QED BY <4>1, <4>2
      <3>4. \A v \in Worker : walk'[v].item = walk[v].item
        BY <1>2 DEF SameWalk
      <3> QED BY <3>3, <3>4 DEF ClosingIsDone, AllDone, TasksOf
    <2>7. ReviewedIsLeft(I)'
      <3>1. ASSUME i \in I, Reviewed(i)' PROVE walk'[w].pc \in Over
        BY <1>2, <2>1, <2>4, <3>1 DEF Reviewed, Polled, Over
      <3>2. ASSUME NEW v \in Worker \ {w}, NEW e \in I, walk[v].item = e, Reviewed(e)'
            PROVE  walk[v].pc \in Over
        <4>1. CASE e = i
          BY <2>2, <3>2, <4>1
        <4>2. CASE e # i
          <5>1. Reviewed(e)
            BY <1>2, <2>3, <3>2, <4>2 DEF Reviewed, Polled
          <5> QED BY <3>2, <5>1 DEF ReviewInv, ReviewedIsLeft
        <4> QED BY <4>1, <4>2
      <3> QED BY <1>2, <3>1, <3>2 DEF ReviewedIsLeft, SameWalk, Reviewed, Polled
    <2>8. PolledLane(I)'
      BY <1>2, <2>1, <2>3 DEF PolledLane, Polled, Reviewed, ReviewInv
    <2>9. ReviewedIsWhole(I)'
      <3> SUFFICES ASSUME NEW e \in I, estatus'[e] = "InReview"
                   PROVE  /\ e \in prRow'
                          /\ AllDone(e)' \/ (poll.at = "flip" /\ poll.item = e)
        BY <1>2 DEF ReviewedIsWhole
      <3>1. CASE e = i
        BY <2>4, <3>1 DEF AllDone, TasksOf
      <3>2. CASE e # i
        BY <2>3, <2>4, <2>5, <3>2 DEF ReviewInv, ReviewedIsWhole
      <3> QED BY <3>1, <3>2
    <2> QED BY <2>6, <2>7, <2>8, <2>9 DEF ReviewInv
  <1> QED BY <1>3, <1>4

\* Outside the bodies: the obligations of a step that moves neither a closing
\* walk nor an epic into review, in the terms of the rows alone.
LEMMA ReviewKeeps ==
  ASSUME IInv, NEW I \in SUBSET Epic, ReviewInv(I), TasksMove(I),
         \A v \in Worker : walk'[v].item \in I =>
             \/ SameWalk(v)
             \/ walk'[v].pc \in Over
             \/ walk'[v].pc \notin Closing /\ ~Reviewed(walk'[v].item),
         \A e \in I : Reviewed(e)' => Reviewed(e),
         \A e \in I : estatus'[e] = "InReview" => estatus[e] = "InReview",
         prRow' = prRow,
         \A e \in I : poll.at = "flip" /\ poll.item = e
                      /\ estatus'[e] = "InReview" => UNCHANGED poll
  PROVE  ClosingIsDone(I)' /\ ReviewedIsLeft(I)' /\ ReviewedIsWhole(I)'
  <1>1. ASSUME NEW e \in I, AllDone(e), ~Reviewed(e) \/ poll.at # "fetched"
        PROVE  AllDone(e)'
    BY <1>1 DEF TasksMove, AllDone, TasksOf, Reviewed, Polled
  <1>2. ClosingIsDone(I)'
    <2> SUFFICES ASSUME NEW v \in Worker, walk'[v].item \in I,
                        walk'[v].pc \in Closing
                 PROVE  AllDone(walk[v].item)' /\ walk'[v].item = walk[v].item
      BY DEF ClosingIsDone, AllDone, TasksOf
    <2>1. SameWalk(v)
      BY DEF Closing, Over
    <2>2. AllDone(walk[v].item) /\ ~Reviewed(walk[v].item)
      BY <2>1 DEF SameWalk, ReviewInv, ClosingIsDone, ReviewedIsLeft, Closing, Over
    <2>3. PICK e \in I : e = walk[v].item
      BY <2>1 DEF SameWalk
    <2>4. AllDone(e)'
      BY <1>1, <2>2, <2>3
    <2>5. walk'[v].item = e
      BY <2>1, <2>3 DEF SameWalk
    <2> QED BY <2>3, <2>4, <2>5 DEF AllDone, TasksOf
  <1>3. ReviewedIsLeft(I)'
    <2> SUFFICES ASSUME NEW v \in Worker, NEW e \in I, walk'[v].item = e, Reviewed(e)'
                 PROVE  walk'[v].pc \in Over
      BY DEF ReviewedIsLeft, Reviewed, Polled
    <2>1. Reviewed(e)
      OBVIOUS
    <2> QED BY <2>1 DEF SameWalk, ReviewInv, ReviewedIsLeft
  <1>4. ReviewedIsWhole(I)'
    <2> SUFFICES ASSUME NEW e \in I, estatus'[e] = "InReview"
                 PROVE  /\ e \in prRow
                        /\ AllDone(e)' \/ (poll'.at = "flip" /\ poll'.item = e)
      BY DEF ReviewedIsWhole
    <2>1. /\ e \in prRow
          /\ AllDone(e) \/ (poll.at = "flip" /\ poll.item = e)
      BY DEF ReviewInv, ReviewedIsWhole
    <2>2. CASE AllDone(e)
      <3>1. CASE \A t \in EpicTask : Parent[t] = e => tstatus'[t] \in {"Absent", "Done"}
        BY <2>1, <3>1 DEF AllDone, TasksOf
      <3>2. ASSUME NEW t \in EpicTask, Parent[t] = e,
                   tstatus'[t] \notin {"Absent", "Done"}
            PROVE  poll'.at = "flip" /\ poll'.item = e
        <4>1. poll.item = e /\ poll' = [poll EXCEPT !.at = "flip"]
          BY <2>2, <3>2 DEF TasksMove, AllDone, TasksOf
        <4> QED BY <4>1 DEF IInv, TypeOK
      <3> QED BY <2>1, <3>1, <3>2
    <2>3. CASE poll.at = "flip" /\ poll.item = e
      BY <2>1, <2>3
    <2> QED BY <2>1, <2>2, <2>3
  <1> QED BY <1>2, <1>3, <1>4

LEMMA ReviewWorker ==
  ASSUME IInv, NEW I \in SUBSET Epic, ReviewInv(I), TasksMove(I),
         NEW w \in Worker, WorkerLoop(w) \/ Beat(w) \/ BodyPanics(w)
  PROVE  ReviewInv(I)'
  <1>1. UNCHANGED <<estatus, prRow, poll>>
    BY LoopMoves, BeatSame, PanicMoves DEF rows, env
  <1>2. \A v \in Worker : walk'[v].item \in I =>
             \/ SameWalk(v)
             \/ walk'[v].pc \in Over
             \/ walk'[v].pc \notin Closing /\ ~Reviewed(walk'[v].item)
    <2>1. CASE Beat(w) \/ BodyPanics(w)
      BY <2>1, BeatSame, PanicMoves DEF SameWalk, Over
    <2>2. CASE WorkerLoop(w)
      <3> SUFFICES ASSUME walk'[w].item \in I
                   PROVE  walk'[w].pc \notin Closing /\ ~Reviewed(walk'[w].item)
        BY <2>2, LoopMoves
      <3>1. walk'[w].pc \notin Closing
        BY <2>2, LoopMoves DEF Closing
      <3>2. CASE walk'[w].item = walk[w].item
        <4>1. walk[w].pc \notin Over
          BY <2>2, <3>2, LoopMoves, ExecutorAssumption DEF Item, Over
        <4> QED BY <3>1, <3>2, <4>1 DEF ReviewInv, ReviewedIsLeft
      <3>3. CASE Claimable(walk'[w].item)
        BY <3>1, <3>3
        DEF Claimable, Running, Reviewed, ReviewInv, PolledLane
      <3>4. walk'[w].item # NoItem
        BY ExecutorAssumption DEF Item
      <3> QED BY <2>2, <3>2, <3>3, <3>4, LoopMoves
    <2> QED BY <2>1, <2>2
  <1>3. \A e \in I : Reviewed(e)' => Reviewed(e)
    BY <1>1 DEF Reviewed, Polled
  <1>4. PolledLane(I)'
    BY <1>1 DEF ReviewInv, PolledLane, Polled
  <1>5. ClosingIsDone(I)' /\ ReviewedIsLeft(I)' /\ ReviewedIsWhole(I)'
    BY <1>1, <1>2, <1>3, ReviewKeeps
  <1> QED BY <1>4, <1>5 DEF ReviewInv

LEMMA ReviewCrash ==
  ASSUME IInv, NEW I \in SUBSET Epic, ReviewInv(I), CrashAndBoot,
         \A e \in I : ~Torn(e)
  PROVE  ReviewInv(I)'
  <1>1. /\ \A v \in Worker : walk'[v].item = NoItem
        /\ poll'.at = "idle" /\ UNCHANGED rows
    BY DEF CrashAndBoot, Idle, NoCandidate
  <1>2. ClosingIsDone(I)' /\ ReviewedIsLeft(I)'
    BY <1>1, ExecutorAssumption DEF ClosingIsDone, ReviewedIsLeft, Item
  <1>3. PolledLane(I)'
    BY <1>1 DEF PolledLane, Polled
  <1>4. ReviewedIsWhole(I)'
    BY <1>1 DEF ReviewInv, ReviewedIsWhole, AllDone, TasksOf, rows, Torn
  <1> QED BY <1>2, <1>3, <1>4 DEF ReviewInv

LEMMA ReviewHandler ==
  ASSUME IInv, RequestOnEpic, WritesArePermitted,
         NEW I \in SUBSET Epic, ReviewInv(I), TasksMove(I),
         \A e \in I : ~Stale(e), NEW h \in Handler, HandlerStep(h)
  PROVE  ReviewInv(I)'
  <1>0. /\ estatus \in [Epic -> Lane]
        /\ UNCHANGED <<tstatus, prRow, poll>>
        /\ \A v \in Worker : SameWalk(v)
    BY OutsideSame DEF IInv, TypeOK, HandlerStep, SetLaneWrite, SetLaneKill,
       SetLaneClear, RetryUnblock, Outside, rows
  <1>1. \A e \in I : \/ estatus'[e] = estatus[e]
                     \/ transition_permitted(estatus[e], estatus'[e])
                     \/ estatus[e] = "Blocked" /\ estatus'[e] = "InProgress"
    <2>1. CASE SetLaneWrite(h)
      <3>1. /\ req[h].at = "write" /\ req[h].epic \in Epic
            /\ estatus' = [estatus EXCEPT ![req[h].epic] = req[h].to]
            /\ transition_permitted(req[h].from, req[h].to)
        BY <2>1 DEF SetLaneWrite, WritesArePermitted, RequestOnEpic
      <3>2. req[h].epic \in I => estatus[req[h].epic] = req[h].from
        BY <2>1 DEF Stale
      <3> QED BY <1>0, <3>1, <3>2
    <2>2. CASE SetLaneKill(h) \/ SetLaneClear(h)
      BY <2>2 DEF SetLaneKill, SetLaneClear, rows
    <2>3. CASE RetryUnblock(h)
      BY <1>0, <2>3 DEF RetryUnblock
    <2> QED BY <2>1, <2>2, <2>3 DEF HandlerStep
  <1>2. \A e \in I :
          /\ estatus'[e] = "InReview" => estatus[e] = "InReview"
          /\ Polled(e) => estatus'[e] \in {"InReview", "Completed", "Cancelled"}
    BY <1>1 DEF ReviewInv, PolledLane, transition_permitted
  <1>3. \A e \in I : Reviewed(e)' => Reviewed(e)
    BY <1>0, <1>2 DEF Reviewed, Polled
  <1>4. PolledLane(I)'
    BY <1>0, <1>2 DEF PolledLane, Polled
  <1>5. ClosingIsDone(I)' /\ ReviewedIsLeft(I)' /\ ReviewedIsWhole(I)'
    BY <1>0, <1>2, <1>3, ReviewKeeps
  <1> QED BY <1>4, <1>5 DEF ReviewInv

LEMMA ReviewQuiet ==
  ASSUME IInv, NEW I \in SUBSET Epic, ReviewInv(I), TasksMove(I),
         UNCHANGED <<estatus, prRow, poll>>, \A v \in Worker : SameWalk(v)
  PROVE  ReviewInv(I)'
  <1>1. \A e \in I : Reviewed(e)' => Reviewed(e)
    BY DEF Reviewed, Polled
  <1>2. PolledLane(I)'
    BY DEF ReviewInv, PolledLane, Polled
  <1>3. ClosingIsDone(I)' /\ ReviewedIsLeft(I)' /\ ReviewedIsWhole(I)'
    BY <1>1, ReviewKeeps
  <1> QED BY <1>2, <1>3 DEF ReviewInv

LEMMA ReviewPoll ==
  ASSUME IInv, RequestOnEpic, NEW I \in SUBSET Epic, ReviewInv(I), TasksMove(I),
         PollStep
  PROVE  ReviewInv(I)'
  <1>0. /\ estatus \in [Epic -> Lane] /\ Solo \cap Epic = {}
        /\ UNCHANGED prRow /\ \A v \in Worker : SameWalk(v)
    <2>1. estatus \in [Epic -> Lane] /\ Solo \cap Epic = {}
      BY ExecutorAssumption DEF IInv, TypeOK, Task
    <2>2. UNCHANGED prRow
      BY DEF PollStep, PollApply, PollMove, PollSpawn, PollFlip, rows
    <2>3. \A v \in Worker : SameWalk(v)
      BY OutsideSame DEF Outside
    <2> QED BY <2>1, <2>2, <2>3
  <1>1. CASE PollSpawn
    <2>1. UNCHANGED estatus /\ poll'.at = "flip" /\ poll'.item = poll.item
          /\ poll.at = "fetched"
      BY <1>1 DEF PollSpawn, IInv, TypeOK
    <2>2. \A e \in I : Reviewed(e)' => Reviewed(e)
      BY <2>1 DEF Reviewed, Polled
    <2>3. PolledLane(I)'
      BY <1>0, <2>1 DEF ReviewInv, PolledLane, Polled
    <2>4. ClosingIsDone(I)' /\ ReviewedIsLeft(I)' /\ ReviewedIsWhole(I)'
      BY <1>0, <2>1, <2>2, ReviewKeeps
    <2> QED BY <2>3, <2>4 DEF ReviewInv
  <1>2. CASE PollApply \/ PollFlip
    <2>1. /\ poll'.at = "idle"
          /\ \/ UNCHANGED estatus
             \/ \E l \in {"Completed", "Cancelled", "InProgress"} :
                  /\ poll.item \in Epic /\ estatus[poll.item] = "InReview"
                  /\ estatus' = [estatus EXCEPT ![poll.item] = l]
          /\ poll.at = "flip" => estatus'[poll.item] # "InReview" \/ poll.item \notin Epic
      <3>1. ASSUME NEW l \in {"Completed", "Cancelled", "InProgress"}, NEW s,
                   PollMove(poll.item, l, s)
            PROVE  /\ poll'.at = "idle"
                   /\ \/ UNCHANGED estatus
                      \/ /\ poll.item \in Epic /\ estatus[poll.item] = "InReview"
                         /\ estatus' = [estatus EXCEPT ![poll.item] = l]
                   /\ poll.item \in Epic => estatus'[poll.item] # "InReview"
        BY <1>0, <3>1 DEF PollMove, InReview, NoCandidate
      <3>2. CASE PollFlip
        BY <3>1, <3>2 DEF PollFlip
      <3>3. CASE PollApply
        BY <3>1, <3>3 DEF PollApply, NoCandidate, rows
      <3> QED BY <1>2, <3>2, <3>3
    <2>2. \A e \in I : estatus'[e] = "InReview" => estatus[e] = "InReview"
      BY <1>0, <2>1
    <2>3. \A e \in I : Reviewed(e)' => Reviewed(e)
      BY <2>1, <2>2 DEF Reviewed, Polled
    <2>4. PolledLane(I)'
      BY <2>1 DEF PolledLane, Polled
    <2>5. ClosingIsDone(I)' /\ ReviewedIsLeft(I)' /\ ReviewedIsWhole(I)'
      BY <1>0, <2>1, <2>2, <2>3, ReviewKeeps
    <2> QED BY <2>4, <2>5 DEF ReviewInv
  <1> QED BY <1>1, <1>2 DEF PollStep

LEMMA ReviewFetch ==
  ASSUME IInv, NEW I \in SUBSET Epic, ReviewInv(I), TasksMove(I),
         NEW i \in Item, PollFetch(i)
  PROVE  ReviewInv(I)'
  <1>1. /\ UNCHANGED <<rows, walk>>
        /\ poll.at = "idle" /\ poll'.at = "fetched" /\ poll'.item = i
        /\ i \in Epic => estatus[i] = "InReview"
    BY DEF PollFetch, InReview, NoCandidate
  <1>2. \A e \in I : Reviewed(e)' => Reviewed(e)
    BY <1>1 DEF Reviewed, Polled, rows
  <1>3. PolledLane(I)'
    BY <1>1 DEF PolledLane, Polled, rows
  <1>4. ClosingIsDone(I)' /\ ReviewedIsLeft(I)' /\ ReviewedIsWhole(I)'
    BY <1>1, <1>2, ReviewKeeps DEF SameWalk, rows
  <1> QED BY <1>3, <1>4 DEF ReviewInv

LEMMA ReviewStep ==
  ASSUME IInv, RequestOnEpic, PrInMemory, TaskFits, WritesArePermitted,
         [Next]_vars, NEW I \in SUBSET Epic, ReviewInv(I), ApartOn(I),
         \A e \in I : ~Stale(e) /\ ~Reopened(e) /\ ~Torn(e)
  PROVE  ReviewInv(I)'
  <1>1. CASE \E w \in Worker : Body(w)
    BY <1>1, ReviewBody
  <1>2. CASE ~ \E w \in Worker : Body(w)
    <2>1. TasksMove(I)
      BY <1>2, OutsideTasks
    <2>2. CASE UNCHANGED vars \/ Reviewer \/ \E i \in Item : Lapse(i)
      <3>1. UNCHANGED <<estatus, prRow, walk, poll>>
        BY <2>2 DEF vars, rows, env, Reviewer, HostDecides, Lapse
      <3> QED BY <2>1, <3>1, ReviewQuiet DEF SameWalk
    <2>3. CASE CrashAndBoot
      BY <2>3, ReviewCrash
    <2>4. CASE \E w \in Worker : WorkerLoop(w) \/ Beat(w) \/ BodyPanics(w)
      BY <2>1, <2>4, ReviewWorker
    <2>5. CASE \E h \in Handler : HandlerStep(h)
      BY <2>1, <2>5, ReviewHandler
    <2>6. CASE NewRequest
      <3>1. UNCHANGED <<estatus, prRow, poll>> /\ \A v \in Worker : SameWalk(v)
        BY <2>6, OutsideSame
        DEF NewRequest, SetLaneRead, RetryTask, RunTask, PatchTask, Outside, rows, env
      <3> QED BY <2>1, <3>1, ReviewQuiet
    <2>7. CASE PollStep \/ \E i \in Item : PollFetch(i)
      BY <2>1, <2>7, ReviewPoll, ReviewFetch
    <2> QED BY <1>2, <2>2, <2>3, <2>4, <2>5, <2>6, <2>7, NextSplits DEF Outside
  <1> QED BY <1>1, <1>2

\* The epics nothing has disturbed.
Calm == {e \in Epic : past[e] = {}}

\* An epic under review has a recorded pull request and only tasks that are
\* Done, but for the change task of a poll that is half way: whatever fails,
\* lapses, crashes or is requested, until two walks have worked on the epic at
\* a time, a lane write has landed on a lane it had not read, a human has taken
\* a task out of Done, or a crash has cut an insertion short.
THEOREM ReviewsAreDone == CalmSpec => []ReviewedIsDone
  <1> DEFINE Inv == /\ IInv /\ RequestOnEpic /\ PastType /\ TaskFits
                    /\ PrInMemory /\ PrSound({}) /\ WritesArePermitted
                    /\ ApartOn(Unshared) /\ ReviewInv(Calm)
  <1>1. CalmInit => Inv
    <2> SUFFICES ASSUME CalmInit PROVE Inv
      OBVIOUS
    <2>1. /\ RequestOnEpic /\ PastType /\ WritesArePermitted
          /\ PrInMemory /\ PrSound({})
      BY DEF CalmInit, Init, RequestOnEpic, NoRequest, PastType,
         WritesArePermitted, PrInMemory, PrSound, Idle
    <2>2. /\ \A w \in Worker : walk[w].pc = "idle" /\ walk[w].item = NoItem
          /\ poll.at = "idle" /\ \A e \in Epic : estatus[e] = "Ready"
      BY DEF CalmInit, Init, Idle, NoCandidate
    <2>3. TaskFits /\ ApartOn(Unshared)
      BY <2>2, ExecutorAssumption DEF TaskFits, ApartOn, Unshared, Item
    <2>4. ReviewInv(Calm)
      BY <2>2 DEF ReviewInv, ClosingIsDone, ReviewedIsLeft, PolledLane,
         ReviewedIsWhole, Reviewed, Polled, Closing, Calm
    <2> QED BY <2>1, <2>3, <2>4, InitInv DEF CalmInit
  <1>2. Inv /\ [CalmNext]_<<vars, past>> => Inv'
    <2> SUFFICES ASSUME Inv, [CalmNext]_<<vars, past>> PROVE Inv'
      OBVIOUS
    <2>1. /\ [Next]_vars /\ PastType' /\ ApartOn(Unshared)'
          /\ \A i \in Item : past[i] \subseteq past'[i]
      BY PastStep
    <2>2. PrInMemory' /\ PrSound({})'
      BY <2>1, PrBody, PrOthers
    <2>3. PICK I \in SUBSET Epic : I = {e \in Epic : past'[e] = {}}
      OBVIOUS
    <2>4. ApartOn(I) /\ ReviewInv(I)
      <3>1. ApartOn(I)
        BY <2>1, <2>3, StaysApart DEF Item
      <3>2. I \subseteq Calm
        BY <2>1, <2>3 DEF Calm, Item
      <3> QED BY <3>1, <3>2
           DEF ReviewInv, ClosingIsDone, ReviewedIsLeft, PolledLane, ReviewedIsWhole
    <2>5. ReviewInv(I)'
      <3>1. CASE CalmNext
        <4>1. \A e \in I : ~Stale(e) /\ ~Reopened(e) /\ ~Torn(e)
          BY <2>3, <3>1 DEF CalmNext, Happens, Item
        <4> QED BY <2>1, <2>4, <4>1, ReviewStep
      <3>2. CASE UNCHANGED <<vars, past>>
        <4>1. UNCHANGED <<estatus, prRow, poll, walk, tstatus>>
          BY <3>2 DEF vars, rows, env
        <4> QED BY <2>4, <4>1, ReviewQuiet DEF SameWalk, TasksMove
      <3> QED BY <3>1, <3>2
    <2>6. ReviewInv(Calm)'
      BY <2>3, <2>5 DEF ReviewInv, ClosingIsDone, ReviewedIsLeft, PolledLane,
         ReviewedIsWhole, Calm
    <2> QED BY <2>1, <2>2, <2>6, Step, TaskFitsStep, PermittedStep
  <1>3. Inv => ReviewedIsDone
    BY DEF ReviewInv, ReviewedIsWhole, AllDone, Calm, ReviewedIsDone
  <1> QED BY <1>1, <1>2, <1>3, PTL DEF CalmSpec

=============================================================================
