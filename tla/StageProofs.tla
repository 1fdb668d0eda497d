---------------------------- MODULE StageProofs ----------------------------
(***************************************************************************)
(* Proofs about Stage, for any number of stages, events, buffers, viewers  *)
(* and faults: a closed row keeps its status, and a stage that is recorded *)
(* as ok has finished.                                                     *)
(***************************************************************************)
EXTENDS Stage, TLAPS

PCs == {"idle", "launch", "drain", "grace", "close", "unregister", "shell",
        "wait", "closeShell", "down"}
RowStatus == {"none", "running", "ok", "error", "timeout", "cancelled"}
Proc == {"none", "running", "ok", "bad", "killed"}
Event == {"text", "error", "ok", "bad", "killed"}
Outcome == [text : Nat, errored : BOOLEAN, code : Proc, cancelled : BOOLEAN,
            timed_out : BOOLEAN]

RowTypes ==
    /\ rows \in [Run -> [status : RowStatus, log : Nat]]
    /\ pc \in PCs /\ run \in Nat
    /\ final \in Outcome
    /\ flusher \in [pc : {"off", "on", "read", "late"}, run : Nat, log : Nat]
    /\ flusher.pc # "off" => flusher.run \in Run

ProcessTypes ==
    /\ proc \in [Run -> Proc]
    /\ pipe \in [Run -> Seq(Event)]
    /\ drain \in [Run -> {"none", "on", "done", "panicked"}]
    /\ out \in [Run -> Outcome]

Types == RowTypes /\ ProcessTypes

\* While the walk is in a stage, that stage's row is open.
RowIsOpen ==
    pc \in {"launch", "drain", "grace", "close", "shell", "wait", "closeShell"} =>
        run \in Run /\ rows[run].status = "running"

\* Nothing of a stage exists before it, and a command has no events.
Untouched(r) == drain[r] = "none" /\ pipe[r] = <<>> /\ out[r] = NoOutcome
Ahead ==
    /\ \A r \in Run : r > run => rows[r].status = "none" /\ proc[r] = "none" /\ Untouched(r)
    /\ pc = "launch" => proc[run] = "none"
    /\ pc \in {"launch", "shell", "wait", "closeShell"} => Untouched(run)

\* An exit that was reported or absorbed is that of the process.
ExitIsTrue ==
    \A r \in Run :
        /\ out[r].code = "ok" => proc[r] = "ok"
        /\ \A i \in 1..Len(pipe[r]) : pipe[r][i] = "ok" => proc[r] = "ok"

\* What a stage is closed with is what became of it, unless it was cut off.
FinalIsTrue ==
    /\ pc = "close" => \/ final.timed_out \/ final.code # "ok"
                       \/ final = out[run] /\ drain[run] = "done"
    /\ pc = "closeShell" => final.timed_out \/ final.code # "ok" \/ final.code = proc[run]

StageInv == Types /\ RowIsOpen /\ Ahead /\ ExitIsTrue /\ FinalIsTrue /\ OkIsFinished

-----------------------------------------------------------------------------
\* Stages are numbered.
LEMMA RunIsNat == \A r \in Run : r \in Nat
  BY StageAssumption DEF Run

\* A stage begins without an exit.
LEMMA NoOutcomeType == NoOutcome \in Outcome /\ NoOutcome.code = "none"
  BY DEF NoOutcome, Outcome, Proc

\* A stage that failed without an exit has none that is good.
LEMMA FailedType == Failed \in Outcome /\ ~Failed.timed_out /\ Failed.code = "none"
  <1>1. NoOutcome \in Outcome /\ ~NoOutcome.timed_out /\ NoOutcome.code = "none"
    BY DEF NoOutcome, Outcome, Proc
  <1>2. \A o \in Outcome : LET f == [[o EXCEPT !.text = 1] EXCEPT !.errored = TRUE] IN
          f \in Outcome /\ f.timed_out = o.timed_out /\ f.code = o.code
    BY DEF Outcome
  <1>3. Failed = [[NoOutcome EXCEPT !.text = 1] EXCEPT !.errored = TRUE]
    BY DEF Failed, NoOutcome
  <1> QED BY <1>1, <1>2, <1>3

\* AgentStageOutcome::status says ok only for an exit that was good and in time.
LEMMA StatusOk ==
  ASSUME NEW o \in Outcome
  PROVE  /\ Status(o) \in {"ok", "error", "timeout", "cancelled"}
         /\ Status(o) = "ok" => ~o.timed_out /\ o.code = "ok"
  BY DEF Status, Outcome

\* AgentStageOutcome::absorb takes its code from the event or keeps the one it has.
LEMMA AbsorbType ==
  ASSUME NEW o \in Outcome, NEW e \in Event
  PROVE  /\ absorb(o, e) \in Outcome
         /\ absorb(o, e).code \in {o.code, e}
         /\ absorb(o, e).code = "ok" => o.code = "ok" \/ e = "ok"
  <1>1. CASE e = "text"
    <2>1. absorb(o, e) = [o EXCEPT !.text = @ + 1]
      BY <1>1 DEF absorb
    <2> QED BY <1>1, <2>1 DEF Outcome
  <1>4. CASE e = "error"
    <2>1. absorb(o, e) = [o EXCEPT !.text = @ + 1, !.errored = TRUE]
      BY <1>4 DEF absorb
    <2>2. [o EXCEPT !.text = @ + 1] \in Outcome
      BY DEF Outcome
    <2>3. absorb(o, e) = [[o EXCEPT !.text = @ + 1] EXCEPT !.errored = TRUE]
      BY <2>1 DEF Outcome
    <2>4. absorb(o, e) \in Outcome
      BY <2>2, <2>3 DEF Outcome
    <2>5. absorb(o, e).code = o.code
      BY <2>1 DEF Outcome
    <2> QED BY <2>4, <2>5
  <1>2. CASE e = "killed"
    BY <1>2 DEF absorb, Outcome
  <1>3. CASE e \in {"ok", "bad"}
    BY <1>3 DEF absorb, Outcome, Proc
  <1> QED BY <1>1, <1>2, <1>3, <1>4 DEF Event

\* Before the first stage.
LEMMA InitInv == Init => StageInv
  <1> SUFFICES ASSUME Init PROVE StageInv
    OBVIOUS
  <1>1. RowTypes
    BY NoOutcomeType DEF Init, RowTypes, NoRow, RowStatus, PCs, NoFlusher
  <1>2. ProcessTypes
    BY NoOutcomeType DEF Init, ProcessTypes, Proc, Event
  <1>3. RowIsOpen /\ FinalIsTrue /\ OkIsFinished
    BY DEF Init, RowIsOpen, FinalIsTrue, OkIsFinished, NoRow
  <1>4. Ahead
    BY DEF Init, Ahead, Untouched, NoRow
  <1>5. ExitIsTrue
    BY NoOutcomeType DEF Init, ExitIsTrue
  <1> QED BY <1>1, <1>2, <1>3, <1>4, <1>5 DEF StageInv, Types

-----------------------------------------------------------------------------
\* A step of the walk, of the flush task or of a user that leaves processes,
\* pipes, drains and outcomes alone.
Bookkeeping ==
    \/ LaunchFails \/ FlushReads \/ FlushWrites \/ DeadlineFires \/ Drained
    \/ GraceEnds \/ DrainFailed \/ CloseStage \/ CloseFails \/ Unregister
    \/ UserCancels \/ ReadsEof \/ ShellMutes \/ WaitsForShell \/ CloseShell
    \/ ShellPanics \/ Boot \/ BootSweepFails
    \/ UNCHANGED stageVars

\* Bookkeeping keeps the types.
LEMMA BookkeepingTypes ==
  ASSUME Types, RowIsOpen, Bookkeeping
  PROVE  Types'
  <1> USE DEF Types, RowTypes, ProcessTypes, PCs, RowStatus
  <1>0. UNCHANGED <<proc, pipe, drain, out>>
    BY DEF Bookkeeping, LaunchFails, FlushReads, FlushWrites, DeadlineFires, Drained,
           GraceEnds, DrainFailed, CloseStage, CloseFails, Unregister, UserCancels, ReadsEof,
           ShellMutes, WaitsForShell, CloseShell, ShellPanics, Boot, BootSweepFails, stageVars, shellOnly
  <1>1. ProcessTypes'
    BY <1>0
  <1>2. RowTypes'
    <2>1. CASE LaunchFails \/ ShellPanics
      BY <2>1, FailedType DEF LaunchFails, ShellPanics, shellOnly
    <2>2. CASE FlushReads
      BY <2>2 DEF FlushReads, Outcome
    <2>3. CASE FlushWrites
      BY <2>3 DEF FlushWrites, NoFlusher
    <2>4. CASE DeadlineFires
      BY <2>4 DEF DeadlineFires
    <2>5. CASE Drained \/ GraceEnds
      <3>1. out[run] \in Outcome
        BY <2>5 DEF Drained, GraceEnds, RowIsOpen
      <3>2. final' \in Outcome
        BY <2>5, <3>1 DEF Drained, GraceEnds, Outcome
      <3> QED BY <2>5, <3>2 DEF Drained, GraceEnds, FlusherAborted, NoFlusher
    <2>6. CASE DrainFailed
      BY <2>6, FailedType DEF DrainFailed, FlusherAborted, NoFlusher
    <2>7. CASE CloseStage
      <3>1. Status(final) \in RowStatus /\ final.text \in Nat
        BY StatusOk DEF Outcome
      <3> QED BY <2>7, <3>1 DEF CloseStage, Closed
    <2>8. CASE CloseShell
      <3>1. Status(final) \in RowStatus
        BY StatusOk
      <3> QED BY <2>8, <3>1 DEF CloseShell, Closed
    <2>9. CASE CloseFails \/ Unregister \/ UserCancels \/ ReadsEof \/ ShellMutes
      BY <2>9 DEF CloseFails, Unregister, UserCancels, ReadsEof, ShellMutes, shellOnly
    <2>10. CASE WaitsForShell
      <3>1. proc[run] \in Proc
        BY <2>10 DEF WaitsForShell, RowIsOpen
      <3>2. final' \in Outcome
        BY <2>10, <3>1, NoOutcomeType DEF WaitsForShell, Outcome
      <3> QED BY <2>10, <3>2 DEF WaitsForShell, shellOnly
    <2>11. CASE Boot \/ BootSweepFails
      BY <2>11 DEF Boot, BootSweepFails
    <2>12. CASE UNCHANGED stageVars
      BY <2>12 DEF stageVars
    <2> QED BY <2>1, <2>2, <2>3, <2>4, <2>5, <2>6, <2>7, <2>8, <2>9, <2>10, <2>11, <2>12
            DEF Bookkeeping
  <1> QED BY <1>1, <1>2

\* What such a step does to the rows: it closes the open one, changes only the
\* log of one, or, at boot, closes those that are still running.
RowStep ==
    \/ rows' = rows
    \/ \E status \in {"ok", "error", "timeout", "cancelled"}, log \in Nat :
          /\ Closed(status, log) /\ run \in Run /\ rows[run].status = "running"
          /\ status = "ok" => proc[run] = "ok" /\ drain[run] # "on"
          /\ pc' \in {"idle", "unregister"}
    \/ \A r \in Run : rows'[r].status = rows[r].status
    \/ Boot

\* All that bookkeeping does to the rows is what RowStep says.
LEMMA BookkeepingRows ==
  ASSUME StageInv, Bookkeeping
  PROVE  RowStep
  <1> USE DEF StageInv, Types, RowTypes, RowStep
  <1>1. CASE LaunchFails \/ ShellPanics \/ DrainFailed \/ BootSweepFails
    BY <1>1 DEF LaunchFails, ShellPanics, DrainFailed, BootSweepFails, shellOnly
  <1>2. CASE CloseStage
    <2>1. Status(final) \in {"ok", "error", "timeout", "cancelled"} /\ final.text \in Nat
      BY StatusOk DEF Outcome
    <2>2. Closed(Status(final), final.text) /\ pc' = "unregister" /\ pc = "close"
      BY <1>2 DEF CloseStage
    <2>3. run \in Run /\ rows[run].status = "running"
      BY <2>2 DEF RowIsOpen
    <2>4. Status(final) = "ok" => proc[run] = "ok" /\ drain[run] # "on"
      BY <2>2, <2>3, StatusOk DEF FinalIsTrue, ExitIsTrue
    <2> QED BY <2>1, <2>2, <2>3, <2>4
  <1>3. CASE CloseShell
    <2>1. Status(final) \in {"ok", "error", "timeout", "cancelled"}
      BY StatusOk
    <2>2. Closed(Status(final), 1) /\ pc' = "idle" /\ pc = "closeShell"
      BY <1>3 DEF CloseShell
    <2>3. run \in Run /\ rows[run].status = "running"
      BY <2>2 DEF RowIsOpen
    <2>4. Status(final) = "ok" => proc[run] = "ok" /\ drain[run] # "on"
      BY <2>2, <2>3, StatusOk DEF FinalIsTrue, Ahead, Untouched
    <2> QED BY <2>1, <2>2, <2>3, <2>4
  <1>4. CASE FlushWrites
    BY <1>4 DEF FlushWrites
  <1>5. CASE Boot
    BY <1>5
  <1>6. CASE \/ FlushReads \/ DeadlineFires \/ Drained \/ GraceEnds \/ CloseFails \/ Unregister
             \/ UserCancels \/ ReadsEof \/ ShellMutes \/ WaitsForShell \/ UNCHANGED stageVars
    BY <1>6 DEF FlushReads, DeadlineFires, Drained, GraceEnds, CloseFails, Unregister,
         UserCancels, ReadsEof, ShellMutes, WaitsForShell, stageVars, shellOnly
  <1> QED BY <1>1, <1>2, <1>3, <1>4, <1>5, <1>6 DEF Bookkeeping

\* Bookkeeping keeps the invariant.
LEMMA BookkeepingInv ==
  ASSUME StageInv, Bookkeeping
  PROVE  StageInv'
  <1>0. UNCHANGED <<proc, pipe, drain, out, run>>
    BY DEF Bookkeeping, LaunchFails, FlushReads, FlushWrites, DeadlineFires, Drained,
           GraceEnds, DrainFailed, CloseStage, CloseFails, Unregister, UserCancels, ReadsEof,
           ShellMutes, WaitsForShell, CloseShell, ShellPanics, Boot, BootSweepFails, stageVars, shellOnly
  <1>1. Types'
    BY BookkeepingTypes DEF StageInv
  <1>2. RowStep
    BY BookkeepingRows
  <1>3. /\ pc' = pc \/ pc' \in {"idle", "grace", "close", "unregister", "wait", "closeShell"}
        /\ pc' = "grace" => pc \in {"drain", "grace"}
        /\ pc' = "close" => pc \in {"launch", "drain", "grace", "close"}
        /\ pc' \in {"wait", "closeShell"} => pc \in {"shell", "wait", "closeShell"}
    BY DEF Bookkeeping, LaunchFails, FlushReads, FlushWrites, DeadlineFires, Drained,
           GraceEnds, DrainFailed, CloseStage, CloseFails, Unregister, UserCancels, ReadsEof,
           ShellMutes, WaitsForShell, CloseShell, ShellPanics, Boot, BootSweepFails, stageVars, shellOnly
  <1>5. RowIsOpen'
    <2>1. CASE \A r \in Run : rows'[r].status = rows[r].status
      BY <1>0, <1>3, <2>1 DEF StageInv, RowIsOpen
    <2>2. CASE pc' \in {"idle", "unregister"}
      BY <2>2 DEF RowIsOpen
    <2> QED BY <1>2, <2>1, <2>2 DEF RowStep, Boot
  <1>6. \A r \in Run : rows[r].status \notin {"running"} => rows'[r].status = rows[r].status
    BY <1>2 DEF RowStep, Boot, Closed, StageInv, Types, RowTypes
  <1>7. Ahead'
    BY <1>0, <1>3, <1>6 DEF StageInv, Ahead, Untouched
  <1>8. ExitIsTrue'
    BY <1>0 DEF StageInv, ExitIsTrue
  <1>9. OkIsFinished'
    <2> SUFFICES ASSUME NEW r \in Run, rows'[r].status = "ok"
                 PROVE  proc[r] = "ok" /\ drain[r] # "on"
      BY <1>0 DEF OkIsFinished
    <2> QED BY <1>2 DEF RowStep, Boot, Closed, StageInv, Types, RowTypes, OkIsFinished
  <1>10. FinalIsTrue'
    <2>1. CASE Drained \/ GraceEnds
      BY <1>0, <2>1 DEF Drained, GraceEnds, FinalIsTrue, StageInv, Types, ProcessTypes, Outcome,
                        RowIsOpen
    <2>2. CASE WaitsForShell
      BY <1>0, <2>2 DEF WaitsForShell, FinalIsTrue, NoOutcome
    <2>4. CASE LaunchFails \/ DrainFailed \/ ShellPanics
      BY <2>4, FailedType DEF LaunchFails, DrainFailed, ShellPanics, FinalIsTrue
    <2>3. CASE final' = final /\ (pc' = pc \/ pc' \notin {"close", "closeShell"})
      BY <1>0, <2>3 DEF FinalIsTrue, StageInv
    <2> QED
      BY <2>1, <2>2, <2>3, <2>4
      DEF Bookkeeping, FlushReads, FlushWrites, DeadlineFires, CloseStage, CloseFails, Unregister, UserCancels, ReadsEof,
          ShellMutes, CloseShell, Boot, BootSweepFails, stageVars, shellOnly
  <1> QED BY <1>1, <1>5, <1>7, <1>8, <1>9, <1>10 DEF StageInv

-----------------------------------------------------------------------------
\* open_stage: the next row was untouched.
LEMMA OpenStageInv ==
  ASSUME StageInv, NEW kind \in Kinds, OpenStage(kind)
  PROVE  StageInv'
  <1> USE DEF StageInv, Types, RowTypes, ProcessTypes
  <1>1. /\ run \in Nat /\ run + 1 \in Run /\ run' = run + 1 /\ pc = "idle"
        /\ pc' \in {"launch", "shell"}
        /\ rows' = [rows EXCEPT ![run + 1].status = "running"]
        /\ UNCHANGED <<pipe, drain, out, final, flusher>>
    BY DEF OpenStage
  <1>2. rows[run + 1].status = "none" /\ proc[run + 1] = "none" /\ Untouched(run + 1)
    BY <1>1, RunIsNat DEF Ahead
  <1>3. \A r \in Run : r # run + 1 => proc'[r] = proc[r]
    BY DEF OpenStage
  <1>4. pc' = "launch" => proc' = proc
    BY DEF OpenStage
  <1>5. proc' \in [Run -> Proc]
    BY DEF OpenStage, Proc
  <1>6. Types'
    <2>1. rows' \in [Run -> [status : RowStatus, log : Nat]]
      <3>1. rows' = [rows EXCEPT ![run + 1] = [rows[run + 1] EXCEPT !.status = "running"]]
        BY <1>1
      <3>2. [rows[run + 1] EXCEPT !.status = "running"] \in [status : RowStatus, log : Nat]
        BY <1>1 DEF RowStatus
      <3> QED BY <3>1, <3>2
    <2> QED BY <1>1, <1>5, <2>1 DEF PCs
  <1>7. RowIsOpen'
    BY <1>1 DEF RowIsOpen
  <1>8. Ahead'
    BY <1>1, <1>2, <1>3, <1>4, RunIsNat DEF Ahead, Untouched
  <1>9. ExitIsTrue'
    <2> SUFFICES ASSUME NEW r \in Run
                 PROVE  /\ out[r].code = "ok" => proc'[r] = "ok"
                        /\ \A i \in 1..Len(pipe[r]) : pipe[r][i] = "ok" => proc'[r] = "ok"
      BY <1>1 DEF ExitIsTrue
    <2>1. CASE r # run + 1
      BY <1>3, <2>1 DEF ExitIsTrue
    <2>2. CASE r = run + 1
      BY <1>2, <2>2, NoOutcomeType DEF Untouched
    <2> QED BY <2>1, <2>2
  <1>10. FinalIsTrue'
    BY <1>1 DEF FinalIsTrue
  <1>11. OkIsFinished'
    BY <1>1, <1>2, <1>3 DEF OkIsFinished
  <1> QED BY <1>6, <1>7, <1>8, <1>9, <1>10, <1>11

\* The process and its drain start with an empty outcome.
LEMMA LaunchInv ==
  ASSUME StageInv, Launch
  PROVE  StageInv'
  <1> USE DEF StageInv, Types, RowTypes, ProcessTypes
  <1>1. /\ pc = "launch" /\ pc' = "drain" /\ run \in Run
        /\ rows[run].status = "running" /\ proc[run] = "none" /\ Untouched(run)
    BY DEF Launch, RowIsOpen, Ahead
  <1>2. /\ proc' = [proc EXCEPT ![run] = "running"]
        /\ drain' = [drain EXCEPT ![run] = "on"]
        /\ flusher' = [pc |-> "on", run |-> run, log |-> 0]
        /\ UNCHANGED <<rows, run, pipe, out, final>>
    BY DEF Launch, NoFlusher
  <1>3. Types'
    BY <1>1, <1>2, RunIsNat DEF PCs, Proc
  <1>4. RowIsOpen'
    BY <1>1, <1>2 DEF RowIsOpen
  <1>5. Ahead'
    BY <1>1, <1>2, RunIsNat DEF Ahead, Untouched
  <1>6. ExitIsTrue'
    BY <1>1, <1>2, NoOutcomeType DEF ExitIsTrue, Untouched
  <1>7. FinalIsTrue'
    BY <1>1 DEF FinalIsTrue
  <1>8. OkIsFinished'
    BY <1>1, <1>2 DEF OkIsFinished
  <1> QED BY <1>3, <1>4, <1>5, <1>6, <1>7, <1>8

\* A process that talks has not exited.
LEMMA AgentSaysInv ==
  ASSUME StageInv, NEW r \in Run, NEW e \in {"text", "error"}, AgentSays(r, e)
  PROVE  StageInv'
  <1> USE DEF StageInv, Types, RowTypes, ProcessTypes
  <1>1. /\ proc[r] = "running" /\ drain[r] # "none"
        /\ pipe' = [pipe EXCEPT ![r] = Append(pipe[r], e)]
        /\ UNCHANGED <<rows, pc, run, proc, drain, out, final, flusher>>
    BY DEF AgentSays
  <1>2. Append(pipe[r], e) \in Seq(Event)
    BY DEF Event
  <1>3. Types'
    BY <1>1, <1>2
  <1>4. RowIsOpen' /\ FinalIsTrue' /\ OkIsFinished'
    BY <1>1 DEF RowIsOpen, FinalIsTrue, OkIsFinished
  <1>5. Ahead'
    BY <1>1 DEF Ahead, Untouched
  <1>6. ExitIsTrue'
    <2>1. \A i \in 1..Len(Append(pipe[r], e)) : Append(pipe[r], e)[i] # "ok"
      <3> SUFFICES ASSUME NEW i \in 1..Len(Append(pipe[r], e))
                   PROVE  Append(pipe[r], e)[i] # "ok"
        OBVIOUS
      <3>1. CASE i = Len(pipe[r]) + 1
        BY <3>1
      <3>2. CASE i \in 1..Len(pipe[r])
        BY <1>1, <3>2 DEF ExitIsTrue
      <3> QED BY <3>1, <3>2
    <2> QED BY <1>1, <2>1 DEF ExitIsTrue
  <1> QED BY <1>3, <1>4, <1>5, <1>6

\* The exit of a process is the first, and the last, it makes.
LEMMA AgentExitsInv ==
  ASSUME StageInv, NEW r \in Run, NEW code \in {"ok", "bad"}, AgentExits(r, code)
  PROVE  StageInv'
  <1> USE DEF StageInv, Types, RowTypes, ProcessTypes
  <1> DEFINE c == IF r \in asked THEN "killed" ELSE code
  <1>1. /\ proc[r] = "running" /\ drain[r] # "none"
        /\ proc' = [proc EXCEPT ![r] = c]
        /\ pipe' = [pipe EXCEPT ![r] = Append(pipe[r], c)]
        /\ UNCHANGED <<rows, pc, run, drain, out, final, flusher>>
    BY DEF AgentExits
  <1>2. c \in {"ok", "bad", "killed"}
    OBVIOUS
  <1> HIDE DEF c
  <1>3. Append(pipe[r], c) \in Seq(Event)
    BY <1>2 DEF Event
  <1>4. Types'
    BY <1>1, <1>2, <1>3 DEF Proc
  <1>5. RowIsOpen'
    BY <1>1 DEF RowIsOpen
  <1>6. r <= run /\ ~Untouched(r)
    BY <1>1, RunIsNat DEF Ahead, Untouched
  <1>7. Ahead'
    BY <1>1, <1>6, RunIsNat DEF Ahead, Untouched, RowIsOpen
  <1>8. ExitIsTrue'
    <2>1. out[r].code # "ok" /\ \A i \in 1..Len(pipe[r]) : pipe[r][i] # "ok"
      BY <1>1 DEF ExitIsTrue
    <2>2. \A i \in 1..Len(Append(pipe[r], c)) : Append(pipe[r], c)[i] = "ok" => c = "ok"
      <3> SUFFICES ASSUME NEW i \in 1..Len(Append(pipe[r], c)), Append(pipe[r], c)[i] = "ok"
                   PROVE  c = "ok"
        OBVIOUS
      <3>1. CASE i = Len(pipe[r]) + 1
        BY <3>1
      <3>2. CASE i \in 1..Len(pipe[r])
        BY <2>1, <3>2
      <3> QED BY <3>1, <3>2
    <2> QED BY <1>1, <2>1, <2>2 DEF ExitIsTrue
  <1>9. FinalIsTrue'
    BY <1>1, <1>6 DEF FinalIsTrue, Ahead
  <1>10. OkIsFinished'
    BY <1>1 DEF OkIsFinished
  <1> QED BY <1>4, <1>5, <1>7, <1>8, <1>9, <1>10

\* An exit reaches the outcome only after the process has made it.
LEMMA DrainEventInv ==
  ASSUME StageInv, NEW r \in Run, DrainEvent(r)
  PROVE  StageInv'
  <1> USE DEF StageInv, Types, RowTypes, ProcessTypes
  <1> DEFINE e == Head(pipe[r])
             d == IF e \in {"ok", "bad", "killed"} THEN "done" ELSE drain[r]
  <1>1. /\ drain[r] = "on" /\ pipe[r] # <<>>
        /\ out' = [out EXCEPT ![r] = absorb(out[r], e)]
        /\ pipe' = [pipe EXCEPT ![r] = Tail(pipe[r])]
        /\ drain' = [drain EXCEPT ![r] = d]
        /\ UNCHANGED <<rows, pc, run, proc, final, flusher>>
    BY DEF DrainEvent
  <1>2. /\ e \in Event /\ Tail(pipe[r]) \in Seq(Event) /\ d \in {"on", "done"}
        /\ e = pipe[r][1] /\ 1 \in 1..Len(pipe[r])
        /\ \A i \in 1..Len(Tail(pipe[r])) :
              Tail(pipe[r])[i] = pipe[r][i + 1] /\ i + 1 \in 1..Len(pipe[r])
    BY <1>1
  <1> HIDE DEF e, d
  <1>3. /\ absorb(out[r], e) \in Outcome
        /\ absorb(out[r], e).code = "ok" => out[r].code = "ok" \/ e = "ok"
    BY <1>2, AbsorbType
  <1>4. Types'
    BY <1>1, <1>2, <1>3
  <1>5. RowIsOpen' /\ OkIsFinished'
    BY <1>1, <1>2 DEF RowIsOpen, OkIsFinished
  <1>6. ~Untouched(r) /\ r <= run
    BY <1>1, RunIsNat DEF Ahead, Untouched
  <1>7. Ahead'
    BY <1>1, <1>6, RunIsNat DEF Ahead, Untouched, RowIsOpen
  <1>8. ExitIsTrue'
    <2>1. absorb(out[r], e).code = "ok" => proc[r] = "ok"
      BY <1>2, <1>3 DEF ExitIsTrue
    <2>2. \A i \in 1..Len(Tail(pipe[r])) : Tail(pipe[r])[i] = "ok" => proc[r] = "ok"
      BY <1>2 DEF ExitIsTrue
    <2> QED BY <1>1, <2>1, <2>2 DEF ExitIsTrue
  <1>9. FinalIsTrue'
    BY <1>1 DEF FinalIsTrue
  <1> QED BY <1>4, <1>5, <1>7, <1>8, <1>9

\* A drain that panics leaves the outcome as it is.
LEMMA DrainPanicsInv ==
  ASSUME StageInv, NEW r \in Run, DrainPanics(r)
  PROVE  StageInv'
  <1> USE DEF StageInv, Types, RowTypes, ProcessTypes
  <1>1. /\ drain[r] = "on" /\ drain' = [drain EXCEPT ![r] = "panicked"]
        /\ UNCHANGED <<rows, pc, run, proc, pipe, out, final, flusher>>
    BY DEF DrainPanics
  <1>2. Types'
    BY <1>1
  <1>3. RowIsOpen' /\ FinalIsTrue' /\ OkIsFinished' /\ ExitIsTrue'
    BY <1>1 DEF RowIsOpen, FinalIsTrue, OkIsFinished, ExitIsTrue
  <1>4. Ahead'
    BY <1>1 DEF Ahead, Untouched
  <1> QED BY <1>2, <1>3, <1>4

\* Whatever becomes of a command, its row is open and it has no drain.
LEMMA ShellInv ==
  ASSUME StageInv, \/ \E code \in {"ok", "bad"} : ShellExits(code)
                   \/ ShellDeadline
  PROVE  StageInv'
  <1> USE DEF StageInv, Types, RowTypes, ProcessTypes
  <1>1. PICK c \in {"ok", "bad", "killed"} : proc' = [proc EXCEPT ![run] = c]
    BY DEF ShellExits, ShellDeadline
  <1>2. /\ pc \in {"shell", "wait"}
        /\ UNCHANGED <<rows, run, pipe, drain, out, flusher>>
        /\ \/ pc' = pc /\ final' = final
           \/ pc' = "closeShell" /\ final' = [NoOutcome EXCEPT !.timed_out = TRUE]
    BY DEF ShellExits, ShellDeadline, shellOnly
  <1>3. run \in Run /\ rows[run].status = "running" /\ Untouched(run)
    BY <1>2 DEF RowIsOpen, Ahead
  <1>4. [NoOutcome EXCEPT !.timed_out = TRUE] \in Outcome
        /\ [NoOutcome EXCEPT !.timed_out = TRUE].timed_out
    BY DEF NoOutcome, Outcome, Proc
  <1>5. Types'
    BY <1>1, <1>2, <1>4 DEF PCs, Proc
  <1>6. RowIsOpen'
    BY <1>2, <1>3 DEF RowIsOpen
  <1>7. Ahead'
    BY <1>1, <1>2, <1>3, RunIsNat DEF Ahead, Untouched
  <1>8. ExitIsTrue'
    BY <1>1, <1>2, <1>3, NoOutcomeType DEF ExitIsTrue, Untouched
  <1>9. FinalIsTrue'
    BY <1>2, <1>4 DEF FinalIsTrue
  <1>10. OkIsFinished'
    BY <1>1, <1>2, <1>3 DEF OkIsFinished
  <1> QED BY <1>5, <1>6, <1>7, <1>8, <1>9, <1>10

\* A crash kills processes, and none that had exited.
LEMMA CrashInv ==
  ASSUME StageInv, Crash
  PROVE  StageInv'
  <1> USE DEF StageInv, Types, RowTypes, ProcessTypes
  <1>1. /\ pc' = "down"
        /\ proc' = [r \in Run |-> IF proc[r] = "running" THEN "killed" ELSE proc[r]]
        /\ pipe' = [r \in Run |-> <<>>] /\ drain' = [r \in Run |-> "none"]
        /\ flusher' = NoFlusher
        /\ UNCHANGED <<rows, run, out, final>>
    BY DEF Crash
  <1>2. Types'
    BY <1>1 DEF PCs, Proc, NoFlusher
  <1>3. RowIsOpen' /\ FinalIsTrue'
    BY <1>1 DEF RowIsOpen, FinalIsTrue
  <1>4. Ahead'
    BY <1>1, RunIsNat DEF Ahead, Untouched
  <1>5. ExitIsTrue'
    BY <1>1 DEF ExitIsTrue
  <1>6. OkIsFinished'
    BY <1>1 DEF OkIsFinished
  <1> QED BY <1>2, <1>3, <1>4, <1>5, <1>6

-----------------------------------------------------------------------------
\* The steps that are not bookkeeping, by the handler they are in.
LEMMA NextSteps ==
  ASSUME [Next]_vars
  PROVE  \/ Bookkeeping
         \/ \E kind \in Kinds : OpenStage(kind)
         \/ Launch
         \/ \E r \in Run : \/ DrainEvent(r) \/ DrainPanics(r)
                           \/ \E e \in {"text", "error"} : AgentSays(r, e)
                           \/ \E code \in {"ok", "bad"} : AgentExits(r, code)
         \/ (\E code \in {"ok", "bad"} : ShellExits(code)) \/ ShellDeadline
         \/ Crash
  BY DEF Next, StageStep, Bookkeeping, vars

\* Every step keeps the invariant.
LEMMA NextInv ==
  ASSUME StageInv, [Next]_vars
  PROVE  StageInv'
  BY NextSteps, BookkeepingInv, OpenStageInv, LaunchInv, DrainEventInv, DrainPanicsInv,
     AgentSaysInv, AgentExitsInv, ShellInv, CrashInv

\* The invariant holds.
LEMMA StageInvHolds == Spec => []StageInv
  <1>1. Spec => Init /\ [][Next]_vars
    BY PTL DEF Spec
  <1>2. Init => StageInv
    BY InitInv
  <1>3. StageInv /\ [Next]_vars => StageInv'
    BY NextInv
  <1> QED BY <1>1, <1>2, <1>3, PTL

\* A row that says ok is of a stage whose process ended well by itself and was
\* drained, whatever the deadline, the cancel, the exit and the drain of
\* run_agent_stage do to each other.
THEOREM OkHasFinished == Spec => []OkIsFinished
  <1>1. StageInv => OkIsFinished
    BY DEF StageInv
  <1> QED BY <1>1, StageInvHolds, PTL

RowsKept ==
    \A r \in Run : rows[r].status \notin {"none", "running"} =>
                       rows'[r].status = rows[r].status

\* No step changes the status of a closed row.
LEMMA RowsKeptStep ==
  ASSUME StageInv, [Next]_vars
  PROVE  RowsKept
  <1> USE DEF StageInv, Types, RowTypes
  <1>1. CASE Bookkeeping
    BY <1>1, BookkeepingRows DEF RowsKept, RowStep, Closed, Boot
  <1>2. ASSUME NEW kind \in Kinds, OpenStage(kind)
        PROVE  RowsKept
    <2>1. rows' = [rows EXCEPT ![run + 1].status = "running"] /\ run + 1 \in Run
      BY <1>2 DEF OpenStage
    <2>2. rows[run + 1].status = "none"
      BY <2>1, RunIsNat DEF Ahead
    <2> QED BY <2>1, <2>2 DEF RowsKept
  <1>3. CASE rows' = rows
    BY <1>3 DEF RowsKept
  <1> QED BY <1>1, <1>2, <1>3, NextSteps
          DEF Launch, DrainEvent, DrainPanics, AgentSays, AgentExits, ShellExits,
              ShellDeadline, Crash, shellOnly

\* No flush, close or boot gives a closed row of evidence another status.
THEOREM RowsStayClosed == Spec => ClosedForGood
  <1>1. Spec => [][Next]_vars
    BY PTL DEF Spec
  <1>2. StageInv /\ [Next]_vars => [RowsKept]_vars
    BY RowsKeptStep
  <1>3. Spec => [][RowsKept]_vars
    BY <1>1, <1>2, StageInvHolds, PTL
  <1> QED BY <1>3 DEF ClosedForGood, RowsKept

=============================================================================
