------------------------------- MODULE Stage -------------------------------
(***************************************************************************)
(* One walk runs its stages one after the other: agent stages through      *)
(* run_agent_stage (task_agent.rs) and shell commands through              *)
(* run_stage_command (cmd.rs).  Each leaves a row of evidence              *)
(* (evidence.rs), and what an agent says is published as it says it.       *)
(*                                                                         *)
(* Text is counted and not read: an event is "text", "error", or the exit  *)
(* of the process, and a log is the number of events in it.                *)
(***************************************************************************)
EXTENDS Stream, FiniteSets

CONSTANTS
    MaxRuns,      \* bound: stages of the walk
    Kinds,        \* "agent", "command"
    MaxEvents,    \* bound: events a process has before its exit
    Faults,       \* what may go wrong: "launch", "panic", "db", "mute",
                  \* "crash"
    MaxFaults     \* bound: how many of them in a behaviour

ASSUME StageAssumption ==
    /\ Kinds \subseteq {"agent", "command"}
    /\ MaxRuns \in Nat /\ MaxEvents \in Nat /\ MaxFaults \in Nat

Run == 1..MaxRuns

VARIABLES
    rows,         \* agent_run: status and log
    pc,           \* where the walk is
    run,          \* the stage it is in, or was in last
    proc,         \* per stage: its process
    pipe,         \* per stage: the events that are not drained yet
    drain,        \* per stage: the thread that drains them
    out,          \* per stage: shared_outcome
    final,        \* the outcome the stage is closed with
    flusher,      \* the task that flushes the log, and the log it has read
    registry,     \* cancel_registry under the key of the item: 0 for none
    asked,        \* the stages whose handle was told to cancel
    lost,         \* history: the rows whose closing write failed
    faults

stageVars == <<rows, pc, run, proc, pipe, drain, out, final, flusher, registry,
               asked, lost, faults>>
vars == <<streamVars, stageVars>>

NoRow == [status |-> "none", log |-> 0]
\* AgentStageOutcome::default()
NoOutcome == [text |-> 0, errored |-> FALSE, code |-> "none",
              cancelled |-> FALSE, timed_out |-> FALSE]
\* What a stage is closed with that did not run, or whose body panicked.
Failed == [NoOutcome EXCEPT !.text = 1, !.errored = TRUE]
NoFlusher == [pc |-> "off", run |-> 0, log |-> 0]

Init ==
    /\ StreamInit
    /\ rows = [r \in Run |-> NoRow]
    /\ pc = "idle" /\ run = 0
    /\ proc = [r \in Run |-> "none"]
    /\ pipe = [r \in Run |-> <<>>]
    /\ drain = [r \in Run |-> "none"]
    /\ out = [r \in Run |-> NoOutcome]
    /\ final = NoOutcome
    /\ flusher = NoFlusher
    /\ registry = 0 /\ asked = {} /\ lost = {}
    /\ faults = 0

Fails(what) == what \in Faults /\ faults < MaxFaults /\ faults' = faults + 1
Closed(status, log) == rows' = [rows EXCEPT ![run] = [status |-> status, log |-> log]]

-----------------------------------------------------------------------------
(***************************************************************************)
(* run_agent_stage                                                         *)
(***************************************************************************)

\* open_stage
OpenStage(kind) ==
    /\ pc = "idle" /\ run + 1 \in Run
    /\ run' = run + 1
    /\ rows' = [rows EXCEPT ![run + 1].status = "running"]
    /\ pc' = IF kind = "agent" THEN "launch" ELSE "shell"
    /\ proc' = IF kind = "agent" THEN proc ELSE [proc EXCEPT ![run + 1] = "running"]
    /\ UNCHANGED <<streamVars, pipe, drain, out, final, flusher, registry, asked,
                   faults, lost>>

LaunchFails ==
    /\ pc = "launch" /\ Fails("launch")
    /\ final' = Failed
    /\ pc' = "close"
    /\ UNCHANGED <<streamVars, rows, run, proc, pipe, drain, out, flusher,
                   registry, asked, lost>>

\* The process runs, its handle is registered, and the drain thread, the flush
\* task and the deadline are started.
Launch ==
    /\ pc = "launch"
    /\ proc' = [proc EXCEPT ![run] = "running"]
    /\ drain' = [drain EXCEPT ![run] = "on"]
    /\ registry' = run
    /\ flusher' = [NoFlusher EXCEPT !.pc = "on", !.run = run]
    /\ pc' = "drain"
    /\ UNCHANGED <<streamVars, rows, run, pipe, out, final, asked, faults, lost>>

\* Said(r): an upper bound on what a process says.
Said(r) == Len(pipe[r]) + out[r].text

AgentSays(r, event) ==
    /\ proc[r] = "running" /\ drain[r] # "none" /\ Said(r) < MaxEvents
    /\ pipe' = [pipe EXCEPT ![r] = Append(@, event)]
    /\ UNCHANGED <<streamVars, rows, pc, run, proc, drain, out, final, flusher,
                   registry, asked, faults, lost>>

\* A cancelled process reports no code of its own.
AgentExits(r, code) ==
    /\ proc[r] = "running" /\ drain[r] # "none"
    /\ proc' = [proc EXCEPT ![r] = IF r \in asked THEN "killed" ELSE code]
    /\ pipe' = [pipe EXCEPT ![r] = Append(@, IF r \in asked THEN "killed" ELSE code)]
    /\ UNCHANGED <<streamVars, rows, pc, run, drain, out, final, flusher, registry,
                   asked, faults, lost>>

\* AgentStageOutcome::absorb; "ok" and "bad" are exits with a code.
absorb(o, event) ==
    CASE event = "text" -> [o EXCEPT !.text = @ + 1]
      [] event = "error" -> [o EXCEPT !.text = @ + 1, !.errored = TRUE]
      [] event = "killed" -> [o EXCEPT !.cancelled = TRUE]
      [] OTHER -> [o EXCEPT !.code = event]

\* The drain thread publishes every event and adds it to the shared outcome.
DrainEvent(r) ==
    /\ drain[r] = "on" /\ pipe[r] # <<>>
    /\ Publish
    /\ out' = [out EXCEPT ![r] = absorb(@, Head(pipe[r]))]
    /\ pipe' = [pipe EXCEPT ![r] = Tail(@)]
    /\ drain' = [drain EXCEPT ![r] =
                    IF Head(pipe[r]) \in {"ok", "bad", "killed"} THEN "done" ELSE @]
    /\ UNCHANGED <<viewerVars, rows, pc, run, proc, final, flusher, registry, asked,
                   faults, lost>>

DrainPanics(r) ==
    /\ drain[r] = "on" /\ Fails("panic")
    /\ drain' = [drain EXCEPT ![r] = "panicked"]
    /\ UNCHANGED <<streamVars, rows, pc, run, proc, pipe, out, final, flusher,
                   registry, asked, lost>>

\* The flush task: the shared text is read, and then written over the row's.
FlushReads ==
    /\ flusher.pc = "on"
    /\ flusher' = [flusher EXCEPT !.pc = "read", !.log = out[flusher.run].text]
    /\ UNCHANGED <<streamVars, rows, pc, run, proc, pipe, drain, out, final,
                   registry, asked, faults, lost>>

\* Mutant: the flush also says that the stage is running.
FlushWritesStatus ==
    /\ flusher.pc \in {"read", "late"}
    /\ rows' = [rows EXCEPT ![flusher.run] = [status |-> "running", log |-> flusher.log]]
    /\ flusher' = IF flusher.pc = "late" THEN NoFlusher
                  ELSE [flusher EXCEPT !.pc = "on", !.log = 0]
    /\ UNCHANGED <<streamVars, pc, run, proc, pipe, drain, out, final, registry,
                   asked, faults, lost>>

\* flush_stage_log: a task that is aborted in the middle of the statement
\* finishes it.
FlushWrites ==
    /\ flusher.pc \in {"read", "late"}
    /\ rows' = [rows EXCEPT ![flusher.run].log = flusher.log]
    /\ flusher' = IF flusher.pc = "late" THEN NoFlusher
                  ELSE [flusher EXCEPT !.pc = "on", !.log = 0]
    /\ UNCHANGED <<streamVars, pc, run, proc, pipe, drain, out, final, registry,
                   asked, faults, lost>>

FlusherAborted ==
    flusher' = IF flusher.pc = "read" THEN [flusher EXCEPT !.pc = "late"]
               ELSE IF flusher.pc = "on" THEN NoFlusher ELSE flusher

\* The stage timeout: the handle is looked up and told to cancel.
DeadlineFires ==
    /\ pc = "drain" /\ drain[run] = "on"
    /\ asked' = IF registry = 0 THEN asked ELSE asked \cup {registry}
    /\ pc' = "grace"
    /\ UNCHANGED <<streamVars, rows, run, proc, pipe, drain, out, final, flusher,
                   registry, faults, lost>>

Drained ==
    /\ pc \in {"drain", "grace"} /\ drain[run] = "done"
    /\ final' = IF pc = "grace"
                THEN [out[run] EXCEPT !.timed_out = TRUE, !.cancelled = TRUE]
                ELSE out[run]
    /\ FlusherAborted
    /\ pc' = "close"
    /\ UNCHANGED <<streamVars, rows, run, proc, pipe, drain, out, registry, asked,
                   faults, lost>>

\* Mutant: what was drained so far is taken for the outcome of the run.
GraceEndsAsDrained ==
    /\ pc = "grace" /\ drain[run] = "on"
    /\ final' = IF out[run].errored THEN out[run] ELSE [out[run] EXCEPT !.code = "ok"]
    /\ FlusherAborted
    /\ pc' = "close"
    /\ UNCHANGED <<streamVars, rows, run, proc, pipe, drain, out, registry, asked,
                   faults, lost>>

\* No exit within the grace period: the process and its drain are left behind.
GraceEnds ==
    /\ pc = "grace" /\ drain[run] = "on"
    /\ final' = [out[run] EXCEPT !.timed_out = TRUE, !.cancelled = TRUE]
    /\ FlusherAborted
    /\ pc' = "close"
    /\ UNCHANGED <<streamVars, rows, run, proc, pipe, drain, out, registry, asked,
                   faults, lost>>

DrainFailed ==
    /\ pc \in {"drain", "grace"} /\ drain[run] = "panicked"
    /\ final' = Failed
    /\ FlusherAborted
    /\ pc' = "close"
    /\ UNCHANGED <<streamVars, rows, run, proc, pipe, drain, out, registry, asked,
                   faults, lost>>

\* AgentStageOutcome::status
Status(o) ==
    CASE o.timed_out -> "timeout"
      [] ~o.timed_out /\ o.cancelled -> "cancelled"
      [] ~o.timed_out /\ ~o.cancelled /\ o.errored ->
            IF o.code = "ok" /\ o.text > 0 THEN "ok" ELSE "error"
      [] OTHER -> IF o.code = "ok" THEN "ok" ELSE "error"

CloseStage ==
    /\ pc = "close"
    /\ Closed(Status(final), final.text)
    /\ pc' = "unregister"
    /\ UNCHANGED <<streamVars, run, proc, pipe, drain, out, final, flusher, registry,
                   asked, faults, lost>>

\* close_stage fails, after whatever end of the stage, and nobody tries again:
\* the row stays as it is until the next boot.
CloseFails ==
    /\ pc \in {"close", "closeShell"} /\ Fails("db")
    /\ pc' = IF pc = "close" THEN "unregister" ELSE "idle"
    /\ lost' = lost \cup {run}
    /\ UNCHANGED <<streamVars, rows, run, proc, pipe, drain, out, final, flusher,
                   registry, asked>>

\* The drop of CancelGuard.
Unregister ==
    /\ pc = "unregister"
    /\ registry' = 0
    /\ pc' = "idle"
    /\ UNCHANGED <<streamVars, rows, run, proc, pipe, drain, out, final, flusher,
                   asked, faults, lost>>

\* A lane cancel finds the handle in the registry; it may come too late.
UserCancels ==
    /\ registry # 0 /\ registry \notin asked
    /\ asked' = asked \cup {registry}
    /\ UNCHANGED <<streamVars, rows, pc, run, proc, pipe, drain, out, final, flusher,
                   registry, faults, lost>>

-----------------------------------------------------------------------------
(***************************************************************************)
(* run_stage_command: run_shell_timed under guard_stage_close.             *)
(***************************************************************************)

shellOnly == <<streamVars, rows, run, pipe, drain, out, flusher, registry, asked,
               lost>>

ShellExits(code) ==
    /\ pc \in {"shell", "wait"} /\ proc[run] = "running"
    /\ proc' = [proc EXCEPT ![run] = code]
    /\ UNCHANGED <<shellOnly, pc, final, faults>>

\* The end of its output is taken for the end of the command ...
ReadsEof ==
    /\ pc = "shell" /\ proc[run] # "running"
    /\ pc' = "wait"
    /\ UNCHANGED <<shellOnly, proc, final, faults>>

\* ... and so it is when the command has closed its output and runs on.
ShellMutes ==
    /\ pc = "shell" /\ proc[run] = "running" /\ Fails("mute")
    /\ pc' = "wait"
    /\ UNCHANGED <<shellOnly, proc, final>>

\* child.wait(): there is no deadline here.
WaitsForShell ==
    /\ pc = "wait" /\ proc[run] # "running"
    /\ final' = [NoOutcome EXCEPT !.code = proc[run]]
    /\ pc' = "closeShell"
    /\ UNCHANGED <<shellOnly, proc, faults>>

\* timed_out: the process group is killed, politely and then not.
ShellDeadline ==
    /\ pc = "shell"
    /\ proc' = [proc EXCEPT ![run] = "killed"]
    /\ final' = [NoOutcome EXCEPT !.timed_out = TRUE]
    /\ pc' = "closeShell"
    /\ UNCHANGED <<shellOnly, faults>>

CloseShell ==
    /\ pc = "closeShell"
    /\ Closed(Status(final), 1)
    /\ pc' = "idle"
    /\ UNCHANGED <<streamVars, run, proc, pipe, drain, out, final, flusher, registry,
                   asked, faults, lost>>

\* guard_stage_close: a body that panics leaves a closed row behind.
ShellPanics ==
    /\ pc = "shell" /\ Fails("panic")
    /\ final' = Failed
    /\ pc' = "closeShell"
    /\ UNCHANGED <<shellOnly, proc>>

-----------------------------------------------------------------------------
\* The process goes away with everything in it; its agents lose their pipes.
Crash ==
    /\ pc # "down" /\ Fails("crash")
    /\ pc' = "down"
    /\ proc' = [r \in Run |-> IF proc[r] = "running" THEN "killed" ELSE proc[r]]
    /\ pipe' = [r \in Run |-> <<>>]
    /\ drain' = [r \in Run |-> "none"]
    /\ flusher' = NoFlusher /\ registry' = 0
    /\ LoseStream
    /\ UNCHANGED <<published, rows, run, out, final, asked, lost>>

\* Mutant: the boot leaves the rows as they are.
BootForgets ==
    /\ pc = "down"
    /\ pc' = "idle"
    /\ UNCHANGED <<streamVars, rows, run, proc, pipe, drain, out, final, flusher,
                   registry, asked, faults, lost>>

\* cancel_orphaned_running, before the workers are started.
Boot ==
    /\ pc = "down"
    /\ rows' = [r \in Run |-> IF rows[r].status = "running"
                              THEN [status |-> "cancelled", log |-> rows[r].log + 1]
                              ELSE rows[r]]
    /\ pc' = "idle"
    /\ UNCHANGED <<streamVars, run, proc, pipe, drain, out, final, flusher, registry,
                   asked, faults, lost>>

\* The sweep is best effort: the server starts though it has failed.
BootSweepFails ==
    /\ pc = "down" /\ Fails("db")
    /\ pc' = "idle"
    /\ lost' = lost \cup {r \in Run : rows[r].status = "running"}
    /\ UNCHANGED <<streamVars, rows, run, proc, pipe, drain, out, final, flusher,
                   registry, asked>>

-----------------------------------------------------------------------------
StageStep ==
    \/ Launch \/ Drained \/ GraceEnds \/ DrainFailed \/ CloseStage \/ Unregister
    \/ ReadsEof \/ WaitsForShell \/ CloseShell \/ Boot

Next ==
    \/ \E k \in Kinds : OpenStage(k)
    \/ StageStep \/ LaunchFails \/ DeadlineFires \/ CloseFails \/ BootSweepFails
    \/ UserCancels
    \/ FlushReads \/ FlushWrites
    \/ \E r \in Run :
          \/ DrainEvent(r) \/ DrainPanics(r)
          \/ \E event \in {"text", "error"} : AgentSays(r, event)
          \/ \E code \in {"ok", "bad"} : AgentExits(r, code)
    \/ \E code \in {"ok", "bad"} : ShellExits(code)
    \/ ShellMutes \/ ShellDeadline \/ ShellPanics
    \/ Crash
    \/ (StreamStep \/ Viewer) /\ UNCHANGED stageVars

\* The runtime drives the stage, its timers and its threads, and the server is
\* started again.  A viewer that stays connected keeps reading: the writer waits
\* for its socket without a timeout.  Nothing is assumed of agents, commands or
\* users.
Spec ==
    /\ Init /\ [][Next]_vars
    /\ WF_vars(StageStep) /\ WF_vars(DeadlineFires) /\ WF_vars(ShellDeadline)
    /\ \A r \in Run : WF_vars(DrainEvent(r))
    /\ WF_vars(SendAck /\ UNCHANGED stageVars)
    /\ WF_vars(Receive /\ UNCHANGED stageVars)
    /\ SF_vars(Forward /\ UNCHANGED stageVars)
    /\ WF_vars(WriterSends /\ UNCHANGED stageVars)

-----------------------------------------------------------------------------
\* Every stage is closed in the end, whatever its agent or command does: a hung
\* one by its deadline, one that ignores the cancel by the end of the grace
\* period, one that is lost in a crash by the next boot.  Three things are not
\* reached: a row whose close failed, one that a boot's failed sweep leaves
\* behind, and a command that closes its output and runs on, which nothing times
\* out.
RowsClose ==
    \A r \in Run : rows[r].status = "running" ~>
        rows[r].status # "running" \/ r \in lost \/ (run = r /\ pc = "wait")

\* A closed row keeps its status: no late flush, no second close and no boot
\* writes another over it.
ClosedForGood ==
    [][\A r \in Run : rows[r].status \notin {"none", "running"} =>
                         rows'[r].status = rows[r].status]_vars

\* A stage that is recorded as ok is one whose process has exited well by itself
\* and was drained to its end: not one that was cut off by its deadline, nor one
\* that somebody had cancelled before it exited.
OkIsFinished ==
    \A r \in Run : rows[r].status = "ok" =>
        proc[r] = "ok" /\ drain[r] # "on"
=============================================================================
