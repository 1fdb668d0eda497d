---------------------------- MODULE TaskPipeline ----------------------------
(***************************************************************************)
(* One task through process_one_task of worker.rs: implement, test gate    *)
(* with its fix loop, commit, review with its fix rounds or the            *)
(* verify-complete detour, Done; and the runs that follow a failure.       *)
(*                                                                         *)
(* The branch is abstracted to the number of commits the task has put on   *)
(* it, the tree to whether it differs from HEAD and whether the tests were *)
(* green since it last changed.  The epic row (or the task's own) is the   *)
(* container: it may leave InProgress under the walk at any moment.        *)
(* Assumed of the agents: only implement and fix stages change the tree    *)
(* (review and verify_complete run with the edit tools denied), and no     *)
(* agent commits by itself.                                                *)
(***************************************************************************)
EXTENDS Naturals

CONSTANTS
    ImplementTries,   \* 1 + implement_transient_retries
    FixAttempts,      \* max_test_fix_attempts
    VerdictTries,     \* 1 + verdict_retries
    FixRounds,        \* max_fix_rounds
    MaxRuns           \* bound: times the task is claimed and run

ASSUME PipelineAssumption ==
    /\ ImplementTries \in Nat \ {0}
    /\ FixAttempts \in Nat
    /\ VerdictTries \in Nat \ {0}
    /\ FixRounds \in Nat
    /\ MaxRuns \in Nat

VARIABLES
    pc,           \* where process_one_task is; "idle" between two runs
    status,       \* task.status
    container,    \* what container_still_in_progress would say
    lease,        \* what lease.is_lost() would say
    runs,         \* runs so far
    caller,       \* who called the test gate: implement, review, verify
    tries,        \* implement tries of this run
    gate,         \* attempt of run_test_gate_loop
    verdictTry,   \* try_index of run_verdict_stage
    round,        \* round of run_review_fix_converge
    attempt,      \* the agent_run.attempt of the current verdict stage
    reviewed,     \* the attempts of this run's review rows
    fixes,        \* fix stages started in this run
    head,         \* commits of the task on its branch
    base,         \* base_sha of the current run, as a commit number
    tree,         \* whether the tree differs from HEAD
    tests,        \* whether the tests passed on the tree as it is
    approved      \* the commit the last PASS verdict was given for

walk == <<pc, lease, runs>>
counters == <<caller, tries, gate, verdictTry, round, attempt, reviewed, fixes>>
work == <<tree, tests>>
branch == <<head, base, approved>>
vars == <<pc, status, container, lease, runs, counters, work, branch>>

PC == {"idle", "implement", "gate", "gateFix", "commit", "review", "verify",
       "reviewFix", "verifyFix", "done", "failing"}

AgentStage == {"implement", "gateFix", "review", "verify", "reviewFix",
               "verifyFix"}

TypeOK ==
    /\ pc \in PC
    /\ status \in {"Todo", "InProgress", "Done", "Failed"}
    /\ container \in {"InProgress", "elsewhere"}
    /\ lease \in {"held", "lost"}
    /\ runs \in 0..MaxRuns
    /\ caller \in {"implement", "review", "verify"}
    /\ tries \in 0..ImplementTries
    /\ gate \in 0..FixAttempts
    /\ verdictTry \in 0..VerdictTries
    /\ round \in 0..FixRounds
    /\ attempt \in Nat /\ reviewed \in SUBSET Nat /\ fixes \in Nat
    /\ head \in Nat /\ base \in Nat /\ approved \in Nat
    /\ tree \in {"clean", "dirty"}
    /\ tests \in {"green", "unknown"}

Init ==
    /\ pc = "idle" /\ status = "Todo" /\ container = "InProgress"
    /\ lease = "held"
    /\ runs = 0
    /\ caller = "implement" /\ tries = 0 /\ gate = 0 /\ verdictTry = 0
    /\ round = 0 /\ attempt = 0 /\ reviewed = {} /\ fixes = 0
    /\ head = 0 /\ base = 0 /\ approved = 0
    /\ tree = "clean" /\ tests = "unknown"

-----------------------------------------------------------------------------
UnlessLost(l) == IF lease = "lost" THEN "idle" ELSE l

Boundary(l) ==
    IF lease = "lost" \/ container # "InProgress" THEN "idle" ELSE l

\* What an agent that may edit leaves behind: the tree as it was, or another
\* one that nobody has tested, with or without a diff against HEAD.
AgentEdits ==
    \/ UNCHANGED work
    \/ tests' = "unknown" /\ tree' \in {"clean", "dirty"}

-----------------------------------------------------------------------------
(***************************************************************************)
(* A run starts: the claim resets an orphaned task, the workspace is       *)
(* re-attached (reset --hard, clean), base_sha is recorded.                *)
(***************************************************************************)
StartTask ==
    /\ pc = "idle" /\ container = "InProgress" /\ status \in {"Todo", "InProgress"}
    /\ runs < MaxRuns
    /\ runs' = runs + 1
    /\ pc' = "implement" /\ status' = "InProgress" /\ lease' = "held"
    /\ base' = head
    /\ tree' = "clean" /\ tests' = "unknown"
    /\ caller' = "implement" /\ tries' = 1 /\ gate' = 0 /\ verdictTry' = 0
    /\ round' = 0 /\ attempt' = 0 /\ reviewed' = {} /\ fixes' = 0
    /\ UNCHANGED <<container, head, approved>>

-----------------------------------------------------------------------------
(***************************************************************************)
(* Stage::Implement.                                                       *)
(***************************************************************************)
ImplementOk ==
    /\ pc = "implement"
    /\ AgentEdits
    /\ pc' = Boundary("gate")
    /\ caller' = "implement" /\ gate' = 0
    /\ UNCHANGED <<status, container, lease, runs, tries, verdictTry, round,
                   attempt, reviewed, fixes, branch>>

\* A transient provider error is retried at once.
ImplementRetries ==
    /\ pc = "implement"
    /\ tries < ImplementTries
    /\ tries' = tries + 1
    /\ AgentEdits
    /\ UNCHANGED <<walk, status, container, caller, gate, verdictTry, round,
                   attempt, reviewed, fixes, branch>>

\* An ordinary failure salvages what the agent wrote in a commit of its own.
ImplementFails ==
    /\ pc = "implement"
    /\ \E edited \in BOOLEAN :
         head' = IF edited /\ lease = "held" THEN head + 1 ELSE head
    /\ tree' = "clean" /\ tests' = "unknown"
    /\ pc' = UnlessLost("failing")
    /\ UNCHANGED <<status, container, lease, runs, counters, base, approved>>

\* Every other way a stage can fail: a timeout, an error, a spawn that failed.
StageFails ==
    /\ pc \in AgentStage
    /\ AgentEdits
    /\ pc' = UnlessLost("failing")
    /\ UNCHANGED <<status, container, lease, runs, counters, branch>>

\* The stage was killed: by a cancel of the epic, or by a heartbeat that was
\* fenced out of the item.
StageCancelled ==
    /\ pc \in AgentStage
    /\ AgentEdits
    /\ status' = IF lease = "lost" THEN status ELSE "Todo"
    /\ pc' = "idle"
    /\ UNCHANGED <<container, lease, runs, counters, branch>>

-----------------------------------------------------------------------------
(***************************************************************************)
(* run_test_gate_loop.                                                     *)
(***************************************************************************)

\* Green, or no test_cmd: back to the caller, which looks at the boundary
\* before it commits, except after the implement stage.
GateGreen ==
    /\ pc = "gate"
    /\ tests' = "green"
    /\ pc' = IF caller = "implement" THEN "commit" ELSE Boundary("commit")
    /\ UNCHANGED <<status, container, lease, runs, counters, tree, branch>>

\* Mutant: one attempt more than max_test_fix_attempts.
GateRedOffByOne ==
    /\ pc = "gate"
    /\ tests' = "unknown"
    /\ \/ /\ gate > FixAttempts
          /\ pc' = UnlessLost("failing")
          /\ UNCHANGED <<gate, fixes>>
       \/ /\ gate <= FixAttempts
          /\ pc' = Boundary("gateFix")
          /\ gate' = gate + 1
          /\ fixes' = IF pc' = "gateFix" THEN fixes + 1 ELSE fixes
    /\ UNCHANGED <<status, container, lease, runs, caller, tries, verdictTry,
                   round, attempt, reviewed, tree, branch>>

GateRed ==
    /\ pc = "gate"
    /\ tests' = "unknown"
    /\ \/ /\ gate = FixAttempts
          /\ pc' = UnlessLost("failing")
          /\ UNCHANGED <<gate, fixes>>
       \/ /\ gate < FixAttempts
          /\ pc' = Boundary("gateFix")
          /\ gate' = gate + 1
          /\ fixes' = IF pc' = "gateFix" THEN fixes + 1 ELSE fixes
    /\ UNCHANGED <<status, container, lease, runs, caller, tries, verdictTry,
                   round, attempt, reviewed, tree, branch>>

\* Mutant: a fix is trusted and the gate is not run again.
GateFixUntested ==
    /\ pc = "gateFix"
    /\ AgentEdits
    /\ pc' = Boundary("commit")
    /\ UNCHANGED <<status, container, lease, runs, counters, branch>>

GateFixOk ==
    /\ pc = "gateFix"
    /\ AgentEdits
    /\ pc' = Boundary("gate")
    /\ UNCHANGED <<status, container, lease, runs, counters, branch>>

-----------------------------------------------------------------------------
(***************************************************************************)
(* commit_if_dirty, and where its three callers go on.                     *)
(***************************************************************************)

\* run_verdict_stage is entered for stage l, its first row at attempt n.
EnterVerdict(l, n) ==
    /\ pc' = Boundary(l)
    /\ verdictTry' = 1
    /\ attempt' = n
    /\ reviewed' = IF pc' = "review" THEN reviewed \cup {n} ELSE reviewed

commit_if_dirty ==
    /\ head' = IF tree = "dirty" THEN head + 1 ELSE head
    /\ tree' = "clean"

AfterCommit ==
    UNCHANGED <<status, container, lease, runs, caller, tries, gate, round,
                fixes, tests, base, approved>>

\* The implement stage's work: no diff goes to the verify-complete detour.
CommitWork ==
    /\ pc = "commit" /\ caller = "implement"
    /\ commit_if_dirty
    /\ EnterVerdict(IF tree = "dirty" THEN "review" ELSE "verify", 0)
    /\ AfterCommit

\* A review round's fix, or nothing: the next review shares its attempt.
CommitReviewFix ==
    /\ pc = "commit" /\ caller = "review"
    /\ commit_if_dirty
    /\ EnterVerdict("review", attempt)
    /\ AfterCommit

\* The verifier's fix becomes the task's first commit; a no-op fix fails.
CommitVerifyFix ==
    /\ pc = "commit" /\ caller = "verify"
    /\ commit_if_dirty
    /\ \/ tree = "dirty" /\ EnterVerdict("review", 0)
       \/ /\ tree = "clean"
          /\ pc' = UnlessLost("failing")
          /\ UNCHANGED <<verdictTry, attempt, reviewed>>
    /\ AfterCommit

Commit == CommitWork \/ CommitReviewFix \/ CommitVerifyFix

\* The evidence row of the test run cannot be written, or git commit fails.
BookkeepingFails ==
    /\ pc \in {"gate", "commit"}
    /\ pc' = UnlessLost("failing")
    /\ UNCHANGED <<status, container, lease, runs, counters, work, branch>>

-----------------------------------------------------------------------------
(***************************************************************************)
(* run_verdict_stage, run_review_fix_converge, run_verify_complete.        *)
(***************************************************************************)

\* Mutant: the count of verdict tries starts over instead of giving up.
VerdictNeverGivesUp ==
    /\ pc \in {"review", "verify"}
    /\ verdictTry' = IF verdictTry = VerdictTries THEN 1 ELSE verdictTry + 1
    /\ pc' = Boundary(pc)
    /\ UNCHANGED <<status, container, lease, runs, caller, tries, gate, round,
                   attempt, reviewed, fixes, work, branch>>

\* No parseable verdict: once more, at the next attempt, while tries remain.
VerdictMissing ==
    /\ pc \in {"review", "verify"}
    /\ \/ /\ verdictTry = VerdictTries
          /\ pc' = UnlessLost("failing")
          /\ UNCHANGED <<verdictTry, attempt, reviewed>>
       \/ /\ verdictTry < VerdictTries
          /\ verdictTry' = verdictTry + 1
          /\ attempt' = attempt + 1
          /\ pc' = Boundary(pc)
          /\ reviewed' = IF pc' = "review" THEN reviewed \cup {attempt'}
                                           ELSE reviewed
    /\ UNCHANGED <<status, container, lease, runs, caller, tries, gate, round,
                   fixes, work, branch>>

Approve ==
    /\ approved' = head
    /\ pc' = UnlessLost("done")
    /\ UNCHANGED <<status, container, lease, runs, counters, work, head, base>>

Refuse ==
    /\ pc' = UnlessLost("failing")
    /\ UNCHANGED <<status, container, lease, runs, counters, work, branch>>

ReviewPasses == pc = "review" /\ Approve
ReviewBlocks == pc = "review" /\ Refuse

\* verify_complete closes a task that has no diff.
VerifyPasses == pc = "verify" /\ Approve
VerifyBlocks == pc = "verify" /\ Refuse

VerdictPass == ReviewPasses \/ VerifyPasses
VerdictBlocked == ReviewBlocks \/ VerifyBlocks

\* Mutant: the next review is numbered by its round, not by the last attempt.
ReviewNeedsChangesByRound ==
    /\ pc = "review"
    /\ round < FixRounds
    /\ round' = round + 1
    /\ pc' = Boundary("reviewFix")
    /\ attempt' = round + 1
    /\ fixes' = IF pc' = "reviewFix" THEN fixes + 1 ELSE fixes
    /\ UNCHANGED <<status, container, lease, runs, caller, tries, gate,
                   verdictTry, reviewed, work, branch>>

\* NEEDS_CHANGES of a review: one more fix round, while rounds remain.
ReviewNeedsChanges ==
    /\ pc = "review"
    /\ \/ /\ round = FixRounds
          /\ pc' = UnlessLost("failing")
          /\ UNCHANGED <<round, attempt, fixes>>
       \/ /\ round < FixRounds
          /\ round' = round + 1
          /\ pc' = Boundary("reviewFix")
          /\ attempt' = attempt + 1
          /\ fixes' = IF pc' = "reviewFix" THEN fixes + 1 ELSE fixes
    /\ UNCHANGED <<status, container, lease, runs, caller, tries, gate,
                   verdictTry, reviewed, work, branch>>

\* NEEDS_CHANGES of verify_complete: exactly one fix, then the normal pipeline.
VerifyNeedsChanges ==
    /\ pc = "verify"
    /\ pc' = Boundary("verifyFix")
    /\ attempt' = attempt + 1
    /\ fixes' = IF pc' = "verifyFix" THEN fixes + 1 ELSE fixes
    /\ UNCHANGED <<status, container, lease, runs, caller, tries, gate,
                   verdictTry, round, reviewed, work, branch>>

\* A fix is always tested before it is committed, by a gate with all its
\* attempts again.
BackToGate(who) ==
    /\ AgentEdits
    /\ pc' = Boundary("gate")
    /\ caller' = who
    /\ gate' = 0
    /\ UNCHANGED <<status, container, lease, runs, tries, verdictTry, round,
                   attempt, reviewed, fixes, branch>>

ReviewFixOk == pc = "reviewFix" /\ BackToGate("review")
VerifyFixOk == pc = "verifyFix" /\ BackToGate("verify")
VerdictFixOk == ReviewFixOk \/ VerifyFixOk

-----------------------------------------------------------------------------
MarkDone ==
    /\ pc = "done"
    /\ status' = "Done"
    /\ pc' = "idle"
    /\ UNCHANGED <<container, lease, runs, counters, work, branch>>

\* fail_item: the task is Failed, its container leaves InProgress.
FailItem ==
    /\ pc = "failing"
    /\ status' = "Failed"
    /\ container' = "elsewhere"
    /\ pc' = "idle"
    /\ UNCHANGED <<lease, runs, counters, work, branch>>

-----------------------------------------------------------------------------
(***************************************************************************)
(* What happens around the walk.                                           *)
(***************************************************************************)

\* A human cancels or blocks the epic, or brings it back to InProgress over
\* Blocked and Ready, whatever the walk is doing meanwhile.
ContainerMoves ==
    /\ container' = IF container = "InProgress" THEN "elsewhere" ELSE "InProgress"
    /\ UNCHANGED <<pc, status, lease, runs, counters, work, branch>>

\* The heartbeat finds the lease taken.
LoseLease ==
    /\ pc # "idle" /\ lease = "held"
    /\ lease' = "lost"
    /\ UNCHANGED <<pc, status, container, runs, counters, work, branch>>

\* POST /tasks/{id}/retry: the task can be claimed again with its container.
RetryTask ==
    /\ pc = "idle" /\ status = "Failed"
    /\ status' = "Todo"
    /\ container' \in {container, "InProgress"}
    /\ UNCHANGED <<pc, lease, runs, counters, work, branch>>

Step ==
    \/ ImplementOk \/ ImplementRetries \/ ImplementFails \/ StageFails
    \/ StageCancelled \/ GateGreen \/ GateRed \/ GateFixOk
    \/ BookkeepingFails \/ Commit
    \/ VerdictMissing \/ VerdictPass \/ VerdictBlocked
    \/ ReviewNeedsChanges \/ VerifyNeedsChanges \/ VerdictFixOk \/ MarkDone
    \/ FailItem

Next == StartTask \/ Step \/ ContainerMoves \/ LoseLease \/ RetryTask

Spec == Init /\ [][Next]_vars

\* Every await of a run ends: agent stages by agent_timeout_secs, test runs by
\* cmd_timeout_secs.  Nothing is assumed of which way they end.
FairSpec == Spec /\ WF_vars(Step)

-----------------------------------------------------------------------------
(***************************************************************************)
(* What the pipeline promises.                                             *)
(***************************************************************************)

\* A task is Done only with every change committed, the tests green on exactly
\* that tree, and a PASS given for exactly that commit: no fix, salvage or
\* retry slips in between the last gate, the last verdict and the Done write.
DoneIsVetted ==
    status = "Done" => tree = "clean" /\ tests = "green" /\ approved = head

\* A reviewer (or verify_complete) is only ever asked about a committed tree on
\* which the test gate was green.
VerdictOnGreen ==
    pc \in {"review", "verify"} => tests = "green" /\ tree = "clean"

\* Nothing that the gate has not seen green is committed, but for the salvage
\* of a failed implement stage, whose task then fails.
CommitsAreGreen ==
    [][head' > head => tests = "green" \/ pc' \in {"failing", "idle"}]_vars

\* No two review rows of one run share an attempt, although the retries of a
\* missing verdict and the fix rounds count in the same sequence.
ReviewRowsUnique ==
    [][pc' = "review" /\ (pc # "review" \/ attempt' # attempt) =>
          attempt' \notin reviewed]_vars

\* A run that has started ends, with whatever verdicts, failures and cancels.
RunEnds == pc # "idle" ~> pc = "idle"
=============================================================================
