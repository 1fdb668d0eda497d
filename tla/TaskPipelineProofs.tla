------------------------- MODULE TaskPipelineProofs -------------------------
(***************************************************************************)
(* Proofs about TaskPipeline, for every number of retries, fix attempts,   *)
(* fix rounds and runs.                                                    *)
(***************************************************************************)
EXTENDS TaskPipeline, TLAPS

\* Every step of the walk and of its surroundings keeps the types.
LEMMA TypeStep == TypeOK /\ [Next]_vars => TypeOK'
<1> SUFFICES ASSUME TypeOK, [Next]_vars PROVE TypeOK'
  OBVIOUS
<1> USE PipelineAssumption DEF PipelineAssumption, TypeOK, PC, AgentStage
<1> USE DEF UnlessLost, Boundary, AgentEdits, walk, counters, work, branch
<1>1. CASE StartTask
  BY <1>1 DEF StartTask
<1>2. CASE ImplementOk
  BY <1>2 DEF ImplementOk
<1>3. CASE ImplementRetries
  BY <1>3 DEF ImplementRetries
<1>4. CASE ImplementFails
  BY <1>4 DEF ImplementFails
<1>5. CASE StageFails
  BY <1>5 DEF StageFails
<1>6. CASE StageCancelled
  BY <1>6 DEF StageCancelled
<1>7. CASE GateGreen
  BY <1>7 DEF GateGreen
<1>8. CASE GateRed
  BY <1>8 DEF GateRed
<1>9. CASE GateFixOk
  BY <1>9 DEF GateFixOk
<1>10. CASE BookkeepingFails
  BY <1>10 DEF BookkeepingFails
<1>11. CASE Commit
  <2>1. attempt' \in Nat /\ verdictTry' \in 0..VerdictTries
    BY <1>11 DEF Commit, CommitWork, CommitReviewFix, CommitVerifyFix,
           commit_if_dirty, AfterCommit, EnterVerdict
  <2>2. reviewed' \in {reviewed, reviewed \cup {attempt'}}
    BY <1>11 DEF Commit, CommitWork, CommitReviewFix, CommitVerifyFix,
           commit_if_dirty, AfterCommit, EnterVerdict
  <2>3. reviewed' \in SUBSET Nat
    BY <2>1, <2>2
  <2>4. pc' \in PC
    BY <1>11 DEF Commit, CommitWork, CommitReviewFix, CommitVerifyFix,
           commit_if_dirty, AfterCommit, EnterVerdict
  <2>5. head' \in Nat /\ tree' \in {"clean", "dirty"}
    BY <1>11 DEF Commit, CommitWork, CommitReviewFix, CommitVerifyFix,
           commit_if_dirty, AfterCommit
  <2> QED
    BY <1>11, <2>1, <2>3, <2>4, <2>5 DEF Commit, CommitWork, CommitReviewFix, CommitVerifyFix,
           commit_if_dirty, AfterCommit
<1>12. CASE VerdictMissing
  <2>1. attempt' \in Nat /\ verdictTry' \in 0..VerdictTries
    BY <1>12 DEF VerdictMissing
  <2>2. reviewed' \in {reviewed, reviewed \cup {attempt'}}
    BY <1>12 DEF VerdictMissing
  <2>3. reviewed' \in SUBSET Nat
    BY <2>1, <2>2
  <2>4. pc' \in PC
    BY <1>12 DEF VerdictMissing
  <2> QED
    BY <1>12, <2>1, <2>3, <2>4 DEF VerdictMissing
<1>13. CASE VerdictPass
  BY <1>13 DEF VerdictPass, ReviewPasses, VerifyPasses, Approve
<1>14. CASE VerdictBlocked
  BY <1>14 DEF VerdictBlocked, ReviewBlocks, VerifyBlocks, Refuse
<1>15. CASE ReviewNeedsChanges
  BY <1>15 DEF ReviewNeedsChanges
<1>16. CASE VerifyNeedsChanges
  BY <1>16 DEF VerifyNeedsChanges
<1>17. CASE VerdictFixOk
  <2>1. /\ pc' \in {"idle", "gate"}
        /\ caller' \in {"review", "verify"}
        /\ gate' = 0 /\ gate' \in 0..FixAttempts
    BY <1>17 DEF VerdictFixOk, ReviewFixOk, VerifyFixOk, BackToGate
  <2>2. tree' \in {"clean", "dirty"} /\ tests' \in {"green", "unknown"}
    BY <1>17 DEF VerdictFixOk, ReviewFixOk, VerifyFixOk, BackToGate
  <2>3. UNCHANGED <<status, container, lease, runs, tries, verdictTry, round,
                    attempt, reviewed, fixes, branch>>
    BY <1>17 DEF VerdictFixOk, ReviewFixOk, VerifyFixOk, BackToGate
  <2> QED
    BY <2>1, <2>2, <2>3
<1>18. CASE MarkDone
  BY <1>18 DEF MarkDone
<1>19. CASE FailItem
  BY <1>19 DEF FailItem
<1>20. CASE ContainerMoves
  BY <1>20 DEF ContainerMoves
<1>21. CASE LoseLease
  BY <1>21 DEF LoseLease
<1>22. CASE RetryTask
  BY <1>22 DEF RetryTask
<1>23. CASE UNCHANGED vars
  BY <1>23 DEF vars
<1> QED
  BY <1>1, <1>2, <1>3, <1>4, <1>5, <1>6, <1>7, <1>8, <1>9, <1>10, <1>11, <1>12, <1>13, <1>14, <1>15, <1>16, <1>17, <1>18, <1>19, <1>20, <1>21, <1>22, <1>23 DEF Next, Step

\* The retry, attempt and round counters of one run stay within the limits of
\* the configuration, for every configuration.
THEOREM PipelineTypes == Spec => []TypeOK
<1>1. Init => TypeOK
  BY PipelineAssumption DEF PipelineAssumption, Init, TypeOK, PC
<1> QED
  BY <1>1, TypeStep, PTL DEF Spec

-----------------------------------------------------------------------------
\* Why DoneIsVetted holds: what the last gate and the last verdict established
\* is still true at every point of the walk that relies on it.
Vetted ==
    /\ pc # "idle" => status = "InProgress"
    /\ pc = "commit" => tests = "green"
    /\ pc \in {"review", "verify", "done"} \/ status = "Done" =>
          tests = "green" /\ tree = "clean"
    /\ pc = "done" \/ status = "Done" => approved = head

\* Every step keeps what the gate and the verdict established.
LEMMA VettedStep == TypeOK /\ Vetted /\ [Next]_vars => Vetted'
<1> SUFFICES ASSUME TypeOK, Vetted, [Next]_vars PROVE Vetted'
  OBVIOUS
<1> USE DEF TypeOK, Vetted, PC, AgentStage, UnlessLost, Boundary, AgentEdits,
            walk, counters, work, branch
<1>1. CASE StartTask
  BY <1>1 DEF StartTask
<1>2. CASE ImplementOk
  BY <1>2 DEF ImplementOk
<1>3. CASE ImplementRetries
  BY <1>3 DEF ImplementRetries
<1>4. CASE ImplementFails
  BY <1>4 DEF ImplementFails
<1>5. CASE StageFails
  BY <1>5 DEF StageFails
<1>6. CASE StageCancelled
  BY <1>6 DEF StageCancelled
<1>7. CASE GateGreen
  BY <1>7 DEF GateGreen
<1>8. CASE GateRed
  BY <1>8 DEF GateRed
<1>9. CASE GateFixOk
  BY <1>9 DEF GateFixOk
<1>10. CASE BookkeepingFails
  BY <1>10 DEF BookkeepingFails
<1>11. CASE Commit
  BY <1>11 DEF Commit, CommitWork, CommitReviewFix, CommitVerifyFix,
           commit_if_dirty, AfterCommit, EnterVerdict
<1>12. CASE VerdictMissing
  BY <1>12 DEF VerdictMissing
<1>13. CASE VerdictPass
  BY <1>13 DEF VerdictPass, ReviewPasses, VerifyPasses, Approve
<1>14. CASE VerdictBlocked
  BY <1>14 DEF VerdictBlocked, ReviewBlocks, VerifyBlocks, Refuse
<1>15. CASE ReviewNeedsChanges
  BY <1>15 DEF ReviewNeedsChanges
<1>16. CASE VerifyNeedsChanges
  BY <1>16 DEF VerifyNeedsChanges
<1>17. CASE VerdictFixOk
  BY <1>17 DEF VerdictFixOk, ReviewFixOk, VerifyFixOk, BackToGate
<1>18. CASE MarkDone
  BY <1>18 DEF MarkDone
<1>19. CASE FailItem
  BY <1>19 DEF FailItem
<1>20. CASE ContainerMoves
  BY <1>20 DEF ContainerMoves
<1>21. CASE LoseLease
  BY <1>21 DEF LoseLease
<1>22. CASE RetryTask
  BY <1>22 DEF RetryTask
<1>23. CASE UNCHANGED vars
  BY <1>23 DEF vars
<1> QED
  BY <1>1, <1>2, <1>3, <1>4, <1>5, <1>6, <1>7, <1>8, <1>9, <1>10, <1>11,
     <1>12, <1>13, <1>14, <1>15, <1>16, <1>17, <1>18, <1>19, <1>20, <1>21, <1>22, <1>23
     DEF Next, Step

\* The strengthening is an invariant of the pipeline.
LEMMA VettedAlways == Spec => []Vetted
<1>1. Init => Vetted
  BY DEF Init, Vetted
<1> QED
  BY <1>1, VettedStep, PipelineTypes, PTL DEF Spec

\* A Done task is committed, green and approved, however many fixes, salvages,
\* retries, cancels and lost leases its runs went through.
THEOREM DoneVetted == Spec => []DoneIsVetted
<1>1. Vetted => DoneIsVetted
  BY DEF Vetted, DoneIsVetted
<1> QED
  BY <1>1, VettedAlways, PTL

\* Reviewers and verifiers are only asked about committed, green trees.
THEOREM VerdictsOnGreen == Spec => []VerdictOnGreen
<1>1. Vetted => VerdictOnGreen
  BY DEF Vetted, VerdictOnGreen
<1> QED
  BY <1>1, VettedAlways, PTL

\* Only the salvage of a failed implement stage commits what no gate has passed.
THEOREM CommitsGreen == Spec => CommitsAreGreen
<1>1. TypeOK /\ Vetted /\ [Next]_vars =>
        [head' > head => tests = "green" \/ pc' \in {"failing", "idle"}]_vars
  <2> SUFFICES ASSUME TypeOK, Vetted, Next, head' > head
               PROVE  tests = "green" \/ pc' \in {"failing", "idle"}
    OBVIOUS
  <2>1. CASE Commit
    BY <2>1 DEF Commit, CommitWork, CommitReviewFix, CommitVerifyFix,
           commit_if_dirty, AfterCommit, Vetted
  <2>2. CASE ImplementFails
    BY <2>2 DEF ImplementFails, UnlessLost
  <2>3. CASE ~Commit /\ ~ImplementFails
    <3>1. head' = head
      BY <2>3 DEF Next, Step, StartTask, ImplementOk, ImplementRetries,
         StageFails, StageCancelled, GateGreen, GateRed, GateFixOk,
         BookkeepingFails, VerdictMissing, VerdictPass, VerdictBlocked,
         ReviewNeedsChanges, VerifyNeedsChanges, VerdictFixOk, MarkDone, ReviewPasses, VerifyPasses, Approve,
         ReviewBlocks, VerifyBlocks, Refuse, ReviewFixOk, VerifyFixOk, BackToGate,
         FailItem, ContainerMoves, LoseLease, RetryTask, branch
    <3> QED
      BY <3>1 DEF TypeOK
  <2> QED
    BY <2>1, <2>2, <2>3
<1> QED
  BY <1>1, VettedAlways, PipelineTypes, PTL DEF Spec, CommitsAreGreen

-----------------------------------------------------------------------------
Gating == pc \in {"gate", "gateFix", "commit"}

\* Why ReviewRowsUnique holds: the review rows of the run so far are numbered
\* up to the current attempt, and below it once a fix has taken the next one.
RowsNumbered ==
    /\ \A n \in reviewed : n <= attempt
    /\ pc \in {"implement", "verify", "verifyFix"} => reviewed = {}
    /\ Gating /\ caller # "review" => reviewed = {}
    /\ pc = "reviewFix" \/ (Gating /\ caller = "review") =>
          attempt \notin reviewed

\* Every step keeps the numbering.
LEMMA RowsStep == TypeOK /\ RowsNumbered /\ [Next]_vars => RowsNumbered'
<1> SUFFICES ASSUME TypeOK, RowsNumbered, [Next]_vars PROVE RowsNumbered'
  OBVIOUS
<1> USE DEF TypeOK, RowsNumbered, Gating, PC, AgentStage, UnlessLost, Boundary,
            walk, counters
<1>1. CASE StartTask
  BY <1>1 DEF StartTask
<1>2. CASE ImplementOk
  BY <1>2 DEF ImplementOk
<1>3. CASE ImplementRetries
  BY <1>3 DEF ImplementRetries
<1>4. CASE ImplementFails
  BY <1>4 DEF ImplementFails
<1>5. CASE StageFails
  BY <1>5 DEF StageFails
<1>6. CASE StageCancelled
  BY <1>6 DEF StageCancelled
<1>7. CASE GateGreen
  BY <1>7 DEF GateGreen
<1>8. CASE GateRed
  BY <1>8 DEF GateRed
<1>9. CASE GateFixOk
  BY <1>9 DEF GateFixOk
<1>10. CASE BookkeepingFails
  BY <1>10 DEF BookkeepingFails
<1>11. CASE Commit
  <2>1. caller = "review" \/ reviewed = {}
    BY <1>11 DEF Commit, CommitWork, CommitReviewFix, CommitVerifyFix,
           commit_if_dirty, AfterCommit
  <2>2. pc' \in {"review", "verify", "failing", "idle"}
    BY <1>11 DEF Commit, CommitWork, CommitReviewFix, CommitVerifyFix,
           commit_if_dirty, AfterCommit, EnterVerdict
  <2>3. pc' = "verify" => reviewed' = reviewed /\ caller # "review"
    BY <1>11 DEF Commit, CommitWork, CommitReviewFix, CommitVerifyFix,
           commit_if_dirty, AfterCommit, EnterVerdict
  <2>4. /\ reviewed' \in {reviewed, reviewed \cup {attempt'}}
        /\ attempt' = attempt \/ reviewed = {}
    BY <1>11, <2>1 DEF Commit, CommitWork, CommitReviewFix, CommitVerifyFix,
           commit_if_dirty, AfterCommit, EnterVerdict
  <2>5. attempt' \in Nat
    BY TypeStep
  <2>6. \A n \in reviewed' : n <= attempt'
    BY <2>4, <2>5
  <2> QED
    BY <2>1, <2>2, <2>3, <2>6
<1>12. CASE VerdictMissing
  <2>1. attempt' \in {attempt, attempt + 1}
    BY <1>12 DEF VerdictMissing
  <2>2. reviewed' \in {reviewed, reviewed \cup {attempt'}}
    BY <1>12 DEF VerdictMissing
  <2>3. \A n \in reviewed' : n <= attempt'
    BY <2>1, <2>2
  <2>4. pc' \in {"review", "verify", "failing", "idle"}
    BY <1>12 DEF VerdictMissing
  <2>5. pc' = "verify" => reviewed' = reviewed /\ reviewed = {}
    BY <1>12 DEF VerdictMissing
  <2> QED
    BY <2>3, <2>4, <2>5
<1>13. CASE VerdictPass
  BY <1>13 DEF VerdictPass, ReviewPasses, VerifyPasses, Approve
<1>14. CASE VerdictBlocked
  BY <1>14 DEF VerdictBlocked, ReviewBlocks, VerifyBlocks, Refuse
<1>15. CASE ReviewNeedsChanges
  BY <1>15 DEF ReviewNeedsChanges
<1>16. CASE VerifyNeedsChanges
  BY <1>16 DEF VerifyNeedsChanges
<1>17. CASE VerdictFixOk
  BY <1>17 DEF VerdictFixOk, ReviewFixOk, VerifyFixOk, BackToGate
<1>18. CASE MarkDone
  BY <1>18 DEF MarkDone
<1>19. CASE FailItem
  BY <1>19 DEF FailItem
<1>20. CASE ContainerMoves
  BY <1>20 DEF ContainerMoves
<1>21. CASE LoseLease
  BY <1>21 DEF LoseLease
<1>22. CASE RetryTask
  BY <1>22 DEF RetryTask
<1>23. CASE UNCHANGED vars
  BY <1>23 DEF vars
<1> QED
  BY <1>1, <1>2, <1>3, <1>4, <1>5, <1>6, <1>7, <1>8, <1>9, <1>10, <1>11,
     <1>12, <1>13, <1>14, <1>15, <1>16, <1>17, <1>18, <1>19, <1>20, <1>21, <1>22, <1>23
     DEF Next, Step

\* Two review rows of one run never share an attempt, whatever verdicts go
\* missing in whichever rounds.
THEOREM RowsUnique == Spec => ReviewRowsUnique
<1>1. Init => RowsNumbered
  BY DEF Init, RowsNumbered, Gating
<1>2. TypeOK /\ RowsNumbered /\ [Next]_vars =>
        [pc' = "review" /\ (pc # "review" \/ attempt' # attempt) =>
            attempt' \notin reviewed]_vars
  <2> SUFFICES ASSUME TypeOK, RowsNumbered, Next, pc' = "review",
                      pc # "review" \/ attempt' # attempt
               PROVE  attempt' \notin reviewed
    OBVIOUS
  <2>1. CASE Commit
    BY <2>1 DEF Commit, CommitWork, CommitReviewFix, CommitVerifyFix,
           commit_if_dirty, AfterCommit, EnterVerdict, RowsNumbered, Gating, TypeOK
  <2>2. CASE VerdictMissing
    BY <2>2 DEF VerdictMissing, RowsNumbered, TypeOK, UnlessLost
  <2>3. CASE ~Commit /\ ~VerdictMissing
    <3>1. pc' # "review" \/ (pc = "review" /\ attempt' = attempt)
      BY <2>3 DEF Next, Step, StartTask, ImplementOk, ImplementRetries,
         ImplementFails, StageFails, StageCancelled, GateGreen, GateRed,
         GateFixOk, BookkeepingFails, VerdictPass, VerdictBlocked,
         ReviewNeedsChanges, VerifyNeedsChanges, VerdictFixOk, MarkDone, ReviewPasses, VerifyPasses, Approve,
         ReviewBlocks, VerifyBlocks, Refuse, ReviewFixOk, VerifyFixOk, BackToGate,
         FailItem, ContainerMoves, LoseLease, RetryTask, walk, counters,
         UnlessLost, Boundary
    <3> QED
      BY <3>1
  <2> QED
    BY <2>1, <2>2, <2>3
<1> QED
  BY <1>1, <1>2, RowsStep, PipelineTypes, PTL DEF Spec, ReviewRowsUnique
=============================================================================
