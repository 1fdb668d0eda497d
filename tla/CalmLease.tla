----------------------------- MODULE CalmLease -----------------------------
(***************************************************************************)
(* Lease with the history of whether the run has been calm so far: no      *)
(* lease has lapsed, and none was cleared under a walk.  These are the two *)
(* things the code relies on and does not enforce (a TTL well above the    *)
(* heartbeat period; an enqueue or retry of an item nobody walks); under   *)
(* them the single UPDATE of claim_row really is a mutex.                  *)
(***************************************************************************)
EXTENDS Lease

VARIABLE history   \* "calm" until a step disturbs the run

Unwalked(i) == \A w \in Worker : walking[w] # i

Calm ==
    \A i \in Item :
        /\ i \in live /\ i \notin live' => owner'[i] = NoWorker
        /\ owner[i] # NoWorker /\ owner'[i] = NoWorker => Unwalked(i)'

CalmInit == Init /\ history = "calm"

CalmNext ==
    /\ Next
    /\ history' = IF Calm THEN history ELSE "disturbed"

CalmSpec == CalmInit /\ [][CalmNext]_<<vars, history>>

\* Until a lease lapses or is cleared under a walk, at most one worker walks an
\* item at a time.
MutexWhileCalm == history = "calm" => MutualExclusion

=============================================================================
