------------------------------- MODULE Lease -------------------------------
(***************************************************************************)
(* The lease protocol of the executor pool, on its own: what worker.rs     *)
(* promises about who may walk an epic or a standalone task.               *)
(*                                                                         *)
(* An item (a row of `epic`, or of `task` with no epic) is runnable while  *)
(* its status is InProgress.  A worker claims a runnable row whose lease   *)
(* is free or past its expiry, walks it, renews the lease by a fenced      *)
(* heartbeat, and releases it by a fenced write when the walk ends.  The   *)
(* expiry time is abstracted to one bit: `live` holds the items whose      *)
(* lease_expires_at has not passed.  Executor.tla implements this module.  *)
(***************************************************************************)

CONSTANTS
    Worker,      \* the worker loops of spawn_pool
    Item,        \* the claimable rows: epics and standalone tasks
    NoWorker,    \* lease_owner IS NULL
    NoItem       \* the worker is between two claims

ASSUME LeaseAssumption ==
    /\ NoWorker \notin Worker
    /\ NoItem \notin Item

VARIABLES
    runnable,    \* the items whose status is InProgress
    owner,       \* lease_owner of each row
    live,        \* the items whose lease_expires_at has not passed
    walking,     \* the item each worker is walking
    lost         \* LeaseHandle.is_lost() of each worker's current walk

vars == <<runnable, owner, live, walking, lost>>

TypeOK ==
    /\ runnable \in SUBSET Item
    /\ owner \in [Item -> Worker \cup {NoWorker}]
    /\ live \in SUBSET Item
    /\ walking \in [Worker -> Item \cup {NoItem}]
    /\ lost \in [Worker -> BOOLEAN]

Init ==
    /\ runnable = {}
    /\ owner = [i \in Item |-> NoWorker]
    /\ live = {}
    /\ walking = [w \in Worker |-> NoItem]
    /\ lost = [w \in Worker |-> FALSE]

-----------------------------------------------------------------------------
(***************************************************************************)
(* The rows' statuses change under the pool's feet.                        *)
(***************************************************************************)

\* A handler sets the row InProgress and leaves its lease columns alone.
Requeue(i) ==
    /\ runnable' = runnable \cup {i}
    /\ UNCHANGED <<owner, live, walking, lost>>

\* A retry sets the row InProgress and clears its lease in the same statement.
RequeueFresh(i) ==
    /\ runnable' = runnable \cup {i}
    /\ owner' = [owner EXCEPT ![i] = NoWorker]
    /\ live' = live \ {i}
    /\ UNCHANGED <<walking, lost>>

\* The row leaves InProgress (finished, failed, blocked, cancelled).
Retire(i) ==
    /\ runnable' = runnable \ {i}
    /\ UNCHANGED <<owner, live, walking, lost>>

\* The enqueue's second statement clears the lease whoever holds it.
Clear(i) ==
    /\ owner' = [owner EXCEPT ![i] = NoWorker]
    /\ live' = live \ {i}
    /\ UNCHANGED <<runnable, walking, lost>>

-----------------------------------------------------------------------------
(***************************************************************************)
(* The pool's own steps.                                                   *)
(***************************************************************************)

\* Mutant: the claim looks at the status and not at the lease.
ClaimableByStatus(i) == i \in runnable

\* The WHERE clause of claim_row.
Claimable(i) ==
    /\ i \in runnable
    /\ owner[i] = NoWorker \/ i \notin live

Claim(w, i) ==
    /\ walking[w] = NoItem
    /\ Claimable(i)
    /\ owner' = [owner EXCEPT ![i] = w]
    /\ live' = live \cup {i}
    /\ walking' = [walking EXCEPT ![w] = i]
    /\ lost' = [lost EXCEPT ![w] = FALSE]
    /\ UNCHANGED runnable

\* Mutant: the renewal also writes lease_owner, without the fence.
RenewUnfenced(w) ==
    /\ walking[w] # NoItem
    /\ owner' = [owner EXCEPT ![walking[w]] = w]
    /\ live' = live \cup {walking[w]}
    /\ UNCHANGED <<runnable, walking, lost>>

\* The heartbeat's fenced UPDATE matches the row.
Renew(w) ==
    /\ walking[w] # NoItem
    /\ owner[walking[w]] = w
    /\ live' = live \cup {walking[w]}
    /\ UNCHANGED <<runnable, owner, walking, lost>>

\* Mutant: any failed renewal, a busy database too, marks the lease lost.
FenceOutOnError(w) ==
    /\ walking[w] # NoItem
    /\ lost' = [lost EXCEPT ![w] = TRUE]
    /\ UNCHANGED <<runnable, owner, live, walking>>

\* The heartbeat's fenced UPDATE matched no row: mark_lost.
FenceOut(w) ==
    /\ walking[w] # NoItem
    /\ owner[walking[w]] # w
    /\ lost' = [lost EXCEPT ![w] = TRUE]
    /\ UNCHANGED <<runnable, owner, live, walking>>

\* The walk ends, however it ends; the release is fenced like the renewal.
Release(w) ==
    /\ walking[w] # NoItem
    /\ LET i == walking[w]
           mine == owner[i] = w
       IN /\ owner' = IF mine THEN [owner EXCEPT ![i] = NoWorker] ELSE owner
          /\ live' = IF mine THEN live \ {i} ELSE live
    /\ walking' = [walking EXCEPT ![w] = NoItem]
    /\ lost' = [lost EXCEPT ![w] = FALSE]
    /\ UNCHANGED runnable

\* lease_expires_at passes before the next renewal.
Lapse(i) ==
    /\ i \in live
    /\ live' = live \ {i}
    /\ UNCHANGED <<runnable, owner, walking, lost>>

\* Mutant: the boot sequence skips clear_all_leases.
RebootWithoutClear ==
    /\ walking' = [w \in Worker |-> NoItem]
    /\ lost' = [w \in Worker |-> FALSE]
    /\ UNCHANGED <<runnable, owner, live>>

\* The process dies and boots again: clear_all_leases, then a fresh pool.
Reboot ==
    /\ owner' = [i \in Item |-> NoWorker]
    /\ live' = {}
    /\ walking' = [w \in Worker |-> NoItem]
    /\ lost' = [w \in Worker |-> FALSE]
    /\ UNCHANGED runnable

Next ==
    \/ \E i \in Item : Requeue(i) \/ RequeueFresh(i) \/ Retire(i) \/ Clear(i)
                       \/ Lapse(i)
    \/ \E w \in Worker : \/ \E i \in Item : Claim(w, i)
                         \/ Renew(w) \/ FenceOut(w) \/ Release(w)
    \/ Reboot

Spec == Init /\ [][Next]_vars

-----------------------------------------------------------------------------
(***************************************************************************)
(* What the protocol guarantees.                                           *)
(***************************************************************************)

Walks(w, i) == walking[w] = i

\* A row's lease_owner names a worker that is walking that very row: no exit
\* path of run_claimed_epic / run_claimed_standalone, no restart and no theft
\* leaves a lease behind that nobody renews and nobody will release.
OwnerWalks ==
    \A i \in Item : \A w \in Worker : owner[i] = w => Walks(w, i)

\* mark_lost is never a false alarm: a walk that abandons its item because its
\* handle reads lost really no longer owns the row.
LostIsFenced ==
    \A w \in Worker : lost[w] => walking[w] # NoItem /\ owner[walking[w]] # w

\* Once another claim or a clear has taken the row from a walk, that walk never
\* owns it again: the heartbeat cannot renew a stolen lease back to life.
FencedForGood ==
    [][\A w \in Worker :
         (/\ walking[w] # NoItem
          /\ owner[walking[w]] # w
          /\ walking'[w] = walking[w])
         => owner'[walking[w]] # w]_vars

\* At most one worker walks an item at a time.
MutualExclusion ==
    \A i \in Item : \A v, w \in Worker : Walks(v, i) /\ Walks(w, i) => v = w

=============================================================================
