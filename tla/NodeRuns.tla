------------------------------ MODULE NodeRuns ------------------------------
(***************************************************************************)
(* The agents that work the map: the interactive sessions of               *)
(* node_engine.rs and the one-shot runs of afk_engine.rs, under the        *)
(* per-node run lock of lib.rs, with the capability tokens by which an     *)
(* interactive agent calls the map's handlers through the CLI.             *)
(*                                                                         *)
(* A caller is a request of a signed-in user, or the agent of a node: an   *)
(* agent's calls are authorized by its token when they arrive.             *)
(***************************************************************************)
EXTENDS PlanningMap

CONSTANTS
    Handler,      \* requests of signed-in users that may be in progress at once
    Faults,       \* what may go wrong: "drop", "crash", "settings", "agent",
                  \* "panic", "expire"
    MaxFaults     \* bound: how many of them in a behaviour

\* A node's agent is a caller under the node's own name.
ASSUME NodeRunsAssumption ==
    /\ Caller = Handler \cup Node
    /\ Handler \cap Node = {}
    /\ MaxFaults \in Nat

VARIABLES
    inflight,     \* node_inflight: the nodes whose run lock is held
    run,          \* per node: where its run is, "none" without one
    token,        \* CapabilityStore: the nodes whose run has a live token
    resume,       \* the nodes whose session has a harness_session_id
    talk,         \* node_message: the roles, in the order of seq
    evidence,     \* agent_run: the outcomes recorded per node
    faults        \* how many faults so far

runVars == <<inflight, run, token, resume, talk, evidence, faults>>
vars == <<docVars, mapVars, runVars>>

Interactive(n) == Kind[n] \in {"grilling", "prototype"}
Unattended(n) == Kind[n] \in {"research", "afk"}

Init ==
    /\ DocumentInit /\ MapInit
    /\ inflight = {} /\ run = [n \in Node |-> "none"] /\ token = {}
    /\ resume = {} /\ talk = [n \in Node |-> <<>>] /\ evidence = [n \in Node |-> {}]
    /\ faults = 0

Fails(what) == what \in Faults /\ faults < MaxFaults /\ faults' = faults + 1

RunGoes(n, there) == run' = [run EXCEPT ![n] = there]
RunAt(n, here) == run[n] = here

-----------------------------------------------------------------------------
(***************************************************************************)
(* The requests of a session and of an unattended run.                     *)
(***************************************************************************)

\* open_node_session: the session, and for a node read as open the soft signal.
OpenSession(h, n) ==
    /\ Request(h, "open") /\ n \in Rows /\ Interactive(n)
    /\ session' = [session EXCEPT ![n] = IF @ = "none" THEN "active" ELSE @]
    /\ call' = IF node[n] = "open"
               THEN [call EXCEPT ![h] = [NoCall EXCEPT !.pc = "flip", !.node = n]]
               ELSE call
    /\ UNCHANGED <<docVars, node, edges, fog, scope, assets, posts, decided, runVars>>

\* Mutant: the update trusts the state that was read.
FlipTrusting(h) ==
    LET n == call[h].node IN
    /\ At(h, "flip")
    /\ node' = [node EXCEPT ![n] = "in_progress"]
    /\ Answered(h)
    /\ UNCHANGED <<docVars, edges, fog, scope, assets, session, posts, requests,
                   decided, runVars>>

Flip(h) ==
    LET n == call[h].node IN
    /\ At(h, "flip")
    /\ node' = [node EXCEPT ![n] = IF @ = "open" THEN "in_progress" ELSE @]
    /\ Answered(h)
    /\ UNCHANGED <<docVars, edges, fog, scope, assets, session, posts, requests,
                   decided, runVars>>

\* post_node_message: the turn is stored whatever happens, ...
PostMessage(h, n) ==
    /\ Request(h, "message") /\ n \in Rows /\ Interactive(n)
    /\ session' = [session EXCEPT ![n] = IF @ = "none" THEN "active" ELSE @]
    /\ talk' = [talk EXCEPT ![n] = Append(@, "user")]
    /\ call' = [call EXCEPT ![h] = [NoCall EXCEPT !.pc = "reply", !.node = n]]
    /\ UNCHANGED <<docVars, node, edges, fog, scope, assets, posts, decided,
                   inflight, run, token, resume, evidence, faults>>

\* ... and answered if no reply of that node is on its way.
StartReply(h) ==
    LET n == call[h].node IN
    /\ At(h, "reply")
    /\ IF n \in inflight THEN UNCHANGED <<inflight, run>>
       ELSE inflight' = inflight \cup {n} /\ RunGoes(n, "start")
    /\ Answered(h)
    /\ UNCHANGED <<docVars, mapRows, requests, decided, token, resume, talk,
                   evidence, faults>>

\* fire_node: the state is read, and then the lock taken.
FireNode(h, n) ==
    /\ Request(h, "fire") /\ n \in Rows /\ Unattended(n)
    /\ node[n] \notin Settled
    /\ call' = [call EXCEPT ![h] = [NoCall EXCEPT !.pc = "fire", !.node = n,
                                      !.seen = {node[n]}]]
    /\ UNCHANGED <<docVars, mapRows, decided, runVars>>

FireLocks(h) ==
    LET n == call[h].node IN
    /\ At(h, "fire")
    /\ IF n \in inflight
       THEN Answered(h) /\ UNCHANGED <<inflight, run>>
       ELSE /\ inflight' = inflight \cup {n}
            /\ IF call[h].seen = {"open"}
               THEN Goes(h, "fireFlip") /\ UNCHANGED run
               ELSE Answered(h) /\ RunGoes(n, "start")
    /\ UNCHANGED <<docVars, mapRows, requests, decided, token, resume, talk,
                   evidence, faults>>

FireFlip(h) ==
    LET n == call[h].node IN
    /\ At(h, "fireFlip")
    /\ node' = [node EXCEPT ![n] = IF @ = "open" THEN "in_progress" ELSE @]
    /\ RunGoes(n, "start")
    /\ Answered(h)
    /\ UNCHANGED <<docVars, edges, fog, scope, assets, session, posts, requests,
                   decided, inflight, token, resume, talk, evidence, faults>>

-----------------------------------------------------------------------------
(***************************************************************************)
(* A run: spawn_node_reply and spawn_afk_run.                              *)
(***************************************************************************)

onlyRuns == <<docVars, mapVars>>

\* Settings that do not resolve end it before it began.
StartRun(n) ==
    /\ RunAt(n, "start")
    /\ RunGoes(n, "running")
    /\ token' = IF Interactive(n) THEN token \cup {n} ELSE token
    /\ UNCHANGED <<onlyRuns, inflight, resume, talk, evidence, faults>>

SettingsFail(n) ==
    /\ RunAt(n, "start") /\ Fails("settings")
    /\ RunGoes(n, "ended")
    /\ UNCHANGED <<onlyRuns, inflight, token, resume, talk, evidence>>

\* The interactive agent exits, having said something or not.
ReplyEnds(n, said) ==
    /\ RunAt(n, "running") /\ Interactive(n)
    /\ RunGoes(n, IF said THEN "recordResume" ELSE "ended")
    /\ UNCHANGED <<onlyRuns, inflight, token, resume, talk, evidence, faults>>

RecordResume(n) ==
    /\ RunAt(n, "recordResume")
    /\ resume' = resume \cup {n}
    /\ RunGoes(n, "appendReply")
    /\ UNCHANGED <<onlyRuns, inflight, token, talk, evidence, faults>>

AppendReply(n) ==
    /\ RunAt(n, "appendReply")
    /\ talk' = [talk EXCEPT ![n] = Append(@, "agent")]
    /\ RunGoes(n, "ended")
    /\ UNCHANGED <<onlyRuns, inflight, token, resume, evidence, faults>>

\* The unattended agent exits: with a report, or with a failure.
AfkEnds(n) ==
    /\ RunAt(n, "running") /\ Unattended(n)
    /\ RunGoes(n, "ok")
    /\ UNCHANGED <<onlyRuns, inflight, token, resume, talk, evidence, faults>>

AfkFails(n) ==
    /\ RunAt(n, "running") /\ Unattended(n) /\ Fails("agent")
    /\ RunGoes(n, "error")
    /\ UNCHANGED <<onlyRuns, inflight, token, resume, talk, evidence>>

RecordEvidence(n) ==
    /\ run[n] \in {"ok", "error"}
    /\ evidence' = [evidence EXCEPT ![n] = @ \cup {run[n]}]
    /\ RunGoes(n, IF RunAt(n, "ok") THEN "settle" ELSE "ended")
    /\ UNCHANGED <<onlyRuns, inflight, token, resume, talk, faults>>

AfkSettle(n) ==
    /\ RunAt(n, "settle")
    /\ node' = [node EXCEPT ![n] = IF @ \in {"open", "in_progress"}
                                   THEN "resolved" ELSE @]
    /\ RunGoes(n, "ended")
    /\ UNCHANGED <<docVars, edges, fog, scope, assets, session, posts, call,
                   requests, decided, inflight, token, resume, talk, evidence, faults>>

\* The thread that drains the events panics.
RunPanics(n) ==
    /\ RunAt(n, "running") /\ Fails("panic")
    /\ RunGoes(n, "ended")
    /\ UNCHANGED <<onlyRuns, inflight, token, resume, talk, evidence>>

\* The guards are dropped in the reverse of their order: token, then run lock.
RevokeToken(n) ==
    /\ RunAt(n, "ended")
    /\ token' = token \ {n}
    /\ RunGoes(n, "revoked")
    /\ UNCHANGED <<onlyRuns, inflight, resume, talk, evidence, faults>>

\* Mutant: the token's guard outlives the run's.
FreeNodeEarly(n) ==
    /\ run[n] \in {"ended", "revoked"}
    /\ inflight' = inflight \ {n}
    /\ RunGoes(n, "none")
    /\ UNCHANGED <<onlyRuns, token, resume, talk, evidence, faults>>

FreeNode(n) ==
    /\ RunAt(n, "revoked")
    /\ inflight' = inflight \ {n}
    /\ RunGoes(n, "none")
    /\ UNCHANGED <<onlyRuns, token, resume, talk, evidence, faults>>

\* A token that is out of date resolves to nothing and is removed.
ExpireToken(n) ==
    /\ n \in token /\ Fails("expire")
    /\ token' = token \ {n}
    /\ UNCHANGED <<onlyRuns, inflight, run, resume, talk, evidence>>

-----------------------------------------------------------------------------
(***************************************************************************)
(* Requests, as they are authorized, and what may happen to them.          *)
(***************************************************************************)

\* authorize_cap_request: the token resolves when the request arrives.
AgentRequest(n) ==
    /\ RunAt(n, "running") /\ n \in token
    /\ NewMapRequest(n)
    /\ UNCHANGED runVars

UserRequest(h) ==
    \/ NewMapRequest(h) /\ UNCHANGED runVars
    \/ \E n \in Rows : OpenSession(h, n) \/ PostMessage(h, n) \/ FireNode(h, n)

RequestStep(c) ==
    \/ MapStep(c) /\ UNCHANGED runVars
    \/ Flip(c) \/ StartReply(c) \/ FireLocks(c) \/ FireFlip(c)

\* The client of a request goes away: the handler is dropped where it is, with
\* the guards it holds.
Drop(c) ==
    /\ ~At(c, "idle") /\ Fails("drop")
    /\ Answered(c)
    /\ AbandonSync(c)
    /\ inflight' = IF At(c, "fireFlip") THEN inflight \ {call[c].node} ELSE inflight
    /\ UNCHANGED <<mapRows, requests, decided, run, token, resume, talk, evidence>>

\* Locks, tokens, requests and runs live in memory.
Crash ==
    /\ Fails("crash")
    /\ LoseDocumentMemory
    /\ call' = [c \in Caller |-> NoCall]
    /\ inflight' = {} /\ run' = [n \in Node |-> "none"] /\ token' = {}
    /\ UNCHANGED <<mapRows, requests, decided, resume, talk, evidence>>

RunStep(n) ==
    \/ StartRun(n) \/ RecordResume(n) \/ AppendReply(n) \/ RecordEvidence(n)
    \/ AfkSettle(n) \/ RevokeToken(n) \/ FreeNode(n)

AgentExits(n) == ReplyEnds(n, TRUE) \/ ReplyEnds(n, FALSE) \/ AfkEnds(n) \/ AfkFails(n)

Next ==
    \/ \E h \in Handler : UserRequest(h)
    \/ \E n \in Node : AgentRequest(n) \/ RunStep(n) \/ AgentExits(n)
                       \/ SettingsFail(n) \/ RunPanics(n) \/ ExpireToken(n)
    \/ \E c \in Caller : RequestStep(c) \/ Drop(c)
    \/ Crash

Spec == Init /\ [][Next]_vars

\* The runtime drives accepted requests and spawned runs; the lock serves the
\* syncs that wait for it in order.  Nothing is assumed of agents or users.
Fairness ==
    /\ \A c \in Caller : WF_vars(RequestStep(c)) /\ SF_vars(TakeLock(c) /\ UNCHANGED <<mapVars, runVars>>)
    /\ \A n \in Node : WF_vars(RunStep(n))

FairSpec == Spec /\ Fairness

-----------------------------------------------------------------------------
\* A settled node changes only by a request that says so: a patch of the map,
\* or a resolution that is about that node.  It never changes by an engine that
\* had read it open: not by the opening of a session, not by the firing of a
\* run, and not by the report of a run that the node did not wait for.
SettledStays ==
    [][\A n \in Node : node[n] \in Settled /\ node'[n] # node[n] =>
          \/ requests' # requests
          \/ \E c \in Caller :
                /\ call'[c] # call[c]
                /\ \/ At(c, "settle") /\ call[c].node = n
                   \/ At(c, "close") /\ call[c].at = n
                   \/ <<n, node'[n]>> \in call[c].bundle.upd]_vars

\* A token lives no longer than the run it was minted for, and a run no longer
\* than its node's lock: when the node can be worked again, nothing of the run
\* before can still be authorized.
TokensDieWithRuns ==
    /\ token \subseteq {n \in Node : run[n] # "none"}
    /\ \A n \in Node : run[n] # "none" => n \in inflight

=============================================================================
