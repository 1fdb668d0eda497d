---------------------------- MODULE PlanningMap ----------------------------
(***************************************************************************)
(* The planning map of one epic: the node, edge and prose handlers of      *)
(* map.rs, the resolution bundle of resolve.rs, and the comment thread of  *)
(* comments.rs that may be promoted to a node.                             *)
(*                                                                         *)
(* A request is a sequence of SQL statements, each a step; there is no     *)
(* transaction around them.  A request that is answered with an error or   *)
(* dropped keeps what it has written.                                      *)
(***************************************************************************)
EXTENDS Document

CONSTANTS
    Kind,         \* map_node.kind, with the task_mode of a task
    Fresh,        \* the nodes that do not exist at first
    Bundles,      \* what a resolution may carry
    Ops,          \* what is asked for: "create", "link", "patch", "prose",
                  \* "sync", "resolve", "post", "close", "promote", and the
                  \* requests of NodeRuns
    MaxRequests,  \* bound: requests in a behaviour
    MaxPosts      \* bound: comments of the thread

VARIABLES
    node,         \* map_node.state, "absent" before the row is inserted
    edges,        \* map_node_dependency: <<blocker, blocked>>
    fog,          \* "yes" while not_yet_specified is not empty
    scope,        \* the rulings whose line is in the out_of_scope prose
    assets,       \* the nodes with a node_asset
    session,      \* node_session.status, "none" before the row is inserted
    posts,        \* the rows of the comment thread
    call,         \* per caller: the request it is in the middle of
    requests,     \* requests so far
    decided       \* history: the nodes resolved with a document edit

mapRows == <<node, edges, fog, scope, assets, session, posts>>
mapVars == <<mapRows, call, requests, decided>>

State == {"open", "in_progress", "resolved", "out_of_scope"}
Settled == {"resolved", "out_of_scope"}
Reshaping == {"grilling", "prototype"}     \* MAP_RESHAPING_KINDS

\* What a request carries: a document edit or none, how many nodes it graduates
\* and rules out, the other nodes it updates, and the fog it leaves.
NoBundle == [doc |-> "no", grad |-> 0, out |-> 0, upd |-> {}, fog |-> "yes"]

ASSUME PlanningMapAssumption ==
    /\ Kind \in [Node -> {"grilling", "prototype", "research", "afk", "hitl"}]
    /\ Fresh \subseteq Node
    /\ Bundles \subseteq [doc : {"yes", "no"}, grad : Nat, out : Nat,
                          upd : SUBSET (Node \X State), fog : {"yes", "no"}]
    /\ MaxRequests \in Nat /\ MaxPosts \in Nat

NoCall == [pc |-> "idle", node |-> NoNode, links |-> {}, bundle |-> NoBundle,
           at |-> NoNode, seen |-> {}]

MapInit ==
    /\ node = [n \in Node |-> IF n \in Fresh THEN "absent" ELSE "open"]
    /\ edges = {} /\ fog = "yes" /\ scope = {} /\ assets = {}
    /\ session = [n \in Node |-> "none"]
    /\ posts = {}
    /\ call = [c \in Caller |-> NoCall]
    /\ requests = 0 /\ decided = {}

Rows == {n \in Node : node[n] # "absent"}

-----------------------------------------------------------------------------
Leads(from) ==
    LET step[i \in Nat] ==
            IF i = 0 THEN {from}
            ELSE step[i - 1] \cup {e[2] : e \in {d \in edges : d[1] \in step[i - 1]}}
    IN step[Cardinality(Node)]

would_create_cycle(blocker, blocked) == blocker \in Leads(blocked)

-----------------------------------------------------------------------------
At(c, here) == call[c].pc = here
Goes(c, there) == call' = [call EXCEPT ![c].pc = there]
Answered(c) == call' = [call EXCEPT ![c] = NoCall]

Request(c, op) ==
    /\ At(c, "idle") /\ op \in Ops /\ requests < MaxRequests
    /\ requests' = requests + 1

\* create_map_node: the row, and then its edges one by one.
CreateNode(c, n, links) ==
    /\ Request(c, "create")
    /\ n \in Fresh /\ node[n] = "absent"
    /\ \A l \in links : n \in {l[1], l[2]} /\ {l[1], l[2]} \subseteq Rows \cup {n}
    /\ node' = [node EXCEPT ![n] = "open"]
    /\ call' = [call EXCEPT ![c] = [NoCall EXCEPT !.pc = "link", !.node = n,
                                                  !.links = links]]
    /\ UNCHANGED <<docVars, edges, fog, scope, assets, session, posts, decided>>

LinkMapNodes(c, a, b) ==
    /\ Request(c, "link")
    /\ {a, b} \subseteq Rows
    /\ call' = [call EXCEPT ![c] = [NoCall EXCEPT !.pc = "link",
                                                  !.links = {<<a, b>>}]]
    /\ UNCHANGED <<docVars, mapRows, decided>>

\* What follows the last edge of a create, a link or a graduation.
AfterLinks(c) == IF call[c].bundle = NoBundle THEN "idle" ELSE "graduate"

\* link_nodes up to its INSERT; an edge that is refused ends the request.
LinkCheck(c, l) ==
    /\ At(c, "link") /\ l \in call[c].links
    /\ IF l[1] = l[2] \/ would_create_cycle(l[1], l[2])
       THEN Answered(c)
       ELSE call' = [call EXCEPT ![c].pc = "insert", ![c].links = @ \ {l},
                                 ![c].seen = {l}]
    /\ UNCHANGED <<docVars, mapRows, requests, decided>>

LinkInsert(c) ==
    /\ At(c, "insert")
    /\ edges' = edges \cup call[c].seen
    /\ call' = [call EXCEPT ![c].pc = "link", ![c].seen = {}]
    /\ UNCHANGED <<docVars, node, fog, scope, assets, session, posts, requests,
                   decided>>

LinksDone(c) ==
    /\ At(c, "link") /\ call[c].links = {}
    /\ IF AfterLinks(c) = "idle" THEN Answered(c) ELSE Goes(c, "graduate")
    /\ UNCHANGED <<docVars, mapRows, requests, decided>>

\* patch_map_node: any state over any other.
PatchNode(c, n, s) ==
    /\ Request(c, "patch")
    /\ n \in Rows /\ s \in State
    /\ node' = [node EXCEPT ![n] = s]
    /\ UNCHANGED <<docVars, edges, fog, scope, assets, session, posts, call,
                   decided>>

PatchProse(c, f) ==
    /\ Request(c, "prose")
    /\ fog' = f
    /\ UNCHANGED <<docVars, node, edges, scope, assets, session, posts, call,
                   decided>>

\* sync_document, for a node or for none; the edit is the caller's own.
SyncDocument(c, by) ==
    /\ Request(c, "sync")
    /\ by = NoNode \/ by \in Rows
    /\ BeginSync(c, <<c>>, by)
    /\ Goes(c, "sync")
    /\ UNCHANGED <<mapRows, decided>>

-----------------------------------------------------------------------------
(***************************************************************************)
(* resolve_node: everything is validated, then written in this order.      *)
(***************************************************************************)

ResolveNode(c, n, b) ==
    /\ Request(c, "resolve")
    /\ n \in Rows /\ Kind[n] \in Reshaping
    /\ \A u \in b.upd : u[1] \in Rows
    /\ call' = [call EXCEPT ![c] =
                   [NoCall EXCEPT !.pc = IF b.doc = "yes" THEN "sync" ELSE "settle",
                                  !.node = n, !.bundle = b]]
    /\ IF b.doc = "yes" THEN BeginSync(c, n, n) ELSE UNCHANGED docVars
    /\ UNCHANGED <<mapRows, decided>>

SyncAnswered(c) ==
    /\ At(c, "sync") /\ sync[c].pc \in {"done", "stale", "failed"}
    /\ IF sync[c].pc = "done" /\ call[c].bundle # NoBundle
       THEN Goes(c, "settle") ELSE Answered(c)
    /\ AbandonSync(c)
    /\ UNCHANGED <<mapRows, requests, decided>>

Settle(c) ==
    LET n == call[c].node IN
    /\ At(c, "settle")
    /\ node' = [node EXCEPT ![n] = "resolved"]
    /\ decided' = IF call[c].bundle.doc = "yes" THEN decided \cup {n} ELSE decided
    /\ Goes(c, "complete")
    /\ UNCHANGED <<docVars, edges, fog, scope, assets, session, posts, requests>>

\* mark_session_complete; a prototype ships its artifact.
CompleteSession(c) ==
    LET n == call[c].node IN
    /\ At(c, "complete")
    /\ session' = [session EXCEPT ![n] = IF @ = "none" THEN @ ELSE "complete"]
    /\ Goes(c, IF Kind[n] = "prototype" THEN "asset" ELSE "graduate")
    /\ UNCHANGED <<docVars, node, edges, fog, scope, assets, posts, requests,
                   decided>>

StoreAsset(c) ==
    /\ At(c, "asset")
    /\ assets' = assets \cup {call[c].node}
    /\ Goes(c, "graduate")
    /\ UNCHANGED <<docVars, node, edges, fog, scope, session, posts, requests,
                   decided>>

Graduate(c, g) ==
    /\ At(c, "graduate") /\ call[c].bundle.grad > 0 /\ node[g] = "absent"
    /\ node' = [node EXCEPT ![g] = "open"]
    /\ call' = [call EXCEPT ![c].pc = "link", ![c].bundle.grad = @ - 1,
                            ![c].links = {<<call[c].node, g>>}]
    /\ UNCHANGED <<docVars, edges, fog, scope, assets, session, posts, requests,
                   decided>>

\* A ruling is created open, closed, and its reason appended to the prose:
\* the prose is read, and then written with the line added.
RuleOut(c, o) ==
    /\ At(c, "graduate") /\ call[c].bundle.grad = 0 /\ call[c].bundle.out > 0
    /\ node[o] = "absent"
    /\ node' = [node EXCEPT ![o] = "open"]
    /\ call' = [call EXCEPT ![c].pc = "close", ![c].at = o,
                            ![c].bundle.out = @ - 1]
    /\ UNCHANGED <<docVars, edges, fog, scope, assets, session, posts, requests,
                   decided>>

CloseRuling(c) ==
    /\ At(c, "close")
    /\ node' = [node EXCEPT ![call[c].at] = "out_of_scope"]
    /\ Goes(c, "readScope")
    /\ UNCHANGED <<docVars, edges, fog, scope, assets, session, posts, requests,
                   decided>>

ReadScope(c) ==
    /\ At(c, "readScope")
    /\ call' = [call EXCEPT ![c].pc = "writeScope", ![c].seen = scope]
    /\ UNCHANGED <<docVars, mapRows, requests, decided>>

WriteScope(c) ==
    /\ At(c, "writeScope")
    /\ scope' = call[c].seen \cup {call[c].at}
    /\ call' = [call EXCEPT ![c].pc = "graduate", ![c].seen = {}]
    /\ UNCHANGED <<docVars, node, edges, fog, assets, session, posts, requests,
                   decided>>

Made(c) == At(c, "graduate") /\ call[c].bundle.grad = 0 /\ call[c].bundle.out = 0

UpdateNode(c, u) ==
    /\ Made(c) /\ u \in call[c].bundle.upd
    /\ node' = [node EXCEPT ![u[1]] = u[2]]
    /\ call' = [call EXCEPT ![c].bundle.upd = @ \ {u}]
    /\ UNCHANGED <<docVars, edges, fog, scope, assets, session, posts, requests,
                   decided>>

\* The bundle's "fog" is what it leaves: its own trimming comes last.
TrimFog(c) ==
    /\ Made(c) /\ call[c].bundle.upd = {}
    /\ fog' = IF call[c].bundle.fog = "no" THEN "no" ELSE fog
    /\ Answered(c)
    /\ UNCHANGED <<docVars, node, edges, scope, assets, session, posts, requests,
                   decided>>

-----------------------------------------------------------------------------
(***************************************************************************)
(* The comment thread.  Its flags are columns of every row of it.          *)
(***************************************************************************)

PostComment(c) ==
    /\ Request(c, "post") /\ Cardinality(posts) < MaxPosts
    /\ posts' = posts \cup {[id |-> Cardinality(posts) + 1, closed |-> "no",
                             to |-> NoNode]}
    /\ UNCHANGED <<docVars, node, edges, fog, scope, assets, session, call, decided>>

ResolveThread(c) ==
    /\ Request(c, "close") /\ posts # {}
    /\ posts' = {[p EXCEPT !.closed = "yes"] : p \in posts}
    /\ UNCHANGED <<docVars, node, edges, fog, scope, assets, session, call, decided>>

PromoteThread(c) ==
    /\ Request(c, "promote") /\ posts # {}
    /\ \A p \in posts : p.to = NoNode
    /\ Goes(c, "promote")
    /\ UNCHANGED <<docVars, mapRows, decided>>

PromoteCreate(c, n) ==
    /\ At(c, "promote")
    /\ node[n] = "absent" /\ Kind[n] \in Reshaping \cup {"research"}
    /\ node' = [node EXCEPT ![n] = "open"]
    /\ call' = [call EXCEPT ![c].pc = "stamp", ![c].node = n]
    /\ UNCHANGED <<docVars, edges, fog, scope, assets, session, posts, requests,
                   decided>>

StampThread(c) ==
    /\ At(c, "stamp")
    /\ posts' = {[p EXCEPT !.to = call[c].node] : p \in posts}
    /\ Answered(c)
    /\ UNCHANGED <<docVars, node, edges, fog, scope, assets, session, requests,
                   decided>>

-----------------------------------------------------------------------------
\* Bound: a node is created with at most one edge.
LinkSets == {{}} \cup {{l} : l \in Node \X Node}

NewMapRequest(c) ==
    \/ \E n \in Fresh, links \in LinkSets : CreateNode(c, n, links)
    \/ \E a, b \in Rows : LinkMapNodes(c, a, b)
    \/ \E n \in Rows : \/ \E s \in State : PatchNode(c, n, s)
                       \/ \E b \in Bundles : ResolveNode(c, n, b)
    \/ \E f \in {"yes", "no"} : PatchProse(c, f)
    \/ \E by \in Rows \cup {NoNode} : SyncDocument(c, by)
    \/ PostComment(c) \/ ResolveThread(c) \/ PromoteThread(c)

MapStep(c) ==
    \/ SyncStep(c) /\ UNCHANGED mapVars
    \/ SyncAnswered(c) \/ Settle(c) \/ CompleteSession(c) \/ StoreAsset(c)
    \/ \E g \in Fresh : Graduate(c, g) \/ RuleOut(c, g) \/ PromoteCreate(c, g)
    \/ CloseRuling(c) \/ ReadScope(c) \/ WriteScope(c)
    \/ \E u \in call[c].bundle.upd : UpdateNode(c, u)
    \/ TrimFog(c)
    \/ \E l \in call[c].links : LinkCheck(c, l)
    \/ LinkInsert(c) \/ LinksDone(c)
    \/ StampThread(c)

-----------------------------------------------------------------------------
\* A decision that was recorded with an edit of the document is in the
\* document: the edit was accepted before the node was resolved, and no later
\* sync of anybody has written over it.
DecisionInDocument == decided \subseteq doc.text
=============================================================================
