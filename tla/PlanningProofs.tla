--------------------------- MODULE PlanningProofs ---------------------------
(***************************************************************************)
(* Proofs about NodeRuns with PlanningMap and Document, for any nodes,     *)
(* people, bundles and faults: recorded decisions are in the document, and *)
(* tokens die with their runs.                                             *)
(***************************************************************************)
EXTENDS NodeRuns, TLAPS

Edit == Node \cup {<<c>> : c \in Caller}
Remembered == (Node \X Node) \cup State \cup Node \cup {NoNode, "absent"}

BundleRec == [doc : {"yes", "no"}, grad : Nat, out : Nat,
              upd : SUBSET (Node \X State), fog : {"yes", "no"}]
CallPC == {"idle", "link", "insert", "graduate", "sync", "settle", "complete",
           "asset", "close", "readScope", "writeScope", "promote", "stamp",
           "flip", "reply", "fire", "fireFlip"}
SyncPC == {"none", "lock", "check", "version", "replace", "clear", "index",
           "stale", "failed", "done"}
RunPC == {"none", "start", "running", "recordResume", "appendReply", "ok",
          "error", "settle", "ended", "revoked"}

CallRec == [pc : CallPC, node : Node \cup {NoNode}, links : SUBSET (Node \X Node),
            bundle : BundleRec, at : Node \cup {NoNode}, seen : SUBSET Remembered]
SyncRec == [pc : SyncPC, base : Nat, text : SUBSET Edit,
            by : Node \cup {NoNode}, prior : Node \cup {NoNode}]

DocumentTypes ==
    /\ doc \in [version : Nat, text : SUBSET Edit]
    /\ sections \in [version : Nat, by : Node \cup {NoNode}]
    /\ sync \in [Caller -> SyncRec]

MapTypes ==
    /\ node \in [Node -> State \cup {"absent"}]
    /\ scope \subseteq Remembered
    /\ call \in [Caller -> CallRec]

RunTypes ==
    /\ inflight \subseteq Node
    /\ run \in [Node -> RunPC]
    /\ token \subseteq Node

\* A request that has just begun has nothing to resolve.
BlankBundle ==
    \A c \in Caller : call[c].pc \in {"idle", "promote"} => call[c].bundle.doc = "no"

Types == DocumentTypes /\ MapTypes /\ BlankBundle

\* Only the holder of the lock is past the check, ...
HolderWrites ==
    \A c \in Caller :
        sync[c].pc \in {"check", "version", "replace", "clear", "index"} => docLock = c

\* ... and what it has checked stays true until it has written.
CheckedStays ==
    \A c \in Caller : sync[c].pc \in {"version", "replace"} => sync[c].base = doc.version

\* A text that was pulled from the version that still stands contains it.
TextIsCurrent ==
    \A c \in Caller :
        sync[c].pc \in {"lock", "check", "version", "replace"} =>
            /\ sync[c].base <= doc.version
            /\ sync[c].base = doc.version => doc.text \subseteq sync[c].text

\* A resolution's edit is on its way in its sync, or it is in the document.
EditIsThere ==
    \A c \in Caller : call[c].bundle.doc = "yes" =>
        IF call[c].pc = "sync"
        THEN /\ sync[c].pc \in {"lock", "check", "version", "replace"} =>
                    call[c].node \in sync[c].text
             /\ sync[c].pc \in {"clear", "index", "done"} => call[c].node \in doc.text
        ELSE call[c].node \in doc.text

\* DecisionInDocument alone is not inductive: the text that replaces the
\* document was pulled before, and the lock and the version check together make
\* it contain all that has been decided since.
LockInv == HolderWrites /\ CheckedStays /\ TextIsCurrent
DocInv == Types /\ LockInv /\ EditIsThere /\ DecisionInDocument

\* Where a request is about a run, it is about a node.
RunCalls == {"reply", "fire", "fireFlip"}
RunCallsName == \A c \in Caller : call[c].pc \in RunCalls => call[c].node \in Node

\* A request that fires a node holds its lock before there is a run, alone.
FirerHoldsLock ==
    \A c \in Caller : At(c, "fireFlip") =>
        /\ call[c].node \in inflight
        /\ run[call[c].node] = "none"
        /\ \A d \in Caller : At(d, "fireFlip") /\ call[d].node = call[c].node => d = c

\* Between the two guards of a run the token is gone.
RevokedHasNone == \A n \in Node : run[n] = "revoked" => n \notin token

RunInv == RunTypes /\ RunCallsName /\ FirerHoldsLock /\ RevokedHasNone /\ TokensDieWithRuns

-----------------------------------------------------------------------------
LEMMA NullTypes == NoCall \in CallRec /\ NoSync \in SyncRec
  <1>1. NoBundle \in BundleRec
    BY DEF NoBundle, BundleRec
  <1>2. NoCall \in CallRec
    BY <1>1 DEF NoCall, CallRec, CallPC
  <1>3. NoSync \in SyncRec
    BY DEF NoSync, SyncRec, SyncPC
  <1> QED BY <1>2, <1>3

LEMMA CallGoes ==
  ASSUME call \in [Caller -> CallRec], NEW c \in Caller, NEW there \in CallPC,
         Goes(c, there)
  PROVE  /\ call' \in [Caller -> CallRec]
         /\ call'[c].pc = there
         /\ call'[c].node = call[c].node /\ call'[c].bundle = call[c].bundle
         /\ \A d \in Caller \ {c} : call'[d] = call[d]
  <1>1. [call[c] EXCEPT !.pc = there] \in CallRec
    BY DEF CallRec
  <1>2. call' = [call EXCEPT ![c] = [call[c] EXCEPT !.pc = there]]
    BY DEF Goes
  <1> QED BY <1>1, <1>2 DEF CallRec

\* The actions of a request that touch neither the document nor a decision.
MapWrites(c) ==
    \/ CompleteSession(c) \/ StoreAsset(c)
    \/ \E g \in Fresh : Graduate(c, g) \/ RuleOut(c, g) \/ PromoteCreate(c, g)
    \/ CloseRuling(c) \/ ReadScope(c) \/ WriteScope(c)
    \/ \E u \in call[c].bundle.upd : UpdateNode(c, u)
    \/ TrimFog(c)
    \/ \E l \in call[c].links : LinkCheck(c, l)
    \/ LinkInsert(c) \/ LinksDone(c)
    \/ StampThread(c)

\* What a step of one caller leaves alone, when it is not about the document.
Quiet(c) ==
    /\ UNCHANGED <<docVars, decided>>
    /\ \A d \in Caller \ {c} : call'[d] = call[d]
    /\ call'[c] = call[c] \/ call'[c].pc # "sync"
    /\ call'[c].bundle.doc = "yes" =>
          /\ call[c].bundle.doc = "yes" /\ call'[c].node = call[c].node
          /\ call[c].pc = "sync" => call'[c] = call[c]
    /\ call'[c].pc \in {"idle", "promote"} => call'[c].bundle.doc = "no"
    /\ node' \in [Node -> State \cup {"absent"}]
    /\ scope' \subseteq Remembered
    /\ call' \in [Caller -> CallRec]

Aside(c) == call'[c] = call[c] \/ call'[c].pc \notin RunCalls

LEMMA RowsAreNodes == Rows \subseteq Node
  BY DEF Rows

LEMMA MapWritesAreQuiet ==
  ASSUME Types, NEW c \in Caller, MapWrites(c)
  PROVE  Quiet(c) /\ Aside(c)
  <1> USE DEF Types, MapTypes, BlankBundle, Quiet, Aside, RunCalls, At, Goes, Answered, docVars, mapRows, CallPC
  <1>0. call[c] \in CallRec /\ NoCall \in CallRec /\ NoCall.bundle.doc = "no"
        /\ NoCall.pc = "idle"
    BY NullTypes DEF NoCall, NoBundle
  <1>1. CASE CompleteSession(c)
    BY <1>0, <1>1 DEF CompleteSession, CallRec
  <1>2. CASE StoreAsset(c)
    BY <1>0, <1>2 DEF StoreAsset, CallRec
  <1>3. ASSUME NEW g \in Fresh, Graduate(c, g) PROVE Quiet(c) /\ Aside(c)
    BY <1>0, <1>3, PlanningMapAssumption DEF Graduate, CallRec, BundleRec, State
  <1>4. ASSUME NEW g \in Fresh, RuleOut(c, g) PROVE Quiet(c) /\ Aside(c)
    BY <1>0, <1>4, PlanningMapAssumption DEF RuleOut, CallRec, BundleRec, State
  <1>5. ASSUME NEW g \in Fresh, PromoteCreate(c, g) PROVE Quiet(c) /\ Aside(c)
    <2>1. g \in Node
      BY PlanningMapAssumption
    <2>2. call' \in [Caller -> CallRec]
      BY <1>0, <1>5, <2>1 DEF PromoteCreate, CallRec
    <2>3. call'[c].pc = "stamp" /\ call'[c].bundle = call[c].bundle
      BY <1>0, <1>5, <2>1 DEF PromoteCreate, CallRec
    <2> QED BY <1>5, <2>1, <2>2, <2>3 DEF PromoteCreate, State
  <1>6. CASE CloseRuling(c)
    BY <1>0, <1>6 DEF CloseRuling, CallRec, State
  <1>7. CASE ReadScope(c)
    BY <1>0, <1>7 DEF ReadScope, CallRec
  <1>8. CASE WriteScope(c)
    <2> DEFINE r == [call[c] EXCEPT !.pc = "graduate", !.seen = {}]
    <2>1. r \in CallRec /\ r.pc = "graduate" /\ r.bundle = call[c].bundle
          /\ r.node = call[c].node
      BY <1>0 DEF CallRec
    <2>2. call' = [call EXCEPT ![c] = r]
      BY <1>8 DEF WriteScope
    <2>3. call[c].seen \cup {call[c].at} \subseteq Remembered
      BY <1>0 DEF CallRec, Remembered
    <2> HIDE DEF r
    <2> QED BY <1>8, <2>1, <2>2, <2>3 DEF WriteScope
  <1>9. ASSUME NEW u \in call[c].bundle.upd, UpdateNode(c, u)
        PROVE  Quiet(c) /\ Aside(c)
    <2> DEFINE k == [call[c].bundle EXCEPT !.upd = @ \ {u}]
               r == [call[c] EXCEPT !.bundle = k]
    <2>1. k \in BundleRec /\ k.doc = call[c].bundle.doc /\ u[2] \in State
      BY <1>0 DEF CallRec, BundleRec
    <2>2. call' = [call EXCEPT ![c] = r]
      BY <1>9 DEF UpdateNode
    <2> HIDE DEF k
    <2>3. r \in CallRec /\ r.pc = call[c].pc /\ r.bundle = k /\ r.node = call[c].node
      BY <1>0, <2>1 DEF CallRec
    <2> HIDE DEF r
    <2> QED BY <1>9, <2>1, <2>2, <2>3 DEF UpdateNode, Made
  <1>10. CASE TrimFog(c)
    BY <1>0, <1>10 DEF TrimFog
  <1>11. ASSUME NEW l \in call[c].links, LinkCheck(c, l) PROVE Quiet(c) /\ Aside(c)
    <2>1. l \in Remembered
      BY <1>0 DEF CallRec, Remembered
    <2>2. CASE call' = [call EXCEPT ![c] = NoCall]
      BY <1>0, <1>11, <2>2 DEF LinkCheck
    <2>3. CASE call' = [call EXCEPT ![c].pc = "insert", ![c].links = @ \ {l},
                                    ![c].seen = {l}]
      BY <1>0, <1>11, <2>1, <2>3 DEF LinkCheck, CallRec
    <2> QED BY <1>11, <2>2, <2>3 DEF LinkCheck
  <1>12. CASE LinkInsert(c)
    BY <1>0, <1>12 DEF LinkInsert, CallRec
  <1>13. CASE LinksDone(c)
    BY <1>0, <1>13 DEF LinksDone, AfterLinks, CallRec
  <1>14. CASE StampThread(c)
    BY <1>0, <1>14 DEF StampThread
  <1> QED
    BY <1>1, <1>2, <1>3, <1>4, <1>5, <1>6, <1>7, <1>8, <1>9, <1>10, <1>11, <1>12,
       <1>13, <1>14 DEF MapWrites

\* The requests that touch neither the document nor a decision, and that start
\* and end with the map and the runs.
MapRequests(c) ==
    \/ \E n \in Fresh, links \in LinkSets : CreateNode(c, n, links)
    \/ \E a, b \in Rows : LinkMapNodes(c, a, b)
    \/ \E n \in Rows, s \in State : PatchNode(c, n, s)
    \/ \E f \in {"yes", "no"} : PatchProse(c, f)
    \/ PostComment(c) \/ ResolveThread(c) \/ PromoteThread(c)

LEMMA MapRequestsAreQuiet ==
  ASSUME Types, NEW c \in Caller, MapRequests(c)
  PROVE  Quiet(c) /\ Aside(c)
  <1> USE DEF Types, MapTypes, BlankBundle, Quiet, Aside, RunCalls, At, Goes, Answered, Request,
              docVars, mapRows, CallPC
  <1>0. call[c] \in CallRec /\ NoCall \in CallRec /\ NoCall.bundle.doc = "no"
        /\ NoCall.pc = "idle"
    BY NullTypes DEF NoCall, NoBundle
  <1>1. ASSUME NEW n \in Fresh, NEW links \in LinkSets, CreateNode(c, n, links)
        PROVE  Quiet(c) /\ Aside(c)
    <2>1. n \in Node /\ links \subseteq Node \X Node
      BY PlanningMapAssumption DEF LinkSets
    <2>2. /\ call' = [call EXCEPT ![c] = [NoCall EXCEPT !.pc = "link", !.node = n,
                                                       !.links = links]]
          /\ [NoCall EXCEPT !.pc = "link", !.node = n, !.links = links] \in CallRec
      BY <1>0, <1>1, <2>1 DEF CreateNode, CallRec
    <2> QED BY <1>0, <1>1, <2>1, <2>2 DEF CreateNode, CallRec, State
  <1>2. ASSUME NEW a \in Rows, NEW b \in Rows, LinkMapNodes(c, a, b)
        PROVE  Quiet(c) /\ Aside(c)
    <2>0. a \in Node /\ b \in Node
      BY RowsAreNodes
    <2>1. {<<a, b>>} \in SUBSET (Node \X Node)
      BY <2>0
    <2> DEFINE r == [NoCall EXCEPT !.pc = "link", !.links = {<<a, b>>}]
    <2>2. r \in CallRec /\ r.pc = "link" /\ r.bundle.doc = "no"
      BY <1>0, <2>1 DEF CallRec
    <2>3. call' = [call EXCEPT ![c] = r]
      BY <1>2 DEF LinkMapNodes
    <2> HIDE DEF r
    <2> QED BY <1>0, <1>2, <2>2, <2>3 DEF LinkMapNodes
  <1>3. ASSUME NEW n \in Rows, NEW s \in State, PatchNode(c, n, s)
        PROVE  Quiet(c) /\ Aside(c)
    BY <1>0, <1>3, RowsAreNodes DEF PatchNode
  <1>4. ASSUME NEW f, PatchProse(c, f) PROVE Quiet(c) /\ Aside(c)
    BY <1>0, <1>4 DEF PatchProse
  <1>5. CASE PostComment(c)
    BY <1>0, <1>5 DEF PostComment
  <1>6. CASE ResolveThread(c)
    BY <1>0, <1>6 DEF ResolveThread
  <1>7. CASE PromoteThread(c)
    <2>1. Goes(c, "promote") /\ call[c].bundle.doc = "no"
      BY <1>7 DEF PromoteThread
    <2>2. /\ call' \in [Caller -> CallRec] /\ call'[c].pc = "promote"
          /\ call'[c].bundle.doc = "no"
          /\ \A d \in Caller \ {c} : call'[d] = call[d]
      BY <2>1, CallGoes DEF CallPC
    <2> QED BY <1>7, <2>2 DEF PromoteThread
  <1> QED
    BY <1>1, <1>2, <1>3, <1>4, <1>5, <1>6, <1>7 DEF MapRequests

RunRequests(c) ==
    \/ \E n \in Rows : OpenSession(c, n) \/ PostMessage(c, n) \/ FireNode(c, n)
    \/ Flip(c) \/ StartReply(c) \/ FireLocks(c) \/ FireFlip(c)

LEMMA RunRequestsAreQuiet ==
  ASSUME Types, NEW c \in Caller, RunRequests(c)
  PROVE  Quiet(c)
  <1> USE DEF Types, MapTypes, BlankBundle, Quiet, At, Goes, Answered, Request,
              docVars, mapRows, CallPC
  <1>0. call[c] \in CallRec /\ NoCall \in CallRec /\ NoCall.bundle.doc = "no"
        /\ NoCall.pc = "idle"
    BY NullTypes DEF NoCall, NoBundle
  <1>1. ASSUME NEW n \in Rows, OpenSession(c, n) PROVE Quiet(c)
    <2>1. [NoCall EXCEPT !.pc = "flip", !.node = n] \in CallRec
          /\ [NoCall EXCEPT !.pc = "flip", !.node = n].pc = "flip"
          /\ [NoCall EXCEPT !.pc = "flip", !.node = n].bundle.doc = "no"
      BY <1>0, RowsAreNodes DEF CallRec
    <2> QED BY <1>0, <1>1, <2>1 DEF OpenSession
  <1>2. ASSUME NEW n \in Rows, PostMessage(c, n) PROVE Quiet(c)
    <2>1. [NoCall EXCEPT !.pc = "reply", !.node = n] \in CallRec
          /\ [NoCall EXCEPT !.pc = "reply", !.node = n].pc = "reply"
          /\ [NoCall EXCEPT !.pc = "reply", !.node = n].bundle.doc = "no"
      BY <1>0, RowsAreNodes DEF CallRec
    <2> QED BY <1>0, <1>2, <2>1 DEF PostMessage
  <1>3. ASSUME NEW n \in Rows, FireNode(c, n) PROVE Quiet(c)
    <2> DEFINE r == [NoCall EXCEPT !.pc = "fire", !.node = n, !.seen = {node[n]}]
    <2>1. n \in Node /\ {node[n]} \in SUBSET Remembered
      BY RowsAreNodes DEF Remembered
    <2>2. r \in CallRec /\ r.pc = "fire" /\ r.bundle.doc = "no"
      BY <1>0, <2>1 DEF CallRec
    <2>3. call' = [call EXCEPT ![c] = r]
      BY <1>3 DEF FireNode
    <2> HIDE DEF r
    <2> QED BY <1>0, <1>3, <2>2, <2>3 DEF FireNode
  <1>4. CASE Flip(c)
    BY <1>0, <1>4 DEF Flip, State
  <1>5. CASE StartReply(c)
    BY <1>0, <1>5 DEF StartReply
  <1>6. CASE FireLocks(c)
    <2>1. CASE Goes(c, "fireFlip")
      <3>1. /\ call' \in [Caller -> CallRec] /\ call'[c].pc = "fireFlip"
            /\ call'[c].bundle = call[c].bundle /\ call'[c].node = call[c].node
            /\ \A d \in Caller \ {c} : call'[d] = call[d]
        BY <2>1, CallGoes DEF CallPC
      <3> QED BY <1>6, <3>1 DEF FireLocks
    <2>2. CASE Answered(c)
      BY <1>0, <1>6, <2>2 DEF FireLocks
    <2> QED BY <1>6, <2>1, <2>2 DEF FireLocks
  <1>7. CASE FireFlip(c)
    BY <1>0, <1>7 DEF FireFlip, State
  <1> QED
    BY <1>1, <1>2, <1>3, <1>4, <1>5, <1>6, <1>7 DEF RunRequests

-----------------------------------------------------------------------------
\* A sync starts with the document as it is, and with its own edit.
LEMMA BeginSyncSound ==
  ASSUME DocumentTypes, LockInv, NEW c \in Caller, NEW edit \in Edit,
         NEW by \in Node \cup {NoNode}, BeginSync(c, edit, by)
  PROVE  /\ DocumentTypes' /\ LockInv' /\ doc' = doc
         /\ \A d \in Caller \ {c} : sync'[d] = sync[d]
         /\ sync'[c].pc = "lock" /\ edit \in sync'[c].text
  <1> DEFINE r == [NoSync EXCEPT !.pc = "lock", !.base = doc.version,
                                 !.text = doc.text \cup {edit}, !.by = by]
  <1>1. doc.version \in Nat /\ doc.text \cup {edit} \in SUBSET Edit
    BY DEF DocumentTypes
  <1>2. /\ r \in SyncRec /\ r.pc = "lock" /\ r.base = doc.version
        /\ r.text = doc.text \cup {edit}
    BY <1>1, NullTypes DEF SyncRec, SyncPC
  <1>3. sync' = [sync EXCEPT ![c] = r]
    BY DEF BeginSync
  <1> HIDE DEF r
  <1>4. /\ sync' \in [Caller -> SyncRec] /\ sync'[c] = r
        /\ \A d \in Caller \ {c} : sync'[d] = sync[d]
    BY <1>2, <1>3 DEF DocumentTypes
  <1>5. DocumentTypes' /\ doc' = doc /\ docLock' = docLock
    BY <1>4 DEF BeginSync, DocumentTypes
  <1>6. LockInv'
    BY <1>1, <1>2, <1>4, <1>5 DEF LockInv, HolderWrites, CheckedStays, TextIsCurrent
  <1> QED BY <1>2, <1>4, <1>5, <1>6

\* What a step of a sync leaves to be shown of the sync it belongs to.
LEMMA SyncGoesTypes ==
  ASSUME DocumentTypes, NEW c \in Caller, NEW there \in SyncPC, SyncGoes(c, there)
  PROVE  /\ sync' \in [Caller -> SyncRec]
         /\ sync'[c].pc = there
         /\ sync'[c].base = sync[c].base /\ sync'[c].text = sync[c].text
         /\ \A d \in Caller \ {c} : sync'[d] = sync[d]
  <1>1. [sync[c] EXCEPT !.pc = there] \in SyncRec
    BY DEF SyncRec, DocumentTypes
  <1>2. sync' = [sync EXCEPT ![c] = [sync[c] EXCEPT !.pc = there]]
    BY DEF SyncGoes
  <1> QED BY <1>1, <1>2 DEF SyncRec, DocumentTypes

\* Whatever a sync does, the document loses nothing that was in it, and an edit
\* in the text of a sync that has replaced the document is in the document.
SyncSound(c) ==
    /\ DocumentTypes' /\ LockInv'
    /\ doc.text \subseteq doc'.text
    /\ \A d \in Caller \ {c} : sync'[d] = sync[d]
    /\ sync'[c].text = sync[c].text
    /\ sync'[c].pc \in {"lock", "check", "version", "replace"} =>
           sync[c].pc \in {"lock", "check", "version", "replace"}
    /\ sync'[c].pc \in {"clear", "index", "done"} =>
           \/ sync[c].pc \in {"clear", "index", "done"}
           \/ /\ sync[c].pc \in {"lock", "check", "version", "replace"}
              /\ doc'.text = sync[c].text

LEMMA SyncStepSound ==
  ASSUME DocumentTypes, LockInv, NEW c \in Caller, SyncStep(c)
  PROVE  SyncSound(c)
  <1> USE DEF SyncAt, SyncEnds, SyncSound
  <1>0. sync[c] \in SyncRec /\ NoCaller # c
    BY DocumentAssumption DEF DocumentTypes
  <1>1. CASE TakeLock(c)
    <2>1. /\ sync' \in [Caller -> SyncRec]
          /\ sync'[c].pc = "check"
          /\ sync'[c].base = sync[c].base /\ sync'[c].text = sync[c].text
          /\ \A d \in Caller \ {c} : sync'[d] = sync[d]
      BY <1>1, SyncGoesTypes DEF TakeLock, SyncPC
    <2>2. LockInv'
      BY <1>0, <1>1, <2>1, DocumentAssumption
      DEF TakeLock, LockInv, HolderWrites, CheckedStays, TextIsCurrent
    <2> QED BY <1>1, <2>1, <2>2 DEF TakeLock, DocumentTypes
  <1>2. CASE CheckBase(c)
    <2>1. PICK there \in {"version", "stale"} :
              /\ SyncGoes(c, there)
              /\ there = "version" => sync[c].base = doc.version /\ docLock' = docLock
      BY <1>2 DEF CheckBase
    <2>2. /\ sync' \in [Caller -> SyncRec]
          /\ sync'[c].pc = there
          /\ sync'[c].base = sync[c].base /\ sync'[c].text = sync[c].text
          /\ \A d \in Caller \ {c} : sync'[d] = sync[d]
      BY <2>1, SyncGoesTypes DEF SyncPC
    <2>3. docLock = c
      BY <1>2 DEF CheckBase, LockInv, HolderWrites
    <2>4. LockInv'
      BY <1>0, <1>2, <2>1, <2>2, <2>3
      DEF CheckBase, LockInv, HolderWrites, CheckedStays, TextIsCurrent
    <2> QED BY <1>2, <2>1, <2>2, <2>4 DEF CheckBase, DocumentTypes
  <1>3. CASE InsertVersion(c)
    <2>1. PICK there \in {"replace", "failed"} :
              /\ SyncGoes(c, there)
              /\ there = "replace" => docLock' = docLock
      BY <1>3 DEF InsertVersion
    <2>2. /\ sync' \in [Caller -> SyncRec]
          /\ sync'[c].pc = there
          /\ sync'[c].base = sync[c].base /\ sync'[c].text = sync[c].text
          /\ \A d \in Caller \ {c} : sync'[d] = sync[d]
      BY <2>1, SyncGoesTypes DEF SyncPC
    <2>3. docLock = c
      BY <1>3 DEF InsertVersion, LockInv, HolderWrites
    <2>4. LockInv'
      BY <1>0, <1>3, <2>1, <2>2, <2>3
      DEF InsertVersion, LockInv, HolderWrites, CheckedStays, TextIsCurrent
    <2> QED BY <1>3, <2>1, <2>2, <2>4 DEF InsertVersion, DocumentTypes
  <1>4. CASE ReplaceDocument(c)
    <2>1. /\ sync' \in [Caller -> SyncRec]
          /\ sync'[c].pc = "clear"
          /\ sync'[c].base = sync[c].base /\ sync'[c].text = sync[c].text
          /\ \A d \in Caller \ {c} : sync'[d] = sync[d]
      BY <1>4, SyncGoesTypes DEF ReplaceDocument, SyncPC
    <2>2. /\ docLock = c /\ sync[c].base = doc.version
          /\ doc.text \subseteq sync[c].text
      BY <1>4 DEF ReplaceDocument, LockInv, HolderWrites, CheckedStays, TextIsCurrent
    <2>3. /\ doc'.version = doc.version + 1 /\ doc'.text = sync[c].text
          /\ doc' \in [version : Nat, text : SUBSET Edit]
          /\ doc.version \in Nat
      BY <1>0, <1>4, <2>2 DEF ReplaceDocument, DocumentTypes, SyncRec
    <2>4. \A d \in Caller : sync[d].base \in Nat
      BY DEF DocumentTypes, SyncRec
    <2>5. HolderWrites' /\ CheckedStays'
      BY <1>4, <2>1, <2>2 DEF ReplaceDocument, LockInv, HolderWrites, CheckedStays
    <2>6. ASSUME NEW d \in Caller,
                 sync'[d].pc \in {"lock", "check", "version", "replace"}
          PROVE  sync'[d].base < doc'.version
      BY <2>1, <2>3, <2>4, <2>6 DEF LockInv, TextIsCurrent
    <2>7. TextIsCurrent'
      BY <2>1, <2>3, <2>4, <2>6 DEF TextIsCurrent
    <2> QED BY <1>4, <2>1, <2>2, <2>3, <2>5, <2>7 DEF ReplaceDocument, DocumentTypes, LockInv
  <1>5. CASE ClearSections(c)
    <2> DEFINE r == [sync[c] EXCEPT !.pc = "index", !.prior = sections.by]
    <2>1. r \in SyncRec /\ r.pc = "index" /\ r.text = sync[c].text
      BY <1>0 DEF SyncRec, SyncPC, DocumentTypes
    <2>2. sync' = [sync EXCEPT ![c] = r]
      BY <1>5 DEF ClearSections
    <2> HIDE DEF r
    <2>3. /\ sync' \in [Caller -> SyncRec] /\ sync'[c] = r
          /\ \A d \in Caller \ {c} : sync'[d] = sync[d]
      BY <2>1, <2>2 DEF DocumentTypes
    <2>4. LockInv'
      BY <1>5, <2>1, <2>3
      DEF ClearSections, LockInv, HolderWrites, CheckedStays, TextIsCurrent
    <2> QED BY <1>5, <2>1, <2>3, <2>4 DEF ClearSections, DocumentTypes
  <1>6. CASE IndexSections(c)
    <2>1. /\ sync' \in [Caller -> SyncRec]
          /\ sync'[c].pc = "done"
          /\ sync'[c].base = sync[c].base /\ sync'[c].text = sync[c].text
          /\ \A d \in Caller \ {c} : sync'[d] = sync[d]
      BY <1>6, SyncGoesTypes DEF IndexSections, SyncPC
    <2>2. docLock = c
      BY <1>6 DEF IndexSections, LockInv, HolderWrites
    <2>3. LockInv'
      BY <1>6, <2>1, <2>2
      DEF IndexSections, LockInv, HolderWrites, CheckedStays, TextIsCurrent
    <2>4. sections' \in [version : Nat, by : Node \cup {NoNode}]
      BY <1>0, <1>6 DEF IndexSections, SyncRec
    <2> QED BY <1>6, <2>1, <2>3, <2>4 DEF IndexSections, DocumentTypes
  <1> QED BY <1>1, <1>2, <1>3, <1>4, <1>5, <1>6 DEF SyncStep

LEMMA AbandonSyncSound ==
  ASSUME DocumentTypes, LockInv, NEW c \in Caller, AbandonSync(c)
  PROVE  /\ DocumentTypes' /\ LockInv' /\ doc' = doc
         /\ \A d \in Caller \ {c} : sync'[d] = sync[d]
         /\ sync'[c] = NoSync
  <1>1. /\ sync' \in [Caller -> SyncRec] /\ sync'[c] = NoSync
        /\ \A d \in Caller \ {c} : sync'[d] = sync[d]
    BY NullTypes DEF AbandonSync, DocumentTypes
  <1>2. LockInv'
    BY <1>1 DEF AbandonSync, NoSync, LockInv, HolderWrites, CheckedStays, TextIsCurrent
  <1> QED BY <1>1, <1>2 DEF AbandonSync, DocumentTypes

-----------------------------------------------------------------------------
LEMMA AnsweredGoes ==
  ASSUME call \in [Caller -> CallRec], NEW c \in Caller, Answered(c)
  PROVE  /\ call' \in [Caller -> CallRec]
         /\ call'[c].pc = "idle" /\ call'[c].bundle.doc = "no"
         /\ \A d \in Caller \ {c} : call'[d] = call[d]
  <1>1. call' \in [Caller -> CallRec] /\ call'[c] = NoCall
        /\ \A d \in Caller \ {c} : call'[d] = call[d]
    BY NullTypes DEF Answered
  <1> QED BY <1>1 DEF NoCall, NoBundle

LEMMA QuietKeeps ==
  ASSUME DocInv, NEW c \in Caller, Quiet(c)
  PROVE  DocInv'
  <1>1. DocumentTypes' /\ LockInv'
    BY DEF DocInv, Types, DocumentTypes, LockInv, HolderWrites, CheckedStays,
           TextIsCurrent, Quiet, docVars
  <1>2. MapTypes' /\ BlankBundle'
    BY DEF DocInv, Types, MapTypes, BlankBundle, Quiet
  <1>3. EditIsThere'
    <2> SUFFICES ASSUME NEW d \in Caller, call'[d].bundle.doc = "yes"
                 PROVE  IF call'[d].pc = "sync"
                        THEN /\ sync[d].pc \in {"lock", "check", "version", "replace"} =>
                                    call'[d].node \in sync[d].text
                             /\ sync[d].pc \in {"clear", "index", "done"} =>
                                    call'[d].node \in doc.text
                        ELSE call'[d].node \in doc.text
      BY DEF EditIsThere, Quiet, docVars
    <2>1. CASE call'[d] = call[d]
      BY <2>1 DEF DocInv, EditIsThere
    <2>2. CASE call'[d] # call[d]
      <3>1. d = c /\ call'[c].pc # "sync"
        BY <2>2 DEF Quiet
      <3>2. call[c].bundle.doc = "yes" /\ call'[c].node = call[c].node
            /\ call[c].pc # "sync"
        BY <2>2, <3>1 DEF Quiet
      <3> QED BY <3>1, <3>2 DEF DocInv, EditIsThere
    <2> QED BY <2>1, <2>2
  <1>4. DecisionInDocument'
    BY DEF DocInv, DecisionInDocument, Quiet, docVars
  <1> QED BY <1>1, <1>2, <1>3, <1>4 DEF DocInv, Types

LEMMA SyncStepKeeps ==
  ASSUME DocInv, NEW c \in Caller, SyncStep(c), UNCHANGED mapVars
  PROVE  DocInv'
  <1>1. SyncSound(c)
    BY SyncStepSound DEF DocInv, Types
  <1>2. UNCHANGED <<node, scope, call, decided>>
    BY DEF mapVars, mapRows
  <1>3. MapTypes' /\ BlankBundle' /\ DecisionInDocument'
    BY <1>1, <1>2 DEF DocInv, Types, MapTypes, BlankBundle, DecisionInDocument, SyncSound
  <1>4. EditIsThere'
    <2> SUFFICES ASSUME NEW d \in Caller, call[d].bundle.doc = "yes"
                 PROVE  IF call[d].pc = "sync"
                        THEN /\ sync'[d].pc \in {"lock", "check", "version", "replace"} =>
                                    call[d].node \in sync'[d].text
                             /\ sync'[d].pc \in {"clear", "index", "done"} =>
                                    call[d].node \in doc'.text
                        ELSE call[d].node \in doc'.text
      BY <1>2 DEF EditIsThere
    <2>1. CASE d = c
      BY <1>1, <2>1 DEF DocInv, EditIsThere, SyncSound
    <2>2. CASE d # c
      BY <1>1, <2>2 DEF DocInv, EditIsThere, SyncSound
    <2> QED BY <2>1, <2>2
  <1> QED BY <1>1, <1>3, <1>4 DEF DocInv, Types, SyncSound

LEMMA SyncDocumentKeeps ==
  ASSUME DocInv, NEW c \in Caller, NEW by \in Rows \cup {NoNode}, SyncDocument(c, by)
  PROVE  DocInv' /\ Aside(c) /\ \A d \in Caller \ {c} : call'[d] = call[d]
  <1>1. /\ call' \in [Caller -> CallRec] /\ call'[c].pc = "sync"
        /\ call'[c].bundle = call[c].bundle
        /\ \A d \in Caller \ {c} : call'[d] = call[d]
    BY CallGoes DEF SyncDocument, DocInv, Types, MapTypes, CallPC
  <1>2. call[c].bundle.doc = "no"
    BY DEF SyncDocument, Request, At, DocInv, Types, BlankBundle
  <1>3. by \in Node \cup {NoNode} /\ <<c>> \in Edit
    BY RowsAreNodes DEF Edit
  <1>4. /\ DocumentTypes' /\ LockInv' /\ doc' = doc
        /\ \A d \in Caller \ {c} : sync'[d] = sync[d]
    BY <1>3, BeginSyncSound DEF SyncDocument, DocInv, Types
  <1>5. UNCHANGED <<node, scope, decided>>
    BY DEF SyncDocument, mapRows
  <1>6. MapTypes' /\ BlankBundle' /\ EditIsThere' /\ DecisionInDocument'
    BY <1>1, <1>2, <1>4, <1>5
    DEF DocInv, Types, MapTypes, BlankBundle, EditIsThere, DecisionInDocument
  <1> QED BY <1>1, <1>4, <1>6 DEF DocInv, Types, Aside, RunCalls

LEMMA ResolveNodeKeeps ==
  ASSUME DocInv, NEW c \in Caller, NEW n \in Rows, NEW b \in Bundles, ResolveNode(c, n, b)
  PROVE  DocInv' /\ Aside(c) /\ \A d \in Caller \ {c} : call'[d] = call[d]
  <1> DEFINE there == IF b.doc = "yes" THEN "sync" ELSE "settle"
             r == [NoCall EXCEPT !.pc = there, !.node = n, !.bundle = b]
  <1>1. n \in Node /\ n \in Edit /\ b \in BundleRec
    BY RowsAreNodes, PlanningMapAssumption DEF Edit, BundleRec, State
  <1>2. there \in CallPC
    BY DEF CallPC
  <1>3. r \in CallRec /\ r.pc = there /\ r.node = n /\ r.bundle = b
    <2> HIDE DEF there
    <2> QED BY <1>1, <1>2, NullTypes DEF CallRec
  <1>4. call' = [call EXCEPT ![c] = r]
    BY DEF ResolveNode
  <1>5. b.doc = "yes" => there = "sync"
    OBVIOUS
  <1>6. there \in {"sync", "settle"} /\ (b.doc # "yes" => there = "settle")
    OBVIOUS
  <1> HIDE DEF r, there
  <1>7. /\ call' \in [Caller -> CallRec] /\ call'[c] = r
        /\ \A d \in Caller \ {c} : call'[d] = call[d]
    BY <1>3, <1>4 DEF DocInv, Types, MapTypes
  <1>8. UNCHANGED <<node, scope, decided>>
    BY DEF ResolveNode, mapRows
  <1>9. /\ DocumentTypes' /\ LockInv' /\ doc' = doc
        /\ \A d \in Caller \ {c} : sync'[d] = sync[d]
        /\ b.doc = "yes" => sync'[c].pc = "lock" /\ n \in sync'[c].text
    <2>1. CASE b.doc = "yes"
      <3>1. BeginSync(c, n, n)
        BY <2>1 DEF ResolveNode
      <3> QED BY <1>1, <3>1, BeginSyncSound DEF DocInv, Types
    <2>2. CASE b.doc # "yes"
      <3>1. UNCHANGED <<doc, lineage, sections, docLock, sync>>
        BY <2>2 DEF ResolveNode, docVars
      <3> QED
        BY <2>2, <3>1 DEF DocInv, Types, DocumentTypes, LockInv, HolderWrites,
                          CheckedStays, TextIsCurrent
    <2> QED BY <2>1, <2>2
  <1>10. MapTypes' /\ BlankBundle' /\ DecisionInDocument'
    BY <1>3, <1>6, <1>7, <1>8, <1>9
    DEF DocInv, Types, MapTypes, BlankBundle, DecisionInDocument
  <1>11. EditIsThere'
    BY <1>3, <1>5, <1>7, <1>9 DEF DocInv, EditIsThere
  <1> QED BY <1>3, <1>6, <1>7, <1>9, <1>10, <1>11 DEF DocInv, Types, Aside, RunCalls

LEMMA SyncAnsweredKeeps ==
  ASSUME DocInv, NEW c \in Caller, SyncAnswered(c)
  PROVE  DocInv' /\ Aside(c) /\ \A d \in Caller \ {c} : call'[d] = call[d]
  <1>1. /\ call' \in [Caller -> CallRec]
        /\ \A d \in Caller \ {c} : call'[d] = call[d]
        /\ \/ call'[c].pc = "idle" /\ call'[c].bundle.doc = "no"
           \/ /\ call'[c].pc = "settle" /\ sync[c].pc = "done"
              /\ call'[c].bundle = call[c].bundle /\ call'[c].node = call[c].node
    <2>1. CASE Answered(c)
      BY <2>1, AnsweredGoes DEF DocInv, Types, MapTypes
    <2>2. CASE Goes(c, "settle") /\ sync[c].pc = "done"
      BY <2>2, CallGoes DEF DocInv, Types, MapTypes, CallPC
    <2> QED BY <2>1, <2>2 DEF SyncAnswered
  <1>2. /\ DocumentTypes' /\ LockInv' /\ doc' = doc
        /\ \A d \in Caller \ {c} : sync'[d] = sync[d]
    BY AbandonSyncSound DEF SyncAnswered, DocInv, Types
  <1>3. UNCHANGED <<node, scope, decided>> /\ call[c].pc = "sync"
    BY DEF SyncAnswered, mapRows, At
  <1>4. MapTypes' /\ BlankBundle' /\ DecisionInDocument'
    BY <1>1, <1>2, <1>3 DEF DocInv, Types, MapTypes, BlankBundle, DecisionInDocument
  <1>5. EditIsThere'
    BY <1>1, <1>2, <1>3 DEF DocInv, EditIsThere
  <1> QED BY <1>1, <1>2, <1>4, <1>5 DEF DocInv, Types, Aside, RunCalls

LEMMA SettleKeeps ==
  ASSUME DocInv, NEW c \in Caller, Settle(c)
  PROVE  DocInv' /\ Aside(c) /\ \A d \in Caller \ {c} : call'[d] = call[d]
  <1>1. /\ call' \in [Caller -> CallRec] /\ call'[c].pc = "complete"
        /\ call'[c].node = call[c].node /\ call'[c].bundle = call[c].bundle
        /\ \A d \in Caller \ {c} : call'[d] = call[d]
    BY CallGoes DEF Settle, DocInv, Types, MapTypes, CallPC
  <1>2. call[c].bundle.doc = "yes" => call[c].node \in doc.text
    BY DEF Settle, At, DocInv, EditIsThere
  <1>3. UNCHANGED <<doc, lineage, sections, docLock, sync>> /\ scope' = scope
    BY DEF Settle, docVars
  <1>4. DocumentTypes' /\ LockInv'
    BY <1>3 DEF DocInv, Types, DocumentTypes, LockInv, HolderWrites, CheckedStays,
                TextIsCurrent
  <1>5. node' \in [Node -> State \cup {"absent"}]
    BY DEF Settle, State, DocInv, Types, MapTypes
  <1>6. MapTypes' /\ BlankBundle'
    BY <1>1, <1>3, <1>5 DEF DocInv, Types, MapTypes, BlankBundle
  <1>7. DecisionInDocument'
    BY <1>2, <1>3 DEF Settle, DocInv, DecisionInDocument
  <1>8. EditIsThere'
    BY <1>1, <1>2, <1>3 DEF DocInv, EditIsThere
  <1> QED BY <1>1, <1>4, <1>6, <1>7, <1>8 DEF DocInv, Types, Aside, RunCalls

LEMMA DropKeeps ==
  ASSUME DocInv, NEW c \in Caller, Drop(c)
  PROVE  DocInv' /\ call'[c].pc = "idle" /\ \A d \in Caller \ {c} : call'[d] = call[d]
  <1>1. /\ call' \in [Caller -> CallRec]
        /\ call'[c].pc = "idle" /\ call'[c].bundle.doc = "no"
        /\ \A d \in Caller \ {c} : call'[d] = call[d]
    BY AnsweredGoes DEF Drop, DocInv, Types, MapTypes
  <1>2. /\ DocumentTypes' /\ LockInv' /\ doc' = doc
        /\ \A d \in Caller \ {c} : sync'[d] = sync[d]
    BY AbandonSyncSound DEF Drop, DocInv, Types
  <1>3. UNCHANGED <<node, scope, decided>>
    BY DEF Drop, mapRows
  <1>4. MapTypes' /\ BlankBundle' /\ EditIsThere' /\ DecisionInDocument'
    BY <1>1, <1>2, <1>3
    DEF DocInv, Types, MapTypes, BlankBundle, EditIsThere, DecisionInDocument
  <1> QED BY <1>1, <1>2, <1>4 DEF DocInv, Types

LEMMA CrashKeeps ==
  ASSUME DocInv, Crash
  PROVE  DocInv' /\ \A c \in Caller : call'[c].pc = "idle"
  <1>1. /\ call' \in [Caller -> CallRec]
        /\ \A c \in Caller : call'[c].pc = "idle" /\ call'[c].bundle.doc = "no"
    <2>1. call' = [c \in Caller |-> NoCall]
      BY DEF Crash
    <2>2. call' \in [Caller -> CallRec] /\ \A c \in Caller : call'[c] = NoCall
      BY <2>1, NullTypes
    <2> QED BY <2>2 DEF NoCall, NoBundle
  <1>2. sync' \in [Caller -> SyncRec] /\ \A c \in Caller : sync'[c].pc = "none"
    <2>1. sync' = [c \in Caller |-> NoSync]
      BY DEF Crash, LoseDocumentMemory
    <2>2. sync' \in [Caller -> SyncRec] /\ \A c \in Caller : sync'[c] = NoSync
      BY <2>1, NullTypes
    <2> QED BY <2>2 DEF NoSync
  <1>3. UNCHANGED <<doc, sections, node, scope, decided>>
    BY DEF Crash, LoseDocumentMemory, mapRows
  <1>4. DocumentTypes' /\ LockInv'
    BY <1>2, <1>3 DEF DocInv, Types, DocumentTypes, LockInv, HolderWrites,
                      CheckedStays, TextIsCurrent
  <1>5. MapTypes' /\ BlankBundle' /\ EditIsThere' /\ DecisionInDocument'
    BY <1>1, <1>3
    DEF DocInv, Types, MapTypes, BlankBundle, EditIsThere, DecisionInDocument
  <1> QED BY <1>1, <1>4, <1>5 DEF DocInv, Types

-----------------------------------------------------------------------------
\* What a caller does with the map, the document or a session leaves the runs
\* alone, unless it fires a node.
LEMMA AsideKeeps ==
  ASSUME RunInv, NEW c \in Caller, Aside(c),
         \A d \in Caller \ {c} : call'[d] = call[d],
         UNCHANGED <<inflight, run, token>>
  PROVE  RunInv'
  BY DEF RunInv, RunTypes, RunCallsName, FirerHoldsLock, RevokedHasNone, TokensDieWithRuns, Aside,
         RunCalls, At

\* A run that goes on, or whose token is taken away.
RunMoves(n) ==
    /\ run[n] # "none"
    /\ run' \in [Node -> RunPC] /\ run'[n] # "none"
    /\ \A m \in Node \ {n} : run'[m] = run[m]
    /\ inflight' = inflight
    /\ token' \subseteq Node /\ token' \subseteq token \cup {n}
    /\ run'[n] = "revoked" => n \notin token'
    /\ UNCHANGED call

LEMMA RunMovesKeeps ==
  ASSUME RunInv, NEW n \in Node, RunMoves(n)
  PROVE  RunInv'
  BY DEF RunInv, RunTypes, RunCallsName, FirerHoldsLock, RevokedHasNone, TokensDieWithRuns,
         RunMoves, At

Moves(n) ==
    \/ StartRun(n) \/ RecordResume(n) \/ AppendReply(n) \/ RecordEvidence(n)
    \/ AfkSettle(n) \/ RevokeToken(n)
    \/ AgentExits(n) \/ SettingsFail(n) \/ RunPanics(n)

LEMMA MovesMove ==
  ASSUME RunTypes, NEW n \in Node, Moves(n)
  PROVE  RunMoves(n)
  <1> USE DEF RunTypes, RunMoves, RunAt, RunGoes, RunPC, onlyRuns, mapVars
  <1>1. CASE StartRun(n)
    BY <1>1 DEF StartRun
  <1>2. CASE RecordResume(n)
    BY <1>2 DEF RecordResume
  <1>3. CASE AppendReply(n)
    BY <1>3 DEF AppendReply
  <1>4. CASE RecordEvidence(n)
    BY <1>4 DEF RecordEvidence
  <1>5. CASE AfkSettle(n)
    BY <1>5 DEF AfkSettle
  <1>6. CASE RevokeToken(n)
    BY <1>6 DEF RevokeToken
  <1>7. CASE AgentExits(n)
    BY <1>7 DEF AgentExits, ReplyEnds, AfkEnds, AfkFails
  <1>8. CASE SettingsFail(n)
    BY <1>8 DEF SettingsFail
  <1>9. CASE RunPanics(n)
    BY <1>9 DEF RunPanics
  <1> QED BY <1>1, <1>2, <1>3, <1>4, <1>5, <1>6, <1>7, <1>8, <1>9 DEF Moves

\* No run touches the document or a request.
LEMMA MovesAreQuiet ==
  ASSUME DocInv, NEW n \in Node,
         Moves(n) \/ FreeNode(n) \/ ExpireToken(n)
  PROVE  Quiet(n) /\ n \in Caller
  <1>1. n \in Caller
    BY NodeRunsAssumption
  <1>2. UNCHANGED <<docVars, scope, call, decided>>
    BY DEF Moves, StartRun, RecordResume, AppendReply, RecordEvidence, AfkSettle,
           RevokeToken, AgentExits, ReplyEnds, AfkEnds, AfkFails, SettingsFail,
           RunPanics, FreeNode, ExpireToken, onlyRuns, mapVars, mapRows
  <1>3. node' = node \/ AfkSettle(n)
    BY DEF Moves, StartRun, RecordResume, AppendReply, RecordEvidence,
           RevokeToken, AgentExits, ReplyEnds, AfkEnds, AfkFails, SettingsFail,
           RunPanics, FreeNode, ExpireToken, onlyRuns, mapVars, mapRows
  <1>4. node' \in [Node -> State \cup {"absent"}]
    <2>1. CASE node' = node
      BY <2>1 DEF DocInv, Types, MapTypes
    <2>2. CASE AfkSettle(n)
      BY <2>2 DEF AfkSettle, State, DocInv, Types, MapTypes
    <2> QED BY <1>3, <2>1, <2>2
  <1> QED BY <1>1, <1>2, <1>4 DEF Quiet, DocInv, Types, MapTypes, BlankBundle

\* A node is freed by the run that holds it, after its token is gone.
LEMMA FreeNodeKeeps ==
  ASSUME RunInv, NEW n \in Node, FreeNode(n)
  PROVE  RunInv'
  <1>1. /\ run[n] = "revoked" /\ n \notin token
        /\ run' \in [Node -> RunPC] /\ run'[n] = "none"
        /\ \A m \in Node \ {n} : run'[m] = run[m]
        /\ inflight' = inflight \ {n} /\ token' = token /\ call' = call
    BY DEF FreeNode, RunAt, RunGoes, onlyRuns, mapVars, RunPC, RunInv, RunTypes, RevokedHasNone
  <1>2. RunTypes' /\ RevokedHasNone' /\ TokensDieWithRuns'
    BY <1>1 DEF RunInv, RunTypes, RevokedHasNone, TokensDieWithRuns
  <1>3. FirerHoldsLock'
    BY <1>1 DEF RunInv, RunCallsName, RunCalls, FirerHoldsLock, At
  <1>4. RunCallsName'
    BY <1>1 DEF RunInv, RunCallsName
  <1> QED BY <1>2, <1>3, <1>4 DEF RunInv

LEMMA ExpireTokenKeeps ==
  ASSUME RunInv, NEW n \in Node, ExpireToken(n)
  PROVE  RunInv'
  BY DEF RunInv, RunTypes, RunCallsName, FirerHoldsLock, RevokedHasNone,
         TokensDieWithRuns, ExpireToken, onlyRuns, mapVars, At

\* A run starts under a lock that was free, or that its own firer took.
Starts(n) ==
    /\ run[n] = "none" /\ run' = [run EXCEPT ![n] = "start"]
    /\ inflight' = inflight \cup {n} /\ token' = token
    /\ \A c \in Caller : call'[c].pc \in RunCalls =>
           call'[c] = call[c] /\ (At(c, "fireFlip") => call[c].node # n)

LEMMA StartsKeeps ==
  ASSUME RunInv, NEW n \in Node, Starts(n)
  PROVE  RunInv'
  <1>1. /\ run' \in [Node -> RunPC] /\ run'[n] = "start"
        /\ \A m \in Node \ {n} : run'[m] = run[m]
    BY DEF Starts, RunInv, RunTypes, RunPC
  <1>2. RunTypes' /\ RunCallsName' /\ RevokedHasNone' /\ TokensDieWithRuns'
    BY <1>1 DEF Starts, RunInv, RunTypes, RunCallsName, RevokedHasNone, TokensDieWithRuns
  <1>3. FirerHoldsLock'
    BY <1>1 DEF Starts, RunInv, RunCallsName, FirerHoldsLock, RunCalls, At
  <1> QED BY <1>2, <1>3 DEF RunInv

\* A lock that is free has no run, and nobody about to start one.
LEMMA FreeStarts ==
  ASSUME RunInv, NEW c \in Caller, NEW n \in Node, n \notin inflight,
         call'[c].pc = "idle", \A d \in Caller \ {c} : call'[d] = call[d],
         inflight' = inflight \cup {n}, RunGoes(n, "start"), token' = token
  PROVE  RunInv'
  <1>1. run[n] = "none" /\ \A d \in Caller : At(d, "fireFlip") => call[d].node # n
    BY DEF RunInv, TokensDieWithRuns, FirerHoldsLock
  <1>2. Starts(n)
    BY <1>1 DEF Starts, RunGoes, RunCalls
  <1> QED BY <1>2, StartsKeeps

LEMMA FireLocksKeeps ==
  ASSUME DocInv, RunInv, NEW c \in Caller, FireLocks(c)
  PROVE  RunInv'
  <1> DEFINE n == call[c].node
  <1>0. n \in Node /\ token' = token /\ call \in [Caller -> CallRec]
    BY DEF FireLocks, At, RunInv, RunCallsName, RunCalls, DocInv, Types, MapTypes
  <1>1. CASE n \in inflight
    <2>1. UNCHANGED <<inflight, run>> /\ Answered(c)
      BY <1>1 DEF FireLocks
    <2>2. call'[c].pc = "idle" /\ \A d \in Caller \ {c} : call'[d] = call[d]
      BY <1>0, <2>1, AnsweredGoes
    <2> QED BY <1>0, <2>1, <2>2, AsideKeeps DEF Aside, RunCalls
  <1>2. CASE n \notin inflight /\ call[c].seen # {"open"}
    <2>1. inflight' = inflight \cup {n} /\ RunGoes(n, "start") /\ Answered(c)
      BY <1>2 DEF FireLocks
    <2>2. call'[c].pc = "idle" /\ \A d \in Caller \ {c} : call'[d] = call[d]
      BY <1>0, <2>1, AnsweredGoes
    <2> QED BY <1>0, <1>2, <2>1, <2>2, FreeStarts
  <1>3. CASE n \notin inflight /\ call[c].seen = {"open"}
    <2>1. inflight' = inflight \cup {n} /\ run' = run /\ Goes(c, "fireFlip")
      BY <1>3 DEF FireLocks
    <2>2. /\ call'[c].pc = "fireFlip" /\ call'[c].node = n
          /\ \A d \in Caller \ {c} : call'[d] = call[d]
      BY <1>0, <2>1, CallGoes DEF CallPC
    <2>3. run[n] = "none" /\ \A d \in Caller : At(d, "fireFlip") => call[d].node # n
      BY <1>0, <1>3 DEF RunInv, TokensDieWithRuns, FirerHoldsLock
    <2>4. RunTypes' /\ RunCallsName' /\ RevokedHasNone' /\ TokensDieWithRuns'
      BY <1>0, <2>1, <2>2 DEF RunInv, RunTypes, RunCallsName, RevokedHasNone,
                             TokensDieWithRuns
    <2>5. FirerHoldsLock'
      BY <1>0, <2>1, <2>2, <2>3 DEF RunInv, FirerHoldsLock, At
    <2> QED BY <2>4, <2>5 DEF RunInv
  <1> QED BY <1>1, <1>2, <1>3

\* A request about a run that has not looked at the lock yet.
LEMMA RunCallsKeep ==
  ASSUME RunInv, NEW c \in Caller, NEW n \in Node,
         call'[c].pc \in {"reply", "fire"}, call'[c].node = n,
         \A d \in Caller \ {c} : call'[d] = call[d],
         UNCHANGED <<inflight, run, token>>
  PROVE  RunInv'
  <1>1. RunTypes' /\ RunCallsName' /\ RevokedHasNone' /\ TokensDieWithRuns'
    BY DEF RunInv, RunTypes, RunCallsName, RunCalls, RevokedHasNone, TokensDieWithRuns
  <1>2. FirerHoldsLock'
    BY DEF RunInv, FirerHoldsLock, At
  <1> QED BY <1>1, <1>2 DEF RunInv

LEMMA RunRequestsKeep ==
  ASSUME DocInv, RunInv, NEW c \in Caller, RunRequests(c)
  PROVE  RunInv'
  <1>0. call \in [Caller -> CallRec]
    BY DEF DocInv, Types, MapTypes
  <1>1. ASSUME NEW n \in Rows, OpenSession(c, n) PROVE RunInv'
    <2>1. /\ call'[c] = call[c] \/ call'[c].pc = "flip"
          /\ \A d \in Caller \ {c} : call'[d] = call[d]
      BY <1>0, <1>1 DEF OpenSession, NoCall
    <2> QED BY <1>1, <2>1, AsideKeeps DEF Aside, RunCalls, OpenSession, runVars
  <1>2. ASSUME NEW n \in Rows, PostMessage(c, n) PROVE RunInv'
    <2>1. /\ call'[c].pc = "reply" /\ call'[c].node = n
          /\ \A d \in Caller \ {c} : call'[d] = call[d]
      BY <1>0, <1>2 DEF PostMessage, NoCall
    <2>2. UNCHANGED <<inflight, run, token>> /\ n \in Node
      BY <1>2, RowsAreNodes DEF PostMessage
    <2> QED BY <2>1, <2>2, RunCallsKeep
  <1>3. ASSUME NEW n \in Rows, FireNode(c, n) PROVE RunInv'
    <2>1. /\ call'[c].pc = "fire" /\ call'[c].node = n
          /\ \A d \in Caller \ {c} : call'[d] = call[d]
      BY <1>0, <1>3 DEF FireNode, NoCall
    <2>2. UNCHANGED <<inflight, run, token>> /\ n \in Node
      BY <1>3, RowsAreNodes DEF FireNode, runVars
    <2> QED BY <2>1, <2>2, RunCallsKeep
  <1>4. CASE Flip(c)
    <2>1. call'[c].pc = "idle" /\ \A d \in Caller \ {c} : call'[d] = call[d]
      BY <1>0, <1>4, AnsweredGoes DEF Flip
    <2> QED BY <1>4, <2>1, AsideKeeps DEF Aside, RunCalls, Flip, runVars
  <1>5. CASE StartReply(c)
    <2>1. /\ call'[c].pc = "idle" /\ \A d \in Caller \ {c} : call'[d] = call[d]
          /\ token' = token
      BY <1>0, <1>5, AnsweredGoes DEF StartReply
    <2>2. CASE call[c].node \in inflight
      <3>1. UNCHANGED <<inflight, run, token>>
        BY <1>5, <2>2 DEF StartReply
      <3> QED BY <2>1, <3>1, AsideKeeps DEF Aside, RunCalls
    <2>3. CASE call[c].node \notin inflight
      <3>1. /\ inflight' = inflight \cup {call[c].node} /\ RunGoes(call[c].node, "start")
            /\ call[c].node \in Node
        BY <1>5, <2>3 DEF StartReply, At, RunInv, RunCallsName, RunCalls
      <3> QED BY <2>1, <2>3, <3>1, FreeStarts
    <2> QED BY <2>2, <2>3
  <1>6. CASE FireLocks(c)
    BY <1>6, FireLocksKeeps
  <1>7. CASE FireFlip(c)
    <2> DEFINE n == call[c].node
    <2>1. /\ call'[c].pc = "idle" /\ \A d \in Caller \ {c} : call'[d] = call[d]
          /\ UNCHANGED <<inflight, token>> /\ RunGoes(n, "start")
      BY <1>0, <1>7, AnsweredGoes DEF FireFlip
    <2>2. /\ n \in Node /\ n \in inflight /\ run[n] = "none"
          /\ \A d \in Caller \ {c} : At(d, "fireFlip") => call[d].node # n
      BY <1>7 DEF FireFlip, At, RunInv, RunCallsName, RunCalls, FirerHoldsLock
    <2>3. Starts(n)
      BY <2>1, <2>2 DEF Starts, RunGoes, RunCalls
    <2> QED BY <2>2, <2>3, StartsKeeps
  <1> QED BY <1>1, <1>2, <1>3, <1>4, <1>5, <1>6, <1>7 DEF RunRequests

LEMMA DropKeepsRuns ==
  ASSUME DocInv, RunInv, NEW c \in Caller, Drop(c)
  PROVE  RunInv'
  <1>1. call'[c].pc = "idle" /\ \A d \in Caller \ {c} : call'[d] = call[d]
    BY DropKeeps
  <1>2. run' = run /\ token' = token
    BY DEF Drop
  <1>3. CASE At(c, "fireFlip")
    <2>1. /\ inflight' = inflight \ {call[c].node} /\ run[call[c].node] = "none"
          /\ \A d \in Caller \ {c} : At(d, "fireFlip") => call[d].node # call[c].node
      BY <1>3 DEF Drop, RunInv, FirerHoldsLock
    <2>2. RunTypes' /\ RunCallsName' /\ RevokedHasNone' /\ TokensDieWithRuns'
      BY <1>1, <1>2, <2>1 DEF RunInv, RunTypes, RunCallsName, RunCalls, RevokedHasNone,
                             TokensDieWithRuns
    <2>3. FirerHoldsLock'
      BY <1>1, <1>2, <2>1 DEF RunInv, FirerHoldsLock, At
    <2> QED BY <2>2, <2>3 DEF RunInv
  <1>4. CASE ~At(c, "fireFlip")
    <2>1. inflight' = inflight
      BY <1>4 DEF Drop
    <2> QED BY <1>1, <1>2, <2>1, AsideKeeps DEF Aside, RunCalls
  <1> QED BY <1>3, <1>4

LEMMA CrashKeepsRuns ==
  ASSUME DocInv, Crash
  PROVE  RunInv'
  <1>1. \A c \in Caller : call'[c].pc = "idle"
    BY CrashKeeps
  <1>2. inflight' = {} /\ token' = {} /\ run' \in [Node -> RunPC]
        /\ \A n \in Node : run'[n] = "none"
    BY DEF Crash, RunPC
  <1> QED
    BY <1>1, <1>2 DEF RunInv, RunTypes, RunCallsName, RunCalls, FirerHoldsLock,
                      RevokedHasNone, TokensDieWithRuns, At

-----------------------------------------------------------------------------
Inv == DocInv /\ RunInv

LEMMA InitInv == Init => Inv
  <1> SUFFICES ASSUME Init PROVE Inv
    OBVIOUS
  <1> USE DEF Init, DocumentInit, MapInit
  <1>1. /\ call \in [Caller -> CallRec]
        /\ \A c \in Caller : call[c].pc = "idle" /\ call[c].bundle.doc = "no"
    <2>1. call \in [Caller -> CallRec] /\ \A c \in Caller : call[c] = NoCall
      BY NullTypes
    <2> QED BY <2>1 DEF NoCall, NoBundle
  <1>2. sync \in [Caller -> SyncRec] /\ \A c \in Caller : sync[c].pc = "none"
    <2>1. sync \in [Caller -> SyncRec] /\ \A c \in Caller : sync[c] = NoSync
      BY NullTypes
    <2> QED BY <2>1 DEF NoSync
  <1>3. doc \in [version : Nat, text : SUBSET Edit]
        /\ sections \in [version : Nat, by : Node \cup {NoNode}]
    OBVIOUS
  <1>4. node \in [Node -> State \cup {"absent"}]
    BY DEF State
  <1>5. DocInv
    BY <1>1, <1>2, <1>3, <1>4
    DEF DocInv, Types, DocumentTypes, MapTypes, BlankBundle, LockInv, HolderWrites,
        CheckedStays, TextIsCurrent, EditIsThere, DecisionInDocument
  <1>6. run \in [Node -> RunPC] /\ \A n \in Node : run[n] = "none"
    BY DEF RunPC
  <1>7. RunInv
    BY <1>1, <1>6 DEF RunInv, RunTypes, RunCallsName, RunCalls, FirerHoldsLock,
                      RevokedHasNone, TokensDieWithRuns, At
  <1> QED BY <1>5, <1>7 DEF Inv

\* A new request of the map, of a user or of an agent.
LEMMA NewMapRequestKeeps ==
  ASSUME Inv, NEW c \in Caller, NewMapRequest(c), UNCHANGED runVars
  PROVE  Inv'
  <1>0. UNCHANGED <<inflight, run, token>>
    BY DEF runVars
  <1>1. CASE MapRequests(c)
    <2>1. Quiet(c) /\ Aside(c)
      BY <1>1, MapRequestsAreQuiet DEF Inv, DocInv
    <2> QED BY <1>0, <2>1, QuietKeeps, AsideKeeps DEF Inv, Quiet
  <1>2. ASSUME NEW by \in Rows \cup {NoNode}, SyncDocument(c, by) PROVE Inv'
    BY <1>0, <1>2, SyncDocumentKeeps, AsideKeeps DEF Inv
  <1>3. ASSUME NEW n \in Rows, NEW b \in Bundles, ResolveNode(c, n, b) PROVE Inv'
    BY <1>0, <1>3, ResolveNodeKeeps, AsideKeeps DEF Inv
  <1> QED BY <1>1, <1>2, <1>3 DEF NewMapRequest, MapRequests

\* A step of a request of the map.
LEMMA MapStepKeeps ==
  ASSUME Inv, NEW c \in Caller, MapStep(c), UNCHANGED runVars
  PROVE  Inv'
  <1>0. UNCHANGED <<inflight, run, token>>
    BY DEF runVars
  <1>1. CASE MapWrites(c)
    <2>1. Quiet(c) /\ Aside(c)
      BY <1>1, MapWritesAreQuiet DEF Inv, DocInv
    <2> QED BY <1>0, <2>1, QuietKeeps, AsideKeeps DEF Inv, Quiet
  <1>2. CASE SyncStep(c) /\ UNCHANGED mapVars
    <2>1. call' = call
      BY <1>2 DEF mapVars
    <2> QED BY <1>0, <1>2, <2>1, SyncStepKeeps, AsideKeeps DEF Inv, Aside
  <1>3. CASE SyncAnswered(c)
    BY <1>0, <1>3, SyncAnsweredKeeps, AsideKeeps DEF Inv
  <1>4. CASE Settle(c)
    BY <1>0, <1>4, SettleKeeps, AsideKeeps DEF Inv
  <1> QED BY <1>1, <1>2, <1>3, <1>4 DEF MapStep, MapWrites

LEMMA RunRequestsKeepBoth ==
  ASSUME Inv, NEW c \in Caller, RunRequests(c)
  PROVE  Inv'
  <1>1. Quiet(c)
    BY RunRequestsAreQuiet DEF Inv, DocInv
  <1> QED BY <1>1, QuietKeeps, RunRequestsKeep DEF Inv

\* Every step keeps the invariant.
LEMMA NextInv == Inv /\ [Next]_vars => Inv'
  <1> SUFFICES ASSUME Inv, [Next]_vars PROVE Inv'
    OBVIOUS
  <1>1. ASSUME NEW h \in Handler, UserRequest(h) PROVE Inv'
    <2>1. h \in Caller
      BY NodeRunsAssumption
    <2>2. CASE NewMapRequest(h) /\ UNCHANGED runVars
      BY <2>1, <2>2, NewMapRequestKeeps
    <2>3. CASE RunRequests(h)
      BY <2>1, <2>3, RunRequestsKeepBoth
    <2> QED BY <1>1, <2>2, <2>3 DEF UserRequest, RunRequests
  <1>2. ASSUME NEW n \in Node, AgentRequest(n) PROVE Inv'
    <2>1. n \in Caller
      BY NodeRunsAssumption
    <2> QED BY <1>2, <2>1, NewMapRequestKeeps DEF AgentRequest
  <1>3. ASSUME NEW n \in Node, Moves(n) PROVE Inv'
    <2>1. n \in Caller /\ Quiet(n)
      BY <1>3, MovesAreQuiet DEF Inv
    <2>2. RunMoves(n)
      BY <1>3, MovesMove DEF Inv, RunInv
    <2> QED BY <2>1, <2>2, QuietKeeps, RunMovesKeeps DEF Inv
  <1>4. ASSUME NEW n \in Node, FreeNode(n) PROVE Inv'
    BY <1>4, MovesAreQuiet, QuietKeeps, FreeNodeKeeps DEF Inv
  <1>5. ASSUME NEW n \in Node, ExpireToken(n) PROVE Inv'
    BY <1>5, MovesAreQuiet, QuietKeeps, ExpireTokenKeeps DEF Inv
  <1>6. ASSUME NEW c \in Caller, RequestStep(c) PROVE Inv'
    <2>1. CASE MapStep(c) /\ UNCHANGED runVars
      BY <2>1, MapStepKeeps
    <2>2. CASE RunRequests(c)
      BY <2>2, RunRequestsKeepBoth
    <2> QED BY <1>6, <2>1, <2>2 DEF RequestStep, RunRequests
  <1>7. ASSUME NEW c \in Caller, Drop(c) PROVE Inv'
    BY <1>7, DropKeeps, DropKeepsRuns DEF Inv
  <1>8. CASE Crash
    BY <1>8, CrashKeeps, CrashKeepsRuns DEF Inv
  <1>9. CASE UNCHANGED vars
    <2>1. UNCHANGED <<doc, lineage, sections, docLock, sync, node, scope, call, decided,
                      inflight, run, token>>
      BY <1>9 DEF vars, docVars, mapVars, mapRows, runVars
    <2> QED
      BY <2>1 DEF Inv, DocInv, Types, DocumentTypes, MapTypes, BlankBundle, LockInv,
          HolderWrites, CheckedStays, TextIsCurrent, EditIsThere, DecisionInDocument,
          RunInv, RunTypes, RunCallsName, FirerHoldsLock, RevokedHasNone,
          TokensDieWithRuns, At
  <1> QED
    BY <1>1, <1>2, <1>3, <1>4, <1>5, <1>6, <1>7, <1>8, <1>9 DEF Next, RunStep, Moves

\* A decision recorded with an edit of the document is in the document, for any
\* number of callers, whatever they ask, drop or lose.
THEOREM DecisionsStay == Spec => []DecisionInDocument
  <1>1. Inv => DecisionInDocument
    BY DEF Inv, DocInv
  <1> QED BY InitInv, NextInv, <1>1, PTL DEF Spec

\* A capability token is live only while its run is, and a run only while the
\* node's run lock is held.
THEOREM TokensDie == Spec => []TokensDieWithRuns
  <1>1. Inv => TokensDieWithRuns
    BY DEF Inv, RunInv
  <1> QED BY InitInv, NextInv, <1>1, PTL DEF Spec

-----------------------------------------------------------------------------
\* A new request is counted, and nothing else is.
LEMMA RequestsCount ==
  ASSUME NEW c \in Caller,
         NewMapRequest(c) \/ \E n \in Rows : OpenSession(c, n) \/ PostMessage(c, n) \/ FireNode(c, n)
  PROVE  requests' = requests + 1
  BY DEF NewMapRequest, CreateNode, LinkMapNodes, PatchNode, PatchProse, SyncDocument,
         ResolveNode, PostComment, ResolveThread, PromoteThread, OpenSession, PostMessage,
         FireNode, Request

\* The steps after which a node's state may be another.
NodeWrites(c) ==
    \/ Settle(c) \/ CloseRuling(c)
    \/ \E g \in Fresh : Graduate(c, g) \/ RuleOut(c, g) \/ PromoteCreate(c, g)
    \/ \E u \in call[c].bundle.upd : UpdateNode(c, u)
    \/ Flip(c) \/ FireFlip(c)

LEMMA RequestStepsWrite ==
  ASSUME NEW c \in Caller, RequestStep(c) \/ Drop(c)
  PROVE  requests' = requests /\ (node' = node \/ NodeWrites(c))
  <1>1. CASE Drop(c)
    BY <1>1 DEF Drop, mapRows
  <1>2. CASE StartReply(c) \/ FireLocks(c)
    BY <1>2 DEF StartReply, FireLocks, mapRows
  <1>3. CASE Flip(c) \/ FireFlip(c)
    BY <1>3 DEF Flip, FireFlip, NodeWrites
  <1>4. CASE SyncStep(c) /\ UNCHANGED mapVars
    BY <1>4 DEF mapVars, mapRows
  <1>5. CASE SyncAnswered(c) \/ CompleteSession(c) \/ StoreAsset(c) \/ ReadScope(c)
             \/ WriteScope(c) \/ TrimFog(c) \/ LinkInsert(c) \/ LinksDone(c) \/ StampThread(c)
             \/ \E l \in call[c].links : LinkCheck(c, l)
    BY <1>5 DEF SyncAnswered, CompleteSession, StoreAsset, ReadScope, WriteScope, TrimFog,
                LinkInsert, LinksDone, StampThread, LinkCheck, mapRows
  <1>6. CASE Settle(c) \/ CloseRuling(c)
             \/ (\E g \in Fresh : Graduate(c, g) \/ RuleOut(c, g) \/ PromoteCreate(c, g))
             \/ \E u \in call[c].bundle.upd : UpdateNode(c, u)
    BY <1>6 DEF Settle, CloseRuling, Graduate, RuleOut, PromoteCreate, UpdateNode, NodeWrites
  <1> QED BY <1>1, <1>2, <1>3, <1>4, <1>5, <1>6 DEF RequestStep, MapStep

\* Of a run only the report of an unattended one writes its node.
LEMMA RunStepsWrite ==
  ASSUME NEW n \in Node, Moves(n) \/ FreeNode(n) \/ ExpireToken(n)
  PROVE  requests' = requests /\ (node' = node \/ AfkSettle(n))
  BY DEF Moves, StartRun, RecordResume, AppendReply, RecordEvidence, AfkSettle, RevokeToken,
         AgentExits, ReplyEnds, AfkEnds, AfkFails, SettingsFail, RunPanics, FreeNode,
         ExpireToken, onlyRuns, mapVars, mapRows

\* What may take a node out of a settled state.
Says(n) ==
    \/ requests' # requests
    \/ \E c \in Caller :
          /\ call'[c] # call[c]
          /\ \/ At(c, "settle") /\ call[c].node = n
             \/ At(c, "close") /\ call[c].at = n
             \/ <<n, node'[n]>> \in call[c].bundle.upd

SettledKept == \A n \in Node : node[n] \in Settled /\ node'[n] # node[n] => Says(n)

LEMMA NodeWritesSay ==
  ASSUME DocInv, NEW c \in Caller, NodeWrites(c)
  PROVE  SettledKept
  <1> SUFFICES ASSUME NEW n \in Node, node[n] \in Settled, node'[n] # node[n]
               PROVE  Says(n)
    BY DEF SettledKept
  <1>0. call[c] \in CallRec /\ node \in [Node -> State \cup {"absent"}]
    BY DEF DocInv, Types, MapTypes
  <1>1. CASE Settle(c)
    <2>1. call'[c].pc = "complete" /\ call[c].pc = "settle"
      BY <1>1, CallGoes DEF Settle, At, DocInv, Types, MapTypes, CallPC
    <2> QED BY <1>0, <1>1, <2>1 DEF Settle, Says
  <1>2. CASE CloseRuling(c)
    <2>1. call'[c].pc = "readScope" /\ call[c].pc = "close"
      BY <1>2, CallGoes DEF CloseRuling, At, DocInv, Types, MapTypes, CallPC
    <2> QED BY <1>0, <1>2, <2>1 DEF CloseRuling, Says
  <1>3. CASE \E g \in Fresh : Graduate(c, g) \/ RuleOut(c, g) \/ PromoteCreate(c, g)
    BY <1>0, <1>3 DEF Graduate, RuleOut, PromoteCreate, Settled
  <1>4. ASSUME NEW u \in call[c].bundle.upd, UpdateNode(c, u)
        PROVE  Says(n)
    <2>1. u \in Node \X State /\ u = <<u[1], u[2]>>
      BY <1>0 DEF CallRec, BundleRec
    <2>2. n = u[1] /\ node'[n] = u[2]
      BY <1>0, <1>4, <2>1 DEF UpdateNode
    <2>3. u \notin call'[c].bundle.upd
      BY <1>0, <1>4 DEF UpdateNode, CallRec, BundleRec, DocInv, Types, MapTypes
    <2>4. call'[c] # call[c]
      BY <2>3
    <2> QED BY <2>1, <2>2, <2>4 DEF Says
  <1>5. CASE Flip(c)
    BY <1>0, <1>5 DEF Flip, Settled
  <1>6. CASE FireFlip(c)
    BY <1>0, <1>6 DEF FireFlip, Settled
  <1> QED BY <1>1, <1>2, <1>3, <1>4, <1>5, <1>6 DEF NodeWrites

LEMMA NextCounts ==
  ASSUME DocInv, requests \in Nat, [Next]_vars
  PROVE  requests' \in Nat /\ SettledKept
  <1>1. ASSUME requests' = requests + 1 PROVE requests' \in Nat /\ SettledKept
    BY <1>1 DEF SettledKept, Says
  <1>2. ASSUME requests' = requests, node' = node PROVE requests' \in Nat /\ SettledKept
    BY <1>2 DEF SettledKept
  <1>3. ASSUME NEW h \in Handler, UserRequest(h) PROVE requests' = requests + 1
    BY <1>3, RequestsCount, NodeRunsAssumption DEF UserRequest
  <1>4. ASSUME NEW n \in Node, AgentRequest(n) PROVE requests' = requests + 1
    BY <1>4, RequestsCount, NodeRunsAssumption DEF AgentRequest
  <1>5. ASSUME NEW n \in Node, Moves(n) \/ FreeNode(n) \/ ExpireToken(n)
        PROVE  requests' \in Nat /\ SettledKept
    <2>1. requests' = requests /\ (node' = node \/ AfkSettle(n))
      BY <1>5, RunStepsWrite
    <2>2. CASE AfkSettle(n)
      BY <2>1, <2>2 DEF AfkSettle, SettledKept, Settled, DocInv, Types, MapTypes
    <2> QED BY <1>2, <2>1, <2>2
  <1>6. ASSUME NEW c \in Caller, RequestStep(c) \/ Drop(c)
        PROVE  requests' \in Nat /\ SettledKept
    <2>1. requests' = requests /\ (node' = node \/ NodeWrites(c))
      BY <1>6, RequestStepsWrite
    <2> QED BY <1>2, <2>1, NodeWritesSay
  <1>7. CASE Crash
    BY <1>2, <1>7 DEF Crash, mapRows
  <1>8. CASE UNCHANGED vars
    BY <1>2, <1>8 DEF vars, mapVars, mapRows
  <1> QED
    BY <1>1, <1>3, <1>4, <1>5, <1>6, <1>7, <1>8 DEF Next, RunStep, Moves

Counted == Inv /\ requests \in Nat

LEMMA CountedAlways == Spec => []Counted
  <1>1. Init => Counted
    BY InitInv DEF Init, MapInit, Counted
  <1>2. Counted /\ [Next]_vars => Counted'
    BY NextInv, NextCounts DEF Counted, Inv
  <1> QED BY <1>1, <1>2, PTL DEF Spec

\* A node that is settled is moved only by a request that says so, for any
\* nodes, people, bundles and faults: never by an engine that had read it open.
THEOREM SettledNodesStay == Spec => SettledStays
  <1>1. Counted /\ [Next]_vars =>
          [\A n \in Node : node[n] \in Settled /\ node'[n] # node[n] =>
              \/ requests' # requests
              \/ \E c \in Caller :
                    /\ call'[c] # call[c]
                    /\ \/ At(c, "settle") /\ call[c].node = n
                       \/ At(c, "close") /\ call[c].at = n
                       \/ <<n, node'[n]>> \in call[c].bundle.upd]_vars
    BY NextCounts DEF Counted, Inv, SettledKept, Says
  <1> QED BY CountedAlways, <1>1, PTL DEF Spec, SettledStays

=============================================================================
