---------------------------- MODULE AdminProofs ----------------------------
(***************************************************************************)
(* Proofs about Admin, for any users, sessions, settings and bounds: an    *)
(* instance keeps an admin, and launches what its settings allow, until    *)
(* two requests cross between a check and the write it guards.             *)
(***************************************************************************)
EXTENDS Admin, FiniteSetTheorems, TLAPS

-----------------------------------------------------------------------------
(***************************************************************************)
(* Accounts.                                                               *)
(***************************************************************************)

UserRec == [active : BOOLEAN, role : Role, pw : Nat]
CallRec == [pc : {"idle", "create", "issue", "verify", "refresh", "drop", "setPassword", "revoke",
                  "activate", "writeActive", "demote", "writeRole"},
            user : User \cup {"none"}, sid : Nat, role : Role \cup {"keep"},
            active : {"keep", "yes", "no"}, pw : Nat]

\* Sessions, tokens and requests are of users that there are.
RowTypes ==
    /\ users \in [DOMAIN users -> UserRec] /\ DOMAIN users \subseteq User
    /\ sessions \in [DOMAIN sessions -> DOMAIN users] /\ DOMAIN sessions \subseteq Nat
    /\ issued \in Nat
    /\ tokens \subseteq [sub : DOMAIN users, sid : Nat, role : Role]

\* Only user management activates, deactivates, promotes and demotes.
CallOK(h, r, known) ==
    /\ r \in CallRec
    /\ r.pc \notin {"idle", "create"} => r.user \in known
    /\ r.pc = "create" => r.user \in User /\ r.role \in Role
    /\ r.pc = "create" /\ r.role = "user" => known # {}
    /\ r.pc \in {"issue", "verify"} => r.role \in Role
    /\ r.pc \in {"activate", "writeActive"} => r.active # "keep"
    /\ h \in Device => /\ r.pc \notin {"activate", "writeActive", "demote", "writeRole"}
                       /\ r.pc \in {"setPassword", "revoke"} => r.role = "keep"

Types ==
    /\ RowTypes
    /\ call \in [Handler -> CallRec]
    /\ \A h \in Handler : CallOK(h, call[h], DOMAIN users)

\* What was checked before a write still holds: another admin is there.
WriteOK(r) == Removes(r) => ActiveAdmins \ {r.user} # {}

\* There is an admin, and what was checked holds.
Guarded ==
    /\ DOMAIN users # {} => ActiveAdmins # {}
    /\ \A h \in Desk : WriteOK(call[h])

AdminInv == Types /\ ("admins" \notin races => Guarded)

\* The count decides: an active admin who is not the last leaves another one.
LEMMA NotTheLast ==
  ASSUME NEW u, ~LastAdmin(u), ActiveAdmins # {}
  PROVE  ActiveAdmins \ {u} # {}
  <1>1. CASE u \notin ActiveAdmins
    BY <1>1
  <1>2. CASE u \in ActiveAdmins
    <2>1. ~(Cardinality(ActiveAdmins) <= 1)
      BY <1>2 DEF LastAdmin
    <2>2. IsFiniteSet({u}) /\ Cardinality({u}) = 1
      BY FS_Singleton
    <2>3. SUFFICES ASSUME ActiveAdmins \subseteq {u}
                   PROVE  FALSE
      OBVIOUS
    <2>4. Cardinality(ActiveAdmins) <= Cardinality({u})
      BY <2>2, <2>3, FS_Subset
    <2> QED BY <2>1, <2>2, <2>4
  <1> QED BY <1>1, <1>2

\* One request moves: the others stand where they stood.
LEMMA OneCallMoves ==
  ASSUME Types, RowTypes', DOMAIN users \subseteq DOMAIN users', NEW h \in Handler, NEW r,
         call' = [call EXCEPT ![h] = r], CallOK(h, r, DOMAIN users')
  PROVE  Types' /\ call'[h] = r /\ \A g \in Handler \ {h} : call'[g] = call[g]
  <1>1. call' \in [Handler -> CallRec]
    BY DEF Types, CallOK
  <1>2. call'[h] = r /\ \A g \in Handler \ {h} : call'[g] = call[g]
    BY DEF Types
  <1>3. ASSUME NEW g \in Handler \ {h}
        PROVE  CallOK(g, call'[g], DOMAIN users')
    <2>1. CallOK(g, call[g], DOMAIN users)
      BY DEF Types
    <2> QED BY <1>2, <2>1 DEF CallOK
  <1> QED BY <1>1, <1>2, <1>3 DEF Types

\* An answered request is over.
LEMMA AnsweredMoves ==
  ASSUME Types, RowTypes', DOMAIN users \subseteq DOMAIN users', NEW h \in Handler, Answered(h)
  PROVE  /\ Types' /\ call'[h].pc = "idle"
         /\ \A g \in Handler \ {h} : call'[g] = call[g]
  <1>1. NoRequest \in CallRec /\ NoRequest.pc = "idle"
    BY DEF NoRequest, CallRec
  <1> QED BY <1>1, OneCallMoves DEF Answered, CallOK

\* A request goes on to its next statement.
LEMMA GoesMoves ==
  ASSUME Types, RowTypes', DOMAIN users \subseteq DOMAIN users', NEW h \in Handler, NEW there,
         Goes(h, there),
         there \in {"issue", "drop", "revoke", "demote", "writeActive", "writeRole"},
         call[h].user \in DOMAIN users',
         there = "issue" => call[h].role \in Role,
         there = "writeActive" => call[h].active # "keep",
         h \in Device => there \in {"issue", "drop", "revoke"},
         h \in Device /\ there = "revoke" => call[h].role = "keep"
  PROVE  /\ Types' /\ call'[h] = [call[h] EXCEPT !.pc = there]
         /\ call'[h].pc = there /\ call'[h].user = call[h].user
         /\ call'[h].role = call[h].role /\ call'[h].active = call[h].active
         /\ \A g \in Handler \ {h} : call'[g] = call[g]
  <1> DEFINE r == [call[h] EXCEPT !.pc = there]
  <1>1. call[h] \in CallRec
    BY DEF Types
  <1>2. /\ r \in CallRec /\ r.pc = there /\ r.user = call[h].user
        /\ r.role = call[h].role /\ r.active = call[h].active
    BY <1>1 DEF CallRec
  <1>3. call' = [call EXCEPT ![h] = r]
    BY DEF Goes
  <1> HIDE DEF r
  <1>4. CallOK(h, r, DOMAIN users')
    BY <1>2 DEF CallOK
  <1>5. Types' /\ call'[h] = r /\ \A g \in Handler \ {h} : call'[g] = call[g]
    BY <1>3, <1>4, OneCallMoves
  <1> QED BY <1>2, <1>5 DEF r

\* So does one that has activated or deactivated a user.
LEMMA ActivatedMoves ==
  ASSUME Types, RowTypes', DOMAIN users \subseteq DOMAIN users', NEW h \in Handler,
         NEW there \in {"revoke", "demote"}, Activated(h, there),
         call[h].user \in DOMAIN users', h \notin Device
  PROVE  Types' /\ call'[h].pc = there /\ \A g \in Handler \ {h} : call'[g] = call[g]
  <1> DEFINE r == [call[h] EXCEPT !.pc = there, !.active = "keep"]
  <1>1. call[h] \in CallRec /\ call \in [Handler -> CallRec]
    BY DEF Types
  <1>2. r \in CallRec /\ r.pc = there /\ r.user = call[h].user
    BY <1>1 DEF CallRec
  <1>3. call' = [call EXCEPT ![h] = r]
    BY DEF Activated
  <1> HIDE DEF r
  <1>4. CallOK(h, r, DOMAIN users')
    BY <1>2 DEF CallOK
  <1> QED BY <1>2, <1>3, <1>4, OneCallMoves

\* Requests that begin ask for something that is possible.
LEMMA BeginsMoves ==
  ASSUME Types, UNCHANGED rows, NEW h \in Handler, NEW r, Begins(h, r), CallOK(h, r, DOMAIN users)
  PROVE  Types' /\ call'[h] = r /\ \A g \in Handler \ {h} : call'[g] = call[g]
  <1>1. RowTypes' /\ DOMAIN users' = DOMAIN users
    BY DEF rows, Types, RowTypes
  <1> QED BY <1>1, OneCallMoves DEF Begins

-----------------------------------------------------------------------------
\* Rows of users are added, and keep their username.
LEMMA CreateRowMoves ==
  ASSUME Types, NEW h \in Handler, CreateRow(h)
  PROVE  /\ Types' /\ call'[h].pc \in {"idle", "issue"}
         /\ \A g \in Handler \ {h} : call'[g] = call[g]
         /\ DOMAIN users \subseteq DOMAIN users' /\ \A u \in DOMAIN users : users'[u] = users[u]
         /\ DOMAIN users = {} /\ DOMAIN users' # {} =>
               \E u \in DOMAIN users' : users'[u].active /\ users'[u].role = "admin"
  <1> DEFINE u == call[h].user
             row == [active |-> TRUE, role |-> call[h].role, pw |-> 0]
  <1>0. RowTypes /\ CallOK(h, call[h], DOMAIN users) /\ At(h, "create")
        /\ UNCHANGED <<sessions, issued, tokens>>
    BY DEF Types, CreateRow
  <1>1. CASE u \in DOMAIN users
    <2>1. Answered(h) /\ users' = users
      BY <1>1 DEF CreateRow
    <2>2. RowTypes'
      BY <1>0, <2>1 DEF RowTypes
    <2> QED BY <2>1, <2>2, AnsweredMoves
  <1>2. CASE u \notin DOMAIN users
    <2>1. /\ users' = [v \in DOMAIN users \cup {u} |-> IF v = u THEN row ELSE users[v]]
          /\ (h \in Device /\ Goes(h, "issue")) \/ Answered(h)
      BY <1>2 DEF CreateRow
    <2>2. row \in UserRec /\ u \in User /\ call[h].role \in Role /\ row.active /\ row.role = call[h].role
      BY <1>0 DEF CallOK, At, UserRec
    <2>3. /\ DOMAIN users' = DOMAIN users \cup {u} /\ users'[u] = row
          /\ \A v \in DOMAIN users : users'[v] = users[v]
      BY <1>2, <2>1
    <2> HIDE DEF row
    <2>4. users' \in [DOMAIN users' -> UserRec] /\ DOMAIN users' \subseteq User
      BY <1>0, <2>1, <2>2, <2>3 DEF RowTypes
    <2>5. RowTypes'
      <3>1. sessions' \in [DOMAIN sessions' -> DOMAIN users']
        BY <1>0, <2>3 DEF RowTypes
      <3>2. tokens' \subseteq [sub : DOMAIN users', sid : Nat, role : Role]
        BY <1>0, <2>3 DEF RowTypes
      <3> QED BY <1>0, <2>4, <3>1, <3>2 DEF RowTypes
    <2>6. /\ Types' /\ call'[h].pc \in {"idle", "issue"}
          /\ \A g \in Handler \ {h} : call'[g] = call[g]
      <3>1. CASE Answered(h)
        BY <2>3, <2>5, <3>1, AnsweredMoves
      <3>2. CASE h \in Device /\ Goes(h, "issue")
        <4>1. u \in DOMAIN users'
          BY <2>3
        <4> QED BY <2>2, <2>3, <2>5, <3>2, <4>1, GoesMoves
      <3> QED BY <2>1, <3>1, <3>2
    <2>7. DOMAIN users = {} => call[h].role = "admin"
      BY <1>0 DEF CallOK, At, Role
    <2> QED BY <2>2, <2>3, <2>6, <2>7
  <1> QED BY <1>1, <1>2

\* A statement rewrites a column of one user.
LEMMA OneUserMoves ==
  ASSUME Types, NEW u \in DOMAIN users, NEW row \in UserRec, users' = [users EXCEPT ![u] = row],
         UNCHANGED <<sessions, issued, tokens>>
  PROVE  /\ RowTypes' /\ DOMAIN users' = DOMAIN users /\ users'[u] = row
         /\ \A v \in DOMAIN users \ {u} : users'[v] = users[v]
  BY DEF Types, RowTypes

\* Every other statement of a request writes no user.
Reads(h) ==
    \/ VerifyPassword(h) \/ Issue(h) \/ RefreshMints(h) \/ DropSession(h) \/ RevokeSessions(h)
    \/ CheckActive(h) \/ CheckRole(h)

\* They keep the types, and what one of them goes on to write is allowed.
LEMMA ReadsMove ==
  ASSUME Types, NEW h \in Handler, Reads(h)
  PROVE  /\ Types' /\ users' = users /\ (Guarded => WriteOK(call'[h]))
         /\ \A g \in Handler \ {h} : call'[g] = call[g]
  <1>0. /\ Types /\ RowTypes /\ CallOK(h, call[h], DOMAIN users) /\ call[h] \in CallRec
        /\ Guarded /\ DOMAIN users # {} => ActiveAdmins # {}
    BY DEF Guarded, Types
  <1>1. users' = users
    BY DEF Reads, VerifyPassword, Issue, RefreshMints, DropSession, RevokeSessions, CheckActive,
           CheckRole, rows
  <1>2. ASSUME UNCHANGED rows
        PROVE  RowTypes'
    BY <1>0, <1>2 DEF rows, RowTypes
  <1>3. ASSUME RowTypes', Answered(h)
        PROVE  /\ Types' /\ WriteOK(call'[h])
               /\ \A g \in Handler \ {h} : call'[g] = call[g]
    BY <1>0, <1>1, <1>3, AnsweredMoves DEF WriteOK, Removes
  <1>4. ASSUME RowTypes', NEW there, Goes(h, there), there \in {"issue", "drop", "demote"},
               call[h].user \in DOMAIN users, there = "issue" => call[h].role \in Role,
               there = "demote" => h \notin Device
        PROVE  /\ Types' /\ WriteOK(call'[h])
               /\ \A g \in Handler \ {h} : call'[g] = call[g]
    BY <1>0, <1>1, <1>4, GoesMoves DEF WriteOK, Removes
  <1>5. ASSUME NEW gone, Revokes(gone), UNCHANGED <<users, issued, tokens>>
        PROVE  RowTypes'
    <2>1. sessions' = [s \in DOMAIN sessions \ gone |-> sessions[s]]
      BY <1>5 DEF Revokes, Restrict
    <2> QED BY <1>0, <1>5, <2>1 DEF RowTypes
  <1>6. CASE VerifyPassword(h)
    <2>1. At(h, "verify") /\ UNCHANGED rows /\ (Goes(h, "issue") \/ Answered(h))
      BY <1>6 DEF VerifyPassword
    <2> QED BY <1>0, <1>1, <1>2, <1>3, <1>4, <2>1 DEF CallOK, At
  <1>7. CASE Issue(h)
    <2>1. /\ At(h, "issue") /\ Answered(h) /\ issued' = issued + 1
          /\ sessions' = [r \in DOMAIN sessions \cup {issued + 1} |->
                             IF r = issued + 1 THEN call[h].user ELSE sessions[r]]
          /\ tokens' = tokens \cup {Token(call[h].user, issued + 1, call[h].role)}
      BY <1>7 DEF Issue
    <2>2. call[h].user \in DOMAIN users /\ call[h].role \in Role
      BY <1>0, <2>1 DEF CallOK, At
    <2>3. Token(call[h].user, issued + 1, call[h].role) \in [sub : DOMAIN users, sid : Nat, role : Role]
      BY <1>0, <2>2 DEF Token, RowTypes
    <2>4. sessions' \in [DOMAIN sessions' -> DOMAIN users] /\ DOMAIN sessions' \subseteq Nat
      BY <1>0, <2>1, <2>2 DEF RowTypes
    <2>5. RowTypes'
      BY <1>0, <1>1, <2>1, <2>3, <2>4 DEF RowTypes
    <2> QED BY <1>1, <1>3, <2>1, <2>5
  <1>8. CASE RefreshMints(h)
    <2>1. /\ At(h, "refresh") /\ UNCHANGED <<users, sessions, issued>>
          /\ \/ /\ tokens' = tokens \cup {Token(call[h].user, call[h].sid, users[call[h].user].role)}
                /\ Answered(h)
             \/ Goes(h, "drop") /\ UNCHANGED tokens
      BY <1>8 DEF RefreshMints
    <2>2. call[h].user \in DOMAIN users /\ users[call[h].user] \in UserRec
      BY <1>0, <2>1 DEF CallOK, At, RowTypes
    <2>3. Token(call[h].user, call[h].sid, users[call[h].user].role)
             \in [sub : DOMAIN users, sid : Nat, role : Role]
      BY <1>0, <2>2 DEF Token, UserRec, CallRec
    <2>4. RowTypes'
      BY <1>0, <2>1, <2>3 DEF RowTypes
    <2> QED BY <1>1, <1>3, <1>4, <2>1, <2>2, <2>4
  <1>9. CASE DropSession(h)
    <2>1. RowTypes'
      BY <1>5, <1>9 DEF DropSession
    <2> QED BY <1>1, <1>3, <1>9, <2>1 DEF DropSession
  <1>10. CASE RevokeSessions(h)
    <2>1. RowTypes'
      BY <1>5, <1>10 DEF RevokeSessions
    <2>2. call[h].user \in DOMAIN users /\ (h \in Device => call[h].role = "keep")
      BY <1>0, <1>10 DEF RevokeSessions, CallOK, At
    <2> QED BY <1>1, <1>3, <1>4, <1>10, <2>1, <2>2 DEF RevokeSessions
  <1>11. CASE CheckActive(h)
    <2>1. /\ At(h, "activate") /\ UNCHANGED rows
          /\ \/ Answered(h)
             \/ Goes(h, "writeActive") /\ ~(call[h].active = "no" /\ LastAdmin(call[h].user))
      BY <1>11 DEF CheckActive
    <2>2. call[h].user \in DOMAIN users /\ h \notin Device /\ call[h].active # "keep"
      BY <1>0, <2>1 DEF CallOK, At
    <2>3. CASE Goes(h, "writeActive") /\ ~(call[h].active = "no" /\ LastAdmin(call[h].user))
      <3>1. /\ Types' /\ call'[h].pc = "writeActive" /\ call'[h].user = call[h].user
            /\ call'[h].active = call[h].active
            /\ \A g \in Handler \ {h} : call'[g] = call[g]
        BY <1>0, <1>1, <1>2, <2>1, <2>2, <2>3, GoesMoves
      <3>2. Guarded /\ call[h].active = "no" => ActiveAdmins \ {call[h].user} # {}
        BY <1>0, <2>2, <2>3, NotTheLast
      <3> QED BY <1>1, <3>1, <3>2 DEF WriteOK, Removes
    <2> QED BY <1>1, <1>2, <1>3, <2>1, <2>3
  <1>12. CASE CheckRole(h)
    <2>1. /\ At(h, "demote") /\ UNCHANGED rows
          /\ \/ Answered(h)
             \/ Goes(h, "writeRole") /\ ~(call[h].role = "user" /\ LastAdmin(call[h].user))
      BY <1>12 DEF CheckRole
    <2>2. call[h].user \in DOMAIN users /\ h \notin Device
      BY <1>0, <2>1 DEF CallOK, At
    <2>3. CASE Goes(h, "writeRole") /\ ~(call[h].role = "user" /\ LastAdmin(call[h].user))
      <3>1. /\ Types' /\ call'[h].pc = "writeRole" /\ call'[h].user = call[h].user
            /\ call'[h].role = call[h].role
            /\ \A g \in Handler \ {h} : call'[g] = call[g]
        BY <1>0, <1>1, <1>2, <2>1, <2>2, <2>3, GoesMoves
      <3>2. Guarded /\ call[h].role = "user" => ActiveAdmins \ {call[h].user} # {}
        BY <1>0, <2>2, <2>3, NotTheLast
      <3> QED BY <1>1, <3>1, <3>2 DEF WriteOK, Removes
    <2> QED BY <1>1, <1>2, <1>3, <2>1, <2>3
  <1> QED BY <1>1, <1>6, <1>7, <1>8, <1>9, <1>10, <1>11, <1>12 DEF Reads

\* The statements that rewrite a user take the right from at most that one, and
\* then only where it was checked.
LEMMA WritesMove ==
  ASSUME Types, NEW h \in Handler, SetPassword(h) \/ WriteActive(h) \/ WriteRole(h)
  PROVE  /\ Types' /\ DOMAIN users' = DOMAIN users
         /\ call'[h].pc \in {"idle", "revoke", "demote"}
         /\ \A g \in Handler \ {h} : call'[g] = call[g]
         /\ Guarded /\ ActiveAdmins # {} => ActiveAdmins' # {}
         /\ ActiveAdmins \ {call[h].user} \subseteq ActiveAdmins'
         /\ ActiveAdmins \subseteq ActiveAdmins' \/ h \in Desk
  <1>0. /\ Types /\ RowTypes /\ CallOK(h, call[h], DOMAIN users) /\ call[h] \in CallRec
        /\ h \in Desk \/ h \in Device
    BY DEF Types, Handler
  <1> DEFINE u == call[h].user
  <1>1. u \in DOMAIN users /\ users[u] \in UserRec /\ UNCHANGED <<sessions, issued, tokens>>
    BY <1>0 DEF CallOK, At, SetPassword, WriteActive, WriteRole, RowTypes
  <1>2. ASSUME NEW v \in DOMAIN users', DOMAIN users' = DOMAIN users,
               users'[v].active = users[v].active, users'[v].role = users[v].role, v \in ActiveAdmins
        PROVE  v \in ActiveAdmins'
    BY <1>2 DEF ActiveAdmins
  <1>3. CASE SetPassword(h)
    <2> DEFINE row == [users[u] EXCEPT !.pw = @ + 1]
    <2>1. row \in UserRec /\ row.active = users[u].active /\ row.role = users[u].role
      BY <1>1 DEF UserRec
    <2>2. users' = [users EXCEPT ![u] = row] /\ Goes(h, "revoke")
      BY <1>3 DEF SetPassword
    <2> HIDE DEF row
    <2>3. /\ RowTypes' /\ DOMAIN users' = DOMAIN users /\ users'[u] = row
          /\ \A v \in DOMAIN users \ {u} : users'[v] = users[v]
      BY <1>0, <1>1, <2>1, <2>2, OneUserMoves
    <2>4. ActiveAdmins \subseteq ActiveAdmins'
      <3>1. \A v \in DOMAIN users : users'[v].active = users[v].active /\ users'[v].role = users[v].role
        BY <2>1, <2>3
      <3> QED BY <1>2, <2>3, <3>1 DEF ActiveAdmins
    <2>5. h \in Device => call[h].role = "keep"
      BY <1>0, <1>3 DEF SetPassword, CallOK, At
    <2>6. /\ Types' /\ call'[h].pc = "revoke"
          /\ \A g \in Handler \ {h} : call'[g] = call[g]
      BY <1>0, <1>1, <2>2, <2>3, <2>5, GoesMoves
    <2> QED BY <2>3, <2>4, <2>6
  <1>4. CASE WriteActive(h)
    <2> DEFINE row == [users[u] EXCEPT !.active = (call[h].active = "yes")]
    <2>1. row \in UserRec /\ row.role = users[u].role /\ row.active = (call[h].active = "yes")
      BY <1>1 DEF UserRec
    <2>2. /\ users' = [users EXCEPT ![u] = row] /\ At(h, "writeActive")
          /\ Activated(h, "revoke") \/ Activated(h, "demote") \/ Answered(h)
      BY <1>4 DEF WriteActive
    <2> HIDE DEF row
    <2>3. /\ RowTypes' /\ DOMAIN users' = DOMAIN users /\ users'[u] = row
          /\ \A v \in DOMAIN users \ {u} : users'[v] = users[v]
      BY <1>0, <1>1, <2>1, <2>2, OneUserMoves
    <2>4. h \in Desk /\ h \notin Device
      BY <1>0, <2>2 DEF CallOK, At
    <2>5. \A v \in DOMAIN users \ {u} : v \in ActiveAdmins => v \in ActiveAdmins'
      BY <1>2, <2>3
    <2>6. Guarded /\ ActiveAdmins # {} => ActiveAdmins' # {}
      <3>1. CASE call[h].active = "no"
        <4>1. Guarded => ActiveAdmins \ {u} # {}
          BY <2>2, <2>4, <3>1 DEF Guarded, WriteOK, Removes, At
        <4> QED BY <2>5, <4>1 DEF ActiveAdmins
      <3>2. CASE call[h].active = "yes"
        <4>1. u \in ActiveAdmins => u \in ActiveAdmins'
          BY <1>1, <2>1, <2>3, <3>2 DEF ActiveAdmins
        <4> QED BY <2>5, <4>1 DEF ActiveAdmins
      <3> QED BY <1>0, <2>2, <3>1, <3>2 DEF CallRec, CallOK, At
    <2>7. /\ Types' /\ call'[h].pc \in {"idle", "revoke", "demote"}
          /\ \A g \in Handler \ {h} : call'[g] = call[g]
      <3>1. ASSUME NEW there \in {"revoke", "demote"}, Activated(h, there)
            PROVE  /\ Types' /\ call'[h].pc = there
                   /\ \A g \in Handler \ {h} : call'[g] = call[g]
        BY <1>0, <1>1, <2>3, <2>4, <3>1, ActivatedMoves
      <3> QED BY <1>0, <2>2, <2>3, <3>1, AnsweredMoves
    <2>8. ActiveAdmins \ {u} \subseteq ActiveAdmins'
      BY <2>5 DEF ActiveAdmins
    <2> QED BY <2>3, <2>4, <2>6, <2>7, <2>8
  <1>5. CASE WriteRole(h)
    <2>1. /\ users' = IF call[h].role = "keep" THEN users ELSE [users EXCEPT ![u].role = call[h].role]
          /\ At(h, "writeRole") /\ Answered(h)
      BY <1>5 DEF WriteRole
    <2>2. h \in Desk /\ h \notin Device
      BY <1>0, <2>1 DEF CallOK, At
    <2>3. CASE call[h].role = "keep"
      <3>1. RowTypes' /\ users' = users
        BY <1>0, <1>1, <2>1, <2>3 DEF RowTypes
      <3>2. /\ Types' /\ call'[h].pc = "idle" /\ \A g \in Handler \ {h} : call'[g] = call[g]
        BY <1>0, <2>1, <3>1, AnsweredMoves
      <3> QED BY <2>2, <3>1, <3>2 DEF ActiveAdmins
    <2>4. CASE call[h].role # "keep"
      <3> DEFINE row == [users[u] EXCEPT !.role = call[h].role]
      <3>1. row \in UserRec /\ row.active = users[u].active /\ row.role = call[h].role
        BY <1>0, <1>1, <2>4 DEF UserRec, CallRec
      <3>2. users' = [users EXCEPT ![u] = row]
        BY <2>1, <2>4
      <3> HIDE DEF row
      <3>3. /\ RowTypes' /\ DOMAIN users' = DOMAIN users /\ users'[u] = row
            /\ \A v \in DOMAIN users \ {u} : users'[v] = users[v]
        BY <1>0, <1>1, <3>1, <3>2, OneUserMoves
      <3>4. \A v \in DOMAIN users \ {u} : v \in ActiveAdmins => v \in ActiveAdmins'
        BY <1>2, <3>3
      <3>5. Guarded /\ ActiveAdmins # {} => ActiveAdmins' # {}
        <4>1. CASE call[h].role = "user"
          <5>1. Guarded => ActiveAdmins \ {u} # {}
            BY <2>1, <2>2, <4>1 DEF Guarded, WriteOK, Removes, At
          <5> QED BY <3>4, <5>1 DEF ActiveAdmins
        <4>2. CASE call[h].role = "admin"
          <5>1. u \in ActiveAdmins => u \in ActiveAdmins'
            BY <1>1, <3>1, <3>3, <4>2 DEF ActiveAdmins
          <5> QED BY <3>4, <5>1 DEF ActiveAdmins
        <4> QED BY <1>0, <2>4, <4>1, <4>2 DEF CallRec, Role
      <3>6. /\ Types' /\ call'[h].pc = "idle" /\ \A g \in Handler \ {h} : call'[g] = call[g]
        BY <1>0, <2>1, <3>3, AnsweredMoves
      <3>7. ActiveAdmins \ {u} \subseteq ActiveAdmins'
        BY <3>4 DEF ActiveAdmins
      <3> QED BY <2>2, <3>3, <3>5, <3>6, <3>7
    <2> QED BY <2>3, <2>4
  <1> QED BY <1>3, <1>4, <1>5

\* Requests begin.
LEMMA RequestsMove ==
  ASSUME Types, NEW h \in Handler, (h \in Device /\ DeviceRequest(h)) \/ (h \in Desk /\ DeskRequest(h))
  PROVE  /\ Types' /\ users' = users /\ call'[h].pc \notin {"writeActive", "writeRole"}
         /\ \A g \in Handler \ {h} : call'[g] = call[g]
  <1>0. RowTypes /\ (h \in Desk => h \notin Device)
    BY AccountsAssumption DEF Types
  <1>1. ASSUME NEW r, Begins(h, r), UNCHANGED rows, CallOK(h, r, DOMAIN users),
               r.pc \notin {"writeActive", "writeRole"}
        PROVE  /\ Types' /\ users' = users /\ call'[h].pc \notin {"writeActive", "writeRole"}
               /\ \A g \in Handler \ {h} : call'[g] = call[g]
    BY <1>1, BeginsMoves DEF rows
  <1> USE DEF Asks, NoRequest, CallOK, CallRec, Role
  <1>2. ASSUME NEW u \in User, Setup(h, u)
        PROVE  /\ Types' /\ users' = users /\ call'[h].pc \notin {"writeActive", "writeRole"}
               /\ \A g \in Handler \ {h} : call'[g] = call[g]
    <2> DEFINE r == [Asks("create", u) EXCEPT !.role = "admin"]
    <2>1. CallOK(h, r, DOMAIN users) /\ r.pc = "create"
      OBVIOUS
    <2> HIDE DEF r
    <2>2. Begins(h, r) /\ UNCHANGED rows
      BY <1>2 DEF Setup, r
    <2> QED BY <1>1, <2>1, <2>2
  <1>3. ASSUME NEW u \in User, NEW pw \in 0..MaxRequests, Login(h, u, pw)
        PROVE  /\ Types' /\ users' = users /\ call'[h].pc \notin {"writeActive", "writeRole"}
               /\ \A g \in Handler \ {h} : call'[g] = call[g]
    <2> DEFINE r == [Asks("verify", u) EXCEPT !.pw = pw, !.role = users[u].role,
                       !.active = IF users[u].active THEN "yes" ELSE "no"]
    <2>1. u \in DOMAIN users /\ users[u] \in UserRec
      BY <1>0, <1>3 DEF Login, RowTypes
    <2>2. /\ pw \in Nat /\ users[u].role \in {"admin", "user"}
          /\ (IF users[u].active THEN "yes" ELSE "no") \in {"yes", "no"}
      BY <2>1, AccountsAssumption DEF UserRec
    <2>3. CallOK(h, r, DOMAIN users) /\ r.pc = "verify"
      BY <2>1, <2>2
    <2> HIDE DEF r
    <2>4. Begins(h, r) /\ UNCHANGED rows
      BY <1>3 DEF Login, r
    <2> QED BY <1>1, <2>3, <2>4
  <1>4. ASSUME NEW s \in DOMAIN sessions, Refresh(h, s)
        PROVE  /\ Types' /\ users' = users /\ call'[h].pc \notin {"writeActive", "writeRole"}
               /\ \A g \in Handler \ {h} : call'[g] = call[g]
    <2> DEFINE r == [Asks("refresh", sessions[s]) EXCEPT !.sid = s]
    <2>1. s \in Nat /\ sessions[s] \in DOMAIN users /\ sessions[s] \in User
      BY <1>0 DEF RowTypes
    <2>2. CallOK(h, r, DOMAIN users) /\ r.pc = "refresh"
      BY <2>1
    <2> HIDE DEF r
    <2>3. Begins(h, r) /\ UNCHANGED rows
      BY <1>4 DEF Refresh, r
    <2> QED BY <1>1, <2>2, <2>3
  <1>5. ASSUME NEW t \in tokens, ChangePassword(h, t)
        PROVE  /\ Types' /\ users' = users /\ call'[h].pc \notin {"writeActive", "writeRole"}
               /\ \A g \in Handler \ {h} : call'[g] = call[g]
    <2> DEFINE r == [Asks("setPassword", t.sub) EXCEPT !.sid = t.sid]
    <2>1. t.sid \in Nat /\ t.sub \in DOMAIN users /\ t.sub \in User
      BY <1>0 DEF RowTypes
    <2>2. CallOK(h, r, DOMAIN users) /\ r.pc = "setPassword"
      BY <2>1
    <2> HIDE DEF r
    <2>3. Begins(h, r) /\ UNCHANGED rows
      BY <1>5 DEF ChangePassword, r
    <2> QED BY <1>1, <2>2, <2>3
  <1>6. ASSUME h \in Desk, NEW t \in tokens, NEW u \in User, NEW role \in Role, CreateUser(h, t, u, role)
        PROVE  /\ Types' /\ users' = users /\ call'[h].pc \notin {"writeActive", "writeRole"}
               /\ \A g \in Handler \ {h} : call'[g] = call[g]
    <2> DEFINE r == [Asks("create", u) EXCEPT !.role = role]
    <2>1. DOMAIN users # {}
      BY <1>6 DEF CreateUser, AdminUser, ActiveAdmins
    <2>2. CallOK(h, r, DOMAIN users) /\ r.pc = "create"
      BY <2>1
    <2> HIDE DEF r
    <2>3. Begins(h, r) /\ UNCHANGED rows
      BY <1>6 DEF CreateUser, r
    <2> QED BY <1>1, <2>2, <2>3
  <1>7. ASSUME h \in Desk, NEW t \in tokens, NEW u \in User, ResetPassword(h, t, u)
        PROVE  /\ Types' /\ users' = users /\ call'[h].pc \notin {"writeActive", "writeRole"}
               /\ \A g \in Handler \ {h} : call'[g] = call[g]
    <2> DEFINE r == Asks("setPassword", u)
    <2>1. u \in DOMAIN users
      BY <1>7 DEF ResetPassword
    <2>2. CallOK(h, r, DOMAIN users) /\ r.pc = "setPassword"
      BY <2>1
    <2> HIDE DEF r
    <2>3. Begins(h, r) /\ UNCHANGED rows
      BY <1>7 DEF ResetPassword, r
    <2> QED BY <1>1, <2>2, <2>3
  <1>8. ASSUME h \in Desk, NEW t \in tokens, NEW u \in User, NEW active \in {"keep", "yes", "no"},
               NEW role \in Role \cup {"keep"}, UpdateUser(h, t, u, active, role)
        PROVE  /\ Types' /\ users' = users /\ call'[h].pc \notin {"writeActive", "writeRole"}
               /\ \A g \in Handler \ {h} : call'[g] = call[g]
    <2> DEFINE r == [Asks(IF active = "keep" THEN "demote" ELSE "activate", u)
                       EXCEPT !.active = active, !.role = role]
    <2>1. u \in DOMAIN users
      BY <1>8 DEF UpdateUser
    <2>2. CallOK(h, r, DOMAIN users) /\ r.pc \in {"demote", "activate"}
      BY <1>0, <1>8, <2>1
    <2> HIDE DEF r
    <2>3. Begins(h, r) /\ UNCHANGED rows
      BY <1>8 DEF UpdateUser, r
    <2> QED BY <1>1, <2>2, <2>3
  <1> QED BY <1>2, <1>3, <1>4, <1>5, <1>6, <1>7, <1>8 DEF DeviceRequest, DeskRequest

\* Requests that are one statement, the time that passes, and the settings:
\* rows of sessions and tokens may go, and users stay as they are.
LEMMA RestMoves ==
  ASSUME Types,
         \/ \E t \in tokens : Logout(t) \/ ExpireToken(t)
         \/ \E s \in DOMAIN sessions : ExpireSession(s)
         \/ UNCHANGED <<rows, call>>
  PROVE  Types' /\ users' = users /\ call' = call
  <1>1. /\ users' = users /\ call' = call /\ issued' = issued /\ tokens' \subseteq tokens
        /\ sessions' = sessions \/ \E gone : Revokes(gone)
    BY DEF Logout, ExpireToken, ExpireSession, rows
  <1>2. sessions' \in [DOMAIN sessions' -> DOMAIN users] /\ DOMAIN sessions' \subseteq Nat
    <2>1. ASSUME NEW gone, Revokes(gone)
          PROVE  sessions' \in [DOMAIN sessions' -> DOMAIN users] /\ DOMAIN sessions' \subseteq Nat
      BY <2>1 DEF Revokes, Restrict, Types, RowTypes
    <2> QED BY <1>1, <2>1 DEF Types, RowTypes
  <1> QED BY <1>1, <1>2 DEF Types, RowTypes

\* Requests that were under way are lost.
LEMMA CrashMoves ==
  ASSUME Types, LoseCalls, UNCHANGED rows
  PROVE  Types' /\ users' = users /\ \A h \in Handler : call'[h].pc = "idle"
  <1>1. NoRequest \in CallRec /\ NoRequest.pc = "idle"
    BY DEF NoRequest, CallRec
  <1>2. users' = users /\ call' = [h \in Handler |-> NoRequest] /\ RowTypes'
    BY DEF LoseCalls, rows, Types, RowTypes
  <1> HIDE DEF NoRequest
  <1> QED BY <1>1, <1>2 DEF Types, CallOK

\* A step that writes no user, and moves one request, keeps the order.
LEMMA GuardedMoves ==
  ASSUME Guarded, users' = users, NEW h \in Handler, WriteOK(call'[h]),
         \A g \in Handler \ {h} : call'[g] = call[g]
  PROVE  Guarded'
  <1>1. ActiveAdmins' = ActiveAdmins
    BY DEF ActiveAdmins
  <1>2. ASSUME NEW g \in Desk
        PROVE  WriteOK(call[g])'
    <2>1. WriteOK(call'[g])
      BY DEF Guarded, Handler
    <2> QED BY <1>1, <2>1 DEF WriteOK, Removes
  <1> QED BY <1>1, <1>2 DEF Guarded

\* What a statement that rewrites a user takes from it crosses no other removal.
LEMMA GuardedWrites ==
  ASSUME Types, Guarded, ~RemovalsCross, NEW h \in Handler,
         SetPassword(h) \/ WriteActive(h) \/ WriteRole(h)
  PROVE  Guarded'
  <1>1. /\ DOMAIN users' = DOMAIN users
        /\ call'[h].pc \in {"idle", "revoke", "demote"}
        /\ \A g \in Handler \ {h} : call'[g] = call[g]
        /\ ActiveAdmins # {} => ActiveAdmins' # {}
    BY WritesMove
  <1>2. ASSUME NEW g \in Desk
        PROVE  WriteOK(call[g])'
    <2>1. CASE g = h
      BY <1>1, <2>1 DEF WriteOK, Removes
    <2>2. CASE g # h
      <3>1. call'[g] = call[g] /\ WriteOK(call'[g])
        BY <1>1, <2>2 DEF Guarded, Handler
      <3>2. SUFFICES ASSUME Removes(call'[g])
                     PROVE  ActiveAdmins' \ {call'[g].user} # {}
        BY DEF WriteOK, Removes
      <3>3. PICK a \in ActiveAdmins : a # call'[g].user
        BY <3>1, <3>2 DEF WriteOK
      <3>4. users' # users => a \in ActiveAdmins'
        <4>1. users' # users => \A u \in ActiveAdmins \ ActiveAdmins' : call'[g].user = u
          BY <3>2 DEF RemovalsCross
        <4> QED BY <3>3, <4>1
      <3>5. users' = users => ActiveAdmins' = ActiveAdmins
        BY DEF ActiveAdmins
      <3> QED BY <3>3, <3>4, <3>5
    <2> QED BY <2>1, <2>2
  <1> QED BY <1>1, <1>2 DEF Guarded

\* A row that is added takes no right.
LEMMA GuardedCreates ==
  ASSUME Types, Guarded, NEW h \in Handler, CreateRow(h)
  PROVE  Guarded'
  <1>1. /\ call'[h].pc \in {"idle", "issue"}
        /\ \A g \in Handler \ {h} : call'[g] = call[g]
        /\ DOMAIN users \subseteq DOMAIN users' /\ \A u \in DOMAIN users : users'[u] = users[u]
        /\ DOMAIN users = {} /\ DOMAIN users' # {} =>
             \E u \in DOMAIN users' : users'[u].active /\ users'[u].role = "admin"
    BY CreateRowMoves
  <1>2. ActiveAdmins \subseteq ActiveAdmins'
    BY <1>1 DEF ActiveAdmins
  <1>3. DOMAIN users' # {} => ActiveAdmins' # {}
    BY <1>1, <1>2 DEF Guarded, ActiveAdmins
  <1>4. ASSUME NEW g \in Desk
        PROVE  WriteOK(call[g])'
    <2>1. CASE g = h
      BY <1>1, <2>1 DEF WriteOK, Removes
    <2>2. CASE g # h
      <3>1. call'[g] = call[g] /\ WriteOK(call[g])
        BY <1>1, <2>2 DEF Guarded, Handler
      <3> QED BY <1>2, <3>1 DEF WriteOK, Removes
    <2> QED BY <2>1, <2>2
  <1> QED BY <1>3, <1>4 DEF Guarded

\* Every step keeps an admin, and the checks that have been made.
LEMMA AdminStep ==
  ASSUME AdminInv, [Next]_vars
  PROVE  AdminInv'
  <1>0. Types
    BY DEF AdminInv
  <1>1. CASE AccountStep /\ AccountsOnly
    <2>0. races' = races \cup {x \in {"admins"} : RemovalsCross} \cup {x \in {"settings"} : EditsCross}
      BY <1>1 DEF AccountsOnly, Recorded
    <2>1. "admins" \notin races' => Guarded /\ ~RemovalsCross
      BY <2>0 DEF AdminInv
    <2>2. ASSUME NEW h \in Handler, Reads(h)
          PROVE  Types' /\ (Guarded => Guarded')
      BY <1>0, <2>2, ReadsMove, GuardedMoves
    <2>3. ASSUME NEW h \in Handler, (h \in Device /\ DeviceRequest(h)) \/ (h \in Desk /\ DeskRequest(h))
          PROVE  Types' /\ (Guarded => Guarded')
      <3>1. WriteOK(call'[h])
        BY <1>0, <2>3, RequestsMove DEF WriteOK, Removes
      <3> QED BY <1>0, <2>3, <3>1, RequestsMove, GuardedMoves
    <2>4. ASSUME NEW h \in Handler, SetPassword(h) \/ WriteActive(h) \/ WriteRole(h)
          PROVE  Types' /\ (Guarded /\ ~RemovalsCross => Guarded')
      BY <1>0, <2>4, WritesMove, GuardedWrites
    <2>5. ASSUME NEW h \in Handler, CreateRow(h)
          PROVE  Types' /\ (Guarded => Guarded')
      BY <1>0, <2>5, CreateRowMoves, GuardedCreates
    <2>6. ASSUME \/ \E t \in tokens : Logout(t) \/ ExpireToken(t)
                 \/ \E s \in DOMAIN sessions : ExpireSession(s)
          PROVE  Types' /\ (Guarded => Guarded')
      <3>1. Types' /\ users' = users /\ call' = call
        BY <1>0, <2>6, RestMoves
      <3>2. ActiveAdmins' = ActiveAdmins
        BY <3>1 DEF ActiveAdmins
      <3> QED BY <3>1, <3>2 DEF Guarded, WriteOK, Removes
    <2>7. Types' /\ (Guarded /\ ~RemovalsCross => Guarded')
      BY <1>1, <2>2, <2>3, <2>4, <2>5, <2>6 DEF AccountStep, CallStep, Reads, Handler
    <2> QED BY <2>1, <2>7 DEF AdminInv
  <1>2. CASE Crash
    <2>1. Types' /\ users' = users /\ races' = races /\ \A h \in Handler : call'[h].pc = "idle"
      BY <1>0, <1>2, CrashMoves DEF Crash, rows
    <2>2. ActiveAdmins' = ActiveAdmins
      BY <2>1 DEF ActiveAdmins
    <2> QED BY <2>1, <2>2 DEF AdminInv, Guarded, WriteOK, Removes, Handler
  <1>3. ASSUME UNCHANGED <<rows, call>>, races \subseteq races'
        PROVE  AdminInv'
    <2>1. Types' /\ users' = users /\ call' = call
      BY <1>0, <1>3, RestMoves
    <2>2. ActiveAdmins' = ActiveAdmins
      BY <2>1 DEF ActiveAdmins
    <2> QED BY <1>3, <2>1, <2>2 DEF AdminInv, Guarded, WriteOK, Removes
  <1>4. CASE \E e \in Editor : EditSettings(e) \/ (EditStep(e) /\ SettingsOnly)
    <2>1. UNCHANGED <<rows, call>> /\ races \subseteq races'
      BY <1>4 DEF EditSettings, SettingsOnly, Recorded, accountVars
    <2> QED BY <1>3, <2>1
  <1>5. CASE UNCHANGED vars
    BY <1>3, <1>5 DEF vars, accountVars
  <1> QED BY <1>1, <1>2, <1>4, <1>5 DEF Next

\* However many requests of user management are in progress at once, an instance
\* that was claimed keeps an admin who may administer it, until one admin loses the
\* right between the check and the write that take it from another.
THEOREM AdminRemains == Spec => []AnAdminRemains
  <1>1. Init => AdminInv
    <2> SUFFICES ASSUME Init PROVE AdminInv
      OBVIOUS
    <2>1. NoRequest \in CallRec /\ NoRequest.pc = "idle"
      BY DEF NoRequest, CallRec
    <2>2. /\ call = [h \in Handler |-> NoRequest]
          /\ \/ users = << >> /\ sessions = << >> /\ issued = 0 /\ tokens = {}
             \/ /\ users = [u \in User |-> [active |-> TRUE, role |-> "admin", pw |-> 0]]
                /\ sessions = SignedIn /\ issued = Len(SignedIn)
                /\ tokens = {Token(SignedIn[s], s, "admin") : s \in DOMAIN SignedIn}
      BY DEF Init, AccountsInit
    <2>3. [active |-> TRUE, role |-> "admin", pw |-> 0] \in UserRec
      BY DEF UserRec, Role
    <2>4. users \in [DOMAIN users -> UserRec] /\ DOMAIN users \subseteq User
      <3>1. CASE users = << >>
        BY <3>1
      <3>2. CASE users = [u \in User |-> [active |-> TRUE, role |-> "admin", pw |-> 0]]
        <4> DEFINE row == [active |-> TRUE, role |-> "admin", pw |-> 0]
        <4> HIDE DEF row
        <4>1. users = [u \in User |-> row] /\ row \in UserRec
          BY <2>3, <3>2 DEF row
        <4> QED BY <4>1
      <3> QED BY <2>2, <3>1, <3>2
    <2>5. RowTypes
      <3>1. CASE sessions = << >> /\ issued = 0 /\ tokens = {}
        BY <2>4, <3>1 DEF RowTypes
      <3>2. CASE /\ DOMAIN users = User
                 /\ sessions = SignedIn /\ issued = Len(SignedIn)
                 /\ tokens = {Token(SignedIn[s], s, "admin") : s \in DOMAIN SignedIn}
        <4>1. /\ SignedIn \in [DOMAIN SignedIn -> User] /\ DOMAIN SignedIn \subseteq Nat
              /\ Len(SignedIn) \in Nat
          BY AccountsAssumption
        <4>2. \A s \in DOMAIN SignedIn :
                 Token(SignedIn[s], s, "admin") \in [sub : User, sid : Nat, role : Role]
          BY <4>1 DEF Token, Role
        <4> QED BY <2>4, <3>2, <4>1, <4>2 DEF RowTypes
      <3> QED BY <2>2, <3>1, <3>2
    <2>6. DOMAIN users # {} => ActiveAdmins # {}
      BY <2>2 DEF ActiveAdmins
    <2> HIDE DEF NoRequest
    <2> QED BY <2>1, <2>2, <2>5, <2>6 DEF AdminInv, Guarded, Types, CallOK, WriteOK, Removes, Handler
  <1>2. AdminInv /\ [Next]_vars => AdminInv'
    BY AdminStep
  <1>3. AdminInv => AnAdminRemains
    BY DEF AdminInv, Guarded, AnAdminRemains, instance_claimed, ActiveAdmins
  <1> QED BY <1>1, <1>2, <1>3, PTL DEF Spec

-----------------------------------------------------------------------------
(***************************************************************************)
(* Settings.                                                               *)
(***************************************************************************)

GlobalRec == [default : Harness, enabled : SUBSET Harness]
EditRec ==
    {NoEdit}
    \cup [pc : {"refs", "save"}, merged : GlobalRec, leaving : SUBSET Harness]
    \cup [pc : {"row"}, place : Place, harness : Harness \cup {Inherit, Keep},
          enabled : SUBSET Harness]
    \cup [pc : {"upsert"}, place : Place, harness : Harness \cup {Inherit}]

SettingsTypes ==
    /\ global \in GlobalRec
    /\ override \in [Place -> Harness \cup {Inherit}]
    /\ edit \in [Editor -> EditRec]

\* The default is enabled and runs every slot.
Sound(g) == g.default \in g.enabled /\ \A s \in Slot : Storable(g.default, s)

\* What the place's slot is launched with, where it names a harness of its own.
Allowed(h, p, enabled) == h # Inherit => h \in enabled /\ Storable(h, p[2])

\* What an edit has read and checked still holds.
EditOK(r) ==
    /\ r.pc \in {"refs", "save"} => Sound(r.merged)
    /\ r.pc = "refs" => r.leaving = global.enabled \ r.merged.enabled
    /\ r.pc = "save" => \A p \in Place : Allowed(override[p], p, r.merged.enabled)
    /\ r.pc = "row" => r.enabled = global.enabled
    /\ r.pc = "upsert" => Allowed(r.harness, r.place, global.enabled)

Orderly ==
    /\ Sound(global)
    /\ \A p \in Place : Allowed(override[p], p, global.enabled)
    /\ \A e \in Editor : EditOK(edit[e])

SettingsInv == SettingsTypes /\ ("settings" \notin races => Orderly)

\* An edit moves on, and writes nothing.
LEMMA EditMoves ==
  ASSUME SettingsTypes, UNCHANGED <<global, override>>, NEW e \in Editor, NEW r \in EditRec,
         Becomes(e, r), Orderly => EditOK(r)
  PROVE  SettingsTypes' /\ (Orderly => Orderly')
  <1>1. edit' \in [Editor -> EditRec] /\ edit'[e] = r /\ \A f \in Editor \ {e} : edit'[f] = edit[f]
    BY DEF Becomes, SettingsTypes
  <1>2. ASSUME Orderly, NEW f \in Editor
        PROVE  EditOK(edit[f])'
    <2>1. EditOK(edit'[f])
      BY <1>1, <1>2 DEF Orderly
    <2> QED BY <2>1 DEF EditOK
  <1> QED BY <1>1, <1>2 DEF Orderly, SettingsTypes

\* An edit that writes is over, and the others are not of those it crosses.
LEMMA EditWrites ==
  ASSUME SettingsTypes, NEW e \in Editor, Becomes(e, NoEdit),
         global' \in GlobalRec, override' \in [Place -> Harness \cup {Inherit}],
         global' = global \/ override' = override,
         Orderly => /\ Sound(global')
                    /\ \A p \in Place : Allowed(override'[p], p, global'.enabled)
  PROVE  SettingsTypes' /\ (Orderly /\ ~EditsCross => Orderly')
  <1>1. NoEdit \in EditRec /\ NoEdit.pc = "idle"
    BY DEF EditRec, NoEdit
  <1>2. /\ edit' \in [Editor -> EditRec] /\ edit'[e].pc = "idle"
        /\ \A f \in Editor \ {e} : edit'[f] = edit[f]
    BY <1>1 DEF Becomes, SettingsTypes
  <1>3. ASSUME Orderly, ~EditsCross, NEW f \in Editor
        PROVE  EditOK(edit[f])'
    <2>1. CASE f = e
      BY <1>2, <2>1 DEF EditOK
    <2>2. CASE f # e
      <3>1. edit'[f] = edit[f] /\ EditOK(edit[f])
        BY <1>2, <1>3, <2>2 DEF Orderly
      <3>2. global' # global => edit'[f].pc \notin {"refs", "row", "upsert"}
        BY <1>3 DEF EditsCross
      <3>3. override' # override => edit'[f].pc # "save"
        BY <1>3 DEF EditsCross
      <3> QED BY <3>1, <3>2, <3>3 DEF EditOK
    <2> QED BY <2>1, <2>2
  <1>4. Orderly => Sound(global)' /\ \A p \in Place : Allowed(override[p], p, global.enabled)'
    BY DEF Sound, Allowed
  <1> QED BY <1>2, <1>3, <1>4 DEF Orderly, SettingsTypes

\* An edit that is over is in order.
LEMMA NoEditOK == NoEdit \in EditRec /\ EditOK(NoEdit)
  BY DEF EditRec, NoEdit, EditOK

\* Every request, and every statement of one, keeps the settings in order.
LEMMA EditKeeps ==
  ASSUME SettingsTypes, NEW e \in Editor, EditRequest(e) \/ EditStep(e)
  PROVE  SettingsTypes' /\ (Orderly /\ ~EditsCross => Orderly')
  <1>0. /\ edit[e] \in EditRec /\ (Orderly => EditOK(edit[e])) /\ global \in GlobalRec
        /\ Inherit \notin Harness /\ Keep \notin Harness /\ Inherit # Keep
    BY SettingsAssumption DEF Orderly, SettingsTypes
  <1>1. ASSUME NEW default \in Harness, NEW enabled \in SUBSET Harness,
               PutSettings(e, [default |-> default, enabled |-> enabled])
        PROVE  SettingsTypes' /\ (Orderly => Orderly')
    <2> DEFINE merged == [default |-> default, enabled |-> enabled]
               r == [pc |-> "refs", merged |-> merged, leaving |-> global.enabled \ merged.enabled]
    <2>1. merged \in GlobalRec /\ Sound(merged)
      BY <1>1 DEF PutSettings, GlobalRec, Sound
    <2> HIDE DEF merged
    <2>2. r \in EditRec /\ EditOK(r)
      BY <1>0, <2>1 DEF EditRec, EditOK, GlobalRec
    <2>3. Becomes(e, r) /\ UNCHANGED <<global, override>>
      BY <1>1 DEF PutSettings, merged
    <2> HIDE DEF r
    <2> QED BY <2>2, <2>3, EditMoves
  <1>2. ASSUME NEW p \in Place, NEW h \in Harness \cup {Inherit, Keep}, PutAgentSetting(e, p, h)
        PROVE  SettingsTypes' /\ (Orderly => Orderly')
    <2> DEFINE r == [pc |-> "row", place |-> p, harness |-> h, enabled |-> global.enabled]
    <2>1. r \in EditRec /\ EditOK(r)
      BY <1>0 DEF EditRec, EditOK, GlobalRec
    <2>2. Becomes(e, r) /\ UNCHANGED <<global, override>>
      BY <1>2 DEF PutAgentSetting
    <2> HIDE DEF r
    <2> QED BY <2>1, <2>2, EditMoves
  <1>3. CASE CheckReferences(e)
    <2>1. UNCHANGED <<global, override>> /\ edit[e].pc = "refs"
      BY <1>3 DEF CheckReferences, Editing
    <2>2. CASE Becomes(e, NoEdit)
      BY <2>1, <2>2, NoEditOK, EditMoves
    <2>3. CASE ~Becomes(e, NoEdit)
      <3> DEFINE r == [edit[e] EXCEPT !.pc = "save"]
      <3>1. Becomes(e, r) /\ \A h \in edit[e].leaving : \A p \in Place : override[p] # h
        BY <1>3, <2>3 DEF CheckReferences, harness_references
      <3>2. edit[e] \in [pc : {"refs", "save"}, merged : GlobalRec, leaving : SUBSET Harness]
        BY <1>0, <2>1 DEF EditRec, NoEdit
      <3>3. /\ r \in [pc : {"refs", "save"}, merged : GlobalRec, leaving : SUBSET Harness]
            /\ r.pc = "save" /\ r.merged = edit[e].merged
        BY <3>2
      <3> HIDE DEF r
      <3>4. Orderly => \A p \in Place : Allowed(override[p], p, r.merged.enabled)
        BY <1>0, <2>1, <3>1, <3>3 DEF Orderly, EditOK, Allowed
      <3>5. r \in EditRec /\ (Orderly => EditOK(r))
        BY <1>0, <2>1, <3>3, <3>4 DEF EditRec, EditOK
      <3> QED BY <2>1, <3>1, <3>5, EditMoves
    <2> QED BY <2>2, <2>3
  <1>4. CASE save_global_settings(e)
    <2>1. edit[e].pc = "save" /\ global' = edit[e].merged /\ override' = override /\ Becomes(e, NoEdit)
      BY <1>4 DEF save_global_settings, Editing
    <2>2. edit[e].merged \in GlobalRec
      BY <1>0, <2>1 DEF EditRec, NoEdit
    <2>3. Orderly => Sound(global') /\ \A p \in Place : Allowed(override'[p], p, global'.enabled)
      BY <1>0, <2>1 DEF EditOK
    <2> QED BY <1>0, <2>1, <2>2, <2>3, EditWrites DEF SettingsTypes
  <1>5. CASE MergeOverride(e)
    <2> DEFINE p == edit[e].place
               h == edit[e].harness
               g == IF h = Keep THEN override[p] ELSE h
               r == [pc |-> "upsert", place |-> p, harness |-> g]
    <2>1. UNCHANGED <<global, override>> /\ edit[e].pc = "row"
      BY <1>5 DEF MergeOverride, Editing
    <2>2. p \in Place /\ h \in Harness \cup {Inherit, Keep} /\ (Orderly => edit[e].enabled = global.enabled)
      BY <1>0, <2>1 DEF EditRec, NoEdit, EditOK
    <2>3. CASE Becomes(e, NoEdit)
      BY <2>1, <2>3, NoEditOK, EditMoves
    <2>4. CASE ~Becomes(e, NoEdit)
      <3>1. Becomes(e, r) /\ (h \notin {Inherit, Keep} => h \in edit[e].enabled /\ Storable(h, p[2]))
        BY <1>5, <2>4 DEF MergeOverride
      <3>2. g \in Harness \cup {Inherit} /\ (Orderly => Allowed(g, p, global.enabled))
        <4>1. CASE h = Keep
          BY <1>0, <2>2, <4>1 DEF Orderly, SettingsTypes
        <4>2. CASE h # Keep
          BY <1>0, <2>2, <3>1, <4>2 DEF Allowed
        <4> QED BY <4>1, <4>2
      <3> HIDE DEF g, p
      <3>3. r \in EditRec /\ (Orderly => EditOK(r))
        BY <2>2, <3>2 DEF EditRec, EditOK
      <3> HIDE DEF r
      <3> QED BY <2>1, <3>1, <3>3, EditMoves
    <2> QED BY <2>3, <2>4
  <1>6. CASE WriteOverride(e)
    <2> DEFINE p == edit[e].place
               h == edit[e].harness
    <2>1. edit[e].pc = "upsert" /\ global' = global /\ Becomes(e, NoEdit)
          /\ override' = [override EXCEPT ![p] = h]
      BY <1>6 DEF WriteOverride, Editing
    <2>2. p \in Place /\ h \in Harness \cup {Inherit} /\ (Orderly => Allowed(h, p, global.enabled))
      BY <1>0, <2>1 DEF EditRec, NoEdit, EditOK
    <2> HIDE DEF p, h
    <2>3. override' \in [Place -> Harness \cup {Inherit}]
      BY <1>0, <2>1, <2>2 DEF SettingsTypes
    <2>4. Orderly => Sound(global') /\ \A q \in Place : Allowed(override'[q], q, global'.enabled)
      BY <1>0, <2>1, <2>2 DEF Orderly, SettingsTypes
    <2> QED BY <1>0, <2>1, <2>3, <2>4, EditWrites
  <1> QED BY <1>1, <1>2, <1>3, <1>4, <1>5, <1>6 DEF EditRequest, EditStep

\* A request that begins writes nothing yet.
LEMMA RequestsWriteNothing ==
  ASSUME SettingsTypes, NEW e \in Editor, EditRequest(e)
  PROVE  SettingsTypes' /\ (Orderly => Orderly')
  <1>1. UNCHANGED <<global, override>>
    BY DEF EditRequest, PutSettings, PutAgentSetting
  <1>2. ~EditsCross
    BY <1>1 DEF EditsCross
  <1> QED BY <1>2, EditKeeps

\* However many edits overlap, every stage is launched with a harness that is
\* enabled and that is not known to be unfit, until an edit is written over what
\* another has read or checked and not yet written.
THEOREM LaunchesAllowed == Spec => []EveryLaunchAllowed
  <1>1. Init => SettingsInv
    <2> SUFFICES ASSUME Init PROVE SettingsInv
      OBVIOUS
    <2>1. PICK h \in Capable \cap Enabled : global = [default |-> h, enabled |-> Enabled]
      BY DEF Init, SettingsInit
    <2>2. /\ override = [p \in Place |-> Inherit]
          /\ edit = [e \in Editor |-> NoEdit]
      BY DEF Init, SettingsInit
    <2>3. h \in Harness /\ \A s \in Slot : Storable(h, s)
      BY SettingsAssumption DEF Storable, harness_supports_slot
    <2>4. global \in GlobalRec /\ Sound(global)
      BY <2>1, <2>3, SettingsAssumption DEF GlobalRec, Sound
    <2> HIDE DEF NoEdit
    <2> QED BY <2>2, <2>4, NoEditOK DEF SettingsInv, Orderly, SettingsTypes, Allowed
  <1>2. SettingsInv /\ [Next]_vars => SettingsInv'
    <2> SUFFICES ASSUME SettingsInv, [Next]_vars PROVE SettingsInv'
      OBVIOUS
    <2>1. ASSUME UNCHANGED settingsVars, races \subseteq races'
          PROVE  SettingsInv'
      BY <2>1 DEF settingsVars, SettingsInv, Orderly, SettingsTypes, EditOK, Sound, Allowed
    <2>2. CASE Crash
      <3>1. UNCHANGED <<global, override, races>> /\ edit' = [e \in Editor |-> NoEdit]
        BY <2>2 DEF Crash
      <3>2. NoEdit.pc = "idle"
        BY DEF NoEdit
      <3> HIDE DEF NoEdit
      <3>3. edit' \in [Editor -> EditRec] /\ \A e \in Editor : EditOK(edit[e])'
        BY <3>1, <3>2, NoEditOK DEF EditOK
      <3> QED BY <3>1, <3>3 DEF SettingsInv, Orderly, SettingsTypes
    <2>3. ASSUME NEW e \in Editor, EditSettings(e)
          PROVE  SettingsInv'
      <3>1. EditRequest(e) /\ races' = races
        BY <2>3 DEF EditSettings
      <3>2. SettingsTypes' /\ (Orderly => Orderly')
        BY <3>1, RequestsWriteNothing DEF SettingsInv
      <3> QED BY <3>1, <3>2 DEF SettingsInv
    <2>4. ASSUME NEW e \in Editor, EditStep(e), SettingsOnly
          PROVE  SettingsInv'
      <3>1. races \subseteq races' /\ ("settings" \notin races' => ~EditsCross)
        BY <2>4 DEF SettingsOnly, Recorded
      <3>2. SettingsTypes' /\ (Orderly /\ ~EditsCross => Orderly')
        BY <2>4, EditKeeps DEF SettingsInv
      <3> QED BY <3>1, <3>2 DEF SettingsInv
    <2>5. CASE AccountStep /\ AccountsOnly
      BY <2>1, <2>5 DEF AccountsOnly, Recorded
    <2>6. CASE UNCHANGED vars
      BY <2>1, <2>6 DEF vars
    <2> QED BY <2>2, <2>3, <2>4, <2>5, <2>6 DEF Next
  <1>3. SettingsInv => EveryLaunchAllowed
    BY DEF SettingsInv, Orderly, SettingsTypes, EveryLaunchAllowed, resolve_effective, Sound, Allowed, Place
  <1> QED BY <1>1, <1>2, <1>3, PTL DEF Spec

=============================================================================
