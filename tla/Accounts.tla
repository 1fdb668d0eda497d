------------------------------ MODULE Accounts ------------------------------
(***************************************************************************)
(* The users of an instance (users.rs), their sessions (sessions.rs) and   *)
(* the access tokens that requests are made with (auth.rs).                *)
(*                                                                         *)
(* A step is one SQL statement, or the reads between two of them.  The     *)
(* password of a user is the number of times it was set.  An access token  *)
(* is a record of its claims that is accepted until it expires, whatever   *)
(* becomes of its session or its user.                                     *)
(***************************************************************************)
EXTENDS Naturals, FiniteSets, Functions, Sequences

CONSTANTS
    User,         \* usernames
    Desk,         \* requests of user management in progress at once, numbered
    Device,       \* requests of everybody else in progress at once
    SignedIn,     \* in an instance that is in use: whose its sessions are
    MaxSessions,  \* bound: logins in a behaviour
    MaxRequests   \* bound: requests that write more than a session

Handler == Desk \cup Device
Role == {"admin", "user"}

ASSUME AccountsAssumption ==
    /\ Desk \cap Device = {} /\ Desk \subseteq Nat
    /\ SignedIn \in Seq(User)
    /\ MaxSessions \in Nat /\ MaxRequests \in Nat

VARIABLES
    users,        \* user: a row per username there is
    sessions,     \* session: the user of each live row
    issued,       \* sessions so far: the ids are numbers
    tokens,       \* the access tokens that have not expired
    call,         \* per handler: the request it is in the middle of
    requests      \* history: requests that write more than a session

rows == <<users, sessions, issued, tokens>>
accountVars == <<rows, call, requests>>

\* "active" and "role" of a request of update_user are what it asks for; those
\* of a login are what it has read.
NoRequest == [pc |-> "idle", user |-> "none", sid |-> 0, role |-> "keep",
              active |-> "keep", pw |-> 0]

At(h, here) == call[h].pc = here
Begins(h, request) == At(h, "idle") /\ call' = [call EXCEPT ![h] = request]
Goes(h, there) == call' = [call EXCEPT ![h].pc = there]
Answered(h) == call' = [call EXCEPT ![h] = NoRequest]
Writes == requests < MaxRequests /\ requests' = requests + 1
Asks(pc, u) == [NoRequest EXCEPT !.pc = pc, !.user = u]

Token(u, s, role) == [sub |-> u, sid |-> s, role |-> role]
SessionsOf(u) == {s \in DOMAIN sessions : sessions[s] = u}

\* A new instance, or one whose users have all been made admins.
AccountsInit ==
    /\ \/ /\ users = << >> /\ sessions = << >> /\ issued = 0 /\ tokens = {}
       \/ /\ users = [u \in User |-> [active |-> TRUE, role |-> "admin", pw |-> 0]]
          /\ sessions = SignedIn /\ issued = Len(SignedIn)
          /\ tokens = {Token(SignedIn[s], s, "admin") : s \in DOMAIN SignedIn}
    /\ call = [h \in Handler |-> NoRequest]
    /\ requests = 0

Revokes(gone) == sessions' = Restrict(sessions, DOMAIN sessions \ gone)

instance_claimed == DOMAIN users # {}

\* Mutant: the admins who are deactivated are counted as well.
AllAdmins == {u \in DOMAIN users : users[u].role = "admin"}

\* count_active_admins
ActiveAdmins == {u \in DOMAIN users : users[u].active /\ users[u].role = "admin"}

\* The AdminUser extractor: what the token claims is looked up again.
AdminUser(t) == t \in tokens /\ t.sub \in ActiveAdmins

-----------------------------------------------------------------------------
(***************************************************************************)
(* Setup, login, refresh, logout and change of password.                   *)
(***************************************************************************)

Setup(h, u) ==
    /\ ~instance_claimed
    /\ Begins(h, [Asks("create", u) EXCEPT !.role = "admin"])
    /\ UNCHANGED <<rows, requests>>

\* users::create: the UNIQUE username decides.  Only setup goes on to a session.
CreateRow(h) ==
    LET u == call[h].user IN
    /\ At(h, "create")
    /\ IF u \in DOMAIN users
       THEN Answered(h) /\ UNCHANGED users
       ELSE /\ users' = [v \in DOMAIN users \cup {u} |->
                            IF v = u THEN [active |-> TRUE, role |-> call[h].role, pw |-> 0]
                                     ELSE users[v]]
            /\ IF h \in Device THEN Goes(h, "issue") ELSE Answered(h)
    /\ UNCHANGED <<sessions, issued, tokens, requests>>

\* The row is read, and by a second statement the hash of its password.
Login(h, u, pw) ==
    /\ u \in DOMAIN users /\ issued < MaxSessions
    /\ pw \in 0..users[u].pw
    /\ Begins(h, [Asks("verify", u) EXCEPT !.pw = pw, !.role = users[u].role,
                    !.active = IF users[u].active THEN "yes" ELSE "no"])
    /\ UNCHANGED <<rows, requests>>

VerifyPassword(h) ==
    /\ At(h, "verify")
    /\ IF call[h].pw = users[call[h].user].pw /\ call[h].active = "yes"
       THEN Goes(h, "issue") ELSE Answered(h)
    /\ UNCHANGED <<rows, requests>>

\* sessions::issue, for the user that was read.
Issue(h) ==
    LET s == issued + 1 IN
    /\ At(h, "issue")
    /\ issued' = s
    /\ sessions' = [r \in DOMAIN sessions \cup {s} |->
                       IF r = s THEN call[h].user ELSE sessions[r]]
    /\ tokens' = tokens \cup {Token(call[h].user, s, call[h].role)}
    /\ Answered(h)
    /\ UNCHANGED <<users, requests>>

\* resolve_refresh: an expired, revoked or unknown session is not refreshed.
Refresh(h, s) ==
    /\ s \in DOMAIN sessions
    /\ Begins(h, [Asks("refresh", sessions[s]) EXCEPT !.sid = s])
    /\ UNCHANGED <<rows, requests>>

\* Mutant: the user's row is not looked at.
RefreshMintsAsBefore(h) ==
    LET u == call[h].user
        s == call[h].sid
    IN
    /\ At(h, "refresh")
    /\ tokens' = tokens \cup {Token(u, s, users[u].role)}
    /\ Answered(h)
    /\ UNCHANGED <<users, sessions, issued, requests>>

\* The choke point: active and role are read again.
RefreshMints(h) ==
    LET u == call[h].user
        s == call[h].sid
    IN
    /\ At(h, "refresh")
    /\ IF users[u].active
       THEN tokens' = tokens \cup {Token(u, s, users[u].role)} /\ Answered(h)
       ELSE Goes(h, "drop") /\ UNCHANGED tokens
    /\ UNCHANGED <<users, sessions, issued, requests>>

DropSession(h) ==
    /\ At(h, "drop")
    /\ Revokes({call[h].sid})
    /\ Answered(h)
    /\ UNCHANGED <<users, issued, tokens, requests>>

Logout(t) ==
    /\ t \in tokens
    /\ Revokes({t.sid})
    /\ UNCHANGED <<users, issued, tokens, call, requests>>

\* The current password was right when it was verified.
ChangePassword(h, t) ==
    /\ t \in tokens /\ Writes
    /\ Begins(h, [Asks("setPassword", t.sub) EXCEPT !.sid = t.sid])
    /\ UNCHANGED rows

SetPassword(h) ==
    /\ At(h, "setPassword")
    /\ users' = [users EXCEPT ![call[h].user].pw = @ + 1]
    /\ Goes(h, "revoke")
    /\ UNCHANGED <<sessions, issued, tokens, requests>>

\* revoke_all_for_user, or for a user's own change all but that session.
RevokeSessions(h) ==
    /\ At(h, "revoke")
    /\ Revokes(SessionsOf(call[h].user) \ {call[h].sid})
    /\ IF call[h].role = "keep" THEN Answered(h) ELSE Goes(h, "demote")
    /\ UNCHANGED <<users, issued, tokens, requests>>

-----------------------------------------------------------------------------
(***************************************************************************)
(* User management.                                                        *)
(***************************************************************************)

CreateUser(h, t, u, role) ==
    /\ AdminUser(t) /\ Writes
    /\ Begins(h, [Asks("create", u) EXCEPT !.role = role])
    /\ UNCHANGED rows

ResetPassword(h, t, u) ==
    /\ AdminUser(t) /\ u \in DOMAIN users /\ Writes
    /\ Begins(h, Asks("setPassword", u))
    /\ UNCHANGED rows

LastAdmin(u) == u \in ActiveAdmins /\ Cardinality(ActiveAdmins) <= 1

\* The guards of update_user run before its writes, on the row as it would be.
UpdateAllowed(u, active, role) ==
    LET back == active = "yes" /\ ~users[u].active IN
    /\ active = "no" => ~LastAdmin(u)
    /\ users[u].role = "admin" /\ role = "user" /\ active # "no"
          /\ (users[u].active \/ back)
       => Cardinality(ActiveAdmins) + (IF back THEN 1 ELSE 0) > 1

UpdateUser(h, t, u, active, role) ==
    /\ AdminUser(t) /\ u \in DOMAIN users /\ Writes
    /\ active # "keep" \/ role # "keep"
    /\ active = "no" => u # t.sub
    /\ UpdateAllowed(u, active, role)
    /\ Begins(h, [Asks(IF active = "keep" THEN "demote" ELSE "activate", u)
                     EXCEPT !.active = active, !.role = role])
    /\ UNCHANGED rows

\* set_active: its guard, ...
CheckActive(h) ==
    LET c == call[h] IN
    /\ At(h, "activate")
    /\ IF c.active = "no" /\ LastAdmin(c.user) THEN Answered(h)
                                               ELSE Goes(h, "writeActive")
    /\ UNCHANGED <<rows, requests>>

Activated(h, there) == call' = [call EXCEPT ![h] = [@ EXCEPT !.pc = there, !.active = "keep"]]

\* ... and its statement; deactivating ends the sessions by another.
WriteActive(h) ==
    LET c == call[h] IN
    /\ At(h, "writeActive")
    /\ users' = [users EXCEPT ![c.user].active = (c.active = "yes")]
    /\ IF c.active = "no" THEN Activated(h, "revoke")
       ELSE IF c.role = "keep" THEN Answered(h) ELSE Activated(h, "demote")
    /\ UNCHANGED <<sessions, issued, tokens, requests>>

\* update: ensure_can_demote, ...
CheckRole(h) ==
    LET c == call[h] IN
    /\ At(h, "demote")
    /\ IF c.role = "user" /\ LastAdmin(c.user) THEN Answered(h)
                                               ELSE Goes(h, "writeRole")
    /\ UNCHANGED <<rows, requests>>

\* ... and the statement.
WriteRole(h) ==
    LET c == call[h] IN
    /\ At(h, "writeRole")
    /\ users' = IF c.role = "keep" THEN users ELSE [users EXCEPT ![c.user].role = c.role]
    /\ Answered(h)
    /\ UNCHANGED <<sessions, issued, tokens, requests>>

-----------------------------------------------------------------------------
ExpireToken(t) ==
    /\ t \in tokens
    /\ tokens' = tokens \ {t}
    /\ UNCHANGED <<users, sessions, issued, call, requests>>

\* prune_expired
ExpireSession(s) ==
    /\ s \in DOMAIN sessions
    /\ Revokes({s})
    /\ UNCHANGED <<users, issued, tokens, call, requests>>

LoseCalls == call' = [h \in Handler |-> NoRequest]

CallStep(h) ==
    \/ CreateRow(h) \/ VerifyPassword(h) \/ Issue(h) \/ RefreshMints(h)
    \/ DropSession(h) \/ SetPassword(h) \/ RevokeSessions(h) \/ CheckActive(h)
    \/ WriteActive(h) \/ CheckRole(h) \/ WriteRole(h)

DeviceRequest(h) ==
    \/ \E u \in User : Setup(h, u) \/ \E pw \in 0..MaxRequests : Login(h, u, pw)
    \/ \E s \in DOMAIN sessions : Refresh(h, s)
    \/ \E t \in tokens : ChangePassword(h, t)

\* It takes the first number that is free.
DeskRequest(h) ==
    /\ \A g \in Desk : g < h => ~At(g, "idle")
    /\ \E t \in tokens, u \in User :
          \/ ResetPassword(h, t, u)
          \/ \E role \in Role : CreateUser(h, t, u, role)
          \/ \E active \in {"keep", "yes", "no"}, role \in Role \cup {"keep"} :
                UpdateUser(h, t, u, active, role)

AccountStep ==
    \/ \E h \in Handler : CallStep(h)
    \/ \E h \in Device : DeviceRequest(h)
    \/ \E h \in Desk : DeskRequest(h)
    \/ \E t \in tokens : Logout(t) \/ ExpireToken(t)
    \/ \E s \in DOMAIN sessions : ExpireSession(s)

-----------------------------------------------------------------------------
\* Revocation is eventual.  A user who stays deactivated ends up without any
\* access token, though sessions may have been opened or refreshed meanwhile or
\* left behind by a crash; one who stays demoted ends up without one that
\* claims to be an admin's.
RevocationLands ==
    \A u \in User :
        /\ <>[](u \in DOMAIN users /\ ~users[u].active)
              => <>[](\A t \in tokens : t.sub # u)
        /\ <>[](u \in DOMAIN users /\ users[u].role = "user")
              => <>[](\A t \in tokens : ~(t.sub = u /\ t.role = "admin"))
=============================================================================
