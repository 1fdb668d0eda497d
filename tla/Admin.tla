------------------------------- MODULE Admin -------------------------------
(***************************************************************************)
(* What the people of an instance administer: its accounts and the         *)
(* settings of its agents, by requests that carry an access token.         *)
(***************************************************************************)
EXTENDS Accounts, Settings

VARIABLE races      \* history: what people did at once that nothing prevents

vars == <<accountVars, settingsVars, races>>

Init == AccountsInit /\ SettingsInit /\ races = {}

\* The settings ask for a token that is valid and for no role.
EditSettings(e) ==
    /\ tokens # {} /\ Writes
    /\ EditRequest(e)
    /\ UNCHANGED <<rows, call, races>>

\* Requests are lost; users, sessions and settings are rows, and the key that
\* tokens are signed with is derived anew.  Any number of crashes may happen.
Crash ==
    /\ LoseCalls
    /\ edit' = [e \in Editor |-> NoEdit]
    /\ UNCHANGED <<rows, requests, global, override, races>>

-----------------------------------------------------------------------------
(***************************************************************************)
(* A guard is one statement and the write it guards another, and nothing   *)
(* serialises requests: what was checked may no longer hold when it is     *)
(* written.                                                                *)
(***************************************************************************)

\* A request that is about to take a user's right to administer.
Removes(r) ==
    \/ r.pc = "writeActive" /\ r.active = "no"
    \/ r.pc = "writeRole" /\ r.role = "user"

\* An admin loses it while the removal of another one stands checked.
RemovalsCross ==
    /\ users' # users
    /\ \E u \in ActiveAdmins \ ActiveAdmins', h \in Desk :
          Removes(call'[h]) /\ call'[h].user # u

\* The global row changes under a request that has read it, or an override
\* under one that has looked for references.
EditsCross ==
    \/ global' # global /\ \E e \in Editor : edit'[e].pc \in {"refs", "row", "upsert"}
    \/ override' # override /\ \E e \in Editor : edit'[e].pc = "save"

Recorded ==
    races' = races \cup {x \in {"admins"} : RemovalsCross} \cup {x \in {"settings"} : EditsCross}

AccountsOnly == UNCHANGED settingsVars /\ Recorded
SettingsOnly == UNCHANGED accountVars /\ Recorded

Next ==
    \/ AccountStep /\ AccountsOnly
    \/ \E e \in Editor : EditSettings(e)
    \/ \E e \in Editor : EditStep(e) /\ SettingsOnly
    \/ Crash

Spec == Init /\ [][Next]_vars

\* The runtime drives the requests it has accepted, and time passes.  Nothing
\* is assumed of the people.
FairSpec ==
    /\ Spec
    /\ \A h \in Handler : WF_vars(CallStep(h) /\ AccountsOnly)
    /\ \A u \in User, r \in Role :
          WF_vars((\E t \in tokens : t.sub = u /\ t.role = r /\ ExpireToken(t)) /\ AccountsOnly)

-----------------------------------------------------------------------------
\* The instance is not locked out of its own user management: since it was
\* claimed there is an active admin, whatever is activated, deactivated,
\* promoted and demoted by requests of several steps that overlap as they may,
\* until one admin loses the right between the check and the write that take it
\* from another.  That race two requests can lose, and nobody is left.
AnAdminRemains ==
    instance_claimed /\ "admins" \notin races =>
        \E u \in DOMAIN users : users[u].active /\ users[u].role = "admin"

\* Whatever order harnesses are enabled, made the default, named by a slot and
\* disabled in, by requests that overlap as they may, a stage of any project and
\* slot is launched with a harness that is enabled now, and never with one that
\* is known not to run that slot: until the enabled harnesses change under a
\* request that has read them, or a slot names one between the search for
\* references to it and the write that disables it.
EveryLaunchAllowed ==
    "settings" \notin races =>
        \A p \in Place :
            LET h == resolve_effective(p) IN
            h \in global.enabled /\ Storable(h, p[2])
=============================================================================
