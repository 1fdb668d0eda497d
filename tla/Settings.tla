------------------------------ MODULE Settings ------------------------------
(***************************************************************************)
(* The settings of the agents (agent_settings.rs): the global row, the     *)
(* overrides per project and slot, and the harness a stage is launched     *)
(* with (resolve_effective).  Defaults are never copied into overrides.    *)
(* The model that accompanies a harness is left out.                       *)
(*                                                                         *)
(* A request reads, merges and validates, and writes by a last statement   *)
(* what it has merged.                                                     *)
(***************************************************************************)
EXTENDS Naturals

CONSTANTS
    Editor,       \* requests that edit settings in progress at once, numbered
    Project, Slot,
    Harness,      \* what may be stored as a harness
    Enabled,      \* those that have been enabled at first
    Supported,    \* SUPPORTED_HARNESSES
    Capable,      \* PLANNING_CAPABLE_HARNESSES
    ClaudeOnly,   \* the slots of slot_is_claude_only
    Inherit,      \* an absent value
    Keep          \* the harness of a request that edits something else

ASSUME SettingsAssumption ==
    /\ Editor \subseteq Nat
    /\ Capable \subseteq Supported /\ Enabled \subseteq Harness
    /\ Capable \cap Enabled # {}
    /\ ClaudeOnly \subseteq Slot
    /\ Inherit \notin Harness /\ Keep \notin Harness /\ Inherit # Keep

VARIABLES
    global,       \* global_settings: default_harness and enabled_harnesses
    override,     \* agent_setting: per project and slot, its harness
    edit          \* per editor: the request it is in the middle of

settingsVars == <<global, override, edit>>

Place == Project \X Slot
NoEdit == [pc |-> "idle"]

\* No overrides yet, and only a harness that runs every slot is the default.
SettingsInit ==
    /\ \E h \in Capable \cap Enabled :
          global = [default |-> h, enabled |-> Enabled]
    /\ override = [p \in Place |-> Inherit]
    /\ edit = [e \in Editor |-> NoEdit]

Editing(e, here) == edit[e].pc = here
Becomes(e, request) == edit' = [edit EXCEPT ![e] = request]

harness_supports_slot(harness, slot) ==
    harness \in Supported /\ (slot \in ClaudeOnly => harness \in Capable)

\* An unknown harness is stored and fails when it is launched.
Storable(harness, slot) ==
    harness \in Supported => harness_supports_slot(harness, slot)

-----------------------------------------------------------------------------
(***************************************************************************)
(* PUT /settings: the row is read and merged with the request; a harness   *)
(* that leaves the enabled ones must not be referred to; the row is saved. *)
(***************************************************************************)

PutSettings(e, merged) ==
    /\ Editing(e, "idle")
    /\ merged.enabled # {} /\ merged.default \in merged.enabled
    /\ \A s \in Slot : Storable(merged.default, s)
    /\ Becomes(e, [pc |-> "refs", merged |-> merged,
                   leaving |-> global.enabled \ merged.enabled])
    /\ UNCHANGED <<global, override>>

harness_references(harness) == {p \in Place : override[p] = harness}

\* Mutant: the enabled set of the request is compared with itself.
CheckReferencesOfMerged(e) ==
    /\ Editing(e, "refs")
    /\ IF \E h \in edit[e].leaving \cap edit[e].merged.enabled :
             harness_references(h) # {}
       THEN Becomes(e, NoEdit)
       ELSE Becomes(e, [edit[e] EXCEPT !.pc = "save"])
    /\ UNCHANGED <<global, override>>

CheckReferences(e) ==
    /\ Editing(e, "refs")
    /\ IF \E h \in edit[e].leaving : harness_references(h) # {}
       THEN Becomes(e, NoEdit)
       ELSE Becomes(e, [edit[e] EXCEPT !.pc = "save"])
    /\ UNCHANGED <<global, override>>

save_global_settings(e) ==
    /\ Editing(e, "save")
    /\ global' = edit[e].merged
    /\ Becomes(e, NoEdit)
    /\ UNCHANGED override

-----------------------------------------------------------------------------
(***************************************************************************)
(* PUT /projects/{id}/agent-settings/{slot}: the enabled harnesses and the *)
(* row are read, a harness that is named replaces the row's, and the row   *)
(* is written, or deleted when nothing of it is left.                      *)
(***************************************************************************)

\* harness: the one the request names, Inherit to clear it, or Keep.
PutAgentSetting(e, p, harness) ==
    /\ Editing(e, "idle")
    /\ Becomes(e, [pc |-> "row", place |-> p, harness |-> harness,
                   enabled |-> global.enabled])
    /\ UNCHANGED <<global, override>>

MergeOverride(e) ==
    LET p == edit[e].place
        h == edit[e].harness
    IN
    /\ Editing(e, "row")
    /\ IF h \notin {Inherit, Keep} => h \in edit[e].enabled /\ Storable(h, p[2])
       THEN Becomes(e, [pc |-> "upsert", place |-> p,
                        harness |-> IF h = Keep THEN override[p] ELSE h])
       ELSE Becomes(e, NoEdit)
    /\ UNCHANGED <<global, override>>

\* upsert_agent_setting, or delete_agent_setting
WriteOverride(e) ==
    /\ Editing(e, "upsert")
    /\ override' = [override EXCEPT ![edit[e].place] = edit[e].harness]
    /\ Becomes(e, NoEdit)
    /\ UNCHANGED global

-----------------------------------------------------------------------------
\* The harness of a stage run.
resolve_effective(p) == IF override[p] = Inherit THEN global.default ELSE override[p]

EditStep(e) ==
    CheckReferences(e) \/ save_global_settings(e) \/ MergeOverride(e) \/ WriteOverride(e)

\* It takes the first number that is free.
EditRequest(e) ==
    /\ \A f \in Editor : f < e => ~Editing(f, "idle")
    /\ \/ \E default \in Harness, enabled \in SUBSET Harness :
             PutSettings(e, [default |-> default, enabled |-> enabled])
       \/ \E p \in Place, h \in Harness \cup {Inherit, Keep} :
             PutAgentSetting(e, p, h)

=============================================================================
