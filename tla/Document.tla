------------------------------ MODULE Document ------------------------------
(***************************************************************************)
(* The living document of one epic: document.rs.  A client pulls the       *)
(* document, edits it and syncs the result; the sync runs under a          *)
(* per-epic lock, checks the version its client had read, adds a version   *)
(* row, replaces the document and rebuilds the section index: one          *)
(* statement each, in no transaction.                                      *)
(*                                                                         *)
(* The text is the set of edits it contains.  The section index is one     *)
(* anchor that every version of the text has, with its provenance.         *)
(***************************************************************************)
EXTENDS Naturals, Sequences, FiniteSets

CONSTANTS
    Node,         \* map nodes: an edit is made for one of them ...
    NoNode,       \* ... or for none
    Caller,       \* who may be in the middle of a request
    NoCaller

ASSUME DocumentAssumption ==
    /\ NoNode \notin Node
    /\ NoCaller \notin Caller

VARIABLES
    doc,          \* document: its version and its text
    lineage,      \* document_version: the versions there are rows of
    sections,     \* document_section: its version (0: empty) and provenance
    docLock,      \* the holder of document_write_lock
    sync          \* per caller: the sync it is in the middle of

docVars == <<doc, lineage, sections, docLock, sync>>

NoSync == [pc |-> "none", base |-> 0, text |-> {}, by |-> NoNode,
           prior |-> NoNode]

DocumentInit ==
    /\ doc = [version |-> 0, text |-> {}]
    /\ lineage = {}
    /\ sections = [version |-> 0, by |-> NoNode]
    /\ docLock = NoCaller
    /\ sync = [c \in Caller |-> NoSync]

SyncAt(c, here) == sync[c].pc = here
SyncGoes(c, there) == sync' = [sync EXCEPT ![c].pc = there]

\* The guard is dropped when the handler returns, however it returns.
SyncEnds(c, how) == SyncGoes(c, how) /\ docLock' = NoCaller

-----------------------------------------------------------------------------
\* The client's text is the one it pulled, with its edit.
BeginSync(c, edit, by) ==
    /\ sync' = [sync EXCEPT ![c] =
                   [NoSync EXCEPT !.pc = "lock", !.base = doc.version,
                                  !.text = doc.text \cup {edit}, !.by = by]]
    /\ UNCHANGED <<doc, lineage, sections, docLock>>

TakeLock(c) ==
    /\ SyncAt(c, "lock") /\ docLock = NoCaller
    /\ docLock' = c
    /\ SyncGoes(c, "check")
    /\ UNCHANGED <<doc, lineage, sections>>

\* Mutant: the last writer wins whatever it had read.
CheckBaseNot(c) ==
    /\ SyncAt(c, "check")
    /\ sync' = [sync EXCEPT ![c].pc = "version", ![c].base = doc.version]
    /\ UNCHANGED <<doc, lineage, sections, docLock>>

CheckBase(c) ==
    /\ SyncAt(c, "check")
    /\ IF sync[c].base = doc.version
       THEN SyncGoes(c, "version") /\ UNCHANGED docLock
       ELSE SyncEnds(c, "stale")
    /\ UNCHANGED <<doc, lineage, sections>>

\* (epic_id, version) is the primary key: a row that is there already is a
\* failure of the request.
InsertVersion(c) ==
    LET new == sync[c].base + 1 IN
    /\ SyncAt(c, "version")
    /\ IF new \in lineage
       THEN SyncEnds(c, "failed") /\ UNCHANGED lineage
       ELSE /\ lineage' = lineage \cup {new}
            /\ SyncGoes(c, "replace") /\ UNCHANGED docLock
    /\ UNCHANGED <<doc, sections>>

ReplaceDocument(c) ==
    /\ SyncAt(c, "replace")
    /\ doc' = [version |-> sync[c].base + 1, text |-> sync[c].text]
    /\ SyncGoes(c, "clear")
    /\ UNCHANGED <<lineage, sections, docLock>>

\* rebuild_sections: the provenance there was is kept in memory ...
ClearSections(c) ==
    /\ SyncAt(c, "clear")
    /\ sections' = [version |-> 0, by |-> NoNode]
    /\ sync' = [sync EXCEPT ![c].pc = "index", ![c].prior = sections.by]
    /\ UNCHANGED <<doc, lineage, docLock>>

\* ... and stays that of a section a human edits.
IndexSections(c) ==
    /\ SyncAt(c, "index")
    /\ sections' = [version |-> sync[c].base + 1,
                    by |-> IF sync[c].by = NoNode THEN sync[c].prior
                                                  ELSE sync[c].by]
    /\ SyncEnds(c, "done")
    /\ UNCHANGED <<doc, lineage>>

\* Mutant: the lock is not an RAII guard.
AbandonSyncLocked(c) ==
    /\ sync' = [sync EXCEPT ![c] = NoSync]
    /\ UNCHANGED <<doc, lineage, sections, docLock>>

\* The request is dropped in the middle, and its guard with it.
AbandonSync(c) ==
    /\ sync' = [sync EXCEPT ![c] = NoSync]
    /\ docLock' = IF docLock = c THEN NoCaller ELSE docLock
    /\ UNCHANGED <<doc, lineage, sections>>

LoseDocumentMemory ==
    /\ sync' = [c \in Caller |-> NoSync]
    /\ docLock' = NoCaller
    /\ UNCHANGED <<doc, lineage, sections>>

SyncStep(c) ==
    \/ TakeLock(c) \/ CheckBase(c) \/ InsertVersion(c) \/ ReplaceDocument(c)
    \/ ClearSections(c) \/ IndexSections(c)

-----------------------------------------------------------------------------
\* A sync that waits for the lock gets it (the mutex serves its waiters in
\* order): sibling sessions never stall behind another one's write.
SiblingsNeverStall ==
    \A c \in Caller : SyncAt(c, "lock") ~> ~SyncAt(c, "lock")

=============================================================================
