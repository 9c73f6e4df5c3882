----------------------------- MODULE Documents ------------------------------
(***************************************************************************)
(* What the language server (compiler/lsp.py) takes the modules of a       *)
(* workspace to be.  The editor sends it the text of each open document;   *)
(* a file that is not open is read from disk when a check or a request     *)
(* first needs it, and again when the editor reports that it changed, some *)
(* time after it did.  All of them are kept in one index (WorkspaceIndex,  *)
(* compiler/modules.py), which symbol search and completion also fill, by  *)
(* reading every file of the workspace if any was written since the last   *)
(* time.  The server handles one message after the other, in the order in  *)
(* which the editor sent them.                                             *)
(*                                                                         *)
(* Imports are by name; a relative import does not find a document that is *)
(* on no disk.                                                             *)
(***************************************************************************)
EXTENDS FiniteSets

CONSTANTS
  Paths,   \* the .lam files that the workspace may hold
  Texts    \* what a file or an open document may say

VARIABLES
  onDisk,       \* the text of each file, Absent where there is none
  opened,       \* docs: the text of each open document, Absent for the others
  indexed,      \* facts_by_path and source_by_path: Absent where nothing is known
  unreported,   \* the files whose last change on disk was not handled yet
  scanned,      \* _workspace_scan_signature is that of the files as they are
  overwritten   \* history: open documents whose text a scan replaced by that of the file

docVars == <<onDisk, opened, indexed, unreported, scanned, overwritten>>

Absent == "absent"

ASSUME TextsAssumption == Absent \notin Texts

IsOpen(p) == opened[p] # Absent
FilesOn == {p \in Paths : onDisk[p] # Absent}

\* The text of p for a check that imports it: resolve_module finds the file, or else a path of
\* that name in the index; facts_for takes what is indexed, or else what is on disk.
Found(p) == IF indexed[p] # Absent THEN indexed[p] ELSE onDisk[p]

\* A check or a request has read some of the files that it met and that were not indexed.
WithRead(index, S) == [p \in Paths |-> IF p \in S /\ index[p] = Absent THEN onDisk[p] ELSE index[p]]
Reads == SUBSET FilesOn

(* ------------------------- messages of the editor ----------------------- *)

\* The document is indexed and then checked, diagnostics are published.
Receive(p, t, read) ==
  /\ opened' = [opened EXCEPT ![p] = t]
  /\ indexed' = WithRead([indexed EXCEPT ![p] = t], read)
  /\ overwritten' = overwritten \ {p}
  /\ UNCHANGED <<onDisk, unreported, scanned>>

\* An open shows what is on disk, if the editor did not keep unsaved changes.
DidOpen(p, t, read) == ~IsOpen(p) /\ Receive(p, t, read)
DidChange(p, t, read) == IsOpen(p) /\ Receive(p, t, read)

\* Mutation: the text of the closed document stays indexed.
DidCloseKept(p) ==
  /\ IsOpen(p)
  /\ opened' = [opened EXCEPT ![p] = Absent]
  /\ overwritten' = overwritten \ {p}
  /\ UNCHANGED <<onDisk, indexed, unreported, scanned>>

DidClose(p) ==
  /\ IsOpen(p)
  /\ opened' = [opened EXCEPT ![p] = Absent]
  /\ indexed' = [indexed EXCEPT ![p] = Absent]
  /\ overwritten' = overwritten \ {p}
  /\ UNCHANGED <<onDisk, unreported, scanned>>

\* The changes on disk of S are reported, that of an open document is passed over.  One that
\* was deleted, or was reported to be, is dropped.
DidChangeWatchedFiles(S, deleted) ==
  /\ S # {} /\ S \subseteq unreported
  /\ indexed' = [p \in Paths |->
       IF p \notin S \/ IsOpen(p) THEN indexed[p]
       ELSE IF p \in deleted THEN Absent ELSE onDisk[p]]
  /\ scanned' = FALSE
  /\ unreported' = unreported \ S
  /\ UNCHANGED <<onDisk, opened, overwritten>>

\* _workspace_facts, for a completion or a symbol search
Scan ==
  /\ indexed' = IF scanned THEN indexed ELSE [p \in Paths |-> IF p \in FilesOn THEN onDisk[p] ELSE indexed[p]]
  /\ overwritten' = IF scanned THEN overwritten
                    ELSE overwritten \cup {p \in FilesOn : IsOpen(p) /\ opened[p] # onDisk[p]}
  /\ scanned' = TRUE
  /\ UNCHANGED <<onDisk, opened, unreported>>

\* Any other request
Request(read) ==
  /\ indexed' = WithRead(indexed, read)
  /\ UNCHANGED <<onDisk, opened, unreported, scanned, overwritten>>

(* ------------------------------- the disk ------------------------------- *)

\* A file is written, by a save of the editor or by anyone, or deleted.
WriteFile(p, t) ==
  /\ onDisk[p] # Absent \/ t # Absent
  /\ onDisk' = [onDisk EXCEPT ![p] = t]
  /\ unreported' = unreported \cup {p}
  /\ scanned' = FALSE
  /\ UNCHANGED <<opened, indexed, overwritten>>

DocInit ==
  /\ onDisk \in [Paths -> Texts \cup {Absent}]
  /\ opened = [p \in Paths |-> Absent]
  /\ indexed = [p \in Paths |-> Absent]
  /\ unreported = {} /\ scanned = FALSE /\ overwritten = {}

DocNext ==
  \/ \E p \in Paths, t \in Texts, read \in Reads : DidOpen(p, t, read) \/ DidChange(p, t, read)
  \/ \E p \in Paths : DidClose(p)
  \/ \E S \in SUBSET unreported, deleted \in SUBSET Paths : DidChangeWatchedFiles(S, deleted)
  \/ Scan
  \/ \E read \in Reads : Request(read)
  \/ \E p \in Paths, t \in Texts \cup {Absent} : WriteFile(p, t)

DocSpec == DocInit /\ [][DocNext]_docVars

(* ------------------------------ properties ------------------------------ *)

\* What a check finds of a module is what the editor shows of it: the text of the document if
\* it is open, else that of the file, whatever was opened, closed, written and deleted before.
\* Left aside are files whose last change was not reported yet, and open documents that a
\* scan replaced and that were not edited since.
ServerSeesEditor ==
  \A p \in Paths :
    IF IsOpen(p) THEN p \notin overwritten => Found(p) = opened[p]
                 ELSE p \notin unreported => Found(p) = onDisk[p]
=============================================================================
