------------------------------ MODULE LspSession ------------------------------
(***************************************************************************)
(* One LSP-backed language session: the set of documents it believes it    *)
(* has open in the language server, the overlay of a sibling working copy, *)
(* the flags beside them, and the language server's own view of the open   *)
(* documents (crates/henka-lsp/src/session.rs).                            *)
(*                                                                         *)
(* A file's text is a pair <<copy, stamp>>: the working copy it was        *)
(* written in and a stamp no other write has.  Committed, stamp 0, is the  *)
(* text every working copy was checked out with.  NoText stands for a file *)
(* that does not exist and for a document that is not open.                *)
(*                                                                         *)
(* The server reads one pipe in order, so a notification takes effect, as  *)
(* far as any later request can tell, when it is written; waiting for the  *)
(* server to reconcile (drain_until_reconciled) changes nothing the client *)
(* keeps and gives up after a timeout, so it is not a step.                *)
(*                                                                         *)
(* The operators below are the bodies of the session's methods.  Requests, *)
(* which call them in order, are in RequestDispatch.                       *)
(***************************************************************************)
EXTENDS Integers, FiniteSets

CONSTANTS
    Files,      \* source files, by path relative to a working copy's root
    Copies,     \* working copies of the repository
    Base,       \* the copy the session was started on: session.root()
    MaxStamp,   \* bound: how many writes a behaviour may contain
    NoText,     \* an absent file, a closed document
    NoCopy      \* no overlay is active

ASSUME CopiesAssumption == Base \in Copies /\ NoCopy \notin Copies
ASSUME StampAssumption  == MaxStamp \in Nat
ASSUME TextAssumption   == NoText \notin Copies \X Nat

VARIABLES
    disk,            \* disk[c][f]: the text of file f in working copy c
    clock,           \* the last stamp used
    docs,            \* docs[p]: the text the server holds for open document p
    alive,           \* the server still reads what is written to it
    opened,          \* LspSession::opened
    indexed,         \* LspSession::indexed
    changed,         \* OverlayState::changed, by relative path
    overlaid,        \* OverlayState::opened, by relative path
    overlay_dirty,   \* LspSession::overlay_dirty
    overlay_root     \* LspSession::overlay_root

diskVars    == <<disk, clock>>
overlayVars == <<changed, overlaid, overlay_dirty, overlay_root>>
sessionVars == <<docs, alive, opened, indexed, overlayVars>>

-----------------------------------------------------------------------------
Committed == <<Base, 0>>
Text      == Copies \X Nat
Path      == Copies \X Files          \* an absolute path of a source file

(* The document an overlay addresses: always under the base root's path. *)
BaseDoc(f) == <<Base, f>>

OnDisk(p) == disk[p[1]][p[2]]

(* What the server answers from: the open document, else the file. *)
View(p) == IF docs[p] = NoText THEN OnDisk(p) ELSE docs[p]

(* Mutant: a delta of absolute paths. *)
delta_of_absolute_paths(c) == {<<c, f>> : f \in {g \in Files : disk[c][g] \notin {NoText, Committed}}}

(* git status / jj diff in working copy c, kept to the files that exist. *)
working_copy_delta(c) == {f \in Files : disk[c][f] \notin {NoText, Committed}}

(* The checkout that source quoted in a result is read from. *)
content_root == IF overlay_root = NoCopy THEN Base ELSE overlay_root

-----------------------------------------------------------------------------
(* Document synchronisation. The first three are what a notification does  *)
(* to the server's documents; nothing reaches a server that has died.      *)

DidOpen(p, text) == docs' = [docs EXCEPT ![p] = text]

DidChange(p, text) == docs' = [docs EXCEPT ![p] = text]

DidClose(P) == docs' = IF alive
                       THEN [p \in Path |-> IF p \in P THEN NoText ELSE docs[p]]
                       ELSE docs

(* ensure_open either finds the document open, or opens it with the text   *)
(* it reads from disk.  It fails on an unreadable file and on a dead       *)
(* server.                                                                 *)
CanOpen(p) == p \in opened \/ (OnDisk(p) # NoText /\ alive)

ensure_open(p) ==
    /\ CanOpen(p)
    /\ IF p \in opened
       THEN UNCHANGED <<docs, opened>>
       ELSE /\ DidOpen(p, OnDisk(p))
            /\ opened' = opened \union {p}
    /\ UNCHANGED <<diskVars, alive, indexed, overlayVars>>

(* The first caller takes the flag, whether or not what follows succeeds;  *)
(* the files it then opens are those present under the base root.          *)
IndexFiles == {f \in Files : disk[Base][f] # NoText}

ClaimIndex ==
    /\ indexed' = TRUE
    /\ UNCHANGED <<diskVars, docs, alive, opened, overlayVars>>

-----------------------------------------------------------------------------
(* overlay_workspace(c, delta), one file of the delta at a time.           *)

OverlayReadable(c, f) == disk[c][f] # NoText

(* Mutant: a document opened for the overlay leaves the dirty flag alone.  *)
overlay_unmarked(c, f) ==
    /\ OverlayReadable(c, f)
    /\ alive
    /\ IF BaseDoc(f) \in opened
       THEN /\ DidChange(BaseDoc(f), disk[c][f])
            /\ changed' = changed \union {f}
            /\ overlay_dirty' = TRUE
            /\ UNCHANGED <<opened, overlaid>>
       ELSE /\ DidOpen(BaseDoc(f), disk[c][f])
            /\ opened'   = opened \union {BaseDoc(f)}
            /\ overlaid' = overlaid \union {f}
            /\ UNCHANGED <<changed, overlay_dirty>>
    /\ overlay_root' = c
    /\ UNCHANGED <<diskVars, alive, indexed>>

OverlayFile(c, f) ==
    /\ OverlayReadable(c, f)
    /\ alive
    /\ IF BaseDoc(f) \in opened
       THEN /\ DidChange(BaseDoc(f), disk[c][f])
            /\ changed' = changed \union {f}
            /\ UNCHANGED <<opened, overlaid>>
       ELSE /\ DidOpen(BaseDoc(f), disk[c][f])
            /\ opened'   = opened \union {BaseDoc(f)}
            /\ overlaid' = overlaid \union {f}
            /\ UNCHANGED changed
    /\ overlay_dirty' = TRUE
    /\ overlay_root'  = c
    /\ UNCHANGED <<diskVars, alive, indexed>>

(* Mutant: the flag is cleared before the documents are restored.          *)
take_and_unmark ==
    /\ overlay_root'  = NoCopy
    /\ changed'       = {}
    /\ overlaid'      = {}
    /\ overlay_dirty' = FALSE
    /\ UNCHANGED <<diskVars, docs, alive, opened, indexed>>

(* restore_overlay: forget the root, take the record, then undo it file by *)
(* file.  The record is empty from the moment it is taken.                 *)
TakeOverlay ==
    /\ overlay_root'  = NoCopy
    /\ changed'       = {}
    /\ overlaid'      = {}
    /\ overlay_dirty' = IF changed \union overlaid = {} THEN FALSE ELSE overlay_dirty
    /\ UNCHANGED <<diskVars, docs, alive, opened, indexed>>

(* Mutant: a document the overlay changed is forgotten, not changed back.  *)
restore_nothing(f) == UNCHANGED <<diskVars, sessionVars>>

(* A changed document gets the base file's text back; if that file cannot  *)
(* be read the document is left as it is.                                  *)
RestoreChanged(f) ==
    /\ IF alive /\ OnDisk(BaseDoc(f)) # NoText
       THEN DidChange(BaseDoc(f), OnDisk(BaseDoc(f)))
       ELSE UNCHANGED docs
    /\ UNCHANGED <<diskVars, alive, opened, indexed, overlayVars>>

(* Mutant: the document is closed and still counted as open.               *)
close_keeps_open(f) ==
    /\ DidClose({BaseDoc(f)})
    /\ UNCHANGED <<diskVars, alive, opened, indexed, overlayVars>>

RestoreOpened(f) ==
    /\ DidClose({BaseDoc(f)})
    /\ opened' = opened \ {BaseDoc(f)}
    /\ UNCHANGED <<diskVars, alive, indexed, overlayVars>>

FinishRestore ==
    /\ overlay_dirty' = FALSE
    /\ UNCHANGED <<diskVars, docs, alive, opened, indexed, changed, overlaid, overlay_root>>

(* Mutant: the same slip after an edit.                                     *)
sync_keeps_open(F) ==
    /\ DidClose({BaseDoc(f) : f \in F} \intersect opened)
    /\ UNCHANGED <<diskVars, alive, opened, indexed, overlayVars>>

(* sync_changed(F): close what was open of the changed files, so that the  *)
(* server reads them from disk again.                                      *)
sync_changed(F) ==
    LET closing == {BaseDoc(f) : f \in F} \intersect opened
    IN  /\ DidClose(closing)
        /\ opened' = opened \ closing
        /\ UNCHANGED <<diskVars, alive, indexed, overlayVars>>

-----------------------------------------------------------------------------
(* A sibling copy may come with uncommitted changes, of stamp 0.           *)
SessionInit ==
    /\ clock = 0
    /\ disk \in [Copies -> [Files -> {<<c, 0>> : c \in Copies} \union {NoText}]]
    /\ \A f \in Files : disk[Base][f] \in {Committed, NoText}
    /\ \A c \in Copies, f \in Files : disk[c][f] \in {disk[Base][f], <<c, 0>>}
    /\ docs = [p \in Path |-> NoText]
    /\ alive = TRUE
    /\ opened = {}
    /\ indexed = FALSE
    /\ changed = {}
    /\ overlaid = {}
    /\ overlay_dirty = FALSE
    /\ overlay_root = NoCopy
=============================================================================
