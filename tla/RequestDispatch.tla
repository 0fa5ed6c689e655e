---------------------------- MODULE RequestDispatch ----------------------------
(***************************************************************************)
(* Concurrent tool calls served by one language session: dispatch_operation,*)
(* run_operation and finish_edit of crates/henka-server/src/mcp.rs, with    *)
(* the operation's own calls into the session (ensure_indexed, ensure_open, *)
(* the request, the conversion of its answer) in between.                   *)
(*                                                                          *)
(* Every await is a place where another request, or a person editing a      *)
(* working copy, may act.  Env says which of the things that happen around  *)
(* Henka a behaviour may contain:                                           *)
(*   "outside_worktree"  a sibling working copy is edited by somebody else  *)
(*   "outside_base"      the session's own checkout is                      *)
(*   "busy"              ... also while a request that reads it is running  *)
(*   "absolute"          callers name a file by its absolute path           *)
(*   "rename"            an edit may carry a file rename                    *)
(*   "write_fails"       a write to a working copy may fail                 *)
(*   "server_dies"       the language server may exit                       *)
(***************************************************************************)
EXTENDS LspSession

CONSTANTS
    Requests,   \* concurrent callers; each issues one call after another
    NoOne,      \* nobody holds the request lock
    Env         \* what may happen around the server, see above

ASSUME RequestsAssumption == NoOne \notin Requests

VARIABLES
    holder,         \* the request whose RequestGuard is alive
    pc,             \* pc[r]: how far call r has come
    job,            \* job[r]: what call r asked for
    seen,           \* seen[r]: the texts the server answered r from
    edit,           \* edit[r]: the workspace edit it answered with
    outcome,        \* outcome[r]: whether the operation returned Ok
    todo,           \* files left in the guard holder's current loop
    takenChanged,   \* restore_overlay's own copy of `changed`
    takenOverlaid   \* ... and of `opened`

requestVars == <<holder, pc, job, seen, edit, outcome>>
localVars   == <<todo, takenChanged, takenOverlaid>>
vars        == <<diskVars, sessionVars, requestVars, localVars>>

-----------------------------------------------------------------------------
Steps == {"idle", "waiting", "clearing", "overlaying", "running", "indexing",
          "opening", "asking", "answered", "restoring", "finishing", "syncing"}

Project == "project"     \* symbol-search: no file at all
Targets == Files \union {Project}

ASSUME TargetsAssumption == Project \notin Files

(* handle: an item of an earlier answer is handed back, and target is the  *)
(* file its URI names (incoming-calls and outgoing-calls).                 *)
Job == [copy     : Copies,
        target   : Targets,
        absolute : BOOLEAN,
        handle   : BOOLEAN,
        wants    : {"query", "preview", "apply"}]

Edit == [texts : SUBSET Files, moves : SUBSET (Files \X Files)]

NoJob  == [copy |-> Base, target |-> Project, absolute |-> FALSE,
           handle |-> FALSE, wants |-> "query"]
NoEdit == [texts |-> {}, moves |-> {}]
Unseen == [f \in Files |-> NoText]

Holding(r) == pc[r] \notin {"idle", "waiting"}

(* The document the target names: an absolute path is used as it came.     *)
TargetDoc(r) == IF job[r].absolute THEN <<job[r].copy, job[r].target>>
                                   ELSE BaseDoc(job[r].target)

(* What the server knows of file f while it answers r.                     *)
SeenBy(r, f) == IF f = job[r].target THEN View(TargetDoc(r)) ELSE View(BaseDoc(f))

Goto(r, step) == pc' = [pc EXCEPT ![r] = step]

(* The call returns and its guard, if it has one, is dropped.              *)
Return(r) ==
    /\ Goto(r, "idle")
    /\ holder'  = NoOne
    /\ seen'    = [seen EXCEPT ![r] = Unseen]
    /\ edit'    = [edit EXCEPT ![r] = NoEdit]
    /\ outcome' = [outcome EXCEPT ![r] = "none"]
    /\ job'     = [job EXCEPT ![r] = NoJob]

Continue(r, step) ==
    /\ Goto(r, step)
    /\ UNCHANGED <<holder, job, seen, edit, outcome>>

(* The operation failed: its error waits until the overlay is undone.      *)
OperationFails(r) ==
    /\ Goto(r, "answered")
    /\ outcome' = [outcome EXCEPT ![r] = "error"]
    /\ UNCHANGED <<holder, job, seen, edit>>

Init ==
    /\ SessionInit
    /\ holder = NoOne
    /\ pc = [r \in Requests |-> "idle"]
    /\ job = [r \in Requests |-> NoJob]
    /\ seen = [r \in Requests |-> Unseen]
    /\ edit = [r \in Requests |-> NoEdit]
    /\ outcome = [r \in Requests |-> "none"]
    /\ todo = {}
    /\ takenChanged = {}
    /\ takenOverlaid = {}

-----------------------------------------------------------------------------
(* A call arrives and goes to wait for the session's lock.  Only edits to  *)
(* a file can be applied.                                                  *)
Dispatch(r) ==
    /\ pc[r] = "idle"
    /\ \E j \in Job :
        /\ j.absolute => "absolute" \in Env /\ j.copy # Base /\ j.target \in Files
        /\ j.handle => j.target \in Files /\ ~j.absolute /\ j.wants = "query"
        /\ j.wants # "query" => j.target \in Files
        /\ j.wants = "apply" => clock < MaxStamp
        /\ job' = [job EXCEPT ![r] = j]
    /\ Goto(r, "waiting")
    /\ UNCHANGED <<diskVars, sessionVars, localVars, holder, seen, edit, outcome>>

(* Mutant: every working copy is served from the bare index.               *)
enter_without_overlay(r) ==
    /\ Goto(r, "running")
    /\ todo' = {}

(* With the lock, and no leaked overlay left, the working copy's delta is  *)
(* laid over the index unless that copy is the session's own checkout.     *)
EnterWorkspace(r) ==
    IF job[r].copy = Base
    THEN /\ Goto(r, "running")
         /\ todo' = {}
    ELSE /\ Goto(r, "overlaying")
         /\ todo' = working_copy_delta(job[r].copy)

(* Mutant: the lock is not waited for.                                     *)
begin_unlocked(r) ==
    /\ pc[r] = "waiting"
    /\ holder' = r
    /\ EnterWorkspace(r)
    /\ UNCHANGED <<diskVars, sessionVars, takenChanged, takenOverlaid, job, seen, edit, outcome>>

begin_request(r) ==
    /\ pc[r] = "waiting"
    /\ holder = NoOne
    /\ holder' = r
    /\ IF overlay_dirty
       THEN /\ Goto(r, "clearing")
            /\ TakeOverlay
            /\ takenChanged'  = changed
            /\ takenOverlaid' = overlaid
            /\ UNCHANGED todo
       ELSE /\ EnterWorkspace(r)
            /\ UNCHANGED <<diskVars, sessionVars, takenChanged, takenOverlaid>>
    /\ UNCHANGED <<job, seen, edit, outcome>>

overlay_workspace(r) ==
    /\ pc[r] = "overlaying"
    /\ \E f \in todo :
        /\ todo' = todo \ {f}
        /\ IF OverlayReadable(job[r].copy, f)
           THEN OverlayFile(job[r].copy, f)
           ELSE UNCHANGED <<diskVars, sessionVars>>
    /\ UNCHANGED <<requestVars, takenChanged, takenOverlaid>>

(* Mutant: the error return forgets the guard.                             *)
overlay_fails_locked(r) ==
    /\ pc[r] = "overlaying"
    /\ ~alive
    /\ \E f \in todo : OverlayReadable(job[r].copy, f)
    /\ Goto(r, "idle")
    /\ todo' = {}
    /\ UNCHANGED <<diskVars, sessionVars, takenChanged, takenOverlaid, holder, job, seen,
                   edit, outcome>>

(* A write to a dead server fails: run_operation returns at once, and what *)
(* was overlaid so far stays recorded for the next begin_request.          *)
OverlayFails(r) ==
    /\ pc[r] = "overlaying"
    /\ ~alive
    /\ \E f \in todo : OverlayReadable(job[r].copy, f)
    /\ Return(r)
    /\ todo' = {}
    /\ UNCHANGED <<diskVars, sessionVars, takenChanged, takenOverlaid>>

OverlayDone(r) ==
    /\ pc[r] = "overlaying"
    /\ todo = {}
    /\ Continue(r, "running")
    /\ UNCHANGED <<diskVars, sessionVars, localVars>>

-----------------------------------------------------------------------------
(* operation.run: index once, open the target, ask, convert.               *)

ensure_indexed(r) ==
    /\ pc[r] = "running"
    /\ IF indexed
       THEN /\ Continue(r, "opening")
            /\ UNCHANGED <<sessionVars, todo>>
       ELSE /\ Continue(r, "indexing")
            /\ ClaimIndex
            /\ todo' = IndexFiles
    /\ UNCHANGED <<diskVars, takenChanged, takenOverlaid>>

open_and_reconcile(r) ==
    /\ pc[r] = "indexing"
    /\ \E f \in todo :
        /\ ensure_open(BaseDoc(f))
        /\ todo' = todo \ {f}
    /\ UNCHANGED <<requestVars, takenChanged, takenOverlaid>>

IndexFails(r) ==
    /\ pc[r] = "indexing"
    /\ \E f \in todo : ~CanOpen(BaseDoc(f))
    /\ OperationFails(r)
    /\ todo' = {}
    /\ UNCHANGED <<diskVars, sessionVars, takenChanged, takenOverlaid>>

IndexDone(r) ==
    /\ pc[r] = "indexing"
    /\ todo = {}
    /\ Continue(r, "opening")
    /\ UNCHANGED <<diskVars, sessionVars, localVars>>

OpenTarget(r) ==
    /\ pc[r] = "opening"
    /\ IF job[r].target \in Files
       THEN ensure_open(TargetDoc(r))
       ELSE UNCHANGED <<diskVars, sessionVars>>
    /\ Continue(r, "asking")
    /\ UNCHANGED localVars

(* prepare_for_call_query goes on with an item whose file it cannot open.  *)
OpenIgnored(r) ==
    /\ pc[r] = "opening"
    /\ job[r].handle
    /\ ~CanOpen(TargetDoc(r))
    /\ Continue(r, "asking")
    /\ UNCHANGED <<diskVars, sessionVars, localVars>>

OpenFails(r) ==
    /\ pc[r] = "opening"
    /\ job[r].target \in Files /\ ~job[r].handle
    /\ ~CanOpen(TargetDoc(r))
    /\ OperationFails(r)
    /\ UNCHANGED <<diskVars, sessionVars, localVars>>

(* The server answers from its view.  An edit may touch any file it knows. *)
Answer(r) ==
    /\ pc[r] = "asking"
    /\ alive
    /\ seen' = [seen EXCEPT ![r] = [f \in Files |-> SeenBy(r, f)]]
    /\ \E texts \in SUBSET {f \in Files : SeenBy(r, f) # NoText},
          moves \in {{}} \union {{m} : m \in Files \X Files} :
        /\ job[r].wants = "query" => texts = {}
        /\ moves # {} => "rename" \in Env /\ job[r].wants # "query"
        /\ \A m \in moves : SeenBy(r, m[1]) # NoText /\ SeenBy(r, m[2]) = NoText
        /\ edit' = [edit EXCEPT ![r] = [texts |-> texts, moves |-> moves]]
    /\ outcome' = [outcome EXCEPT ![r] = "ok"]
    /\ Goto(r, "answered")
    /\ UNCHANGED <<diskVars, sessionVars, localVars, holder, job>>

AskFails(r) ==
    /\ pc[r] = "asking"
    /\ ~alive
    /\ OperationFails(r)
    /\ UNCHANGED <<diskVars, sessionVars, localVars>>

-----------------------------------------------------------------------------
(* restore_overlay, whether the operation failed or not.                   *)
restore_overlay(r) ==
    /\ pc[r] = "answered"
    /\ TakeOverlay
    /\ takenChanged'  = changed
    /\ takenOverlaid' = overlaid
    /\ Continue(r, "restoring")
    /\ UNCHANGED todo

RestoreFile(r) ==
    /\ pc[r] \in {"clearing", "restoring"}
    /\ IF takenChanged # {}
       THEN \E f \in takenChanged :
                /\ RestoreChanged(f)
                /\ takenChanged' = takenChanged \ {f}
                /\ UNCHANGED takenOverlaid
       ELSE \E f \in takenOverlaid :
                /\ RestoreOpened(f)
                /\ takenOverlaid' = takenOverlaid \ {f}
                /\ UNCHANGED takenChanged
    /\ UNCHANGED <<requestVars, todo>>

Restored == takenChanged = {} /\ takenOverlaid = {}

ClearDone(r) ==
    /\ pc[r] = "clearing"
    /\ Restored
    /\ FinishRestore
    /\ EnterWorkspace(r)
    /\ UNCHANGED <<takenChanged, takenOverlaid, holder, job, seen, edit, outcome>>

(* Mutant: the guard is dropped when the operation is done, before the     *)
(* edit it produced is applied.                                            *)
drop_guard_early(r) ==
    /\ pc[r] = "restoring"
    /\ Restored
    /\ FinishRestore
    /\ IF outcome[r] = "ok" /\ job[r].wants # "query"
       THEN /\ Goto(r, "finishing")
            /\ holder' = NoOne
            /\ UNCHANGED <<job, seen, edit, outcome>>
       ELSE Return(r)
    /\ UNCHANGED localVars

RestoreDone(r) ==
    /\ pc[r] = "restoring"
    /\ Restored
    /\ FinishRestore
    /\ IF outcome[r] = "ok" /\ job[r].wants # "query"
       THEN Continue(r, "finishing")
       ELSE Return(r)
    /\ UNCHANGED localVars

-----------------------------------------------------------------------------
(* finish_edit.  The edit was computed against base paths; retargeted, the *)
(* same relative paths are rewritten in the requested working copy.        *)

CanRewrite(r) == \A f \in edit[r].texts : disk[job[r].copy][f] # NoText
CanMove(r)    == \A m \in edit[r].moves : disk[job[r].copy][m[1]] # NoText

Preview(r) ==
    /\ pc[r] = "finishing"
    /\ job[r].wants = "preview"
    /\ Return(r)
    /\ UNCHANGED <<diskVars, sessionVars, localVars>>

(* Text edits to the files W, then the moves M.                            *)
Write(r, W, M) ==
    LET c    == job[r].copy
        text == [f \in Files |-> IF f \in W THEN <<c, clock + 1>> ELSE disk[c][f]]
    IN  /\ clock' = clock + 1
        /\ disk' = [disk EXCEPT ![c] =
                     [f \in Files |->
                        IF \E m \in M : m[2] = f THEN text[(CHOOSE m \in M : m[2] = f)[1]]
                        ELSE IF \E m \in M : m[1] = f THEN NoText
                        ELSE text[f]]]

(* Of a moved file only the new path is reported changed.                  *)
ChangedFiles(r) == edit[r].texts \union {m[2] : m \in edit[r].moves}

(* Mutant: an edit of the base is not synced.                              *)
apply_unsynced(r) ==
    /\ pc[r] = "finishing"
    /\ job[r].wants = "apply"
    /\ CanRewrite(r)
    /\ CanMove(r)
    /\ Write(r, edit[r].texts, edit[r].moves)
    /\ Return(r)
    /\ UNCHANGED <<sessionVars, localVars>>

apply(r) ==
    /\ pc[r] = "finishing"
    /\ job[r].wants = "apply"
    /\ CanRewrite(r)
    /\ CanMove(r)
    /\ Write(r, edit[r].texts, edit[r].moves)
    /\ IF job[r].copy = Base THEN Continue(r, "syncing") ELSE Return(r)
    /\ UNCHANGED <<sessionVars, localVars>>

(* A file that cannot be read fails the edit before anything is written.   *)
ApplyRefused(r) ==
    /\ pc[r] = "finishing"
    /\ job[r].wants = "apply"
    /\ ~CanRewrite(r)
    /\ Return(r)
    /\ UNCHANGED <<diskVars, sessionVars, localVars>>

(* A write fails on the way: what was written stays, and nothing is synced.*)
ApplyBreaks(r) ==
    /\ pc[r] = "finishing"
    /\ job[r].wants = "apply"
    /\ CanRewrite(r)
    /\ \E W \in SUBSET edit[r].texts :
        /\ \/ "write_fails" \in Env /\ (W # edit[r].texts \/ edit[r].moves # {})
           \/ ~CanMove(r) /\ W = edit[r].texts
        /\ Write(r, W, {})
    /\ Return(r)
    /\ UNCHANGED <<sessionVars, localVars>>

SyncChanged(r) ==
    /\ pc[r] = "syncing"
    /\ sync_changed(ChangedFiles(r))
    /\ Return(r)
    /\ UNCHANGED localVars

-----------------------------------------------------------------------------
(* What happens around the server.                                         *)

(* Somebody saves, creates, deletes or reverts a file of copy c.           *)
OutsideEdit(c) ==
    /\ (IF c = Base THEN "outside_base" ELSE "outside_worktree") \in Env
    /\ "busy" \in Env \/ \A r \in Requests : c \in {job[r].copy, Base} => pc[r] = "idle"
    /\ clock < MaxStamp
    /\ clock' = clock + 1
    /\ \E f \in Files, text \in {<<c, clock + 1>>, Committed, NoText} :
        disk' = [disk EXCEPT ![c][f] = text]
    /\ UNCHANGED <<sessionVars, requestVars, localVars>>

ServerDies ==
    /\ "server_dies" \in Env
    /\ alive
    /\ alive' = FALSE
    /\ UNCHANGED <<diskVars, docs, opened, indexed, overlayVars, requestVars, localVars>>

Advance(r) ==
    \/ overlay_workspace(r) \/ OverlayFails(r) \/ OverlayDone(r)
    \/ ensure_indexed(r)
    \/ open_and_reconcile(r) \/ IndexFails(r) \/ IndexDone(r)
    \/ OpenTarget(r) \/ OpenIgnored(r) \/ OpenFails(r)
    \/ Answer(r) \/ AskFails(r)
    \/ restore_overlay(r) \/ RestoreFile(r) \/ ClearDone(r) \/ RestoreDone(r)
    \/ Preview(r) \/ apply(r) \/ ApplyRefused(r) \/ ApplyBreaks(r)
    \/ SyncChanged(r)

Next ==
    \/ \E r \in Requests : Dispatch(r) \/ begin_request(r) \/ Advance(r)
    \/ \E c \in Copies : OutsideEdit(c)
    \/ ServerDies

Spec == Init /\ [][Next]_vars

(* A request that can take its next step takes it; the lock is a tokio     *)
(* Mutex, which serves its waiters in the order they came, so a waiting    *)
(* request is not overtaken for ever.  Callers and outsiders owe nothing.  *)
Fairness ==
    \A r \in Requests : WF_vars(Advance(r)) /\ SF_vars(begin_request(r))

FairSpec == Spec /\ Fairness

-----------------------------------------------------------------------------
TypeOK ==
    /\ disk \in [Copies -> [Files -> Copies \X Nat \union {NoText}]]
    /\ clock \in Nat
    /\ docs \in [Path -> Copies \X Nat \union {NoText}]
    /\ alive \in BOOLEAN
    /\ opened \in SUBSET Path
    /\ indexed \in BOOLEAN
    /\ changed \in SUBSET Files
    /\ overlaid \in SUBSET Files
    /\ overlay_dirty \in BOOLEAN
    /\ overlay_root \in Copies \union {NoCopy}
    /\ holder \in Requests \union {NoOne}
    /\ pc \in [Requests -> Steps]
    /\ job \in [Requests -> Job]
    /\ seen \in [Requests -> [Files -> Copies \X Nat \union {NoText}]]
    /\ edit \in [Requests -> Edit]
    /\ outcome \in [Requests -> {"none", "ok", "error"}]
    /\ todo \in SUBSET Files
    /\ takenChanged \in SUBSET Files
    /\ takenOverlaid \in SUBSET Files

(* How far a call has come, as its caller can tell: only an answered call  *)
(* has a result, and only an edit of the base is still busy once applied.  *)
Stage(r) ==
    CASE pc[r] = "idle"    -> "idle"
      [] pc[r] = "syncing" -> "applied"
      [] OTHER             -> IF outcome[r] = "ok" THEN "answered" ELSE "called"

Service == INSTANCE WorkingCopyService WITH stage <- [r \in Requests |-> Stage(r)]

(* The session, with its index, overlays and lock, serves every call as if *)
(* it read the working copy in one step and wrote its edit in another.     *)
ImplementsService == Service!Spec

(* The per-session guard serializes requests: only the request that holds  *)
(* the lock is between begin_request and the drop of its RequestGuard, and *)
(* only then is there a loop or an unfinished restore to share.            *)
GuardInv ==
    /\ \A r \in Requests : Holding(r) <=> holder = r
    /\ todo = {} \/ \E r \in Requests : pc[r] \in {"overlaying", "indexing"}
    /\ Restored \/ \E r \in Requests : pc[r] \in {"clearing", "restoring"}

(* `opened` is what the server has open: a document is never opened twice, *)
(* nor changed or closed while it is not open (the protocol forbids both), *)
(* through overlays, restores, failed operations and syncs.                *)
OpenSetExact == alive => \A p \in Path : p \in opened <=> docs[p] # NoText

(* While nobody holds the lock and the server lives, the index shows the   *)
(* base checkout: no overlay is left behind and every applied edit of the  *)
(* base has reached the server.                                            *)
IdleServesBase ==
    holder = NoOne /\ alive => \A f \in Files : View(BaseDoc(f)) = disk[Base][f]

(* A request is answered from its own working copy's changes over the base *)
(* checkout: what the server shows differs from the base only in files     *)
(* overlaid for this request, and there it is this copy's text.            *)
AnswersFromOwnCopy ==
    \A r \in Requests : pc[r] = "asking" /\ alive =>
        \A f \in Files :
            \/ View(BaseDoc(f)) = disk[Base][f]
            \/ /\ f \in changed \union overlaid
               /\ docs[BaseDoc(f)] \in ({job[r].copy} \X Nat) \union {Committed}

(* An edit of the session's own checkout rewrites exactly the text it was  *)
(* computed on, though other requests edit that checkout too: no request   *)
(* is answered while another one's edit is being applied or synced.        *)
BaseEditsExact ==
    \A r \in Requests :
        pc[r] = "finishing" /\ outcome[r] = "ok" /\ job[r].copy = Base =>
            \A f \in edit[r].texts : disk[Base][f] = seen[r][f]

(* No overlay is forgotten, whatever fails and wherever: while an overlaid *)
(* document is recorded or being restored the dirty flag makes the next    *)
(* begin_request clear it; the record is empty once a request is restored; *)
(* content_root names a copy only while there is a record; and a document  *)
(* to be changed back or closed is still open.                             *)
OverlayRecorded ==
    /\ changed \union overlaid \union takenChanged \union takenOverlaid # {}
         => overlay_dirty
    /\ \A r \in Requests : pc[r] \in {"clearing", "restoring", "finishing", "syncing"}
         => changed \union overlaid = {}
    /\ overlay_root # NoCopy => changed \union overlaid # {}
    /\ \A f \in changed \union overlaid \union takenChanged \union takenOverlaid :
         BaseDoc(f) \in opened

(* Every call that waits for the session is returned from.                 *)
EveryCallReturns == \A r \in Requests : pc[r] = "waiting" ~> pc[r] = "idle"

=============================================================================
