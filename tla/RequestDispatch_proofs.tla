------------------------ MODULE RequestDispatch_proofs ------------------------
(* Theorems about RequestDispatch, for all working copies, files, requests *)
(* and for every behaviour of the surroundings that Env may allow: first of *)
(* requests, working copies and edits; then what the index shows; and at   *)
(* the end that RequestDispatch implements WorkingCopyService: the session *)
(* with its index, its overlays and its lock answers every call from one   *)
(* instant's contents of the call's own working copy, and writes its edit  *)
(* in one step.                                                            *)
EXTENDS RequestDispatch, TLAPS

(* A text: written in some working copy, with some stamp. *)
AnyText == Copies \X Nat \union {NoText}

LEMMA InitTypeOK == Init => TypeOK
<1> SUFFICES ASSUME Init PROVE TypeOK
  OBVIOUS
<1>1. {<<c, 0>> : c \in Copies} \union {NoText} \subseteq AnyText
  BY DEF AnyText
<1>2. disk \in [Copies -> [Files -> AnyText]]
  BY <1>1 DEF Init, SessionInit
<1>3. Unseen \in [Files -> AnyText] /\ NoEdit \in Edit /\ NoJob \in Job
  BY CopiesAssumption DEF Unseen, NoEdit, Edit, NoJob, Job, AnyText, Targets
<1> QED
  BY <1>2, <1>3, CopiesAssumption
  DEF Init, SessionInit, TypeOK, AnyText, Path, Steps

(* The parts of the type invariant the session's methods are about.        *)
SessionOK ==
    /\ disk \in [Copies -> [Files -> AnyText]]
    /\ clock \in Nat
    /\ docs \in [Path -> AnyText]
    /\ alive \in BOOLEAN
    /\ opened \in SUBSET Path
    /\ indexed \in BOOLEAN
    /\ changed \in SUBSET Files
    /\ overlaid \in SUBSET Files
    /\ overlay_dirty \in BOOLEAN
    /\ overlay_root \in Copies \union {NoCopy}

RequestOK ==
    /\ holder \in Requests \union {NoOne}
    /\ pc \in [Requests -> Steps]
    /\ job \in [Requests -> Job]
    /\ seen \in [Requests -> [Files -> AnyText]]
    /\ edit \in [Requests -> Edit]
    /\ outcome \in [Requests -> {"none", "ok", "error"}]

LocalOK ==
    /\ todo \in SUBSET Files
    /\ takenChanged \in SUBSET Files
    /\ takenOverlaid \in SUBSET Files

LEMMA TypeParts == TypeOK <=> SessionOK /\ RequestOK /\ LocalOK
  BY DEF TypeOK, SessionOK, RequestOK, LocalOK, AnyText

LEMMA StutterSession == SessionOK /\ UNCHANGED <<diskVars, sessionVars>> => SessionOK'
  BY DEF SessionOK, diskVars, sessionVars, overlayVars

LEMMA StutterLocal == LocalOK /\ UNCHANGED localVars => LocalOK'
  BY DEF LocalOK, localVars

LEMMA StutterRequest == RequestOK /\ UNCHANGED requestVars => RequestOK'
  BY DEF RequestOK, requestVars

LEMMA ReturnType ==
  ASSUME RequestOK, NEW r \in Requests, Return(r)
  PROVE  RequestOK'
<1>1. Unseen \in [Files -> AnyText] /\ NoEdit \in Edit /\ NoJob \in Job
  BY CopiesAssumption DEF Unseen, NoEdit, Edit, NoJob, Job, AnyText, Targets
<1> QED
  BY <1>1 DEF RequestOK, Return, Goto, Steps

LEMMA ContinueType ==
  ASSUME RequestOK, NEW r \in Requests, NEW step \in Steps, Continue(r, step)
  PROVE  RequestOK'
  BY DEF RequestOK, Continue, Goto

LEMMA FailType ==
  ASSUME RequestOK, NEW r \in Requests, OperationFails(r)
  PROVE  RequestOK'
  BY DEF RequestOK, OperationFails, Goto, Steps

-----------------------------------------------------------------------------
(* What each of the session's methods leaves well typed.                   *)

LEMMA OpenType ==
  ASSUME SessionOK, NEW p \in Path, ensure_open(p)
  PROVE  SessionOK'
<1>1. OnDisk(p) \in AnyText
  BY DEF SessionOK, OnDisk, Path
<1> QED
  BY <1>1 DEF SessionOK, ensure_open, DidOpen, diskVars, overlayVars

LEMMA OverlayType ==
  ASSUME SessionOK, NEW c \in Copies, NEW f \in Files, OverlayFile(c, f)
  PROVE  SessionOK'
<1>1. BaseDoc(f) \in Path /\ disk[c][f] \in AnyText
  BY CopiesAssumption DEF BaseDoc, Path, SessionOK
<1> QED
  BY <1>1 DEF SessionOK, OverlayFile, DidOpen, DidChange, diskVars

LEMMA TakeType ==
  ASSUME SessionOK, TakeOverlay
  PROVE  SessionOK'
  BY DEF SessionOK, TakeOverlay, diskVars

LEMMA CloseType ==
  ASSUME SessionOK, NEW P, DidClose(P)
  PROVE  docs' \in [Path -> AnyText]
  BY DEF SessionOK, DidClose, AnyText

LEMMA RestoreType ==
  ASSUME SessionOK, NEW f \in Files, RestoreChanged(f) \/ RestoreOpened(f)
  PROVE  SessionOK'
<1>1. BaseDoc(f) \in Path /\ OnDisk(BaseDoc(f)) \in AnyText
  BY CopiesAssumption DEF BaseDoc, Path, SessionOK, OnDisk
<1>2. CASE RestoreChanged(f)
  BY <1>1, <1>2 DEF SessionOK, RestoreChanged, DidChange, diskVars, overlayVars
<1>3. CASE RestoreOpened(f)
  <2>1. docs' \in [Path -> AnyText]
    BY <1>3, CloseType DEF RestoreOpened
  <2> QED
    BY <1>3, <2>1 DEF SessionOK, RestoreOpened, diskVars, overlayVars
<1> QED
  BY <1>2, <1>3

LEMMA FinishType ==
  ASSUME SessionOK, FinishRestore
  PROVE  SessionOK'
  BY DEF SessionOK, FinishRestore, diskVars

LEMMA SyncType ==
  ASSUME SessionOK, NEW F, sync_changed(F)
  PROVE  SessionOK'
<1>1. docs' \in [Path -> AnyText]
  BY CloseType DEF sync_changed
<1> QED
  BY <1>1 DEF SessionOK, sync_changed, diskVars, overlayVars

LEMMA WriteType ==
  ASSUME TypeOK, NEW r \in Requests, NEW W \in SUBSET Files,
         NEW M \in SUBSET (Files \X Files), Write(r, W, M)
  PROVE  disk' \in [Copies -> [Files -> AnyText]] /\ clock' \in Nat
<1>1. /\ disk \in [Copies -> [Files -> AnyText]] /\ clock \in Nat
      /\ job[r].copy \in Copies
  BY TypeParts DEF SessionOK, RequestOK, Job
<1> DEFINE c == job[r].copy
           text == [f \in Files |-> IF f \in W THEN <<c, clock + 1>> ELSE disk[c][f]]
           after == [f \in Files |->
                        IF \E m \in M : m[2] = f THEN text[(CHOOSE m \in M : m[2] = f)[1]]
                        ELSE IF \E m \in M : m[1] = f THEN NoText
                        ELSE text[f]]
<1>2. text \in [Files -> AnyText]
  BY <1>1 DEF AnyText
<1>3. ASSUME NEW f \in Files, \E m \in M : m[2] = f
      PROVE  (CHOOSE m \in M : m[2] = f)[1] \in Files
  BY <1>3
<1>4. NoText \in AnyText
  BY DEF AnyText
<1> HIDE DEF text
<1>5. after \in [Files -> AnyText]
  BY <1>2, <1>3, <1>4
<1>6. disk' = [disk EXCEPT ![c] = after] /\ clock' = clock + 1
  BY DEF Write, text
<1> QED
  BY <1>1, <1>5, <1>6

-----------------------------------------------------------------------------
(* What the session's files are called in a type-correct state.            *)
LEMMA JobFacts ==
  ASSUME RequestOK, NEW r \in Requests
  PROVE  /\ job[r].copy \in Copies
         /\ edit[r].texts \in SUBSET Files
         /\ edit[r].moves \in SUBSET (Files \X Files)
         /\ job[r].target \in Files => TargetDoc(r) \in Path
<1>1. job[r] \in Job /\ edit[r] \in Edit
  BY DEF RequestOK
<1> QED
  BY <1>1, CopiesAssumption DEF Job, Edit, TargetDoc, BaseDoc, Path

(* Whatever is found in the index is a text. *)
LEMMA SeenType ==
  ASSUME SessionOK, RequestOK, NEW r \in Requests, NEW f \in Files
  PROVE  SeenBy(r, f) \in AnyText
<1>1. \A p \in Path : View(p) \in AnyText
  BY DEF SessionOK, View, OnDisk, Path
<1>2. BaseDoc(f) \in Path
  BY CopiesAssumption DEF BaseDoc, Path
<1>3. f = job[r].target => TargetDoc(r) \in Path
  BY <1>2, JobFacts DEF TargetDoc, Path
<1> QED
  BY <1>1, <1>2, <1>3 DEF SeenBy

LEMMA EnterType ==
  ASSUME RequestOK, NEW r \in Requests, EnterWorkspace(r)
  PROVE  pc' \in [Requests -> Steps] /\ todo' \in SUBSET Files
  BY DEF RequestOK, EnterWorkspace, Goto, Steps, working_copy_delta

LEMMA DispatchType ==
  ASSUME SessionOK, RequestOK, NEW r \in Requests, Dispatch(r)
  PROVE  RequestOK'
<1>1. job' \in [Requests -> Job]
  BY DEF Dispatch, RequestOK
<1> QED
  BY <1>1 DEF Dispatch, RequestOK, Goto, Steps

LEMMA AnswerType ==
  ASSUME SessionOK, RequestOK, NEW r \in Requests, Answer(r)
  PROVE  RequestOK'
<1>1. [f \in Files |-> SeenBy(r, f)] \in [Files -> AnyText]
  BY SeenType
<1>2. seen' \in [Requests -> [Files -> AnyText]]
  BY <1>1 DEF Answer, RequestOK
<1>3. edit' \in [Requests -> Edit]
  BY DEF Answer, RequestOK, Edit
<1> QED
  BY <1>2, <1>3 DEF Answer, RequestOK, Goto, Steps

-----------------------------------------------------------------------------
LEMMA NextTypeOK == TypeOK /\ [Next]_vars => TypeOK'
<1> SUFFICES ASSUME SessionOK, RequestOK, LocalOK, TypeOK, [Next]_vars
             PROVE  SessionOK' /\ RequestOK' /\ LocalOK'
  BY TypeParts, PTL
<1> USE StutterSession, StutterRequest, StutterLocal
<1>1. CASE UNCHANGED vars
  BY <1>1 DEF vars, requestVars, localVars
<1>2. ASSUME NEW r \in Requests, Dispatch(r) PROVE SessionOK' /\ RequestOK' /\ LocalOK'
  BY <1>2, DispatchType DEF Dispatch
<1>3. ASSUME NEW r \in Requests, begin_request(r) PROVE SessionOK' /\ RequestOK' /\ LocalOK'
  <2>1. SessionOK'
    BY <1>3, TakeType DEF begin_request
  <2>2. RequestOK'
    BY <1>3, EnterType DEF begin_request, RequestOK, Goto, Steps
  <2>3. LocalOK'
    BY <1>3, EnterType DEF begin_request, LocalOK, SessionOK
  <2> QED
    BY <2>1, <2>2, <2>3
<1>4. ASSUME NEW r \in Requests, overlay_workspace(r) \/ OverlayFails(r) \/ OverlayDone(r)
      PROVE  SessionOK' /\ RequestOK' /\ LocalOK'
  <2>1. CASE overlay_workspace(r)
    <3>1. SessionOK'
      BY <2>1, OverlayType, JobFacts DEF overlay_workspace, LocalOK
    <3> QED
      BY <3>1, <2>1 DEF overlay_workspace, LocalOK
  <2>2. CASE OverlayFails(r)
    BY <2>2, ReturnType DEF OverlayFails, LocalOK
  <2>3. CASE OverlayDone(r)
    BY <2>3, ContinueType DEF OverlayDone, Steps
  <2> QED
    BY <1>4, <2>1, <2>2, <2>3
<1>5. ASSUME NEW r \in Requests,
             ensure_indexed(r) \/ OpenIgnored(r) \/ IndexFails(r) \/ IndexDone(r)
      PROVE  SessionOK' /\ RequestOK' /\ LocalOK'
  <2>1. CASE ensure_indexed(r)
    <3>1. SessionOK'
      BY <2>1 DEF ensure_indexed, ClaimIndex, SessionOK, diskVars, sessionVars, overlayVars
    <3>2. RequestOK'
      BY <2>1, ContinueType DEF ensure_indexed, Steps
    <3> QED
      BY <3>1, <3>2, <2>1 DEF ensure_indexed, LocalOK, IndexFiles
  <2>2. CASE OpenIgnored(r)
    BY <2>2, ContinueType DEF OpenIgnored, Steps
  <2>3. CASE IndexFails(r)
    BY <2>3, FailType DEF IndexFails, LocalOK
  <2>4. CASE IndexDone(r)
    BY <2>4, ContinueType DEF IndexDone, Steps
  <2> QED
    BY <1>5, <2>1, <2>2, <2>3, <2>4
<1>6. ASSUME NEW r \in Requests, open_and_reconcile(r)
      PROVE  SessionOK' /\ RequestOK' /\ LocalOK'
  <2>1. \A f \in Files : BaseDoc(f) \in Path
    BY CopiesAssumption DEF BaseDoc, Path
  <2>2. SessionOK'
    BY <1>6, <2>1, OpenType DEF open_and_reconcile, LocalOK
  <2> QED
    BY <2>2, <1>6 DEF open_and_reconcile, LocalOK
<1>7. ASSUME NEW r \in Requests, OpenTarget(r) \/ OpenFails(r)
      PROVE  SessionOK' /\ RequestOK' /\ LocalOK'
  <2>1. CASE OpenTarget(r)
    <3>1. SessionOK'
      BY <2>1, OpenType, JobFacts DEF OpenTarget
    <3> QED
      BY <3>1, <2>1, ContinueType DEF OpenTarget, Steps
  <2>2. CASE OpenFails(r)
    BY <2>2, FailType DEF OpenFails
  <2> QED
    BY <1>7, <2>1, <2>2
<1>8. ASSUME NEW r \in Requests, Answer(r) \/ AskFails(r)
      PROVE  SessionOK' /\ RequestOK' /\ LocalOK'
  BY <1>8, AnswerType, FailType DEF Answer, AskFails
<1>9. ASSUME NEW r \in Requests, restore_overlay(r)
      PROVE  SessionOK' /\ RequestOK' /\ LocalOK'
  <2>1. LocalOK'
    BY <1>9 DEF restore_overlay, LocalOK, SessionOK
  <2> QED
    BY <2>1, <1>9, TakeType, ContinueType DEF restore_overlay, Steps
<1>10. ASSUME NEW r \in Requests, RestoreFile(r)
       PROVE  SessionOK' /\ RequestOK' /\ LocalOK'
  <2>1. SessionOK'
    BY <1>10, RestoreType DEF RestoreFile, LocalOK
  <2> QED
    BY <2>1, <1>10 DEF RestoreFile, LocalOK
<1>11. ASSUME NEW r \in Requests, ClearDone(r)
       PROVE  SessionOK' /\ RequestOK' /\ LocalOK'
  <2>1. RequestOK'
    BY <1>11, EnterType DEF ClearDone, RequestOK
  <2> QED
    BY <2>1, <1>11, EnterType, FinishType DEF ClearDone, LocalOK
<1>12. ASSUME NEW r \in Requests, RestoreDone(r)
       PROVE  SessionOK' /\ RequestOK' /\ LocalOK'
  BY <1>12, FinishType, ReturnType, ContinueType DEF RestoreDone, Steps
<1>13. ASSUME NEW r \in Requests, Preview(r) \/ ApplyRefused(r)
       PROVE  SessionOK' /\ RequestOK' /\ LocalOK'
  BY <1>13, ReturnType DEF Preview, ApplyRefused
<1>14. ASSUME NEW r \in Requests, apply(r) \/ ApplyBreaks(r)
       PROVE  SessionOK' /\ RequestOK' /\ LocalOK'
  <2>1. disk' \in [Copies -> [Files -> AnyText]] /\ clock' \in Nat
    BY <1>14, WriteType, JobFacts DEF apply, ApplyBreaks
  <2>2. SessionOK'
    BY <1>14, <2>1 DEF apply, ApplyBreaks, SessionOK, sessionVars, overlayVars
  <2> QED
    BY <1>14, <2>2, ReturnType, ContinueType DEF apply, ApplyBreaks, Steps
<1>15. ASSUME NEW r \in Requests, SyncChanged(r)
       PROVE  SessionOK' /\ RequestOK' /\ LocalOK'
  BY <1>15, SyncType, ReturnType DEF SyncChanged
<1>16. ASSUME NEW c \in Copies, OutsideEdit(c)
       PROVE  SessionOK' /\ RequestOK' /\ LocalOK'
  <2>1. Committed \in AnyText /\ <<c, clock + 1>> \in AnyText /\ NoText \in AnyText
    BY CopiesAssumption DEF Committed, AnyText, SessionOK
  <2>2. PICK f \in Files, text \in AnyText : disk' = [disk EXCEPT ![c][f] = text]
    BY <1>16, <2>1 DEF OutsideEdit
  <2>3. disk' \in [Copies -> [Files -> AnyText]]
    BY <2>2 DEF SessionOK
  <2>4. SessionOK'
    BY <1>16, <2>3 DEF OutsideEdit, SessionOK, sessionVars, overlayVars
  <2> QED
    BY <2>4, <1>16 DEF OutsideEdit
<1>17. ASSUME ServerDies PROVE SessionOK' /\ RequestOK' /\ LocalOK'
  BY <1>17 DEF ServerDies, SessionOK, RequestOK, LocalOK, diskVars, overlayVars,
     requestVars, localVars
<1> QED
  BY <1>1, <1>2, <1>3, <1>4, <1>5, <1>6, <1>7, <1>8, <1>9, <1>10, <1>11, <1>12,
     <1>13, <1>14, <1>15, <1>16, <1>17 DEF Next, Advance

(* Every behaviour of the request dispatcher is type correct.              *)
THEOREM TypeCorrect == Spec => []TypeOK
<1> QED
  BY InitTypeOK, NextTypeOK, PTL DEF Spec

-----------------------------------------------------------------------------
(* The request guard excludes: with it goes the right to the locals.       *)
LEMMA InitGuard == Init => GuardInv
  BY RequestsAssumption DEF Init, GuardInv, Holding, Restored

LEMMA GuardNext == TypeOK /\ GuardInv /\ [Next]_vars => GuardInv'
<1> SUFFICES ASSUME RequestOK, GuardInv, [Next]_vars PROVE GuardInv'
  BY TypeParts
<1> USE RequestsAssumption
<1>1. CASE UNCHANGED vars
  BY <1>1 DEF vars, requestVars, localVars, GuardInv, Holding, Restored
<1>2. ASSUME NEW r \in Requests, Dispatch(r) PROVE GuardInv'
  BY <1>2 DEF Dispatch, Goto, RequestOK, GuardInv, Holding, Restored, localVars
<1>3. ASSUME NEW r \in Requests, begin_request(r) PROVE GuardInv'
  BY <1>3 DEF begin_request, EnterWorkspace, Goto, RequestOK, GuardInv, Holding, Restored
<1>4. ASSUME NEW r \in Requests, overlay_workspace(r) \/ OverlayFails(r) \/ OverlayDone(r)
      PROVE  GuardInv'
  BY <1>4 DEF overlay_workspace, OverlayFails, OverlayDone, Return, Continue, Goto,
     RequestOK, GuardInv, Holding, Restored, localVars, requestVars
<1>5. ASSUME NEW r \in Requests,
             ensure_indexed(r) \/ OpenIgnored(r) \/ IndexFails(r) \/ IndexDone(r)
      PROVE  GuardInv'
  BY <1>5 DEF ensure_indexed, OpenIgnored, IndexFails, IndexDone, Continue,
     OperationFails, Goto, RequestOK, GuardInv, Holding, Restored, localVars
<1>6. ASSUME NEW r \in Requests, open_and_reconcile(r) \/ OpenTarget(r) \/ OpenFails(r)
      PROVE  GuardInv'
  BY <1>6 DEF open_and_reconcile, OpenTarget, OpenFails, Continue, OperationFails,
     Goto, RequestOK, GuardInv, Holding, Restored, localVars, requestVars
<1>7. ASSUME NEW r \in Requests, Answer(r) \/ AskFails(r) \/ restore_overlay(r)
      PROVE  GuardInv'
  BY <1>7 DEF Answer, AskFails, restore_overlay, Continue, OperationFails,
     Goto, RequestOK, GuardInv, Holding, Restored, localVars
<1>8. ASSUME NEW r \in Requests, RestoreFile(r) PROVE GuardInv'
  BY <1>8 DEF RestoreFile, RequestOK, GuardInv, Holding, Restored, requestVars
<1>9. ASSUME NEW r \in Requests, ClearDone(r) \/ RestoreDone(r) PROVE GuardInv'
  BY <1>9 DEF ClearDone, RestoreDone, EnterWorkspace, Return, Continue, Goto,
     RequestOK, GuardInv, Holding, Restored, localVars
<1>10. ASSUME NEW r \in Requests,
              Preview(r) \/ apply(r) \/ ApplyRefused(r) \/ ApplyBreaks(r) \/ SyncChanged(r)
       PROVE  GuardInv'
  BY <1>10 DEF Preview, apply, ApplyRefused, ApplyBreaks, SyncChanged, Return,
     Continue, Goto, RequestOK, GuardInv, Holding, Restored, localVars
<1>11. ASSUME NEW c \in Copies, OutsideEdit(c) PROVE GuardInv'
  BY <1>11 DEF OutsideEdit, GuardInv, Holding, Restored, localVars, requestVars
<1>12. ASSUME ServerDies PROVE GuardInv'
  BY <1>12 DEF ServerDies, GuardInv, Holding, Restored, localVars, requestVars
<1> QED
  BY <1>1, <1>2, <1>3, <1>4, <1>5, <1>6, <1>7, <1>8, <1>9, <1>10, <1>11, <1>12
  DEF Next, Advance

(* The RequestGuard serializes the requests of a session: at most one is   *)
(* between begin_request and the drop of its guard.                        *)
THEOREM GuardExcludes == Spec => []GuardInv
<1>1. Spec => []TypeOK
  BY TypeCorrect
<1> QED
  BY <1>1, InitGuard, GuardNext, PTL DEF Spec

-----------------------------------------------------------------------------
(* The session's documents and its overlay record: `opened` is what the     *)
(* server has open, and no overlaid document is ever forgotten.             *)
OpenInv == OpenSetExact /\ OverlayRecorded

(* Who may be in a step that undoes or follows an overlay.                  *)
LEMMA OneHolder ==
  ASSUME GuardInv, NEW r \in Requests, pc[r] \notin {"idle", "waiting"}
  PROVE  /\ holder = r
         /\ \A q \in Requests : q # r => pc[q] \in {"idle", "waiting"}
  BY RequestsAssumption DEF GuardInv, Holding

LEMMA BaseDocs ==
  /\ \A f \in Files : BaseDoc(f) \in Path
  /\ \A f, g \in Files : BaseDoc(f) = BaseDoc(g) => f = g
  BY CopiesAssumption DEF BaseDoc, Path

LEMMA NoTextApart ==
  /\ Committed # NoText
  /\ \A c \in Copies, n \in Nat : <<c, n>> # NoText
  BY CopiesAssumption, TextAssumption DEF Committed

-----------------------------------------------------------------------------
(* Each of the session's methods keeps `opened` exact.                      *)

LEMMA OpenExact ==
  ASSUME SessionOK, OpenSetExact, NEW p \in Path, ensure_open(p)
  PROVE  OpenSetExact' /\ opened \subseteq opened'
<1>1. CASE p \in opened
  BY <1>1 DEF ensure_open, OpenSetExact
<1>2. CASE p \notin opened
  BY <1>2 DEF ensure_open, CanOpen, DidOpen, OpenSetExact, SessionOK
<1> QED
  BY <1>1, <1>2

LEMMA OverlayExact ==
  ASSUME SessionOK, OpenSetExact, NEW c \in Copies, NEW f \in Files, OverlayFile(c, f)
  PROVE  /\ OpenSetExact'
         /\ opened' = opened \union {BaseDoc(f)}
         /\ changed' \union overlaid' = changed \union overlaid \union {f}
<1>1. CASE BaseDoc(f) \in opened
  BY <1>1, BaseDocs DEF OverlayFile, OverlayReadable, DidChange, OpenSetExact, SessionOK
<1>2. CASE BaseDoc(f) \notin opened
  BY <1>2, BaseDocs DEF OverlayFile, OverlayReadable, DidOpen, OpenSetExact, SessionOK
<1> QED
  BY <1>1, <1>2

LEMMA RestoreChangedExact ==
  ASSUME SessionOK, OpenSetExact, NEW f \in Files, BaseDoc(f) \in opened, RestoreChanged(f)
  PROVE  OpenSetExact' /\ opened' = opened
  BY BaseDocs DEF RestoreChanged, DidChange, OpenSetExact, SessionOK, overlayVars

LEMMA RestoreOpenedExact ==
  ASSUME SessionOK, OpenSetExact, NEW f \in Files, RestoreOpened(f)
  PROVE  OpenSetExact' /\ opened' = opened \ {BaseDoc(f)}
  BY BaseDocs DEF RestoreOpened, DidClose, OpenSetExact, SessionOK, overlayVars

LEMMA SyncExact ==
  ASSUME SessionOK, OpenSetExact, NEW F, sync_changed(F)
  PROVE  OpenSetExact'
  BY DEF sync_changed, DidClose, OpenSetExact, SessionOK

LEMMA TakeRecord ==
  ASSUME SessionOK, OverlayRecorded, TakeOverlay,
         takenChanged' = changed, takenOverlaid' = overlaid
  PROVE  /\ changed' \union overlaid' = {}
         /\ overlay_root' = NoCopy
         /\ takenChanged' \union takenOverlaid' # {} => overlay_dirty'
         /\ \A f \in takenChanged' \union takenOverlaid' : BaseDoc(f) \in opened'
  BY DEF TakeOverlay, OverlayRecorded, SessionOK

-----------------------------------------------------------------------------
LEMMA InitOpenInv == Init => OpenInv
  BY DEF Init, SessionInit, OpenInv, OpenSetExact, OverlayRecorded

LEMMA OpenNext == TypeOK /\ GuardInv /\ OpenInv /\ [Next]_vars => OpenInv'
<1> SUFFICES ASSUME TypeOK, SessionOK, RequestOK, LocalOK, GuardInv, OpenSetExact,
                    OverlayRecorded, [Next]_vars
             PROVE  OpenSetExact' /\ OverlayRecorded'
  BY TypeParts DEF OpenInv
<1>1. CASE UNCHANGED vars
  BY <1>1 DEF vars, sessionVars, overlayVars, requestVars, localVars, OpenSetExact,
     OverlayRecorded
<1>2. ASSUME NEW r \in Requests, Dispatch(r) PROVE OpenSetExact' /\ OverlayRecorded'
  BY <1>2 DEF Dispatch, Goto, RequestOK, sessionVars, overlayVars, localVars,
     OpenSetExact, OverlayRecorded
<1>3. ASSUME NEW r \in Requests, begin_request(r) PROVE OpenSetExact' /\ OverlayRecorded'
  <2>1. CASE overlay_dirty
    <3>1. TakeOverlay /\ takenChanged' = changed /\ takenOverlaid' = overlaid
      BY <1>3, <2>1 DEF begin_request
    <3> QED
      BY <3>1, TakeRecord DEF TakeOverlay, OpenSetExact, OverlayRecorded
  <2>2. CASE ~overlay_dirty
    <3>1. \A q \in Requests : pc'[q] \in {"clearing", "restoring", "finishing", "syncing"}
            => pc[q] = pc'[q]
      BY <1>3, <2>2 DEF begin_request, EnterWorkspace, Goto, RequestOK
    <3> QED
      BY <1>3, <2>2, <3>1 DEF begin_request, sessionVars, overlayVars, OpenSetExact,
         OverlayRecorded
  <2> QED
    BY <2>1, <2>2
<1>4. ASSUME NEW r \in Requests, overlay_workspace(r)
      PROVE  OpenSetExact' /\ OverlayRecorded'
  <2>0. UNCHANGED <<pc, takenChanged, takenOverlaid>>
    BY <1>4 DEF overlay_workspace, requestVars
  <2>1. PICK f \in todo : IF OverlayReadable(job[r].copy, f)
                          THEN OverlayFile(job[r].copy, f)
                          ELSE UNCHANGED <<diskVars, sessionVars>>
    BY <1>4 DEF overlay_workspace
  <2>2. CASE OverlayFile(job[r].copy, f)
    <3>1. /\ OpenSetExact'
          /\ opened' = opened \union {BaseDoc(f)}
          /\ changed' \union overlaid' = changed \union overlaid \union {f}
      BY <2>2, OverlayExact, JobFacts DEF LocalOK
    <3>2. overlay_dirty'
      BY <2>2 DEF OverlayFile
    <3>3. \A q \in Requests : pc[q] \notin {"clearing", "restoring", "finishing", "syncing"}
      BY <1>4, OneHolder DEF overlay_workspace
    <3> QED
      BY <2>0, <3>1, <3>2, <3>3 DEF OverlayRecorded
  <2>3. CASE UNCHANGED <<diskVars, sessionVars>>
    BY <2>0, <2>3 DEF sessionVars, overlayVars, OpenSetExact, OverlayRecorded
  <2> QED
    BY <2>1, <2>2, <2>3
<1>5. ASSUME NEW r \in Requests, OverlayFails(r) \/ OverlayDone(r) \/ OpenIgnored(r)
                 \/ IndexFails(r) \/ IndexDone(r) \/ OpenFails(r) \/ Answer(r) \/ AskFails(r)
      PROVE  OpenSetExact' /\ OverlayRecorded'
  <2>1. UNCHANGED <<sessionVars, takenChanged, takenOverlaid>>
    BY <1>5 DEF OverlayFails, OverlayDone, OpenIgnored, IndexFails, IndexDone, OpenFails,
       Answer, AskFails, localVars
  <2>2. \A q \in Requests : pc'[q] \in {"clearing", "restoring", "finishing", "syncing"}
          => pc[q] = pc'[q]
    BY <1>5 DEF OverlayFails, OverlayDone, OpenIgnored, IndexFails, IndexDone, OpenFails,
       Answer, AskFails, Return, Continue, OperationFails, Goto, RequestOK
  <2> QED
    BY <2>1, <2>2 DEF sessionVars, overlayVars, OpenSetExact, OverlayRecorded
<1>6. ASSUME NEW r \in Requests, ensure_indexed(r) PROVE OpenSetExact' /\ OverlayRecorded'
  <2>1. UNCHANGED <<docs, alive, opened, overlayVars, takenChanged, takenOverlaid>>
    BY <1>6 DEF ensure_indexed, ClaimIndex, sessionVars
  <2>2. \A q \in Requests : pc'[q] \in {"clearing", "restoring", "finishing", "syncing"}
          => pc[q] = pc'[q]
    BY <1>6 DEF ensure_indexed, Continue, Goto, RequestOK
  <2> QED
    BY <2>1, <2>2 DEF overlayVars, OpenSetExact, OverlayRecorded
<1>7. ASSUME NEW r \in Requests, open_and_reconcile(r) \/ OpenTarget(r)
      PROVE  OpenSetExact' /\ OverlayRecorded'
  <2>1. /\ UNCHANGED <<overlayVars, takenChanged, takenOverlaid>>
        /\ OpenSetExact' /\ opened \subseteq opened'
    <3>1. CASE open_and_reconcile(r)
      BY <3>1, OpenExact, BaseDocs DEF open_and_reconcile, ensure_open, LocalOK
    <3>2. CASE OpenTarget(r) /\ job[r].target \in Files
      BY <3>2, OpenExact, JobFacts DEF OpenTarget, ensure_open, localVars
    <3>3. CASE OpenTarget(r) /\ job[r].target \notin Files
      BY <3>3 DEF OpenTarget, localVars, sessionVars, OpenSetExact
    <3> QED
      BY <1>7, <3>1, <3>2, <3>3
  <2>2. \A q \in Requests : pc'[q] \in {"clearing", "restoring", "finishing", "syncing"}
          => pc[q] = pc'[q]
    BY <1>7 DEF open_and_reconcile, OpenTarget, requestVars, Continue, Goto, RequestOK
  <2> QED
    BY <2>1, <2>2 DEF overlayVars, OverlayRecorded
<1>8. ASSUME NEW r \in Requests, restore_overlay(r) PROVE OpenSetExact' /\ OverlayRecorded'
  <2>1. TakeOverlay /\ takenChanged' = changed /\ takenOverlaid' = overlaid
    BY <1>8 DEF restore_overlay
  <2> QED
    BY <2>1, TakeRecord DEF TakeOverlay, OpenSetExact, OverlayRecorded
<1>9. ASSUME NEW r \in Requests, RestoreFile(r) PROVE OpenSetExact' /\ OverlayRecorded'
  <2>1. changed \union overlaid = {} /\ UNCHANGED <<pc, overlayVars>>
    BY <1>9 DEF RestoreFile, RestoreChanged, RestoreOpened, OverlayRecorded, requestVars
  <2>2. CASE takenChanged # {}
    <3>1. PICK f \in takenChanged : RestoreChanged(f) /\ takenChanged' = takenChanged \ {f}
      BY <1>9, <2>2 DEF RestoreFile
    <3>2. OpenSetExact' /\ opened' = opened
      BY <3>1, RestoreChangedExact DEF LocalOK, OverlayRecorded
    <3>3. takenOverlaid' = takenOverlaid
      BY <1>9, <2>2 DEF RestoreFile
    <3> QED
      BY <2>1, <3>1, <3>2, <3>3 DEF overlayVars, OverlayRecorded
  <2>3. CASE takenChanged = {}
    <3>1. PICK f \in takenOverlaid : /\ RestoreOpened(f)
                                     /\ takenOverlaid' = takenOverlaid \ {f}
                                     /\ UNCHANGED takenChanged
      BY <1>9, <2>3 DEF RestoreFile
    <3>2. OpenSetExact' /\ opened' = opened \ {BaseDoc(f)}
      BY <3>1, RestoreOpenedExact DEF LocalOK
    <3> QED
      BY <2>1, <2>3, <3>1, <3>2, BaseDocs DEF overlayVars, OverlayRecorded, LocalOK
  <2> QED
    BY <2>2, <2>3
<1>10. ASSUME NEW r \in Requests, ClearDone(r) \/ RestoreDone(r)
       PROVE  OpenSetExact' /\ OverlayRecorded'
  <2>1. changed \union overlaid = {} /\ takenChanged \union takenOverlaid = {}
    BY <1>10 DEF ClearDone, RestoreDone, Restored, OverlayRecorded
  <2> QED
    BY <2>1, <1>10 DEF ClearDone, RestoreDone, FinishRestore, localVars, OpenSetExact,
       OverlayRecorded
<1>11. ASSUME NEW r \in Requests,
              Preview(r) \/ apply(r) \/ ApplyRefused(r) \/ ApplyBreaks(r)
       PROVE  OpenSetExact' /\ OverlayRecorded'
  <2>1. UNCHANGED <<sessionVars, takenChanged, takenOverlaid>> /\ changed \union overlaid = {}
    BY <1>11 DEF Preview, apply, ApplyRefused, ApplyBreaks, localVars, OverlayRecorded
  <2> QED
    BY <2>1 DEF sessionVars, overlayVars, OpenSetExact, OverlayRecorded
<1>12. ASSUME NEW r \in Requests, SyncChanged(r) PROVE OpenSetExact' /\ OverlayRecorded'
  <2>1. UNCHANGED <<overlayVars, takenChanged, takenOverlaid>> /\ changed \union overlaid = {}
    BY <1>12 DEF SyncChanged, sync_changed, localVars, OverlayRecorded
  <2>2. takenChanged \union takenOverlaid = {}
    BY <1>12, OneHolder DEF SyncChanged, GuardInv, Restored
  <2> QED
    BY <1>12, <2>1, <2>2, SyncExact DEF SyncChanged, overlayVars, OverlayRecorded
<1>13. ASSUME NEW c \in Copies, OutsideEdit(c) PROVE OpenSetExact' /\ OverlayRecorded'
  BY <1>13 DEF OutsideEdit, sessionVars, overlayVars, requestVars, localVars,
     OpenSetExact, OverlayRecorded
<1>14. ASSUME ServerDies PROVE OpenSetExact' /\ OverlayRecorded'
  BY <1>14 DEF ServerDies, overlayVars, requestVars, localVars, OpenSetExact,
     OverlayRecorded
<1> QED
  BY <1>1, <1>2, <1>3, <1>4, <1>5, <1>6, <1>7, <1>8, <1>9, <1>10, <1>11, <1>12,
     <1>13, <1>14 DEF Next, Advance

(* `opened` and the server agree, whatever fails: no document is opened     *)
(* twice, and none is changed or closed that is not open.                   *)
THEOREM OpenedIsExact == Spec => []OpenSetExact
<1>1. Spec => [](TypeOK /\ GuardInv)
  BY TypeCorrect, GuardExcludes, PTL
<1>2. OpenInv => OpenSetExact
  BY DEF OpenInv
<1> QED
  BY <1>1, <1>2, InitOpenInv, OpenNext, PTL DEF Spec

(* An overlay that was not undone is marked for the next request to clear.  *)
THEOREM OverlaysAreRecorded == Spec => []OverlayRecorded
<1>1. Spec => [](TypeOK /\ GuardInv)
  BY TypeCorrect, GuardExcludes, PTL
<1>2. OpenInv => OverlayRecorded
  BY DEF OpenInv
<1> QED
  BY <1>1, <1>2, InitOpenInv, OpenNext, PTL DEF Spec

-----------------------------------------------------------------------------
(* The index view, when the base checkout is edited through the server     *)
(* only, those edits do not fail half way and carry no file renames.       *)
(* Sibling working copies may be edited at any moment, and the language    *)
(* server may die at any moment.                                           *)
BaseIsOurs == Env \intersect {"outside_base", "rename", "write_fails"} = {}

(* The steps of a request during which an overlay may be in place.         *)
Answering == {"overlaying", "running", "indexing", "opening", "asking", "answered"}

Overlaid  == changed \union overlaid
Returning == takenChanged \union takenOverlaid

(* A document is overlaid once, by one of the two ways.                    *)
OverlaidOnce ==
    /\ changed \intersect overlaid = {}
    /\ takenChanged \intersect takenOverlaid = {}
    /\ \A r \in Requests : pc[r] = "overlaying" => todo \intersect Overlaid = {}

(* A working copy holds what was committed and what was written in it.     *)
OwnTexts ==
    \A c \in Copies, f \in Files : disk[c][f] \in {c} \X Nat \union {Committed, NoText}

NoMoves == \A r \in Requests : edit[r].moves = {}

(* A request for the base itself is answered without any overlay.          *)
BaseUncovered ==
    \A r \in Requests : pc[r] \in Answering /\ job[r].copy = Base =>
        pc[r] # "overlaying" /\ Overlaid = {}

(* An overlay is in place only on behalf of a request being answered, and  *)
(* shows that request's working copy.                                      *)
OverlayIsOwn ==
    alive /\ Overlaid # {} =>
        \E r \in Requests :
            /\ pc[r] \in Answering
            /\ \A f \in Overlaid : docs[BaseDoc(f)] \in {job[r].copy} \X Nat \union {Committed}

(* A base document is open over a base file, or was opened for an overlay. *)
OpenOverFile ==
    \A f \in Files : BaseDoc(f) \in opened =>
        disk[Base][f] # NoText \/ f \in overlaid \union takenOverlaid

(* The index shows the base, but for what is overlaid, being restored or   *)
(* just written and not yet synced.                                        *)
ShowsBase ==
    alive => \A f \in Files :
        \/ View(BaseDoc(f)) = disk[Base][f]
        \/ f \in Overlaid \union Returning
        \/ \E r \in Requests : pc[r] = "syncing" /\ f \in ChangedFiles(r)

(* What a base edit was computed from still stands.                        *)
EditStillExact ==
    \A r \in Requests :
        pc[r] \in {"answered", "restoring", "finishing"} /\ outcome[r] = "ok"
          /\ job[r].copy = Base
        => \A f \in edit[r].texts : disk[Base][f] = seen[r][f]

-----------------------------------------------------------------------------
LEMMA InitOnce == Init => OverlaidOnce
  BY DEF Init, SessionInit, OverlaidOnce

LEMMA OverlaidOnceNext ==
  ASSUME TypeOK, GuardInv, OpenInv, OverlaidOnce, [Next]_vars
  PROVE  OverlaidOnce'
<1> SUFFICES ASSUME SessionOK, RequestOK, LocalOK, OverlayRecorded PROVE OverlaidOnce'
  BY TypeParts DEF OpenInv
<1> USE DEF OverlaidOnce, Overlaid
<1>1. CASE UNCHANGED vars
  BY <1>1 DEF vars, sessionVars, overlayVars, requestVars, localVars
<1>2. ASSUME NEW r \in Requests, Dispatch(r) PROVE OverlaidOnce'
  BY <1>2 DEF Dispatch, Goto, RequestOK, sessionVars, overlayVars, localVars
<1>3. ASSUME NEW r \in Requests, begin_request(r) PROVE OverlaidOnce'
  <2>1. CASE overlay_dirty
    BY <1>3, <2>1 DEF begin_request, TakeOverlay
  <2>2. CASE ~overlay_dirty
    BY <1>3, <2>2 DEF begin_request, sessionVars, overlayVars, OverlayRecorded
  <2> QED
    BY <2>1, <2>2
<1>4. ASSUME NEW r \in Requests, overlay_workspace(r) PROVE OverlaidOnce'
  <2>1. PICK f \in todo : /\ todo' = todo \ {f}
                          /\ IF OverlayReadable(job[r].copy, f)
                             THEN OverlayFile(job[r].copy, f)
                             ELSE UNCHANGED <<diskVars, sessionVars>>
    BY <1>4 DEF overlay_workspace
  <2>2. f \notin changed \union overlaid /\ UNCHANGED <<pc, takenChanged, takenOverlaid>>
    BY <1>4, <2>1 DEF overlay_workspace, requestVars
  <2>3. \/ changed' = changed \union {f} /\ overlaid' = overlaid
        \/ changed' = changed /\ overlaid' = overlaid \union {f}
        \/ changed' = changed /\ overlaid' = overlaid
    BY <2>1 DEF OverlayFile, sessionVars, overlayVars
  <2> QED
    BY <1>4, <2>1, <2>2, <2>3 DEF overlay_workspace
<1>5. ASSUME NEW r \in Requests, OverlayFails(r) \/ OverlayDone(r) \/ OpenIgnored(r)
                 \/ IndexFails(r) \/ IndexDone(r) \/ OpenFails(r) \/ Answer(r) \/ AskFails(r)
      PROVE  OverlaidOnce'
  <2>1. UNCHANGED <<sessionVars, takenChanged, takenOverlaid>> /\ todo' \subseteq todo
    BY <1>5 DEF OverlayFails, OverlayDone, OpenIgnored, IndexFails, IndexDone, OpenFails,
       Answer, AskFails, localVars
  <2>2. \A q \in Requests : pc'[q] = "overlaying" => pc[q] = "overlaying"
    BY <1>5 DEF OverlayFails, OverlayDone, OpenIgnored, IndexFails, IndexDone, OpenFails,
       Answer, AskFails, Return, Continue, OperationFails, Goto, RequestOK
  <2> QED
    BY <2>1, <2>2 DEF sessionVars, overlayVars
<1>6. ASSUME NEW r \in Requests, ensure_indexed(r) \/ open_and_reconcile(r) \/ OpenTarget(r)
      PROVE  OverlaidOnce'
  <2>1. UNCHANGED <<changed, overlaid, takenChanged, takenOverlaid>>
    BY <1>6 DEF ensure_indexed, ClaimIndex, open_and_reconcile, OpenTarget, ensure_open,
       localVars, sessionVars, overlayVars
  <2>2. \A q \in Requests : pc'[q] # "overlaying"
    BY <1>6, OneHolder DEF ensure_indexed, open_and_reconcile, OpenTarget, requestVars,
       Continue, Goto, RequestOK
  <2> QED
    BY <2>1, <2>2
<1>7. ASSUME NEW r \in Requests, restore_overlay(r) PROVE OverlaidOnce'
  BY <1>7 DEF restore_overlay, TakeOverlay
<1>8. ASSUME NEW r \in Requests, RestoreFile(r) PROVE OverlaidOnce'
  BY <1>8 DEF RestoreFile, RestoreChanged, RestoreOpened, overlayVars, requestVars
<1>9. ASSUME NEW r \in Requests, ClearDone(r) \/ RestoreDone(r) PROVE OverlaidOnce'
  <2>1. changed \union overlaid = {}
    BY <1>9 DEF ClearDone, RestoreDone, OverlayRecorded
  <2> QED
    BY <2>1, <1>9 DEF ClearDone, RestoreDone, FinishRestore, localVars
<1>10. ASSUME NEW r \in Requests, Preview(r) \/ apply(r) \/ ApplyRefused(r)
                  \/ ApplyBreaks(r) \/ SyncChanged(r)
       PROVE  OverlaidOnce'
  <2>1. UNCHANGED <<changed, overlaid, takenChanged, takenOverlaid, todo>>
    BY <1>10 DEF Preview, apply, ApplyRefused, ApplyBreaks, SyncChanged, sync_changed,
       localVars, sessionVars, overlayVars
  <2>2. \A q \in Requests : pc'[q] = "overlaying" => pc[q] = "overlaying"
    BY <1>10 DEF Preview, apply, ApplyRefused, ApplyBreaks, SyncChanged, Return,
       Continue, Goto, RequestOK
  <2> QED
    BY <2>1, <2>2
<1>11. ASSUME NEW c \in Copies, OutsideEdit(c) PROVE OverlaidOnce'
  BY <1>11 DEF OutsideEdit, sessionVars, overlayVars, requestVars, localVars
<1>12. ASSUME ServerDies PROVE OverlaidOnce'
  BY <1>12 DEF ServerDies, overlayVars, requestVars, localVars
<1> QED
  BY <1>1, <1>2, <1>3, <1>4, <1>5, <1>6, <1>7, <1>8, <1>9, <1>10, <1>11, <1>12
  DEF Next, Advance

-----------------------------------------------------------------------------
LEMMA InitMoves == Init => NoMoves
  BY DEF Init, NoMoves, NoEdit

(* Without renames in Env no operation answers with one.                   *)
LEMMA NoMovesNext ==
  ASSUME BaseIsOurs, TypeOK, NoMoves, [Next]_vars
  PROVE  NoMoves'
<1> SUFFICES ASSUME RequestOK PROVE NoMoves'
  BY TypeParts
<1>1. CASE UNCHANGED edit
  BY <1>1 DEF NoMoves
<1>2. ASSUME NEW r \in Requests, Return(r) PROVE NoMoves'
  BY <1>2 DEF Return, NoMoves, NoEdit, RequestOK
<1>3. ASSUME NEW r \in Requests, Answer(r) PROVE NoMoves'
  BY <1>3 DEF Answer, NoMoves, RequestOK, BaseIsOurs
<1>4. ASSUME NEW r \in Requests,
             Dispatch(r) \/ begin_request(r) \/ ensure_indexed(r) \/ OpenIgnored(r)
               \/ OverlayDone(r) \/ IndexFails(r) \/ IndexDone(r) \/ OpenTarget(r)
               \/ OpenFails(r) \/ AskFails(r) \/ restore_overlay(r) \/ ClearDone(r)
      PROVE  UNCHANGED edit
  BY <1>4 DEF Dispatch, begin_request, ensure_indexed, OpenIgnored, OverlayDone, IndexFails,
     IndexDone, OpenTarget, OpenFails, AskFails, restore_overlay, ClearDone, Continue,
     OperationFails
<1>5. ASSUME NEW r \in Requests, overlay_workspace(r) \/ open_and_reconcile(r) \/ RestoreFile(r)
      PROVE  UNCHANGED edit
  BY <1>5 DEF overlay_workspace, open_and_reconcile, RestoreFile, requestVars
<1>6. ASSUME NEW r \in Requests,
             OverlayFails(r) \/ RestoreDone(r) \/ Preview(r) \/ apply(r) \/ ApplyRefused(r)
               \/ ApplyBreaks(r) \/ SyncChanged(r)
      PROVE  Return(r) \/ UNCHANGED edit
  BY <1>6 DEF OverlayFails, RestoreDone, Preview, apply, ApplyRefused, ApplyBreaks,
     SyncChanged, Continue
<1>7. (\E c \in Copies : OutsideEdit(c)) \/ ServerDies \/ UNCHANGED vars => UNCHANGED edit
  BY DEF OutsideEdit, ServerDies, requestVars, vars
<1> QED
  BY <1>1, <1>2, <1>3, <1>4, <1>5, <1>6, <1>7 DEF Next, Advance

-----------------------------------------------------------------------------
(* Which steps write to a working copy, and what.                          *)
Writes(r) ==
    /\ pc[r] = "finishing"
    /\ job[r].wants = "apply"
    /\ CanRewrite(r)
    /\ Write(r, edit[r].texts, {})
    /\ UNCHANGED <<sessionVars, localVars>>
    /\ \/ job[r].copy # Base /\ Return(r)
       \/ job[r].copy = Base /\ Continue(r, "syncing")

LEMMA ApplyIsWrite ==
  ASSUME BaseIsOurs, TypeOK, NoMoves, NEW r \in Requests, apply(r) \/ ApplyBreaks(r)
  PROVE  Writes(r)
<1>1. ~ApplyBreaks(r)
  BY DEF ApplyBreaks, CanMove, BaseIsOurs, NoMoves
<1> QED
  BY <1>1 DEF apply, Writes, NoMoves

LEMMA WriteEffect ==
  ASSUME SessionOK, RequestOK, NEW r \in Requests, NEW W \in SUBSET Files, Write(r, W, {})
  PROVE  \A c \in Copies, f \in Files :
            disk'[c][f] = IF c = job[r].copy /\ f \in W
                          THEN <<job[r].copy, clock + 1>> ELSE disk[c][f]
<1>1. disk' = [disk EXCEPT ![job[r].copy] =
                [f \in Files |-> IF f \in W THEN <<job[r].copy, clock + 1>>
                                            ELSE disk[job[r].copy][f]]]
  BY DEF Write
<1>2. job[r].copy \in Copies
  BY JobFacts
<1> QED
  BY <1>1, <1>2 DEF SessionOK

(* No other step touches a file, and nobody but the server the base's.     *)
LEMMA DiskFrame ==
  ASSUME BaseIsOurs, TypeOK, NoMoves, [Next]_vars
  PROVE  \/ UNCHANGED disk
         \/ \E r \in Requests : Writes(r)
         \/ \E c \in Copies : OutsideEdit(c) /\ disk'[Base] = disk[Base]
<1>1. ASSUME NEW c \in Copies, OutsideEdit(c) PROVE disk'[Base] = disk[Base]
  BY <1>1, TypeParts, CopiesAssumption DEF OutsideEdit, BaseIsOurs, SessionOK
<1>2. ASSUME NEW r \in Requests, Dispatch(r) \/ begin_request(r) \/ Advance(r),
             ~apply(r), ~ApplyBreaks(r)
      PROVE  UNCHANGED disk
  <2>1. CASE Dispatch(r) \/ OverlayFails(r) \/ OverlayDone(r) \/ ensure_indexed(r)
              \/ OpenIgnored(r) \/ IndexFails(r) \/ IndexDone(r) \/ OpenFails(r)
              \/ Answer(r) \/ AskFails(r) \/ Preview(r) \/ ApplyRefused(r)
    BY <2>1 DEF Dispatch, OverlayFails, OverlayDone, ensure_indexed, OpenIgnored, IndexFails,
       IndexDone, OpenFails, Answer, AskFails, Preview, ApplyRefused, diskVars
  <2>2. CASE begin_request(r) \/ restore_overlay(r) \/ RestoreFile(r) \/ ClearDone(r)
              \/ RestoreDone(r)
    BY <2>2 DEF begin_request, restore_overlay, RestoreFile, ClearDone, RestoreDone,
       TakeOverlay, RestoreChanged, RestoreOpened, FinishRestore, diskVars
  <2>3. CASE overlay_workspace(r) \/ open_and_reconcile(r) \/ OpenTarget(r) \/ SyncChanged(r)
    BY <2>3 DEF overlay_workspace, OverlayFile, open_and_reconcile, OpenTarget, ensure_open,
       SyncChanged, sync_changed, diskVars
  <2> QED
    BY <1>2, <2>1, <2>2, <2>3 DEF Advance
<1>3. ServerDies \/ UNCHANGED vars => UNCHANGED disk
  BY DEF ServerDies, vars, diskVars
<1> QED
  BY <1>1, <1>2, <1>3, ApplyIsWrite DEF Next, Advance

LEMMA InitTexts == Init => OwnTexts
<1> SUFFICES ASSUME Init, NEW c \in Copies, NEW f \in Files
             PROVE  disk[c][f] \in {c} \X Nat \union {Committed, NoText}
  BY DEF OwnTexts
<1>1. disk[c][f] \in {disk[Base][f], <<c, 0>>} /\ disk[Base][f] \in {Committed, NoText}
  BY DEF Init, SessionInit
<1> QED
  BY <1>1

LEMMA OwnTextsNext ==
  ASSUME BaseIsOurs, TypeOK, NoMoves, OwnTexts, [Next]_vars
  PROVE  OwnTexts'
<1> SUFFICES ASSUME SessionOK, RequestOK PROVE OwnTexts'
  BY TypeParts
<1>1. CASE UNCHANGED disk
  BY <1>1 DEF OwnTexts
<1>2. ASSUME NEW r \in Requests, Writes(r) PROVE OwnTexts'
  <2>1. \A c \in Copies, f \in Files :
           disk'[c][f] = IF c = job[r].copy /\ f \in edit[r].texts
                         THEN <<job[r].copy, clock + 1>> ELSE disk[c][f]
    BY <1>2, WriteEffect, JobFacts DEF Writes
  <2>2. clock + 1 \in Nat
    BY DEF SessionOK
  <2> QED
    BY <2>1, <2>2 DEF OwnTexts
<1>3. ASSUME NEW c \in Copies, OutsideEdit(c) PROVE OwnTexts'
  <2>1. PICK f \in Files, text \in {<<c, clock + 1>>, Committed, NoText} :
           disk' = [disk EXCEPT ![c][f] = text]
    BY <1>3 DEF OutsideEdit
  <2>2. text \in {c} \X Nat \union {Committed, NoText}
    BY <2>1 DEF SessionOK
  <2> QED
    BY <2>1, <2>2 DEF OwnTexts, SessionOK
<1> QED
  BY <1>1, <1>2, <1>3, DiskFrame

-----------------------------------------------------------------------------
(* How a request comes to be answered: it enters from the lock, or already *)
(* was, for the same job.                                                  *)
LEMMA AnsweringFrame ==
  ASSUME TypeOK, [Next]_vars, NEW q \in Requests, pc'[q] \in Answering
  PROVE  \/ begin_request(q) \/ ClearDone(q)
         \/ /\ pc[q] \in Answering
            /\ job'[q] = job[q]
            /\ pc'[q] = "overlaying" => pc[q] = "overlaying"
            /\ pc[q] = "answered" => pc'[q] = "answered"
<1> SUFFICES ASSUME RequestOK, ~begin_request(q), ~ClearDone(q)
             PROVE  /\ pc[q] \in Answering
                    /\ job'[q] = job[q]
                    /\ pc'[q] = "overlaying" => pc[q] = "overlaying"
                    /\ pc[q] = "answered" => pc'[q] = "answered"
  BY TypeParts
<1> USE DEF Answering
<1>1. CASE UNCHANGED requestVars
  BY <1>1 DEF requestVars
<1>2. ASSUME NEW r \in Requests, Dispatch(r) \/ begin_request(r) \/ ClearDone(r)
      PROVE  pc[q] = pc'[q] /\ job'[q] = job[q]
  BY <1>2 DEF Dispatch, begin_request, ClearDone, EnterWorkspace, Goto, RequestOK
<1>3. ASSUME NEW r \in Requests, Return(r)
      PROVE  pc[q] = pc'[q] /\ job'[q] = job[q]
  BY <1>3 DEF Return, Goto, RequestOK
<1>4. ASSUME NEW r \in Requests,
             ensure_indexed(r) \/ OpenIgnored(r) \/ OverlayDone(r) \/ IndexFails(r)
               \/ IndexDone(r) \/ OpenTarget(r) \/ OpenFails(r) \/ Answer(r) \/ AskFails(r)
      PROVE  /\ pc[q] \in Answering
             /\ job'[q] = job[q]
             /\ pc'[q] = "overlaying" => pc[q] = "overlaying"
             /\ pc[q] = "answered" => pc'[q] = "answered"
  BY <1>4 DEF ensure_indexed, OpenIgnored, OverlayDone, IndexFails, IndexDone, OpenTarget,
     OpenFails, Answer, AskFails, Continue, OperationFails, Goto, RequestOK
<1>5. ASSUME NEW r \in Requests,
             restore_overlay(r) \/ RestoreDone(r) \/ apply(r), ~Return(r)
      PROVE  pc[q] = pc'[q] /\ job'[q] = job[q]
  BY <1>5 DEF restore_overlay, RestoreDone, apply, Continue, Goto, RequestOK
<1>6. ASSUME NEW r \in Requests,
             OverlayFails(r) \/ Preview(r) \/ ApplyRefused(r) \/ ApplyBreaks(r) \/ SyncChanged(r)
      PROVE  Return(r)
  BY <1>6 DEF OverlayFails, Preview, ApplyRefused, ApplyBreaks, SyncChanged
<1>7. ASSUME NEW r \in Requests, overlay_workspace(r) \/ open_and_reconcile(r) \/ RestoreFile(r)
      PROVE  UNCHANGED requestVars
  BY <1>7 DEF overlay_workspace, open_and_reconcile, RestoreFile
<1>8. (\E c \in Copies : OutsideEdit(c)) \/ ServerDies \/ UNCHANGED vars
        => UNCHANGED requestVars
  BY DEF OutsideEdit, ServerDies, vars
<1> QED
  BY <1>1, <1>2, <1>3, <1>4, <1>5, <1>6, <1>7, <1>8 DEF Next, Advance

(* ... and it enters with nothing overlaid.                                *)
LEMMA EnterUncovered ==
  ASSUME TypeOK, GuardInv, OverlayRecorded, NEW r \in Requests,
         begin_request(r) \/ ClearDone(r), pc'[r] \in Answering
  PROVE  Overlaid' = {} /\ (job'[r].copy = Base => pc'[r] # "overlaying")
<1>1. RequestOK
  BY TypeParts
<1>2. CASE begin_request(r)
  BY <1>1, <1>2 DEF begin_request, EnterWorkspace, Goto, RequestOK, Answering, TakeOverlay,
     OverlayRecorded, Overlaid, sessionVars, overlayVars
<1>3. CASE ClearDone(r)
  BY <1>1, <1>3 DEF ClearDone, EnterWorkspace, FinishRestore, Goto, RequestOK, Answering,
     OverlayRecorded, Overlaid
<1> QED
  BY <1>2, <1>3

(* Only overlay_workspace adds to the overlay, only restoring takes away.  *)
LEMMA OverlaidFrame ==
  ASSUME [Next]_vars
  PROVE  \/ Overlaid' = Overlaid
         \/ /\ Overlaid' \subseteq Overlaid
            /\ \E r \in Requests : begin_request(r) \/ restore_overlay(r)
         \/ \E r \in Requests : overlay_workspace(r)
<1> USE DEF Overlaid
<1>1. ASSUME NEW r \in Requests, begin_request(r) \/ restore_overlay(r)
      PROVE  Overlaid' \subseteq Overlaid
  BY <1>1 DEF begin_request, restore_overlay, TakeOverlay, sessionVars, overlayVars
<1>2. ASSUME NEW r \in Requests,
             Dispatch(r) \/ OverlayFails(r) \/ OverlayDone(r) \/ ensure_indexed(r)
              \/ OpenIgnored(r) \/ IndexFails(r) \/ IndexDone(r) \/ OpenFails(r)
              \/ Answer(r) \/ AskFails(r) \/ Preview(r) \/ apply(r) \/ ApplyRefused(r)
              \/ ApplyBreaks(r)
      PROVE  Overlaid' = Overlaid
  BY <1>2 DEF Dispatch, OverlayFails, OverlayDone, ensure_indexed, ClaimIndex, OpenIgnored,
     IndexFails, IndexDone, OpenFails, Answer, AskFails, Preview, apply, ApplyRefused,
     ApplyBreaks, sessionVars, overlayVars
<1>3. ASSUME NEW r \in Requests,
             RestoreFile(r) \/ ClearDone(r) \/ RestoreDone(r) \/ open_and_reconcile(r)
              \/ OpenTarget(r) \/ SyncChanged(r)
      PROVE  Overlaid' = Overlaid
  BY <1>3 DEF RestoreFile, RestoreChanged, RestoreOpened, ClearDone, RestoreDone,
     FinishRestore, open_and_reconcile, OpenTarget, ensure_open, SyncChanged, sync_changed,
     sessionVars, overlayVars
<1>4. (\E c \in Copies : OutsideEdit(c)) \/ ServerDies \/ UNCHANGED vars
        => Overlaid' = Overlaid
  BY DEF OutsideEdit, ServerDies, vars, sessionVars, overlayVars
<1> QED
  BY <1>1, <1>2, <1>3, <1>4 DEF Next, Advance

LEMMA InitUncovered == Init => BaseUncovered
  BY DEF Init, BaseUncovered, Answering

LEMMA BaseUncoveredNext ==
  ASSUME TypeOK, GuardInv, OverlayRecorded, BaseUncovered, [Next]_vars
  PROVE  BaseUncovered'
<1> SUFFICES ASSUME NEW q \in Requests, pc'[q] \in Answering, job'[q].copy = Base
             PROVE  pc'[q] # "overlaying" /\ Overlaid' = {}
  BY DEF BaseUncovered
<1>1. CASE begin_request(q) \/ ClearDone(q)
  BY <1>1, EnterUncovered
<1>2. CASE pc[q] \in Answering /\ job'[q] = job[q] /\ (pc'[q] = "overlaying" => pc[q] = "overlaying")
  <2>1. pc[q] # "overlaying" /\ Overlaid = {}
    BY <1>2 DEF BaseUncovered
  <2>2. \A r \in Requests : pc[r] # "overlaying"
    BY <1>2, <2>1, OneHolder DEF Answering
  <2> QED
    BY <1>2, <2>1, <2>2, OverlaidFrame DEF overlay_workspace
<1> QED
  BY <1>1, <1>2, AnsweringFrame

-----------------------------------------------------------------------------
(* What a step does to the server's documents, to `opened` and to the      *)
(* record.                                                                 *)
SameDocs == UNCHANGED <<docs, opened, changed, overlaid, takenChanged, takenOverlaid>>

Opens(p) == ensure_open(p) /\ UNCHANGED <<disk, takenChanged, takenOverlaid>>

TakesRecord ==
    /\ TakeOverlay
    /\ takenChanged' = changed /\ takenOverlaid' = overlaid
    /\ Returning = {}

LEMMA DocSteps ==
  ASSUME TypeOK, GuardInv, [Next]_vars
  PROVE  \/ SameDocs
         \/ TakesRecord /\ UNCHANGED disk
         \/ \E p \in Path : Opens(p)
         \/ \E r \in Requests : overlay_workspace(r)
         \/ \E r \in Requests : RestoreFile(r)
         \/ \E r \in Requests : SyncChanged(r)
<1> USE DEF SameDocs, Returning
<1>0. SessionOK /\ RequestOK /\ LocalOK
  BY TypeParts
<1>1. ASSUME NEW r \in Requests, begin_request(r) PROVE SameDocs \/ (TakesRecord /\ UNCHANGED disk)
  <2>1. Returning = {}
    BY <1>1, RequestsAssumption DEF begin_request, GuardInv, Holding, Restored
  <2> QED
    BY <1>1, <2>1 DEF begin_request, TakesRecord, TakeOverlay, diskVars, sessionVars, overlayVars
<1>2. ASSUME NEW r \in Requests, restore_overlay(r) PROVE TakesRecord /\ UNCHANGED disk
  <2>1. Returning = {}
    BY <1>2, OneHolder DEF restore_overlay, GuardInv, Restored
  <2> QED
    BY <1>2, <2>1 DEF restore_overlay, TakesRecord, TakeOverlay, diskVars
<1>3. ASSUME NEW r \in Requests,
             Dispatch(r) \/ OverlayFails(r) \/ OverlayDone(r) \/ ensure_indexed(r)
              \/ OpenIgnored(r) \/ IndexFails(r) \/ IndexDone(r) \/ OpenFails(r)
              \/ Answer(r) \/ AskFails(r) \/ Preview(r) \/ apply(r) \/ ApplyRefused(r)
              \/ ApplyBreaks(r) \/ ClearDone(r) \/ RestoreDone(r)
      PROVE  SameDocs
  BY <1>3 DEF Dispatch, OverlayFails, OverlayDone, ensure_indexed, ClaimIndex, OpenIgnored,
     IndexFails, IndexDone, OpenFails, Answer, AskFails, Preview, apply, ApplyRefused,
     ApplyBreaks, ClearDone, RestoreDone, FinishRestore, localVars, sessionVars, overlayVars
<1>4. ASSUME NEW r \in Requests, open_and_reconcile(r) PROVE \E p \in Path : Opens(p)
  BY <1>0, <1>4, BaseDocs DEF open_and_reconcile, Opens, ensure_open, diskVars, LocalOK
<1>5. ASSUME NEW r \in Requests, OpenTarget(r) PROVE SameDocs \/ \E p \in Path : Opens(p)
  <2>1. CASE job[r].target \in Files
    BY <1>0, <1>5, <2>1, JobFacts DEF OpenTarget, Opens, ensure_open, diskVars, localVars
  <2>2. CASE job[r].target \notin Files
    BY <1>5, <2>2 DEF OpenTarget, localVars, sessionVars, overlayVars
  <2> QED
    BY <2>1, <2>2
<1>6. (\E c \in Copies : OutsideEdit(c)) \/ ServerDies \/ UNCHANGED vars => SameDocs
  BY DEF OutsideEdit, ServerDies, vars, localVars, sessionVars, overlayVars
<1> QED
  BY <1>1, <1>2, <1>3, <1>4, <1>5, <1>6 DEF Next, Advance

-----------------------------------------------------------------------------
LEMMA InitOverFile == Init => OpenOverFile
  BY DEF Init, SessionInit, OpenOverFile

(* A base file that exists goes on existing. *)
LEMMA BaseStays ==
  ASSUME BaseIsOurs, TypeOK, NoMoves, [Next]_vars, NEW f \in Files, disk[Base][f] # NoText
  PROVE  disk'[Base][f] # NoText
<1>1. ASSUME NEW r \in Requests, Writes(r) PROVE disk'[Base][f] # NoText
  <2>1. /\ disk'[Base][f] = IF Base = job[r].copy /\ f \in edit[r].texts
                           THEN <<job[r].copy, clock + 1>> ELSE disk[Base][f]
        /\ clock + 1 \in Nat /\ job[r].copy \in Copies
    BY <1>1, TypeParts, WriteEffect, JobFacts, CopiesAssumption DEF Writes, SessionOK
  <2> QED
    BY <2>1, NoTextApart
<1> QED
  BY <1>1, DiskFrame

LEMMA OpenOverFileNext ==
  ASSUME BaseIsOurs, TypeOK, GuardInv, NoMoves, OpenOverFile, [Next]_vars
  PROVE  OpenOverFile'
<1> SUFFICES ASSUME NEW f \in Files, BaseDoc(f) \in opened', SessionOK, RequestOK, LocalOK
             PROVE  disk'[Base][f] # NoText \/ f \in overlaid' \union takenOverlaid'
  BY TypeParts DEF OpenOverFile, BaseDoc
<1>1. BaseDoc(f) \in opened => disk[Base][f] # NoText \/ f \in overlaid \union takenOverlaid
  BY DEF OpenOverFile
<1>2. disk[Base][f] # NoText => disk'[Base][f] # NoText
  BY BaseStays
<1>3. CASE SameDocs
  BY <1>1, <1>2, <1>3 DEF SameDocs
<1>4. CASE TakesRecord
  BY <1>1, <1>2, <1>4 DEF TakesRecord, TakeOverlay, Returning
<1>5. ASSUME NEW p \in Path, Opens(p)
      PROVE  disk'[Base][f] # NoText \/ f \in overlaid' \union takenOverlaid'
  BY <1>1, <1>2, <1>5 DEF Opens, ensure_open, CanOpen, OnDisk, BaseDoc, overlayVars
<1>6. ASSUME NEW r \in Requests, overlay_workspace(r)
      PROVE  disk'[Base][f] # NoText \/ f \in overlaid' \union takenOverlaid'
  <2>1. PICK g \in todo : OverlayFile(job[r].copy, g) \/ UNCHANGED <<diskVars, sessionVars>>
    BY <1>6 DEF overlay_workspace
  <2>2. takenOverlaid' = takenOverlaid
    BY <1>6 DEF overlay_workspace
  <2>3. CASE OverlayFile(job[r].copy, g)
    BY <1>1, <1>2, <2>2, <2>3, BaseDocs DEF OverlayFile, LocalOK
  <2>4. CASE UNCHANGED <<diskVars, sessionVars>>
    BY <1>1, <1>2, <2>2, <2>4 DEF sessionVars, overlayVars
  <2> QED
    BY <2>1, <2>3, <2>4
<1>7. ASSUME NEW r \in Requests, RestoreFile(r)
      PROVE  disk'[Base][f] # NoText \/ f \in overlaid' \union takenOverlaid'
  BY <1>1, <1>2, <1>7 DEF RestoreFile, RestoreChanged, RestoreOpened, overlayVars
<1>8. ASSUME NEW r \in Requests, SyncChanged(r)
      PROVE  disk'[Base][f] # NoText \/ f \in overlaid' \union takenOverlaid'
  BY <1>1, <1>2, <1>8 DEF SyncChanged, sync_changed, overlayVars, localVars
<1> QED
  BY <1>3, <1>4, <1>5, <1>6, <1>7, <1>8, DocSteps

-----------------------------------------------------------------------------
(* A request being answered stays so until it restores the overlay.        *)
LEMMA StaysAnswering ==
  ASSUME TypeOK, GuardInv, alive, NEW r \in Requests, pc[r] \in Answering, [Next]_vars
  PROVE  restore_overlay(r) \/ (pc'[r] \in Answering /\ job'[r] = job[r])
<1>0. RequestOK /\ \A q \in Requests : q # r => pc[q] \in {"idle", "waiting"}
  BY TypeParts, OneHolder DEF Answering
<1>1. holder = r
  BY OneHolder DEF Answering
<1>2. ASSUME NEW q \in Requests, q # r, Dispatch(q) \/ begin_request(q) \/ Advance(q)
      PROVE  pc'[r] \in Answering /\ job'[r] = job[r]
  <2>1. Dispatch(q)
    BY <1>0, <1>1, <1>2, RequestsAssumption DEF begin_request, Advance, overlay_workspace,
       OverlayFails, OverlayDone, ensure_indexed, OpenIgnored, open_and_reconcile, IndexFails,
       IndexDone, OpenTarget, OpenFails, Answer, AskFails, restore_overlay, RestoreFile,
       ClearDone, RestoreDone, Preview, apply, ApplyRefused, ApplyBreaks, SyncChanged
  <2> QED
    BY <1>0, <1>2, <2>1 DEF Dispatch, Goto, RequestOK
<1>3. ASSUME Dispatch(r) \/ begin_request(r) \/ Advance(r), ~restore_overlay(r)
      PROVE  pc'[r] \in Answering /\ job'[r] = job[r]
  <2>1. CASE overlay_workspace(r) \/ open_and_reconcile(r)
    BY <2>1 DEF overlay_workspace, open_and_reconcile, requestVars
  <2>2. CASE OverlayDone(r) \/ ensure_indexed(r) \/ OpenIgnored(r) \/ IndexFails(r)
              \/ IndexDone(r) \/ OpenTarget(r) \/ OpenFails(r) \/ Answer(r) \/ AskFails(r)
    BY <1>0, <2>2 DEF OverlayDone, ensure_indexed, OpenIgnored, IndexFails, IndexDone,
       OpenTarget, OpenFails, Answer, AskFails, Continue, OperationFails, Goto, RequestOK,
       Answering
  <2>3. ~(Dispatch(r) \/ begin_request(r) \/ OverlayFails(r) \/ RestoreFile(r) \/ ClearDone(r)
          \/ RestoreDone(r) \/ Preview(r) \/ apply(r) \/ ApplyRefused(r) \/ ApplyBreaks(r)
          \/ SyncChanged(r))
    BY DEF Answering, Dispatch, begin_request, OverlayFails, RestoreFile, ClearDone,
       RestoreDone, Preview, apply, ApplyRefused, ApplyBreaks, SyncChanged
  <2> QED
    BY <1>3, <2>1, <2>2, <2>3 DEF Advance
<1>4. (\E c \in Copies : OutsideEdit(c)) \/ ServerDies \/ UNCHANGED vars
        => pc'[r] \in Answering /\ job'[r] = job[r]
  BY DEF OutsideEdit, ServerDies, requestVars, vars
<1> QED
  BY <1>2, <1>3, <1>4 DEF Next

LEMMA AliveBefore == ASSUME [Next]_vars, alive' PROVE alive
<1>1. ASSUME NEW r \in Requests, Dispatch(r) \/ begin_request(r) \/ Advance(r)
      PROVE  UNCHANGED alive
  BY <1>1 DEF Dispatch, begin_request, Advance, overlay_workspace, OverlayFile,
     OverlayFails, OverlayDone, ensure_indexed, ClaimIndex, OpenIgnored, open_and_reconcile,
     ensure_open, IndexFails, IndexDone, OpenTarget, OpenFails, Answer, AskFails,
     restore_overlay, TakeOverlay, RestoreFile, RestoreChanged, RestoreOpened, ClearDone,
     RestoreDone, FinishRestore, Preview, apply, ApplyRefused, ApplyBreaks, SyncChanged,
     sync_changed, sessionVars
<1>2. (\E c \in Copies : OutsideEdit(c)) \/ ServerDies \/ UNCHANGED vars => UNCHANGED alive \/ ~alive'
  BY DEF OutsideEdit, ServerDies, vars, sessionVars
<1> QED
  BY <1>1, <1>2 DEF Next

-----------------------------------------------------------------------------
LEMMA InitOwn == Init => OverlayIsOwn
  BY DEF Init, SessionInit, OverlayIsOwn, Overlaid

(* Nothing but the overlay itself changes an overlaid document before the  *)
(* record of it is taken.                                                  *)
LEMMA OverlaidDocsStay ==
  ASSUME TypeOK, GuardInv, OverlayRecorded, [Next]_vars,
         NEW r \in Requests, pc[r] \in Answering, ~overlay_workspace(r),
         NEW f \in Overlaid
  PROVE  docs'[BaseDoc(f)] = docs[BaseDoc(f)]
<1>1. BaseDoc(f) \in opened
  BY DEF OverlayRecorded, Overlaid
<1>2. \A q \in Requests : pc[q] \in Answering => q = r
  BY OneHolder DEF Answering
<1>3. \A q \in Requests : ~overlay_workspace(q)
  BY <1>2 DEF overlay_workspace, Answering
<1>4. \A q \in Requests : ~RestoreFile(q) /\ ~SyncChanged(q)
  BY OneHolder DEF RestoreFile, SyncChanged, Answering
<1>5. ASSUME NEW p \in Path, Opens(p) PROVE docs'[BaseDoc(f)] = docs[BaseDoc(f)]
  BY <1>1, <1>5, TypeParts DEF Opens, ensure_open, DidOpen, SessionOK
<1> QED
  BY <1>3, <1>4, <1>5, DocSteps DEF SameDocs, TakesRecord, TakeOverlay

LEMMA OverlayIsOwnNext ==
  ASSUME TypeOK, GuardInv, OverlayRecorded, OwnTexts, OverlayIsOwn, [Next]_vars
  PROVE  OverlayIsOwn'
<1> SUFFICES ASSUME alive', Overlaid' # {}, SessionOK, RequestOK, LocalOK
             PROVE  \E r \in Requests :
                      /\ pc'[r] \in Answering
                      /\ \A f \in Overlaid' :
                           docs'[BaseDoc(f)] \in {job'[r].copy} \X Nat \union {Committed}
  BY TypeParts DEF OverlayIsOwn, BaseDoc, Committed
<1>1. alive
  BY AliveBefore
<1>2. ASSUME NEW r \in Requests, overlay_workspace(r)
      PROVE  /\ pc'[r] \in Answering
             /\ \A f \in Overlaid' :
                  docs'[BaseDoc(f)] \in {job'[r].copy} \X Nat \union {Committed}
  <2>1. UNCHANGED <<pc, job>> /\ pc[r] \in Answering
    BY <1>2 DEF overlay_workspace, requestVars, Answering
  <2>2. \A f \in Overlaid : docs[BaseDoc(f)] \in {job[r].copy} \X Nat \union {Committed}
    BY <1>1, <2>1, OneHolder DEF OverlayIsOwn, Answering
  <2>3. PICK g \in todo : IF OverlayReadable(job[r].copy, g)
                          THEN OverlayFile(job[r].copy, g)
                          ELSE UNCHANGED <<diskVars, sessionVars>>
    BY <1>2 DEF overlay_workspace
  <2>4. CASE OverlayFile(job[r].copy, g)
    <3>1. /\ Overlaid' = Overlaid \union {g}
          /\ docs' = [docs EXCEPT ![BaseDoc(g)] = disk[job[r].copy][g]]
          /\ disk[job[r].copy][g] # NoText
      BY <2>4 DEF OverlayFile, OverlayReadable, DidOpen, DidChange, Overlaid
    <3>2. disk[job[r].copy][g] \in {job[r].copy} \X Nat \union {Committed}
      BY <3>1, JobFacts DEF OwnTexts, LocalOK
    <3> QED
      BY <2>1, <2>2, <3>1, <3>2, BaseDocs DEF LocalOK, SessionOK, Overlaid
  <2>5. CASE UNCHANGED <<diskVars, sessionVars>>
    BY <2>1, <2>2, <2>5 DEF sessionVars, overlayVars, Overlaid
  <2> QED
    BY <2>3, <2>4, <2>5
<1>3. ASSUME \A r \in Requests : ~overlay_workspace(r)
      PROVE  \E r \in Requests :
                /\ pc'[r] \in Answering
                /\ \A f \in Overlaid' :
                     docs'[BaseDoc(f)] \in {job'[r].copy} \X Nat \union {Committed}
  <2>1. Overlaid' \subseteq Overlaid /\ Overlaid # {}
    BY <1>3, OverlaidFrame
  <2>2. PICK r \in Requests :
           /\ pc[r] \in Answering
           /\ \A f \in Overlaid : docs[BaseDoc(f)] \in {job[r].copy} \X Nat \union {Committed}
    BY <1>1, <2>1 DEF OverlayIsOwn
  <2>3. ~restore_overlay(r)
    BY DEF restore_overlay, TakeOverlay, Overlaid
  <2>4. pc'[r] \in Answering /\ job'[r] = job[r]
    BY <1>1, <2>2, <2>3, StaysAnswering
  <2>5. \A f \in Overlaid : docs'[BaseDoc(f)] = docs[BaseDoc(f)]
    BY <1>3, <2>2, OverlaidDocsStay
  <2> QED
    BY <2>1, <2>2, <2>4, <2>5
<1> QED
  BY <1>2, <1>3

-----------------------------------------------------------------------------
LEMMA InitShows == Init => ShowsBase
  BY BaseDocs DEF Init, SessionInit, ShowsBase, View, OnDisk, BaseDoc

(* A file in the middle of being synced is so until it is.                 *)
LEMMA SyncingStays ==
  ASSUME TypeOK, GuardInv, [Next]_vars, NEW r \in Requests, pc[r] = "syncing", ~SyncChanged(r)
  PROVE  pc'[r] = "syncing" /\ edit'[r] = edit[r]
<1>0. RequestOK /\ \A q \in Requests : q # r => pc[q] \in {"idle", "waiting"}
  BY TypeParts, OneHolder
<1>1. holder = r
  BY OneHolder
<1>2. ASSUME NEW q \in Requests, Dispatch(q) \/ begin_request(q) \/ Advance(q)
      PROVE  Dispatch(q) /\ q # r
  BY <1>0, <1>1, <1>2, RequestsAssumption DEF Dispatch, begin_request, Advance,
     overlay_workspace, OverlayFails, OverlayDone, ensure_indexed, OpenIgnored,
     open_and_reconcile, IndexFails, IndexDone, OpenTarget, OpenFails, Answer, AskFails,
     restore_overlay, RestoreFile, ClearDone, RestoreDone, Preview, apply, ApplyRefused,
     ApplyBreaks, SyncChanged
<1>3. ASSUME NEW q \in Requests, Dispatch(q), q # r
      PROVE  pc'[r] = "syncing" /\ edit'[r] = edit[r]
  BY <1>0, <1>3 DEF Dispatch, Goto, RequestOK
<1>4. (\E c \in Copies : OutsideEdit(c)) \/ ServerDies \/ UNCHANGED vars
        => pc'[r] = "syncing" /\ edit'[r] = edit[r]
  BY DEF OutsideEdit, ServerDies, requestVars, vars
<1> QED
  BY <1>2, <1>3, <1>4 DEF Next

LEMMA ShowsBaseNext ==
  ASSUME BaseIsOurs, TypeOK, GuardInv, OpenInv, OverlaidOnce, NoMoves, OpenOverFile,
         ShowsBase, [Next]_vars
  PROVE  ShowsBase'
<1> DEFINE Shown(f) == \/ View(BaseDoc(f)) = disk[Base][f]
                       \/ f \in Overlaid \union Returning
                       \/ \E r \in Requests : pc[r] = "syncing" /\ f \in ChangedFiles(r)
<1> SUFFICES ASSUME alive', NEW f \in Files, SessionOK, RequestOK, LocalOK PROVE Shown(f)'
  BY TypeParts DEF ShowsBase
<1>1. alive /\ Shown(f)
  BY AliveBefore DEF ShowsBase
<1>2. /\ BaseDoc(f) \in Path
      /\ View(BaseDoc(f)) = IF docs[BaseDoc(f)] = NoText THEN disk[Base][f]
                                                          ELSE docs[BaseDoc(f)]
      /\ View(BaseDoc(f))' = IF docs'[BaseDoc(f)] = NoText THEN disk'[Base][f]
                                                            ELSE docs'[BaseDoc(f)]
  BY BaseDocs DEF View, OnDisk, BaseDoc
<1>3. ASSUME UNCHANGED <<docs, Overlaid, Returning>>, ~\E r \in Requests : SyncChanged(r)
      PROVE  Shown(f)'
  <2>1. CASE View(BaseDoc(f)) = disk[Base][f] /\ disk'[Base][f] = disk[Base][f]
    BY <1>2, <1>3, <2>1
  <2>2. CASE f \in Overlaid \union Returning
    BY <1>3, <2>2
  <2>3. ASSUME NEW r \in Requests, pc[r] = "syncing" /\ f \in ChangedFiles(r)
        PROVE  Shown(f)'
    <3>1. pc'[r] = "syncing" /\ edit'[r] = edit[r]
      BY <1>3, <2>3, SyncingStays
    <3> QED
      BY <2>3, <3>1 DEF ChangedFiles
  <2>4. ASSUME disk'[Base][f] # disk[Base][f] PROVE Shown(f)'
    <3>1. PICK r \in Requests : Writes(r)
      BY <2>4, DiskFrame
    <3>2. disk'[Base][f] = IF Base = job[r].copy /\ f \in edit[r].texts
                           THEN <<job[r].copy, clock + 1>> ELSE disk[Base][f]
      BY <3>1, WriteEffect, JobFacts, CopiesAssumption DEF Writes
    <3>3. Continue(r, "syncing") /\ f \in edit[r].texts
      BY <2>4, <3>1, <3>2 DEF Writes
    <3> QED
      BY <3>3 DEF Continue, Goto, RequestOK, ChangedFiles
  <2> QED
    BY <1>1, <2>1, <2>2, <2>3, <2>4
<1>4. CASE SameDocs /\ ~\E r \in Requests : SyncChanged(r)
  BY <1>3, <1>4 DEF SameDocs, Overlaid, Returning
<1>5. ASSUME NEW r \in Requests, SyncChanged(r) PROVE Shown(f)'
  <2>1. /\ DidClose({BaseDoc(g) : g \in ChangedFiles(r)} \intersect opened)
        /\ UNCHANGED <<disk, Overlaid, Returning>>
    BY <1>5 DEF SyncChanged, sync_changed, diskVars, overlayVars, localVars, Overlaid, Returning
  <2>2. \A q \in Requests : pc[q] = "syncing" => q = r
    BY <1>5, OneHolder DEF SyncChanged
  <2>3. CASE f \in ChangedFiles(r)
    <3>1. docs'[BaseDoc(f)] = NoText
      BY <1>1, <1>2, <2>1, <2>3 DEF DidClose, OpenInv, OpenSetExact
    <3> QED
      BY <1>2, <3>1
  <2>4. CASE f \notin ChangedFiles(r)
    <3>1. \A g \in ChangedFiles(r) : g \in Files
      BY JobFacts DEF ChangedFiles
    <3>2. docs'[BaseDoc(f)] = docs[BaseDoc(f)]
      BY <1>1, <1>2, <2>1, <2>4, <3>1, BaseDocs DEF DidClose
    <3> QED
      BY <1>1, <1>2, <2>1, <2>2, <2>4, <3>2
  <2> QED
    BY <2>3, <2>4
<1>6. CASE TakesRecord /\ UNCHANGED disk /\ ~\E r \in Requests : SyncChanged(r)
  <2>1. /\ UNCHANGED docs
        /\ Overlaid \union Returning \subseteq Overlaid' \union Returning'
    BY <1>6 DEF TakesRecord, TakeOverlay, Overlaid, Returning
  <2>2. \A r \in Requests : pc[r] = "syncing" => pc'[r] = "syncing" /\ edit'[r] = edit[r]
    BY <1>6, SyncingStays
  <2> QED
    BY <1>1, <1>2, <1>6, <2>1, <2>2 DEF ChangedFiles
<1>7. ASSUME NEW p \in Path, Opens(p), ~\E r \in Requests : SyncChanged(r) PROVE Shown(f)'
  <2>1. UNCHANGED <<disk, Overlaid, Returning>>
    BY <1>7 DEF Opens, ensure_open, overlayVars, Overlaid, Returning
  <2>2. CASE docs'[BaseDoc(f)] # docs[BaseDoc(f)]
    <3>1. docs'[BaseDoc(f)] = disk[Base][f]
      BY <1>2, <1>7, <2>2 DEF Opens, ensure_open, DidOpen, OnDisk, BaseDoc, SessionOK
    <3> QED
      BY <1>2, <2>1, <3>1
  <2>3. CASE docs'[BaseDoc(f)] = docs[BaseDoc(f)]
    <3>1. \A r \in Requests : pc[r] = "syncing" => pc'[r] = "syncing" /\ edit'[r] = edit[r]
      BY <1>7, SyncingStays
    <3> QED
      BY <1>1, <1>2, <2>1, <2>3, <3>1 DEF ChangedFiles
  <2> QED
    BY <2>2, <2>3
<1>8. ASSUME NEW r \in Requests, overlay_workspace(r) PROVE Shown(f)'
  <2>1. UNCHANGED <<Returning, pc, edit>>
    BY <1>8 DEF overlay_workspace, requestVars, Returning
  <2>2. PICK g \in todo : OverlayFile(job[r].copy, g) \/ UNCHANGED <<diskVars, sessionVars>>
    BY <1>8 DEF overlay_workspace
  <2>3. CASE UNCHANGED <<diskVars, sessionVars>>
    BY <1>1, <1>2, <2>1, <2>3 DEF diskVars, sessionVars, overlayVars, Overlaid, ChangedFiles
  <2>4. CASE OverlayFile(job[r].copy, g)
    <3>1. /\ Overlaid' = Overlaid \union {g} /\ UNCHANGED disk
          /\ docs' = [docs EXCEPT ![BaseDoc(g)] = disk[job[r].copy][g]]
      BY <2>4 DEF OverlayFile, DidOpen, DidChange, diskVars, Overlaid
    <3>2. f # g => docs'[BaseDoc(f)] = docs[BaseDoc(f)]
      BY <3>1, <1>2, BaseDocs DEF LocalOK, SessionOK
    <3> QED
      BY <1>1, <1>2, <2>1, <3>1, <3>2 DEF ChangedFiles
  <2> QED
    BY <2>2, <2>3, <2>4
<1>9. ASSUME NEW r \in Requests, RestoreFile(r) PROVE Shown(f)'
  <2>1. UNCHANGED <<Overlaid, pc, edit, disk>>
    BY <1>9 DEF RestoreFile, RestoreChanged, RestoreOpened, requestVars, diskVars, overlayVars,
       Overlaid
  <2>2. CASE takenChanged # {}
    <3>1. PICK g \in takenChanged : /\ RestoreChanged(g)
                                    /\ takenChanged' = takenChanged \ {g}
                                    /\ UNCHANGED takenOverlaid
      BY <1>9, <2>2 DEF RestoreFile
    <3>2. overlaid = {} /\ BaseDoc(g) \in opened /\ g \notin takenOverlaid /\ g \in Files
      BY <1>9, <3>1 DEF RestoreFile, OpenInv, OverlayRecorded, OverlaidOnce, LocalOK
    <3>3. docs' = [docs EXCEPT ![BaseDoc(g)] = disk[Base][g]] /\ disk[Base][g] # NoText
      BY <1>1, <3>1, <3>2 DEF RestoreChanged, DidChange, OpenOverFile, OnDisk, BaseDoc
    <3>4. CASE f = g
      BY <1>2, <2>1, <3>3, <3>4 DEF SessionOK
    <3>5. CASE f # g
      <4>1. docs'[BaseDoc(f)] = docs[BaseDoc(f)]
        BY <1>2, <3>2, <3>3, <3>5, BaseDocs DEF SessionOK
      <4> QED
        BY <1>1, <1>2, <2>1, <3>1, <3>5, <4>1 DEF Returning, ChangedFiles
    <3> QED
      BY <3>4, <3>5
  <2>3. CASE takenChanged = {}
    <3>1. PICK g \in takenOverlaid : /\ RestoreOpened(g)
                                     /\ takenOverlaid' = takenOverlaid \ {g}
                                     /\ UNCHANGED takenChanged
      BY <1>9, <2>3 DEF RestoreFile
    <3>2. docs' = [p \in Path |-> IF p \in {BaseDoc(g)} THEN NoText ELSE docs[p]]
      BY <1>1, <3>1 DEF RestoreOpened, DidClose
    <3>3. CASE f = g
      BY <1>2, <3>2, <3>3
    <3>4. CASE f # g
      <4>1. docs'[BaseDoc(f)] = docs[BaseDoc(f)]
        BY <1>2, <3>1, <3>2, <3>4, BaseDocs DEF LocalOK
      <4> QED
        BY <1>1, <1>2, <2>1, <3>1, <3>4, <4>1 DEF Returning, ChangedFiles
    <3> QED
      BY <3>3, <3>4
  <2> QED
    BY <2>2, <2>3
<1> HIDE DEF Shown
<1> QED
  BY <1>4, <1>5, <1>6, <1>7, <1>8, <1>9, DocSteps

-----------------------------------------------------------------------------
LEMMA InitExact == Init => EditStillExact
  BY DEF Init, EditStillExact

(* An answer about the base is computed from the base.                     *)
LEMMA AnswerFromBase ==
  ASSUME TypeOK, GuardInv, BaseUncovered, ShowsBase,
         NEW r \in Requests, Answer(r), job[r].copy = Base
  PROVE  \A f \in Files : seen'[r][f] = disk[Base][f]
<1> SUFFICES ASSUME NEW f \in Files PROVE seen'[r][f] = disk[Base][f]
  OBVIOUS
<1>0. RequestOK
  BY TypeParts
<1>1. alive /\ seen'[r][f] = SeenBy(r, f)
  BY <1>0 DEF Answer, RequestOK
<1>2. SeenBy(r, f) = View(BaseDoc(f))
  BY DEF SeenBy, TargetDoc, BaseDoc
<1>3. Overlaid = {}
  BY DEF Answer, BaseUncovered, Answering
<1>4. Returning = {} /\ \A q \in Requests : pc[q] # "syncing"
  BY OneHolder DEF Answer, GuardInv, Restored, Returning
<1> QED
  BY <1>1, <1>2, <1>3, <1>4 DEF ShowsBase

LEMMA ExactNext ==
  ASSUME BaseIsOurs, TypeOK, GuardInv, NoMoves, BaseUncovered, ShowsBase, EditStillExact,
         [Next]_vars
  PROVE  EditStillExact'
<1> SUFFICES ASSUME NEW q \in Requests, RequestOK,
                    pc'[q] \in {"answered", "restoring", "finishing"},
                    outcome'[q] = "ok", job'[q].copy = Base,
                    NEW f \in edit'[q].texts
             PROVE  disk'[Base][f] = seen'[q][f]
  BY TypeParts DEF EditStillExact
<1> DEFINE Kept == /\ pc[q] \in {"answered", "restoring", "finishing"}
                   /\ outcome[q] = "ok" /\ job[q] = job'[q]
                   /\ edit[q] = edit'[q] /\ seen[q] = seen'[q]
<1>1. CASE Answer(q)
  <2>1. job[q].copy = Base /\ UNCHANGED disk /\ f \in Files
    BY <1>1, TypeParts DEF Answer, diskVars, RequestOK
  <2> QED
    BY <1>1, <2>1, AnswerFromBase
<1>2. ASSUME ~Answer(q) PROVE Kept
  <2>1. CASE UNCHANGED requestVars
    BY <2>1 DEF requestVars
  <2>2. ASSUME NEW r \in Requests, Return(r) PROVE Kept
    BY <2>2 DEF Return, Goto, RequestOK
  <2>3. ASSUME NEW r \in Requests, OperationFails(r) PROVE Kept
    BY <2>3 DEF OperationFails, Goto, RequestOK
  <2>4. ASSUME NEW r \in Requests,
               Dispatch(r) \/ begin_request(r) \/ ClearDone(r) \/ (Answer(r) /\ r # q)
        PROVE  Kept
    BY <2>4 DEF Dispatch, begin_request, ClearDone, EnterWorkspace, Answer, Goto, RequestOK
  <2>5. ASSUME NEW r \in Requests,
               OverlayDone(r) \/ ensure_indexed(r) \/ OpenIgnored(r) \/ IndexDone(r)
                 \/ OpenTarget(r)
        PROVE  Kept
    BY <2>5 DEF OverlayDone, ensure_indexed, OpenIgnored, IndexDone, OpenTarget, Continue, Goto,
       RequestOK
  <2>6. ASSUME NEW r \in Requests,
               restore_overlay(r) \/ RestoreDone(r) \/ apply(r), ~Return(r)
        PROVE  Kept
    BY <2>6 DEF restore_overlay, RestoreDone, apply, Continue, Goto, RequestOK
  <2>7. ASSUME NEW r \in Requests,
               IndexFails(r) \/ OpenFails(r) \/ AskFails(r)
        PROVE  OperationFails(r)
    BY <2>7 DEF IndexFails, OpenFails, AskFails
  <2>8. ASSUME NEW r \in Requests,
               OverlayFails(r) \/ Preview(r) \/ ApplyRefused(r) \/ ApplyBreaks(r)
                 \/ SyncChanged(r)
        PROVE  Return(r)
    BY <2>8 DEF OverlayFails, Preview, ApplyRefused, ApplyBreaks, SyncChanged
  <2>9. ASSUME NEW r \in Requests, overlay_workspace(r) \/ open_and_reconcile(r) \/ RestoreFile(r)
        PROVE  UNCHANGED requestVars
    BY <2>9 DEF overlay_workspace, open_and_reconcile, RestoreFile
  <2>10. (\E c \in Copies : OutsideEdit(c)) \/ ServerDies \/ UNCHANGED vars
           => UNCHANGED requestVars
    BY DEF OutsideEdit, ServerDies, vars
  <2> QED
    BY <1>2, <2>1, <2>2, <2>3, <2>4, <2>5, <2>6, <2>7, <2>8, <2>9, <2>10 DEF Next, Advance
<1>3. ASSUME ~Answer(q) PROVE disk'[Base] = disk[Base]
  <2>1. Kept
    BY <1>2, <1>3
  <2>2. ASSUME NEW r \in Requests, Writes(r) PROVE FALSE
    <3>1. r = q
      BY <2>1, <2>2, OneHolder DEF Writes
    <3> QED
      BY <2>1, <2>2, <3>1 DEF Writes, Return, Continue, Goto, RequestOK
  <2> QED
    BY <2>2, DiskFrame
<1> QED
  BY <1>1, <1>2, <1>3 DEF EditStillExact

-----------------------------------------------------------------------------
(* The inductive invariant. *)
ViewInv ==
    /\ OpenInv /\ OverlaidOnce /\ NoMoves /\ OwnTexts /\ BaseUncovered
    /\ OverlayIsOwn /\ OpenOverFile /\ ShowsBase /\ EditStillExact

LEMMA ViewInvariant == ASSUME BaseIsOurs PROVE Spec => [](TypeOK /\ GuardInv /\ ViewInv)
<1>1. Spec => [](TypeOK /\ GuardInv)
  BY TypeCorrect, GuardExcludes, PTL
<1>2. Init => ViewInv
  BY InitOpenInv, InitOnce, InitMoves, InitTexts, InitUncovered, InitOwn, InitOverFile,
     InitShows, InitExact DEF ViewInv
<1>3. TypeOK /\ GuardInv /\ ViewInv /\ [Next]_vars => ViewInv'
  <2> SUFFICES ASSUME TypeOK, GuardInv, ViewInv, [Next]_vars PROVE ViewInv'
    OBVIOUS
  <2>1. OpenInv' /\ OverlaidOnce' /\ NoMoves'
    BY OpenNext, OverlaidOnceNext, NoMovesNext, BaseIsOurs DEF ViewInv
  <2>2. OwnTexts' /\ BaseUncovered' /\ OpenOverFile'
    BY OwnTextsNext, BaseUncoveredNext, OpenOverFileNext, BaseIsOurs DEF ViewInv, OpenInv
  <2>3. OverlayIsOwn' /\ ShowsBase' /\ EditStillExact'
    BY OverlayIsOwnNext, ShowsBaseNext, ExactNext, BaseIsOurs DEF ViewInv, OpenInv
  <2> QED
    BY <2>1, <2>2, <2>3 DEF ViewInv
<1> QED
  BY <1>1, <1>2, <1>3, PTL DEF Spec

(* Between requests the index shows the base checkout: every overlay has   *)
(* been undone, every applied edit has been synced.                        *)
THEOREM IndexReturnsToBase == ASSUME BaseIsOurs PROVE Spec => []IdleServesBase
<1>1. TypeOK /\ GuardInv /\ ViewInv => IdleServesBase
  <2> SUFFICES ASSUME GuardInv, ViewInv, holder = NoOne, alive, NEW f \in Files
               PROVE  View(BaseDoc(f)) = disk[Base][f]
    BY DEF IdleServesBase
  <2>1. \A r \in Requests : pc[r] \in {"idle", "waiting"}
    BY RequestsAssumption DEF GuardInv, Holding
  <2>2. Overlaid = {} /\ Returning = {}
    BY <2>1 DEF ViewInv, OverlayIsOwn, Answering, GuardInv, Restored, Returning
  <2> QED
    BY <2>1, <2>2 DEF ViewInv, ShowsBase
<1> QED
  BY <1>1, ViewInvariant, PTL

(* A request is answered from the base checkout with nothing over it but   *)
(* its own working copy's text.                                            *)
THEOREM AnswersAreOwn == ASSUME BaseIsOurs PROVE Spec => []AnswersFromOwnCopy
<1>1. TypeOK /\ GuardInv /\ ViewInv => AnswersFromOwnCopy
  <2> SUFFICES ASSUME GuardInv, ViewInv, NEW r \in Requests, pc[r] = "asking", alive,
                      NEW f \in Files, View(BaseDoc(f)) # disk[Base][f]
               PROVE  /\ f \in changed \union overlaid
                      /\ docs[BaseDoc(f)] \in ({job[r].copy} \X Nat) \union {Committed}
    BY DEF AnswersFromOwnCopy
  <2>1. \A q \in Requests : q # r => pc[q] \in {"idle", "waiting"}
    BY OneHolder
  <2>2. Returning = {}
    BY <2>1 DEF GuardInv, Restored, Returning
  <2>3. f \in Overlaid
    BY <2>1, <2>2 DEF ViewInv, ShowsBase
  <2>4. \A g \in Overlaid : docs[BaseDoc(g)] \in {job[r].copy} \X Nat \union {Committed}
    BY <2>1, <2>3 DEF ViewInv, OverlayIsOwn, Answering
  <2> QED
    BY <2>3, <2>4 DEF Overlaid
<1> QED
  BY <1>1, ViewInvariant, PTL

(* An edit of the base rewrites exactly the text it was computed from,     *)
(* however many requests edit the base.                                    *)
THEOREM BaseEditsAreExact == ASSUME BaseIsOurs PROVE Spec => []BaseEditsExact
<1>1. ViewInv => BaseEditsExact
  BY DEF ViewInv, EditStillExact, BaseEditsExact
<1> QED
  BY <1>1, ViewInvariant, PTL

-----------------------------------------------------------------------------
(* The refinement.  The surroundings: those of the index view, callers that*)
(* name files relative to their project, and nobody editing a working copy *)
(* while a request that reads it runs.  Copies may be edited otherwise,    *)
(* and the language server may die at any moment.                          *)
Ordinary == BaseIsOurs /\ Env \intersect {"busy", "absolute"} = {}

-----------------------------------------------------------------------------
(* A call has a result from its answer to its return.                      *)
OutcomeInv ==
    \A r \in Requests :
        /\ pc[r] \notin {"answered", "restoring", "finishing", "syncing"} => outcome[r] = "none"
        /\ pc[r] \in {"finishing", "syncing"} => outcome[r] = "ok"

Relative == \A r \in Requests : ~job[r].absolute

(* The steps on which a request is laid over the index or read from it.    *)
Serving == {"overlaying", "running", "indexing", "opening", "asking"}

(* The index of a served request is its working copy: every file that copy *)
(* changed is overlaid, or about to be, with the copy's text, and no other *)
(* file is.                                                                *)
OverlayComplete ==
    alive => \A r \in Requests : pc[r] \in Serving =>
        /\ \A f \in Overlaid :
             /\ f \in working_copy_delta(job[r].copy)
             /\ docs[BaseDoc(f)] = disk[job[r].copy][f]
        /\ job[r].copy # Base =>
             \A f \in working_copy_delta(job[r].copy) :
                 f \in Overlaid \/ (pc[r] = "overlaying" /\ f \in todo)
        /\ pc[r] = "overlaying" => todo \subseteq working_copy_delta(job[r].copy)

-----------------------------------------------------------------------------
(* How a call's progress, job and result change: the steps of a request    *)
(* change that request's, and no other step changes any.                   *)
LEMMA InitOutcome == Init => OutcomeInv /\ Relative
  BY DEF Init, OutcomeInv, Relative, NoJob

LEMMA OutcomeNext ==
  ASSUME TypeOK, OutcomeInv, [Next]_vars
  PROVE  OutcomeInv'
<1> SUFFICES ASSUME RequestOK PROVE OutcomeInv'
  BY TypeParts
<1> USE DEF OutcomeInv
<1>1. CASE UNCHANGED requestVars
  BY <1>1 DEF requestVars
<1>2. ASSUME NEW r \in Requests, Return(r) PROVE OutcomeInv'
  BY <1>2 DEF Return, Goto, RequestOK
<1>3. ASSUME NEW r \in Requests, OperationFails(r) PROVE OutcomeInv'
  BY <1>3 DEF OperationFails, Goto, RequestOK
<1>4. ASSUME NEW r \in Requests, Dispatch(r) \/ begin_request(r) \/ ClearDone(r)
      PROVE  OutcomeInv'
  BY <1>4 DEF Dispatch, begin_request, ClearDone, EnterWorkspace, Goto, RequestOK
<1>5. ASSUME NEW r \in Requests, Answer(r) PROVE OutcomeInv'
  BY <1>5 DEF Answer, Goto, RequestOK
<1>6. ASSUME NEW r \in Requests,
             OverlayDone(r) \/ ensure_indexed(r) \/ OpenIgnored(r) \/ IndexDone(r)
               \/ OpenTarget(r)
      PROVE  OutcomeInv'
  BY <1>6 DEF OverlayDone, ensure_indexed, OpenIgnored, IndexDone, OpenTarget, Continue, Goto,
     RequestOK
<1>7. ASSUME NEW r \in Requests,
             restore_overlay(r) \/ RestoreDone(r) \/ apply(r), ~Return(r)
      PROVE  OutcomeInv'
  BY <1>7 DEF restore_overlay, RestoreDone, apply, Continue, Goto, RequestOK
<1>8. ASSUME NEW r \in Requests, IndexFails(r) \/ OpenFails(r) \/ AskFails(r)
      PROVE  OperationFails(r)
  BY <1>8 DEF IndexFails, OpenFails, AskFails
<1>9. ASSUME NEW r \in Requests,
             OverlayFails(r) \/ Preview(r) \/ ApplyRefused(r) \/ ApplyBreaks(r) \/ SyncChanged(r)
      PROVE  Return(r)
  BY <1>9 DEF OverlayFails, Preview, ApplyRefused, ApplyBreaks, SyncChanged
<1>10. ASSUME NEW r \in Requests, overlay_workspace(r) \/ open_and_reconcile(r) \/ RestoreFile(r)
       PROVE  UNCHANGED requestVars
  BY <1>10 DEF overlay_workspace, open_and_reconcile, RestoreFile
<1>11. (\E c \in Copies : OutsideEdit(c)) \/ ServerDies \/ UNCHANGED vars
         => UNCHANGED requestVars
  BY DEF OutsideEdit, ServerDies, vars
<1> QED
  BY <1>1, <1>2, <1>3, <1>4, <1>5, <1>6, <1>7, <1>8, <1>9, <1>10, <1>11 DEF Next, Advance

LEMMA RelativeNext ==
  ASSUME Ordinary, TypeOK, Relative, [Next]_vars
  PROVE  Relative'
<1> SUFFICES ASSUME RequestOK PROVE Relative'
  BY TypeParts
<1>1. CASE UNCHANGED job
  BY <1>1 DEF Relative
<1>2. ASSUME NEW r \in Requests, Return(r) PROVE Relative'
  BY <1>2 DEF Return, Relative, NoJob, RequestOK
<1>3. ASSUME NEW r \in Requests, Dispatch(r) PROVE Relative'
  BY <1>3 DEF Dispatch, Relative, Ordinary, RequestOK
<1>4. ASSUME NEW r \in Requests,
             begin_request(r) \/ ensure_indexed(r) \/ OpenIgnored(r) \/ OverlayDone(r)
               \/ IndexFails(r) \/ IndexDone(r) \/ OpenTarget(r) \/ OpenFails(r)
               \/ Answer(r) \/ AskFails(r) \/ restore_overlay(r) \/ ClearDone(r)
      PROVE  UNCHANGED job
  BY <1>4 DEF begin_request, ensure_indexed, OpenIgnored, OverlayDone, IndexFails, IndexDone,
     OpenTarget, OpenFails, Answer, AskFails, restore_overlay, ClearDone, Continue,
     OperationFails
<1>5. ASSUME NEW r \in Requests, overlay_workspace(r) \/ open_and_reconcile(r) \/ RestoreFile(r)
      PROVE  UNCHANGED job
  BY <1>5 DEF overlay_workspace, open_and_reconcile, RestoreFile, requestVars
<1>6. ASSUME NEW r \in Requests,
             OverlayFails(r) \/ RestoreDone(r) \/ Preview(r) \/ apply(r) \/ ApplyRefused(r)
               \/ ApplyBreaks(r) \/ SyncChanged(r)
      PROVE  Return(r) \/ UNCHANGED job
  BY <1>6 DEF OverlayFails, RestoreDone, Preview, apply, ApplyRefused, ApplyBreaks,
     SyncChanged, Continue
<1>7. (\E c \in Copies : OutsideEdit(c)) \/ ServerDies \/ UNCHANGED vars => UNCHANGED job
  BY DEF OutsideEdit, ServerDies, requestVars, vars
<1> QED
  BY <1>1, <1>2, <1>3, <1>4, <1>5, <1>6, <1>7 DEF Next, Advance

-----------------------------------------------------------------------------
LEMMA InitComplete == Init => OverlayComplete
  BY DEF Init, OverlayComplete, Serving

(* Who enters is given the whole of its working copy's changes to overlay. *)
LEMMA EnterTodo ==
  ASSUME TypeOK, NEW r \in Requests, begin_request(r) \/ ClearDone(r), pc'[r] \in Serving
  PROVE  /\ UNCHANGED disk /\ job'[r] = job[r]
         /\ job[r].copy # Base => pc'[r] = "overlaying" /\ todo' = working_copy_delta(job[r].copy)
<1>1. RequestOK
  BY TypeParts
<1>2. CASE begin_request(r)
  BY <1>1, <1>2 DEF begin_request, EnterWorkspace, TakeOverlay, Goto, RequestOK, Serving, diskVars
<1>3. CASE ClearDone(r)
  BY <1>1, <1>3 DEF ClearDone, EnterWorkspace, FinishRestore, Goto, RequestOK, Serving, diskVars
<1> QED
  BY <1>2, <1>3

(* While a request is served, nothing but its own overlaying and restoring *)
(* changes what is overlaid, nobody changes its working copy, and what is  *)
(* left to overlay goes when all of it is done.                            *)
LEMMA ServingFrame ==
  ASSUME Ordinary, TypeOK, GuardInv, NoMoves, [Next]_vars, NEW r \in Requests,
         pc[r] \in Serving, pc'[r] \in Serving, ~overlay_workspace(r)
  PROVE  /\ Overlaid' = Overlaid
         /\ disk'[job[r].copy] = disk[job[r].copy]
         /\ pc[r] = "overlaying" =>
              \/ todo = {} /\ pc'[r] # "overlaying"
              \/ pc'[r] = "overlaying" /\ todo' = todo
<1>0. RequestOK /\ SessionOK /\ \A q \in Requests : q # r => pc[q] \in {"idle", "waiting"}
  BY TypeParts, OneHolder DEF Serving
<1>1. holder = r /\ Answering = Serving \union {"answered"}
  BY OneHolder DEF Serving, Answering
<1>2. ASSUME NEW q \in Requests, q # r, Dispatch(q) \/ begin_request(q) \/ Advance(q)
      PROVE  Dispatch(q)
  BY <1>0, <1>1, <1>2, RequestsAssumption DEF begin_request, Advance, overlay_workspace,
     OverlayFails, OverlayDone, ensure_indexed, OpenIgnored, open_and_reconcile, IndexFails,
     IndexDone, OpenTarget, OpenFails, Answer, AskFails, restore_overlay, RestoreFile,
     ClearDone, RestoreDone, Preview, apply, ApplyRefused, ApplyBreaks, SyncChanged
<1>3. Overlaid' = Overlaid
  <2>1. ASSUME NEW q \in Requests, overlay_workspace(q) PROVE FALSE
    <3>1. q = r
      BY <1>0, <2>1 DEF overlay_workspace
    <3> QED
      BY <2>1, <3>1
  <2>2. ASSUME NEW q \in Requests, begin_request(q) \/ restore_overlay(q) PROVE FALSE
    <3>1. q = r
      BY <1>0, <1>1, <2>2, RequestsAssumption DEF begin_request, restore_overlay
    <3> QED
      BY <1>0, <2>2, <3>1 DEF begin_request, restore_overlay, Continue, Goto, RequestOK, Serving
  <2> QED
    BY <2>1, <2>2, OverlaidFrame
<1>4. disk'[job[r].copy] = disk[job[r].copy]
  <2>1. ASSUME NEW q \in Requests, Writes(q) PROVE FALSE
    BY <1>0, <2>1 DEF Writes, Serving
  <2>2. ASSUME NEW c \in Copies, OutsideEdit(c) PROVE disk'[job[r].copy] = disk[job[r].copy]
    <3>1. c # job[r].copy
      BY <2>2 DEF OutsideEdit, Ordinary, Serving
    <3> QED
      BY <1>0, <2>2, <3>1, JobFacts DEF OutsideEdit, SessionOK
  <2> QED
    BY <2>1, <2>2, DiskFrame DEF Ordinary
<1>5. ASSUME pc[r] = "overlaying"
      PROVE  \/ todo = {} /\ pc'[r] # "overlaying"
             \/ pc'[r] = "overlaying" /\ todo' = todo
  <2>1. ASSUME NEW q \in Requests, q # r, Dispatch(q) PROVE pc'[r] = pc[r] /\ todo' = todo
    BY <1>0, <2>1 DEF Dispatch, Goto, RequestOK, localVars
  <2>2. CASE OverlayDone(r)
    BY <1>0, <2>2 DEF OverlayDone, Continue, Goto, RequestOK
  <2>3. ASSUME Dispatch(r) \/ begin_request(r) \/ Advance(r) PROVE OverlayDone(r)
    BY <1>0, <1>5, <2>3 DEF Dispatch, begin_request, Advance, OverlayFails, Return, Goto,
       RequestOK, ensure_indexed, OpenIgnored, open_and_reconcile, IndexFails, IndexDone,
       OpenTarget, OpenFails, Answer, AskFails, restore_overlay, RestoreFile, ClearDone,
       RestoreDone, Preview, apply, ApplyRefused, ApplyBreaks, SyncChanged, Serving
  <2>4. (\E c \in Copies : OutsideEdit(c)) \/ ServerDies \/ UNCHANGED vars
          => pc'[r] = pc[r] /\ todo' = todo
    BY DEF OutsideEdit, ServerDies, requestVars, localVars, vars
  <2> QED
    BY <1>2, <1>5, <2>1, <2>2, <2>3, <2>4 DEF Next
<1> QED
  BY <1>3, <1>4, <1>5

LEMMA CompleteNext ==
  ASSUME Ordinary, TypeOK, GuardInv, ViewInv, OverlayComplete, [Next]_vars
  PROVE  OverlayComplete'
<1> SUFFICES ASSUME alive', NEW r \in Requests, pc'[r] \in Serving,
                    SessionOK, RequestOK, LocalOK
             PROVE  /\ \A f \in Overlaid' :
                         /\ f \in working_copy_delta(job[r].copy)'
                         /\ docs'[BaseDoc(f)] = disk'[job'[r].copy][f]
                    /\ job'[r].copy # Base =>
                         \A f \in working_copy_delta(job[r].copy)' :
                             f \in Overlaid' \/ (pc'[r] = "overlaying" /\ f \in todo')
                    /\ pc'[r] = "overlaying" => todo' \subseteq working_copy_delta(job[r].copy)'
  BY TypeParts DEF OverlayComplete, BaseDoc
<1>1. alive /\ OverlayRecorded /\ OpenInv
  BY AliveBefore DEF ViewInv, OpenInv
<1>2. CASE begin_request(r) \/ ClearDone(r)
  <2>1. Overlaid' = {} /\ (job'[r].copy = Base => pc'[r] # "overlaying")
    BY <1>1, <1>2, EnterUncovered DEF Serving, Answering
  <2>2. /\ UNCHANGED disk /\ job'[r] = job[r]
        /\ job[r].copy # Base
             => pc'[r] = "overlaying" /\ todo' = working_copy_delta(job[r].copy)
    BY <1>2, EnterTodo
  <2>3. working_copy_delta(job[r].copy)' = working_copy_delta(job[r].copy)
    BY <2>2 DEF working_copy_delta, Committed
  <2> QED
    BY <2>1, <2>2, <2>3
<1>3. ASSUME pc[r] \in Serving, job'[r] = job[r],
             pc'[r] = "overlaying" => pc[r] = "overlaying"
      PROVE  /\ \A f \in Overlaid' :
                  /\ f \in working_copy_delta(job[r].copy)'
                  /\ docs'[BaseDoc(f)] = disk'[job'[r].copy][f]
             /\ job'[r].copy # Base =>
                  \A f \in working_copy_delta(job[r].copy)' :
                      f \in Overlaid' \/ (pc'[r] = "overlaying" /\ f \in todo')
             /\ pc'[r] = "overlaying" => todo' \subseteq working_copy_delta(job[r].copy)'
  <2>0. /\ \A f \in Overlaid :
             /\ f \in working_copy_delta(job[r].copy)
             /\ docs[BaseDoc(f)] = disk[job[r].copy][f]
        /\ job[r].copy # Base =>
             \A f \in working_copy_delta(job[r].copy) :
                 f \in Overlaid \/ (pc[r] = "overlaying" /\ f \in todo)
        /\ pc[r] = "overlaying" => todo \subseteq working_copy_delta(job[r].copy)
    BY <1>1, <1>3 DEF OverlayComplete
  <2>1. CASE ~overlay_workspace(r)
    <3>1. /\ Overlaid' = Overlaid /\ disk'[job[r].copy] = disk[job[r].copy]
          /\ pc[r] = "overlaying" => \/ todo = {} /\ pc'[r] # "overlaying"
                                     \/ pc'[r] = "overlaying" /\ todo' = todo
      BY <1>3, <2>1, ServingFrame DEF ViewInv
    <3>2. \A f \in Overlaid : docs'[BaseDoc(f)] = docs[BaseDoc(f)]
      BY <1>1, <1>3, <2>1, OverlaidDocsStay DEF Serving, Answering
    <3>3. working_copy_delta(job[r].copy)' = working_copy_delta(job[r].copy)
      BY <1>3, <3>1 DEF working_copy_delta, Committed
    <3>4. \A f \in Overlaid' : f \in working_copy_delta(job[r].copy)'
      BY <2>0, <3>1, <3>3
    <3>5. \A f \in Overlaid' : docs'[BaseDoc(f)] = disk'[job'[r].copy][f]
      BY <1>3, <2>0, <3>1, <3>2
    <3>6. pc'[r] = "overlaying" => todo' \subseteq working_copy_delta(job[r].copy)'
      BY <1>3, <2>0, <3>1, <3>3
    <3>7. ASSUME job'[r].copy # Base
          PROVE  \A f \in working_copy_delta(job[r].copy)' :
                     f \in Overlaid' \/ (pc'[r] = "overlaying" /\ f \in todo')
      BY <1>3, <2>0, <3>1, <3>3, <3>7
    <3> QED
      BY <3>4, <3>5, <3>6, <3>7
  <2>2. CASE overlay_workspace(r)
    <3>1. UNCHANGED <<pc, job, disk>> /\ pc[r] = "overlaying"
      BY <2>2 DEF overlay_workspace, OverlayFile, requestVars, diskVars
    <3>2. PICK g \in todo : /\ todo' = todo \ {g}
                            /\ IF OverlayReadable(job[r].copy, g)
                               THEN OverlayFile(job[r].copy, g)
                               ELSE UNCHANGED <<diskVars, sessionVars>>
      BY <2>2 DEF overlay_workspace
    <3>3. working_copy_delta(job[r].copy)' = working_copy_delta(job[r].copy)
      BY <3>1 DEF working_copy_delta, Committed
    <3>4. CASE OverlayFile(job[r].copy, g)
      <4>1. /\ Overlaid' = Overlaid \union {g}
            /\ docs' = [docs EXCEPT ![BaseDoc(g)] = disk[job[r].copy][g]]
        BY <3>4 DEF OverlayFile, DidOpen, DidChange, Overlaid
      <4>2. g \in working_copy_delta(job[r].copy)
        BY <2>0, <3>1, <3>2
      <4>3. \A f \in Files : f # g => docs'[BaseDoc(f)] = docs[BaseDoc(f)]
        BY <4>1, <3>2, BaseDocs DEF LocalOK, SessionOK
      <4>4. docs'[BaseDoc(g)] = disk[job[r].copy][g]
        BY <4>1, <3>2, BaseDocs DEF LocalOK, SessionOK
      <4>5. Overlaid \subseteq Files
        BY DEF SessionOK, Overlaid
      <4> QED
        BY <2>0, <3>1, <3>2, <3>3, <4>1, <4>2, <4>3, <4>4, <4>5
    <3>5. CASE UNCHANGED <<diskVars, sessionVars>> /\ ~OverlayReadable(job[r].copy, g)
      <4>1. g \notin working_copy_delta(job[r].copy)
        BY <3>5 DEF OverlayReadable, working_copy_delta
      <4>2. Overlaid' = Overlaid /\ docs' = docs
        BY <3>5 DEF sessionVars, overlayVars, Overlaid
      <4> QED
        BY <2>0, <3>1, <3>2, <3>3, <4>1, <4>2
    <3> QED
      BY <3>2, <3>4, <3>5
  <2> QED
    BY <2>1, <2>2
<1> QED
  BY <1>2, <1>3, AnsweringFrame DEF Serving, Answering

-----------------------------------------------------------------------------
(* What a request is answered from, therefore, is its working copy.        *)
LEMMA SeesItsCopy ==
  ASSUME TypeOK, GuardInv, ViewInv, Relative, OverlayComplete, NEW r \in Requests, Answer(r)
  PROVE  seen' = [seen EXCEPT ![r] = Service!Presented(job[r].copy)]
<1>0. SessionOK /\ RequestOK /\ job[r].copy \in Copies
  BY TypeParts, JobFacts
<1>1. alive /\ pc[r] = "asking"
  BY DEF Answer
<1>2. ASSUME NEW f \in Files PROVE SeenBy(r, f) = Service!Presented(job[r].copy)[f]
  <2>1. SeenBy(r, f) = View(BaseDoc(f))
    BY DEF SeenBy, TargetDoc, Relative
  <2>2. Returning = {} /\ \A q \in Requests : pc[q] # "syncing"
    BY <1>1, OneHolder DEF GuardInv, Restored, Returning
  <2>3. CASE f \in Overlaid
    <3>1. /\ f \in working_copy_delta(job[r].copy)
          /\ docs[BaseDoc(f)] = disk[job[r].copy][f]
      BY <1>1, <2>3 DEF OverlayComplete, Serving
    <3> QED
      BY <2>1, <3>1 DEF View, working_copy_delta, Service!Presented, Committed, Service!Committed
  <2>4. CASE f \notin Overlaid
    <3>1. SeenBy(r, f) = disk[Base][f]
      BY <1>1, <2>1, <2>2, <2>4 DEF ViewInv, ShowsBase
    <3>2. job[r].copy # Base => f \notin working_copy_delta(job[r].copy)
      BY <1>1, <2>4 DEF OverlayComplete, Serving
    <3> QED
      BY <3>1, <3>2 DEF working_copy_delta, Service!Presented, Committed, Service!Committed
  <2> QED
    BY <2>3, <2>4
<1>3. [f \in Files |-> SeenBy(r, f)] = Service!Presented(job[r].copy)
  BY <1>2 DEF Service!Presented
<1> QED
  BY <1>3 DEF Answer

-----------------------------------------------------------------------------
(* How the steps of a request look to its caller.                          *)
stage == [r \in Requests |-> Stage(r)]

LEMMA StageFrame ==
  ASSUME NEW r \in Requests, \A q \in Requests : q # r => pc'[q] = pc[q] /\ outcome'[q] = outcome[q]
  PROVE  stage' = [stage EXCEPT ![r] = Stage(r)']
  BY DEF stage, Stage

LEMMA ReturnStage ==
  ASSUME RequestOK, NEW r \in Requests, Return(r)
  PROVE  /\ stage' = [stage EXCEPT ![r] = "idle"]
         /\ seen' = [seen EXCEPT ![r] = Service!Unseen]
<1>1. \A q \in Requests : q # r => pc'[q] = pc[q] /\ outcome'[q] = outcome[q]
  BY DEF Return, Goto, RequestOK
<1>2. Stage(r)' = "idle"
  BY DEF Return, Goto, RequestOK, Stage
<1> QED
  BY <1>1, <1>2, StageFrame DEF Return, Unseen, Service!Unseen

(* A step of one request that keeps what its caller can tell.              *)
LEMMA StageStays ==
  ASSUME RequestOK, NEW r \in Requests,
         \A q \in Requests : q # r => pc'[q] = pc[q] /\ outcome'[q] = outcome[q],
         pc[r] \notin {"idle", "syncing"}, pc'[r] \notin {"idle", "syncing"},
         outcome[r] = "ok" <=> outcome'[r] = "ok"
  PROVE  stage' = stage
<1>1. Stage(r)' = Stage(r)
  BY DEF Stage
<1> QED
  BY <1>1, StageFrame DEF stage

Stutters == UNCHANGED <<disk, clock, job, seen, stage>>

LEMMA DispatchIsCall ==
  ASSUME TypeOK, OutcomeInv, NEW r \in Requests, Dispatch(r)
  PROVE  Service!Call(r)
<1>0. RequestOK
  BY TypeParts
<1>1. \A q \in Requests : q # r => pc'[q] = pc[q] /\ outcome'[q] = outcome[q]
  BY <1>0 DEF Dispatch, Goto, RequestOK
<1>2. Stage(r)' = "called" /\ stage[r] = "idle"
  BY <1>0 DEF Dispatch, Goto, RequestOK, OutcomeInv, Stage, stage
<1> QED
  BY <1>1, <1>2, StageFrame DEF Dispatch, diskVars, Service!Call, stage

(* Entering from the lock, being overlaid, indexing, opening, failing and  *)
(* restoring: the caller waits.                                            *)
LEMMA WaitingStutters ==
  ASSUME TypeOK, OutcomeInv, NEW r \in Requests,
         \/ begin_request(r) \/ ClearDone(r) \/ OverlayDone(r) \/ ensure_indexed(r)
         \/ IndexFails(r) \/ IndexDone(r) \/ OpenTarget(r) \/ OpenIgnored(r) \/ OpenFails(r)
         \/ AskFails(r) \/ restore_overlay(r) \/ (RestoreDone(r) /\ ~Return(r))
  PROVE  Stutters
<1>0. RequestOK
  BY TypeParts
<1> DEFINE Frame == \A q \in Requests : q # r => pc'[q] = pc[q] /\ outcome'[q] = outcome[q]
           Kept  == UNCHANGED <<disk, clock, job, seen>>
           Busy  == /\ pc[r] \notin {"idle", "syncing"} /\ pc'[r] \notin {"idle", "syncing"}
                    /\ outcome[r] = "ok" <=> outcome'[r] = "ok"
<1>1. CASE begin_request(r) \/ ClearDone(r)
  <2>1. Frame /\ Busy
    BY <1>0, <1>1 DEF begin_request, ClearDone, EnterWorkspace, Goto, RequestOK
  <2>2. Kept
    BY <1>1 DEF begin_request, ClearDone, TakeOverlay, FinishRestore, diskVars
  <2> QED
    BY <1>0, <2>1, <2>2, StageStays DEF Stutters
<1>2. CASE OverlayDone(r) \/ ensure_indexed(r) \/ IndexDone(r) \/ OpenTarget(r)
             \/ OpenIgnored(r) \/ restore_overlay(r) \/ (RestoreDone(r) /\ ~Return(r))
  <2>1. Frame /\ Busy
    BY <1>0, <1>2 DEF OverlayDone, ensure_indexed, IndexDone, OpenTarget, OpenIgnored,
       restore_overlay, RestoreDone, Continue, Goto, RequestOK
  <2>2. Kept
    BY <1>2 DEF OverlayDone, ensure_indexed, IndexDone, OpenTarget, OpenIgnored, ensure_open,
       restore_overlay, TakeOverlay, RestoreDone, FinishRestore, Continue, diskVars
  <2> QED
    BY <1>0, <2>1, <2>2, StageStays DEF Stutters
<1>3. CASE IndexFails(r) \/ OpenFails(r) \/ AskFails(r)
  <2>1. Frame /\ Busy
    BY <1>0, <1>3 DEF IndexFails, OpenFails, AskFails, OperationFails, Goto, RequestOK, OutcomeInv
  <2>2. Kept
    BY <1>3 DEF IndexFails, OpenFails, AskFails, OperationFails, diskVars
  <2> QED
    BY <1>0, <2>1, <2>2, StageStays DEF Stutters
<1> QED
  BY <1>1, <1>2, <1>3

(* The session's own work shows to no caller.                              *)
LEMMA SessionStutters ==
  ASSUME \/ \E r \in Requests : overlay_workspace(r) \/ open_and_reconcile(r) \/ RestoreFile(r)
         \/ ServerDies \/ UNCHANGED vars
  PROVE  Stutters
<1>1. UNCHANGED <<disk, clock, job, seen, pc, outcome>>
  BY DEF overlay_workspace, OverlayFile, open_and_reconcile, ensure_open, RestoreFile,
     RestoreChanged, RestoreOpened, ServerDies, requestVars, diskVars, vars
<1> QED
  BY <1>1 DEF Stutters, stage, Stage

LEMMA AnswerIsAnswer ==
  ASSUME TypeOK, GuardInv, ViewInv, Relative, OverlayComplete, OutcomeInv,
         NEW r \in Requests, Answer(r)
  PROVE  Service!Answer(r)
<1>0. RequestOK
  BY TypeParts
<1>1. \A q \in Requests : q # r => pc'[q] = pc[q] /\ outcome'[q] = outcome[q]
  BY <1>0 DEF Answer, Goto, RequestOK
<1>2. Stage(r)' = "answered" /\ stage[r] = "called"
  BY <1>0 DEF Answer, Goto, RequestOK, OutcomeInv, Stage, stage
<1>3. UNCHANGED <<disk, clock, job>>
  BY DEF Answer, diskVars
<1> QED
  BY <1>1, <1>2, <1>3, StageFrame, SeesItsCopy DEF Service!Answer, stage

(* A call that ends without writing.                                       *)
LEMMA EndIsReturn ==
  ASSUME TypeOK, NEW r \in Requests,
         \/ OverlayFails(r) \/ (RestoreDone(r) /\ Return(r)) \/ Preview(r) \/ ApplyRefused(r)
         \/ SyncChanged(r)
  PROVE  Service!Return(r)
<1>0. RequestOK
  BY TypeParts
<1>1. Return(r) /\ UNCHANGED <<disk, clock>>
  BY DEF OverlayFails, RestoreDone, FinishRestore, Preview, ApplyRefused, SyncChanged,
     sync_changed, diskVars
<1>2. stage[r] # "idle"
  BY DEF OverlayFails, RestoreDone, Preview, ApplyRefused, SyncChanged, Stage, stage
<1> QED
  BY <1>0, <1>1, <1>2, ReturnStage DEF Service!Return, stage

LEMMA WriteIsApply ==
  ASSUME TypeOK, ViewInv, OutcomeInv, NEW r \in Requests, Writes(r)
  PROVE  Service!Apply(r)
<1>0. RequestOK /\ SessionOK /\ edit[r].texts \in SUBSET Files
  BY TypeParts, JobFacts
<1>1. stage[r] = "answered" /\ outcome[r] = "ok"
  BY DEF Writes, OutcomeInv, Stage, stage
<1>2. /\ clock' = clock + 1
      /\ disk' = [disk EXCEPT ![job[r].copy] =
                    [f \in Files |-> IF f \in edit[r].texts THEN <<job[r].copy, clock + 1>>
                                     ELSE disk[job[r].copy][f]]]
  BY <1>0 DEF Writes, Write
<1>3. \A f \in edit[r].texts : disk[job[r].copy][f] # NoText
  BY DEF Writes, CanRewrite
<1>4. job[r].copy = Base => \A f \in edit[r].texts : disk[Base][f] = seen[r][f]
  BY <1>1 DEF Writes, ViewInv, EditStillExact
<1>5. CASE Return(r)
  BY <1>0, <1>1, <1>2, <1>3, <1>4, <1>5, ReturnStage DEF Writes, Service!Apply, stage
<1>6. CASE Continue(r, "syncing")
  <2>1. \A q \in Requests : q # r => pc'[q] = pc[q] /\ outcome'[q] = outcome[q]
    BY <1>0, <1>6 DEF Continue, Goto, RequestOK
  <2>2. Stage(r)' = "applied" /\ UNCHANGED <<seen, job>>
    BY <1>0, <1>6 DEF Continue, Goto, RequestOK, Stage
  <2> QED
    BY <1>0, <1>1, <1>2, <1>3, <1>4, <2>1, <2>2, StageFrame DEF Writes, Service!Apply, stage
<1> QED
  BY <1>5, <1>6 DEF Writes

LEMMA OutsideIsOutside ==
  ASSUME Ordinary, TypeOK, NEW c \in Copies, OutsideEdit(c)
  PROVE  Service!Outside(c)
<1>1. \A r \in Requests : c \in {job[r].copy, Base} => stage[r] = "idle"
  BY DEF OutsideEdit, Ordinary, Stage, stage
<1>2. UNCHANGED <<job, seen, stage>>
  BY DEF OutsideEdit, requestVars, stage, Stage
<1> QED
  BY <1>1, <1>2 DEF OutsideEdit, Service!Outside, Service!Committed, Committed, stage

-----------------------------------------------------------------------------
(* The inductive invariant of the refinement.                              *)
ServiceInv == OutcomeInv /\ Relative /\ OverlayComplete

LEMMA ServiceInvariant ==
  ASSUME Ordinary
  PROVE  Spec => [](TypeOK /\ GuardInv /\ ViewInv /\ ServiceInv)
<1>1. Spec => [](TypeOK /\ GuardInv /\ ViewInv)
  BY ViewInvariant DEF Ordinary
<1>2. Init => ServiceInv
  BY InitOutcome, InitComplete DEF ServiceInv
<1>3. TypeOK /\ GuardInv /\ ViewInv /\ ServiceInv /\ [Next]_vars => ServiceInv'
  BY OutcomeNext, RelativeNext, CompleteNext, Ordinary DEF ServiceInv
<1> QED
  BY <1>1, <1>2, <1>3, PTL DEF Spec

LEMMA StepRefines ==
  ASSUME Ordinary, TypeOK, GuardInv, ViewInv, ServiceInv, [Next]_vars
  PROVE  [Service!Next]_Service!vars
<1>1. Stutters => UNCHANGED Service!vars
  BY DEF Stutters, Service!vars, stage
<1>2. ASSUME NEW r \in Requests, Dispatch(r) \/ begin_request(r) \/ Advance(r)
      PROVE  [Service!Next]_Service!vars
  <2>1. CASE Dispatch(r)
    BY <2>1, DispatchIsCall DEF ServiceInv, Service!Next
  <2>2. CASE begin_request(r) \/ ClearDone(r) \/ OverlayDone(r) \/ ensure_indexed(r)
              \/ IndexFails(r) \/ IndexDone(r) \/ OpenTarget(r) \/ OpenIgnored(r)
              \/ OpenFails(r) \/ AskFails(r) \/ restore_overlay(r)
              \/ (RestoreDone(r) /\ ~Return(r))
    BY <1>1, <2>2, WaitingStutters DEF ServiceInv
  <2>3. CASE overlay_workspace(r) \/ open_and_reconcile(r) \/ RestoreFile(r)
    BY <1>1, <2>3, SessionStutters
  <2>4. CASE Answer(r)
    BY <2>4, AnswerIsAnswer DEF ServiceInv, Service!Next
  <2>5. CASE OverlayFails(r) \/ (RestoreDone(r) /\ Return(r)) \/ Preview(r)
              \/ ApplyRefused(r) \/ SyncChanged(r)
    BY <2>5, EndIsReturn DEF Service!Next
  <2>6. CASE apply(r) \/ ApplyBreaks(r)
    BY <2>6, ApplyIsWrite, WriteIsApply DEF Ordinary, ViewInv, ServiceInv, Service!Next
  <2> QED
    BY <1>2, <2>1, <2>2, <2>3, <2>4, <2>5, <2>6 DEF Advance
<1>3. ASSUME NEW c \in Copies, OutsideEdit(c) PROVE [Service!Next]_Service!vars
  BY <1>3, OutsideIsOutside DEF Service!Next
<1>4. CASE ServerDies \/ UNCHANGED vars
  BY <1>1, <1>4, SessionStutters
<1> QED
  BY <1>2, <1>3, <1>4 DEF Next

(* "The index serves speed, never correctness": the whole of indexing,     *)
(* overlaying, restoring, syncing and locking implements a service that    *)
(* has none of it.                                                         *)
THEOREM DispatchImplementsService ==
  ASSUME Ordinary
  PROVE  Spec => ImplementsService
<1>1. Init => Service!Init
  BY DEF Init, SessionInit, Service!Init, Unseen, Service!Unseen, Stage
<1>2. TypeOK /\ GuardInv /\ ViewInv /\ ServiceInv /\ [Next]_vars
        => [Service!Next]_Service!vars
  BY StepRefines, Ordinary
<1> QED
  BY <1>1, <1>2, ServiceInvariant, PTL DEF Spec, ImplementsService, Service!Spec
=============================================================================
