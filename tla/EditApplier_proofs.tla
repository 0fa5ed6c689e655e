-------------------------- MODULE EditApplier_proofs --------------------------
(* EditApplier for every set of files, workspace edit and tree of texts:    *)
(* what is reported applied was applied exactly.                            *)
EXTENDS EditApplier, TextPositions_proofs

MaybeText == Seq(Characters) \union {NoText}

(* What apply never changes: the edit, well formed, and the tree it found.  *)
EditType ==
    /\ edit.encoding \in Encodings
    /\ edit.files \in Seq([path : Paths, edits : Seq(TextEdits)])
    /\ \A i, j \in DOMAIN edit.files : edit.files[i].path = edit.files[j].path => i = j
    /\ edit.ops \in Seq(Op)
    /\ original \in [Paths -> MaybeText]

TypeInv == TypeOK /\ EditType

(* What is computed before anything is written: the text that each file     *)
(* rewritten so far is to have, unless it has it already.                   *)
Meant(file) == Intended(original[file.path], file.edits, edit.encoding)

PlanningInv ==
    /\ \A p \in Paths : disk[p] = original[p]
    /\ next \in 1..(Len(edit.files) + 1)
    /\ \A i \in 1..(next - 1) :
         LET file == edit.files[i]
         IN  /\ original[file.path] # NoText
             /\ Meant(file) \in Seq(Characters)
             /\ \/ original[file.path] = Meant(file)
                \/ \E j \in DOMAIN planned : planned[j].path = file.path
    /\ \A j \in DOMAIN planned : \E i \in 1..(next - 1) :
         planned[j].path = edit.files[i].path /\ planned[j].text = Meant(edit.files[i])

(* The rewriting takes texts to texts, and missing files to missing files.  *)
TextsInv ==
    \A p \in Paths : /\ AfterTextEdits(p) \in MaybeText
                     /\ AfterTextEdits(p) = NoText <=> original[p] = NoText

WritingInv ==
    /\ TextsInv
    /\ \A j \in DOMAIN planned : planned[j].text = AfterTextEdits(planned[j].path)
    /\ \A p \in Paths : \/ disk[p] = AfterTextEdits(p)
                        \/ \E j \in DOMAIN planned : planned[j].path = p

MovingInv ==
    /\ TextsInv
    /\ next \in 1..(Len(edit.ops) + 1)
    /\ \A p \in Paths : disk[p] = HeldAfter(next - 1, p)

ExactInv ==
    meddled = <<>> =>
        /\ step = "planning" => PlanningInv
        /\ step = "writing" => WritingInv
        /\ step = "moving" => MovingInv
        /\ step = "ok" => \A p \in Paths : disk[p] = Wanted(p)

-----------------------------------------------------------------------------
(* Types.                                                                  *)
FileType == [path : Paths, edits : Seq(TextEdits)]

PlannedType == [path : Paths, text : Seq(Characters)]

LEMMA EditParts ==
  ASSUME EditType
  PROVE  /\ Len(edit.files) \in Nat /\ DOMAIN edit.files = 1..Len(edit.files)
         /\ Len(edit.ops) \in Nat /\ DOMAIN edit.ops = 1..Len(edit.ops)
         /\ \A i \in 1..Len(edit.files) : /\ edit.files[i].path \in Paths
                                          /\ edit.files[i].edits \in Seq(TextEdits)
         /\ \A i \in 1..Len(edit.ops) : edit.ops[i] \in Op
         /\ ToSet(edit.files) = {edit.files[i] : i \in 1..Len(edit.files)}
<1>1. edit.files \in Seq(FileType) /\ edit.ops \in Seq(Op)
  BY DEF EditType, FileType
<1>2. /\ Len(edit.files) \in Nat /\ DOMAIN edit.files = 1..Len(edit.files)
      /\ Len(edit.ops) \in Nat /\ DOMAIN edit.ops = 1..Len(edit.ops)
  BY <1>1
<1>3. \A i \in 1..Len(edit.files) : edit.files[i] \in FileType
  BY <1>1
<1>4. \A i \in 1..Len(edit.files) : /\ edit.files[i].path \in Paths
                                    /\ edit.files[i].edits \in Seq(TextEdits)
  BY <1>3 DEF FileType
<1>5. \A i \in 1..Len(edit.ops) : edit.ops[i] \in Op
  BY <1>1
<1>6. ToSet(edit.files) = {edit.files[i] : i \in 1..Len(edit.files)}
  BY <1>2 DEF ToSet
<1> QED
  BY <1>2, <1>4, <1>5, <1>6

LEMMA OpParts ==
  ASSUME NEW o \in Op
  PROVE  /\ o.op \in {"create", "delete", "rename"} /\ o.path \in Paths
         /\ o.op = "rename" => o.to \in Paths
  BY DEF Op

LEMMA MaxOfTwo ==
  ASSUME NEW a \in Nat, NEW b \in Nat
  PROVE  Max({a, b}) \in Nat /\ a =< Max({a, b}) /\ b =< Max({a, b})
<1>1. CASE a =< b
  <2>1. {a, b} \in SUBSET (0..b) /\ {a, b} # {}
    BY <1>1
  <2>2. Max({a, b}) \in {a, b} /\ \A y \in {a, b} : y =< Max({a, b})
    BY <2>1, MaxFacts
  <2> QED
    BY <2>2
<1>2. CASE b =< a
  <2>1. {a, b} \in SUBSET (0..a) /\ {a, b} # {}
    BY <1>2
  <2>2. Max({a, b}) \in {a, b} /\ \A y \in {a, b} : y =< Max({a, b})
    BY <2>1, MaxFacts
  <2> QED
    BY <2>2
<1> QED
  BY <1>1, <1>2

LEMMA ApplierStarts == Init => TypeInv
<1> SUFFICES ASSUME Init PROVE TypeInv
  OBVIOUS
<1>1. PICK c \in Cases : disk = c.disk /\ edit = c.edit
  BY DEF Init
<1>2. /\ step = "planning" /\ next = 1 /\ planned = <<>> /\ changed = <<>>
      /\ original = disk /\ meddled = <<>>
  BY DEF Init
<1>3. EditType /\ disk \in [Paths -> MaybeText]
  BY <1>1, <1>2, CasesAssumption DEF EditType, MaybeText
<1>4. next \in 1..(1 + Max({Len(edit.files), Len(edit.ops)}))
  <2>1. Max({Len(edit.files), Len(edit.ops)}) \in Nat
    BY <1>3, EditParts, MaxOfTwo
  <2> QED
    BY <1>2, <2>1
<1>5. TypeOK
  BY <1>2, <1>3, <1>4 DEF TypeOK, MaybeText
<1> QED
  BY <1>3, <1>5 DEF TypeInv

(* A planned rewrite is a text of a file.                                   *)
LEMMA PlannedParts ==
  ASSUME TypeInv
  PROVE  /\ planned \in Seq(PlannedType) /\ DOMAIN planned = 1..Len(planned)
         /\ Len(planned) \in Nat
         /\ planned # <<>> => /\ Head(planned).path \in Paths
                              /\ Head(planned).text \in Seq(Characters)
                              /\ Tail(planned) \in Seq(PlannedType)
                              /\ Head(planned) = planned[1] /\ Len(planned) > 0
                              /\ Len(Tail(planned)) = Len(planned) - 1
                              /\ \A j \in 1..Len(Tail(planned)) : Tail(planned)[j] = planned[j + 1]
<1>1. planned \in Seq(PlannedType)
  BY DEF TypeInv, TypeOK, PlannedType
<1>2. ASSUME planned # <<>>
      PROVE  /\ Head(planned) \in PlannedType /\ Tail(planned) \in Seq(PlannedType)
             /\ Head(planned) = planned[1] /\ Len(planned) > 0
             /\ Len(Tail(planned)) = Len(planned) - 1
             /\ \A j \in 1..Len(Tail(planned)) : Tail(planned)[j] = planned[j + 1]
  BY <1>1, <1>2, HeadTailProperties
<1>3. \A x \in PlannedType : x.path \in Paths /\ x.text \in Seq(Characters)
  BY DEF PlannedType
<1> QED
  BY <1>1, <1>2, <1>3

LEMMA ApplierKeepsTypes == TypeInv /\ [Next]_vars => TypeInv'
<1> SUFFICES ASSUME TypeInv, [Next]_vars PROVE TypeInv'
  OBVIOUS
<1> DEFINE last == Max({Len(edit.files), Len(edit.ops)})
<1>1. TypeOK /\ EditType
  BY DEF TypeInv
<1>2. /\ Len(edit.files) \in Nat /\ Len(edit.ops) \in Nat
      /\ last \in Nat /\ Len(edit.files) =< last /\ Len(edit.ops) =< last
  BY <1>1, EditParts, MaxOfTwo
<1> HIDE DEF last
<1>3. /\ disk \in [Paths -> MaybeText] /\ next \in 1..(1 + last)
      /\ step \in {"planning", "writing", "moving"} \union Outcomes
      /\ planned \in Seq(PlannedType) /\ changed \in Seq(Paths) /\ meddled \in Seq(Paths)
  BY <1>1 DEF TypeOK, MaybeText, PlannedType, last
<1>4. edit' = edit /\ original' = original
  BY DEF Next, vars, Plan, PlanDone, Write, WriteFails, WriteDone, ApplyOp, OpFails, OpsDone,
         Outside, Finished
<1>5. EditType' /\ last' = last
  BY <1>1, <1>4 DEF EditType, last
<1> SUFFICES /\ disk' \in [Paths -> MaybeText] /\ next' \in 1..(1 + last)
             /\ step' \in {"planning", "writing", "moving"} \union Outcomes
             /\ planned' \in Seq(PlannedType) /\ changed' \in Seq(Paths) /\ meddled' \in Seq(Paths)
  BY <1>5 DEF TypeInv, TypeOK, MaybeText, PlannedType, last
<1>6. CASE UNCHANGED vars
  BY <1>3, <1>6 DEF vars
<1>7. CASE Plan
  <2> DEFINE file == edit.files[next]
             text == disk[file.path]
             updated == rewrite_file(text, file.edits, edit.encoding)
  <2>1. next =< Len(edit.files) /\ UNCHANGED <<edit, original, meddled>>
    BY <1>7 DEF Plan
  <2>2. file.path \in Paths /\ file.edits \in Seq(TextEdits) /\ text \in MaybeText
    BY <1>1, <1>2, <1>3, <2>1, EditParts
  <2>3. CASE Exists(file.path) /\ CanRewrite(text, file.edits, edit.encoding)
    <3>1. text \in Seq(Characters)
      BY <2>2, <2>3 DEF Exists, MaybeText
    <3>2. updated \in Seq(Characters)
      BY <1>1, <2>2, <2>3, <3>1, RewriteIsIntended DEF EditType
    <3>3. /\ planned' = IF updated = text THEN planned
                        ELSE Append(planned, [path |-> file.path, text |-> updated])
          /\ next' = next + 1 /\ UNCHANGED <<disk, step, changed>>
      BY <1>7, <2>3 DEF Plan
    <3> HIDE DEF text, updated
    <3>4. [path |-> file.path, text |-> updated] \in PlannedType
      BY <2>2, <3>2 DEF PlannedType
    <3>5. planned' \in Seq(PlannedType)
      <4>1. PICK x \in PlannedType : planned' = IF updated = text THEN planned ELSE Append(planned, x)
        BY <3>3, <3>4
      <4> QED
        BY <1>3, <4>1, AppendProperties
    <3> QED
      BY <1>2, <1>3, <2>1, <3>3, <3>5
  <2>4. CASE ~(Exists(file.path) /\ CanRewrite(text, file.edits, edit.encoding))
    <3>1. Fail("refused")
      BY <1>7, <2>4 DEF Plan
    <3> QED
      BY <1>3, <2>1, <3>1 DEF Fail, Outcomes
  <2> QED
    BY <2>3, <2>4
<1>8. CASE PlanDone
  BY <1>3, <1>8 DEF PlanDone
<1>9. CASE Write
  <2>1. /\ planned # <<>> /\ disk' = [disk EXCEPT ![Head(planned).path] = Head(planned).text]
        /\ changed' = Append(changed, Head(planned).path) /\ planned' = Tail(planned)
        /\ UNCHANGED <<edit, step, next, original, meddled>>
    BY <1>9 DEF Write
  <2>2. /\ Head(planned).path \in Paths /\ Head(planned).text \in MaybeText
        /\ Tail(planned) \in Seq(PlannedType)
    BY <2>1, PlannedParts DEF MaybeText
  <2>3. disk' \in [Paths -> MaybeText]
    BY <1>3, <2>1, <2>2
  <2>4. changed' \in Seq(Paths)
    BY <1>3, <2>1, <2>2, AppendProperties
  <2> QED
    BY <1>3, <2>1, <2>2, <2>3, <2>4
<1>10. CASE WriteFails
  <2>1. planned # <<>> /\ step' = "failed" /\ UNCHANGED <<edit, next, planned, changed, original, meddled>>
    BY <1>10 DEF WriteFails
  <2>2. Head(planned).path \in Paths /\ Head(planned).text \in Seq(Characters)
    BY <2>1, PlannedParts
  <2>3. CASE UNCHANGED disk
    BY <1>3, <2>1, <2>3 DEF Outcomes
  <2>4. CASE \E written \in 0..(Len(Head(planned).text) - 1) :
               disk' = [disk EXCEPT ![Head(planned).path] = SubSeq(Head(planned).text, 1, written)]
    <3>1. PICK written \in 0..(Len(Head(planned).text) - 1) :
            disk' = [disk EXCEPT ![Head(planned).path] = SubSeq(Head(planned).text, 1, written)]
      BY <2>4
    <3>2. SubSeq(Head(planned).text, 1, written) \in MaybeText
      <4>1. PICK text \in Seq(Characters) : text = Head(planned).text
        BY <2>2
      <4>2. written \in 0..(Len(text) - 1)
        BY <3>1, <4>1
      <4>3. SubSeq(text, 1, written) \in Seq(Characters)
        BY <4>2
      <4> QED
        BY <4>1, <4>3 DEF MaybeText
    <3>3. disk' \in [Paths -> MaybeText]
      BY <1>3, <3>1, <3>2, <2>2
    <3> QED
      BY <1>3, <2>1, <3>3 DEF Outcomes
  <2> QED
    BY <1>10, <2>3, <2>4 DEF WriteFails
<1>11. CASE WriteDone
  BY <1>2, <1>3, <1>11 DEF WriteDone
<1>12. CASE ApplyOp
  <2> DEFINE o == edit.ops[next]
  <2>1. next =< Len(edit.ops) /\ UNCHANGED <<edit, original, meddled>>
    BY <1>12 DEF ApplyOp
  <2>2. o \in Op /\ o.path \in Paths /\ (o.op = "rename" => o.to \in Paths)
    BY <1>1, <1>2, <1>3, <2>1, EditParts, OpParts
  <2>3. CASE o.op = "rename" /\ ~Exists(o.path)
    <3>1. Fail("failed")
      BY <1>12, <2>3 DEF ApplyOp
    <3> QED
      BY <1>3, <2>1, <3>1 DEF Fail, Outcomes
  <2>4. CASE ~(o.op = "rename" /\ ~Exists(o.path))
    <3>1. /\ next' = next + 1 /\ UNCHANGED <<step, planned>>
          /\ \/ o.op = "create" /\ create(o.path)
             \/ o.op = "delete" /\ delete(o.path)
             \/ o.op = "rename" /\ rename(o.path, o.to)
      BY <1>12, <2>4 DEF ApplyOp
    <3> HIDE DEF o
    <3>2. NoText \in MaybeText /\ <<>> \in MaybeText
      BY DEF MaybeText
    <3>3. disk' \in [Paths -> MaybeText] /\ changed' \in Seq(Paths)
      <4>1. CASE o.op = "create" /\ create(o.path)
        BY <1>3, <2>2, <3>2, <4>1, AppendProperties DEF create
      <4>2. CASE o.op = "delete" /\ delete(o.path)
        BY <1>3, <2>2, <3>2, <4>2, AppendProperties DEF delete
      <4>3. CASE o.op = "rename" /\ rename(o.path, o.to)
        BY <1>3, <2>2, <3>2, <4>3, AppendProperties DEF rename
      <4> QED
        BY <3>1, <4>1, <4>2, <4>3
    <3> QED
      BY <1>2, <1>3, <2>1, <3>1, <3>3
  <2> QED
    BY <2>3, <2>4
<1>13. CASE OpFails
  BY <1>3, <1>13 DEF OpFails, Fail, Outcomes
<1>14. CASE OpsDone
  BY <1>3, <1>14 DEF OpsDone, Outcomes
<1>15. CASE Outside
  <2>1. PICK p \in Paths, text \in OutsideTexts :
          disk' = [disk EXCEPT ![p] = text] /\ meddled' = Append(meddled, p)
    BY <1>15 DEF Outside
  <2>2. text \in MaybeText
    BY CasesAssumption DEF MaybeText
  <2>3. disk' \in [Paths -> MaybeText] /\ meddled' \in Seq(Paths)
    BY <1>3, <2>1, <2>2, AppendProperties
  <2> QED
    BY <1>3, <1>15, <2>3 DEF Outside
<1>16. CASE Finished
  BY <1>3, <1>16 DEF Finished, vars
<1> QED
  BY <1>6, <1>7, <1>8, <1>9, <1>10, <1>11, <1>12, <1>13, <1>14, <1>15, <1>16 DEF Next

(* Type correctness: whatever is applied, files hold texts and the cursor   *)
(* is at one of the edit's files or operations, or past the last of them.   *)
THEOREM TypeCorrect == Spec => []TypeOK
<1>1. Spec => []TypeInv
  BY ApplierStarts, ApplierKeepsTypes, PTL DEF Spec
<1>2. TypeInv => TypeOK
  BY DEF TypeInv
<1> QED
  BY <1>1, <1>2, PTL

-----------------------------------------------------------------------------
(* A position is on the line it names, before the end of that line, in      *)
(* every text, however its characters are counted.                          *)
THEOREM PositionsStayOnTheirLine == Spec => []PositionsKeepTheirLine
<1>1. ASSUME TypeInv PROVE PositionsKeepTheirLine
  <2>1. EditType
    BY <1>1 DEF TypeInv
  <2> SUFFICES ASSUME NEW f \in ToSet(edit.files), NEW e \in ToSet(f.edits), NEW end \in {"start", "end"},
                      NEW k, k = resolve_offset(original[f.path], e[end], edit.encoding),
                      original[f.path] # NoText, k # NoOffset
               PROVE  /\ Cardinality({i \in Newlines(original[f.path]) : i <= k}) = e[end].line
                      /\ ~(/\ k > 0 /\ k < Len(original[f.path])
                           /\ original[f.path][k] = "cr" /\ original[f.path][k + 1] = "nl")
    BY DEF PositionsKeepTheirLine
  <2>2. f.path \in Paths /\ f.edits \in Seq(TextEdits)
    BY <2>1, EditParts
  <2>3. original[f.path] \in Seq(Characters)
    BY <2>1, <2>2 DEF EditType, MaybeText
  <2>4. e \in TextEdits
    BY <2>2 DEF ToSet
  <2>5. e[end] \in LspPosition
    <3>1. CASE end = "start"
      BY <2>4, <3>1 DEF TextEdits
    <3>2. CASE end = "end"
      BY <2>4, <3>2 DEF TextEdits
    <3> QED
      BY <3>1, <3>2
  <2>6. PICK pos \in LspPosition : pos = e[end]
    BY <2>5
  <2>7. pos.line \in Nat
    BY DEF LspPosition
  <2>8. OnItsLine(original[f.path], k, pos.line)
    BY <2>3, <2>6, <2>7, PositionOnItsLine
  <2> QED
    BY <2>6, <2>8, Zenon DEF OnItsLine
<1>2. Spec => []TypeInv
  BY ApplierStarts, ApplierKeepsTypes, PTL DEF Spec
<1> QED
  BY <1>1, <1>2, PTL

-----------------------------------------------------------------------------
(* What is touched, and what is reported.                                  *)
LEMMA Touched ==
  ASSUME NEW s \in Seq(Paths), NEW p \in Paths
  PROVE  /\ Append(s, p) \in Seq(Paths)
         /\ ToSet(Append(s, p)) = ToSet(s) \union {p}
<1>1. /\ Append(s, p) \in Seq(Paths) /\ Len(Append(s, p)) = Len(s) + 1 /\ Len(s) \in Nat
      /\ \A i \in 1..Len(s) : Append(s, p)[i] = s[i]
      /\ Append(s, p)[Len(s) + 1] = p
  BY AppendProperties
<1> DEFINE t == Append(s, p)
<1>2. DOMAIN s = 1..Len(s) /\ DOMAIN t = 1..(Len(s) + 1)
  BY <1>1
<1> HIDE DEF t
<1>3. \A i \in 1..Len(s) : i \in DOMAIN t /\ t[i] = s[i]
  BY <1>1, <1>2 DEF t
<1>4. Len(s) + 1 \in DOMAIN t /\ t[Len(s) + 1] = p
  BY <1>1, <1>2 DEF t
<1>5. \A i \in DOMAIN t : i \in 1..Len(s) \/ i = Len(s) + 1
  BY <1>1, <1>2
<1>6. ToSet(t) = ToSet(s) \union {p}
  BY <1>2, <1>3, <1>4, <1>5 DEF ToSet
<1> QED
  BY <1>1, <1>6 DEF t

(* An edit that its text edits make apply refuse has changed no file.       *)
THEOREM RefusalLeavesTheTree == Spec => []RefusedLeavesTree
<1>1. Init => RefusedLeavesTree
  BY DEF Init, RefusedLeavesTree
<1>2. TypeInv /\ RefusedLeavesTree /\ [Next]_vars => RefusedLeavesTree'
  <2> SUFFICES ASSUME TypeInv, RefusedLeavesTree, [Next]_vars,
                      step' \in {"planning", "refused"}, NEW p \in Paths
               PROVE  p \in ToSet(meddled') \/ disk'[p] = original'[p]
    BY DEF RefusedLeavesTree
  <2>1. disk \in [Paths -> MaybeText] /\ meddled \in Seq(Paths)
    BY DEF TypeInv, TypeOK, MaybeText
  <2>2. step \in {"planning", "refused"}
        => p \in ToSet(meddled) \/ disk[p] = original[p]
    BY DEF RefusedLeavesTree
  <2>3. CASE UNCHANGED vars
    BY <2>2, <2>3 DEF vars
  <2>4. CASE Plan
    BY <2>2, <2>4 DEF Plan, Fail
  <2>5. CASE PlanDone \/ Write \/ WriteFails \/ WriteDone
    BY <2>5 DEF PlanDone, Write, WriteFails, WriteDone
  <2>6. CASE ApplyOp \/ OpFails \/ OpsDone
    BY <2>6 DEF ApplyOp, OpFails, OpsDone, Fail
  <2>7. CASE Outside
    <3>1. PICK x \in Paths, text \in OutsideTexts :
            disk' = [disk EXCEPT ![x] = text] /\ meddled' = Append(meddled, x)
      BY <2>7 DEF Outside
    <3>2. ToSet(meddled') = ToSet(meddled) \union {x}
      BY <2>1, <3>1, Touched
    <3>3. step = step' /\ original' = original
      BY <2>7 DEF Outside
    <3> QED
      BY <2>1, <2>2, <3>1, <3>2, <3>3
  <2>8. CASE Finished
    BY <2>2, <2>8 DEF Finished, vars
  <2> QED
    BY <2>3, <2>4, <2>5, <2>6, <2>7, <2>8 DEF Next
<1>3. Spec => []TypeInv
  BY ApplierStarts, ApplierKeepsTypes, PTL DEF Spec
<1> QED
  BY <1>1, <1>2, <1>3, PTL DEF Spec

(* A file whose text is another than apply found is reported, was moved     *)
(* away or was touched by somebody else, as long as no call has failed.     *)
MovedAway(p) == \E i \in DOMAIN edit.ops : edit.ops[i].op = "rename" /\ edit.ops[i].path = p

ReportInv ==
    step # "failed" =>
        \A p \in Paths : \/ disk[p] = original[p]
                        \/ p \in ToSet(changed) \union ToSet(meddled)
                        \/ MovedAway(p)

LEMMA ReportsAreKept == TypeInv /\ ReportInv /\ [Next]_vars => ReportInv'
<1> SUFFICES ASSUME TypeInv, ReportInv, [Next]_vars, step' # "failed", NEW p \in Paths
             PROVE  \/ disk'[p] = original'[p]
                    \/ p \in ToSet(changed') \union ToSet(meddled')
                    \/ MovedAway(p)'
  BY DEF ReportInv
<1>1. /\ disk \in [Paths -> MaybeText] /\ meddled \in Seq(Paths) /\ changed \in Seq(Paths)
      /\ EditType /\ next \in Nat /\ next > 0
  <2>1. Max({Len(edit.files), Len(edit.ops)}) \in Nat
    BY EditParts, MaxOfTwo DEF TypeInv
  <2> QED
    BY <2>1 DEF TypeInv, TypeOK, MaybeText
<1>2. step # "failed" => \/ disk[p] = original[p]
                         \/ p \in ToSet(changed) \union ToSet(meddled)
                         \/ MovedAway(p)
  BY DEF ReportInv
<1>3. edit' = edit /\ original' = original
  BY DEF Next, vars, Plan, PlanDone, Write, WriteFails, WriteDone, ApplyOp, OpFails, OpsDone,
         Outside, Finished
<1>4. MovedAway(p)' <=> MovedAway(p)
  BY <1>3 DEF MovedAway
<1>5. CASE /\ step # "failed"
           /\ disk' = disk /\ changed' = changed /\ meddled' = meddled
  BY <1>2, <1>3, <1>4, <1>5
<1>6. CASE \E x \in Paths : /\ step # "failed" /\ \A y \in Paths : y # x => disk'[y] = disk[y]
                            /\ \/ changed' = Append(changed, x) /\ meddled' = meddled
                               \/ changed' = changed /\ meddled' = Append(meddled, x)
  <2>1. PICK x \in Paths : /\ step # "failed" /\ \A y \in Paths : y # x => disk'[y] = disk[y]
                           /\ \/ changed' = Append(changed, x) /\ meddled' = meddled
                              \/ changed' = changed /\ meddled' = Append(meddled, x)
    BY <1>6
  <2>2. ToSet(changed') \union ToSet(meddled') = (ToSet(changed) \union ToSet(meddled)) \union {x}
    <3>1. CASE changed' = Append(changed, x) /\ meddled' = meddled
      BY <1>1, <3>1, Touched
    <3>2. CASE changed' = changed /\ meddled' = Append(meddled, x)
      BY <1>1, <3>2, Touched
    <3> QED
      BY <2>1, <3>1, <3>2
  <2> QED
    BY <1>2, <1>3, <1>4, <2>1, <2>2
<1>7. CASE UNCHANGED vars
  BY <1>5, <1>7 DEF vars
<1>8. CASE Plan
  BY <1>5, <1>8 DEF Plan, Fail
<1>9. CASE PlanDone \/ WriteDone \/ OpsDone \/ Finished
  BY <1>5, <1>9 DEF PlanDone, WriteDone, OpsDone, Finished, vars
<1>10. CASE WriteFails \/ OpFails
  BY <1>10 DEF WriteFails, OpFails, Fail
<1>11. CASE Write
  <2>1. Head(planned).path \in Paths
    BY <1>11, PlannedParts DEF Write
  <2> QED
    BY <1>1, <1>6, <1>11, <2>1 DEF Write
<1>12. CASE Outside
  BY <1>1, <1>6, <1>12 DEF Outside, Outcomes
<1>13. CASE ApplyOp
  <2> DEFINE o == edit.ops[next]
  <2>1. next =< Len(edit.ops) /\ step = "moving" /\ meddled' = meddled
    BY <1>13 DEF ApplyOp
  <2>2. /\ o.path \in Paths /\ (o.op = "rename" => o.to \in Paths)
        /\ next \in DOMAIN edit.ops
    BY <1>1, <2>1, EditParts, OpParts
  <2>3. \/ o.op = "create" /\ create(o.path)
        \/ o.op = "delete" /\ delete(o.path)
        \/ o.op = "rename" /\ rename(o.path, o.to)
    <3>1. ~(o.op = "rename" /\ ~Exists(o.path))
      BY <1>13 DEF ApplyOp, Fail
    <3> QED
      BY <1>13, <3>1 DEF ApplyOp
  <2>4. o.op = "rename" => MovedAway(o.path)
    BY <2>2 DEF MovedAway
  <2> HIDE DEF o
  <2>5. CASE o.op = "create" /\ create(o.path)
    BY <1>1, <1>6, <2>1, <2>2, <2>5 DEF create
  <2>6. CASE o.op = "delete" /\ delete(o.path)
    BY <1>1, <1>6, <2>1, <2>2, <2>6 DEF delete
  <2>7. CASE o.op = "rename" /\ rename(o.path, o.to)
    <3>1. /\ disk' = [x \in Paths |-> IF x = o.to THEN disk[o.path]
                                      ELSE IF x = o.path THEN NoText ELSE disk[x]]
          /\ changed' = Append(changed, o.to)
      BY <2>7 DEF rename
    <3>2. ToSet(changed') = ToSet(changed) \union {o.to}
      BY <1>1, <2>2, <2>7, <3>1, Touched
    <3> QED
      BY <1>2, <1>3, <1>4, <2>1, <2>4, <2>7, <3>1, <3>2
  <2> QED
    BY <2>3, <2>5, <2>6, <2>7
<1> QED
  BY <1>7, <1>8, <1>9, <1>10, <1>11, <1>12, <1>13 DEF Next

(* What the index is told of is all that changed.                           *)
THEOREM ReportsAreComplete == Spec => []ReportedIsComplete
<1>1. Init => ReportInv
  BY DEF Init, ReportInv
<1>2. Spec => []TypeInv
  BY ApplierStarts, ApplierKeepsTypes, PTL DEF Spec
<1>3. ReportInv => ReportedIsComplete
  BY DEF ReportInv, ReportedIsComplete, MovedAway
<1> QED
  BY <1>1, <1>2, <1>3, ReportsAreKept, PTL DEF Spec

-----------------------------------------------------------------------------
(* The text a rewritten file ends with is the one its only entry means.     *)
LEMMA RewrittenOnce ==
  ASSUME EditType, NEW i \in 1..Len(edit.files)
  PROVE  AfterTextEdits(edit.files[i].path) = Meant(edit.files[i])
<1> DEFINE p == edit.files[i].path
           file == CHOOSE f \in ToSet(edit.files) : f.path = p
<1>1. i \in DOMAIN edit.files /\ edit.files[i] \in ToSet(edit.files)
  BY EditParts
<1>2. file \in ToSet(edit.files) /\ file.path = p
  BY <1>1
<1>3. PICK j \in 1..Len(edit.files) : file = edit.files[j]
  BY <1>2, EditParts
<1>4. file = edit.files[i]
  <2>1. j \in DOMAIN edit.files /\ edit.files[j].path = edit.files[i].path
    BY <1>2, <1>3, EditParts
  <2>2. j = i
    BY <1>1, <2>1 DEF EditType
  <2> QED
    BY <1>3, <2>2
<1>5. Rewritten(p)
  BY <1>1 DEF Rewritten
<1>6. AfterTextEdits(p) = Intended(original[p], file.edits, edit.encoding)
  BY <1>5 DEF AfterTextEdits
<1> HIDE DEF file
<1> QED
  BY <1>4, <1>6 DEF Meant

LEMMA NotRewritten ==
  ASSUME EditType, NEW p \in Paths, \A i \in 1..Len(edit.files) : edit.files[i].path # p
  PROVE  AfterTextEdits(p) = original[p]
  BY EditParts DEF AfterTextEdits, Rewritten

(* Tracing the contents of the files back through the operations.           *)
Present == {q \in Paths : original[q] # NoText}

Places == [Paths -> Present \union {"none", "empty"}]

Unmoved == [p \in Paths |-> IF original[p] = NoText THEN "none" ELSE p]

Traced(o, before) ==
    [p \in Paths |->
        CASE o.op = "delete" /\ o.path = p -> "none"
          [] o.op = "create" /\ o.path = p /\ before[p] = "none" -> "empty"
          [] o.op = "rename" /\ o.to = p -> before[o.path]
          [] o.op = "rename" /\ o.path = p /\ o.to # p -> "none"
          [] OTHER -> before[p]]

LEMMA TracedType ==
  ASSUME NEW o \in Op, NEW before \in Places
  PROVE  Traced(o, before) \in Places
<1> SUFFICES ASSUME NEW p \in Paths
             PROVE  Traced(o, before)[p] \in Present \union {"none", "empty"}
  BY DEF Traced, Places
<1>1. before[p] \in Present \union {"none", "empty"}
  BY DEF Places
<1>2. o.op = "rename" => before[o.path] \in Present \union {"none", "empty"}
  BY OpParts DEF Places
<1> QED
  BY <1>1, <1>2 DEF Traced

LEMMA OriginSteps ==
  ASSUME EditType
  PROVE  /\ Origin[0] = Unmoved
         /\ \A n \in 1..Len(edit.ops) : Origin[n] = Traced(edit.ops[n], Origin[n - 1])
         /\ \A n \in 0..Len(edit.ops) : Origin[n] \in Places
<1> DEFINE N == Len(edit.ops)
           op(n) == edit.ops[n]
           F == [x \in Nat \X Places |->
                    IF x[1] < N THEN Traced(op(x[1] + 1), x[2]) ELSE x[2]]
<1>1. N \in Nat /\ \A n \in 1..N : op(n) \in Op
  BY EditParts
<1>2. Unmoved \in Places
  BY DEF Unmoved, Places, Present
<1>3. F \in [Nat \X Places -> Places]
  <2>1. ASSUME NEW n \in Nat, NEW b \in Places, n < N PROVE Traced(op(n + 1), b) \in Places
    <3>1. op(n + 1) \in Op
      BY <1>1, <2>1
    <3> HIDE DEF op
    <3> QED
      BY <3>1, TracedType
  <2> HIDE DEF N, op
  <2> QED
    BY <2>1
<1>4. ASSUME NEW n \in 0..N, n # 0, NEW b \in Places PROVE F[<<n - 1, b>>] = Traced(op(n), b)
  <2>1. n - 1 \in Nat /\ n - 1 < N /\ (n - 1) + 1 = n
    BY <1>1, <1>4
  <2> HIDE DEF N, op
  <2> QED
    BY <2>1
<1> HIDE DEF F
<1>5. PICK f : Recurs(Places, Unmoved, F, f)
  BY <1>2, <1>3, Recursion
<1> DEFINE g == [n \in 0..N |-> f[n]]
<1>6. \A n \in 0..N : g[n] = f[n] /\ f[n] \in Places
  BY <1>1, <1>5 DEF Recurs
<1>7. ASSUME NEW n \in 0..N, n # 0 PROVE g[n] = Traced(op(n), g[n - 1])
  <2>1. n - 1 \in Nat /\ n - 1 \in 0..N /\ (n - 1) + 1 = n
    BY <1>1, <1>7
  <2>2. f[(n - 1) + 1] = F[<<n - 1, f[n - 1]>>]
    BY <1>5, <2>1 DEF Recurs
  <2>3. f[n - 1] \in Places
    BY <1>6, <2>1
  <2>4. f[n] = Traced(op(n), f[n - 1])
    BY <1>4, <1>7, <2>1, <2>2, <2>3
  <2> HIDE DEF op
  <2> QED
    BY <1>6, <2>1, <2>4
<1>8. g[0] = Unmoved
  BY <1>1, <1>5 DEF Recurs
<1> DEFINE trace(h) == [n \in 0..N |-> IF n = 0 THEN Unmoved ELSE Traced(op(n), h[n - 1])]
<1>9. g = trace(g)
  <2>1. ASSUME NEW n \in 0..N PROVE g[n] = trace(g)[n]
    <3> HIDE DEF g, op
    <3> QED
      BY <1>7, <1>8
  <2>2. g = [n \in 0..N |-> g[n]]
    OBVIOUS
  <2> HIDE DEF g, op
  <2> QED
    BY <2>1, <2>2
<1>10. Origin = CHOOSE h : h = trace(h)
  BY DEF Origin, Unmoved, Traced
<1>11. Origin = trace(Origin)
  <2> HIDE DEF g, trace
  <2> QED
    BY <1>9, <1>10
<1>12. Origin[0] = Unmoved /\ \A n \in 1..N : Origin[n] = Traced(op(n), Origin[n - 1])
  <2> HIDE DEF op
  <2>1. 0 \in 0..N /\ \A n \in 1..N : n \in 0..N /\ n # 0
    BY <1>1
  <2> QED
    BY <1>11, <2>1
<1>13. ASSUME NEW n \in Nat, n < N, Origin[n] \in Places PROVE Origin[n + 1] \in Places
  <2>1. n + 1 \in 1..N /\ (n + 1) - 1 = n
    BY <1>1, <1>13
  <2>2. Origin[n + 1] = Traced(op(n + 1), Origin[n]) /\ op(n + 1) \in Op
    BY <1>1, <1>12, <2>1
  <2> HIDE DEF op
  <2> QED
    BY <1>13, <2>2, TracedType
<1>14. \A n \in 0..N : Origin[n] \in Places
  <2> DEFINE S == {n \in Nat : n =< N => Origin[n] \in Places}
  <2>1. S \in SUBSET Nat /\ 0 \in S
    BY <1>2, <1>12
  <2>2. \A n \in S : n + 1 \in S
    BY <1>1, <1>13
  <2>3. S = Nat
    <3> HIDE DEF S
    <3> QED
      BY <2>1, <2>2, SetInduction
  <2> QED
    BY <1>1, <2>3
<1> QED
  BY <1>12, <1>14

(* What an operation does to what the paths hold.                           *)
Holds(from) ==
    IF from = "none" THEN NoText
    ELSE IF from = "empty" THEN <<>> ELSE AfterTextEdits(from)

LEMMA HeldAtFirst ==
  ASSUME EditType, TextsInv, NEW p \in Paths
  PROVE  HeldAfter(0, p) = AfterTextEdits(p)
<1>1. Origin[0] = Unmoved
  BY OriginSteps
<1>2. Origin[0][p] = IF original[p] = NoText THEN "none" ELSE p
  BY <1>1 DEF Unmoved
<1>3. p # "none" /\ p # "empty"
  BY CasesAssumption
<1>4. AfterTextEdits(p) = NoText <=> original[p] = NoText
  BY DEF TextsInv
<1> QED
  BY <1>2, <1>3, <1>4 DEF HeldAfter

LEMMA HoldsNothing ==
  ASSUME EditType, TextsInv, NEW from \in Present \union {"none", "empty"}
  PROVE  Holds(from) = NoText <=> from = "none"
<1>1. <<>> # NoText
  <2>1. <<>> \in Seq(Characters)
    OBVIOUS
  <2>2. NoText \notin Seq(Characters)
    BY CasesAssumption
  <2> QED
    BY <2>1, <2>2
<1>2. CASE from \in Present
  <2>1. from \in Paths /\ original[from] # NoText /\ from # "none" /\ from # "empty"
    BY <1>2, CasesAssumption DEF Present
  <2>2. AfterTextEdits(from) # NoText
    BY <2>1 DEF TextsInv
  <2> QED
    BY <2>1, <2>2 DEF Holds
<1>3. CASE from \in {"none", "empty"}
  BY <1>1, <1>3 DEF Holds
<1> QED
  BY <1>2, <1>3

LEMMA HeldNext ==
  ASSUME EditType, TextsInv, NEW n \in 1..Len(edit.ops), NEW p \in Paths,
         NEW o \in Op, o = edit.ops[n]
  PROVE  /\ o.op = "delete" =>
              HeldAfter(n, p) = IF p = o.path THEN NoText ELSE HeldAfter(n - 1, p)
         /\ o.op = "create" =>
              HeldAfter(n, p) = IF p = o.path /\ HeldAfter(n - 1, p) = NoText THEN <<>>
                                ELSE HeldAfter(n - 1, p)
         /\ o.op = "rename" =>
              HeldAfter(n, p) = IF p = o.to THEN HeldAfter(n - 1, o.path)
                                ELSE IF p = o.path THEN NoText ELSE HeldAfter(n - 1, p)
<1>1. PICK before \in Places : before = Origin[n - 1]
  <2>1. n - 1 \in 0..Len(edit.ops)
    BY EditParts
  <2> QED
    BY <2>1, OriginSteps
<1>2. Origin[n] = Traced(o, before)
  BY <1>1, OriginSteps
<1>3. \A q \in Paths : HeldAfter(n, q) = Holds(Traced(o, before)[q])
  BY <1>2 DEF HeldAfter, Holds
<1>4. \A q \in Paths : HeldAfter(n - 1, q) = Holds(before[q])
  BY <1>1 DEF HeldAfter, Holds
<1>5. Holds(before[p]) = NoText <=> before[p] = "none"
  BY HoldsNothing DEF Places
<1>6. Holds("none") = NoText /\ Holds("empty") = <<>>
  BY DEF Holds
<1>7. ASSUME o.op = "delete"
      PROVE  Traced(o, before)[p] = IF p = o.path THEN "none" ELSE before[p]
  BY <1>7 DEF Traced
<1>8. ASSUME o.op = "create"
      PROVE  Traced(o, before)[p] = IF p = o.path /\ before[p] = "none" THEN "empty" ELSE before[p]
  BY <1>8 DEF Traced
<1>9. ASSUME o.op = "rename"
      PROVE  Traced(o, before)[p] = IF p = o.to THEN before[o.path]
                                    ELSE IF p = o.path THEN "none" ELSE before[p]
  BY <1>9 DEF Traced
<1>10. o.op = "rename" => o.path \in Paths
  BY OpParts
<1> QED
  BY <1>3, <1>4, <1>5, <1>6, <1>7, <1>8, <1>9, <1>10

-----------------------------------------------------------------------------
(* Nobody touched the tree: an edit reported applied was applied exactly.   *)
LEMMA SameMeaning ==
  ASSUME edit' = edit, original' = original
  PROVE  (TextsInv' <=> TextsInv) /\ Origin' = Origin
<1>1. TextsInv' <=> TextsInv
  BY DEF TextsInv, AfterTextEdits, Rewritten
<1>2. Origin' = Origin
  BY DEF Origin
<1> QED
  BY <1>1, <1>2

LEMMA PlanKeepsExact ==
  ASSUME TypeInv, step = "planning", PlanningInv, Plan
  PROVE  step' = "refused" \/ (step' = "planning" /\ PlanningInv')
<1> DEFINE file == edit.files[next]
           text == disk[file.path]
           updated == rewrite_file(text, file.edits, edit.encoding)
<1>1. EditType /\ disk \in [Paths -> MaybeText]
  BY DEF TypeInv, TypeOK, MaybeText
<1>2. next =< Len(edit.files) /\ edit' = edit /\ original' = original
  BY DEF Plan
<1>3. next \in 1..Len(edit.files) /\ Len(edit.files) \in Nat
  BY <1>1, <1>2, EditParts DEF PlanningInv
<1>4. file.path \in Paths /\ file.edits \in Seq(TextEdits) /\ text \in MaybeText
  BY <1>1, <1>3, EditParts
<1>5. CASE ~(Exists(file.path) /\ CanRewrite(text, file.edits, edit.encoding))
  BY <1>5 DEF Plan, Fail
<1>6. CASE Exists(file.path) /\ CanRewrite(text, file.edits, edit.encoding)
  <2>1. text \in Seq(Characters) /\ text # NoText /\ text = original[file.path]
    BY <1>4, <1>6 DEF Exists, MaybeText, PlanningInv
  <2>2. updated = Meant(file) /\ updated \in Seq(Characters)
    BY <1>1, <1>4, <1>6, <2>1, RewriteIsIntended DEF EditType, Meant
  <2>3. /\ planned' = IF updated = text THEN planned
                      ELSE Append(planned, [path |-> file.path, text |-> updated])
        /\ next' = next + 1 /\ UNCHANGED <<disk, step, changed>>
    BY <1>6 DEF Plan
  <2> HIDE DEF file, text, updated
  <2>4. planned \in Seq(PlannedType) /\ [path |-> file.path, text |-> updated] \in PlannedType
    BY <1>4, <2>2 DEF TypeInv, TypeOK, PlannedType
  <2>5. PICK x \in PlannedType : x.path = file.path /\ x.text = updated
                                /\ planned' = IF updated = text THEN planned ELSE Append(planned, x)
    BY <2>3, <2>4
  <2>6. /\ \A j \in DOMAIN planned : j \in DOMAIN planned' /\ planned'[j] = planned[j]
        /\ \A j \in DOMAIN planned' : j \in DOMAIN planned \/ planned'[j] = x
        /\ updated # text => \E j \in DOMAIN planned' : planned'[j] = x
    <3>1. CASE updated = text
      BY <2>5, <3>1
    <3>2. CASE updated # text
      <4>1. planned' = Append(planned, x)
        BY <2>5, <3>2
      <4>2. /\ Len(planned) \in Nat /\ Append(planned, x) \in Seq(PlannedType)
            /\ Len(Append(planned, x)) = Len(planned) + 1
            /\ \A j \in 1..Len(planned) : Append(planned, x)[j] = planned[j]
            /\ Append(planned, x)[Len(planned) + 1] = x
        BY <2>4, AppendProperties
      <4>3. DOMAIN planned = 1..Len(planned) /\ DOMAIN planned' = 1..(Len(planned) + 1)
        BY <2>4, <4>1, <4>2
      <4> QED
        BY <4>1, <4>2, <4>3
    <3> QED
      BY <3>1, <3>2
  <2>7. \A p \in Paths : disk'[p] = original'[p]
    BY <1>2, <2>3 DEF PlanningInv
  <2>8. next' \in 1..(Len(edit'.files) + 1)
    BY <1>2, <1>3, <2>3
  <2>10. \A i \in 1..(next' - 1) : i \in 1..(next - 1) \/ edit.files[i] = file
    BY <1>3, <2>3 DEF file
  <2>11. next \in 1..(next' - 1) /\ \A i \in 1..(next - 1) : i \in 1..(next' - 1)
    BY <1>3, <2>3
  <2>12. ASSUME NEW i \in 1..(next' - 1), NEW f, f = edit.files[i]
         PROVE  /\ original[f.path] # NoText
                /\ Meant(f) \in Seq(Characters)
                /\ \/ original[f.path] = Meant(f)
                   \/ \E j \in DOMAIN planned' : planned'[j].path = f.path
    <3>1. CASE i \in 1..(next - 1)
      <4>1. /\ original[f.path] # NoText
            /\ Meant(f) \in Seq(Characters)
            /\ \/ original[f.path] = Meant(f)
               \/ \E j \in DOMAIN planned : planned[j].path = f.path
        BY <2>12, <3>1 DEF PlanningInv
      <4> QED
        BY <2>6, <4>1
    <3>2. CASE edit.files[i] = file
      BY <2>1, <2>2, <2>5, <2>6, <2>12, <3>2
    <3> QED
      BY <2>10, <3>1, <3>2
  <2>13. ASSUME NEW j \in DOMAIN planned'
         PROVE  \E i \in 1..(next' - 1) : planned'[j].path = edit.files[i].path
                                        /\ planned'[j].text = Meant(edit.files[i])
    <3>1. CASE j \in DOMAIN planned
      <4>1. PICK i \in 1..(next - 1) : planned[j].path = edit.files[i].path
                                      /\ planned[j].text = Meant(edit.files[i])
        BY <3>1 DEF PlanningInv
      <4> QED
        BY <2>6, <2>11, <3>1, <4>1
    <3>2. CASE planned'[j] = x
      BY <2>2, <2>5, <2>11, <3>2 DEF file
    <3> QED
      BY <2>6, <3>1, <3>2
  <2>14. PlanningInv'
    <3>1. \A i \in 1..(next' - 1) :
            LET f == edit.files[i]
            IN  /\ original[f.path] # NoText
                /\ Meant(f) \in Seq(Characters)
                /\ \/ original[f.path] = Meant(f)
                   \/ \E j \in DOMAIN planned' : planned'[j].path = f.path
      BY <2>12
    <3>2. \A j \in DOMAIN planned' : \E i \in 1..(next' - 1) :
            planned'[j].path = edit.files[i].path /\ planned'[j].text = Meant(edit.files[i])
      BY <2>13
    <3> QED
      BY <1>2, <2>7, <2>8, <3>1, <3>2 DEF PlanningInv, Meant
  <2> QED
    BY <2>3, <2>14
<1> QED
  BY <1>5, <1>6

LEMMA PlannedIsWritable ==
  ASSUME TypeInv, PlanningInv, next > Len(edit.files)
  PROVE  WritingInv
<1>1. EditType /\ Len(edit.files) \in Nat
  BY EditParts DEF TypeInv
<1>2. 1..(next - 1) = 1..Len(edit.files) /\ original \in [Paths -> MaybeText]
  <2>1. next = Len(edit.files) + 1
    BY <1>1 DEF PlanningInv
  <2> QED
    BY <1>1, <2>1 DEF EditType
<1>3. ASSUME NEW i \in 1..Len(edit.files)
      PROVE  LET f == edit.files[i]
             IN  /\ f.path \in Paths /\ original[f.path] # NoText
                 /\ AfterTextEdits(f.path) = Meant(f) /\ Meant(f) \in Seq(Characters)
                 /\ original[f.path] = AfterTextEdits(f.path)
                    \/ \E j \in DOMAIN planned : planned[j].path = f.path
  BY <1>1, <1>2, EditParts, RewrittenOnce DEF PlanningInv
<1>4. ASSUME NEW p \in Paths
      PROVE  /\ AfterTextEdits(p) \in MaybeText
             /\ AfterTextEdits(p) = NoText <=> original[p] = NoText
             /\ \/ disk[p] = AfterTextEdits(p)
                \/ \E j \in DOMAIN planned : planned[j].path = p
  <2>1. disk[p] = original[p] /\ original[p] \in MaybeText
    BY <1>2 DEF PlanningInv
  <2>2. CASE \E i \in 1..Len(edit.files) : edit.files[i].path = p
    <3>1. PICK i \in 1..Len(edit.files) : edit.files[i].path = p
      BY <2>2
    <3>2. AfterTextEdits(p) # NoText
      BY <1>3, <3>1, CasesAssumption
    <3> QED
      BY <1>3, <2>1, <3>1, <3>2 DEF MaybeText
  <2>3. CASE ~\E i \in 1..Len(edit.files) : edit.files[i].path = p
    BY <1>1, <2>1, <2>3, NotRewritten
  <2> QED
    BY <2>2, <2>3
<1>5. \A j \in DOMAIN planned : planned[j].text = AfterTextEdits(planned[j].path)
  <2> SUFFICES ASSUME NEW j \in DOMAIN planned
               PROVE  planned[j].text = AfterTextEdits(planned[j].path)
    OBVIOUS
  <2>1. PICK i \in 1..Len(edit.files) : planned[j].path = edit.files[i].path
                                       /\ planned[j].text = Meant(edit.files[i])
    BY <1>2 DEF PlanningInv
  <2> QED
    BY <1>3, <2>1
<1> QED
  BY <1>4, <1>5 DEF WritingInv, TextsInv

LEMMA WriteKeepsExact ==
  ASSUME TypeInv, WritingInv, Write
  PROVE  WritingInv'
<1>1. /\ planned # <<>> /\ disk' = [disk EXCEPT ![Head(planned).path] = Head(planned).text]
      /\ planned' = Tail(planned) /\ edit' = edit /\ original' = original
  BY DEF Write
<1>2. /\ disk \in [Paths -> MaybeText] /\ Head(planned).path \in Paths
      /\ DOMAIN planned = 1..Len(planned) /\ Len(planned) \in Nat /\ Len(planned) > 0
      /\ Head(planned) = planned[1]
      /\ DOMAIN planned' = 1..(Len(planned) - 1)
      /\ \A j \in 1..(Len(planned) - 1) : planned'[j] = planned[j + 1]
  <2>1. disk \in [Paths -> MaybeText]
    BY DEF TypeInv, TypeOK, MaybeText
  <2>2. DOMAIN Tail(planned) = 1..Len(Tail(planned))
    BY <1>1, PlannedParts
  <2> QED
    BY <1>1, <2>1, <2>2, PlannedParts
<1>3. \A j \in DOMAIN planned' : j + 1 \in DOMAIN planned /\ planned'[j] = planned[j + 1]
  BY <1>2
<1>4. \A j \in DOMAIN planned : j = 1 \/ (j - 1 \in DOMAIN planned' /\ planned'[j - 1] = planned[j])
  BY <1>2
<1>6. TextsInv'
  BY <1>1, SameMeaning DEF WritingInv
<1>7. \A j \in DOMAIN planned' : planned'[j].text = AfterTextEdits(planned'[j].path)
  BY <1>3 DEF WritingInv
<1>8. ASSUME NEW p \in Paths
      PROVE  \/ disk'[p] = AfterTextEdits(p)
             \/ \E j \in DOMAIN planned' : planned'[j].path = p
  <2>1. CASE p = Head(planned).path
    BY <1>1, <1>2, <2>1 DEF WritingInv
  <2>2. CASE p # Head(planned).path
    <3>1. disk'[p] = disk[p]
      BY <1>1, <1>2, <2>2
    <3>2. CASE disk[p] = AfterTextEdits(p)
      BY <3>1, <3>2
    <3>3. CASE \E j \in DOMAIN planned : planned[j].path = p
      <4>1. PICK j \in DOMAIN planned : planned[j].path = p
        BY <3>3
      <4>2. j # 1
        BY <1>2, <2>2, <4>1
      <4> QED
        BY <1>4, <4>1, <4>2
    <3> QED
      BY <3>2, <3>3 DEF WritingInv
  <2> QED
    BY <2>1, <2>2
<1> QED
  BY <1>1, <1>6, <1>7, <1>8 DEF WritingInv, AfterTextEdits, Rewritten

LEMMA WritesAreDone ==
  ASSUME TypeInv, WritingInv, planned = <<>>
  PROVE  TextsInv /\ \A p \in Paths : disk[p] = HeldAfter(0, p)
<1>1. EditType /\ TextsInv
  BY DEF TypeInv, WritingInv
<1>2. \A p \in Paths : disk[p] = AfterTextEdits(p)
  BY DEF WritingInv
<1> QED
  BY <1>1, <1>2, HeldAtFirst

LEMMA OpKeepsExact ==
  ASSUME TypeInv, MovingInv, ApplyOp
  PROVE  step' = "failed" \/ (step' = "moving" /\ MovingInv')
<1> DEFINE o == edit.ops[next]
<1>1. /\ EditType /\ TextsInv /\ disk \in [Paths -> MaybeText]
      /\ Len(edit.ops) \in Nat /\ next \in 1..Len(edit.ops)
      /\ edit' = edit /\ original' = original /\ step = "moving"
  BY EditParts DEF TypeInv, TypeOK, MaybeText, MovingInv, ApplyOp
<1>2. o \in Op /\ o.path \in Paths /\ (o.op = "rename" => o.to \in Paths)
  BY <1>1, EditParts, OpParts
<1>3. CASE o.op = "rename" /\ ~Exists(o.path)
  BY <1>3 DEF ApplyOp, Fail
<1>4. CASE ~(o.op = "rename" /\ ~Exists(o.path))
  <2>1. /\ next' = next + 1 /\ UNCHANGED <<step, planned>>
        /\ \/ o.op = "create" /\ create(o.path)
           \/ o.op = "delete" /\ delete(o.path)
           \/ o.op = "rename" /\ rename(o.path, o.to)
    BY <1>4 DEF ApplyOp
  <2>2. \A p \in Paths : disk[p] = HeldAfter(next - 1, p)
    BY DEF MovingInv
  <2>3. ASSUME NEW p \in Paths PROVE disk'[p] = HeldAfter(next, p)
    <3>1. PICK x \in Op : x = edit.ops[next]
      BY <1>2
    <3>2. /\ x.op = "delete" =>
               HeldAfter(next, p) = IF p = x.path THEN NoText ELSE HeldAfter(next - 1, p)
          /\ x.op = "create" =>
               HeldAfter(next, p) = IF p = x.path /\ HeldAfter(next - 1, p) = NoText THEN <<>>
                                    ELSE HeldAfter(next - 1, p)
          /\ x.op = "rename" =>
               HeldAfter(next, p) = IF p = x.to THEN HeldAfter(next - 1, x.path)
                                    ELSE IF p = x.path THEN NoText ELSE HeldAfter(next - 1, p)
      BY <1>1, <3>1, HeldNext
    <3>3. CASE x.op = "create" /\ create(x.path)
      BY <1>1, <1>2, <2>2, <3>1, <3>2, <3>3 DEF create, Exists
    <3>4. CASE x.op = "delete" /\ delete(x.path)
      BY <1>1, <1>2, <2>2, <3>1, <3>2, <3>4 DEF delete
    <3>5. CASE x.op = "rename" /\ rename(x.path, x.to)
      BY <1>1, <1>2, <2>2, <3>1, <3>2, <3>5 DEF rename
    <3> QED
      BY <2>1, <3>1, <3>3, <3>4, <3>5
  <2>4. next' \in 1..(Len(edit.ops) + 1) /\ next' - 1 = next
    BY <1>1, <2>1
  <2>5. Origin' = Origin
    BY <1>1, SameMeaning
  <2>6. TextsInv'
    BY <1>1, SameMeaning
  <2>7. \A p \in Paths : disk'[p] = HeldAfter(next' - 1, p)
    BY <2>3, <2>4
  <2>8. MovingInv'
    BY <1>1, <2>4, <2>5, <2>6, <2>7 DEF MovingInv, HeldAfter, AfterTextEdits, Rewritten
  <2> QED
    BY <1>1, <2>1, <2>8
<1> QED
  BY <1>3, <1>4

(* Each step keeps what the files hold exact, until somebody else saves one.*)
LEMMA ExactIsKept == TypeInv /\ ExactInv /\ [Next]_vars => ExactInv'
<1> SUFFICES ASSUME TypeInv, ExactInv, [Next]_vars, meddled' = <<>> PROVE ExactInv'
  BY DEF ExactInv
<1>1. EditType /\ meddled \in Seq(Paths)
  BY DEF TypeInv, TypeOK
<1>2. meddled = <<>> /\ ~Outside
  <2>1. ASSUME Outside PROVE FALSE
    <3>1. PICK p \in Paths : meddled' = Append(meddled, p)
      BY <2>1 DEF Outside
    <3>2. Len(Append(meddled, p)) = Len(meddled) + 1 /\ Len(meddled) \in Nat
      BY <1>1, AppendProperties
    <3> QED
      BY <3>1, <3>2
  <2>2. meddled' = meddled
    BY <2>1 DEF Next, vars, Plan, PlanDone, Write, WriteFails, WriteDone, ApplyOp, OpFails, OpsDone,
           Finished
  <2> QED
    BY <2>1, <2>2
<1>3. /\ step = "planning" => PlanningInv
      /\ step = "writing" => WritingInv
      /\ step = "moving" => MovingInv
      /\ step = "ok" => \A p \in Paths : disk[p] = Wanted(p)
  BY <1>2 DEF ExactInv
<1> SUFFICES /\ step' = "planning" => PlanningInv'
             /\ step' = "writing" => WritingInv'
             /\ step' = "moving" => MovingInv'
             /\ step' = "ok" => \A p \in Paths : disk'[p] = Wanted(p)'
  BY DEF ExactInv
<1>4. CASE UNCHANGED vars \/ Finished
  <2>1. UNCHANGED vars
    BY <1>4 DEF Finished
  <2>2. /\ PlanningInv' <=> PlanningInv
        /\ WritingInv' <=> WritingInv
        /\ MovingInv' <=> MovingInv
        /\ \A p : Wanted(p)' = Wanted(p)
    <3>1. /\ disk' = disk /\ edit' = edit /\ original' = original
          /\ next' = next /\ planned' = planned
      BY <2>1 DEF vars
    <3>2. Origin' = Origin /\ (TextsInv' <=> TextsInv)
      BY <3>1, SameMeaning
    <3>3. PlanningInv' <=> PlanningInv
      BY <3>1 DEF PlanningInv, Meant
    <3>4. WritingInv' <=> WritingInv
      BY <3>1, <3>2 DEF WritingInv, AfterTextEdits, Rewritten
    <3>5. MovingInv' <=> MovingInv
      BY <3>1, <3>2 DEF MovingInv, HeldAfter, AfterTextEdits, Rewritten
    <3>6. \A p : Wanted(p)' = Wanted(p)
      BY <3>1, <3>2 DEF Wanted, HeldAfter, AfterTextEdits, Rewritten
    <3> QED
      BY <3>3, <3>4, <3>5, <3>6
  <2> QED
    BY <1>3, <2>1, <2>2 DEF vars
<1>5. CASE Plan
  <2>1. step = "planning"
    BY <1>5 DEF Plan
  <2> QED
    BY <1>3, <1>5, <2>1, PlanKeepsExact
<1>6. CASE PlanDone
  <2>1. /\ step = "planning" /\ step' = "writing" /\ next > Len(edit.files)
        /\ disk' = disk /\ edit' = edit /\ original' = original /\ planned' = planned
    BY <1>6 DEF PlanDone
  <2>2. WritingInv
    BY <1>3, <2>1, PlannedIsWritable
  <2>3. TextsInv' <=> TextsInv
    BY <2>1, SameMeaning
  <2>4. WritingInv'
    BY <2>1, <2>2, <2>3 DEF WritingInv, AfterTextEdits, Rewritten
  <2> QED
    BY <2>1, <2>4
<1>7. CASE Write
  <2>1. step = "writing" /\ step' = step
    BY <1>7 DEF Write
  <2> QED
    BY <1>3, <1>7, <2>1, WriteKeepsExact
<1>8. CASE WriteFails \/ OpFails
  BY <1>8 DEF WriteFails, OpFails, Fail
<1>9. CASE WriteDone
  <2>1. /\ step = "writing" /\ planned = <<>> /\ step' = "moving" /\ next' = 1
        /\ disk' = disk /\ edit' = edit /\ original' = original
    BY <1>9 DEF WriteDone
  <2>2. TextsInv /\ \A p \in Paths : disk[p] = HeldAfter(0, p)
    BY <1>3, <2>1, WritesAreDone
  <2>3. Origin' = Origin /\ (TextsInv' <=> TextsInv)
    BY <2>1, SameMeaning
  <2>4. next' \in 1..(Len(edit.ops) + 1) /\ next' - 1 = 0
    BY <1>1, <2>1, EditParts
  <2>5. MovingInv'
    BY <2>1, <2>2, <2>3, <2>4 DEF MovingInv, HeldAfter, AfterTextEdits, Rewritten
  <2> QED
    BY <2>1, <2>5
<1>10. CASE ApplyOp
  <2>1. step = "moving"
    BY <1>10 DEF ApplyOp
  <2> QED
    BY <1>3, <1>10, <2>1, OpKeepsExact
<1>11. CASE OpsDone
  <2>1. /\ step = "moving" /\ step' = "ok" /\ next > Len(edit.ops)
        /\ disk' = disk /\ edit' = edit /\ original' = original
    BY <1>11 DEF OpsDone
  <2>2. MovingInv /\ next - 1 = Len(edit.ops)
    <3>1. Len(edit.ops) \in Nat
      BY <1>1, EditParts
    <3> QED
      BY <1>3, <2>1, <3>1 DEF MovingInv
  <2>3. \A p \in Paths : disk[p] = Wanted(p)
    BY <2>2 DEF MovingInv, Wanted
  <2>4. Origin' = Origin
    BY <2>1, SameMeaning
  <2>5. \A p \in Paths : disk'[p] = Wanted(p)'
    BY <2>1, <2>3, <2>4 DEF Wanted, HeldAfter, AfterTextEdits, Rewritten
  <2> QED
    BY <2>1, <2>5
<1> QED
  BY <1>2, <1>4, <1>5, <1>6, <1>7, <1>8, <1>9, <1>10, <1>11 DEF Next

(* An edit that is reported applied was applied exactly: every file has the *)
(* text its edits mean, wherever the operations moved it, and nothing else  *)
(* has changed, for every edit of any size and every tree.                  *)
THEOREM EditsAreAppliedExactly == Spec => []AppliedIsExact
<1>1. Init => ExactInv
  <2> SUFFICES ASSUME Init PROVE PlanningInv
    BY DEF ExactInv, Init
  <2>1. next = 1 /\ planned = <<>> /\ original = disk
    BY DEF Init
  <2>2. Len(edit.files) \in Nat
    BY ApplierStarts, EditParts DEF TypeInv
  <2>3. 1..(next - 1) = {} /\ DOMAIN planned = {} /\ next \in 1..(Len(edit.files) + 1)
    BY <2>1, <2>2
  <2> QED
    BY <2>1, <2>3 DEF PlanningInv
<1>2. Spec => []TypeInv
  BY ApplierStarts, ApplierKeepsTypes, PTL DEF Spec
<1>3. ExactInv => AppliedIsExact
  BY DEF ExactInv, AppliedIsExact
<1> QED
  BY <1>1, <1>2, <1>3, ExactIsKept, PTL DEF Spec
=============================================================================
