----------------------------- MODULE EditApplier -----------------------------
(***************************************************************************)
(* EditApplier::apply (crates/henka-core/src/edit.rs): a workspace edit of *)
(* text edits to several files and file operations, written to a working   *)
(* copy one file-system call at a time, while others may save files of     *)
(* that copy and calls may fail.                                           *)
(*                                                                         *)
(* An edit is a record of its encoding, its files (a sequence of           *)
(* [path, edits]) and its file operations.  The paths of its files are     *)
(* distinct, as the conversion from LSP groups them; and the ranges are    *)
(* well formed, as LSP requires.  A directory that is missing is created,  *)
(* so only files are modelled.                                             *)
(***************************************************************************)
EXTENDS TextPositions

CONSTANTS
    Paths,        \* files of a working copy
    NoText,       \* there is no such file
    Cases,        \* what is checked: records [disk, edit]
    OutsideTexts, \* what others may save in a file, NoText to delete it
    MaxOutside,   \* bound: how often they do
    Faults        \* what a call of the file system may do: "refused", it changes
                  \* nothing; "torn", a write empties its file and stops half way

VARIABLES
    disk,       \* disk[p]: the text of file p
    edit,       \* the workspace edit
    step,       \* how far apply has come; "refused" and "failed" are errors,
                \* before and after the first write
    next,       \* the index of the file or operation that is next
    planned,    \* the rewrites still to be written: [path, text]
    changed,    \* changed_files, the paths reported
    original,   \* the files as they were when apply was called
    meddled     \* files others touched since then, with each touch

vars == <<disk, edit, step, next, planned, changed, original, meddled>>

-----------------------------------------------------------------------------
Op == [op : {"create", "delete"}, path : Paths]
      \union [op : {"rename"}, path : Paths, to : Paths]

Outcomes == {"ok", "refused", "failed"}

(* What the conversion from LSP makes of a workspace edit, and a tree of    *)
(* texts.  "none" and "empty" are not names of files: see Origin.           *)
ASSUME CasesAssumption ==
    /\ NoText \notin Seq(Characters)
    /\ {"none", "empty"} \intersect Paths = {}
    /\ OutsideTexts \subseteq Seq(Characters) \union {NoText}
    /\ \A c \in Cases :
        /\ c.disk \in [Paths -> Seq(Characters) \union {NoText}]
        /\ c.edit.encoding \in Encodings
        /\ c.edit.files \in Seq([path : Paths, edits : Seq(TextEdits)])
        /\ \A i, j \in DOMAIN c.edit.files :
             c.edit.files[i].path = c.edit.files[j].path => i = j
        /\ c.edit.ops \in Seq(Op)

Exists(p) == disk[p] # NoText

Init ==
    /\ \E c \in Cases : disk = c.disk /\ edit = c.edit
    /\ step = "planning"
    /\ next = 1
    /\ planned = <<>>
    /\ changed = <<>>
    /\ original = disk
    /\ meddled = <<>>

Fail(how) ==
    /\ step' = how
    /\ UNCHANGED <<disk, next, planned, changed>>

(* Mutant: each file is written as soon as it is computed.                 *)
plan_and_write ==
    /\ step = "planning"
    /\ next <= Len(edit.files)
    /\ LET file == edit.files[next]
           text == disk[file.path]
       IN  IF Exists(file.path) /\ CanRewrite(text, file.edits, edit.encoding)
           THEN /\ disk' = [disk EXCEPT ![file.path] =
                             rewrite_file(text, file.edits, edit.encoding)]
                /\ next' = next + 1
                /\ UNCHANGED <<planned, step, changed>>
           ELSE Fail("refused")
    /\ UNCHANGED <<edit, original, meddled>>

(* Every rewrite is computed before any is written.                        *)
Plan ==
    /\ step = "planning"
    /\ next <= Len(edit.files)
    /\ LET file == edit.files[next]
           text == disk[file.path]
       IN  IF Exists(file.path) /\ CanRewrite(text, file.edits, edit.encoding)
           THEN /\ LET updated == rewrite_file(text, file.edits, edit.encoding)
                   IN  planned' = IF updated = text THEN planned
                                  ELSE Append(planned, [path |-> file.path, text |-> updated])
                /\ next' = next + 1
                /\ UNCHANGED <<disk, step, changed>>
           ELSE Fail("refused")
    /\ UNCHANGED <<edit, original, meddled>>

PlanDone ==
    /\ step = "planning"
    /\ next > Len(edit.files)
    /\ step' = "writing"
    /\ UNCHANGED <<disk, edit, next, planned, changed, original, meddled>>

Write ==
    /\ step = "writing"
    /\ planned # <<>>
    /\ disk' = [disk EXCEPT ![Head(planned).path] = Head(planned).text]
    /\ changed' = Append(changed, Head(planned).path)
    /\ planned' = Tail(planned)
    /\ UNCHANGED <<edit, step, next, original, meddled>>

(* The file could not be opened, or it was, which empties it, and not      *)
(* written to its end.                                                     *)
WriteFails ==
    /\ step = "writing"
    /\ planned # <<>>
    /\ \/ "refused" \in Faults /\ UNCHANGED disk
       \/ /\ "torn" \in Faults
          /\ \E written \in 0..(Len(Head(planned).text) - 1) :
                disk' = [disk EXCEPT ![Head(planned).path] = SubSeq(Head(planned).text, 1, written)]
    /\ step' = "failed"
    /\ UNCHANGED <<edit, next, planned, changed, original, meddled>>

(* Mutant: the file operations are counted from zero.                      *)
write_done_from_zero ==
    /\ step = "writing"
    /\ planned = <<>>
    /\ step' = "moving"
    /\ next' = 0
    /\ UNCHANGED <<disk, edit, planned, changed, original, meddled>>

WriteDone ==
    /\ step = "writing"
    /\ planned = <<>>
    /\ step' = "moving"
    /\ next' = 1
    /\ UNCHANGED <<disk, edit, planned, changed, original, meddled>>

-----------------------------------------------------------------------------
(* A file that is there already is kept, and reported.                     *)
create(p) ==
    /\ disk' = IF Exists(p) THEN disk ELSE [disk EXCEPT ![p] = <<>>]
    /\ changed' = Append(changed, p)

delete(p) ==
    /\ disk' = [disk EXCEPT ![p] = NoText]
    /\ changed' = Append(changed, p)

(* Mutant: the old file is reported in place of the new one.               *)
report_old(from, to) ==
    /\ disk' = [p \in Paths |-> IF p = to THEN disk[from]
                               ELSE IF p = from THEN NoText ELSE disk[p]]
    /\ changed' = Append(changed, from)

(* A file in the way is replaced; only the new path is reported.           *)
rename(from, to) ==
    /\ disk' = [p \in Paths |-> IF p = to THEN disk[from]
                               ELSE IF p = from THEN NoText ELSE disk[p]]
    /\ changed' = Append(changed, to)

ApplyOp ==
    /\ step = "moving"
    /\ next <= Len(edit.ops)
    /\ LET o == edit.ops[next]
       IN  IF o.op = "rename" /\ ~Exists(o.path)
           THEN Fail("failed")
           ELSE /\ \/ o.op = "create" /\ create(o.path)
                   \/ o.op = "delete" /\ delete(o.path)
                   \/ o.op = "rename" /\ rename(o.path, o.to)
                /\ next' = next + 1
                /\ UNCHANGED <<step, planned>>
    /\ UNCHANGED <<edit, original, meddled>>

OpFails ==
    /\ "refused" \in Faults
    /\ step = "moving"
    /\ next <= Len(edit.ops)
    /\ Fail("failed")
    /\ UNCHANGED <<edit, original, meddled>>

OpsDone ==
    /\ step = "moving"
    /\ next > Len(edit.ops)
    /\ step' = "ok"
    /\ UNCHANGED <<disk, edit, next, planned, changed, original, meddled>>

(* Somebody saves or deletes a file of the working copy.                   *)
Outside ==
    /\ step \notin Outcomes
    /\ Len(meddled) < MaxOutside
    /\ \E p \in Paths, text \in OutsideTexts :
        /\ disk' = [disk EXCEPT ![p] = text]
        /\ meddled' = Append(meddled, p)
    /\ UNCHANGED <<edit, step, next, planned, changed, original>>

Finished ==
    /\ step \in Outcomes
    /\ UNCHANGED vars

Next ==
    \/ Plan \/ PlanDone
    \/ Write \/ WriteFails \/ WriteDone
    \/ ApplyOp \/ OpFails \/ OpsDone
    \/ Outside \/ Finished

Spec == Init /\ [][Next]_vars

-----------------------------------------------------------------------------
TypeOK ==
    /\ disk \in [Paths -> Seq(Characters) \union {NoText}]
    /\ step \in {"planning", "writing", "moving"} \union Outcomes
    /\ next \in 1..(1 + Max({Len(edit.files), Len(edit.ops)}))
    /\ planned \in Seq([path : Paths, text : Seq(Characters)])
    /\ changed \in Seq(Paths)
    /\ meddled \in Seq(Paths)

Rewritten(p) == \E i \in DOMAIN edit.files : edit.files[i].path = p

(* The text file p ends the rewriting with.                                *)
AfterTextEdits(p) ==
    IF Rewritten(p)
    THEN LET file == CHOOSE f \in ToSet(edit.files) : f.path = p
         IN  Intended(original[p], file.edits, edit.encoding)
    ELSE original[p]

(* Which file's contents path p holds after the first n operations, traced *)
(* back from the last of them: a path, "none" or "empty".                  *)
Origin[n \in 0..Len(edit.ops)] ==
    IF n = 0
    THEN [p \in Paths |-> IF original[p] = NoText THEN "none" ELSE p]
    ELSE LET o      == edit.ops[n]
             before == Origin[n - 1]
         IN  [p \in Paths |->
                 CASE o.op = "delete" /\ o.path = p -> "none"
                   [] o.op = "create" /\ o.path = p /\ before[p] = "none" -> "empty"
                   [] o.op = "rename" /\ o.to = p -> before[o.path]
                   [] o.op = "rename" /\ o.path = p /\ o.to # p -> "none"
                   [] OTHER -> before[p]]

(* What path p holds after the first n operations.                         *)
HeldAfter(n, p) ==
    LET from == Origin[n][p]
    IN  IF from = "none" THEN NoText
        ELSE IF from = "empty" THEN <<>> ELSE AfterTextEdits(from)

Wanted(p) == HeldAfter(Len(edit.ops), p)

(* An edit that is reported applied was applied exactly: every file has    *)
(* the text its edits give the original, wherever the operations moved it, *)
(* in whatever order the edits were listed.                                *)
AppliedIsExact ==
    step = "ok" /\ meddled = <<>> => \A p \in Paths : disk[p] = Wanted(p)

(* A position means a place on its own line, before the line's end,        *)
(* whatever its character and however characters are counted.              *)
PositionsKeepTheirLine ==
    \A f \in ToSet(edit.files) : \A e \in ToSet(f.edits), end \in {"start", "end"} :
        LET text == original[f.path]
            k    == resolve_offset(text, e[end], edit.encoding)
        IN  original[f.path] # NoText /\ k # NoOffset =>
                /\ Cardinality({i \in Newlines(text) : i <= k}) = e[end].line
                /\ ~(k > 0 /\ k < Len(text) /\ text[k] = "cr" /\ text[k + 1] = "nl")

(* "Compute every rewrite first so a failure leaves the tree untouched":   *)
(* an edit refused for what its text edits say has changed no file, nor    *)
(* has it as long as it may still be refused.                              *)
RefusedLeavesTree ==
    step \in {"planning", "refused"} =>
        \A p \in Paths : p \in ToSet(meddled) \/ disk[p] = original[p]

(* What the index is told of is all that changed: a file with another text *)
(* is reported, was moved away, or was touched by somebody else.           *)
ReportedIsComplete ==
    step = "ok" =>
        \A p \in Paths :
            \/ disk[p] = original[p]
            \/ p \in ToSet(changed) \union ToSet(meddled)
            \/ \E i \in DOMAIN edit.ops : edit.ops[i].op = "rename" /\ edit.ops[i].path = p

(* "An edit updates every affected file or fails cleanly.  It never does   *)
(* half the job" (docs/SPEC.md, 13; section 11 says "as far as possible"): *)
(* apply gives up at the first error and puts nothing back.                *)
NeverHalf ==
    step \in {"refused", "failed"} =>
        \A p \in Paths : p \in ToSet(meddled) \/ disk[p] = original[p]
=============================================================================
