-------------------------- MODULE WorkingCopyService --------------------------
(***************************************************************************)
(* What the server promises its callers, with no index, no overlay and no  *)
(* lock: "The index serves speed, never correctness" (docs/SPEC.md, 13).   *)
(* A call is answered from one instant's contents of its working copy laid *)
(* over the base checkout; an edit is written to that working copy, and an *)
(* edit of the base rewrites only text it was computed from.               *)
(* RequestDispatch implements this (Service there).                        *)
(***************************************************************************)
EXTENDS Integers

CONSTANTS Files, Copies, Base, NoText, Requests

VARIABLES
    disk,    \* disk[c][f]: the text of file f in working copy c
    clock,   \* the last stamp used
    job,     \* job[r]: what call r asks for
    seen,    \* seen[r]: the texts r was answered from
    stage    \* stage[r]: how far call r has come

vars == <<disk, clock, job, seen, stage>>

Committed == <<Base, 0>>
Unseen    == [f \in Files |-> NoText]

(* Working copy c as it is presented: its changed files over the base.     *)
Presented(c) ==
    [f \in Files |-> IF disk[c][f] \notin {NoText, Committed}
                     THEN disk[c][f] ELSE disk[Base][f]]

Init ==
    /\ clock = 0
    /\ seen = [r \in Requests |-> Unseen]
    /\ stage = [r \in Requests |-> "idle"]

Call(r) ==
    /\ stage[r] = "idle"
    /\ stage' = [stage EXCEPT ![r] = "called"]
    /\ UNCHANGED <<disk, clock, seen>>

Answer(r) ==
    /\ stage[r] = "called"
    /\ stage' = [stage EXCEPT ![r] = "answered"]
    /\ seen' = [seen EXCEPT ![r] = Presented(job[r].copy)]
    /\ UNCHANGED <<disk, clock, job>>

(* The files W of the working copy are rewritten in one step.              *)
Apply(r) ==
    /\ stage[r] = "answered"
    /\ job[r].wants = "apply"
    /\ clock' = clock + 1
    /\ \E W \in SUBSET Files :
        /\ \A f \in W : disk[job[r].copy][f] # NoText
        /\ job[r].copy = Base => \A f \in W : disk[Base][f] = seen[r][f]
        /\ disk' = [disk EXCEPT ![job[r].copy] =
                     [f \in Files |-> IF f \in W THEN <<job[r].copy, clock + 1>>
                                      ELSE disk[job[r].copy][f]]]
    /\ \/ stage' = [stage EXCEPT ![r] = "applied"] /\ UNCHANGED <<seen, job>>
       \/ stage' = [stage EXCEPT ![r] = "idle"] /\ seen' = [seen EXCEPT ![r] = Unseen]

(* The call is over: answered, refused or applied.                         *)
Return(r) ==
    /\ stage[r] # "idle"
    /\ stage' = [stage EXCEPT ![r] = "idle"]
    /\ seen' = [seen EXCEPT ![r] = Unseen]
    /\ UNCHANGED <<disk, clock>>

(* Somebody changes a file of a working copy no call is being served from; *)
(* every call is served from the base.                                     *)
Outside(c) ==
    /\ \A r \in Requests : c \in {job[r].copy, Base} => stage[r] = "idle"
    /\ clock' = clock + 1
    /\ \E f \in Files, text \in {<<c, clock + 1>>, Committed, NoText} :
        disk' = [disk EXCEPT ![c][f] = text]
    /\ UNCHANGED <<job, seen, stage>>

Next ==
    \/ \E r \in Requests : Call(r) \/ Answer(r) \/ Apply(r) \/ Return(r)
    \/ \E c \in Copies : Outside(c)

Spec == Init /\ [][Next]_vars
=============================================================================
