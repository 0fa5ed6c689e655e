---------------------------- MODULE QueryResults ----------------------------
(***************************************************************************)
(* The limit of an answer, and the merging of the answers of several       *)
(* languages: crates/henka-server/src/ops.rs.                              *)
(*                                                                         *)
(* An answer is a function from keys to JSON values: records with one      *)
(* field, list, num, flag or text.  No answer that is merged nests objects.*)
(***************************************************************************)
EXTENDS ToolArguments

NoLimit == -1

(* The caller's limit, NoLimit if it is no number, else the declared one.  *)
result_limit(params, d) ==
    IF "limit" \in DOMAIN params
    THEN IF Has(params, "limit", "int") /\ params["limit"].int >= 0
         THEN params["limit"].int ELSE NoLimit
    ELSE IF d.limit > 0 THEN d.limit ELSE NoLimit

(* What each operation makes of it.                                        *)
own_limit(params) ==
    IF Has(params, "limit", "int") /\ params["limit"].int >= 0
    THEN params["limit"].int ELSE DefaultLimit

-----------------------------------------------------------------------------
(* Mutant: of two counts the first is kept.                                *)
merge_first_count(left, right) ==
    IF DOMAIN left = {"list"} /\ DOMAIN right = {"list"} THEN [list |-> left.list \o right.list]
    ELSE IF DOMAIN left = {"flag"} /\ DOMAIN right = {"flag"}
         THEN [flag |-> left.flag \/ right.flag]
         ELSE left

merge_values(left, right) ==
    CASE DOMAIN left = {"list"} /\ DOMAIN right = {"list"} -> [list |-> left.list \o right.list]
      [] DOMAIN left = {"flag"} /\ DOMAIN right = {"flag"} -> [flag |-> left.flag \/ right.flag]
      [] DOMAIN left = {"num"} /\ DOMAIN right = {"num"}   -> [num |-> left.num + right.num]
      [] OTHER -> left

merge(left, right) ==
    [k \in DOMAIN left \union DOMAIN right |->
        IF k \notin DOMAIN left THEN right[k]
        ELSE IF k \notin DOMAIN right THEN left[k] ELSE merge_values(left[k], right[k])]

IsLong(value, limit) == DOMAIN value = {"list"} /\ Len(value.list) > limit

cap_lists(merged, limit) ==
    LET long == {k \in DOMAIN merged : IsLong(merged[k], limit)}
    IN  [k \in DOMAIN merged \union (IF long = {} THEN {} ELSE {"truncated"}) |->
            IF k = "truncated" /\ long # {} THEN [flag |-> TRUE]
            ELSE IF k \in long THEN [list |-> SubSeq(merged[k].list, 1, limit)]
                 ELSE merged[k]]

merge_query_results(results, limit) ==
    LET merged == IF results = <<>> THEN <<>> ELSE FoldLeft(merge, Head(results), Tail(results))
    IN  IF limit = NoLimit THEN merged ELSE cap_lists(merged, limit)
=============================================================================
