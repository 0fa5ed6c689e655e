---------------------------- MODULE ToolArguments ----------------------------
(***************************************************************************)
(* Between the arguments of a tool call and an operation's request:        *)
(* crates/henka-server/src/ops.rs, without the merging of results.         *)
(*                                                                         *)
(* Arguments are a function from keys to JSON values, a value being a      *)
(* record with one field that names its type: str, int, bool, null, item.  *)
(* A string is a sequence.                                                 *)
(***************************************************************************)
EXTENDS Catalogue

CONSTANT U32Max     \* 2^32 - 1

ASSUME U32Assumption == U32Max \in Nat

ENVELOPE_KEYS ==
    {"project", "workspace", "file", "line", "character", "start_line", "start_character",
     "end_line", "end_character", "expect", "dry_run"}

Has(args, key, type) == key \in DOMAIN args /\ type \in DOMAIN args[key]

-----------------------------------------------------------------------------
(* The published schema.                                                   *)

TargetKeys ==
    [position  |-> {"file", "line", "character"},
     selection |-> {"file", "start_line", "start_character", "end_line", "end_character"},
     file      |-> {"file"},
     project   |-> {}]

(* Every property and the required ones.                                   *)
build_input_schema(d) ==
    [properties |-> {"project", "workspace"} \union TargetKeys[d.target] \union d.params
                    \union (IF d.target \in {"position", "selection"} THEN {"expect"} ELSE {})
                    \union (IF d.kind = "edit" THEN {"dry_run"} ELSE {}),
     required   |-> {"project"} \union TargetKeys[d.target] \union d.required]

(* A call as the schema wants it: integers are not negative.               *)
Coordinates == {"line", "character", "start_line", "start_character", "end_line", "end_character"}

MeetsSchema(args, d) ==
    /\ build_input_schema(d).required \subseteq DOMAIN args
    /\ \A k \in DOMAIN args \cap build_input_schema(d).properties :
        /\ k \in Coordinates => Has(args, k, "int") /\ args[k].int >= 0
        /\ k \in {"project", "workspace", "file", "expect"} => Has(args, k, "str")
        /\ k = "dry_run" => Has(args, k, "bool")

-----------------------------------------------------------------------------
(* The envelope.                                                           *)

(* An empty string is as good as none.                                     *)
workspace(args) == IF Has(args, "workspace", "str") THEN args.workspace.str ELSE <<>>

expect(args) == IF Has(args, "expect", "str") THEN args.expect.str ELSE <<>>

(* A preview unless the flag is there and is false.                        *)
dry_run(args) == Has(args, "dry_run", "bool") => args["dry_run"].bool

get_str(args, key) == args[key].str

IsU32(args, key) == Has(args, key, "int") /\ args[key].int \in 0..U32Max

CanParse(args, kind) ==
    \A k \in TargetKeys[kind] : IF k = "file" THEN Has(args, k, "str") ELSE IsU32(args, k)

Position(args, line, character) == [line |-> args[line].int, character |-> args[character].int]

NoPosition == [line |-> 0, character |-> 0]

(* A target: [kind, file, start, end], a position being its own end.       *)
parse_target(args, kind) ==
    [kind  |-> kind,
     file  |-> IF kind = "project" THEN NoFile ELSE get_str(args, "file"),
     start |-> CASE kind = "position"  -> Position(args, "line", "character")
                 [] kind = "selection" -> Position(args, "start_line", "start_character")
                 [] OTHER -> NoPosition,
     end   |-> CASE kind = "position"  -> Position(args, "line", "character")
                 [] kind = "selection" -> Position(args, "end_line", "end_character")
                 [] OTHER -> NoPosition]

(* Mutant: whatever has the name of a coordinate is taken away, and "name" *)
(* with it.                                                                *)
params_without_names(args) ==
    [k \in DOMAIN args \ (ENVELOPE_KEYS \union {"name", "new_name"}) |-> args[k]]

operation_params(args) == [k \in DOMAIN args \ ENVELOPE_KEYS |-> args[k]]
=============================================================================
