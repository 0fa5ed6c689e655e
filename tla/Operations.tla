------------------------------ MODULE Operations ------------------------------
(***************************************************************************)
(* The operations of the three languages, each as the conversation it has  *)
(* with its server: operations.rs of the crates henka-lang-java,           *)
(* henka-lang-rust and henka-lang-ts.  Where they have one operation under *)
(* one id its code is the same, and Java's is cited.                       *)
(*                                                                         *)
(* A session is a record [provider, root, content_root, disk, view,        *)
(* indexes, answers, pushed]: the files, and as the server sees them;      *)
(* whether the first indexing succeeds; what the server answers to each    *)
(* method, and the edit it pushes while a command runs.                    *)
(* A request is [target, params].  An operation yields [asked, outcome],   *)
(* asked being the requests it sent, records [method, with].               *)
(***************************************************************************)
EXTENDS Conversion

Done(asked, outcome) == [asked |-> asked, outcome |-> outcome]

Refused == Done(<<>>, Failed)

(* A server's answer; a method nobody expects is an error.                 *)
Reply(session, method) ==
    IF method \in DOMAIN session.answers THEN session.answers[method] ELSE [type |-> "error"]

context_lines(params) ==
    IF Has(params, "context_lines", "int") /\ params["context_lines"].int >= 0
    THEN params["context_lines"].int ELSE 0

SourceOf(session, req) ==
    source(session.root, session.content_root, context_lines(req.params), session.disk)

uri_for(session, file) ==
    LET path == resolve_path(file, session.root)
    IN  [i \in DOMAIN path |->
            CHOOSE n \in DOMAIN Spelling : Spelling[n] = path_to_file_uri(Spelling[path[i]])]

CanOpen(session, file) ==
    session.indexes /\ resolve_path(file, session.root) \in DOMAIN session.view

(* Index, open the target, ask one question, convert the answer.           *)
Ask(session, req, method, with, outcome) ==
    IF ~CanOpen(session, req.target.file) THEN Refused
    ELSE Done(<<[method |-> method, with |-> with]>>, outcome)

-----------------------------------------------------------------------------
(* Edits with one answer, and the queries.                                 *)

rename(session, req) ==
    IF ~Has(req.params, "new_name", "str") \/ req.params["new_name"].str = <<>> THEN Refused
    ELSE Ask(session, req, "textDocument/rename", req.params["new_name"],
             to_core_workspace_edit(Reply(session, "textDocument/rename")))

symbol_search(session, req) ==
    LET method == "workspace/symbol"
    IN  IF ~Has(req.params, "query", "str") \/ ~session.indexes THEN Refused
        ELSE Done(<<[method |-> method, with |-> req.params["query"]]>>,
                  symbols_to_query(Reply(session, method), SourceOf(session, req),
                                   own_limit(req.params)))

goto_query(session, req, method, key) ==
    Ask(session, req, method, [pos |-> req.target.start],
        goto_to_query(Reply(session, method), SourceOf(session, req), key))

describe_symbol(session, req) ==
    Ask(session, req, "textDocument/hover", [pos |-> req.target.start],
        hover_to_query(Reply(session, "textDocument/hover")))

file_outline(session, req) ==
    Ask(session, req, "textDocument/documentSymbol", [file |-> req.target.file],
        document_symbols_to_query(Reply(session, "textDocument/documentSymbol"),
                                  SourceOf(session, req), uri_for(session, req.target.file)))

prepare_call_hierarchy(session, req) ==
    LET method == "textDocument/prepareCallHierarchy"
    IN  Ask(session, req, method, [pos |-> req.target.start],
            call_hierarchy_items_to_query(Reply(session, method), SourceOf(session, req)))

find_usages(session, req) ==
    LET declaration == Has(req.params, "include_declaration", "bool")
                       => req.params["include_declaration"].bool
    IN  Ask(session, req, "textDocument/references", [bool |-> declaration],
            locations_to_query(Reply(session, "textDocument/references"), SourceOf(session, req)))

call_hierarchy_item(params) == params["item"].item

(* A file that cannot be opened is asked about all the same.               *)
AskOfItem(session, req, method, outcome) ==
    IF ~Has(req.params, "item", "item") \/ ~session.indexes THEN Refused
    ELSE Done(<<[method |-> method, with |-> call_hierarchy_item(req.params)]>>, outcome)

incoming_calls(session, req) ==
    AskOfItem(session, req, "callHierarchy/incomingCalls",
              incoming_calls_to_query(Reply(session, "callHierarchy/incomingCalls"),
                                      SourceOf(session, req)))

outgoing_calls(session, req) ==
    AskOfItem(session, req, "callHierarchy/outgoingCalls",
              outgoing_calls_to_query(Reply(session, "callHierarchy/outgoingCalls"),
                                      SourceOf(session, req), req.params["item"].item.uri))

-----------------------------------------------------------------------------
(* Code actions: records [kind, title, edit, command].  A kind is a        *)
(* sequence of pieces, so that one starts with another as a sequence does; *)
(* a title is the set of the words in it, in lower case; edit is an answer *)
(* or absent, and so is command.                                           *)

Absent == [type |-> "absent"]
NoWord == "none"

Kind(pieces) == <<"refactor.">> \o pieces

JavaActions ==
    ("extract-variable" :> [kind |-> Kind(<<"extract.", "variable">>), word |-> NoWord])
    @@ ("extract-constant" :> [kind |-> Kind(<<"extract.", "constant">>), word |-> NoWord])
    @@ ("extract-field" :> [kind |-> Kind(<<"extract.", "field">>), word |-> NoWord])
    @@ ("extract-method" :> [kind |-> Kind(<<"extract.", "function">>), word |-> NoWord])
    @@ ("inline" :> [kind |-> Kind(<<"inline">>), word |-> "inline"])
    @@ ("organize-imports" :> [kind |-> <<"source.organizeImports">>, word |-> NoWord])

RustActions ==
    ("extract-variable" :> [kind |-> Kind(<<"extract">>), word |-> "variable"])
    @@ ("extract-constant" :> [kind |-> Kind(<<"extract">>), word |-> "constant"])
    @@ ("extract-function" :> [kind |-> Kind(<<"extract">>), word |-> "function"])
    @@ ("inline" :> [kind |-> Kind(<<"inline">>), word |-> NoWord])

TsActions ==
    ("extract-function" :> [kind |-> Kind(<<"extract.", "function">>), word |-> NoWord])
    @@ ("extract-constant" :> [kind |-> Kind(<<"extract.", "constant">>), word |-> NoWord])

range(target) ==
    IF target.kind = "file" THEN [start |-> NoPosition, end |-> NoPosition]
    ELSE [start |-> target.start, end |-> target.end]

Suits(a, want) == a.kind = want.kind /\ (want.word = NoWord \/ want.word \in a.title)

(* Mutant: any action of the kind will do.                                 *)
first_of_kind(actions, want) == SelectSeq(actions, LAMBDA a : a.kind = want.kind)

Suitable(actions, want) == {a \in ToSet(actions) : Suits(a, want)}

(* The suitable ones, those for a single occurrence first.                 *)
java_choices(actions, want) ==
    LET all == {a \in Suitable(actions, want) : "occurrence" \in a.title}
    IN  Those(actions, Suitable(actions, want) \ all) \o Those(actions, all)

rust_choices(actions, want) == Those(actions, Suitable(actions, want))

(* An action of a more specific kind will do.                              *)
ts_choices(actions, want) == Those(actions, {a \in ToSet(actions) : IsPrefix(want.kind, a.kind)})

NullIfAbsent(edit) == IF edit.type = "absent" THEN NullAnswer ELSE edit

Asking(session, req) == <<[method |-> "textDocument/codeAction", with |-> range(req.target)]>>

Resolving(chosen) == <<[method |-> "codeAction/resolve", with |-> chosen.title]>>

(* The edit of the action, or of what the server resolves it to.           *)
inline_or_resolved(session, req, chosen) ==
    LET resolved == Reply(session, "codeAction/resolve")
    IN  IF chosen.edit.type # "absent"
        THEN Done(Asking(session, req), to_core_workspace_edit(chosen.edit))
        ELSE Done(Asking(session, req) \o Resolving(chosen),
                  IF resolved.type = "error" THEN Failed
                  ELSE IF resolved.type # "ok" THEN Edited(EmptyEdit)
                       ELSE to_core_workspace_edit(NullIfAbsent(resolved.value.edit)))

(* A command may push its edit, or none in time.                           *)
execute_capturing_edit(session, command) ==
    IF command.type = "bad" \/ Reply(session, "workspace/executeCommand").type = "error" THEN Failed
    ELSE to_core_workspace_edit(session.pushed)

edit_or_command(session, req, chosen) ==
    LET lazy     == chosen.edit.type = "absent" /\ chosen.command.type = "absent"
        resolved == Reply(session, "codeAction/resolve")
        asked    == Asking(session, req) \o IF lazy THEN Resolving(chosen) ELSE <<>>
        finish(a) == IF a.edit.type \notin {"absent", "null"} THEN to_core_workspace_edit(a.edit)
                     ELSE IF a.command.type # "absent" THEN execute_capturing_edit(session, a.command)
                          ELSE Edited(EmptyEdit)
    IN  Done(asked, CASE ~lazy                      -> finish(chosen)
                      [] lazy /\ resolved.type = "ok"    -> finish(resolved.value)
                      [] lazy /\ resolved.type = "error" -> Failed
                      [] OTHER                      -> Edited(EmptyEdit))

action_choices(session, actions, want) ==
    CASE session.provider = "jdtls"         -> java_choices(actions, want)
      [] session.provider = "rust-analyzer" -> rust_choices(actions, want)
      [] session.provider = "tsserver"      -> ts_choices(actions, want)

code_action(session, req, want) ==
    LET answer  == Reply(session, "textDocument/codeAction")
        choices == IF answer.type = "ok" THEN action_choices(session, answer.value, want) ELSE <<>>
    IN  IF ~CanOpen(session, req.target.file) THEN Refused
        ELSE IF choices = <<>> THEN Done(Asking(session, req), Failed)
             ELSE IF session.provider = "tsserver"
                  THEN edit_or_command(session, req, Head(choices))
                  ELSE inline_or_resolved(session, req, Head(choices))

-----------------------------------------------------------------------------
(* Java's own: two commands of its bundle each.                            *)

NoIndex == -2      \* an original index that is absent or no integer

(* Mutant: a parameter without an index is taken for the first.            *)
parameters_from_first(provided) ==
    IF "list" \notin DOMAIN provided THEN <<>>
    ELSE [i \in DOMAIN provided.list |->
            [provided.list[i] EXCEPT !.original_index = IF @ = NoIndex THEN 0 ELSE @]]

(* What is no list is an empty one.                                        *)
normalize_parameters(provided) ==
    IF "list" \notin DOMAIN provided THEN <<>>
    ELSE [i \in DOMAIN provided.list |->
            [provided.list[i] EXCEPT !.original_index = IF @ = NoIndex THEN -1 ELSE @]]

OrCurrent(params, key, current) == IF key \in DOMAIN params THEN params[key] ELSE current

(* The signature that is asked for: what the caller omits stays as it is.  *)
Signature(params, info) ==
    [method      |-> info.method,
     delegate    |-> Has(params, "delegate", "bool") /\ params["delegate"].bool,
     name        |-> OrCurrent(params, "name", info.name),
     modifier    |-> OrCurrent(params, "modifier", info.modifier),
     return_type |-> OrCurrent(params, "return_type", info.return_type),
     parameters  |-> IF "parameters" \in DOMAIN params
                     THEN normalize_parameters(params["parameters"]) ELSE info.parameters]

(* An answer of a command that is not "error" may still tell of one.       *)
Told(answer) == answer.type = "ok" /\ answer.value.told

EditOf(answer) ==
    CASE answer.type = "error" \/ Told(answer) -> Failed
      [] answer.type = "ok" /\ ~Told(answer)   -> to_core_workspace_edit(NullIfAbsent(answer.value.edit))
      [] OTHER -> Edited(EmptyEdit)

change_signature(session, req) ==
    LET info == Reply(session, "henka.mcp.getChangeSignatureInfo")
        want == Signature(req.params, info.value)
        ask1 == <<[method |-> "henka.mcp.getChangeSignatureInfo", with |-> [pos |-> req.target.start]]>>
    IN  IF ~CanOpen(session, req.target.file) THEN Refused
        ELSE IF info.type # "ok" \/ Told(info) \/ ~info.value.has_method THEN Done(ask1, Failed)
             ELSE Done(Append(ask1, [method |-> "henka.mcp.getRefactorEdit", with |-> want]),
                       EditOf(Reply(session, "henka.mcp.getRefactorEdit")))

(* The destination a package names: the default one if the name is empty.  *)
Destinations(offered, package) ==
    SelectSeq(offered, LAMBDA d : IF package = <<>> THEN d.default ELSE d.name = package)

(* Mutant: a move that only updates references passes for one.             *)
any_move(outcome) == outcome

(* A move must relocate the file.                                          *)
relocation(outcome) ==
    IF outcome.kind = "edit" /\ outcome.edit.ops = <<>> THEN Failed ELSE outcome

move(session, req) ==
    LET offer   == Reply(session, "henka.mcp.getMoveDestinations")
        offered == IF offer.type = "ok" THEN offer.value.destinations ELSE <<>>
        chosen  == Destinations(offered, req.params["to_package"].str)
        ask1    == <<[method |-> "henka.mcp.getMoveDestinations", with |-> [file |-> req.target.file]]>>
    IN  IF ~CanOpen(session, req.target.file) \/ ~Has(req.params, "to_package", "str") THEN Refused
        ELSE IF offer.type = "error" \/ Told(offer) \/ chosen = <<>> THEN Done(ask1, Failed)
             ELSE Done(Append(ask1, [method |-> "henka.mcp.move", with |-> Head(chosen)]),
                       relocation(EditOf(Reply(session, "henka.mcp.move"))))

-----------------------------------------------------------------------------
Actions ==
    [jdtls |-> JavaActions, tsserver |-> TsActions] @@ ("rust-analyzer" :> RustActions)

(* Operation::run of the operation that a provider has under an id.        *)
run(id, session, req) ==
    CASE id = "rename"                 -> rename(session, req)
      [] id = "symbol-search"          -> symbol_search(session, req)
      [] id = "go-to-definition"       ->
            goto_query(session, req, "textDocument/definition", "definitions")
      [] id = "find-implementations"   ->
            goto_query(session, req, "textDocument/implementation", "implementations")
      [] id = "describe-symbol"        -> describe_symbol(session, req)
      [] id = "file-outline"           -> file_outline(session, req)
      [] id = "prepare-call-hierarchy" -> prepare_call_hierarchy(session, req)
      [] id = "incoming-calls"         -> incoming_calls(session, req)
      [] id = "outgoing-calls"         -> outgoing_calls(session, req)
      [] id = "find-usages"            -> find_usages(session, req)
      [] id = "change-signature"       -> change_signature(session, req)
      [] id = "move"                   -> move(session, req)
      [] OTHER -> code_action(session, req, Actions[session.provider][id])
=============================================================================
