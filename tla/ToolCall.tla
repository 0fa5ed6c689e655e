------------------------------- MODULE ToolCall -------------------------------
(***************************************************************************)
(* A caller's tool calls, from their arguments to their answers:           *)
(* dispatch_operation of crates/henka-server/src/mcp.rs with everything it *)
(* calls, and project_status and list_operations.                          *)
(*                                                                         *)
(* RequestDispatch has the other half of the system: many calls on one     *)
(* session, step by step.  Here one caller makes the calls of a script,    *)
(* one after the other, of operations of several languages on several      *)
(* working copies, while others may save files between any two steps.      *)
(*                                                                         *)
(* A site is a record [project, path_map, roots, starts, indexes, answers, *)
(* pushed, disk, saves]: the registered project [id, root, languages]; the *)
(* path map as it is given; for each provider the root of the session it   *)
(* has for the repository, whether it starts and indexes, and what its     *)
(* server answers; the files at the start, and what others may save.       *)
(* A script is a record [site, requests], a request [name, args].          *)
(***************************************************************************)
EXTENDS Operations, VersionControl

CONSTANTS
    Sites,      \* [name -> site]
    Scripts,    \* the scripts
    MaxSaves    \* how often others save a file

(* What JSON tags as a string or an integer is one; a list is of a         *)
(* signature's parameters, NoIndex standing for an index not given.        *)
ArgumentsOK(args) ==
    \A k \in DOMAIN args :
        /\ "str" \in DOMAIN args[k] => args[k].str \in Seq(STRING)
        /\ "int" \in DOMAIN args[k] => args[k].int \in Int
        /\ "list" \in DOMAIN args[k] =>
            \A i \in DOMAIN args[k].list : "original_index" \in DOMAIN args[k].list[i]

(* An answer that has the shape asked for, if it is to be a list.          *)
IsListOrNone(answer) == answer.type = "ok" => answer.value \in Seq(ToSet(answer.value))

(* One that has the shape of an edit names URIs.                           *)
Uris(change) ==
    CASE change.kind \in {"edits", "create", "delete"} -> {change.uri}
      [] change.kind = "rename"                        -> {change.old, change.new}

IsEditOrNone(answer) ==
    answer.type = "ok" =>
        /\ answer.value.changes \in Seq(ToSet(answer.value.changes))
        /\ answer.value.documentChanges \in Seq(ToSet(answer.value.documentChanges))
        /\ \A c \in ToSet(answer.value.changes) : c.uri \in Seq(STRING)
        /\ \A c \in ToSet(answer.value.documentChanges) :
            /\ c.kind \in {"edits", "create", "delete", "rename"}
            /\ \A u \in Uris(c) : u \in Seq(STRING)

(* What a server's answers have of edits.                                  *)
Okay(answers, methods) == {m \in DOMAIN answers \intersect methods : answers[m].type = "ok"}

Offered(answers) ==
    UNION {ToSet(answers[m].value) : m \in Okay(answers, {"textDocument/codeAction"})}

EditsIn(answers) ==
    {answers[m] : m \in Okay(answers, {"textDocument/rename"})}
    \union {a.edit : a \in Offered(answers)}
    \union {answers[m].value.edit : m \in Okay(answers, {"codeAction/resolve", "henka.mcp.move",
                                                         "henka.mcp.getRefactorEdit"})}

AnswersOK(answers) ==
    /\ IsListOrNone(answers["workspace/symbol"])
    /\ \A m \in Okay(answers, {"textDocument/codeAction"}) : IsListOrNone(answers[m])
    /\ \A e \in EditsIn(answers) : IsEditOrNone(e)

ASSUME SitesAssumption ==
    /\ MaxSaves \in Nat
    /\ \A n \in DOMAIN Sites :
        /\ IsPath(Sites[n].project.root)
        /\ Sites[n].project.languages \in Seq(ToSet(Languages))
        /\ Sites[n].path_map \in Seq([both : BOOLEAN, host : Seq(STRING), container : Seq(STRING)])
        /\ \A p \in Located : /\ IsPath(Sites[n].roots[p])
                              /\ AnswersOK(Sites[n].answers[p])
                              /\ IsEditOrNone(Sites[n].pushed[p])
        /\ IsFiniteSet(DOMAIN Sites[n].disk)
    /\ \A s \in Scripts :
        /\ s.site \in DOMAIN Sites
        /\ Len(s.requests) \in Nat \ {0} /\ DOMAIN s.requests = 1..Len(s.requests)
        /\ \A i \in DOMAIN s.requests : ArgumentsOK(s.requests[i].args)

VARIABLES
    script,     \* which of the scripts
    site,       \* where it takes place
    step,       \* which of its requests
    given,      \* its arguments
    pc,         \* where the call is
    disk,       \* [path -> text], by canonical paths
    ws,         \* the working copy the call acts on
    req,        \* the operation's descriptor, its target and its parameters
    left,       \* the languages still to serve it
    asked,      \* the providers that were asked
    sent,       \* what the servers were sent, in order
    view,       \* the files as the server at work sees them
    outcome,    \* what the operation returned
    queries,    \* the answers to merge
    reply,      \* what the caller got last
    saves       \* how often others have saved

call == <<script, site, step, given>>
work == <<ws, req, left, asked, sent, view, outcome, queries>>
vars == <<call, pc, disk, work, reply, saves>>

Request == script.requests[step]
Project == site.project

(* The arguments of a request: an item may be the n-th of the last answer. *)
ArgsOf(request) ==
    IF "item" \in DOMAIN request.args /\ "prepared" \in DOMAIN request.args["item"]
    THEN [request.args EXCEPT !["item"] =
             [item |-> reply.value["items"].list[request.args["item"].prepared].item]]
    ELSE request.args

-----------------------------------------------------------------------------
(* The files.                                                              *)

(* Every path that leads to a file, through a link or not.                 *)
Aliases(p) == {p} \union {l \o StripPrefix(p, World.link[l]) :
                            l \in {k \in DOMAIN World.link : StartsWith(p, World.link[k])}}

Seen == [p \in UNION {Aliases(q) : q \in DOMAIN disk} |-> disk[canonicalize(p)]]

Exists(p) == canonicalize(p) \in DOMAIN disk
Text(p)   == disk[canonicalize(p)]

(* The files of a working copy, without those of copies that lie in it.    *)
TextsBelow(root, inner) ==
    LET own == {p \in DOMAIN disk : StartsWith(p, root) /\ \A d \in inner : ~StartsWith(p, d)}
    IN  [f \in {StripPrefix(p, root) : p \in own} |-> disk[root \o f]]

TextsOf(dir) ==
    TextsBelow(canonicalize(dir), {d \in DOMAIN World.copies :
                                      StartsWith(d, canonicalize(dir)) /\ d # canonicalize(dir)})

delta(dir) == working_copy_delta(dir, TextsOf(dir))

-----------------------------------------------------------------------------
(* project_status and list_operations.                                     *)

Error == [kind |-> "error"]

Status(root, rev, print) ==
    [kind |-> "status", host_path |-> reverse(parse(site.path_map), root),
     rev |-> rev, repo_root |-> repo_identity(root).path,
     files  |-> IF rev = NoRev THEN {} ELSE print.files,
     digest |-> IF rev = NoRev THEN {} ELSE print.digest]

project_status(project) ==
    Status(project.root, detect_revision(project.root),
           working_copy_fingerprint(delta(project.root), TextsOf(project.root)))

Known(key) == Has(given, key, "str") /\ given[key].str = Project.id

Answer(r) ==
    /\ pc' = "answered"
    /\ reply' = r

ProjectStatus ==
    /\ pc = "called" /\ Request.name = "project_status"
    /\ Answer(IF Known("id") THEN project_status(Project) ELSE Error)
    /\ UNCHANGED <<call, disk, work, saves>>

ListOperations ==
    /\ pc = "called" /\ Request.name = "list_operations"
    /\ Answer(IF Known("project")
              THEN [kind |-> "operations", of |-> {d.id : d \in descriptors_for(Project)}]
              ELSE Error)
    /\ UNCHANGED <<call, disk, work, saves>>

-----------------------------------------------------------------------------
(* dispatch_operation, up to the first session.                            *)

Candidates == languages_for(Request.name, Project.languages)

remap_target_file(entries, target) ==
    IF IsAbsolute(target.file) THEN [target EXCEPT !.file = map(entries, @)] ELSE target

DescriptorOf == resolve(Request.name, Head(Candidates)).descriptor

Parse(d) ==
    IF ~CanParse(given, d.target) THEN Answer(Error) /\ UNCHANGED req
    ELSE /\ req' = [descriptor |-> d,
                    target     |-> remap_target_file(parse(site.path_map),
                                                     parse_target(given, d.target)),
                    params     |-> operation_params(given)]
         /\ pc' = "parsed"
         /\ UNCHANGED reply

ParseCall ==
    /\ pc = "called" /\ Request.name \notin {"project_status", "list_operations"}
    /\ IF ~Known("project") \/ Candidates = <<>> THEN Answer(Error) /\ UNCHANGED req
       ELSE Parse(DescriptorOf)
    /\ UNCHANGED <<call, disk, ws, left, asked, sent, view, outcome, queries, saves>>

Target == req.target
Params == req.params

(* The directories a file lies in, as it is named, that are working copies. *)
Marked(file) == {i \in DOMAIN Ancestors(file) : Marks(Ancestors(file)[i]) # {}}

(* Mutant: the outermost working copy, not the nearest.                    *)
outermost_copy_containing(file) ==
    IF Marked(file) = {} THEN NoPath ELSE Ancestors(file)[Max(Marked(file))]

working_copy_root_containing(file) ==
    IF Marked(file) = {} THEN NoPath ELSE Ancestors(file)[Min(Marked(file))]

resolve_workspace(args, file) ==
    IF workspace(args) # <<>> THEN map(parse(site.path_map), workspace(args))
    ELSE IF IsAbsolute(file) /\ working_copy_root_containing(file) # NoPath
         THEN working_copy_root_containing(file)
         ELSE Project.root

ensure_same_repo(dir, root) ==
    /\ repo_identity(dir) = repo_identity(root)
    /\ repo_identity(dir) = NoRepo => canonicalize(dir) = canonicalize(root)

(* The languages, and the working copy where edits land.                   *)
Direct(languages, root) ==
    IF languages = <<>> \/ ~ensure_same_repo(root, Project.root)
    THEN Answer(Error) /\ UNCHANGED <<ws, left>>
    ELSE ws' = root /\ left' = languages /\ pc' = "validate" /\ UNCHANGED reply

Dispatch ==
    /\ pc = "parsed"
    /\ Direct(dispatch_languages(Candidates, req.descriptor, Target.file,
                                 route(Request.name, Params)),
              resolve_workspace(given, Target.file))
    /\ UNCHANGED <<call, req, disk, asked, sent, view, outcome, queries, saves>>

(* An absolute file is read where it is, a relative one in the workspace.  *)
read_for_validation(file) == Join(ws, file)

FoundAt(target, text) ==
    IF target.kind = "position" THEN identifier_at(text, target.start, "utf16")
    ELSE text_in_range(text, [start |-> target.start, end |-> target.end], "utf16")

MeetsExpectation ==
    expect(given) = <<>> \/ Target.kind \in {"file", "project"}
    \/ /\ Exists(read_for_validation(Target.file))
       /\ FoundAt(Target, Text(read_for_validation(Target.file))) = expect(given)

ValidateExpectation ==
    /\ pc = "validate"
    /\ IF MeetsExpectation THEN pc' = "next" /\ UNCHANGED reply ELSE Answer(Error)
    /\ UNCHANGED <<call, disk, work, saves>>

-----------------------------------------------------------------------------
(* The languages, one after the other.                                     *)

Provider == Last(asked)
SessionRoot == site.roots[Provider]

(* Mutant: every language asks its provider.                               *)
never_asked(provider) == FALSE

WasAsked(provider) == provider \in ToSet(asked)

SkipLanguage ==
    /\ pc = "next" /\ left # <<>> /\ WasAsked(provider_of(Head(left)))
    /\ left' = Tail(left)
    /\ UNCHANGED <<call, pc, disk, ws, req, asked, sent, view, outcome, queries, reply, saves>>

(* The provider's session, or the error of a server that does not start.   *)
NextLanguage ==
    /\ pc = "next" /\ left # <<>> /\ ~WasAsked(provider_of(Head(left)))
    /\ left' = Tail(left)
    /\ asked' = Append(asked, provider_of(Head(left)))
    /\ IF provider_of(Head(left)) \in site.starts THEN pc' = "begin" /\ UNCHANGED reply
       ELSE Answer(Error)
    /\ UNCHANGED <<call, disk, ws, req, sent, view, outcome, queries, saves>>

(* Mutant: the working copy's own content is not shown to the server.      *)
overlay_nothing(root) == Seen

(* The session's checkout, with the changed files of another laid over it. *)
overlay_workspace(root) ==
    IF root = ws THEN Seen
    ELSE [p \in {Join(root, f) : f \in ToSet(delta(ws))} |->
             Text(Join(ws, StripPrefix(p, root)))] @@ Seen

(* The wait for the session ends.                                          *)
BeginRequest ==
    /\ pc = "begin"
    /\ view' = overlay_workspace(SessionRoot)
    /\ pc' = "run"
    /\ UNCHANGED <<call, disk, ws, req, left, asked, sent, outcome, queries, reply, saves>>

(* What a server renames: the identifier at the position, in its own view. *)
RenamedAt(uri, line, text, word) ==
    LET point(k) == [line |-> line,
                     character |-> Units(text, nth_line_start(text, line), k, "utf16")]
    IN  IF word[1] = word[2] THEN NullAnswer
        ELSE [type |-> "ok",
              value |-> [changes |-> <<[uri |-> uri,
                                        edits |-> <<[start |-> point(word[1]), end |-> point(word[2]),
                                                     new |-> Params["new_name"].str]>>]>>,
                         documentChanges |-> <<>>]]

Renamed(root) ==
    LET file == resolve_path(Target.file, root)
    IN  IF file \notin DOMAIN view \/ ~Has(Params, "new_name", "str") THEN NullAnswer
        ELSE RenamedAt(uri_for([root |-> root], file), Target.start.line, view[file],
                       WordAt(view[file], resolve_offset(view[file], Target.start, "utf16")))

(* A site's answers are fixed, but for a rename that is "computed".        *)
AnswersOf(provider) ==
    IF Request.name = "rename" /\ site.answers[provider]["textDocument/rename"].type = "computed"
    THEN [site.answers[provider] EXCEPT !["textDocument/rename"] = Renamed(SessionRoot)]
    ELSE site.answers[provider]


content_root == IF SessionRoot = ws THEN SessionRoot ELSE ws

Session ==
    [provider |-> Provider, root |-> SessionRoot, content_root |-> content_root, disk |-> Seen,
     view |-> view, indexes |-> Provider \in site.indexes, answers |-> AnswersOf(Provider),
     pushed |-> site.pushed[Provider]]

Ran == run(Request.name, Session, [target |-> Target, params |-> Params])

Took(ran) ==
    /\ sent' = sent \o ran.asked
    /\ outcome' = ran.outcome
    /\ CASE ran.outcome.kind = "error" -> Answer(Error) /\ UNCHANGED queries
         [] ran.outcome.kind = "query" ->
                pc' = "next" /\ queries' = Append(queries, ran.outcome.value) /\ UNCHANGED reply
         [] ran.outcome.kind = "edit"  -> pc' = "finish" /\ UNCHANGED <<queries, reply>>

RunOperation ==
    /\ pc = "run"
    /\ Took(Ran)
    /\ UNCHANGED <<call, disk, ws, req, left, asked, view, saves>>

Merge ==
    /\ pc = "next" /\ left = <<>>
    /\ Answer([kind |-> "result",
               value |-> merge_query_results(queries, result_limit(Params, req.descriptor))])
    /\ UNCHANGED <<call, disk, work, saves>>

-----------------------------------------------------------------------------
(* finish_edit.  How an edit lands step by step is EditApplier's.          *)

Landing == retarget(outcome.edit, SessionRoot, ws)

CanRewriteAll(edit) ==
    \A i \in DOMAIN edit.files :
        LET p == resolve_path(edit.files[i].path, ws)
        IN  Exists(p) /\ CanRewrite(Text(p), edit.files[i].edits, "utf16")

Rewritten(f) == rewrite_file(Text(resolve_path(f.path, ws)), f.edits, "utf16")

Changes(f) == Rewritten(f) # Text(resolve_path(f.path, ws))

file_op_diff(o) == relativize(IF o.op = "rename" THEN o.to ELSE o.path, ws)

(* Mutant: the operations are left out.                                    *)
preview_texts_only(edit) ==
    [i \in DOMAIN edit.files |-> [path |-> relativize(edit.files[i].path, ws),
                                  empty |-> ~Changes(edit.files[i])]]

(* A diff for each file, empty if nothing changes, and each operation.     *)
preview(edit) ==
    [i \in DOMAIN edit.files |-> [path |-> relativize(edit.files[i].path, ws),
                                  empty |-> ~Changes(edit.files[i])]]
    \o [i \in DOMAIN edit.ops |-> [path |-> file_op_diff(edit.ops[i]), empty |-> FALSE]]

(* The files and what was changed, or that an operation failed.            *)
Put(files, p, text) == [q \in DOMAIN files \union {p} |-> IF q = p THEN text ELSE files[q]]

Drop(files, p) == [q \in DOMAIN files \ {p} |-> files[q]]

LandsAt(p) == canonicalize(resolve_path(p, ws))

ApplyOp(acc, o) ==
    LET from == LandsAt(o.path)
        done(files) == [disk |-> files, ok |-> TRUE,
                        changed |-> Append(acc.changed, file_op_diff(o))]
    IN  CASE o.op = "create" -> done(IF from \in DOMAIN acc.disk THEN acc.disk
                                     ELSE Put(acc.disk, from, <<>>))
          [] o.op = "delete" -> done(Drop(acc.disk, from))
          [] o.op = "rename" ->
                IF from \in DOMAIN acc.disk
                THEN done(Put(Drop(acc.disk, from), LandsAt(o.to), acc.disk[from]))
                ELSE [acc EXCEPT !.ok = FALSE]

ApplyNext(acc, o) == IF acc.ok THEN ApplyOp(acc, o) ELSE acc

(* A file that is planned twice is written twice.                          *)
Written(planned) ==
    LET plans(p) == {i \in DOMAIN planned : LandsAt(planned[i].path) = p}
    IN  [p \in DOMAIN disk \union {LandsAt(planned[i].path) : i \in DOMAIN planned} |->
            IF plans(p) = {} THEN disk[p] ELSE Rewritten(planned[Max(plans(p))])]

apply(edit) ==
    LET planned == Those(edit.files, {f \in ToSet(edit.files) : Changes(f)})
    IN  FoldLeft(ApplyNext,
                 [disk |-> Written(planned), ok |-> TRUE,
                  changed |-> [i \in DOMAIN planned |-> relativize(planned[i].path, ws)]],
                 edit.ops)

(* What was written stays written when a later operation fails.            *)
Applied(done) ==
    /\ disk' = done.disk
    /\ Answer(IF done.ok THEN [kind |-> "applied", changed |-> done.changed] ELSE Error)

reject_edits_outside(edit) == EditsOutside(edit, ws)

Land(edit) ==
    IF reject_edits_outside(edit) \/ ~CanRewriteAll(edit) THEN Answer(Error) /\ UNCHANGED disk
    ELSE IF dry_run(given)
         THEN Answer([kind |-> "preview", files |-> preview(edit)]) /\ UNCHANGED disk
         ELSE Applied(apply(edit))

FinishEdit ==
    /\ pc = "finish"
    /\ Land(Landing)
    /\ UNCHANGED <<call, work, saves>>

-----------------------------------------------------------------------------
(* The caller's next request, and what others do.                          *)

NoRequest ==
    [descriptor |-> [id |-> "none"], params |-> <<>>,
     target |-> [kind |-> "project", file |-> NoFile, start |-> NoPosition, end |-> NoPosition]]

Fresh(n) ==
    /\ step' = n
    /\ given' = ArgsOf(script.requests[n])
    /\ pc' = "called"
    /\ ws' = NoPath
    /\ req' = NoRequest
    /\ left' = <<>>
    /\ asked' = <<>>
    /\ sent' = <<>>
    /\ view' = <<>>
    /\ outcome' = Failed
    /\ queries' = <<>>

(* A caller whose first request failed gives up.                           *)
NextRequest ==
    /\ pc = "answered" /\ step < Len(script.requests) /\ reply.kind # "error"
    /\ Fresh(step + 1)
    /\ UNCHANGED <<script, site, disk, reply, saves>>

(* Somebody saves a file of a working copy, or deletes it.                 *)
OthersSave ==
    /\ saves < MaxSaves
    /\ \E i \in DOMAIN site.saves :
        LET s == site.saves[i]
        IN  disk' = IF s.delete THEN Drop(disk, s.path) ELSE Put(disk, s.path, s.text)
    /\ saves' = saves + 1
    /\ UNCHANGED <<call, pc, work, reply>>

Init ==
    /\ script \in Scripts
    /\ site = Sites[script.site]
    /\ step = 1
    /\ given = script.requests[1].args
    /\ pc = "called"
    /\ disk = site.disk
    /\ ws = NoPath
    /\ req = NoRequest
    /\ left = <<>>
    /\ asked = <<>>
    /\ sent = <<>>
    /\ view = <<>>
    /\ outcome = Failed
    /\ queries = <<>>
    /\ reply = Error
    /\ saves = 0

CallSteps ==
    \/ ProjectStatus \/ ListOperations
    \/ ParseCall \/ Dispatch \/ ValidateExpectation
    \/ SkipLanguage \/ NextLanguage \/ BeginRequest \/ RunOperation
    \/ Merge \/ FinishEdit

Next == CallSteps \/ NextRequest \/ OthersSave

Spec == Init /\ [][Next]_vars

-----------------------------------------------------------------------------
(* What should hold.                                                       *)

(* Type invariant of the call and of what it has gathered.                 *)
TypeOK ==
    /\ step \in DOMAIN script.requests
    /\ pc \in {"called", "parsed", "validate", "next", "begin", "run", "finish", "answered"}
    /\ ToSet(left) \subseteq ToSet(Languages)
    /\ ToSet(asked) \subseteq Located /\ Len(asked) <= Cardinality(Located)
    /\ outcome.kind \in {"error", "edit", "query"}
    /\ reply.kind \in {"error", "status", "operations", "result", "preview", "applied"}
    /\ saves \in 0..MaxSaves

-----------------------------------------------------------------------------
(* Edits.                                                                  *)

Changed(before, after) ==
    {p \in DOMAIN before \union DOMAIN after :
        (p \in DOMAIN before) # (p \in DOMAIN after) \/ before[p] # after[p]}

Landed == pc = "finish" /\ pc' = "answered"

(* The copies a file lies in, but those into the middle of which it is     *)
(* named through a link.                                                   *)
CopiesAround(file) ==
    {d \in DOMAIN World.copies :
        /\ StartsWith(canonicalize(file), d) /\ d # canonicalize(file)
        /\ ~\E l \in DOMAIN World.link :
            /\ StartsWith(file, l)
            /\ StartsWith(World.link[l], d) /\ World.link[l] # d}

(* What a call writes lies in one working copy, or where a link in it      *)
(* leads: a copy of the project's own repository or the very root, the one *)
(* the caller names, else the nearest around the file it names absolutely. *)
(* Only a call that says so writes: finish_edit, resolve_workspace,        *)
(* ensure_same_repo, mcp.rs.                                               *)
EditsLandAsAsked ==
    [][Landed /\ disk' # disk =>
        /\ Has(given, "dry_run", "bool") /\ ~given["dry_run"].bool
        /\ \A p \in Changed(disk, disk') : \E q \in Aliases(p) : StartsWith(q, ws)
        /\ \/ canonicalize(ws) = canonicalize(Project.root)
           \/ repo_identity(ws) = repo_identity(Project.root) /\ repo_identity(ws) # NoRepo
        /\ workspace(given) = <<>> /\ IsAbsolute(Target.file) =>
            \A d \in CopiesAround(Target.file) : Len(d) <= Len(canonicalize(ws))
      ]_vars

(* The text that an edit of one place is about to replace.                 *)
Struck(f) == text_in_range(Text(resolve_path(f.path, ws)), f.edits[1], "utf16")

StrikesExpected ==
    /\ Head(Landing.files).path = Join(ws, Target.file)
    /\ Struck(Head(Landing.files)) = expect(given)

Expecting ==
    Landed /\ disk' # disk /\ expect(given) # <<>> /\ Request.name = "rename"

(* The server is shown the working copy's text of the file: it is the      *)
(* session's own checkout, or the overlay has the file, or the two have one *)
(* text of it.  And the file is named in that working copy.                *)
ShownToServer ==
    LET f == StripPrefix(Join(ws, Target.file), ws)
    IN  \/ SessionRoot = ws
        \/ f \in ToSet(delta(ws))
        \/ Exists(Join(SessionRoot, f)) /\ Text(Join(SessionRoot, f)) = Text(Join(ws, f))

PlainTarget == ShownToServer /\ (IsAbsolute(Target.file) => StartsWith(Target.file, ws))

(* A rename that is applied replaces, in the target itself, the identifier *)
(* that the caller expected there, when nobody saves a file meanwhile:     *)
(* validate_expectation, the overlay, the server's edit and retarget agree *)
(* on the file and on the position.  Excepted is a file of which the copy  *)
(* and the session's checkout have committed different texts, or that only *)
(* the latter has changed: the overlay has the copy's uncommitted changes  *)
(* and no others, see GuardHolds.                                          *)
ActsOnExpected == [][Expecting /\ saves = 0 /\ PlainTarget => StrikesExpected]_vars

(* "This is the guard against coordinate/revision drift" (comment of       *)
(* validate_expectation, mcp.rs): a rename that has passed it, and that    *)
(* nothing refuses any more, is about to strike what the caller expected   *)
(* in the file that was named in the working copy.                         *)
GuardHolds ==
    /\ pc = "finish" /\ Request.name = "rename" /\ expect(given) # <<>>
    /\ ~IsAbsolute(Target.file)
    /\ Landing.files # <<>> /\ ~reject_edits_outside(Landing) /\ CanRewriteAll(Landing)
    => StrikesExpected

(* Applying what was previewed changes the files whose diff was not empty, *)
(* when nobody saves a file in between: preview and apply, edit.rs.        *)
PreviewForetells ==
    [][pc = "finish" /\ reply.kind = "preview" /\ reply'.kind = "applied" /\ saves = 0 =>
        ToSet(reply'.changed) = {d.path : d \in {e \in ToSet(reply.files) : ~e.empty}}
      ]_vars

-----------------------------------------------------------------------------
(* Queries.                                                                *)

EntriesOf(answer) ==
    UNION {IF "list" \in DOMAIN answer[k]
           THEN UNION {LET e == answer[k].list[i]
                       IN  IF "other" \in DOMAIN e THEN {e.other} \union ToSet(e.ranges) ELSE {e} :
                       i \in DOMAIN answer[k].list}
           ELSE {} : k \in DOMAIN answer}


Found(provider) ==
    LET answer == site.answers[provider]["workspace/symbol"]
    IN  IF answer.type = "ok"
        THEN Cardinality({i \in DOMAIN answer.value : answer.value[i].range # NoRange}) ELSE 0

(* A symbol search of several languages tells how many symbols all their   *)
(* servers found, returns no more than the limit, and says so exactly when *)
(* it returns fewer than there are: merge_query_results, ops.rs.           *)
MergedIsHonest ==
    reply.kind = "result" /\ pc = "answered" /\ Request.name = "symbol-search" =>
        LET count == reply.value["count"].num
            shown == Len(reply.value["symbols"].list)
        IN  /\ count = MapThenSumSet(Found, ToSet(asked))
            /\ Has(given, "limit", "int") /\ given["limit"].int >= 0 => shown <= given["limit"].int
            /\ ("truncated" \in DOMAIN reply.value) <=> shown < count

LanguageOfName(name) ==
    LET l == {k \in ToSet(Languages) : Extension[name] \in Extensions[k]}
    IN  IF l = {} THEN NoLanguage ELSE CHOOSE k \in l : TRUE

(* A call on a file of a language is served by the provider of that        *)
(* language and no other; a search of the whole project by the provider of *)
(* every language it has, each asked once: dispatch_languages, mcp.rs.     *)
AnsweredByOwner ==
    pc \in {"run", "finish"} \/ (pc = "answered" /\ reply.kind = "result") =>
        /\ Len(asked) = Cardinality(ToSet(asked))
        /\ Target.file # NoFile /\ LanguageOfName(Last(Target.file)) # NoLanguage =>
            asked = <<provider_of(LanguageOfName(Last(Target.file)))>>
        /\ reply.kind = "result" /\ pc = "answered" /\ Request.name = "symbol-search" =>
            ToSet(asked) = {provider_of(l) : l \in ToSet(Project.languages)} \ {NoProvider}

(* An item of a call hierarchy comes back to the server that issued it,    *)
(* as it issued it: call_hierarchy_items_to_query and call_hierarchy_item_ *)
(* route, convert.rs, through a caller that passes it on unread.           *)
HandleReturnsToIssuer ==
    pc = "answered" /\ step > 1 /\ "item" \in DOMAIN given =>
        \E i \in DOMAIN sent :
            /\ sent[i].method \in {"callHierarchy/incomingCalls", "callHierarchy/outgoingCalls"}
            /\ sent[i].with \in ToSet(site.answers[Provider]["textDocument/prepareCallHierarchy"].value)

-----------------------------------------------------------------------------
(* Status.                                                                 *)

StatusOfProject ==
    pc = "answered" /\ reply.kind = "status" /\ saves = 0 /\ Marks(Project.root) # {}
    /\ CopyAt(Project.root).works

EditedFiles(copy, texts) == Modified(copy.head, texts) \union Untracked(copy.head, texts)

(* What git's and jj's output can tell of: git folds up a directory that   *)
(* has nothing tracked, and a line of jj does not end a name with a space. *)
Tellable(copy, f) ==
    IF ".jj" \in copy.marks THEN f \notin Targets(copy) \/ f \notin Spaced
    ELSE Collapsed(Tracked(copy), f) = f

Shown(files, texts) == {[path |-> f, oid |-> texts[f]] : f \in files}

(* A status has the content of every file that was edited, and of every    *)
(* new one beside a file under version control, whichever tool tells: what *)
(* the parsers of vcs.rs make of git's and jj's output loses none, unless  *)
(* git reports a copy and what was copied looks like a rename to them.     *)
StatusSeesEdits ==
    LET copy  == CopyAt(Project.root)
        texts == TextsOf(Project.root)
    IN  StatusOfProject
        /\ (\A m \in copy.moved : m.status = "C" => m.from \notin RenameLike) =>
            Shown({f \in EditedFiles(copy, texts) : Tellable(copy, f)}, texts) \subseteq reply.digest

(* The comment of the field dirty: "Whether the working copy has           *)
(* uncommitted changes against its base" (mcp.rs).                         *)
CleanMeansClean ==
    pc = "answered" /\ reply.kind = "status" /\ saves = 0 /\ reply.rev # NoRev /\ reply.files = {} =>
        TextsOf(Project.root) = CopyAt(Project.root).head

(* A mount of its own may lie where another mount would show a directory.  *)
Hidden(entries, dir) ==
    \E i, j \in DOMAIN entries :
        /\ StartsWith(entries[i].host, entries[j].host)
        /\ LET shown == Join(entries[j].container, StripPrefix(entries[i].host, entries[j].host))
           IN  shown # entries[i].container /\ StartsWith(dir, shown)

(* The path that a status shows leads a caller back to the same project,   *)
(* also where one mount lies within another, unless that one hides the     *)
(* project from the host: map and reverse, pathmap.rs.                     *)
HostPathLeadsBack ==
    LET entries == parse(site.path_map)
    IN  pc = "answered" /\ reply.kind = "status" /\ reply.host_path # NoPath
        /\ ~Hidden(entries, Project.root) =>
            map(entries, reply.host_path) = Project.root

-----------------------------------------------------------------------------
(* Arguments and operations.                                               *)

(* A call as the published schema wants it, with coordinates that fit in   *)
(* 32 bits, is read, and every parameter the operation declares reaches it:*)
(* build_input_schema, parse_target and operation_params, ops.rs.          *)
Honours(d) ==
    MeetsSchema(given, d) /\ (\A k \in DOMAIN given \cap Coordinates : given[k].int <= U32Max) =>
        /\ CanParse(given, d.target)
        /\ \A k \in DOMAIN given \cap d.params :
            k \in DOMAIN operation_params(given) /\ operation_params(given)[k] = given[k]

SchemaIsHonoured == pc = "called" /\ Candidates # <<>> => Honours(DescriptorOf)

(* The edit of a code action is that of an action of the kind, or one more *)
(* specific, that the operation stands for; where several refactorings     *)
(* have one kind, never a neighbour's, and never one for all occurrences   *)
(* where there is one for a single one: CodeActionOp::run of the languages.*)
ActionIsTheOneMeant ==
    pc = "finish" /\ Request.name \in DOMAIN Actions[Provider] /\ outcome.edit.files # <<>> =>
        LET want    == Actions[Provider][Request.name]
            offered == site.answers[Provider]["textDocument/codeAction"].value
            mine(a) == a.mark = Head(Head(outcome.edit.files).edits).new
        IN  \E i \in DOMAIN offered :
                /\ mine(offered[i])
                /\ IsPrefix(want.kind, offered[i].kind)
                /\ want.word # NoWord => want.word \in offered[i].title
                /\ Provider = "jdtls" /\ "occurrence" \in offered[i].title =>
                    \A j \in DOMAIN offered :
                        offered[j].kind = want.kind
                        /\ (want.word # NoWord => want.word \in offered[j].title)
                        => "occurrence" \in offered[j].title

(* A move that is applied leaves nothing where the file was, in the copy   *)
(* that was asked about: an answer that only rewrites references is refused*)
(* (MoveOp::run), and the relocation is retargeted with the text edits.    *)
MoveRelocates ==
    [][Landed /\ disk' # disk /\ reply'.kind = "applied" /\ Request.name = "move" =>
        canonicalize(Join(ws, Target.file)) \notin DOMAIN disk']_vars

(* A signature that is asked for keeps everything the caller leaves out,   *)
(* and takes no parameter for one of the old ones unless the caller gives  *)
(* its index: ChangeSignatureOp::run, normalize_parameters.                *)
SignatureKeepsTheRest ==
    Request.name = "change-signature" /\ Len(sent) = 2 =>
        LET info == site.answers["jdtls"]["henka.mcp.getChangeSignatureInfo"].value
            want == Last(sent).with
        IN  /\ \A k \in {"name", "modifier", "return_type", "parameters"} \ DOMAIN given :
                want[k] = info[k]
            /\ Has(given, "parameters", "list") =>
                \A i \in DOMAIN want.parameters :
                    given["parameters"].list[i].original_index = NoIndex =>
                        want.parameters[i].original_index < 0
=============================================================================
