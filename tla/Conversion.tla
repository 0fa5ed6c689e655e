------------------------------ MODULE Conversion ------------------------------
(***************************************************************************)
(* From what a language server answers to what an operation returns:       *)
(* crates/henka-lsp/src/convert.rs.                                        *)
(*                                                                         *)
(* An answer is a record [type, value]: type is "error" (the request       *)
(* failed), "bad" (it does not have the shape asked for), "null" or "ok".  *)
(* A URI is a path as it is spelled in it.  A range is [start, end]; NoRange*)
(* and NoUri stand for a field that is absent.  An outcome is a record     *)
(* [kind |-> "error"], [kind |-> "edit", edit] or [kind |-> "query",       *)
(* value], the value as in QueryResults.                                   *)
(***************************************************************************)
EXTENDS QueryResults, TextPositions

CONSTANTS
    Spelling,           \* [last or inner name of a path or URI -> its characters]
    MaxTextChars,       \* MAX_TEXT_CHARS, 500
    MaxContextLines     \* MAX_CONTEXT_LINES, 10

NoUri   == <<>>
NoRange == [start |-> [line |-> -1, character |-> -1], end |-> [line |-> -1, character |-> -1]]

Failed     == [kind |-> "error"]
Edited(e)  == [kind |-> "edit", edit |-> e]
Queried(v) == [kind |-> "query", value |-> v]

NullAnswer == [type |-> "null"]

-----------------------------------------------------------------------------
(* URIs.                                                                   *)

Escaped == (" " :> <<"%", "2", "0">>) @@ ("#" :> <<"%", "2", "3">>) @@ ("?" :> <<"%", "3", "F">>)

path_to_file_uri(name) ==
    FlattenSeq([i \in DOMAIN name |->
        IF name[i] \in DOMAIN Escaped THEN Escaped[name[i]] ELSE <<name[i]>>])

(* A byte, as the character of that number: those of a name that is longer *)
(* in UTF-8 than one byte become characters of their own.                  *)
ByteChar ==
    (<<"2", "0">> :> " ") @@ (<<"2", "3">> :> "#") @@ (<<"3", "F">> :> "?")
    @@ (<<"4", "1">> :> "A") @@ (<<"C", "3">> :> "A tilde") @@ (<<"A", "9">> :> "copyright")

(* held is a percent sign and what was read after it.                      *)
Decode(chars) ==
    LET read(acc, c) ==
            IF acc.held = <<>>
            THEN IF c = "%" THEN [acc EXCEPT !.held = <<c>>] ELSE [acc EXCEPT !.out = Append(@, c)]
            ELSE IF Len(acc.held) = 1 THEN [acc EXCEPT !.held = Append(@, c)]
                 ELSE [out  |-> acc.out \o IF <<acc.held[2], c>> \in DOMAIN ByteChar
                                           THEN <<ByteChar[<<acc.held[2], c>>]>>
                                           ELSE Append(acc.held, c),
                       held |-> <<>>]
        end == FoldLeft(read, [out |-> <<>>, held |-> <<>>], chars)
    IN  end.out \o end.held

uri_to_path(uri) ==
    [i \in DOMAIN uri |-> CHOOSE n \in DOMAIN Spelling : Spelling[n] = Decode(Spelling[uri[i]])]

(* What stands before a query string or a fragment.                        *)
uri_path(uri) ==
    LET marks(i) == {k \in DOMAIN Spelling[uri[i]] : Spelling[uri[i]][k] \in {"?", "#"}}
        cut      == {i \in DOMAIN uri : marks(i) # {}}
        name(i)  == CHOOSE n \in DOMAIN Spelling :
                        Spelling[n] = SubSeq(Spelling[uri[i]], 1, Min(marks(i)) - 1)
    IN  IF cut = {} THEN uri ELSE Append(SubSeq(uri, 1, Min(cut) - 1), name(Min(cut)))

(* Mutant: the query string is part of the name.                           *)
route_by_whole_uri(params) ==
    IF ~Has(params, "item", "item") \/ params["item"].item.uri = NoUri THEN "unspecified"
    ELSE LET language == from_path(uri_to_path(params["item"].item.uri))
         IN  IF language = NoLanguage THEN "unplaceable" ELSE language

(* The language an item's URI names, when the parameters have an item.     *)
call_hierarchy_item_route(params) ==
    IF ~Has(params, "item", "item") \/ params["item"].item.uri = NoUri THEN "unspecified"
    ELSE LET language == from_path(uri_to_path(uri_path(params["item"].item.uri)))
         IN  IF language = NoLanguage THEN "unplaceable" ELSE language

route(id, params) ==
    IF id \in {"incoming-calls", "outgoing-calls"} THEN call_hierarchy_item_route(params)
    ELSE "unspecified"

-----------------------------------------------------------------------------
(* Edits: of a map from URIs, given as a sequence [uri, edits], and of     *)
(* document changes [kind |-> "edits", uri, edits] or [kind, uri, old, new].*)

EmptyEdit == [files |-> <<>>, ops |-> <<>>]

IsOperation(c) ==
    \/ c.kind \in {"create", "delete"} /\ c.uri # NoUri
    \/ c.kind = "rename" /\ c.old # NoUri /\ c.new # NoUri

resource_op(c) ==
    IF c.kind = "rename"
    THEN [op |-> "rename", path |-> uri_to_path(c.old), to |-> uri_to_path(c.new)]
    ELSE [op |-> c.kind, path |-> uri_to_path(c.uri)]

EditsOf(listed, uri) ==
    FlattenSeq([i \in DOMAIN listed |-> IF listed[i].uri = uri THEN listed[i].edits ELSE <<>>])

to_core_workspace_edit(answer) ==
    IF answer.type = "null" THEN Edited(EmptyEdit)
    ELSE IF answer.type # "ok" THEN Failed
    ELSE LET changes == answer.value.documentChanges
             listed  == answer.value.changes
                        \o Those(changes, {c \in ToSet(changes) : c.kind = "edits"})
             uris    == SetToSeq({listed[i].uri : i \in DOMAIN listed})
             others  == Those(changes, {c \in ToSet(changes) : IsOperation(c)})
         IN  Edited([files |-> [i \in DOMAIN uris |->
                                   [path |-> uri_to_path(uris[i]), edits |-> EditsOf(listed, uris[i])]],
                     ops   |-> [i \in DOMAIN others |-> resource_op(others[i])]])

-----------------------------------------------------------------------------
(* Quoting.  A source is a record [root, content_root, context_lines, disk].*)

source(root, content_root, lines, disk) ==
    [root |-> root, content_root |-> content_root, disk |-> disk,
     context_lines |-> Min({lines, MaxContextLines})]

rel(src, uri) ==
    relativize(uri_to_path(uri), src.root)

ReadFrom(src, uri) == retarget_path(uri_to_path(uri), src.root, src.content_root)

LinesAt(disk, path) == IF path \in DOMAIN disk THEN Lines(disk[path]) ELSE <<>>

content(src, uri) == LinesAt(src.disk, ReadFrom(src, uri))

truncate_lines(lines) ==
    [i \in DOMAIN lines |-> IF Len(lines[i]) <= MaxTextChars THEN lines[i]
                            ELSE Append(SubSeq(lines[i], 1, MaxTextChars), "...")]

LastLine(range) ==
    IF range.end.line > range.start.line /\ range.end.character = 0 THEN range.end.line - 1
    ELSE Max({range.start.line, range.end.line})

(* Lines are numbered from 0.  A file that cannot be read, or does not     *)
(* reach the range, adds nothing.                                          *)
Quoted(lines, first, last, around) ==
    LET from == Max({0, first - around})
        to   == Min({last + around, Len(lines) - 1})
    IN  IF first >= Len(lines) THEN <<>>
        ELSE ("text" :> truncate_lines(SubSeq(lines, first + 1, Min({last, Len(lines) - 1}) + 1)))
             @@ IF around = 0 THEN <<>>
                ELSE ("context" :> truncate_lines(SubSeq(lines, from + 1, to + 1)))
                     @@ ("context_start_line" :> from)

annotate(src, uri, range) ==
    Quoted(content(src, uri), range.start.line, LastLine(range), src.context_lines)

(* An entry of a list: where it is, and what is written there.             *)
Entry(src, uri, range) ==
    [file |-> rel(src, uri), start |-> range.start, end |-> range.end] @@ annotate(src, uri, range)

Listed(key, entries) ==
    Queried([k \in {"count", key} |-> IF k = "count" THEN [num |-> Len(entries)]
                                      ELSE [list |-> entries]])

-----------------------------------------------------------------------------
(* Queries.                                                                *)

Answered(answer, key, F(_)) ==
    CASE answer.type = "null" -> Listed(key, <<>>)
      [] answer.type = "ok"   -> Listed(key, FlattenSeq([i \in DOMAIN answer.value |-> F(answer.value[i])]))
      [] OTHER -> Failed

locations_to_query(answer, src) ==
    LET usage(l) == <<Entry(src, l.uri, l.range)>> IN Answered(answer, "usages", usage)

(* A target is a location or a link; the first of the fields that is there.*)
goto_to_query(answer, src, key) ==
    LET end(t) ==
            LET uri   == IF t.uri # NoUri THEN t.uri ELSE t.target_uri
                range == CASE t.range # NoRange -> t.range
                           [] t.range = NoRange /\ t.selection # NoRange -> t.selection
                           [] OTHER -> t.target_range
            IN  IF uri = NoUri \/ range = NoRange THEN <<>> ELSE <<Entry(src, uri, range)>>
    IN  Answered(answer, key, end)

(* Contents are a sequence of parts [fence, value]; blank ones are left out *)
(* where there are several.                                                *)
hover_to_query(answer) ==
    LET parts == answer.value.contents
        shown == IF Len(parts) = 1 THEN parts ELSE SelectSeq(parts, LAMBDA p : p.value # <<>>)
    IN  CASE answer.type = "null" -> Queried("text" :> [text |-> <<>>])
          [] answer.type = "ok"   ->
                Queried(("text" :> [text |-> shown])
                        @@ IF answer.value.range = NoRange THEN <<>>
                           ELSE "range" :> [at |-> answer.value.range])
          [] OTHER -> Failed

(* An outline is listed in preorder, each symbol with its depth: one whose *)
(* place is not told is left out with all that is beneath it.              *)
document_symbols_to_query(answer, src, uri) ==
    LET symbols == answer.value
        full(s)  == IF s.range # NoRange THEN s.range ELSE s.location
        above(i) == {j \in 1..i : \A k \in (j + 1)..i : symbols[j].depth < symbols[k].depth}
        kept     == SelectSeq([i \in DOMAIN symbols |-> i],
                              LAMBDA i : \A j \in above(i) : full(symbols[j]) # NoRange)
        entry(i) == LET s == symbols[i]
                        name == IF s.selection # NoRange THEN s.selection ELSE full(s)
                    IN  [depth |-> s.depth, start |-> name.start, end |-> name.end,
                         body |-> full(s)] @@ annotate(src, uri, name)
    IN  CASE answer.type = "null" -> Listed("symbols", <<>>)
          [] answer.type = "ok"   ->
                Queried(("count" :> [num |-> Len(SelectSeq(kept, LAMBDA i : symbols[i].depth = 0))])
                        @@ ("symbols" :> [list |-> [k \in DOMAIN kept |-> entry(kept[k])]]))
          [] OTHER -> Failed

(* A call hierarchy item, <<>> if it is not one.  The raw item travels with *)
(* what is read of it.                                                     *)
call_item(raw, src) ==
    IF ~raw.wellformed THEN <<>>
    ELSE <<[item |-> raw, body |-> raw.range] @@ Entry(src, raw.uri, raw.selection)>>

call_hierarchy_items_to_query(answer, src) ==
    LET item(raw) == call_item(raw, src) IN Answered(answer, "items", item)

call_sites(ranges, src, uri) == [i \in DOMAIN ranges |-> Entry(src, uri, ranges[i])]

(* sites_in has at most one URI: that of the item that was asked about.    *)
SitesUri(other, sites_in) == IF sites_in = <<>> THEN other.uri ELSE Head(sites_in)

calls_to_query(answer, src, sites_in) ==
    LET call(c) == [i \in DOMAIN call_item(c.other, src) |->
                        [other  |-> call_item(c.other, src)[i],
                         ranges |-> call_sites(c.ranges, src, SitesUri(c.other, sites_in))]]
    IN  Answered(answer, "calls", call)

incoming_calls_to_query(answer, src) == calls_to_query(answer, src, <<>>)

outgoing_calls_to_query(answer, src, called_from) ==
    calls_to_query(answer, src, <<called_from>>)

(* A symbol that has no range is dropped, one past the limit counted only. *)
symbols_to_query(answer, src, limit) ==
    LET matched == Those(answer.value, {s \in ToSet(answer.value) : s.range # NoRange})
        shown   == SubSeq(matched, 1, Min({limit, Len(matched)}))
        said    == IF Len(matched) > limit THEN {"truncated"} ELSE {}
    IN  CASE answer.type = "null" -> Listed("symbols", <<>>)
          [] answer.type = "ok"   ->
                Queried([k \in {"count", "symbols"} \union said |->
                    CASE k = "count"     -> [num |-> Len(matched)]
                      [] k = "symbols"   -> [list |-> [i \in DOMAIN shown |->
                                               Entry(src, shown[i].uri, shown[i].range)]]
                      [] k = "truncated" -> [flag |-> TRUE]])
          [] OTHER -> Failed
=============================================================================
