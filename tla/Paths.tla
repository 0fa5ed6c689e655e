-------------------------------- MODULE Paths --------------------------------
(***************************************************************************)
(* Paths, and what Henka does with them without asking the file system:    *)
(* the path map (crates/henka-server/src/pathmap.rs) and the path functions*)
(* of edits (crates/henka-core/src/edit.rs, crates/henka-server/src/mcp.rs)*)
(*                                                                         *)
(* A path is the sequence of its components; an absolute one begins with   *)
(* Root.  A workspace edit is a record [files, ops] of sequences of text   *)
(* edits [path, edits] and of file operations [op, path, to].              *)
(***************************************************************************)
EXTENDS Integers, Sequences, SequencesExt, FiniteSetsExt

(* The members of a sequence that are in a set, in their order.            *)
Those(s, S) == FoldLeft(LAMBDA acc, e : IF e \in S THEN Append(acc, e) ELSE acc, <<>>, s)

Root == "/"

IsPath(p) == p \in Seq(STRING) /\ \A i \in 2..Len(p) : p[i] # Root

(* std::path.                                                              *)
IsAbsolute(p) == p # <<>> /\ Head(p) = Root

StartsWith(p, prefix) == IsPrefix(prefix, p)

StripPrefix(p, prefix) == SubSeq(p, Len(prefix) + 1, Len(p))

(* Joining an absolute path replaces what it is joined to.                 *)
Join(p, q) == IF IsAbsolute(q) THEN q ELSE p \o q

(* The directories a file lies in, the nearest first.                      *)
Ancestors(p) == [i \in 1..Max({Len(p) - 1, 0}) |-> SubSeq(p, 1, Len(p) - i)]

-----------------------------------------------------------------------------
(* PathMap: a sequence of records [host, container].                       *)

(* A specification is a sequence of entries; one without "=" (both is      *)
(* FALSE), or with an empty side, is ignored.                              *)
parse(spec) ==
    LET usable(e) == e.both /\ e.host # <<>> /\ e.container # <<>>
        kept      == Those(spec, {e \in ToSet(spec) : usable(e)})
    IN  [i \in DOMAIN kept |-> [host |-> kept[i].host, container |-> kept[i].container]]

container_prefixes(entries) == {entries[i].container : i \in DOMAIN entries}

(* The first of the entries whose prefix, on the side given, is the        *)
(* longest of those that match.                                            *)
Best(entries, side, p) ==
    LET matching == {i \in DOMAIN entries : StartsWith(p, entries[i][side])}
        longest  == Max({Len(entries[i][side]) : i \in matching})
    IN  entries[Min({i \in matching : Len(entries[i][side]) = longest})]

Matches(entries, side, p) == \E i \in DOMAIN entries : StartsWith(p, entries[i][side])

(* Mutant: the first entry that matches, not the longest.                  *)
map_first(entries, p) ==
    IF Matches(entries, "host", p)
    THEN LET e == entries[Min({i \in DOMAIN entries : StartsWith(p, entries[i].host)})]
         IN  Join(e.container, StripPrefix(p, e.host))
    ELSE p

map(entries, p) ==
    IF Matches(entries, "host", p)
    THEN LET e == Best(entries, "host", p)
         IN  Join(e.container, StripPrefix(p, e.host))
    ELSE p

NoPath == <<"none">>

reverse(entries, p) ==
    IF Matches(entries, "container", p)
    THEN LET e == Best(entries, "container", p)
         IN  Join(e.host, StripPrefix(p, e.container))
    ELSE NoPath

-----------------------------------------------------------------------------
(* The paths of a workspace edit.                                          *)

retarget_path(p, from, to) ==
    IF StartsWith(p, from) THEN Join(to, StripPrefix(p, from)) ELSE p

MapOp(o, F(_)) == IF o.op = "rename" THEN [o EXCEPT !.path = F(@), !.to = F(@)]
                  ELSE [o EXCEPT !.path = F(@)]

retarget(edit, from, to) ==
    LET moved(p) == retarget_path(p, from, to)
    IN  [files |-> [i \in DOMAIN edit.files |-> [edit.files[i] EXCEPT !.path = moved(@)]],
         ops   |-> [i \in DOMAIN edit.ops |-> MapOp(edit.ops[i], moved)]]

OpPaths(o) == {o.path} \union IF o.op = "rename" THEN {o.to} ELSE {}

EditPaths(edit) == {edit.files[i].path : i \in DOMAIN edit.files}
                   \union UNION {OpPaths(edit.ops[i]) : i \in DOMAIN edit.ops}

(* reject_edits_outside: relative paths are inside.                        *)
inside(p, workspace) == ~IsAbsolute(p) \/ StartsWith(p, workspace)

EditsOutside(edit, workspace) == \E p \in EditPaths(edit) : ~inside(p, workspace)

resolve_path(p, root) == IF IsAbsolute(p) THEN p ELSE Join(root, p)

relativize(p, root) ==
    LET abs == resolve_path(p, root)
    IN  IF StartsWith(abs, root) THEN StripPrefix(abs, root) ELSE abs
=============================================================================
