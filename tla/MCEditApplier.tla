---------------------------- MODULE MCEditApplier ----------------------------
(* Instances of EditApplier for TLC. *)
EXTENDS EditApplier

(* One file and up to two edits of it.                                     *)
Texts == {<<>>, <<"a">>, <<"wide", "a">>, <<"a", "nl">>, <<"a", "cr", "nl", "wide">>,
          <<"nl", "a", "wide">>, <<"a", "a", "a">>}

Positions == [line : 0..1, character : 0..3]
Ranges == {<<s, e>> \in Positions \X Positions :
             s.line < e.line \/ (s.line = e.line /\ s.character <= e.character)}

TextEdit(range, new) == [start |-> range[1], end |-> range[2], new |-> new]

EditLists == {<<TextEdit(r, <<"a", "nl">>)>> : r \in Ranges}
             \union {<<TextEdit(r, <<>>)>> : r \in Ranges}
             \union {<<TextEdit(r, <<"a">>), TextEdit(s, <<"wide">>)>> : r, s \in Ranges}

OneFile(text) == [p \in Paths |-> IF p = "p1" THEN text ELSE NoText]

TextCases ==
    {[disk |-> OneFile(text),
      edit |-> [encoding |-> encoding,
                files |-> <<[path |-> "p1", edits |-> edits]>>, ops |-> <<>>]] :
        text \in Texts, edits \in EditLists, encoding \in {"utf8", "utf16"}}

(* Several files, with an edit that fits each text, or a first one, and up *)
(* to two file operations.                                                 *)
Insertion(p, line) ==
    [path |-> p, edits |-> <<TextEdit(<<[line |-> line, character |-> 0],
                                        [line |-> line, character |-> 0]>>, <<"wide", "a">>)>>]

(* Text edits of two files and nothing else.                               *)
TwoFileCases ==
    {[disk |-> [p \in Paths |-> IF p = "p3" THEN NoText ELSE <<"a">>],
      edit |-> [encoding |-> "utf16", ops |-> <<>>,
                files |-> <<Insertion("p1", 0), Insertion("p2", line)>>]] : line \in 0..1}

FileCases ==
    {[disk |-> [p \in Paths |-> IF p \in present THEN <<"a">> ELSE NoText],
      edit |-> [encoding |-> "utf16", files |-> files, ops |-> ops]] :
        present \in {{"p1", "p2"}, Paths},
        files \in {<<>>, <<Insertion("p1", 0)>>, <<Insertion("p1", 0), Insertion("p2", 0)>>,
                   <<Insertion("p1", 0), Insertion("p2", 1)>>},
        ops \in {<<>>} \union {<<o>> : o \in Op} \union {<<o, q>> : o, q \in Op}}

MCCases == TextCases \union FileCases

MCOutsideTexts == {<<"nl">>, NoText}
=============================================================================
