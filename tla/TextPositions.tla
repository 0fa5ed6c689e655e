---------------------------- MODULE TextPositions ----------------------------
(***************************************************************************)
(* Positions in a file's text and the rewriting of one file: resolve_offset*)
(* and rewrite_file of crates/henka-core/src/edit.rs.                      *)
(*                                                                         *)
(* A text is a sequence of characters and an offset counts characters, not *)
(* bytes: every byte offset the code computes lies between two characters. *)
(* "wide" is a character outside the basic plane, four bytes in UTF-8 and  *)
(* two units in UTF-16.  NoOffset is the None of an out-of-range line.     *)
(***************************************************************************)
EXTENDS Integers, Sequences, SequencesExt, FiniteSetsExt

NoOffset == -1

Characters == {"a", "wide", "nl", "cr"}
Encodings  == {"utf8", "utf16", "utf32"}

encoded_len(ch, encoding) ==
    IF ch # "wide" THEN 1
    ELSE CASE encoding = "utf8"  -> 4
           [] encoding = "utf16" -> 2
           [] encoding = "utf32" -> 1

Newlines(text) == {i \in 1..Len(text) : text[i] = "nl"}

nth_line_start(text, n) ==
    IF n = 0 THEN 0
    ELSE LET ends == {i \in Newlines(text) : Cardinality({j \in Newlines(text) : j <= i}) = n}
         IN  IF ends = {} THEN NoOffset ELSE CHOOSE i \in ends : TRUE

(* The end of a line's content: neither its newline nor a carriage return  *)
(* before it.                                                              *)
ContentEnd(text, start) ==
    LET end == Min({i - 1 : i \in {j \in Newlines(text) : j > start}} \union {Len(text)})
    IN  IF end > start /\ text[end] = "cr" THEN end - 1 ELSE end

Units(text, from, to, encoding) ==
    MapThenSumSet(LAMBDA i : encoded_len(text[i], encoding), (from + 1)..to)

(* Mutant: a position past the end of its line runs on into the next.      *)
resolve_unclamped(text, pos, encoding) ==
    LET start == nth_line_start(text, pos.line)
    IN  IF start = NoOffset THEN NoOffset
        ELSE Min({k \in start..Len(text) : Units(text, start, k, encoding) >= pos.character}
                 \union {Len(text)})

(* A position past the end of its line is the end of the line's content,   *)
(* and one inside a character is the end of that character.                *)
resolve_offset(text, pos, encoding) ==
    LET start == nth_line_start(text, pos.line)
        end   == ContentEnd(text, start)
    IN  IF start = NoOffset THEN NoOffset
        ELSE Min({k \in start..end : Units(text, start, k, encoding) >= pos.character}
                 \union {end})

-----------------------------------------------------------------------------
LspPosition == [line : Nat, character : Nat]

Before(p, q) == p.line < q.line \/ (p.line = q.line /\ p.character <= q.character)

(* A text edit puts a text in place of a range, as LSP requires one to be.  *)
TextEdits ==
    {e \in [start : LspPosition, end : LspPosition, new : Seq(Characters)] : Before(e.start, e.end)}

Resolved(text, edits, encoding) ==
    [i \in DOMAIN edits |->
        [start |-> resolve_offset(text, edits[i].start, encoding),
         end   |-> resolve_offset(text, edits[i].end, encoding),
         new   |-> edits[i].new]]

OutOfRange(text, edits, encoding) ==
    \E i \in DOMAIN edits : NoOffset \in {Resolved(text, edits, encoding)[i].start,
                                          Resolved(text, edits, encoding)[i].end}

(* Mutant: edits with one start are taken last first.                      *)
rank_last_first(resolved, i) ==
    Cardinality({j \in DOMAIN resolved :
        \/ resolved[j].start < resolved[i].start
        \/ resolved[j].start = resolved[i].start /\ j >= i})

(* sort_by_key is stable: edits with one start keep their order.           *)
RankOf(resolved, i) ==
    Cardinality({j \in DOMAIN resolved :
        \/ resolved[j].start < resolved[i].start
        \/ resolved[j].start = resolved[i].start /\ j <= i})

SortedByStart(resolved) ==
    [rank \in DOMAIN resolved |->
        resolved[CHOOSE i \in DOMAIN resolved : RankOf(resolved, i) = rank]]

Overlapping(sorted) ==
    \E i \in 1..(Len(sorted) - 1) : sorted[i].end > sorted[i + 1].start

replace_range(text, e) ==
    SubSeq(text, 1, e.start) \o e.new \o SubSeq(text, e.end + 1, Len(text))

(* Splicing from the end keeps the earlier offsets valid.                  *)
SpliceFromEnd(text, sorted) ==
    FoldRight(LAMBDA e, acc : replace_range(acc, e), sorted, text)

CanRewrite(text, edits, encoding) ==
    /\ ~OutOfRange(text, edits, encoding)
    /\ ~Overlapping(SortedByStart(Resolved(text, edits, encoding)))

rewrite_file(text, edits, encoding) ==
    SpliceFromEnd(text, SortedByStart(Resolved(text, edits, encoding)))

-----------------------------------------------------------------------------
(* What a text says at a place; Nothing is the None of a place it has not.  *)
Nothing == <<"none">>

is_identifier_char(ch) == ch \in {"a", "b"}

(* The offsets around the identifier that an offset touches.               *)
WordAt(text, at) ==
    IF at = NoOffset THEN <<0, 0>>
    ELSE <<Max({0} \union {i \in 1..at : ~is_identifier_char(text[i])}),
           Min({Len(text)} \union
               {i - 1 : i \in {j \in (at + 1)..Len(text) : ~is_identifier_char(text[j])}})>>

SomeText(text, word) ==
    IF word[1] = word[2] THEN Nothing ELSE SubSeq(text, word[1] + 1, word[2])

(* The identifier a position touches.                                      *)
identifier_at(text, pos, encoding) ==
    SomeText(text, WordAt(text, resolve_offset(text, pos, encoding)))

text_in_range(text, range, encoding) ==
    LET start == resolve_offset(text, range.start, encoding)
        end   == resolve_offset(text, range.end, encoding)
    IN  IF NoOffset \in {start, end} \/ start > end THEN Nothing
        ELSE SubSeq(text, start + 1, end)

(* str::lines, of a text that does not end in a carriage return: an end     *)
(* without a newline is a line, an empty one is not.                        *)
LineFrom(text, start) == SubSeq(text, start + 1, ContentEnd(text, start))

Terminated(text) == IF text = <<>> \/ Last(text) = "nl" THEN text ELSE Append(text, "nl")

WholeLines(text) ==
    [n \in 1..Cardinality(Newlines(text)) |-> LineFrom(text, nth_line_start(text, n - 1))]

Lines(text) == WholeLines(Terminated(text))

-----------------------------------------------------------------------------
(* What a rewrite should come to, without an order of splicing: at every   *)
(* offset the texts put there, in the order they were listed, and then the *)
(* character that follows, unless an edit replaces it.                     *)
PutAt(resolved, k) ==
    FoldLeft(LAMBDA acc, e : IF e.start = k THEN acc \o e.new ELSE acc, <<>>, resolved)

Replaced(resolved, k) ==
    \E i \in DOMAIN resolved : resolved[i].start < k /\ k <= resolved[i].end

Intended(text, edits, encoding) ==
    LET resolved == Resolved(text, edits, encoding)
    IN  FoldLeft(LAMBDA acc, k : acc \o PutAt(resolved, k)
                     \o IF k < Len(text) /\ ~Replaced(resolved, k + 1)
                        THEN <<text[k + 1]>> ELSE <<>>,
                 <<>>, [i \in 1..(Len(text) + 1) |-> i - 1])
=============================================================================
