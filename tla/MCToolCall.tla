------------------------------ MODULE MCToolCall ------------------------------
(* Instances of ToolCall for TLC. *)
EXTENDS ToolCall

-----------------------------------------------------------------------------
(* Names.  A name is one character of its own, but for those whose         *)
(* spelling matters.                                                       *)

Plain == {"/", "ws", "base", "sib", "wt", "old", "far", "loose", "link", "jj", "jj2", "bad", "dup", "back", "host", "me",
          "deep", "src", "gen", ".git", ".jj", "repo", "none", "not a file", "jdt:", "target",
          "A.java", "B.java", "C.java", "N.java", "PrintStream.java", "b.rs", "t.ts", "m.mjs",
          "pom.xml", "Cargo.toml", "tsconfig.json", "README"}

MCSpelling ==
    [n \in Plain |-> <<n>>]
    @@ ("a b.rs" :> <<"a", " ", "b.rs">>)
    @@ ("a%20b.rs" :> <<"a", "%", "2", "0", "b.rs">>)
    @@ ("PrintStream.java?h" :> <<"PrintStream.java", "?", "h">>)

MCExtension ==
    [n \in DOMAIN MCSpelling |->
        CASE n \in {"A.java", "B.java", "C.java", "N.java", "PrintStream.java"} -> "java"
          [] n \in {"b.rs", "a b.rs", "a%20b.rs"} -> "rs"
          [] n = "t.ts" -> "ts"
          [] n = "m.mjs" -> "mjs"
          [] OTHER -> ""]

Ws  == <<"/", "ws">>
Base == Ws \o <<"base">>
Sib  == Ws \o <<"sib">>
Wt   == Base \o <<"wt">>
Old  == Ws \o <<"old">>
Far  == Ws \o <<"far">>
Loose == Ws \o <<"loose">>
Link == <<"/", "link">>
Jj   == Ws \o <<"jj">>
Jj2  == Ws \o <<"jj2">>
Bad  == Ws \o <<"bad">>
Dup  == Ws \o <<"dup">>
Back == Ws \o <<"back">>

-----------------------------------------------------------------------------
(* Texts, and what is committed.                                           *)

T1 == <<"a", ";", "b", "nl", "wide", "a", ";", "b", "nl">>
T2 == <<"b", "b", ";", "a", "nl", "wide", "b", "b", ";", "a", "nl", ";">>
T3 == <<"nl", ";", ";", ";", ";", ";", "b">>

A == <<"A.java">>
B == <<"src", "B.java">>
C == <<"src", "C.java">>
G == <<"gen", "N.java">>
R == <<"a b.rs">>
T == <<"t.ts">>
M == <<"m.mjs">>
Read == <<"README">>

Committed == (A :> T1) @@ (B :> T1) @@ (R :> T1) @@ (T :> T1) @@ (M :> T1)

(* Another commit: two files have other texts, and one more is tracked.    *)
Earlier == [f \in DOMAIN Committed \union {C} |-> IF f \in {A, R, C} THEN T2 ELSE T1]

At(dir, texts) == [p \in {dir \o f : f \in DOMAIN texts} |->
                      texts[CHOOSE f \in DOMAIN texts : dir \o f = p]]

Without(texts, f) == [p \in DOMAIN texts \ {f} |-> texts[p]]

Checkout(marks, common, repo, works, moved, id) ==
    [marks |-> marks, common |-> common, repo |-> repo, works |-> works, moved |-> moved,
     rev |-> [id |-> id, branch |-> "none"], head |-> Committed]

GitCopy(common, moved, id) == Checkout({".git"}, common, NoPath, TRUE, moved, id)
JjCopy(moved, id) == Checkout({".jj", ".git"}, <<".git">>, Jj \o <<".jj", "repo">>, TRUE, moved, id)

Renaming == {[status |-> "R", from |-> B, to |-> C]}
Copying(from) == [status |-> "C", from |-> from, to |-> C]

MCWorld ==
    [link |-> Link :> Sib,
     git  |-> TRUE,
     copies |->
        (Base :> GitCopy(<<".git">>, {}, "r1"))
        @@ (Sib :> GitCopy(Base \o <<".git">>, Renaming, "r2"))
        @@ (Wt :> GitCopy(Base \o <<".git">>, {}, "r3"))
        @@ (Old :> [GitCopy(Base \o <<".git">>, {}, "r10") EXCEPT !.head = Earlier])
        @@ (Far :> GitCopy(<<".git">>, {}, "r4"))
        @@ (Jj :> JjCopy({}, "r5"))
        @@ (Jj2 :> JjCopy(Renaming, "r6"))
        @@ (Dup :> [GitCopy(<<".git">>, {Copying(Read)}, "r8") EXCEPT !.head = (Read :> T1) @@ @])
        @@ (Back :> GitCopy(<<".git">>, {Copying(R), [status |-> "R", from |-> A, to |-> M]}, "r9"))
        @@ (Bad :> Checkout({".git"}, NoPath, NoPath, FALSE, {}, "r7"))]

MCSpaced == {R}
MCRenameLike == {Read}

GitDisk ==
    At(Base, (B :> T2) @@ Committed)
    @@ At(Sib, (A :> T2) @@ (C :> T3) @@ (G :> T1) @@ Without(Committed, B))
    @@ At(Wt, (A :> T2) @@ Committed)
    @@ At(Old, (B :> T3) @@ Earlier)
    @@ At(Far, A :> T1) @@ At(Loose, A :> T1)

JjDisk ==
    At(Jj, (R :> T2) @@ Committed)
    @@ At(Jj2, (A :> T2) @@ (C :> T2) @@ (G :> T1) @@ Without(Committed, B))

-----------------------------------------------------------------------------
(* What the servers answer.                                                *)

Ok(v) == [type |-> "ok", value |-> v]
Err      == [type |-> "error"]
BadShape == [type |-> "bad"]
Computed == [type |-> "computed"]

Pos(l, c) == [line |-> l, character |-> c]
Rng(l, c, m, d) == [start |-> Pos(l, c), end |-> Pos(m, d)]
Word == Rng(0, 0, 0, 1)
Body == Rng(0, 0, 2, 0)

Place(uri, r) == [uri |-> uri, range |-> r]

GoesTo(uri, link, at, selection, whole) ==
    [uri |-> uri, target_uri |-> link, range |-> at, selection |-> selection,
     target_range |-> whole]

Symbol(depth, full, selection, location) ==
    [depth |-> depth, range |-> full, selection |-> selection, location |-> location]

Item(uri, data) ==
    [wellformed |-> TRUE, uri |-> uri, range |-> Body, selection |-> Word, data |-> data]

Edit1(r, new) == [start |-> r.start, end |-> r.end, new |-> new]

EditAnswer(changes, documents) ==
    Ok([changes |-> changes, documentChanges |-> documents])

Edits(uri, es) == [kind |-> "edits", uri |-> uri, edits |-> es]
Create(uri) == [kind |-> "create", uri |-> uri]
Delete(uri) == [kind |-> "delete", uri |-> uri]
Rename(old, new) == [kind |-> "rename", old |-> old, new |-> new]

(* An action whose edit inserts its mark at the start of a file.           *)
Marking(uri, mark) == EditAnswer(<<[uri |-> uri, edits |-> <<Edit1(Rng(0, 0, 0, 0), mark)>>]>>, <<>>)
Act(kind, title, edit, command, mark) ==
    [kind |-> kind, title |-> title, edit |-> edit, command |-> command, mark |-> mark]

Handle == <<"jdt:", "PrintStream.java?h">>

(* The queries of one file, and of another beside it.                      *)
Queries(file, beside) ==
    ("textDocument/rename" :> Computed)
    @@ ("textDocument/definition" :>
            Ok(<<GoesTo(file, NoUri, Word, NoRange, NoRange),
                      GoesTo(NoUri, beside, NoRange, Rng(1, 0, 1, 2), Body),
                      GoesTo(NoUri, NoUri, Word, NoRange, NoRange)>>))
    @@ ("textDocument/implementation" :> Ok(<<GoesTo(NoUri, beside, NoRange, NoRange, Body)>>))
    @@ ("textDocument/hover" :>
            Ok([contents |-> <<[fence |-> "java", value |-> <<"a">>], [fence |-> "", value |-> <<>>]>>,
                     range |-> Word]))
    @@ ("textDocument/documentSymbol" :>
            Ok(<<Symbol(0, Body, Word, NoRange), Symbol(1, Word, NoRange, NoRange),
                      Symbol(0, NoRange, NoRange, NoRange), Symbol(1, Word, Word, NoRange),
                      Symbol(0, NoRange, NoRange, Body)>>))
    @@ ("textDocument/references" :>
            Ok(<<Place(file, Word), Place(beside, Rng(1, 1, 2, 0)), Place(beside, Rng(9, 0, 9, 1))>>))
    @@ ("textDocument/prepareCallHierarchy" :>
            Ok(<<Item(file, "one"), Item(beside, "two"),
                      [Item(file, "three") EXCEPT !.wellformed = FALSE]>>))
    @@ ("callHierarchy/incomingCalls" :>
            Ok(<<[other |-> Item(beside, "two"), ranges |-> <<Word, Rng(1, 2, 1, 3)>>]>>))
    @@ ("callHierarchy/outgoingCalls" :>
            Ok(<<[other |-> Item(beside, "two"), ranges |-> <<Word>>]>>))

JavaAnswers(root) ==
    Queries(root \o A, root \o B)
    @@ ("workspace/symbol" :>
            Ok(<<Place(root \o A, Word), Place(root \o B, NoRange), Place(root \o B, Body)>>))
    @@ ("textDocument/codeAction" :>
            Ok(<<Act(Kind(<<"extract.", "variable">>), {"variable", "occurrence"},
                          Marking(root \o A, <<"1">>), Absent, <<"1">>),
                      Act(Kind(<<"extract.", "variable">>), {"variable"},
                          Marking(root \o A, <<"2">>), Absent, <<"2">>),
                      Act(Kind(<<"inline">>), {"convert"}, Marking(root \o A, <<"3">>), Absent, <<"3">>),
                      Act(Kind(<<"inline">>), {"inline"}, Absent, Absent, <<"4">>),
                      Act(<<"source.organizeImports">>, {"organize"},
                          EditAnswer(<<>>, <<Create(root \o <<"N.java">>), Delete(root \o B),
                                             Edits(root \o A, <<Edit1(Word, <<"5">>)>>)>>),
                          Absent, <<"5">>)>>))
    @@ ("codeAction/resolve" :> Ok([edit |-> Marking(root \o A, <<"4">>), command |-> Absent]))
    @@ ("henka.mcp.getChangeSignatureInfo" :>
            Ok([told |-> FALSE, has_method |-> TRUE, method |-> "m", name |-> [str |-> <<"a">>],
                     modifier |-> [str |-> <<"public">>], return_type |-> [str |-> <<"int">>],
                     parameters |-> <<[name |-> "x", original_index |-> 0],
                                      [name |-> "y", original_index |-> 1]>>]))
    @@ ("henka.mcp.getRefactorEdit" :>
            Ok([told |-> FALSE,
                     edit |-> EditAnswer(<<[uri |-> root \o B, edits |-> <<Edit1(Word, <<"b">>)>>]>>,
                                         <<Edits(root \o A, <<Edit1(Word, <<"b">>)>>),
                                           Edits(root \o A, <<Edit1(Rng(1, 4, 1, 5), <<"b">>)>>)>>)]))
    @@ ("henka.mcp.getMoveDestinations" :>
            Ok([told |-> FALSE,
                     destinations |-> <<[name |-> <<"deep">>, default |-> FALSE],
                                        [name |-> <<"none">>, default |-> TRUE]>>]))
    @@ ("henka.mcp.move" :>
            Ok([told |-> FALSE,
                     edit |-> EditAnswer(<<[uri |-> root \o B, edits |-> <<Edit1(Word, <<"b">>)>>]>>,
                                         <<Rename(root \o A, root \o <<"deep", "A.java">>)>>)]))

RustAnswers(root) ==
    Queries(root \o <<"a%20b.rs">>, root \o A)
    @@ ("workspace/symbol" :>
            Ok(<<Place(root \o <<"a%20b.rs">>, Word), Place(root \o <<"a%20b.rs">>, Rng(1, 2, 1, 3)),
                      Place(root \o A, Word)>>))
    @@ ("textDocument/codeAction" :>
            Ok(<<Act(Kind(<<"extract">>), {"function"}, Marking(root \o <<"a%20b.rs">>, <<"1">>), Absent, <<"1">>),
                      Act(Kind(<<"extract">>), {"variable"}, Marking(root \o <<"a%20b.rs">>, <<"2">>), Absent, <<"2">>),
                      Act(Kind(<<"inline">>), {"inline"}, Absent, Absent, <<"3">>)>>))
    @@ ("codeAction/resolve" :> Ok([edit |-> Absent, command |-> Absent]))

TsAnswers(root) ==
    Queries(root \o T, root \o M)
    @@ ("workspace/symbol" :> Ok(<<Place(root \o M, Word)>>))
    @@ ("textDocument/codeAction" :>
            Ok(<<Act(Kind(<<"extract.", "constant", ".enclosing">>), {"enclosing"}, Absent, Absent, <<"1">>),
                      Act(Kind(<<"extract.", "constant">>), {"global"}, Absent, Ok(<<>>), <<"2">>),
                      Act(Kind(<<"extract.", "function">>), {"function"}, NullAnswer, Ok(<<>>), <<"3">>)>>))
    @@ ("codeAction/resolve" :> Ok([edit |-> Marking(root \o T, <<"1">>), command |-> Absent]))
    @@ ("workspace/executeCommand" :> NullAnswer)

(* Servers that fail, or have nothing to say.                              *)
PoorAnswers(root) ==
    [m \in DOMAIN JavaAnswers(root) |->
        CASE m \in {"textDocument/hover", "workspace/symbol", "textDocument/documentSymbol",
                    "textDocument/references", "codeAction/resolve"} -> NullAnswer
          [] m \in {"textDocument/definition", "textDocument/codeAction",
                    "henka.mcp.getChangeSignatureInfo"} -> BadShape
          [] m \in {"textDocument/rename", "textDocument/prepareCallHierarchy"} -> Err
          [] m = "henka.mcp.move" -> Ok([told |-> FALSE,
                     edit |-> EditAnswer(<<[uri |-> root \o B, edits |-> <<Edit1(Word, <<"b">>)>>]>>, <<>>)])
          [] OTHER -> JavaAnswers(root)[m]]

-----------------------------------------------------------------------------
(* Sites.                                                                  *)

Tree(root) == <<[path |-> root \o A, dir |-> FALSE], [path |-> root \o <<"target">>, dir |-> TRUE],
                [path |-> root \o <<"target", "b.rs">>, dir |-> FALSE],
                [path |-> root \o T, dir |-> FALSE], [path |-> root \o M, dir |-> FALSE]>>

RustToo(root) == Append(Tree(root), [path |-> root \o <<"Cargo.toml">>, dir |-> FALSE])

Mapping(host, container) == [both |-> TRUE, host |-> host, container |-> container]

(* A directory of its own that is mounted where another's would be.        *)
HostMap ==
    <<Mapping(<<"/", "host">>, Ws), Mapping(<<"/", "host", "me">>, Base),
      Mapping(<<"/", "host">>, <<>>), [both |-> FALSE, host |-> Ws, container |-> <<>>]>>

MCSite(root, tree, roots, answers, files, others) ==
    [project  |-> [id |-> <<"p">>, root |-> root, languages |-> detect_languages(tree)],
     path_map |-> HostMap,
     roots    |-> roots,
     starts   |-> Providers,
     indexes  |-> Providers,
     answers  |-> answers,
     pushed   |-> [p \in Providers |-> Marking(roots[p] \o T, <<"3">>)],
     disk     |-> files,
     saves    |-> others]

All(root) == [p \in Providers |-> root]

Good(roots) == [jdtls |-> JavaAnswers(roots["jdtls"]), tsserver |-> TsAnswers(roots["tsserver"])]
               @@ ("rust-analyzer" :> RustAnswers(roots["rust-analyzer"]))

Poor(roots) == [Good(roots) EXCEPT !["jdtls"] = PoorAnswers(roots["jdtls"]),
                                   !["tsserver"] = PoorAnswers(roots["tsserver"])]

Mixed == [jdtls |-> Base, tsserver |-> Base] @@ ("rust-analyzer" :> Sib)

Saved(path, text) == [path |-> path, text |-> text, delete |-> FALSE]
Gone(path) == [path |-> path, text |-> <<>>, delete |-> TRUE]

MCSites ==
    ("git"   :> MCSite(Base, RustToo(Base), Mixed, Good(Mixed), GitDisk, <<>>))
    @@ ("sib" :> MCSite(Sib, Tree(Sib), All(Base), Good(All(Base)), GitDisk, <<>>))
    @@ ("races" :> MCSite(Base, Tree(Base), All(Base), Good(All(Base)), GitDisk,
                          <<Saved(Base \o A, T2), Saved(Sib \o A, T1), Gone(Base \o A)>>))
    @@ ("handles" :> [MCSite(Base, Tree(Base), All(Base), Good(All(Base)), GitDisk, <<>>)
                        EXCEPT !.answers["jdtls"]["textDocument/prepareCallHierarchy"] =
                            Ok(<<Item(Handle, "one"), Item(Base \o A, "two")>>)])
    @@ ("poor" :> [MCSite(Base, RustToo(Base), All(Base), Poor(All(Base)), GitDisk, <<>>)
                      EXCEPT !.indexes = {"jdtls", "rust-analyzer"}])
    @@ ("down" :> [MCSite(Base, RustToo(Base), All(Base), Good(All(Base)), GitDisk, <<>>)
                      EXCEPT !.starts = {"jdtls", "tsserver"}, !.indexes = {"jdtls"}])
    @@ ("clean" :> MCSite(Base, Tree(Base), All(Base), Good(All(Base)),
                          [p \in {q \in DOMAIN GitDisk : ~StartsWith(q, Base)} |-> GitDisk[p]]
                          @@ At(Base, (G :> T1) @@ Committed), <<>>))
    @@ ("jj"  :> MCSite(Jj, Tree(Jj), All(Jj2), Good(All(Jj2)), JjDisk, <<>>))
    @@ ("jj2" :> MCSite(Jj2, Tree(Jj2), All(Jj), Good(All(Jj)), JjDisk, <<>>))
    @@ ("dup" :> MCSite(Dup, Tree(Dup), All(Dup), Good(All(Dup)),
                        At(Dup, (A :> T2) @@ (C :> T1) @@ (Read :> T1) @@ Committed), <<>>))
    @@ ("back" :> MCSite(Back, Tree(Back), All(Back), Good(All(Back)),
                         At(Back, (A :> T2) @@ (B :> T2) @@ (C :> T2) @@ (R :> T2) @@ (G :> T1)
                                  @@ Committed), <<>>))
    @@ ("loose" :> MCSite(Loose, Tree(Loose), All(Loose), Good(All(Loose)), GitDisk, <<>>))
    @@ ("bad" :> MCSite(Bad, Tree(Bad), All(Bad), Good(All(Bad)), At(Bad, (A :> T2) @@ Committed), <<>>))

-----------------------------------------------------------------------------
(* Scripts.                                                                *)

S(x) == [str |-> x]
N(x) == [int |-> x]
F(x) == [bool |-> x]

Key(k, values) == {<<>>} \union {k :> v : v \in values}

P == "project" :> S(<<"p">>)
Really == "dry_run" :> F(FALSE)

On(file, l, c) == ("file" :> S(file)) @@ ("line" :> N(l)) @@ ("character" :> N(c)) @@ P

Over(file, l, c, m, d) ==
    ("file" :> S(file)) @@ ("start_line" :> N(l)) @@ ("start_character" :> N(c))
    @@ ("end_line" :> N(m)) @@ ("end_character" :> N(d)) @@ P

Req(name, args) == [name |-> name, args |-> args]
One(where, name, args) == [site |-> where, requests |-> <<Req(name, args)>>]
Two(where, name, args, then, more) ==
    [site |-> where, requests |-> <<Req(name, args), Req(then, more)>>]

NewName == "new_name" :> S(<<"b", "b", "b">>)
In(dirs) == Key("workspace", {S(d) : d \in dirs})
Expect(words) == Key("expect", {S(w) : w \in words})

Renames ==
    {One("git", "rename", On(f, l[1], l[2]) @@ w @@ e @@ Really @@ NewName) :
        f \in {A, Base \o A, Sib \o A, Wt \o A, Link \o A, Far \o A, <<"/", "host", "me", "A.java">>},
        w \in In({Base, Sib, Wt, Link, Far, Loose, <<"/", "host", "sib">>}),
        e \in Expect({<<"a">>, <<"b">>, <<"b", "b">>}),
        l \in {<<0, 0>>, <<1, 4>>}}
    \union
    {One(s, "rename", On(f, l[1], l[2]) @@ w @@ d @@ NewName) :
        s \in {"sib", "jj", "jj2", "loose", "bad", "poor", "clean"},
        f \in {A, B, C, Base \o A},
        w \in In({Base, Jj, Loose}),
        l \in {<<0, 9>>, <<9, 0>>},
        d \in {Really, <<>>}}
    \union
    {One(s, "rename", On(f, 0, 0) @@ w @@ Really @@ NewName @@ ("expect" :> S(<<"a">>))) :
        s \in {"git", "down", "poor"}, f \in {R, T, M, <<"README">>}, w \in In({Base, Sib})}

(* The session's checkout has no changes; the copy is of another commit.   *)
Drifting ==
    {One("clean", "rename", On(f, 0, 0) @@ w @@ Really @@ NewName @@ ("expect" :> S(e))) :
        f \in {A, B, R, T}, w \in In({Old}), e \in {<<"a">>, <<"b", "b">>}}

Drifts ==
    {One("git", n, On(f, 0, 0) @@ w) :
        n \in {"find-usages", "go-to-definition", "describe-symbol"}, f \in {A, B, R}, w \in In({Old})}
    \union {One("git", "symbol-search", P @@ ("query" :> S(<<"a">>)) @@ w @@ l) :
                w \in In({Old}), l \in Key("context_lines", {N(1)})}
    \union {Two("clean", n, On(A, 0, 0) @@ w @@ NewName, n, On(A, 0, 0) @@ w @@ NewName @@ Really) :
                n \in {"rename", "change-signature"}, w \in In({Old})}
    \union {One("clean", "move", ("file" :> S(A)) @@ P @@ w @@ Really @@ ("to_package" :> S(<<"deep">>))) :
                w \in In({Old})}

Races ==
    {One("races", "rename", On(f, 0, 0) @@ w @@ Really @@ NewName @@ ("expect" :> S(e))) :
        f \in {A, Base \o A}, w \in In({Sib}), e \in {<<"a">>, <<"b", "b">>}}

Previews ==
    {Two(s, r.name, r.args, r.name, Really @@ r.args) :
        s \in {"git", "sib", "races"},
        r \in {Req("rename", On(A, 0, 0) @@ w @@ NewName @@ ("dry_run" :> F(TRUE))) : w \in In({Sib})}
              \union {Req("change-signature", On(A, 0, 0) @@ w) : w \in In({Sib})}
              \union {Req("move", ("file" :> S(A)) @@ P @@ w @@ ("to_package" :> S(p))) :
                        w \in In({Sib}), p \in {<<>>, <<"deep">>, <<"far">>}}
              \union {Req("organize-imports", ("file" :> S(A)) @@ P)}}

Moves ==
    {One(s, "move", ("file" :> S(A)) @@ P @@ w @@ Really @@ ("to_package" :> S(p))) :
        s \in {"git", "poor", "sib"}, w \in In({Sib, Wt}), p \in {<<>>, <<"deep">>}}

Parameter(name, index) == [name |-> name, original_index |-> index]

Signatures ==
    {One(s, "change-signature", On(A, 0, 0) @@ n @@ t @@ p @@ d) :
        s \in {"git", "poor"},
        n \in Key("name", {S(<<"b">>)}),
        t \in Key("return_type", {S(<<"void">>), [null |-> TRUE]}),
        p \in Key("parameters", {[list |-> <<Parameter("y", 1), Parameter("z", NoIndex)>>],
                                 [list |-> <<>>], [null |-> TRUE]}),
        d \in {Really, "delegate" :> F(TRUE)}}

CodeActions ==
    {One("git", n, Over(A, 0, 0, 0, 1) @@ e @@ Really) :
        n \in {"extract-variable", "extract-constant", "extract-method", "extract-field"},
        e \in Expect({<<"a">>, <<"b">>})}
    \union {One("git", "inline", On(f, 0, 0) @@ Really) : f \in {A, R}}
    \union {One("git", "organize-imports", ("file" :> S(A)) @@ P @@ d) : d \in {Really, <<>>}}
    \union {One(s, n, Over(f, 0, 0, 0, 1) @@ d) :
                s \in {"git", "poor"}, f \in {R, T},
                n \in {"extract-variable", "extract-constant", "extract-function"},
                d \in {Really, <<>>}}

Searches ==
    {One(s, "symbol-search", P @@ ("query" :> S(<<"a">>)) @@ w @@ l) :
        s \in {"git", "sib", "poor", "down", "jj2"},
        w \in In({Sib, Wt}),
        l \in Key("limit", {N(0), N(1), N(2), N(4), N(9), N(-1), S(<<"1">>)})
              \union Key("context_lines", {N(1), N(9)})}

Asks ==
    {One(s, n, On(f, 0, 0) @@ w @@ c) :
        s \in {"git", "poor"},
        n \in {"find-usages", "go-to-definition", "find-implementations", "describe-symbol",
               "prepare-call-hierarchy"},
        f \in {A, Base \o A, R, M},
        w \in In({Sib}),
        c \in Key("context_lines", {N(1)})}
    \union {One("git", "file-outline", ("file" :> S(f)) @@ P @@ w) : f \in {A, R, T}, w \in In({Sib, Link})}
    \union {One("poor", "file-outline", ("file" :> S(A)) @@ P)}
    \union {One("git", "find-usages", On(A, 0, 0) @@ ("include_declaration" :> F(FALSE)))}

Calls ==
    {Two(s, "prepare-call-hierarchy", On(f, 0, 0) @@ w, n,
         P @@ v @@ ("item" :> [prepared |-> i])) :
        s \in {"git", "sib"}, f \in {A, T}, n \in {"incoming-calls", "outgoing-calls"}, i \in 1..2,
        w \in In({Sib}), v \in In({Sib})}
    \union {Two("handles", "prepare-call-hierarchy", On(A, 0, 0), n,
                P @@ ("item" :> [prepared |-> i])) : n \in {"incoming-calls", "outgoing-calls"}, i \in 1..2}
    \union {One("git", "incoming-calls", P @@ ("item" :> i)) :
                i \in {S(<<"a">>), [item |-> Item(<<"/", "README">>, "one")], [item |-> Item(NoUri, "one")]}}

Statuses ==
    {One(s, n, ("id" :> S(i)) @@ ("project" :> S(i))) :
        s \in {"git", "sib", "clean", "jj", "jj2", "loose", "bad", "dup", "back"},
        n \in {"project_status", "list_operations"}, i \in {<<"p">>, <<"q">>}}

Malformed ==
    {One("git", "rename", a @@ NewName) :
        a \in {<<>>, P, P @@ ("file" :> S(A)), On(A, -1, 0), On(A, 9, 0), [On(A, 0, 0) EXCEPT !["line"] = S(<<"0">>)],
               [On(A, 0, 0) EXCEPT !["file"] = N(0)], On(A, 0, 0) @@ ("dry_run" :> N(0)),
               On(A, 0, 0) @@ ("workspace" :> N(0)) @@ ("expect" :> F(TRUE))}}
    \union {One("git", "rename", On(A, 0, 0) @@ n) : n \in Key("new_name", {S(<<>>), N(0)})}
    \union {One("git", n, On(A, 0, 0)) : n \in {"rename", "symbol-search", "no-such-operation"}}

MCScripts ==
    Renames \union Drifting \union Drifts \union Races \union Previews \union Moves \union Signatures \union CodeActions
    \union Searches \union Asks \union Calls \union Statuses \union Malformed
=============================================================================
