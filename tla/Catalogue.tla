------------------------------ MODULE Catalogue ------------------------------
(***************************************************************************)
(* The operations each language contributes, the providers, and the choice *)
(* of the languages that serve a call: crates/henka-core/src/operation.rs, *)
(* provider.rs and language.rs, the descriptors of the three languages, and*)
(* dispatch_languages of crates/henka-server/src/mcp.rs.                   *)
(*                                                                         *)
(* A descriptor is a record [id, kind, target, params, required, limit]:   *)
(* the names of its own parameters, those that are required, and the       *)
(* declared default of a limit, 0 for none.                                *)
(***************************************************************************)
EXTENDS Paths

CONSTANTS
    Extension,      \* [last name of a path -> its extension, "" for none]
    Located,        \* the providers whose language server was found
    DefaultLimit,   \* DEFAULT_SYMBOL_SEARCH_LIMIT, 200
    MaxWalk         \* MAX_WALK_ENTRIES, 50 000

ASSUME CatalogueAssumption ==
    /\ Located \subseteq {"jdtls", "rust-analyzer", "tsserver"}
    /\ DefaultLimit \in Nat \ {0}
    /\ MaxWalk \in Nat

(* The order of the enumeration, by which maps over languages iterate.     *)
Languages == <<"java", "rust", "typescript", "javascript">>

NoLanguage == "none"

-----------------------------------------------------------------------------
(* Languages of files and trees.                                           *)

Extensions ==
    [java |-> {"java"}, rust |-> {"rs"},
     typescript |-> {"ts", "tsx", "mts", "cts"}, javascript |-> {"js", "jsx", "mjs", "cjs"}]

from_path(file) ==
    LET ext == Extension[Last(file)]
    IN  IF \E l \in ToSet(Languages) : ext \in Extensions[l]
        THEN CHOOSE l \in ToSet(Languages) : ext \in Extensions[l] ELSE NoLanguage

Markers ==
    [java |-> {"pom.xml", "build.gradle", "build.gradle.kts", "settings.gradle",
               "settings.gradle.kts"},
     rust |-> {"Cargo.toml"}, typescript |-> {"tsconfig.json"}, javascript |-> {}]

is_marker(language, name) ==
    name \in Markers[language] \/ Extension[name] \in Extensions[language]

SKIP_DIRS ==
    {".git", ".jj", ".hg", "target", "build", "out", "node_modules", ".gradle", ".idea"}

(* A tree is the sequence of what a walk of it meets, [path, dir].         *)
Walked(tree) ==
    LET dirs(e)  == IF e.dir THEN ToSet(e.path) ELSE ToSet(Front(e.path))
        met      == SelectSeq(tree, LAMBDA e : dirs(e) \cap SKIP_DIRS = {})
    IN  SubSeq(met, 1, Min({MaxWalk, Len(met)}))

detect_languages(tree) ==
    LET names == {Last(e.path) : e \in {e \in ToSet(Walked(tree)) : ~e.dir}}
    IN  SelectSeq(Languages, LAMBDA l : \E n \in names : is_marker(l, n))

-----------------------------------------------------------------------------
(* The descriptors.  Java's stand for all three languages': those under one*)
(* id differ in wording only.                                              *)

Descriptor(id, kind, target, params, required) ==
    [id |-> id, kind |-> kind, target |-> target, params |-> params,
     required |-> required, limit |-> IF "limit" \in params THEN DefaultLimit ELSE 0]

RenameOp == Descriptor("rename", "edit", "position", {"new_name"}, {"new_name"})

ChangeSignatureOp ==
    Descriptor("change-signature", "edit", "position",
               {"name", "return_type", "modifier", "delegate", "parameters"}, {})

MoveOp == Descriptor("move", "edit", "file", {"to_package"}, {"to_package"})

SymbolSearchOp ==
    Descriptor("symbol-search", "query", "project", {"query", "context_lines", "limit"}, {"query"})

GotoQueryOp(id) == Descriptor(id, "query", "position", {"context_lines"}, {})

DescribeSymbolOp == Descriptor("describe-symbol", "query", "position", {}, {})

FileOutlineOp == Descriptor("file-outline", "query", "file", {"context_lines"}, {})

PrepareCallHierarchyOp ==
    Descriptor("prepare-call-hierarchy", "query", "position", {"context_lines"}, {})

IncomingCallsOp ==
    Descriptor("incoming-calls", "query", "project", {"item", "context_lines"}, {"item"})

OutgoingCallsOp ==
    Descriptor("outgoing-calls", "query", "project", {"item", "context_lines"}, {"item"})

FindUsagesOp ==
    Descriptor("find-usages", "query", "position", {"include_declaration", "context_lines"}, {})

CodeActionOp(id, target) == Descriptor(id, "edit", target, {}, {})

Shared ==
    <<RenameOp, FindUsagesOp, SymbolSearchOp, GotoQueryOp("go-to-definition"),
      GotoQueryOp("find-implementations"), DescribeSymbolOp, FileOutlineOp,
      PrepareCallHierarchyOp, IncomingCallsOp, OutgoingCallsOp>>

java_operations ==
    Shared \o <<ChangeSignatureOp, MoveOp,
                CodeActionOp("extract-variable", "selection"),
                CodeActionOp("extract-constant", "selection"),
                CodeActionOp("extract-field", "selection"),
                CodeActionOp("extract-method", "selection"),
                CodeActionOp("inline", "position"),
                CodeActionOp("organize-imports", "file")>>

rust_operations ==
    Shared \o <<CodeActionOp("extract-variable", "selection"),
                CodeActionOp("extract-constant", "selection"),
                CodeActionOp("extract-function", "selection"),
                CodeActionOp("inline", "position")>>

ts_operations ==
    Shared \o <<CodeActionOp("extract-function", "selection"),
                CodeActionOp("extract-constant", "selection")>>

-----------------------------------------------------------------------------
(* The providers and the registry of operations.                           *)

NoProvider == "none"

Providers == {"jdtls", "rust-analyzer", "tsserver"}

Serves ==
    [p \in Providers |-> CASE p = "jdtls"         -> {"java"}
                          [] p = "rust-analyzer" -> {"rust"}
                          [] p = "tsserver"      -> {"typescript", "javascript"}]

Contributes ==
    [p \in Providers |-> CASE p = "jdtls"         -> java_operations
                          [] p = "rust-analyzer" -> rust_operations
                          [] p = "tsserver"      -> ts_operations]

(* ProviderRegistry::get, after build_providers.                           *)
provider_of(language) ==
    IF \E p \in Located : language \in Serves[p]
    THEN CHOOSE p \in Located : language \in Serves[p] ELSE NoProvider

(* A provider of several languages contributes its operations once.        *)
RegisteredBy(p) ==
    IF p \notin Located THEN <<>>
    ELSE [j \in DOMAIN Contributes[p] |-> [descriptor |-> Contributes[p][j], provider |-> p]]

Registered == RegisteredBy("jdtls") \o RegisteredBy("rust-analyzer") \o RegisteredBy("tsserver")

applies_to(r, language) == language \in Serves[r.provider]

(* One descriptor for each id, the first that was registered.              *)
FirstOfEach(regs) ==
    LET ids == {r.descriptor.id : r \in ToSet(regs)}
    IN  {regs[Min({i \in DOMAIN regs : regs[i].descriptor.id = id})].descriptor : id \in ids}

descriptors == FirstOfEach(Registered)

descriptors_for(project) ==
    FirstOfEach(SelectSeq(Registered,
        LAMBDA r : \E l \in ToSet(project.languages) : applies_to(r, l)))

Supports(r, id, language) == r.descriptor.id = id /\ applies_to(r, language)

languages_for(id, languages) ==
    Those(languages, {l \in ToSet(languages) : \E r \in ToSet(Registered) : Supports(r, id, l)})

(* The registration that serves a language; there is one for a candidate.  *)
resolve(id, language) ==
    Registered[Min({i \in DOMAIN Registered : Supports(Registered[i], id, language)})]

-----------------------------------------------------------------------------
(* Where a call belongs.  A route is "unspecified", "unplaceable" or a     *)
(* language; NoFile is the target of a project.                            *)

NoFile == <<>>

Named(file, where) ==
    IF file # NoFile /\ from_path(file) # NoLanguage THEN from_path(file)
    ELSE IF where \in ToSet(Languages) THEN where ELSE NoLanguage

(* Mutant: any candidate will do.                                          *)
any_candidate(candidates, language) ==
    IF candidates = <<>> THEN NoLanguage ELSE Head(candidates)

(* The language itself, or the first that shares its provider.             *)
serving_candidate(candidates, language) ==
    LET sharing == {i \in DOMAIN candidates : provider_of(candidates[i]) = provider_of(language)}
    IN  IF language \in ToSet(candidates) THEN language
        ELSE IF provider_of(language) = NoProvider \/ sharing = {} THEN NoLanguage
             ELSE candidates[Min(sharing)]

(* The languages that serve a request, <<>> if it is refused.              *)
dispatch_languages(candidates, descriptor, file, where) ==
    LET named == Named(file, where)
    IN  IF named # NoLanguage
        THEN LET c == serving_candidate(candidates, named)
             IN  IF c = NoLanguage THEN <<>> ELSE <<c>>
        ELSE IF where = "unplaceable" THEN <<>>
             ELSE IF descriptor.target = "project" /\ descriptor.kind = "query" THEN candidates
                  ELSE <<Head(candidates)>>
=============================================================================
