--------------------------- MODULE VersionControl ---------------------------
(***************************************************************************)
(* What Henka asks of version control (crates/henka-core/src/vcs.rs): the  *)
(* identity of a repository, the revision and the changed files of a       *)
(* working copy, and their fingerprint.                                    *)
(*                                                                         *)
(* World is the file system and what the tools would answer, a record:     *)
(*   link     [directory that is a symbolic link -> its target], no link   *)
(*            lying within another                                         *)
(*   copies   [directory with a mark -> Copy], a Copy being a record       *)
(*     marks    a subset of {".jj", ".git"}                                *)
(*     common   git's answer for the common directory, NoPath if it fails  *)
(*     repo     where .jj/repo leads                                       *)
(*     works    whether jj or git runs there without an error              *)
(*     rev      the revision, a record [id, branch]                        *)
(*     head     [file -> text] as it is committed                          *)
(*     moved    staged renames and copies, records [status, from, to]      *)
(*   git      whether git can be run to hash files                         *)
(* Files are named relative to their copy.  A hash is its input: only      *)
(* equal inputs have equal hashes.                                         *)
(***************************************************************************)
EXTENDS Paths

CONSTANTS
    World,
    Spaced,     \* the relative paths with a space in their last name
    RenameLike  \* the relative paths with an R for their first or second byte

(* No link lies within another.  A copy is known by its mark; what is      *)
(* committed and staged is finite.                                         *)
ASSUME WorldAssumption ==
    /\ \A l \in DOMAIN World.link : /\ IsPath(l) /\ IsAbsolute(l) /\ IsPath(World.link[l])
                                   /\ \A k \in DOMAIN World.link : IsPrefix(k, l) => k = l
    /\ \A d \in DOMAIN World.copies :
        LET copy == World.copies[d]
        IN  /\ IsPath(d) /\ IsAbsolute(d) /\ copy.marks # {} /\ copy.marks \subseteq {".jj", ".git"}
            /\ IsFiniteSet(DOMAIN copy.head) /\ IsFiniteSet(copy.moved)
            /\ \A m \in copy.moved : m.status \in {"R", "C"}

NoRepo == [vcs |-> "none", path |-> NoPath]
NoRev  == [vcs |-> "none", id |-> "none", branch |-> "none"]

NotAFile == <<"not a file">>

-----------------------------------------------------------------------------
(* The file system and the tools.                                          *)

Follow(link, p) ==
    IF \E l \in DOMAIN link : StartsWith(p, l)
    THEN LET l == CHOOSE l \in DOMAIN link : StartsWith(p, l)
         IN  link[l] \o StripPrefix(p, l)
    ELSE p

canonicalize(p) == Follow(World.link, p)

(* What is at a directory; without a mark nothing is.                      *)
NoCopy == [marks |-> {}, works |-> FALSE]

Held(copies, dir) == IF dir \in DOMAIN copies THEN copies[dir] ELSE NoCopy

CopyAt(dir) == Held(World.copies, canonicalize(dir))

Marks(dir) == CopyAt(dir).marks

Files(texts) == DOMAIN texts

(* The files that differ from the commit, or have no counterpart there.    *)
Modified(head, texts) ==
    {f \in Files(texts) : f \in Files(head) /\ head[f] # texts[f]}

Untracked(head, texts) == Files(texts) \ Files(head)

Deleted(head, texts) == Files(head) \ Files(texts)

(* What the staged renames and copies name; the source of a copy stays.    *)
Targets(copy) == {m.to : m \in copy.moved}

Sources(copy) == {m.from : m \in {n \in copy.moved : n.status = "R"}} \ Targets(copy)

Tracked(copy) == (Files(copy.head) \ Sources(copy)) \union Targets(copy)

(* git lists a directory without any tracked file in place of its files.   *)
Collapsed(tracked, f) ==
    IF Len(f) > 1 /\ ~\E g \in tracked : Head(g) = Head(f)
    THEN <<Head(f)>> ELSE f

(* git status --porcelain -z: a field with the status and the path of an   *)
(* entry, and after a rename or a copy a field with the path it came from. *)
(* What was renamed away and is there again is a new file.                 *)
Field(status, path) == [status |-> status, path |-> path]

MovedFields(copy) ==
    LET order == SetToSeq(copy.moved)
    IN  [i \in 1..(2 * Len(order)) |->
            LET m == order[(i + 1) \div 2]
            IN  IF i % 2 = 1 THEN Field(m.status, m.to) ELSE Field("from", m.from)]

GitEntries(copy, texts) ==
    LET staged == Targets(copy) \union Sources(copy)
    IN  {Field("M", f) : f \in Modified(copy.head, texts) \ staged}
        \union {Field("D", f) : f \in Deleted(copy.head, texts) \ staged}
        \union {Field("?", Collapsed(Tracked(copy), f)) : f \in Files(texts) \ Tracked(copy)}

git_status(copy, texts) == MovedFields(copy) \o SetToSeq(GitEntries(copy, texts))

(* jj diff --summary: a line for each file.                                *)
JjLines(copy, texts) ==
    {Field(m.status, m.to) : m \in copy.moved}
    \union {Field("M", f) : f \in Modified(copy.head, texts) \ Targets(copy)}
    \union {Field("D", f) : f \in Deleted(copy.head, texts) \ (Targets(copy) \union Sources(copy))}
    \union {Field("A", f) : f \in Untracked(copy.head, texts) \ Targets(copy)}

jj_diff(copy, texts) == SetToSeq(JjLines(copy, texts))

-----------------------------------------------------------------------------
jj_repo_dir(copy) == canonicalize(copy.repo)

(* jj comes first; a git directory that git cannot tell has no identity.   *)
IdentityOf(copy, dir) ==
    IF ".jj" \in copy.marks THEN [vcs |-> "jj", path |-> jj_repo_dir(copy)]
    ELSE IF ".git" \in copy.marks /\ copy.common # NoPath
         THEN [vcs |-> "git", path |-> canonicalize(Join(dir, copy.common))]
         ELSE NoRepo

repo_identity(dir) == IdentityOf(CopyAt(dir), dir)

RevisionOf(copy) ==
    IF copy.works
    THEN [vcs |-> IF ".jj" \in copy.marks THEN "jj" ELSE "git",
          id |-> copy.rev.id, branch |-> copy.rev.branch]
    ELSE NoRev

detect_revision(dir) == RevisionOf(CopyAt(dir))

(* Mutant: of a rename, the path it came from is listed.                   *)
parse_sources(fields) ==
    [i \in DOMAIN fields |->
        IF fields[i].status = "R" THEN fields[i + 1].path
        ELSE IF fields[i].status = "from" THEN NotAFile ELSE fields[i].path]

(* The field after what looks like a rename is skipped.  The one after a   *)
(* copy is taken for an entry: it loses its first three bytes, and looks   *)
(* like a rename if one of the first two is an R.                          *)
LooksRenamed(field) ==
    field.status = "R" \/ (field.status = "from" /\ field.path \in RenameLike)

Skipped(fields) ==
    LET skip[i \in DOMAIN fields] == i > 1 /\ ~skip[i - 1] /\ LooksRenamed(fields[i - 1])
    IN  {i \in DOMAIN fields : skip[i]}

parse_git_porcelain_z(fields) ==
    LET kept == Those([i \in DOMAIN fields |-> i], DOMAIN fields \ Skipped(fields))
    IN  [k \in DOMAIN kept |-> IF fields[kept[k]].status = "from" THEN NotAFile
                               ELSE fields[kept[k]].path]

(* Of a rename or a copy, what follows the last space.                     *)
parse_jj_diff_summary(lines) ==
    [i \in DOMAIN lines |-> IF lines[i].status \in {"R", "C"} /\ lines[i].path \in Spaced
                            THEN NotAFile ELSE lines[i].path]

(* A tool that fails has no changes to report.  Only files that exist are  *)
(* listed.                                                                 *)
Reported(copy, texts) ==
    CASE ~copy.works -> <<>>
      [] copy.works /\ ".jj" \in copy.marks    -> parse_jj_diff_summary(jj_diff(copy, texts))
      [] copy.works /\ ".jj" \notin copy.marks -> parse_git_porcelain_z(git_status(copy, texts))

working_copy_delta(dir, texts) ==
    Those(Reported(CopyAt(dir), texts), Files(texts))

-----------------------------------------------------------------------------
(* The set of pairs is what the sorted manifest lists.  Without git there  *)
(* are no ids, and the digest is over the bytes.                           *)
working_copy_fingerprint(changed, texts) ==
    LET manifest == {[path |-> f, oid |-> texts[f]] : f \in ToSet(changed)}
    IN  [files  |-> IF World.git THEN manifest
                    ELSE {[path |-> f, oid |-> <<>>] : f \in ToSet(changed)},
         digest |-> manifest]
=============================================================================
