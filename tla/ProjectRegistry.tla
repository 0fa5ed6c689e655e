--------------------------- MODULE ProjectRegistry ---------------------------
(***************************************************************************)
(* The multi-tenant project registry and the file it is persisted to       *)
(* (crates/henka-core/src/registry.rs).  The operators are the bodies of   *)
(* its methods; Tenants, which models the MCP handler that calls them      *)
(* under a lock, gives them their callers.                                 *)
(*                                                                         *)
(* Ids and directories are numbers, since the map is ordered by id and a   *)
(* scan goes through directories in order.  A save opens the file, which   *)
(* empties it, and then writes it: two steps, as std::fs::write has them.  *)
(* A file that was only partly written holds the first of its entries, and *)
(* need not parse.                                                         *)
(***************************************************************************)
EXTENDS Integers, FiniteSets

CONSTANTS
    Ids,        \* project ids: valid slugs
    InvalidId,  \* an id that is no slug
    Dirs,       \* directories somebody may register
    AutoDirs,   \* those of them under an auto-register root
    DerivedId,  \* DerivedId[d]: the slug of directory d's name
    NoDir       \* nothing is registered under an id

ASSUME IdsAssumption  == Ids \subseteq Nat /\ Ids # {} /\ Dirs \subseteq Nat
ASSUME DirsAssumption == /\ AutoDirs \subseteq Dirs
                         /\ DerivedId \in [Dirs -> Ids]
                         /\ NoDir \notin Dirs /\ InvalidId \notin Ids

VARIABLES
    projects,   \* ProjectRegistry::projects: id |-> root
    file,       \* the registry file: whether it parses, and its entries
    tree        \* what is on disk at each directory

registryVars == <<projects, file, tree>>

-----------------------------------------------------------------------------
Registrations == [Ids -> Dirs \union {NoDir}]
Nothing       == [id \in Ids |-> NoDir]

(* "code": a directory in which a supported language is detected; "none":  *)
(* no directory, or no language in it, which register both refuses.        *)
Trees == {"none", "code"}

(* load: what a starting server reads; an unreadable file stops it.        *)
CanLoad == file.readable
load    == projects' = file.entries

(* Mutant: the id is not validated.                                        *)
can_register_any(id, d) == tree[d] = "code" /\ (id \in Ids => projects[id] = NoDir)

(* register fails on a root without code, an invalid and a taken id.       *)
CanRegister(id, d) == tree[d] = "code" /\ id \in Ids /\ projects[id] = NoDir

Insert(id, d) ==
    projects' = [k \in DOMAIN projects \union {id} |-> IF k = id THEN d ELSE projects[k]]
Remove(id) == projects' = [projects EXCEPT ![id] = NoDir]

(* Mutant: only the derived id is looked at.                               *)
is_registered_as_derived(d) == projects[DerivedId[d]] = d

is_registered_root(d) == \E id \in Ids : projects[id] = d

(* auto_register passes over a directory that is registered already, and   *)
(* over one that register refuses.                                         *)
SkippedByScan(d) == is_registered_root(d) \/ ~CanRegister(DerivedId[d], d)

-----------------------------------------------------------------------------
OpenForSave == file' = [readable |-> TRUE, entries |-> Nothing]

WriteEntries == file' = [readable |-> TRUE, entries |-> projects]

(* The write stops part way.                                               *)
WritePart ==
    \E last \in Ids, parses \in BOOLEAN :
        file' = [readable |-> parses,
                 entries  |-> [id \in Ids |-> IF id < last THEN projects[id] ELSE NoDir]]

RegistryInit ==
    /\ projects = Nothing
    /\ file = [readable |-> TRUE, entries |-> Nothing]
    /\ tree \in [Dirs -> Trees]

RegistryTypeOK ==
    /\ projects \in Registrations
    /\ file \in [readable : BOOLEAN, entries : Registrations]
    /\ tree \in [Dirs -> Trees]
=============================================================================
