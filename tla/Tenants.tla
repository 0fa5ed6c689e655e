------------------------------- MODULE Tenants -------------------------------
(***************************************************************************)
(* The server over its registry and one provider's session pool:           *)
(* handle_call's project tools, warm_registry and the way a catalog call   *)
(* gets from a project id to a session (crates/henka-server/src/mcp.rs),   *)
(* with the process exiting and starting again.                            *)
(*                                                                         *)
(* The registry is behind a readers-writer lock.  A writer changes the map *)
(* and saves it before it lets go; reads are single steps that find no     *)
(* writer.  Faults says what may go wrong:                                 *)
(*   "exits"    the process exits while no save is under way               *)
(*   "refused"  a save cannot open the file                                *)
(*   "torn"     a save stops between opening the file and its end, by an   *)
(*              error or by the process exiting                            *)
(***************************************************************************)
EXTENDS ProjectRegistry, SessionPool

CONSTANTS
    Callers,    \* concurrent tool calls
    Main,       \* the task that starts the server
    NoTask,     \* nobody holds the registry's write lock
    Repo,       \* Repo[d]: identity of the repository directory d is in
    Unsure,     \* see granted
    Faults

ASSUME TasksAssumption == Main \notin Callers /\ NoTask \notin Callers \union {Main}
ASSUME RepoAssumption  == Repo \in [Dirs -> Repos]
ASSUME UnsureAssumption == Unsure \notin Dirs \union {NoDir}

Tasks == Callers \union {Main}

VARIABLES
    up,         \* the process runs
    writer,     \* the task that holds the registry's write lock
    pc,         \* pc[t]: how far task t has come
    job,        \* job[t]: what it was called for
    mine,       \* mine[c]: the session c started or got from the pool
    granted     \* what callers know: the root their registration of an id
                \* was acknowledged with, NoDir if it was unregistered or
                \* never registered, Unsure between a change and its
                \* acknowledgement, and for good if the call failed

taskVars == <<writer, pc, job, mine>>
vars     == <<registryVars, poolVars, taskVars, up, granted>>

(* scan: the directories a scan has left; scanning tells it from a call    *)
(* that registers one directory.                                           *)
Job   == [id : Ids \union {InvalidId}, dir : Dirs \union {NoDir},
          scanning : BOOLEAN, scan : SUBSET Dirs]
NoJob == [id |-> CHOOSE id \in Ids : TRUE, dir |-> NoDir, scanning |-> FALSE, scan |-> {}]

Steps == {"idle", "registering", "unregistering", "warming", "scanning", "saving",
          "writing", "listing", "looking", "pooling", "starting", "using"}

Goto(t, step) == pc' = [pc EXCEPT ![t] = step]

Return(t) ==
    /\ Goto(t, "idle")
    /\ job' = [job EXCEPT ![t] = NoJob]

Init ==
    /\ RegistryInit
    /\ PoolInit
    /\ up = FALSE
    /\ writer = NoTask
    /\ pc = [t \in Tasks |-> "idle"]
    /\ job = [t \in Tasks |-> NoJob]
    /\ mine = [c \in Callers |-> NoSession]
    /\ granted = Nothing

-----------------------------------------------------------------------------
(* main loads the registry and warms it before it serves anybody.          *)
StartServer ==
    /\ ~up
    /\ CanLoad
    /\ load
    /\ up' = TRUE
    /\ Goto(Main, "warming")
    /\ UNCHANGED <<file, tree, poolVars, writer, job, mine, granted>>

Serving == up /\ pc[Main] = "idle"

Call(c, step, j) ==
    /\ Serving
    /\ pc[c] = "idle"
    /\ Goto(c, step)
    /\ job' = [job EXCEPT ![c] = j]
    /\ UNCHANGED <<registryVars, poolVars, writer, mine, up, granted>>

(* The id is the caller's, or derived from the directory.                  *)
register_project(c) ==
    \E d \in Dirs, id \in Ids \union {InvalidId} :
        Call(c, "registering", [NoJob EXCEPT !.id = id, !.dir = d])
unregister_project(c) ==
    \E id \in Ids : Call(c, "unregistering", [NoJob EXCEPT !.id = id])
list_projects(c) == Call(c, "warming", NoJob)
dispatch_operation(c) ==
    \E id \in Ids : Call(c, "looking", [NoJob EXCEPT !.id = id])

-----------------------------------------------------------------------------
(* The write lock is held from the check to the end of the save.           *)
TakesLock(t, step) ==
    /\ pc[t] = step
    /\ writer = NoTask

Refused(t) ==
    /\ Return(t)
    /\ UNCHANGED <<projects, granted, writer>>

Changed(t, id) ==
    /\ writer' = t
    /\ granted' = [granted EXCEPT ![id] = Unsure]
    /\ Goto(t, "saving")

register(t) ==
    /\ TakesLock(t, "registering")
    /\ IF CanRegister(job[t].id, job[t].dir)
       THEN /\ Insert(job[t].id, job[t].dir)
            /\ Changed(t, job[t].id)
            /\ UNCHANGED job
       ELSE Refused(t)
    /\ UNCHANGED <<file, tree, poolVars, mine, up>>

unregister(t) ==
    /\ TakesLock(t, "unregistering")
    /\ IF projects[job[t].id] # NoDir
       THEN /\ Remove(job[t].id)
            /\ Changed(t, job[t].id)
            /\ UNCHANGED job
       ELSE Refused(t)
    /\ UNCHANGED <<file, tree, poolVars, mine, up>>

(* The scan lists the subdirectories there are, with or without code.      *)
warm_registry(t) ==
    /\ TakesLock(t, "warming")
    /\ writer' = t
    /\ Goto(t, "scanning")
    /\ \E found \in SUBSET AutoDirs :
        /\ \A d \in AutoDirs : tree[d] = "code" => d \in found
        /\ job' = [job EXCEPT ![t] = [@ EXCEPT !.scanning = TRUE, !.scan = found]]
    /\ UNCHANGED <<registryVars, poolVars, mine, up, granted>>

auto_register(t) ==
    /\ pc[t] = "scanning"
    /\ \E d \in job[t].scan :
        /\ \A e \in job[t].scan : d <= e
        /\ IF SkippedByScan(d)
           THEN /\ job' = [job EXCEPT ![t].scan = @ \ {d}]
                /\ UNCHANGED <<projects, granted, pc, writer>>
           ELSE /\ Insert(DerivedId[d], d)
                /\ Changed(t, DerivedId[d])
                /\ job' = [job EXCEPT ![t] =
                            [job[t] EXCEPT !.id = DerivedId[d], !.dir = d, !.scan = @ \ {d}]]
    /\ UNCHANGED <<file, tree, poolVars, mine, up>>

ScanDone(t) ==
    /\ pc[t] = "scanning"
    /\ job[t].scan = {}
    /\ writer' = NoTask
    /\ IF t = Main THEN Return(t) ELSE Goto(t, "listing") /\ UNCHANGED job
    /\ UNCHANGED <<registryVars, poolVars, mine, up, granted>>

list(t) ==
    /\ TakesLock(t, "listing")
    /\ Return(t)
    /\ UNCHANGED <<registryVars, poolVars, writer, mine, up, granted>>

-----------------------------------------------------------------------------
(* save, and what follows: a scan goes on with its next directory whatever *)
(* happened; another call lets go of the lock and returns.                 *)
AfterSave(t) ==
    IF job[t].scanning
    THEN Goto(t, "scanning") /\ UNCHANGED <<job, writer>>
    ELSE Return(t) /\ writer' = NoTask

(* Mutant: an error of the save is ignored.                                *)
ignore_refused(t) ==
    /\ "refused" \in Faults
    /\ pc[t] = "saving"
    /\ AfterSave(t)
    /\ granted' = [granted EXCEPT ![job[t].id] = job[t].dir]
    /\ UNCHANGED <<registryVars, poolVars, mine, up>>

SaveRefused(t) ==
    /\ "refused" \in Faults
    /\ pc[t] = "saving"
    /\ AfterSave(t)
    /\ UNCHANGED <<registryVars, poolVars, mine, up, granted>>

SaveOpens(t) ==
    /\ pc[t] = "saving"
    /\ OpenForSave
    /\ Goto(t, "writing")
    /\ UNCHANGED <<projects, tree, poolVars, writer, job, mine, up, granted>>

(* The write reaches its end and the call is acknowledged, or it does not. *)
SaveEnds(t) ==
    /\ pc[t] = "writing"
    /\ \E whole \in IF "torn" \in Faults THEN BOOLEAN ELSE {TRUE} :
        IF whole
        THEN /\ WriteEntries
             /\ granted' = [granted EXCEPT ![job[t].id] = job[t].dir]
        ELSE WritePart /\ UNCHANGED granted
    /\ AfterSave(t)
    /\ UNCHANGED <<projects, tree, poolVars, mine, up>>

-----------------------------------------------------------------------------
(* dispatch_operation: the project is copied out of the registry, which it *)
(* may leave again at once; then the provider is asked for its session.    *)
get(c) ==
    /\ TakesLock(c, "looking")
    /\ IF projects[job[c].id] = NoDir
       THEN Return(c)
       ELSE /\ Goto(c, "pooling")
            /\ job' = [job EXCEPT ![c].dir = projects[job[c].id]]
    /\ UNCHANGED <<registryVars, poolVars, writer, mine, up, granted>>

RepoOf(c) == Repo[job[c].dir]

session(c) ==
    /\ pc[c] = "pooling"
    /\ IF Pooled(RepoOf(c))
       THEN /\ mine' = [mine EXCEPT ![c] = sessions[RepoOf(c)]]
            /\ Goto(c, "using")
            /\ UNCHANGED poolVars
       ELSE /\ Start
            /\ mine' = [mine EXCEPT ![c] = started + 1]
            /\ Goto(c, "starting")
    /\ UNCHANGED <<registryVars, writer, job, up, granted>>

StartFails(c) ==
    /\ pc[c] = "starting"
    /\ live' = live \ {mine[c]}
    /\ mine' = [mine EXCEPT ![c] = NoSession]
    /\ Return(c)
    /\ UNCHANGED <<registryVars, sessions, started, writer, up, granted>>

SessionStarted(c) ==
    /\ pc[c] = "starting"
    /\ or_insert(RepoOf(c), mine[c])
    /\ DropLoser(RepoOf(c), mine[c])
    /\ mine' = [mine EXCEPT ![c] = sessions'[RepoOf(c)]]
    /\ Goto(c, "using")
    /\ UNCHANGED <<registryVars, started, writer, job, up, granted>>

(* The operation itself is RequestDispatch's business.                     *)
OperationDone(c) ==
    /\ pc[c] = "using"
    /\ mine' = [mine EXCEPT ![c] = NoSession]
    /\ Return(c)
    /\ UNCHANGED <<registryVars, poolVars, writer, up, granted>>

-----------------------------------------------------------------------------
(* The process exits, and its language servers with it.                    *)
Exit ==
    /\ up
    /\ \A t \in Tasks : pc[t] = "writing" => "torn" \in Faults
    /\ {"exits", "torn"} \intersect Faults # {}
    /\ up' = FALSE
    /\ projects' = Nothing
    /\ IF \E t \in Tasks : pc[t] = "writing" THEN WritePart ELSE UNCHANGED file
    /\ sessions' = [k \in Repos |-> NoSession]
    /\ live' = {}
    /\ writer' = NoTask
    /\ pc' = [t \in Tasks |-> "idle"]
    /\ job' = [t \in Tasks |-> NoJob]
    /\ mine' = [c \in Callers |-> NoSession]
    /\ UNCHANGED <<tree, started, granted>>

(* A checkout appears, or goes, or loses its last source file.             *)
TreeChanges ==
    /\ \E d \in Dirs, to \in Trees : tree' = [tree EXCEPT ![d] = to]
    /\ UNCHANGED <<projects, file, poolVars, taskVars, up, granted>>

ServerProcessExits ==
    /\ \E s \in live : live' = live \ {s}
    /\ UNCHANGED <<registryVars, sessions, started, taskVars, up, granted>>

Next ==
    \/ StartServer \/ Exit \/ TreeChanges \/ ServerProcessExits
    \/ \E c \in Callers :
          \/ register_project(c) \/ unregister_project(c)
          \/ list_projects(c) \/ dispatch_operation(c)
          \/ register(c) \/ unregister(c) \/ list(c)
          \/ get(c) \/ session(c) \/ StartFails(c) \/ SessionStarted(c) \/ OperationDone(c)
    \/ \E t \in Tasks :
          \/ warm_registry(t) \/ auto_register(t) \/ ScanDone(t)
          \/ SaveRefused(t) \/ SaveOpens(t) \/ SaveEnds(t)

Spec == Init /\ [][Next]_vars

-----------------------------------------------------------------------------
TypeOK ==
    /\ RegistryTypeOK
    /\ PoolTypeOK
    /\ up \in BOOLEAN
    /\ writer \in Tasks \union {NoTask}
    /\ pc \in [Tasks -> Steps]
    /\ job \in [Tasks -> Job]
    /\ mine \in [Callers -> Sessions \union {NoSession}]
    /\ granted \in [Ids -> Dirs \union {NoDir, Unsure}]

(* "Project registrations persist, so a restarted server restores its      *)
(* tenants" (docs/SPEC.md): a starting server finds every registration and *)
(* every removal that was acknowledged, whatever failed in between and     *)
(* whoever else was being registered.                                      *)
RestartRestores ==
    [][~up /\ up' => \A id \in Ids : granted[id] # Unsure => projects'[id] = granted[id]]_vars

(* A rescan registers no tree that is registered already, under whatever   *)
(* id and by whomever, while others register and unregister.               *)
RescanAddsNoAlias ==
    [][\A t \in Tasks, id \in Ids :
         pc[t] = "scanning" /\ projects[id] = NoDir /\ projects'[id] # NoDir =>
            \A other \in Ids : projects[other] # projects'[id]]_vars

(* All calls about one repository use one session, so that its request     *)
(* lock serializes them, though several may have started one.              *)
OneSessionPerRepository ==
    \A c, d \in Callers :
        pc[c] = "using" /\ pc[d] = "using" /\ RepoOf(c) = RepoOf(d) => mine[c] = mine[d]

(* No language server outlives its use: one that runs is in the pool, or   *)
(* still being started.                                                    *)
NoServerLeaks ==
    \A s \in live : \/ \E k \in Repos : sessions[k] = s
                    \/ \E c \in Callers : pc[c] = "starting" /\ mine[c] = s
=============================================================================
