---------------------------- MODULE Tenants_proofs ----------------------------
(* Theorems about Tenants, for any ids, directories, repositories, callers *)
(* and bound on starts, and for any Faults but where a theorem says so.    *)
EXTENDS Tenants, TLAPS

(* What a call's step says of what it was called for: whoever looks an id  *)
(* up has a valid one, and who is past the lookup has a project's root.    *)
JobInv ==
    \A t \in Tasks :
        /\ pc[t] \in {"unregistering", "looking"} => job[t].id \in Ids
        /\ pc[t] \in {"pooling", "starting", "using"} => job[t].dir \in Dirs

(* The parts of the type invariant. *)
TasksTypeOK ==
    /\ writer \in Tasks \union {NoTask}
    /\ pc \in [Tasks -> Steps]
    /\ job \in [Tasks -> Job]
    /\ mine \in [Callers -> Sessions \union {NoSession}]

OthersTypeOK ==
    /\ up \in BOOLEAN
    /\ granted \in [Ids -> Dirs \union {NoDir, Unsure}]

LEMMA TypeParts ==
    /\ TypeOK  <=> RegistryTypeOK  /\ PoolTypeOK  /\ TasksTypeOK  /\ OthersTypeOK
    /\ TypeOK' <=> RegistryTypeOK' /\ PoolTypeOK' /\ TasksTypeOK' /\ OthersTypeOK'
  BY DEF TypeOK, TasksTypeOK, OthersTypeOK

LEMMA NoJobType == NoJob \in Job /\ Nothing \in Registrations
  BY IdsAssumption DEF NoJob, Job, Nothing, Registrations

LEMMA RegistryStutter == RegistryTypeOK /\ UNCHANGED registryVars => RegistryTypeOK'
  BY DEF RegistryTypeOK, registryVars

LEMMA PoolStutter == PoolTypeOK /\ UNCHANGED poolVars => PoolTypeOK'
  BY DEF PoolTypeOK, poolVars

(* A task that moves on or returns keeps the tasks well typed, and says    *)
(* nothing new of its job.                                                 *)
LEMMA GotoType ==
  ASSUME TasksTypeOK, NEW t \in Tasks, NEW step \in Steps, Goto(t, step)
  PROVE  pc' \in [Tasks -> Steps]
  BY DEF TasksTypeOK, Goto

LEMMA ReturnType ==
  ASSUME TasksTypeOK, JobInv, NEW t \in Tasks, Return(t)
  PROVE  pc' \in [Tasks -> Steps] /\ job' \in [Tasks -> Job] /\ JobInv'
<1>1. pc' = [pc EXCEPT ![t] = "idle"] /\ job' = [job EXCEPT ![t] = NoJob]
  BY DEF Return, Goto
<1>2. pc' \in [Tasks -> Steps] /\ job' \in [Tasks -> Job]
  BY <1>1, NoJobType DEF TasksTypeOK, Steps
<1>3. \A u \in Tasks : pc'[u] = IF u = t THEN "idle" ELSE pc[u]
  BY <1>1 DEF TasksTypeOK
<1>4. \A u \in Tasks : u # t => job'[u] = job[u]
  BY <1>1 DEF TasksTypeOK
<1> QED
  BY <1>2, <1>3, <1>4 DEF JobInv

LEMMA JobInvKept ==
  ASSUME TasksTypeOK, JobInv, NEW t \in Tasks, NEW step \in Steps, Goto(t, step), UNCHANGED job,
         step \notin {"unregistering", "looking", "pooling"},
         step \in {"starting", "using"} => pc[t] \in {"pooling", "starting"}
  PROVE  JobInv'
<1>1. \A u \in Tasks : pc'[u] = IF u = t THEN step ELSE pc[u]
  BY DEF TasksTypeOK, Goto
<1> QED
  BY <1>1 DEF JobInv

LEMMA CallType ==
  ASSUME TasksTypeOK, JobInv, NEW c \in Callers, NEW step \in Steps, NEW j \in Job,
         Call(c, step, j), step \notin {"pooling", "starting", "using"},
         step \in {"unregistering", "looking"} => j.id \in Ids
  PROVE  TasksTypeOK' /\ JobInv'
<1>1. c \in Tasks
  BY DEF Tasks
<1>2. pc' = [pc EXCEPT ![c] = step] /\ job' = [job EXCEPT ![c] = j] /\ UNCHANGED <<writer, mine>>
  BY DEF Call, Goto
<1>3. TasksTypeOK'
  BY <1>1, <1>2 DEF TasksTypeOK
<1>4. \A u \in Tasks : /\ pc'[u] = IF u = c THEN step ELSE pc[u]
                       /\ job'[u] = IF u = c THEN j ELSE job[u]
  BY <1>1, <1>2 DEF TasksTypeOK
<1> QED
  BY <1>3, <1>4 DEF JobInv

-----------------------------------------------------------------------------
(* The methods of the registry. *)
LEMMA InsertType ==
  ASSUME RegistryTypeOK, NEW id \in Ids, NEW d \in Dirs \union {NoDir}, Insert(id, d)
  PROVE  projects' \in Registrations
  BY DEF RegistryTypeOK, Registrations, Insert

LEMMA ChangedType ==
  ASSUME OthersTypeOK, TasksTypeOK, NEW t \in Tasks, NEW id \in Ids, Changed(t, id)
  PROVE  /\ writer' \in Tasks /\ pc' \in [Tasks -> Steps]
         /\ granted' \in [Ids -> Dirs \union {NoDir, Unsure}]
  BY DEF OthersTypeOK, TasksTypeOK, Changed, Goto, Steps

LEMMA AfterSaveType ==
  ASSUME TasksTypeOK, JobInv, NEW t \in Tasks, AfterSave(t), UNCHANGED mine
  PROVE  TasksTypeOK' /\ JobInv'
<1>1. CASE job[t].scanning
  <2>1. Goto(t, "scanning") /\ UNCHANGED <<job, writer>>
    BY <1>1 DEF AfterSave
  <2>2. "scanning" \in Steps
    BY DEF Steps
  <2> QED
    BY <2>1, <2>2, GotoType, JobInvKept DEF TasksTypeOK
<1>2. CASE ~job[t].scanning
  <2>1. Return(t) /\ writer' = NoTask
    BY <1>2 DEF AfterSave
  <2> QED
    BY <2>1, ReturnType DEF TasksTypeOK
<1> QED
  BY <1>1, <1>2

LEMMA WritePartType ==
  ASSUME RegistryTypeOK, WritePart
  PROVE  file' \in [readable : BOOLEAN, entries : Registrations]
<1>1. PICK last \in Ids, parses \in BOOLEAN :
        file' = [readable |-> parses,
                 entries  |-> [id \in Ids |-> IF id < last THEN projects[id] ELSE NoDir]]
  BY DEF WritePart
<1>2. [id \in Ids |-> IF id < last THEN projects[id] ELSE NoDir] \in Registrations
  BY DEF RegistryTypeOK, Registrations
<1> QED
  BY <1>1, <1>2

-----------------------------------------------------------------------------
LEMMA InitTyped == Init => TypeOK /\ JobInv
<1> SUFFICES ASSUME Init PROVE TypeOK /\ JobInv
  OBVIOUS
<1>1. RegistryTypeOK
  BY NoJobType DEF Init, RegistryInit, RegistryTypeOK
<1>2. PoolTypeOK
  BY StartsAssumption DEF Init, PoolInit, PoolTypeOK
<1>3. TasksTypeOK /\ JobInv
  BY NoJobType DEF Init, TasksTypeOK, JobInv, Steps
<1>4. OthersTypeOK
  BY DEF Init, OthersTypeOK, Nothing
<1> QED
  BY <1>1, <1>2, <1>3, <1>4, TypeParts

(* What is said of a job whose task is past the lookup. *)
LEMMA RepoOfType ==
  ASSUME JobInv, NEW c \in Callers, pc[c] \in {"pooling", "starting", "using"}
  PROVE  job[c].dir \in Dirs /\ RepoOf(c) \in Repos
<1>1. job[c].dir \in Dirs
  BY DEF JobInv, Tasks
<1> QED
  BY <1>1, RepoAssumption DEF RepoOf

Typed == TypeOK /\ JobInv

LEMMA NextTyped == Typed /\ [Next]_vars => Typed'
<1> SUFFICES ASSUME RegistryTypeOK, PoolTypeOK, TasksTypeOK, OthersTypeOK, JobInv, [Next]_vars
             PROVE  RegistryTypeOK' /\ PoolTypeOK' /\ TasksTypeOK' /\ OthersTypeOK' /\ JobInv'
  BY TypeParts DEF Typed
<1> USE DEF Tasks
<1>1. CASE UNCHANGED vars
  BY <1>1, RegistryStutter, PoolStutter DEF vars, taskVars, TasksTypeOK, OthersTypeOK, JobInv
<1>2. CASE StartServer
  <2>1. RegistryTypeOK'
    BY <1>2 DEF StartServer, load, RegistryTypeOK
  <2>2. Goto(Main, "warming") /\ "warming" \in Steps /\ Main \in Tasks
    BY <1>2 DEF StartServer, Steps
  <2>3. TasksTypeOK' /\ JobInv'
    BY <1>2, <2>2, GotoType, JobInvKept DEF StartServer, TasksTypeOK
  <2> QED
    BY <1>2, <2>1, <2>3, PoolStutter DEF StartServer, OthersTypeOK
<1>3. CASE Exit
  <2>1. file' \in [readable : BOOLEAN, entries : Registrations]
    BY <1>3, WritePartType DEF Exit, RegistryTypeOK
  <2>2. RegistryTypeOK'
    BY <1>3, <2>1, NoJobType DEF Exit, RegistryTypeOK
  <2>3. PoolTypeOK'
    BY <1>3 DEF Exit, PoolTypeOK
  <2>4. TasksTypeOK' /\ JobInv'
    BY <1>3, NoJobType DEF Exit, TasksTypeOK, JobInv, Steps
  <2> QED
    BY <1>3, <2>2, <2>3, <2>4 DEF Exit, OthersTypeOK
<1>4. CASE TreeChanges
  <2>1. RegistryTypeOK'
    BY <1>4 DEF TreeChanges, RegistryTypeOK
  <2> QED
    BY <1>4, <2>1, PoolStutter DEF TreeChanges, taskVars, TasksTypeOK, OthersTypeOK, JobInv
<1>5. CASE ServerProcessExits
  <2>1. PoolTypeOK'
    BY <1>5 DEF ServerProcessExits, PoolTypeOK
  <2> QED
    BY <1>5, <2>1, RegistryStutter DEF ServerProcessExits, taskVars, TasksTypeOK, OthersTypeOK, JobInv
<1>6. ASSUME NEW c \in Callers,
             register_project(c) \/ unregister_project(c) \/ list_projects(c) \/ dispatch_operation(c)
      PROVE  RegistryTypeOK' /\ PoolTypeOK' /\ TasksTypeOK' /\ OthersTypeOK' /\ JobInv'
  <2>1. PICK step \in {"registering", "unregistering", "warming", "looking"}, j \in Job :
          Call(c, step, j) /\ (step \in {"unregistering", "looking"} => j.id \in Ids)
    <3>1. \A id \in Ids \union {InvalidId}, d \in Dirs :
            [NoJob EXCEPT !.id = id, !.dir = d] \in Job
      BY NoJobType DEF Job
    <3>2. \A id \in Ids : [NoJob EXCEPT !.id = id] \in Job /\ [NoJob EXCEPT !.id = id].id = id
      BY NoJobType DEF Job
    <3>3. CASE register_project(c)
      BY <3>1, <3>3 DEF register_project
    <3>4. CASE unregister_project(c)
      BY <3>2, <3>4 DEF unregister_project
    <3>5. CASE list_projects(c)
      BY <3>5, NoJobType DEF list_projects
    <3>6. CASE dispatch_operation(c)
      BY <3>2, <3>6 DEF dispatch_operation
    <3> QED
      BY <1>6, <3>3, <3>4, <3>5, <3>6
  <2>2. TasksTypeOK' /\ JobInv'
    BY <2>1, CallType DEF Steps
  <2>3. UNCHANGED <<registryVars, poolVars, up, granted>>
    BY <2>1 DEF Call
  <2> QED
    BY <2>2, <2>3, RegistryStutter, PoolStutter DEF OthersTypeOK
<1>7. ASSUME NEW c \in Callers, register(c)
      PROVE  RegistryTypeOK' /\ PoolTypeOK' /\ TasksTypeOK' /\ OthersTypeOK' /\ JobInv'
  <2> DEFINE id == job[c].id  d == job[c].dir
  <2>1. d \in Dirs \union {NoDir} /\ UNCHANGED <<file, tree, poolVars, mine, up>>
    BY <1>7 DEF register, TasksTypeOK, Job
  <2>2. CASE CanRegister(id, d)
    <3>1. /\ id \in Ids /\ Insert(id, d) /\ Changed(c, id) /\ UNCHANGED job
      BY <1>7, <2>2 DEF register, CanRegister
    <3>2. projects' \in Registrations
      BY <3>1, <2>1, InsertType
    <3>3. /\ writer' \in Tasks /\ pc' \in [Tasks -> Steps]
          /\ granted' \in [Ids -> Dirs \union {NoDir, Unsure}]
      BY <3>1, ChangedType
    <3>4. JobInv'
      BY <3>1, JobInvKept DEF Changed, Steps
    <3> QED
      BY <2>1, <3>1, <3>2, <3>3, <3>4, PoolStutter
      DEF RegistryTypeOK, TasksTypeOK, OthersTypeOK
  <2>3. CASE ~CanRegister(id, d)
    <3>1. Return(c) /\ UNCHANGED <<projects, granted, writer>>
      BY <1>7, <2>3 DEF register, Refused
    <3> QED
      BY <2>1, <3>1, ReturnType, RegistryStutter, PoolStutter
      DEF registryVars, TasksTypeOK, OthersTypeOK
  <2> QED
    BY <2>2, <2>3
<1>8. ASSUME NEW c \in Callers, unregister(c)
      PROVE  RegistryTypeOK' /\ PoolTypeOK' /\ TasksTypeOK' /\ OthersTypeOK' /\ JobInv'
  <2> DEFINE id == job[c].id
  <2>1. id \in Ids /\ UNCHANGED <<file, tree, poolVars, mine, up>>
    BY <1>8 DEF unregister, TakesLock, JobInv
  <2>2. CASE projects[id] # NoDir
    <3>1. Remove(id) /\ Changed(c, id) /\ UNCHANGED job
      BY <1>8, <2>2 DEF unregister
    <3>2. projects' \in Registrations
      BY <3>1 DEF Remove, RegistryTypeOK, Registrations
    <3>3. /\ writer' \in Tasks /\ pc' \in [Tasks -> Steps]
          /\ granted' \in [Ids -> Dirs \union {NoDir, Unsure}]
      BY <2>1, <3>1, ChangedType
    <3>4. JobInv'
      BY <3>1, JobInvKept DEF Changed, Steps
    <3> QED
      BY <2>1, <3>1, <3>2, <3>3, <3>4, PoolStutter
      DEF RegistryTypeOK, TasksTypeOK, OthersTypeOK
  <2>3. CASE projects[id] = NoDir
    <3>1. Return(c) /\ UNCHANGED <<projects, granted, writer>>
      BY <1>8, <2>3 DEF unregister, Refused
    <3> QED
      BY <2>1, <3>1, ReturnType, RegistryStutter, PoolStutter
      DEF registryVars, TasksTypeOK, OthersTypeOK
  <2> QED
    BY <2>2, <2>3
<1>9. ASSUME NEW c \in Callers, list(c)
      PROVE  RegistryTypeOK' /\ PoolTypeOK' /\ TasksTypeOK' /\ OthersTypeOK' /\ JobInv'
  BY <1>9, ReturnType, RegistryStutter, PoolStutter DEF list, TasksTypeOK, OthersTypeOK
<1>10. ASSUME NEW c \in Callers, get(c)
       PROVE  RegistryTypeOK' /\ PoolTypeOK' /\ TasksTypeOK' /\ OthersTypeOK' /\ JobInv'
  <2>1. /\ job[c].id \in Ids
        /\ UNCHANGED <<registryVars, poolVars, writer, mine, up, granted>>
    BY <1>10 DEF get, TakesLock, JobInv
  <2>2. CASE projects[job[c].id] = NoDir
    BY <1>10, <2>1, <2>2, ReturnType, RegistryStutter, PoolStutter
    DEF get, TasksTypeOK, OthersTypeOK
  <2>3. CASE projects[job[c].id] # NoDir
    <3>1. projects[job[c].id] \in Dirs
      BY <2>1, <2>3 DEF RegistryTypeOK, Registrations
    <3>2. /\ pc' = [pc EXCEPT ![c] = "pooling"]
          /\ job' = [job EXCEPT ![c].dir = projects[job[c].id]]
      BY <1>10, <2>3 DEF get, Goto
    <3>3. pc' \in [Tasks -> Steps] /\ job' \in [Tasks -> Job]
      BY <3>1, <3>2 DEF TasksTypeOK, Steps, Job
    <3>4. job'[c].dir \in Dirs
      BY <3>1, <3>2 DEF TasksTypeOK, Job
    <3>5. \A u \in Tasks : pc'[u] = IF u = c THEN "pooling" ELSE pc[u]
      BY <3>2 DEF TasksTypeOK
    <3>6. \A u \in Tasks : u # c => job'[u] = job[u]
      BY <3>2 DEF TasksTypeOK
    <3>7. JobInv'
      BY <3>4, <3>5, <3>6 DEF JobInv
    <3> QED
      BY <2>1, <3>3, <3>7, RegistryStutter, PoolStutter DEF TasksTypeOK, OthersTypeOK
  <2> QED
    BY <2>2, <2>3
<1>11. ASSUME NEW c \in Callers, session(c)
       PROVE  RegistryTypeOK' /\ PoolTypeOK' /\ TasksTypeOK' /\ OthersTypeOK' /\ JobInv'
  <2>1. RepoOf(c) \in Repos /\ UNCHANGED <<registryVars, writer, job, up, granted>>
    BY <1>11, RepoOfType DEF session
  <2>2. PICK step \in {"using", "starting"} : Goto(c, step) /\ pc[c] = "pooling"
    BY <1>11 DEF session
  <2>3. pc' \in [Tasks -> Steps] /\ JobInv'
    BY <2>1, <2>2, GotoType, JobInvKept DEF Steps
  <2>4. PoolTypeOK' /\ mine' \in [Callers -> Sessions \union {NoSession}]
    <3>1. CASE Pooled(RepoOf(c))
      BY <1>11, <2>1, <3>1, PoolStutter DEF session, TasksTypeOK, PoolTypeOK
    <3>2. CASE ~Pooled(RepoOf(c))
      <4>1. /\ Start
            /\ mine' = [mine EXCEPT ![c] = started + 1]
        BY <1>11, <3>2 DEF session
      <4>2. started + 1 \in Sessions /\ started' = started + 1
        BY <4>1, StartsAssumption DEF Start, Sessions, PoolTypeOK
      <4>3. PoolTypeOK'
        BY <4>1, <4>2, StartsAssumption DEF Start, PoolTypeOK, Sessions
      <4> QED
        BY <4>1, <4>2, <4>3 DEF TasksTypeOK
    <3> QED
      BY <3>1, <3>2
  <2> QED
    BY <2>1, <2>3, <2>4, RegistryStutter DEF TasksTypeOK, OthersTypeOK
<1>12. ASSUME NEW c \in Callers, StartFails(c) \/ OperationDone(c)
       PROVE  RegistryTypeOK' /\ PoolTypeOK' /\ TasksTypeOK' /\ OthersTypeOK' /\ JobInv'
  <2>1. /\ Return(c)
        /\ mine' = [mine EXCEPT ![c] = NoSession]
        /\ live' \in SUBSET live
        /\ UNCHANGED <<registryVars, sessions, started, writer, up, granted>>
    BY <1>12 DEF StartFails, OperationDone, poolVars
  <2>2. PoolTypeOK'
    BY <2>1 DEF PoolTypeOK
  <2> QED
    BY <2>1, <2>2, ReturnType, RegistryStutter DEF TasksTypeOK, OthersTypeOK
<1>13. ASSUME NEW c \in Callers, SessionStarted(c)
       PROVE  RegistryTypeOK' /\ PoolTypeOK' /\ TasksTypeOK' /\ OthersTypeOK' /\ JobInv'
  <2>1. RepoOf(c) \in Repos /\ UNCHANGED <<registryVars, started, writer, job, up, granted>>
    BY <1>13, RepoOfType DEF SessionStarted
  <2>2. pc' \in [Tasks -> Steps] /\ JobInv'
    BY <1>13, <2>1, GotoType, JobInvKept DEF SessionStarted, Steps
  <2>3. sessions' \in [Repos -> Sessions \union {NoSession}]
    BY <1>13, <2>1 DEF SessionStarted, or_insert, PoolTypeOK, TasksTypeOK
  <2>4. PoolTypeOK'
    BY <1>13, <2>1, <2>3 DEF SessionStarted, DropLoser, PoolTypeOK
  <2>5. mine' \in [Callers -> Sessions \union {NoSession}]
    BY <1>13, <2>1, <2>3 DEF SessionStarted, TasksTypeOK
  <2> QED
    BY <2>1, <2>2, <2>4, <2>5, RegistryStutter DEF TasksTypeOK, OthersTypeOK
<1>14. ASSUME NEW t \in Tasks, warm_registry(t)
       PROVE  RegistryTypeOK' /\ PoolTypeOK' /\ TasksTypeOK' /\ OthersTypeOK' /\ JobInv'
  <2>1. PICK found \in SUBSET AutoDirs :
          job' = [job EXCEPT ![t] = [@ EXCEPT !.scanning = TRUE, !.scan = found]]
    BY <1>14 DEF warm_registry
  <2>2. job' \in [Tasks -> Job]
    BY <2>1, DirsAssumption DEF TasksTypeOK, Job
  <2>3. pc' = [pc EXCEPT ![t] = "scanning"]
    BY <1>14 DEF warm_registry, Goto
  <2>4. pc' \in [Tasks -> Steps]
    BY <2>3 DEF TasksTypeOK, Steps
  <2>5. \A u \in Tasks : pc'[u] = IF u = t THEN "scanning" ELSE pc[u]
    BY <2>3 DEF TasksTypeOK
  <2>6. \A u \in Tasks : u # t => job'[u] = job[u]
    BY <2>1 DEF TasksTypeOK
  <2>7. JobInv'
    BY <2>5, <2>6 DEF JobInv
  <2> QED
    BY <1>14, <2>2, <2>4, <2>7, RegistryStutter, PoolStutter
    DEF warm_registry, TasksTypeOK, OthersTypeOK
<1>15. ASSUME NEW t \in Tasks, auto_register(t)
       PROVE  RegistryTypeOK' /\ PoolTypeOK' /\ TasksTypeOK' /\ OthersTypeOK' /\ JobInv'
  <2>1. PICK d \in job[t].scan :
          IF SkippedByScan(d)
           THEN /\ job' = [job EXCEPT ![t].scan = @ \ {d}]
                /\ UNCHANGED <<projects, granted, pc, writer>>
           ELSE /\ Insert(DerivedId[d], d)
                /\ Changed(t, DerivedId[d])
                /\ job' = [job EXCEPT ![t] =
                            [job[t] EXCEPT !.id = DerivedId[d], !.dir = d, !.scan = @ \ {d}]]
    BY <1>15 DEF auto_register
  <2>2. /\ pc[t] = "scanning" /\ UNCHANGED <<file, tree, poolVars, mine, up>>
        /\ d \in Dirs /\ DerivedId[d] \in Ids
    BY <1>15, DirsAssumption DEF auto_register, TasksTypeOK, Job
  <2>3. job' \in [Tasks -> Job]
    <3>1. job[t] \in Job
      BY DEF TasksTypeOK
    <3>2. /\ [job[t] EXCEPT !.scan = @ \ {d}] \in Job
          /\ [job[t] EXCEPT !.id = DerivedId[d], !.dir = d, !.scan = @ \ {d}] \in Job
      BY <2>2, <3>1 DEF Job
    <3>3. CASE SkippedByScan(d)
      BY <2>1, <3>1, <3>2, <3>3 DEF TasksTypeOK
    <3>4. CASE ~SkippedByScan(d)
      <4> DEFINE j == [job[t] EXCEPT !.id = DerivedId[d], !.dir = d, !.scan = @ \ {d}]
      <4>1. job' = [job EXCEPT ![t] = j] /\ j \in Job
        BY <2>1, <3>2, <3>4
      <4> HIDE DEF j
      <4> QED
        BY <4>1 DEF TasksTypeOK
    <3> QED
      BY <3>3, <3>4
  <2>4. \A u \in Tasks : u # t => job'[u] = job[u]
    BY <2>1 DEF TasksTypeOK
  <2>5. CASE SkippedByScan(d)
    <3>1. UNCHANGED <<projects, granted, pc, writer>>
      BY <2>1, <2>5
    <3>2. JobInv'
      BY <2>2, <2>4, <3>1 DEF JobInv
    <3> QED
      BY <2>2, <2>3, <3>1, <3>2, RegistryStutter, PoolStutter
      DEF registryVars, TasksTypeOK, OthersTypeOK
  <2>6. CASE ~SkippedByScan(d)
    <3>1. Insert(DerivedId[d], d) /\ Changed(t, DerivedId[d])
      BY <2>1, <2>6
    <3>2. /\ projects' \in Registrations
          /\ writer' \in Tasks /\ pc' \in [Tasks -> Steps]
          /\ granted' \in [Ids -> Dirs \union {NoDir, Unsure}]
      BY <2>2, <3>1, InsertType, ChangedType
    <3>3. \A u \in Tasks : pc'[u] = IF u = t THEN "saving" ELSE pc[u]
      BY <3>1 DEF Changed, Goto, TasksTypeOK
    <3>4. JobInv'
      BY <2>4, <3>3 DEF JobInv
    <3> QED
      BY <2>2, <2>3, <3>2, <3>4, PoolStutter DEF RegistryTypeOK, TasksTypeOK, OthersTypeOK
  <2> QED
    BY <2>5, <2>6
<1>16. ASSUME NEW t \in Tasks, ScanDone(t)
       PROVE  RegistryTypeOK' /\ PoolTypeOK' /\ TasksTypeOK' /\ OthersTypeOK' /\ JobInv'
  <2>1. writer' = NoTask /\ UNCHANGED <<registryVars, poolVars, mine, up, granted>>
    BY <1>16 DEF ScanDone
  <2>2. pc' \in [Tasks -> Steps] /\ job' \in [Tasks -> Job] /\ JobInv'
    <3>1. CASE t = Main
      BY <1>16, <3>1, ReturnType DEF ScanDone
    <3>2. CASE t # Main
      BY <1>16, <3>2, GotoType, JobInvKept DEF ScanDone, Steps, TasksTypeOK
    <3> QED
      BY <3>1, <3>2
  <2> QED
    BY <2>1, <2>2, RegistryStutter, PoolStutter DEF TasksTypeOK, OthersTypeOK
<1>17. ASSUME NEW t \in Tasks, SaveRefused(t)
       PROVE  RegistryTypeOK' /\ PoolTypeOK' /\ TasksTypeOK' /\ OthersTypeOK' /\ JobInv'
  BY <1>17, AfterSaveType, RegistryStutter, PoolStutter DEF SaveRefused, OthersTypeOK
<1>18. ASSUME NEW t \in Tasks, SaveOpens(t)
       PROVE  RegistryTypeOK' /\ PoolTypeOK' /\ TasksTypeOK' /\ OthersTypeOK' /\ JobInv'
  <2>1. RegistryTypeOK'
    BY <1>18, NoJobType DEF SaveOpens, OpenForSave, RegistryTypeOK
  <2>2. pc' \in [Tasks -> Steps] /\ JobInv'
    BY <1>18, GotoType, JobInvKept DEF SaveOpens, Steps
  <2> QED
    BY <1>18, <2>1, <2>2, PoolStutter DEF SaveOpens, TasksTypeOK, OthersTypeOK
<1>19. ASSUME NEW t \in Tasks, SaveEnds(t)
       PROVE  RegistryTypeOK' /\ PoolTypeOK' /\ TasksTypeOK' /\ OthersTypeOK' /\ JobInv'
  <2>1. AfterSave(t) /\ UNCHANGED <<projects, tree, poolVars, mine, up>>
    BY <1>19 DEF SaveEnds
  <2>2. \/ WriteEntries /\ granted' = [granted EXCEPT ![job[t].id] = job[t].dir]
        \/ WritePart /\ UNCHANGED granted
    BY <1>19 DEF SaveEnds
  <2>3. file' \in [readable : BOOLEAN, entries : Registrations]
    <3>1. CASE WriteEntries
      BY <3>1 DEF WriteEntries, RegistryTypeOK
    <3>2. CASE WritePart
      BY <3>2, WritePartType
    <3> QED
      BY <2>2, <3>1, <3>2
  <2>4. granted' \in [Ids -> Dirs \union {NoDir, Unsure}]
    BY <2>2 DEF OthersTypeOK, TasksTypeOK, Job
  <2> QED
    BY <2>1, <2>3, <2>4, AfterSaveType, PoolStutter DEF RegistryTypeOK, OthersTypeOK
<1> QED
  BY <1>1, <1>2, <1>3, <1>4, <1>5, <1>6, <1>7, <1>8, <1>9, <1>10, <1>11, <1>12, <1>13,
     <1>14, <1>15, <1>16, <1>17, <1>18, <1>19 DEF Next

LEMMA AlwaysTyped == Spec => []Typed
<1> QED
  BY InitTyped, NextTyped, PTL DEF Spec, Typed

(* The registry, the pool, the tasks and what callers know keep their      *)
(* types through every failure and restart.                                *)
THEOREM TypeCorrect == Spec => []TypeOK
<1>1. Typed => TypeOK
  BY DEF Typed
<1> QED
  BY AlwaysTyped, <1>1, PTL

-----------------------------------------------------------------------------
(* Who is between the change of the map and the end of the save holds the  *)
(* write lock, and nobody runs while the process is down.                  *)
LockInv ==
    /\ \A t \in Tasks : pc[t] \in {"scanning", "saving", "writing"} => writer = t
    /\ ~up => \A t \in Tasks : pc[t] = "idle"

LEMMA LockInit == Init => LockInv
  BY DEF Init, LockInv

LEMMA LockNext == Typed /\ LockInv /\ [Next]_vars => LockInv'
<1> SUFFICES ASSUME TasksTypeOK, LockInv, [Next]_vars PROVE LockInv'
  BY TypeParts DEF Typed
<1> USE DEF TasksTypeOK, LockInv, Tasks
<1>1. CASE UNCHANGED vars
  BY <1>1 DEF vars, taskVars
<1>2. CASE StartServer
  BY <1>2 DEF StartServer, Goto
<1>3. CASE Exit
  BY <1>3 DEF Exit
<1>4. CASE TreeChanges \/ ServerProcessExits
  BY <1>4 DEF TreeChanges, ServerProcessExits, taskVars
<1>5. ASSUME NEW c \in Callers,
             register_project(c) \/ unregister_project(c) \/ list_projects(c) \/ dispatch_operation(c)
      PROVE  LockInv'
  <2>1. PICK step \in {"registering", "unregistering", "warming", "looking"} :
          pc' = [pc EXCEPT ![c] = step] /\ up /\ UNCHANGED <<up, writer>>
    BY <1>5 DEF register_project, unregister_project, list_projects, dispatch_operation, Call,
       Serving, Goto
  <2> QED
    BY <2>1
<1>6. ASSUME NEW c \in Callers, register(c) \/ unregister(c) PROVE LockInv'
  <2>1. pc[c] # "idle" /\ writer = NoTask /\ UNCHANGED up
    BY <1>6 DEF register, unregister, TakesLock
  <2>2. \/ pc' = [pc EXCEPT ![c] = "saving"] /\ writer' = c
        \/ pc' = [pc EXCEPT ![c] = "idle"] /\ writer' = writer
    BY <1>6 DEF register, unregister, Changed, Refused, Return, Goto
  <2> QED
    BY <2>1, <2>2, TasksAssumption
<1>7. ASSUME NEW c \in Callers, list(c) \/ get(c) PROVE LockInv'
  BY <1>7 DEF list, get, TakesLock, Return, Goto
<1>8. ASSUME NEW c \in Callers,
             session(c) \/ StartFails(c) \/ SessionStarted(c) \/ OperationDone(c)
      PROVE  LockInv'
  BY <1>8 DEF session, StartFails, SessionStarted, OperationDone, Return, Goto
<1>9. ASSUME NEW t \in Tasks, warm_registry(t) PROVE LockInv'
  BY <1>9, TasksAssumption DEF warm_registry, TakesLock, Goto
<1>10. ASSUME NEW t \in Tasks, auto_register(t) PROVE LockInv'
  <2>1. \/ UNCHANGED <<pc, writer>>
        \/ pc' = [pc EXCEPT ![t] = "saving"] /\ writer' = t
    BY <1>10 DEF auto_register, Changed, Goto
  <2> QED
    BY <1>10, <2>1 DEF auto_register
<1>11. ASSUME NEW t \in Tasks, ScanDone(t) PROVE LockInv'
  <2>1. PICK step \in {"idle", "listing"} : pc' = [pc EXCEPT ![t] = step]
    BY <1>11 DEF ScanDone, Return, Goto
  <2> QED
    BY <1>11, <2>1 DEF ScanDone
<1>12. ASSUME NEW t \in Tasks, SaveRefused(t) \/ SaveEnds(t) PROVE LockInv'
  <2>1. \/ pc' = [pc EXCEPT ![t] = "scanning"] /\ UNCHANGED writer
        \/ pc' = [pc EXCEPT ![t] = "idle"] /\ writer' = NoTask
    BY <1>12 DEF SaveRefused, SaveEnds, AfterSave, Return, Goto
  <2> QED
    BY <1>12, <2>1 DEF SaveRefused, SaveEnds
<1>13. ASSUME NEW t \in Tasks, SaveOpens(t) PROVE LockInv'
  BY <1>13 DEF SaveOpens, Goto
<1> QED
  BY <1>1, <1>2, <1>3, <1>4, <1>5, <1>6, <1>7, <1>8, <1>9, <1>10, <1>11, <1>12, <1>13 DEF Next

-----------------------------------------------------------------------------
(* What a call uses is what the pool has for its repository, and what it   *)
(* is starting is a session of its own.                                    *)
PoolInv ==
    \A c \in Callers :
        /\ pc[c] = "using" => Pooled(RepoOf(c)) /\ mine[c] = sessions[RepoOf(c)]
        /\ pc[c] = "starting" => mine[c] \in Sessions

SessionsInv == PoolInv /\ NoServerLeaks

(* The steps that are about no session. *)
PoolKept ==
    /\ UNCHANGED <<sessions, live, mine>>
    /\ \A c \in Callers : pc[c] \in {"starting", "using"} \/ pc'[c] \in {"starting", "using"} =>
                             pc'[c] = pc[c] /\ job'[c] = job[c]

LEMMA PoolKeptInv == SessionsInv /\ PoolKept => SessionsInv'
  BY DEF SessionsInv, PoolInv, NoServerLeaks, PoolKept, Pooled, RepoOf

LEMMA OtherStepsKeepPool ==
  ASSUME TasksTypeOK,
         \/ UNCHANGED vars \/ StartServer \/ TreeChanges
         \/ \E c \in Callers :
               \/ register_project(c) \/ unregister_project(c)
               \/ list_projects(c) \/ dispatch_operation(c)
               \/ register(c) \/ unregister(c) \/ list(c) \/ get(c)
         \/ \E t \in Tasks :
               \/ warm_registry(t) \/ auto_register(t) \/ ScanDone(t)
               \/ SaveRefused(t) \/ SaveOpens(t) \/ SaveEnds(t)
  PROVE  PoolKept
<1> USE DEF TasksTypeOK, PoolKept, Tasks, poolVars
<1>1. CASE UNCHANGED vars
  BY <1>1 DEF vars, taskVars
<1>2. CASE StartServer
  BY <1>2, TasksAssumption DEF StartServer, Goto
<1>3. CASE TreeChanges
  BY <1>3 DEF TreeChanges, taskVars
<1>4. ASSUME NEW c \in Callers,
             register_project(c) \/ unregister_project(c) \/ list_projects(c) \/ dispatch_operation(c)
      PROVE  PoolKept
  BY <1>4 DEF register_project, unregister_project, list_projects, dispatch_operation, Call, Goto
<1>5. ASSUME NEW c \in Callers, register(c) \/ unregister(c) PROVE PoolKept
  <2>1. \/ pc' = [pc EXCEPT ![c] = "saving"] /\ UNCHANGED job
        \/ pc' = [pc EXCEPT ![c] = "idle"] /\ job' = [job EXCEPT ![c] = NoJob]
    BY <1>5 DEF register, unregister, Changed, Refused, Return, Goto
  <2>2. pc[c] \notin {"starting", "using"} /\ UNCHANGED <<sessions, live, mine>>
    BY <1>5 DEF register, unregister, TakesLock
  <2> QED
    BY <2>1, <2>2
<1>6. ASSUME NEW c \in Callers, list(c) \/ get(c) PROVE PoolKept
  BY <1>6 DEF list, get, TakesLock, Return, Goto
<1>7. ASSUME NEW t \in Tasks, warm_registry(t) PROVE PoolKept
  BY <1>7 DEF warm_registry, TakesLock, Goto
<1>8. ASSUME NEW t \in Tasks, auto_register(t) PROVE PoolKept
  <2>1. \/ UNCHANGED pc
        \/ pc' = [pc EXCEPT ![t] = "saving"]
    BY <1>8 DEF auto_register, Changed, Goto
  <2>2. \A u \in Tasks : u # t => job'[u] = job[u]
    BY <1>8 DEF auto_register
  <2> QED
    BY <1>8, <2>1, <2>2 DEF auto_register
<1>9. ASSUME NEW t \in Tasks, ScanDone(t) PROVE PoolKept
  <2>1. PICK step \in {"idle", "listing"} : pc' = [pc EXCEPT ![t] = step]
    BY <1>9 DEF ScanDone, Return, Goto
  <2>2. \A u \in Tasks : u # t => job'[u] = job[u]
    BY <1>9 DEF ScanDone, Return
  <2> QED
    BY <1>9, <2>1, <2>2 DEF ScanDone
<1>10. ASSUME NEW t \in Tasks, SaveRefused(t) \/ SaveEnds(t) PROVE PoolKept
  <2>1. PICK step \in {"idle", "scanning"} : pc' = [pc EXCEPT ![t] = step]
    BY <1>10 DEF SaveRefused, SaveEnds, AfterSave, Return, Goto
  <2>2. \A u \in Tasks : u # t => job'[u] = job[u]
    BY <1>10 DEF SaveRefused, SaveEnds, AfterSave, Return
  <2> QED
    BY <1>10, <2>1, <2>2 DEF SaveRefused, SaveEnds
<1>11. ASSUME NEW t \in Tasks, SaveOpens(t) PROVE PoolKept
  BY <1>11 DEF SaveOpens, Goto
<1> QED
  BY <1>1, <1>2, <1>3, <1>4, <1>5, <1>6, <1>7, <1>8, <1>9, <1>10, <1>11

LEMMA SessionsInit == Init => SessionsInv
  BY DEF Init, PoolInit, Tasks, SessionsInv, PoolInv, NoServerLeaks

LEMMA SessionsNext == Typed /\ SessionsInv /\ [Next]_vars => SessionsInv'
<1> SUFFICES ASSUME PoolTypeOK, TasksTypeOK, JobInv, SessionsInv, [Next]_vars
             PROVE  SessionsInv'
  BY TypeParts DEF Typed
<1> USE DEF Tasks
<1>1. CASE Exit
  BY <1>1 DEF Exit, SessionsInv, PoolInv, NoServerLeaks
<1>2. CASE ServerProcessExits
  BY <1>2 DEF ServerProcessExits, taskVars, SessionsInv, PoolInv, NoServerLeaks, Pooled, RepoOf
<1>3. ASSUME NEW c \in Callers, session(c) PROVE SessionsInv'
  <2>1. RepoOf(c) \in Repos /\ pc[c] = "pooling" /\ UNCHANGED job
    BY <1>3, RepoOfType DEF session
  <2>2. CASE Pooled(RepoOf(c))
    <3>1. /\ mine' = [mine EXCEPT ![c] = sessions[RepoOf(c)]]
          /\ pc' = [pc EXCEPT ![c] = "using"] /\ UNCHANGED <<sessions, live>>
      BY <1>3, <2>2 DEF session, Goto, poolVars
    <3> QED
      BY <2>1, <2>2, <3>1 DEF TasksTypeOK, SessionsInv, PoolInv, NoServerLeaks, Pooled, RepoOf
  <2>3. CASE ~Pooled(RepoOf(c))
    <3>1. /\ mine' = [mine EXCEPT ![c] = started + 1] /\ started + 1 \in Sessions
          /\ pc' = [pc EXCEPT ![c] = "starting"]
          /\ live' = live \union {started + 1} /\ UNCHANGED sessions
      BY <1>3, <2>3, StartsAssumption DEF session, Start, Goto, PoolTypeOK, Sessions
    <3>2. PoolInv'
      BY <2>1, <3>1 DEF TasksTypeOK, SessionsInv, PoolInv, Pooled, RepoOf
    <3>3. ASSUME NEW s \in live'
          PROVE  \/ \E k \in Repos : sessions'[k] = s
                 \/ \E d \in Callers : pc'[d] = "starting" /\ mine'[d] = s
      <4>1. CASE s = started + 1
        BY <3>1, <4>1 DEF TasksTypeOK
      <4>2. CASE s \in live
        BY <2>1, <3>1, <4>2 DEF TasksTypeOK, SessionsInv, NoServerLeaks
      <4> QED
        BY <3>1, <4>1, <4>2
    <3> QED
      BY <3>2, <3>3 DEF SessionsInv, NoServerLeaks
  <2> QED
    BY <2>2, <2>3
<1>4. ASSUME NEW c \in Callers, StartFails(c) PROVE SessionsInv'
  <2>1. /\ pc[c] = "starting" /\ pc' = [pc EXCEPT ![c] = "idle"]
        /\ job' = [job EXCEPT ![c] = NoJob] /\ mine' = [mine EXCEPT ![c] = NoSession]
        /\ live' = live \ {mine[c]} /\ UNCHANGED sessions
    BY <1>4 DEF StartFails, Return, Goto
  <2> QED
    BY <2>1 DEF TasksTypeOK, SessionsInv, PoolInv, NoServerLeaks, Pooled, RepoOf
<1>5. ASSUME NEW c \in Callers, SessionStarted(c) PROVE SessionsInv'
  <2> DEFINE k == RepoOf(c)
  <2>1. /\ k \in Repos /\ pc[c] = "starting" /\ pc' = [pc EXCEPT ![c] = "using"]
        /\ sessions' = [sessions EXCEPT ![k] = IF Pooled(k) THEN @ ELSE mine[c]]
        /\ live' = IF sessions'[k] = mine[c] THEN live ELSE live \ {mine[c]}
        /\ mine' = [mine EXCEPT ![c] = sessions'[k]] /\ UNCHANGED job
    BY <1>5, RepoOfType DEF SessionStarted, or_insert, DropLoser, Goto
  <2>2. mine[c] # NoSession
    BY <2>1, StartsAssumption DEF SessionsInv, PoolInv, Sessions, NoSession
  <2>3. \A r \in Repos : sessions[r] # NoSession => sessions'[r] = sessions[r]
    BY <2>1 DEF PoolTypeOK, Pooled
  <2>4. sessions'[k] # NoSession
    BY <2>1, <2>2 DEF PoolTypeOK, Pooled
  <2>5. ASSUME NEW d \in Callers, pc'[d] = "using"
        PROVE  sessions'[RepoOf(d)'] # NoSession /\ mine'[d] = sessions'[RepoOf(d)']
    <3>1. RepoOf(d)' = RepoOf(d)
      BY <2>1 DEF RepoOf
    <3>2. CASE d = c
      BY <2>1, <2>4, <3>1, <3>2 DEF TasksTypeOK
    <3>3. CASE d # c
      <4>1. pc[d] = "using" /\ mine'[d] = mine[d]
        BY <2>1, <2>5, <3>3 DEF TasksTypeOK
      <4>2. RepoOf(d) \in Repos
        BY <4>1, RepoOfType
      <4> QED
        BY <2>3, <3>1, <4>1, <4>2 DEF SessionsInv, PoolInv, Pooled
    <3> QED
      BY <3>2, <3>3
  <2>6. PoolInv'
    BY <2>1, <2>5 DEF TasksTypeOK, SessionsInv, PoolInv, Pooled
  <2>7. ASSUME NEW s \in live'
        PROVE  \/ \E r \in Repos : sessions'[r] = s
               \/ \E d \in Callers : pc'[d] = "starting" /\ mine'[d] = s
    <3>1. s \in live /\ (s = mine[c] => sessions'[k] = s)
      BY <2>1
    <3>2. CASE \E r \in Repos : sessions[r] = s
      <4>1. s # NoSession
        BY <3>1, StartsAssumption DEF PoolTypeOK, Sessions, NoSession
      <4> QED
        BY <2>3, <3>2, <4>1
    <3>3. CASE \E d \in Callers : pc[d] = "starting" /\ mine[d] = s
      BY <2>1, <3>1, <3>3 DEF TasksTypeOK
    <3> QED
      BY <3>1, <3>2, <3>3 DEF SessionsInv, NoServerLeaks
  <2> QED
    BY <2>6, <2>7 DEF SessionsInv, NoServerLeaks
<1>6. ASSUME NEW c \in Callers, OperationDone(c) PROVE SessionsInv'
  <2>1. /\ pc[c] = "using" /\ pc' = [pc EXCEPT ![c] = "idle"]
        /\ job' = [job EXCEPT ![c] = NoJob] /\ mine' = [mine EXCEPT ![c] = NoSession]
        /\ UNCHANGED <<live, sessions>>
    BY <1>6 DEF OperationDone, Return, Goto, poolVars
  <2> QED
    BY <2>1 DEF TasksTypeOK, SessionsInv, PoolInv, NoServerLeaks, Pooled, RepoOf
<1> QED
  BY <1>1, <1>2, <1>3, <1>4, <1>5, <1>6, OtherStepsKeepPool, PoolKeptInv DEF Next

LEMMA AlwaysPooled == Spec => []SessionsInv
<1> QED
  BY AlwaysTyped, SessionsInit, SessionsNext, PTL DEF Spec

(* All calls about one repository use one session, though several callers  *)
(* may each have started one (LanguageProvider::session).                  *)
THEOREM RepositoriesHaveOneSession == Spec => []OneSessionPerRepository
<1>1. SessionsInv => OneSessionPerRepository
  BY DEF SessionsInv, PoolInv, OneSessionPerRepository
<1> QED
  BY AlwaysPooled, <1>1, PTL

(* Every language server that runs is in the pool or still being started:  *)
(* the loser of a race for the pool is stopped, as is a failed start.      *)
THEOREM ServersDoNotLeak == Spec => []NoServerLeaks
<1>1. SessionsInv => NoServerLeaks
  BY DEF SessionsInv
<1> QED
  BY AlwaysPooled, <1>1, PTL

-----------------------------------------------------------------------------
(* What callers know of an id agrees with the map while the process runs,  *)
(* and with the file unless a save is under way; a save is about the       *)
(* change that its task made.                                              *)
RestartInv ==
    /\ up => \A id \in Ids : granted[id] # Unsure => projects[id] = granted[id]
    /\ (\A t \in Tasks : pc[t] # "writing") =>
          \A id \in Ids : granted[id] # Unsure => file.entries[id] = granted[id]
    /\ \A t \in Tasks : pc[t] \in {"saving", "writing"} => projects[job[t].id] = job[t].dir
    /\ \A t \in Tasks : pc[t] = "unregistering" => job[t].dir = NoDir

(* The steps that change neither the map nor its file. *)
RegistryKept ==
    /\ UNCHANGED <<projects, file, up, granted>>
    /\ \A t \in Tasks : pc[t] = "writing" \/ pc'[t] \in {"saving", "writing"} =>
                           pc'[t] = pc[t] /\ job'[t] = job[t]
    /\ \A t \in Tasks : pc'[t] = "unregistering" =>
                           job'[t].dir = NoDir \/ (pc'[t] = pc[t] /\ job'[t] = job[t])

LEMMA RegistryKeptInv == RestartInv /\ RegistryKept => RestartInv'
  BY DEF RestartInv, RegistryKept

LEMMA OtherStepsKeepRegistry ==
  ASSUME TasksTypeOK,
         \/ UNCHANGED vars \/ TreeChanges \/ ServerProcessExits
         \/ \E c \in Callers :
               \/ register_project(c) \/ unregister_project(c)
               \/ list_projects(c) \/ dispatch_operation(c)
               \/ list(c) \/ get(c)
               \/ session(c) \/ StartFails(c) \/ SessionStarted(c) \/ OperationDone(c)
         \/ \E t \in Tasks : warm_registry(t) \/ ScanDone(t) \/ SaveRefused(t)
  PROVE  RegistryKept
<1> USE DEF TasksTypeOK, RegistryKept, Tasks, registryVars
<1>1. CASE UNCHANGED vars
  BY <1>1 DEF vars, taskVars
<1>2. CASE TreeChanges \/ ServerProcessExits
  BY <1>2 DEF TreeChanges, ServerProcessExits, taskVars
<1>3. ASSUME NEW c \in Callers,
             register_project(c) \/ unregister_project(c) \/ list_projects(c) \/ dispatch_operation(c)
      PROVE  RegistryKept
  <2>1. PICK step \in {"registering", "unregistering", "warming", "looking"}, j \in Job :
          Call(c, step, j) /\ (step = "unregistering" => j.dir = NoDir)
    <3>1. \A id \in Ids \union {InvalidId}, d \in Dirs :
            [NoJob EXCEPT !.id = id, !.dir = d] \in Job
      BY NoJobType DEF Job
    <3>2. \A id \in Ids : [NoJob EXCEPT !.id = id] \in Job
                          /\ [NoJob EXCEPT !.id = id].dir = NoDir
      BY NoJobType DEF Job, NoJob
    <3>3. CASE register_project(c)
      BY <3>1, <3>3 DEF register_project
    <3>4. CASE unregister_project(c)
      BY <3>2, <3>4 DEF unregister_project
    <3>5. CASE list_projects(c)
      BY <3>5, NoJobType DEF list_projects
    <3>6. CASE dispatch_operation(c)
      BY <3>2, <3>6 DEF dispatch_operation
    <3> QED
      BY <1>3, <3>3, <3>4, <3>5, <3>6
  <2>2. /\ pc[c] = "idle" /\ pc' = [pc EXCEPT ![c] = step] /\ job' = [job EXCEPT ![c] = j]
        /\ UNCHANGED <<projects, file, up, granted>>
    BY <2>1 DEF Call, Goto, registryVars
  <2>3. \A u \in Tasks : /\ pc'[u] = IF u = c THEN step ELSE pc[u]
                         /\ job'[u] = IF u = c THEN j ELSE job[u]
    BY <2>2
  <2> QED
    BY <2>1, <2>2, <2>3
<1>4. ASSUME NEW c \in Callers, list(c) \/ get(c) PROVE RegistryKept
  BY <1>4 DEF list, get, TakesLock, Return, Goto
<1>5. ASSUME NEW c \in Callers,
             session(c) \/ StartFails(c) \/ SessionStarted(c) \/ OperationDone(c)
      PROVE  RegistryKept
  BY <1>5 DEF session, StartFails, SessionStarted, OperationDone, Return, Goto
<1>6. ASSUME NEW t \in Tasks, warm_registry(t) PROVE RegistryKept
  BY <1>6 DEF warm_registry, TakesLock, Goto
<1>7. ASSUME NEW t \in Tasks, ScanDone(t) PROVE RegistryKept
  <2>1. PICK step \in {"idle", "listing"} : pc' = [pc EXCEPT ![t] = step]
    BY <1>7 DEF ScanDone, Return, Goto
  <2>2. \A u \in Tasks : u # t => job'[u] = job[u]
    BY <1>7 DEF ScanDone, Return
  <2> QED
    BY <1>7, <2>1, <2>2 DEF ScanDone
<1>8. ASSUME NEW t \in Tasks, SaveRefused(t) PROVE RegistryKept
  <2>1. PICK step \in {"idle", "scanning"} : pc' = [pc EXCEPT ![t] = step]
    BY <1>8 DEF SaveRefused, AfterSave, Return, Goto
  <2>2. \A u \in Tasks : u # t => job'[u] = job[u]
    BY <1>8 DEF SaveRefused, AfterSave, Return
  <2> QED
    BY <1>8, <2>1, <2>2 DEF SaveRefused
<1> QED
  BY <1>1, <1>2, <1>3, <1>4, <1>5, <1>6, <1>7, <1>8

(* A change of the map, under the lock: the id is in doubt until the save. *)
LEMMA ChangeKeepsRestart ==
  ASSUME TypeOK, LockInv, RestartInv, NEW t \in Tasks, NEW id \in Ids, NEW d,
         \A u \in Tasks \ {t} : pc[u] \notin {"saving", "writing"} /\ job'[u] = job[u],
         pc[t] # "writing",
         \A k \in Ids : projects'[k] = IF k = id THEN d ELSE projects[k],
         Changed(t, id), job'[t].id = id, job'[t].dir = d, UNCHANGED <<file, up>>
  PROVE  RestartInv'
<1>1. /\ pc' = [pc EXCEPT ![t] = "saving"]
      /\ granted' = [granted EXCEPT ![id] = Unsure]
  BY DEF Changed, Goto
<1>2. \A u \in Tasks : pc[u] # "writing"
  OBVIOUS
<1>3. \A u \in Tasks : pc'[u] = IF u = t THEN "saving" ELSE pc[u]
  BY <1>1 DEF TypeOK
<1>4. \A k \in Ids : granted'[k] = IF k = id THEN Unsure ELSE granted[k]
  BY <1>1 DEF TypeOK
<1> QED
  BY <1>2, <1>3, <1>4 DEF RestartInv

LEMMA RestartInit == Init => RestartInv
  BY DEF Init, RegistryInit, RestartInv, Nothing

LEMMA RestartNext ==
  ASSUME "torn" \notin Faults, Typed, LockInv, RestartInv, [Next]_vars
  PROVE  RestartInv'
<1>1. RegistryTypeOK /\ TasksTypeOK /\ OthersTypeOK /\ TypeOK /\ JobInv
  BY TypeParts DEF Typed
<1>2. ASSUME NEW t \in Tasks, writer \in {t, NoTask}
      PROVE  \A u \in Tasks \ {t} : pc[u] \notin {"scanning", "saving", "writing"}
  BY <1>2, TasksAssumption DEF LockInv, Tasks
<1>3. CASE StartServer
  <2>1. /\ \A t \in Tasks : pc[t] = "idle" /\ pc'[t] \in {"idle", "warming"}
        /\ projects' = file.entries /\ UNCHANGED <<file, granted>>
    BY <1>1, <1>3 DEF StartServer, load, LockInv, Goto, TasksTypeOK
  <2> QED
    BY <2>1 DEF RestartInv
<1>4. CASE Exit
  <2>1. /\ UNCHANGED <<file, granted>> /\ ~up'
        /\ \A t \in Tasks : pc[t] # "writing" /\ pc'[t] = "idle"
    BY <1>4 DEF Exit
  <2> QED
    BY <2>1 DEF RestartInv
<1>5. ASSUME NEW c \in Callers, register(c) PROVE RestartInv'
  <2>1. CASE CanRegister(job[c].id, job[c].dir)
    <3>1. /\ pc[c] = "registering" /\ writer = NoTask /\ job[c].id \in Ids
          /\ Insert(job[c].id, job[c].dir) /\ Changed(c, job[c].id) /\ UNCHANGED <<job, file, up>>
      BY <1>5, <2>1 DEF register, TakesLock, CanRegister
    <3>2. \A k \in Ids : projects'[k] = IF k = job[c].id THEN job[c].dir ELSE projects[k]
      BY <1>1, <3>1 DEF Insert, RegistryTypeOK, Registrations
    <3> QED
      BY <1>1, <1>2, <3>1, <3>2, ChangeKeepsRestart DEF Tasks
  <2>2. CASE ~CanRegister(job[c].id, job[c].dir)
    <3>1. /\ pc' = [pc EXCEPT ![c] = "idle"] /\ job' = [job EXCEPT ![c] = NoJob]
          /\ pc[c] = "registering" /\ UNCHANGED <<projects, granted, file, up>>
      BY <1>5, <2>2 DEF register, TakesLock, Refused, Return, Goto
    <3> QED
      BY <1>1, <3>1 DEF RestartInv, TasksTypeOK
  <2> QED
    BY <2>1, <2>2
<1>6. ASSUME NEW c \in Callers, unregister(c) PROVE RestartInv'
  <2>1. pc[c] = "unregistering" /\ writer = NoTask /\ job[c].id \in Ids /\ job[c].dir = NoDir
    BY <1>1, <1>6 DEF unregister, TakesLock, JobInv, RestartInv, Tasks
  <2>2. CASE projects[job[c].id] # NoDir
    <3>1. /\ Remove(job[c].id) /\ Changed(c, job[c].id) /\ UNCHANGED <<job, file, up>>
      BY <1>6, <2>2 DEF unregister
    <3>2. \A k \in Ids : projects'[k] = IF k = job[c].id THEN job[c].dir ELSE projects[k]
      BY <1>1, <2>1, <3>1 DEF Remove, RegistryTypeOK, Registrations
    <3> QED
      BY <1>1, <1>2, <2>1, <3>1, <3>2, ChangeKeepsRestart DEF Tasks
  <2>3. CASE projects[job[c].id] = NoDir
    <3>1. /\ pc' = [pc EXCEPT ![c] = "idle"] /\ job' = [job EXCEPT ![c] = NoJob]
          /\ UNCHANGED <<projects, granted, file, up>>
      BY <1>6, <2>3 DEF unregister, Refused, Return, Goto
    <3> QED
      BY <1>1, <2>1, <3>1 DEF RestartInv, TasksTypeOK
  <2> QED
    BY <2>2, <2>3
<1>7. ASSUME NEW t \in Tasks, auto_register(t) PROVE RestartInv'
  <2>1. pc[t] = "scanning" /\ writer = t /\ UNCHANGED <<file, up>>
    BY <1>7 DEF auto_register, LockInv
  <2>2. PICK d \in job[t].scan :
          IF SkippedByScan(d)
           THEN /\ job' = [job EXCEPT ![t].scan = @ \ {d}]
                /\ UNCHANGED <<projects, granted, pc, writer>>
           ELSE /\ Insert(DerivedId[d], d)
                /\ Changed(t, DerivedId[d])
                /\ job' = [job EXCEPT ![t] =
                            [job[t] EXCEPT !.id = DerivedId[d], !.dir = d, !.scan = @ \ {d}]]
    BY <1>7 DEF auto_register
  <2>3. \A u \in Tasks \ {t} : job'[u] = job[u]
    BY <1>1, <2>2 DEF TasksTypeOK
  <2>4. CASE SkippedByScan(d)
    BY <1>1, <2>1, <2>2, <2>3, <2>4 DEF RestartInv
  <2>5. CASE ~SkippedByScan(d)
    <3>1. /\ Insert(DerivedId[d], d) /\ Changed(t, DerivedId[d])
          /\ job' = [job EXCEPT ![t] =
                            [job[t] EXCEPT !.id = DerivedId[d], !.dir = d, !.scan = @ \ {d}]]
      BY <2>2, <2>5
    <3>2. DerivedId[d] \in Ids
      BY <1>1, DirsAssumption DEF TasksTypeOK, Job
    <3>3. job'[t].id = DerivedId[d] /\ job'[t].dir = d
      BY <1>1, <3>1 DEF TasksTypeOK, Job
    <3>4. \A k \in Ids : projects'[k] = IF k = DerivedId[d] THEN d ELSE projects[k]
      BY <1>1, <3>1, <3>2 DEF Insert, RegistryTypeOK, Registrations
    <3> QED
      BY <1>1, <1>2, <2>1, <2>3, <3>1, <3>2, <3>3, <3>4, ChangeKeepsRestart
  <2> QED
    BY <2>4, <2>5
<1>8. ASSUME NEW t \in Tasks, SaveOpens(t) PROVE RestartInv'
  <2>1. pc[t] = "saving" /\ pc' = [pc EXCEPT ![t] = "writing"]
        /\ UNCHANGED <<projects, job, up, granted>>
    BY <1>8 DEF SaveOpens, Goto
  <2> QED
    BY <1>1, <2>1 DEF RestartInv, TasksTypeOK
<1>9. ASSUME NEW t \in Tasks, SaveEnds(t) PROVE RestartInv'
  <2>1. /\ pc[t] = "writing" /\ writer = t /\ up
        /\ file' = [readable |-> TRUE, entries |-> projects]
        /\ granted' = [granted EXCEPT ![job[t].id] = job[t].dir]
        /\ UNCHANGED <<projects, up>>
    BY <1>9 DEF SaveEnds, WriteEntries, LockInv
  <2>2. PICK step \in {"idle", "scanning"} : pc' = [pc EXCEPT ![t] = step]
    BY <1>9 DEF SaveEnds, AfterSave, Return, Goto
  <2>3. \A u \in Tasks : u # t => job'[u] = job[u]
    BY <1>1, <1>9 DEF SaveEnds, AfterSave, Return, TasksTypeOK
  <2>4. projects[job[t].id] = job[t].dir
    BY <2>1 DEF RestartInv
  <2>5. \A id \in Ids : granted'[id] # Unsure => projects[id] = granted'[id]
    BY <1>1, <2>1, <2>4 DEF RestartInv, OthersTypeOK
  <2>6. \A u \in Tasks : u # t => pc[u] \notin {"saving", "writing"}
    BY <1>2, <2>1
  <2>7. \A u \in Tasks : pc'[u] = IF u = t THEN step ELSE pc[u]
    BY <1>1, <2>2 DEF TasksTypeOK
  <2> QED
    BY <2>1, <2>3, <2>5, <2>6, <2>7 DEF RestartInv
<1> QED
  BY <1>1, <1>3, <1>4, <1>5, <1>6, <1>7, <1>8, <1>9, OtherStepsKeepRegistry, RegistryKeptInv
  DEF Next

(* A starting server finds every registration and every removal that was   *)
(* acknowledged, whatever was refused or exited in between, if no save     *)
(* stops half way (ProjectRegistry::save, load).                           *)
THEOREM RegistrationsPersist == ASSUME "torn" \notin Faults PROVE Spec => RestartRestores
<1>1. RestartInv /\ LockInv /\ [Next]_vars =>
        [~up /\ up' => \A id \in Ids : granted[id] # Unsure => projects'[id] = granted[id]]_vars
  <2> SUFFICES ASSUME RestartInv, LockInv, Next, ~up, up'
               PROVE  \A id \in Ids : granted[id] # Unsure => projects'[id] = granted[id]
    OBVIOUS
  <2>1. StartServer
    BY DEF Next, Exit, TreeChanges, ServerProcessExits, register_project, unregister_project,
       list_projects, dispatch_operation, Call, register, unregister, list, get, session,
       StartFails, SessionStarted, OperationDone, warm_registry, auto_register, ScanDone,
       SaveRefused, SaveOpens, SaveEnds
  <2> QED
    BY <2>1 DEF StartServer, load, LockInv, RestartInv
<1>2. Typed /\ LockInv /\ RestartInv /\ [Next]_vars => RestartInv'
  BY RestartNext
<1> QED
  BY AlwaysTyped, LockInit, LockNext, RestartInit, <1>1, <1>2, PTL DEF Spec, RestartRestores

(* A scan registers no directory that is registered already, under         *)
(* whatever id, while others register and unregister (auto_register holds  *)
(* the write lock from its check to its change).                           *)
THEOREM RescansAddNoAlias == Spec => RescanAddsNoAlias
<1>1. Typed /\ LockInv /\ [Next]_vars =>
        [\A t \in Tasks, id \in Ids :
           pc[t] = "scanning" /\ projects[id] = NoDir /\ projects'[id] # NoDir =>
              \A other \in Ids : projects[other] # projects'[id]]_vars
  <2> SUFFICES ASSUME TypeOK, LockInv, Next, NEW t \in Tasks, NEW id \in Ids,
                      pc[t] = "scanning", projects[id] = NoDir, projects'[id] # NoDir
               PROVE  \A other \in Ids : projects[other] # projects'[id]
    BY DEF Typed
  <2>1. writer = t /\ t # NoTask /\ up
    BY TasksAssumption DEF LockInv, Tasks
  <2>2. ASSUME NEW u \in Tasks, auto_register(u)
        PROVE  \A other \in Ids : projects[other] # projects'[id]
    <3>1. PICK d \in job[u].scan :
            IF SkippedByScan(d) THEN UNCHANGED projects
            ELSE Insert(DerivedId[d], d)
      BY <2>2 DEF auto_register
    <3>2. ~SkippedByScan(d) /\ Insert(DerivedId[d], d)
      BY <3>1
    <3>3. projects'[id] = d
      BY <3>2 DEF Insert, TypeOK, RegistryTypeOK, Registrations
    <3> QED
      BY <3>2, <3>3 DEF SkippedByScan, is_registered_root
  <2>3. ~Exit
    BY DEF Exit, Nothing
  <2> QED
    BY <2>1, <2>2, <2>3
    DEF Next, StartServer, TreeChanges, ServerProcessExits, register_project, unregister_project,
       list_projects, dispatch_operation, Call, register, unregister, TakesLock, list, get, session,
       StartFails, SessionStarted, OperationDone, warm_registry, ScanDone,
       SaveRefused, SaveOpens, SaveEnds, registryVars
<1> QED
  BY AlwaysTyped, LockInit, LockNext, <1>1, PTL DEF Spec, RescanAddsNoAlias
=============================================================================
