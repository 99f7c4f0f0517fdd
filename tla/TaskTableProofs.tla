---------------------------- MODULE TaskTableProofs ----------------------------
(***************************************************************************)
(* TaskScheduler implements TaskTable, for every set of tasks and          *)
(* triggers; and its kernel watches are never orphans.                     *)
(***************************************************************************)
EXTENDS TaskSchedulerProofs

\* The version Schedule works on is the newest, and what it has not replaced yet
\* of its task are entries of one older version.
VersionInv ==
    /\ pc # "idle" => definition[current].version = version
    /\ \A t \in Tasks : \A x, y \in Triggers :
           /\ triggerTasks[x][t] \notin {0, definition[t].version}
           /\ triggerTasks[y][t] \notin {0, definition[t].version}
           => triggerTasks[x][t] = triggerTasks[y][t]

\* The entries of a task Schedule is not at work on are those of its definition,
\* so when it starts on the task they are all of one version.
LEMMA StepVersionInv ==
    ASSUME SchedulerTypeOK, DispatchInv, VersionInv, [Next]_vars
    PROVE  VersionInv'
<1> USE DEF VersionInv
<1>t. /\ current \in Tasks \cup {NoTask} /\ (pc # "idle" => current \in Tasks)
      /\ definition \in [Tasks -> [triggers : SUBSET Triggers, version : Nat]]
      /\ triggerTasks \in [Triggers -> [Tasks -> Nat]]
      /\ version \in Nat
  BY DEF SchedulerTypeOK, TablesTypeOK, HandlerTypeOK
<1>1. ASSUME UNCHANGED <<definition, triggerTasks, pc, current, version>>
      PROVE  VersionInv'
  BY <1>1
<1>2. ASSUME NEW t \in Tasks, NEW S \in Definitions[t], ScheduleNew(t, S) \/ Reschedule(t, S)
      PROVE  VersionInv'
  <2>1. /\ pc = "idle" /\ current = NoTask
        /\ pc' # "idle" /\ current' = t /\ version' = version + 1
        /\ definition' = [definition EXCEPT ![t] = [triggers |-> S, version |-> version']]
        /\ UNCHANGED triggerTasks
    BY <1>2 DEF ScheduleNew, Reschedule, DispatchInv, CurrentInv
  <2>2. \A u \in Tasks, x \in Triggers :
           triggerTasks[x][u] \in {0, definition[u].version}
    BY <2>1, TasksAssumption DEF DispatchInv, NoStaleDispatch, Fresh
  <2>3. definition'[t].version = version' /\ \A u \in Tasks \ {t} : definition'[u] = definition[u]
    BY <1>t, <2>1
  <2> QED
    BY <2>1, <2>2, <2>3
<1>3. ASSUME NEW x \in Triggers, UpdateTriggerSchedules(x) \/ UpdateTriggerExists(x)
      PROVE  VersionInv'
  <2>1. current \in Tasks /\ UNCHANGED <<definition, pc, current, version>>
    BY <1>3, <1>t DEF UpdateTriggerSchedules, UpdateTriggerExists, Updating
  <2>2. \A y \in Triggers, u \in Tasks :
           triggerTasks'[y][u] \in {0, definition[u].version, triggerTasks[y][u]}
    BY <1>3, <1>t, <2>1 DEF UpdateTriggerSchedules, UpdateTriggerExists
  <2> QED
    BY <2>1, <2>2
<1>4. ASSUME NEW x \in Triggers, RemoveTrigger(x)
      PROVE  VersionInv'
  <2>1. current \in Tasks /\ UNCHANGED <<definition, pc, current, version>>
    BY <1>4, <1>t DEF RemoveTrigger, Sweeping
  <2>2. \A y \in Triggers, u \in Tasks : triggerTasks'[y][u] \in {0, triggerTasks[y][u]}
    BY <1>4, <1>t, <2>1 DEF RemoveTrigger
  <2> QED
    BY <2>1, <2>2
<1>5. CASE AddDone \/ UpdateDone \/ RemoveDone
  BY <1>5 DEF AddDone, UpdateDone, RemoveDone, tableVars
<1>6. ASSUME NEW x \in Triggers,
             \/ UpdateTriggerFails(x) \/ UpdateTriggerPanics(x) \/ UpdateTriggerNilMap(x)
             \/ RemoveTriggerPanics(x)
      PROVE  VersionInv'
  BY <1>1, <1>6 DEF UpdateTriggerFails, UpdateTriggerPanics, UpdateTriggerNilMap,
                    RemoveTriggerPanics, Dies, tableVars, handlerVars
<1>7. CASE Start \/ Stop \/ Environment \/ UNCHANGED vars
  <2>1. UNCHANGED <<tableVars, handlerVars>>
    BY <1>7, CallbacksKeepTables DEF Start, Stop, Environment, MapRace, Dies, FileGone, vars
  <2> QED
    BY <1>1, <2>1 DEF tableVars, handlerVars
<1> QED
  BY <1>2, <1>3, <1>4, <1>5, <1>6, <1>7 DEF Next, Schedule

\* The versions of a task that Schedule is not at work on: the one it has.
LEMMA SettledTasks ==
    ASSUME DispatchInv, NEW t \in Tasks, t # current
    PROVE  LiveVersions(t) = {definition[u].version : u \in tasks \cap {t}}
  BY DEF DispatchInv, NoStaleDispatch, Fresh, LiveVersions

\* Of the task it is at work on: the newest one, and perhaps one before it.
LEMMA CurrentVersions ==
    ASSUME DispatchInv, VersionInv, pc # "idle"
    PROVE  LiveVersions(current) =
               {version} \cup ({triggerTasks[x][current] : x \in Triggers} \ {0})
<1>1. current \in tasks /\ definition[current].version = version
  BY DEF DispatchInv, CurrentInv, VersionInv
<1> QED
  BY <1>1 DEF LiveVersions

-----------------------------------------------------------------------------
(* The refinement *)

live == [t \in Tasks |-> LiveVersions(t)]

begun == {<<c[2], c[3]>> : c \in UNION {TasksRun(loop[1], loop[2]) : loop \in overtaken}}

\* A loop over a map that is replaced has begun with definitions that may run.
LEMMA OvertakenWhileLive ==
    ASSUME SchedulerTypeOK, NEW x \in Triggers, UpdateTriggerSchedules(x)
    PROVE  \A c \in begun' \ begun : c[1] \in Tasks /\ c[2] \in live[c[1]]
<1> SUFFICES ASSUME NEW c \in begun', c \notin begun
             PROVE  c[1] \in Tasks /\ c[2] \in live[c[1]]
  OBVIOUS
<1>1. PICK loop \in overtaken' : \E d \in TasksRun(loop[1], loop[2]) : c = <<d[2], d[3]>>
  BY DEF begun, TasksRun
<1>2. loop \notin overtaken
  BY <1>1 DEF begun
<1>3. loop = <<x, triggerTasks[x]>>
  BY <1>2 DEF UpdateTriggerSchedules, Overtakes, callbackVars
<1>4. PICK t \in Tasks : triggerTasks[x][t] # 0 /\ c = <<t, triggerTasks[x][t]>>
  BY <1>1, <1>3 DEF TasksRun
<1>5. triggerTasks[x][t] \in LiveVersions(t)
  BY <1>4 DEF LiveVersions
<1> QED
  BY <1>4, <1>5 DEF live

\* Every other step of the agent leaves those loops alone, or ends one.
LEMMA BegunOnlyShrinks ==
    ASSUME overtaken' \subseteq overtaken
    PROVE  begun' \subseteq begun
  BY DEF begun, TasksRun

\* While Schedule works on a task, each of its steps leaves what may run as it
\* was, or makes the newest definition the only one.
LEMMA ScheduleStepTakesOver ==
    ASSUME SchedulerTypeOK, DispatchInv, VersionInv, DispatchInv', VersionInv',
           NEW x \in Triggers,
           UpdateTriggerSchedules(x) \/ UpdateTriggerExists(x) \/ RemoveTrigger(x)
    PROVE  \/ live' = live
           \/ live' = [live EXCEPT ![current] = {version}]
<1>t. /\ definition \in [Tasks -> [triggers : SUBSET Triggers, version : Nat]]
      /\ triggerTasks \in [Triggers -> [Tasks -> Nat]]
  BY DEF SchedulerTypeOK, TablesTypeOK
<1>1. /\ pc # "idle" /\ current \in Tasks
      /\ UNCHANGED <<tasks, definition, pc, current, version>>
  BY DEF UpdateTriggerSchedules, UpdateTriggerExists, RemoveTrigger, Updating, Sweeping,
         SchedulerTypeOK, HandlerTypeOK
<1>2. \A u \in Tasks \ {current} : LiveVersions(u)' = LiveVersions(u)
  <2> SUFFICES ASSUME NEW u \in Tasks, u # current
               PROVE  LiveVersions(u)' = LiveVersions(u)
    OBVIOUS
  <2>1. LiveVersions(u) = {definition[w].version : w \in tasks \cap {u}}
    BY SettledTasks
  <2>2. LiveVersions(u)' = {definition[w].version : w \in tasks \cap {u}}'
    BY <1>1 DEF DispatchInv, NoStaleDispatch, Fresh, LiveVersions
  <2> QED
    BY <1>1, <2>1, <2>2
<1>3. \A y \in Triggers :
         triggerTasks'[y][current] \in {0, version, triggerTasks[y][current]}
  <2>1. definition[current].version = version
    BY <1>1 DEF VersionInv
  <2> QED
    BY <1>t, <1>1, <2>1 DEF UpdateTriggerSchedules, UpdateTriggerExists, RemoveTrigger
<1>4. LiveVersions(current) =
          {version} \cup ({triggerTasks[y][current] : y \in Triggers} \ {0})
  BY <1>1, CurrentVersions
<1>5. LiveVersions(current)' =
          {version} \cup ({triggerTasks'[y][current] : y \in Triggers} \ {0})
  <2>1. (current \in tasks)' /\ (definition[current].version = version)'
    BY <1>1 DEF DispatchInv, CurrentInv, VersionInv
  <2> QED
    BY <1>1, <2>1 DEF LiveVersions
<1>6. LiveVersions(current)' \in {LiveVersions(current), {version}}
  <2>1. CASE \E y \in Triggers : triggerTasks'[y][current] \notin {0, version}
    <3> PICK y \in Triggers : triggerTasks'[y][current] \notin {0, version}
      BY <2>1
    <3> DEFINE old == triggerTasks[y][current]
    <3>1. triggerTasks'[y][current] = old /\ old \notin {0, version}
      BY <1>3
    <3>2. \A z \in Triggers : triggerTasks[z][current] \in {0, version, old}
      <4>1. definition[current].version = version
        BY <1>1 DEF VersionInv
      <4> QED
        BY <1>1, <3>1, <4>1 DEF VersionInv
    <3>3. \A z \in Triggers : triggerTasks'[z][current] \in {0, version, old}
      BY <1>3, <3>2
    <3>4. LiveVersions(current) = {version, old}
      BY <1>4, <3>1, <3>2
    <3>5. LiveVersions(current)' = {version, old}
      BY <1>5, <3>1, <3>3
    <3> QED
      BY <3>4, <3>5
  <2>2. CASE \A y \in Triggers : triggerTasks'[y][current] \in {0, version}
    BY <1>5, <2>2
  <2> QED
    BY <2>1, <2>2
<1>7. live \in [Tasks -> SUBSET UNION {LiveVersions(t) : t \in Tasks}]
  BY DEF live
<1>8. live' = [t \in Tasks |-> IF t = current THEN LiveVersions(current)' ELSE live[t]]
  BY <1>1, <1>2 DEF live
<1>9. CASE LiveVersions(current)' = LiveVersions(current)
  BY <1>1, <1>8, <1>9 DEF live
<1>10. CASE LiveVersions(current)' = {version}
  BY <1>1, <1>8, <1>10 DEF live
<1> QED
  BY <1>6, <1>9, <1>10

\* One step of the agent is one of the table, or none: a call of Schedule defines
\* a version of one task, its loops let it take over, a callback runs live ones.
LEMMA StepImplements ==
    ASSUME SchedulerTypeOK, DispatchInv, VersionInv, DispatchInv', VersionInv', [Next]_vars
    PROVE  [Table!Next]_Table!vars
<1>t. /\ definition \in [Tasks -> [triggers : SUBSET Triggers, version : Nat]]
      /\ triggerTasks \in [Triggers -> [Tasks -> Nat]]
      /\ tasks \in SUBSET Tasks
  BY DEF SchedulerTypeOK, TablesTypeOK
<1>1. ASSUME UNCHANGED <<tasks, definition, triggerTasks>>
      PROVE  live' = live
  BY <1>1 DEF live, LiveVersions
<1>2. ASSUME live' = live, UNCHANGED version, called' = {}, overtaken' \subseteq overtaken
      PROVE  Table!Run
  <2>1. begun' \subseteq begun
    BY <1>2, BegunOnlyShrinks
  <2> QED
    BY <1>2, <2>1 DEF Table!Run, Table!BegunWhileLive, live, begun
<1>3. ASSUME NEW t \in Tasks, NEW S \in Definitions[t], ScheduleNew(t, S) \/ Reschedule(t, S)
      PROVE  Table!Define(t)
  <2>1. /\ pc = "idle" /\ current = NoTask /\ version' = version + 1 /\ called' = {}
        /\ definition' = [definition EXCEPT ![t] = [triggers |-> S, version |-> version']]
        /\ tasks' = tasks \cup {t}
        /\ UNCHANGED <<triggerTasks, overtaken>>
    BY <1>3 DEF ScheduleNew, Reschedule, DispatchInv, CurrentInv, Alive, callbackVars
  <2>2. \A u \in Tasks : LiveVersions(u) = {definition[w].version : w \in tasks \cap {u}}
    BY <2>1, SettledTasks, TasksAssumption
  <2>3. \A u \in Tasks : Table!Settled(u)
    BY <2>2 DEF Table!Settled
  <2>4. definition'[t].version = version' /\ \A u \in Tasks \ {t} : definition'[u] = definition[u]
    BY <1>t, <2>1
  <2>5. \A u \in Tasks \ {t} : LiveVersions(u)' = LiveVersions(u)
    BY <2>1, <2>4 DEF LiveVersions
  <2>6. LiveVersions(t)' = {version'} \cup ({triggerTasks[x][t] : x \in Triggers} \ {0})
    BY <2>1, <2>4 DEF LiveVersions
  <2>7. LiveVersions(t)' \in {{version'}, LiveVersions(t) \cup {version'}}
    <3>1. CASE \A x \in Triggers : triggerTasks[x][t] = 0
      BY <2>6, <3>1
    <3>2. CASE \E x \in Triggers : triggerTasks[x][t] # 0
      <4>1. t \in tasks
        BY <3>2 DEF DispatchInv
      <4>2. LiveVersions(t) = {definition[t].version}
        BY <2>2, <4>1
      <4>3. {triggerTasks[x][t] : x \in Triggers} \ {0} = {definition[t].version}
        BY <2>1, <3>2, TasksAssumption DEF DispatchInv, NoStaleDispatch, Fresh
      <4> QED
        BY <2>6, <4>2, <4>3
    <3> QED
      BY <3>1, <3>2
  <2>8. live' = [u \in Tasks |-> IF u = t THEN LiveVersions(t)' ELSE live[u]]
    BY <2>5 DEF live
  <2>9. live' \in {[live EXCEPT ![t] = {version'}], [live EXCEPT ![t] = @ \cup {version'}]}
    <3>1. CASE LiveVersions(t)' = {version'}
      BY <2>8, <3>1 DEF live
    <3>2. CASE LiveVersions(t)' = LiveVersions(t) \cup {version'}
      BY <2>8, <3>2 DEF live
    <3> QED
      BY <2>7, <3>1, <3>2
  <2> QED
    BY <2>1, <2>3, <2>9 DEF Table!Define, live, begun
<1>4. ASSUME NEW x \in Triggers,
             UpdateTriggerSchedules(x) \/ UpdateTriggerExists(x) \/ RemoveTrigger(x)
      PROVE  Table!Run \/ Table!TakeOver(current)
  <2>1. UNCHANGED version /\ called' = {} /\ pc # "idle" /\ current \in Tasks
    BY <1>4 DEF UpdateTriggerSchedules, UpdateTriggerExists, RemoveTrigger, Updating, Sweeping,
                Alive, SchedulerTypeOK, HandlerTypeOK
  <2>0. \A c \in begun' \ begun : c[1] \in Tasks /\ c[2] \in live[c[1]]
    <3>1. CASE UpdateTriggerSchedules(x)
      BY <3>1, OvertakenWhileLive
    <3>2. CASE UpdateTriggerExists(x) \/ RemoveTrigger(x)
      BY <3>2, BegunOnlyShrinks DEF UpdateTriggerExists, RemoveTrigger, callbackVars
    <3> QED
      BY <1>4, <3>1, <3>2
  <2>2. CASE live' = live
    BY <2>0, <2>1, <2>2 DEF Table!Run, Table!BegunWhileLive, live, begun
  <2>3. CASE live' = [live EXCEPT ![current] = {version}]
    <3>1. version \in live[current]
      BY <2>1, CurrentVersions DEF live
    <3> QED
      BY <2>0, <2>1, <2>3, <3>1 DEF Table!TakeOver, Table!BegunWhileLive, live, begun
  <2> QED
    BY <1>4, <2>2, <2>3, ScheduleStepTakesOver
<1>5. ASSUME NEW x \in Triggers,
             \/ UpdateTriggerFails(x) \/ UpdateTriggerPanics(x) \/ UpdateTriggerNilMap(x)
             \/ RemoveTriggerPanics(x)
      PROVE  Table!Run
  BY <1>1, <1>2, <1>5 DEF UpdateTriggerFails, UpdateTriggerPanics, UpdateTriggerNilMap, Updating,
                          RemoveTriggerPanics, Dies, Alive, tableVars, handlerVars, callbackVars
<1>6. ASSUME AddDone \/ UpdateDone \/ RemoveDone
      PROVE  Table!Run
  BY <1>1, <1>2, <1>6 DEF AddDone, UpdateDone, RemoveDone, Alive, tableVars, callbackVars
<1>7. ASSUME Start \/ Stop \/ MapRace \/ FileGone
      PROVE  Table!Run
  BY <1>1, <1>2, <1>7 DEF Start, Stop, MapRace, FileGone, Dies, Alive, tableVars, handlerVars,
                          callbackVars
<1>8. ASSUME \/ CronJobFires \/ EventFires \/ PathFires \/ ClosedWatcherFires
             \/ \E x \in launched : OnTrigger(x)
             \/ \E loop \in overtaken : OvertakenLoop(loop)
      PROVE  Table!Run
  <2>1. live' = live /\ UNCHANGED version
    BY <1>1, <1>8, CallbacksKeepTables DEF tableVars, handlerVars
  <2>2. CASE CronJobFires \/ EventFires \/ PathFires \/ ClosedWatcherFires
    BY <1>2, <2>1, <2>2
    DEF CronJobFires, EventFires, PathFires, ClosedWatcherFires, Launches, Alive
  <2>3. ASSUME NEW x \in launched, OnTrigger(x)
        PROVE  Table!Run
    <3>1. x \in Triggers
      BY DEF SchedulerTypeOK, CallbacksTypeOK
    <3>2. \A c \in called' : c[1] \in Triggers /\ c[2] \in Tasks /\ c[3] \in live[c[2]]
      <4> SUFFICES ASSUME NEW c \in called'
                   PROVE  c[1] \in Triggers /\ c[2] \in Tasks /\ c[3] \in live[c[2]]
        OBVIOUS
      <4>1. /\ c[1] = x /\ c[2] \in Tasks
            /\ c[3] = triggerTasks[x][c[2]] /\ c[3] # 0
        BY <2>3 DEF OnTrigger, TasksRun
      <4>2. c[3] \in LiveVersions(c[2])
        BY <3>1, <4>1 DEF LiveVersions
      <4> QED
        BY <3>1, <4>1, <4>2 DEF live
    <3>3. begun' = begun
      BY <2>3 DEF OnTrigger, begun
    <3> QED
      BY <2>1, <3>2, <3>3 DEF Table!Run, Table!BegunWhileLive, live, begun
  <2>4. ASSUME NEW loop \in overtaken, OvertakenLoop(loop)
        PROVE  Table!Run
    <3>1. loop[1] \in Triggers
      BY DEF SchedulerTypeOK, CallbacksTypeOK
    <3>2. \A c \in called' : c[1] \in Triggers /\ c[2] \in Tasks /\ <<c[2], c[3]>> \in begun
      <4> SUFFICES ASSUME NEW c \in called'
                   PROVE  c[1] \in Triggers /\ c[2] \in Tasks /\ <<c[2], c[3]>> \in begun
        OBVIOUS
      <4>1. c \in TasksRun(loop[1], loop[2])
        BY <2>4 DEF OvertakenLoop
      <4> QED
        BY <3>1, <4>1 DEF TasksRun, begun
    <3>3. begun' \subseteq begun
      BY <2>4, BegunOnlyShrinks DEF OvertakenLoop
    <3> QED
      BY <2>1, <3>2, <3>3 DEF Table!Run, Table!BegunWhileLive, live, begun
  <2> QED
    BY <1>8, <2>2, <2>3, <2>4
<1>9. CASE UNCHANGED vars
  BY <1>1, <1>9 DEF vars, tableVars, handlerVars, callbackVars, Table!vars, live, begun
<1>10. current \in Tasks \/ \A x \in Triggers :
           ~(UpdateTriggerSchedules(x) \/ UpdateTriggerExists(x) \/ RemoveTrigger(x))
  BY DEF UpdateTriggerSchedules, UpdateTriggerExists, RemoveTrigger, Updating, Sweeping,
         SchedulerTypeOK, HandlerTypeOK
<1>11. Table!Next <=> Table!Run \/ \E t \in Tasks : Table!Define(t) \/ Table!TakeOver(t)
  BY DEF Table!Next
<1> QED
  BY <1>3, <1>4, <1>5, <1>6, <1>7, <1>8, <1>9, <1>10, <1>11 DEF Next, Schedule, Environment

\* The dispatch tables and the versions in them, at every moment of a run.
LEMMA VersionInvariant ==
    Spec => [](SchedulerTypeOK /\ EventTablesInv /\ DispatchInv /\ VersionInv)
<1>1. Init => VersionInv
  BY DEF Init, VersionInv
<1>2. SchedulerTypeOK /\ DispatchInv /\ VersionInv /\ [Next]_vars => VersionInv'
  BY StepVersionInv
<1> QED
  BY DispatchInvariant, <1>1, <1>2, PTL DEF Spec

\* The task scheduler implements the table of definitions: Schedule replaces one
\* task's definition at a time, whatever triggers it shares and however many
\* callbacks run between two triggers of the call, and the definition it replaced
\* runs in the callbacks that had begun before and never again (Schedule,
\* updateTrigger, removeTrigger, onTrigger).
THEOREM TaskTableImplemented == Spec => ImplementsTaskTable
<1>1. Init => Table!Init
  <2> SUFFICES ASSUME Init PROVE Table!Init
    OBVIOUS
  <2>1. \A t \in Tasks : LiveVersions(t) = {}
    BY DEF Init, LiveVersions
  <2> QED
    BY <2>1 DEF Init, Table!Init, begun
<1>2. /\ SchedulerTypeOK /\ DispatchInv /\ VersionInv
      /\ DispatchInv' /\ VersionInv' /\ [Next]_vars
      => [Table!Next]_Table!vars
  BY StepImplements
<1> QED
  BY VersionInvariant, <1>1, <1>2, PTL DEF Spec, ImplementsTaskTable, Table!Spec

-----------------------------------------------------------------------------
(* Kernel watches *)

\* No call of the FSTriggersScheduler empties the entry of a path and leaves its
\* watch, although Unschedule reads the path as it was written and ScheduleByID
\* as it is normalised.
LEMMA StepNoOrphanWatch ==
    ASSUME CompositeTypeOK, NoOrphanWatch, CompositeStep
    PROVE  NoOrphanWatch'
<1> USE DEF NoOrphanWatch
<1>t. pathTriggers \in [Paths -> SUBSET Triggers] /\ watched \in SUBSET Paths
  BY DEF CompositeTypeOK, FsTypeOK
<1>1. ASSUME UNCHANGED pathTriggers, watched' \subseteq watched
      PROVE  NoOrphanWatch'
  BY <1>1
<1>2. ASSUME NEW x \in Triggers, FsScheduleByID(x)
      PROVE  NoOrphanWatch'
  <2>1. WatchPath(x) \in Paths
    BY TriggersAssumption DEF WatchPath
  <2> QED
    BY <1>2, <1>t, <2>1 DEF FsScheduleByID
<1>3. ASSUME NEW x \in Triggers, FsUnschedule(x)
      PROVE  NoOrphanWatch'
  <2> DEFINE p == PathOf[x]
             S == pathTriggers[p]
  <2>1. p \in Paths /\ S \subseteq Triggers /\ IsFiniteSet(S)
    BY <1>t, TriggersAssumption, FS_Subset
  <2>2. CASE x \notin fsTriggers
    BY <1>1, <1>3, <2>2 DEF FsUnschedule
  <2>3. CASE x \in fsTriggers /\ Cardinality(S) = 1
    BY <1>3, <1>t, <2>1, <2>3 DEF FsUnschedule
  <2>4. CASE x \in fsTriggers /\ Cardinality(S) # 1
    <3>1. S # {} => S \ {x} # {}
      <4> SUFFICES ASSUME S # {}, S \ {x} = {} PROVE FALSE
        OBVIOUS
      <4>1. S = {x}
        OBVIOUS
      <4> QED
        BY <2>1, <2>4, <4>1, FS_Singleton
    <3> QED
      BY <1>3, <1>t, <2>1, <2>4, <3>1 DEF FsUnschedule
  <2> QED
    BY <2>2, <2>3, <2>4
<1>4. ASSUME NEW x \in Triggers, ScheduleByID(x)
      PROVE  NoOrphanWatch'
  BY <1>1, <1>2, <1>4 DEF ScheduleByID, fsVars
<1>5. ASSUME NEW x \in Triggers, CompositeUnschedule(x)
      PROVE  NoOrphanWatch'
  BY <1>1, <1>3, <1>5 DEF CompositeUnschedule, childVars, fsVars
<1>6. CASE CompositeStart \/ CompositeStop
  BY <1>1, <1>6 DEF CompositeStart, CompositeStop, FsStart, FsStop
<1>7. CASE \E p \in Paths : FsFileGone(p) /\ UNCHANGED <<cronVars, tsVars, ids, isRunning>>
  BY <1>1, <1>7 DEF FsFileGone
<1>8. CASE UNCHANGED compositeVars
  BY <1>1, <1>8 DEF compositeVars, childVars, fsVars
<1> QED
  BY <1>4, <1>5, <1>6, <1>7, <1>8 DEF CompositeStep

\* Under any use of the package a kernel watch belongs to a path that still has a
\* trigger, so some Unschedule can take it away (FSTriggersScheduler).
THEOREM NoOrphanWatchHolds == LibrarySpec => []NoOrphanWatch
<1>1. Init => NoOrphanWatch
  BY DEF Init, CompositeInit, FsInit, NoOrphanWatch
<1>2. SchedulerTypeOK /\ NoOrphanWatch /\ [LibraryNext]_vars => NoOrphanWatch'
  BY StepsAreCompositeSteps, StepNoOrphanWatch DEF SchedulerTypeOK, CompositeTypeOK
<1> QED
  BY EventTablesInvariant, <1>1, <1>2, PTL DEF LibrarySpec
=============================================================================
