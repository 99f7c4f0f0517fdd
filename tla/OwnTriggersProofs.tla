--------------------------- MODULE OwnTriggersProofs ---------------------------
(***************************************************************************)
(* What the package's interface guarantees, Unschedule and UnscheduleTask  *)
(* included, to tasks that share nothing: Unschedule leaves triggerTasks   *)
(* as it was, and a trigger with the entry of a task that has gone is what *)
(* tasks that share triggers stumble over.                                 *)
(***************************************************************************)
EXTENDS TaskSchedulerProofs

\* The triggers task t may ever be given.
Own(t) == UNION Definitions[t]

\* No trigger belongs to two tasks, and no path is watched for two tasks.
NothingShared ==
    \A t, u \in Tasks : t # u => \A x \in Own(t), y \in Own(u) :
        x # y /\ (Kind[x] = "fsnotify" /\ Kind[y] = "fsnotify" => WatchPath(x) # WatchPath(y))

-----------------------------------------------------------------------------
(* Invariants *)

\* The tables know only a task's own triggers.
OwnInv ==
    /\ \A t \in Tasks : definition[t].triggers \cup scheduledTriggers[t] \subseteq Own(t)
    /\ \A x \in Triggers, t \in Tasks : triggerTasks[x][t] # 0 => x \in Own(t)
    /\ pc # "idle" => current \in tasks /\ todo \subseteq Own(current)

\* The trigger runs the task, and not only because Unschedule left its entry.
Runs(x, t) == t \in tasks /\ x \in scheduledTriggers[t] /\ triggerTasks[x][t] # 0

\* Unschedule is taking t out.
Leaving(t) == pc = "unschedule" /\ current = t

PlacedInv ==
    /\ \A x \in Triggers, t \in Tasks : Runs(x, t) /\ ~Leaving(t) => Placed(x)
    /\ PathsInv
    /\ \A x \in Triggers : ids[x] \in {"none", Kind[x]}

\* A job in gocron is the newest of its trigger, which runs a task that is not
\* being taken out, or has not been reached by it.
JobInv(j) ==
    /\ j[2] = jobs[j[1]]
    /\ Kind[j[1]] = "cron" /\ ids[j[1]] = "cron"
    /\ \E t \in Tasks :
          /\ Runs(j[1], t)
          /\ pc \in {"unschedule", "unscheduleTask"} /\ current = t => j[1] \in todo

JobsInv == \A j \in cronJobs : JobInv(j)

\* Schedule files its task under every trigger it keeps, and does not sweep it.
FiledInv ==
    /\ pc = "idle" => current = NoTask
    /\ pc \in {"idle", "unschedule", "unscheduleTask"} => newTriggers = {}
    /\ pc \in {"unschedule", "unscheduleTask"} => todo \subseteq scheduledTriggers[current]
    /\ \A t \in tasks : definition[t].version # 0
    /\ \A t \in tasks : t # current =>
           \A x \in scheduledTriggers[t] \cap definition[t].triggers : triggerTasks[x][t] # 0
    /\ pc \in {"add", "update"} =>
           scheduledTriggers[current] \cap definition[current].triggers \subseteq todo \cup newTriggers
    /\ pc \in {"add", "update", "remove"} => \A x \in newTriggers : triggerTasks[x][current] # 0
    /\ pc = "remove" =>
           /\ todo \subseteq scheduledTriggers[current] \ newTriggers
           /\ scheduledTriggers[current] \cap definition[current].triggers \subseteq newTriggers

OwnTriggersInv == OwnInv /\ PlacedInv /\ JobsInv /\ FiledInv

-----------------------------------------------------------------------------
(* The child schedulers *)

\* Whatever of x its child still has, taking it out displaces no trigger that is
\* filed under another path (FSTriggersScheduler.Unschedule may remove the last
\* entry of a path for a trigger that is not there any more).
LEMMA UnscheduleKeepsApart ==
    ASSUME CompositeTypeOK, PathsInv, NEW x \in Triggers, ids[x] \in {"none", Kind[x]},
           CompositeUnschedule(x)
    PROVE  /\ PathsInv'
           /\ \A y \in Triggers :
                 /\ y # x /\ Placed(y)
                 /\ Kind[x] = "fsnotify" /\ Kind[y] = "fsnotify" => WatchPath(x) # WatchPath(y)
                 => Placed(y)'
<1> USE TriggersAssumption
<1>1. PathsInv'
  BY DEF CompositeUnschedule, FsUnschedule, PathsInv, childVars, fsVars, CompositeTypeOK,
         FsTypeOK, WatchPath
<1>2. UNCHANGED ids
  BY DEF CompositeUnschedule
<1> SUFFICES ASSUME NEW y \in Triggers, y # x, Placed(y),
                    Kind[x] = "fsnotify" /\ Kind[y] = "fsnotify" => WatchPath(x) # WatchPath(y)
             PROVE  Placed(y)'
  BY <1>1
<1>3. CASE UNCHANGED childVars
  BY <1>2, <1>3 DEF childVars, cronVars, tsVars, fsVars, Placed, Armed, CronArmed, TsArmed, FsArmed,
                    WatchPath
<1>4. CASE CronUnschedule(x) /\ UNCHANGED <<tsVars, fsVars>>
  <2>1. CronArmed(y) => CronArmed(y)'
    BY <1>4 DEF CronUnschedule, CronArmed
  <2> QED
    BY <1>2, <1>4, <2>1 DEF Placed, Armed, TsArmed, FsArmed, tsVars, fsVars, WatchPath
<1>5. CASE TsUnschedule(x) /\ UNCHANGED <<cronVars, fsVars>>
  <2>1. TsArmed(y) => TsArmed(y)'
    BY <1>5 DEF TsUnschedule, TsArmed, CompositeTypeOK, TsTypeOK
  <2> QED
    BY <1>2, <1>5, <2>1 DEF Placed, Armed, CronArmed, FsArmed, cronVars, fsVars, WatchPath
<1>6. CASE Kind[x] = "fsnotify" /\ FsUnschedule(x) /\ UNCHANGED <<cronVars, tsVars>>
  <2>1. Kind[y] = "fsnotify" /\ FsArmed(y) => FsArmed(y)'
    <3> SUFFICES ASSUME Kind[y] = "fsnotify", FsArmed(y) PROVE FsArmed(y)'
      OBVIOUS
    <3>1. /\ pathTriggers \in [Paths -> SUBSET Triggers]
          /\ PathOf[x] \in Paths /\ WatchPath(y) \in Paths /\ PathOf[y] \in Paths
      BY DEF CompositeTypeOK, FsTypeOK, WatchPath
    <3>2. WatchPath(y) # PathOf[x]
      BY <1>6, <3>1, NormalPathIdempotent DEF WatchPath
    <3> QED
      BY <1>6, <3>1, <3>2 DEF FsUnschedule, FsArmed, WatchPath
  <2> QED
    BY <1>2, <1>6, <2>1 DEF Placed, Armed, CronArmed, TsArmed, cronVars, tsVars
<1> QED
  BY <1>3, <1>4, <1>5, <1>6 DEF CompositeUnschedule

\* The jobs a call of the composite scheduler leaves in gocron.
LEMMA JobsOfScheduleByID ==
    ASSUME CompositeTypeOK, NEW x \in Triggers, ScheduleByID(x)
    PROVE  /\ \A j \in cronJobs' : \/ j \in cronJobs
                                   \/ j[1] = x /\ j[2] = jobs'[x] /\ Kind[x] = "cron"
           /\ \A y \in Triggers : y # x => jobs'[y] = jobs[y]
           /\ ids' = [ids EXCEPT ![x] = Kind[x]]
  BY DEF ScheduleByID, CronScheduleByID, CompositeTypeOK, CronTypeOK, cronVars

\* Taking out x takes its one job.
LEMMA JobsOfUnschedule ==
    ASSUME NEW x \in Triggers, CompositeUnschedule(x)
    PROVE  /\ cronJobs' \subseteq cronJobs
           /\ UNCHANGED <<jobs, ids>>
           /\ ids[x] = "cron" => <<x, jobs[x]>> \notin cronJobs'
  BY DEF CompositeUnschedule, CronUnschedule, childVars, cronVars
-----------------------------------------------------------------------------
(* The steps of Schedule *)

\* What the lemmas below need of the types.
TableTypes ==
    /\ definition \in [Tasks -> [triggers : SUBSET Triggers, version : Nat]]
    /\ scheduledTriggers \in [Tasks -> SUBSET Triggers]
    /\ triggerTasks \in [Triggers -> [Tasks -> Nat]]
    /\ tasks \subseteq Tasks /\ version \in Nat
    /\ pc # "idle" => current \in Tasks
    /\ NoTask \notin Tasks
    /\ todo \subseteq Triggers /\ newTriggers \subseteq Triggers

\* They are part of the type invariant.
LEMMA TypesOfTables == SchedulerTypeOK => TableTypes /\ CompositeTypeOK
  BY TasksAssumption DEF SchedulerTypeOK, TablesTypeOK, HandlerTypeOK, TableTypes

\* A job stays justified when what it rests on stays.
LEMMA JobKept ==
    ASSUME NEW j, JobInv(j), jobs'[j[1]] = jobs[j[1]], ids'[j[1]] = ids[j[1]],
           \A t \in Tasks :
               /\ Runs(j[1], t)
               /\ pc \in {"unschedule", "unscheduleTask"} /\ current = t => j[1] \in todo
               => /\ Runs(j[1], t)'
                  /\ pc' \in {"unschedule", "unscheduleTask"} /\ current' = t => j[1] \in todo'
    PROVE  JobInv(j)'
  BY DEF JobInv

\* A task met first or again: its entries are those of its own triggers.
LEMMA ScheduleBegins ==
    ASSUME TableTypes, OwnTriggersInv, NEW t \in Tasks, NEW S \in Definitions[t],
           ScheduleNew(t, S) \/ Reschedule(t, S)
    PROVE  OwnTriggersInv'
<1> USE DEF TableTypes
<1>1. /\ pc = "idle" /\ current' = t /\ todo' = S /\ pc' \in {"add", "update"}
      /\ definition' = [definition EXCEPT ![t] = [triggers |-> S, version |-> version + 1]]
      /\ tasks' = tasks \cup {t}
      /\ UNCHANGED <<compositeVars, triggerTasks, newTriggers>>
  BY DEF ScheduleNew, Reschedule
<1>2. /\ S \subseteq Own(t) /\ S \subseteq Triggers
      /\ definition'[t] = [triggers |-> S, version |-> version + 1]
      /\ \A u \in Tasks : u # t => definition'[u] = definition[u]
  BY <1>1, TasksAssumption DEF Own
<1>3. \/ t \notin tasks /\ scheduledTriggers' = [scheduledTriggers EXCEPT ![t] = {}]
      \/ t \in tasks /\ UNCHANGED scheduledTriggers
  BY DEF ScheduleNew, Reschedule
<1>4. /\ \A u \in Tasks : scheduledTriggers'[u] \subseteq scheduledTriggers[u]
      /\ \A u \in Tasks : u # t => scheduledTriggers'[u] = scheduledTriggers[u]
      /\ \A x \in Triggers, u \in Tasks : Runs(x, u)' <=> Runs(x, u)
  BY <1>1, <1>3 DEF Runs
<1>5. OwnInv'
  BY <1>1, <1>2, <1>4 DEF OwnTriggersInv, OwnInv
<1>6. PlacedInv'
  BY <1>1, <1>4 DEF OwnTriggersInv, PlacedInv, Leaving, compositeVars, childVars, cronVars, tsVars,
                    fsVars, Placed, Armed, CronArmed, TsArmed, FsArmed, PathsInv, WatchPath
<1>7. JobsInv'
  <2> SUFFICES ASSUME NEW j \in cronJobs PROVE JobInv(j)'
    BY <1>1 DEF JobsInv, compositeVars, childVars, cronVars
  <2>1. JobInv(j) /\ UNCHANGED <<jobs, ids>>
    BY <1>1 DEF OwnTriggersInv, JobsInv, compositeVars, childVars, cronVars
  <2>2. \A u \in Tasks : Runs(j[1], u) => Runs(j[1], u)'
    BY <1>1, <1>3 DEF Runs
  <2> QED
    BY <1>1, <2>1, <2>2, JobKept
<1>8. FiledInv'
  <2>1. definition'[t].version # 0
    BY <1>2
  <2>2. newTriggers = {}
    BY <1>1 DEF OwnTriggersInv, FiledInv
  <2> QED
    BY <1>1, <1>2, <1>3, <1>4, <2>1, <2>2 DEF OwnTriggersInv, FiledInv
<1> QED
  BY <1>5, <1>6, <1>7, <1>8 DEF OwnTriggersInv

\* A trigger that is new to the task has no job, as no other task may have it.
LEMMA UpdateSchedules ==
    ASSUME NothingShared, CompositeTypeOK, TableTypes, OwnTriggersInv,
           NEW x \in Triggers, UpdateTriggerSchedules(x)
    PROVE  OwnTriggersInv'
<1> USE DEF TableTypes
<1>1. /\ current \in Tasks /\ current \in tasks /\ pc \in {"add", "update"}
      /\ x \in todo /\ x \in Own(current) /\ x \notin scheduledTriggers[current]
      /\ ScheduleByID(x)
      /\ scheduledTriggers' = [scheduledTriggers EXCEPT ![current] = @ \cup {x}]
      /\ newTriggers' = newTriggers \cup {x} /\ todo' = todo \ {x}
      /\ UNCHANGED <<tasks, definition, pc, current, version>>
  BY DEF UpdateTriggerSchedules, Updating, OwnTriggersInv, OwnInv
<1>2. \A y \in Triggers, u \in Tasks : triggerTasks'[y][u] =
          IF y # x THEN triggerTasks[y][u]
          ELSE IF u = current THEN definition[u].version ELSE 0
  BY <1>1 DEF UpdateTriggerSchedules
<1>3. \A u \in Tasks : u # current => triggerTasks[x][u] = 0
  BY <1>1 DEF NothingShared, OwnTriggersInv, OwnInv
<1>4. definition[current].version # 0
  BY <1>1 DEF OwnTriggersInv, FiledInv
<1>5. \A u \in Tasks : scheduledTriggers'[u] =
          IF u = current THEN scheduledTriggers[u] \cup {x} ELSE scheduledTriggers[u]
  BY <1>1
<1>6. /\ Runs(x, current)'
      /\ \A y \in Triggers, u \in Tasks : y # x => (Runs(y, u)' <=> Runs(y, u))
      /\ \A u \in Tasks : ~Runs(x, u)
  BY <1>1, <1>2, <1>3, <1>4, <1>5 DEF Runs
<1>7. OwnInv'
  BY <1>1, <1>2, <1>5 DEF OwnTriggersInv, OwnInv
<1>8. PlacedInv'
  <2>1. PathsInv' /\ Placed(x)' /\ \A y \in Triggers : y # x /\ Placed(y) => Placed(y)'
    BY <1>1, ScheduleByIDPlaces DEF OwnTriggersInv, PlacedInv
  <2>2. \A y \in Triggers : ids'[y] \in {"none", Kind[y]}
    BY <1>1 DEF ScheduleByID, OwnTriggersInv, PlacedInv, CompositeTypeOK
  <2>3. \A u \in Tasks : ~Leaving(u) /\ ~Leaving(u)'
    BY <1>1 DEF Leaving
  <2> QED
    BY <1>6, <2>1, <2>2, <2>3 DEF OwnTriggersInv, PlacedInv
<1>9. JobsInv'
  <2> SUFFICES ASSUME NEW j \in cronJobs' PROVE JobInv(j)'
    BY DEF JobsInv
  <2>1. CASE j \in cronJobs
    <3>1. j[1] \in Triggers /\ JobInv(j)
      BY <2>1 DEF CompositeTypeOK, CronTypeOK, OwnTriggersInv, JobsInv
    <3>2. j[1] # x
      BY <1>6, <3>1 DEF JobInv
    <3>3. jobs'[j[1]] = jobs[j[1]] /\ ids'[j[1]] = ids[j[1]]
      BY <1>1, <3>1, <3>2, JobsOfScheduleByID DEF CompositeTypeOK
    <3> QED
      BY <1>1, <1>6, <3>1, <3>2, <3>3, JobKept
  <2>2. CASE j[1] = x /\ j[2] = jobs'[x] /\ Kind[x] = "cron"
    <3>1. ids'[x] = "cron"
      BY <1>1, <2>2 DEF ScheduleByID, CompositeTypeOK
    <3>2. pc' \notin {"unschedule", "unscheduleTask"}
      BY <1>1
    <3> QED
      BY <1>1, <1>6, <2>2, <3>1, <3>2 DEF JobInv
  <2> QED
    BY <1>1, <2>1, <2>2, JobsOfScheduleByID
<1>10. FiledInv'
  <2>1. \A u \in Tasks : u # current => x \notin scheduledTriggers[u]
    BY <1>1 DEF NothingShared, OwnTriggersInv, OwnInv
  <2>2. \A u \in tasks : u # current =>
            \A y \in scheduledTriggers'[u] \cap definition[u].triggers : triggerTasks'[y][u] # 0
    BY <1>1, <1>2, <1>5, <2>1 DEF OwnTriggersInv, FiledInv
  <2>3. scheduledTriggers'[current] \cap definition[current].triggers \subseteq todo' \cup newTriggers'
    BY <1>1, <1>5 DEF OwnTriggersInv, FiledInv
  <2>4. \A y \in newTriggers' : triggerTasks'[y][current] # 0
    BY <1>1, <1>2, <1>4 DEF OwnTriggersInv, FiledInv
  <2>5. pc' \in {"add", "update"} /\ \A u \in tasks : definition[u].version # 0
    BY <1>1 DEF OwnTriggersInv, FiledInv
  <2> QED
    BY <1>1, <2>2, <2>3, <2>4, <2>5 DEF FiledInv
<1> QED
  BY <1>7, <1>8, <1>9, <1>10 DEF OwnTriggersInv
\* A trigger the task has gets its new definition.
LEMMA UpdateExists ==
    ASSUME NothingShared, TableTypes, OwnTriggersInv, NEW x \in Triggers,
           UpdateTriggerExists(x)
    PROVE  OwnTriggersInv'
<1> USE DEF TableTypes
<1>1. /\ current \in Tasks /\ current \in tasks /\ pc \in {"add", "update"}
      /\ x \in todo /\ x \in Own(current) /\ x \in scheduledTriggers[current]
      /\ newTriggers' = newTriggers \cup {x} /\ todo' = todo \ {x}
      /\ UNCHANGED <<compositeVars, tasks, definition, scheduledTriggers, pc, current, version>>
  BY DEF UpdateTriggerExists, Updating, OwnTriggersInv, OwnInv
<1>2. definition[current].version # 0
  BY <1>1 DEF OwnTriggersInv, FiledInv
<1>3. \A y \in Triggers, u \in Tasks : triggerTasks'[y][u] =
          IF y = x /\ u = current THEN definition[u].version ELSE triggerTasks[y][u]
  BY <1>1 DEF UpdateTriggerExists
<1>4. \A y \in Triggers, u \in Tasks : y # x \/ u # current => (Runs(y, u)' <=> Runs(y, u))
  BY <1>1, <1>3 DEF Runs
<1>5. OwnInv'
  BY <1>1, <1>3 DEF OwnTriggersInv, OwnInv
<1>6. triggerTasks[x][current] # 0
  <2>1. PICK u \in Tasks : triggerTasks[x][u] # 0
    BY DEF UpdateTriggerExists, TasksOf
  <2>2. x \in Own(u)
    BY <2>1 DEF OwnTriggersInv, OwnInv
  <2> QED
    BY <1>1, <2>1, <2>2 DEF NothingShared
<1>7. \A y \in Triggers, u \in Tasks : Runs(y, u)' <=> Runs(y, u)
  BY <1>1, <1>2, <1>3, <1>6 DEF Runs
<1>8. PlacedInv'
  BY <1>1, <1>7 DEF OwnTriggersInv, PlacedInv, Leaving, compositeVars, childVars, cronVars,
                    tsVars, fsVars, Placed, Armed, CronArmed, TsArmed, FsArmed, PathsInv, WatchPath
<1>9. JobsInv'
  <2> SUFFICES ASSUME NEW j \in cronJobs PROVE JobInv(j)'
    BY <1>1 DEF JobsInv, compositeVars, childVars, cronVars
  <2>1. JobInv(j) /\ UNCHANGED <<jobs, ids>>
    BY <1>1 DEF OwnTriggersInv, JobsInv, compositeVars, childVars, cronVars
  <2>2. \A u \in Tasks : Runs(j[1], u) => Runs(j[1], u)'
    BY <1>1, <1>2, <1>3, <1>6 DEF Runs
  <2> QED
    BY <1>1, <2>1, <2>2, JobKept
<1>10. FiledInv'
  BY <1>1, <1>2, <1>3 DEF OwnTriggersInv, FiledInv
<1> QED
  BY <1>5, <1>8, <1>9, <1>10 DEF OwnTriggersInv

\* The sweep takes out a trigger only while it runs the task, and then its job.
LEMMA SweepTakesOut ==
    ASSUME NothingShared, CompositeTypeOK, TableTypes, OwnTriggersInv,
           NEW x \in Triggers, RemoveTrigger(x)
    PROVE  OwnTriggersInv'
<1> USE DEF TableTypes
<1>1. /\ current \in Tasks /\ current \in tasks /\ pc \in {"remove", "unscheduleTask"}
      /\ x \in todo /\ x \in Own(current) /\ x \in scheduledTriggers[current]
      /\ todo' = todo \ {x}
      /\ UNCHANGED <<tasks, definition, scheduledTriggers, pc, current, newTriggers, version>>
  BY DEF RemoveTrigger, Sweeping, OwnTriggersInv, OwnInv, FiledInv
<1>2. \A y \in Triggers, u \in Tasks : triggerTasks'[y][u] =
          IF y = x /\ u = current THEN 0 ELSE triggerTasks[y][u]
  BY <1>1 DEF RemoveTrigger
<1>3. \A u \in Tasks : u # current => triggerTasks[x][u] = 0
  BY <1>1 DEF NothingShared, OwnTriggersInv, OwnInv
<1>4. /\ \A y \in Triggers, u \in Tasks : y # x => (Runs(y, u)' <=> Runs(y, u))
      /\ \A u \in Tasks : ~Runs(x, u)'
      /\ \A u \in Tasks : ~Leaving(u) /\ ~Leaving(u)'
  BY <1>1, <1>2, <1>3 DEF Runs, Leaving
<1>5. OwnInv'
  BY <1>1, <1>2 DEF OwnTriggersInv, OwnInv
<1>6. FiledInv'
  <2>1. \A u \in tasks : u # current =>
            \A y \in scheduledTriggers[u] \cap definition[u].triggers : triggerTasks'[y][u] # 0
    BY <1>1, <1>2 DEF OwnTriggersInv, FiledInv
  <2>2. pc = "remove" => \A y \in newTriggers : triggerTasks'[y][current] # 0
    BY <1>1, <1>2 DEF OwnTriggersInv, FiledInv
  <2> QED
    BY <1>1, <2>1, <2>2 DEF OwnTriggersInv, FiledInv
<1>7. CASE triggerTasks[x][current] # 0
  <2>1. LastTaskOf(x) /\ CompositeUnschedule(x)
    BY <1>1, <1>3, <1>7 DEF RemoveTrigger, LastTaskOf, TasksOf
  <2>2. Placed(x)
    BY <1>1, <1>4, <1>7 DEF Runs, OwnTriggersInv, PlacedInv
  <2>3. PathsInv' /\ \A y \in Triggers : y # x /\ Placed(y) => Placed(y)'
    BY <2>1, <2>2, UnscheduleKeepsOthers DEF OwnTriggersInv, PlacedInv
  <2>4. PlacedInv'
    BY <1>4, <2>1, <2>3, JobsOfUnschedule DEF OwnTriggersInv, PlacedInv
  <2>5. JobsInv'
    <3> SUFFICES ASSUME NEW j \in cronJobs' PROVE JobInv(j)'
      BY DEF JobsInv
    <3>1. j \in cronJobs /\ j[1] \in Triggers /\ JobInv(j)
          /\ j = <<j[1], jobs[j[1]]>> /\ UNCHANGED <<jobs, ids>>
      <4>1. j \in cronJobs /\ UNCHANGED <<jobs, ids>>
        BY <2>1, JobsOfUnschedule
      <4>2. j \in Triggers \X (Nat \ {0}) /\ JobInv(j)
        BY <4>1 DEF CompositeTypeOK, CronTypeOK, OwnTriggersInv, JobsInv
      <4> QED
        BY <4>1, <4>2 DEF JobInv
    <3>2. j[1] # x
      BY <2>1, <3>1, JobsOfUnschedule DEF JobInv
    <3> QED
      BY <1>1, <1>4, <3>1, <3>2, JobKept
  <2> QED
    BY <1>5, <1>6, <2>4, <2>5 DEF OwnTriggersInv
<1>8. CASE triggerTasks[x][current] = 0
  <2>1. UNCHANGED compositeVars
    BY <1>1, <1>3, <1>8 DEF RemoveTrigger, LastTaskOf, TasksOf
  <2>2. PlacedInv'
    BY <1>4, <2>1 DEF OwnTriggersInv, PlacedInv, compositeVars, childVars, cronVars, tsVars, fsVars,
                      Placed, Armed, CronArmed, TsArmed, FsArmed, PathsInv, WatchPath
  <2>3. JobsInv'
    <3> SUFFICES ASSUME NEW j \in cronJobs PROVE JobInv(j)'
      BY <2>1 DEF JobsInv, compositeVars, childVars, cronVars
    <3>1. j[1] \in Triggers /\ JobInv(j) /\ UNCHANGED <<jobs, ids>>
      BY <2>1 DEF CompositeTypeOK, CronTypeOK, OwnTriggersInv, JobsInv, compositeVars, childVars, cronVars
    <3>2. j[1] # x
      BY <1>3, <1>8, <3>1 DEF JobInv, Runs
    <3> QED
      BY <1>1, <1>4, <3>1, <3>2, JobKept
  <2> QED
    BY <1>5, <1>6, <2>2, <2>3 DEF OwnTriggersInv
<1> QED
  BY <1>7, <1>8

\* Unschedule asks the child for every trigger of its task, known there or not.
LEMMA UnscheduleTakesOut ==
    ASSUME NothingShared, CompositeTypeOK, TableTypes, OwnTriggersInv,
           NEW x \in Triggers, UnscheduleTrigger(x)
    PROVE  OwnTriggersInv'
<1> USE DEF TableTypes
<1>1. /\ current \in Tasks /\ current \in tasks /\ pc = "unschedule"
      /\ x \in todo /\ x \in Own(current)
      /\ todo' = todo \ {x} /\ CompositeUnschedule(x)
      /\ UNCHANGED <<tasks, definition, scheduledTriggers, triggerTasks, pc, current, newTriggers, version>>
  BY DEF UnscheduleTrigger, tableVars, OwnTriggersInv, OwnInv, FiledInv
<1>2. /\ \A y \in Triggers, u \in Tasks : Runs(y, u)' <=> Runs(y, u)
      /\ \A u \in Tasks : Leaving(u)' <=> u = current
      /\ \A u \in Tasks : Leaving(u) <=> u = current
  BY <1>1 DEF Runs, Leaving
<1>3. OwnInv'
  BY <1>1 DEF OwnTriggersInv, OwnInv
<1>4. FiledInv'
  BY <1>1 DEF OwnTriggersInv, FiledInv
<1>5. PlacedInv'
  <2>1. ASSUME NEW y \in Triggers, NEW u \in Tasks, Runs(y, u), u # current
        PROVE  Placed(y)'
    <3>1. Placed(y)
      BY <1>2, <2>1 DEF OwnTriggersInv, PlacedInv
    <3>2. y \in Own(u)
      BY <2>1 DEF Runs, OwnTriggersInv, OwnInv
    <3>3. y # x /\ (Kind[x] = "fsnotify" /\ Kind[y] = "fsnotify" => WatchPath(x) # WatchPath(y))
      BY <1>1, <2>1, <3>2 DEF NothingShared
    <3> QED
      BY <1>1, <3>1, <3>3, UnscheduleKeepsApart DEF OwnTriggersInv, PlacedInv
  <2>2. PathsInv' /\ UNCHANGED ids
    BY <1>1, UnscheduleKeepsApart, JobsOfUnschedule DEF OwnTriggersInv, PlacedInv
  <2> QED
    BY <1>2, <2>1, <2>2 DEF OwnTriggersInv, PlacedInv
<1>6. JobsInv'
  <2> SUFFICES ASSUME NEW j \in cronJobs' PROVE JobInv(j)'
    BY DEF JobsInv
  <2>1. j \in cronJobs /\ UNCHANGED <<jobs, ids>>
    BY <1>1, JobsOfUnschedule
  <2>2. j[1] \in Triggers /\ JobInv(j) /\ j = <<j[1], jobs[j[1]]>>
    <3>1. j \in Triggers \X (Nat \ {0}) /\ JobInv(j)
      BY <2>1 DEF CompositeTypeOK, CronTypeOK, OwnTriggersInv, JobsInv
    <3> QED
      BY <3>1 DEF JobInv
  <2>3. j[1] # x
    BY <1>1, <2>1, <2>2, JobsOfUnschedule DEF JobInv
  <2> QED
    BY <1>1, <1>2, <2>1, <2>2, <2>3, JobKept
<1> QED
  BY <1>3, <1>4, <1>5, <1>6 DEF OwnTriggersInv
\* The beginning and the end of each loop, an error, and the two operations that
\* take a task out: only the handler and the set of tasks change.
LEMMA LoopsKeep ==
    ASSUME TableTypes, CompositeTypeOK, OwnTriggersInv,
           \/ AddDone \/ UpdateDone \/ RemoveDone \/ UnscheduleDone
           \/ \E x \in Triggers : UpdateTriggerFails(x)
           \/ \E t \in Tasks : Unschedule(t) \/ UnscheduleTask(t)
    PROVE  OwnTriggersInv'
<1> USE DEF TableTypes
<1>1. UNCHANGED <<compositeVars, definition, scheduledTriggers, triggerTasks>>
  BY DEF AddDone, UpdateDone, RemoveDone, UnscheduleDone, UpdateTriggerFails, Unschedule,
         UnscheduleTask, BeginUnschedule, tableVars
<1>2. OwnInv'
  BY <1>1 DEF AddDone, UpdateDone, RemoveDone, UnscheduleDone, UpdateTriggerFails, Updating,
              Unschedule, UnscheduleTask, BeginUnschedule, tableVars, OwnTriggersInv, OwnInv
<1>3. FiledInv'
  BY <1>1 DEF AddDone, UpdateDone, RemoveDone, UnscheduleDone, UpdateTriggerFails, Updating,
              Unschedule, UnscheduleTask, BeginUnschedule, tableVars, OwnTriggersInv, OwnInv, FiledInv
<1>4. /\ \A x \in Triggers, t \in Tasks : Runs(x, t)' => Runs(x, t)
      /\ \A t \in tasks' : Leaving(t) => Leaving(t)'
  BY <1>1 DEF AddDone, UpdateDone, RemoveDone, UnscheduleDone, UpdateTriggerFails, Updating,
              Unschedule, UnscheduleTask, BeginUnschedule, tableVars, Runs, Leaving
<1>5. PlacedInv'
  BY <1>1, <1>4 DEF Runs, OwnTriggersInv, PlacedInv, compositeVars, childVars, cronVars, tsVars,
                    fsVars, Placed, Armed, CronArmed, TsArmed, FsArmed, PathsInv, WatchPath
<1>6. JobsInv'
  <2> SUFFICES ASSUME NEW j \in cronJobs PROVE JobInv(j)'
    BY <1>1 DEF JobsInv, compositeVars, childVars, cronVars
  <2>1. JobInv(j) /\ UNCHANGED <<jobs, ids>>
    BY <1>1 DEF OwnTriggersInv, JobsInv, compositeVars, childVars, cronVars
  <2> SUFFICES ASSUME NEW t \in Tasks, Runs(j[1], t),
                      pc \in {"unschedule", "unscheduleTask"} /\ current = t => j[1] \in todo
               PROVE  /\ Runs(j[1], t)'
                      /\ pc' \in {"unschedule", "unscheduleTask"} /\ current' = t => j[1] \in todo'
    BY <2>1, JobKept
  <2>2. CASE UnscheduleDone
    BY <1>1, <2>2 DEF UnscheduleDone, Runs
  <2>3. CASE \E u \in Tasks : Unschedule(u) \/ UnscheduleTask(u)
    BY <1>1, <2>3 DEF Unschedule, UnscheduleTask, BeginUnschedule, tableVars, Runs
  <2>4. CASE AddDone \/ UpdateDone \/ RemoveDone \/ \E x \in Triggers : UpdateTriggerFails(x)
    BY <1>1, <2>4 DEF AddDone, UpdateDone, RemoveDone, UpdateTriggerFails, Updating, tableVars, Runs
  <2> QED
    BY <2>2, <2>3, <2>4
<1> QED
  BY <1>2, <1>3, <1>5, <1>6 DEF OwnTriggersInv

\* Callbacks, Start, Stop, a lost watch and a panic reach none of these tables.
LEMMA OthersKeep ==
    ASSUME OwnTriggersInv,
           UNCHANGED <<tableVars, handlerVars, cronJobs, jobs, ids, eventTriggers, pathTriggers>>
    PROVE  OwnTriggersInv'
<1> USE DEF tableVars, handlerVars
<1>1. OwnInv' /\ FiledInv'
  BY DEF OwnTriggersInv, OwnInv, FiledInv
<1>2. PlacedInv'
  BY DEF OwnTriggersInv, PlacedInv, Runs, Leaving, Placed, Armed, CronArmed, TsArmed, FsArmed,
         PathsInv, WatchPath
<1>3. JobsInv'
  BY DEF OwnTriggersInv, JobsInv, JobInv, Runs
<1> QED
  BY <1>1, <1>2, <1>3 DEF OwnTriggersInv

\* Every operation of the package keeps the tables of tasks that share nothing.
LEMMA StepOwnTriggersInv ==
    ASSUME NothingShared, SchedulerTypeOK, OwnTriggersInv, [LibraryNext]_vars
    PROVE  OwnTriggersInv'
<1>0. TableTypes /\ CompositeTypeOK
  BY TypesOfTables
<1>1. ASSUME NEW t \in Tasks, NEW S \in Definitions[t], ScheduleNew(t, S) \/ Reschedule(t, S)
      PROVE  OwnTriggersInv'
  BY <1>0, <1>1, ScheduleBegins
<1>2. ASSUME NEW x \in Triggers,
             UpdateTriggerSchedules(x) \/ UpdateTriggerExists(x)
             \/ RemoveTrigger(x) \/ UnscheduleTrigger(x)
      PROVE  OwnTriggersInv'
  BY <1>0, <1>2, UpdateSchedules, UpdateExists, SweepTakesOut, UnscheduleTakesOut
<1>3. CASE \/ AddDone \/ UpdateDone \/ RemoveDone \/ UnscheduleDone
           \/ \E x \in Triggers : UpdateTriggerFails(x)
           \/ \E t \in Tasks : Unschedule(t) \/ UnscheduleTask(t)
  BY <1>0, <1>3, LoopsKeep
<1>4. ASSUME NEW x \in Triggers,
             \/ UpdateTriggerPanics(x) \/ UpdateTriggerNilMap(x)
             \/ RemoveTriggerPanics(x) \/ UnscheduleTriggerPanics(x)
      PROVE  OwnTriggersInv'
  BY <1>4, OthersKeep DEF UpdateTriggerPanics, UpdateTriggerNilMap, RemoveTriggerPanics,
     UnscheduleTriggerPanics, Dies, compositeVars, childVars, cronVars, tsVars, fsVars
<1>5. CASE Start \/ Stop
  BY <1>5, OthersKeep DEF Start, Stop, CompositeStart, CompositeStop, CronStart, CronStop,
     TsStart, TsStop, FsStart, FsStop
<1>6. CASE Environment
  BY <1>6, OthersKeep, CallbacksKeepTables DEF Environment, MapRace, FileGone, Dies, FsFileGone,
     compositeVars, childVars, cronVars, tsVars, fsVars
<1>7. CASE UNCHANGED vars
  BY <1>7, OthersKeep DEF vars, compositeVars, childVars, cronVars, tsVars, fsVars
<1> QED
  BY <1>1, <1>2, <1>3, <1>4, <1>5, <1>6, <1>7 DEF LibraryNext, Next, Schedule

\* It holds of a new task scheduler.
LEMMA InitOwnTriggersInv == Init => OwnTriggersInv
<1> SUFFICES ASSUME Init PROVE OwnTriggersInv
  OBVIOUS
<1>1. /\ tasks = {} /\ cronJobs = {} /\ pc = "idle" /\ current = NoTask /\ newTriggers = {}
      /\ \A t \in Tasks : definition[t].triggers = {} /\ scheduledTriggers[t] = {}
      /\ \A x \in Triggers : ids[x] = "none" /\ \A t \in Tasks : triggerTasks[x][t] = 0
      /\ \A p \in Paths : pathTriggers[p] = {}
  BY DEF Init, CompositeInit, CronInit, FsInit, NoDefinition
<1> QED
  BY <1>1 DEF OwnTriggersInv, OwnInv, PlacedInv, JobsInv, FiledInv, Runs, PathsInv

-----------------------------------------------------------------------------
(* What the package promises to tasks that share nothing *)

\* The tables of tasks that share nothing, at every moment of a run.
LEMMA OwnTriggersInvariant ==
    ASSUME NothingShared
    PROVE  LibrarySpec => [](SchedulerTypeOK /\ OwnTriggersInv)
  BY InitTypeOK, StepTypeOK, InitOwnTriggersInv, StepOwnTriggersInv, PTL DEF LibrarySpec

\* An identifier has one job in gocron, so a tick runs its tasks once
\* (updateTrigger, CronTriggersScheduler.ScheduleByID and Unschedule).
THEOREM TriggerScheduledOnceHolds ==
    ASSUME NothingShared
    PROVE  LibrarySpec => []TriggerScheduledOnce
<1>1. SchedulerTypeOK /\ OwnTriggersInv => TriggerScheduledOnce
  <2> SUFFICES ASSUME SchedulerTypeOK, OwnTriggersInv,
                      NEW j \in cronJobs, NEW k \in cronJobs, j[1] = k[1]
               PROVE  j = k
    BY DEF TriggerScheduledOnce
  <2>1. j \in Triggers \X (Nat \ {0}) /\ k \in Triggers \X (Nat \ {0})
    BY DEF SchedulerTypeOK, CompositeTypeOK, CronTypeOK
  <2>2. j[2] = jobs[j[1]] /\ k[2] = jobs[k[1]]
    BY DEF OwnTriggersInv, JobsInv, JobInv
  <2> QED
    BY <2>1, <2>2
<1> QED
  BY <1>1, OwnTriggersInvariant, PTL

\* Between two calls a task that is in the table is called for every trigger it
\* was scheduled for, however often it and others were taken out and scheduled
\* again (Schedule, Unschedule, UnscheduleTask).
THEOREM ScheduledTaskIsCalledHolds ==
    ASSUME NothingShared
    PROVE  LibrarySpec => []ScheduledTaskIsCalled
<1>1. SchedulerTypeOK /\ OwnTriggersInv => ScheduledTaskIsCalled
  <2> SUFFICES ASSUME SchedulerTypeOK, OwnTriggersInv, pc = "idle", NEW t \in tasks,
                      NEW x \in scheduledTriggers[t] \cap definition[t].triggers
               PROVE  triggerTasks[x][t] # 0 /\ Armed(x)
    BY DEF ScheduledTaskIsCalled
  <2>1. t \in Tasks /\ x \in Triggers /\ t # current
    BY TypesOfTables DEF TableTypes, OwnTriggersInv, FiledInv
  <2>2. triggerTasks[x][t] # 0
    BY <2>1 DEF OwnTriggersInv, FiledInv
  <2>3. Placed(x)
    BY <2>1, <2>2 DEF Runs, Leaving, OwnTriggersInv, PlacedInv
  <2> QED
    BY <2>2, <2>3 DEF Placed
<1> QED
  BY <1>1, OwnTriggersInvariant, PTL
-----------------------------------------------------------------------------
(* What is left in the child schedulers *)

\* Each child keeps a trigger it may call back for where it will look for it
\* when the trigger is taken out.
ChildInv ==
    /\ \A e \in Events : \A x \in eventTriggers[e] :
          EventOf[x] = e /\ ids[x] = "event" /\ x \in tsTriggers
    /\ \A p \in Paths : \A x \in pathTriggers[p] :
          PathOf[x] = p /\ ids[x] = "fsnotify" /\ x \in fsTriggers

\* A trigger that some child may call back for runs a task that is not being taken
\* out, or has not been reached.
HeldInv ==
    \A x \in Triggers : CalledBack(x) =>
        \E t \in Tasks :
            /\ Runs(x, t)
            /\ pc \in {"unschedule", "unscheduleTask"} /\ current = t => x \in todo

\* A trigger runs the newest definition of a task, and is one of that definition,
\* unless Schedule has yet to update it or to sweep it.
NewestInv ==
    /\ pc \in {"add", "update"} => todo \subseteq definition[current].triggers
    /\ \A x \in Triggers, t \in Tasks : Runs(x, t) =>
          \/ Fresh(x, t)
          \/ t = current /\ pc = "update" /\ x \notin newTriggers
          \/ t = current /\ pc = "remove" /\ x \in todo

LiveInv == ChildInv /\ HeldInv /\ NewestInv

\* The paths of the tasks are those they normalise to: Unschedule looks for a
\* trigger under the path as it was written.
PathsAsWritten ==
    \A t \in Tasks : \A x \in Own(t) : Kind[x] = "fsnotify" => PathOf[x] = WatchPath(x)

\* Scheduling a trigger files it where its child will look, and no other.
LEMMA ScheduleByIDFiles ==
    ASSUME CompositeTypeOK, ChildInv, NEW x \in Triggers, ids[x] \in {"none", Kind[x]},
           Kind[x] = "fsnotify" => PathOf[x] = WatchPath(x), ScheduleByID(x)
    PROVE  /\ ChildInv'
           /\ \A y \in Triggers : CalledBack(y)' => y = x \/ CalledBack(y)
<1> USE TriggersAssumption DEF CompositeTypeOK
<1>1. ids' = [ids EXCEPT ![x] = Kind[x]] /\ ids \in [Triggers -> Kinds \cup {"none"}]
  BY DEF ScheduleByID
<1>2. CASE Kind[x] = "cron" /\ CronScheduleByID(x) /\ UNCHANGED <<tsVars, fsVars>>
  <2>1. ChildInv'
    BY <1>1, <1>2 DEF tsVars, fsVars, ChildInv, TsTypeOK, FsTypeOK
  <2> QED
    BY <1>2, <2>1 DEF CronScheduleByID, tsVars, fsVars, CalledBack
<1>3. CASE Kind[x] = "event" /\ TsScheduleByID(x) /\ UNCHANGED <<cronVars, fsVars>>
  <2>1. \A e \in Events : eventTriggers'[e] =
            IF e = EventOf[x] THEN eventTriggers[e] \cup {x} ELSE eventTriggers[e]
    BY <1>3 DEF TsScheduleByID, TsTypeOK
  <2>2. ChildInv'
    BY <1>1, <1>3, <2>1 DEF TsScheduleByID, cronVars, fsVars, ChildInv, TsTypeOK, FsTypeOK
  <2> QED
    BY <1>3, <2>1, <2>2 DEF cronVars, fsVars, CalledBack
<1>4. CASE Kind[x] = "fsnotify" /\ FsScheduleByID(x) /\ UNCHANGED <<cronVars, tsVars>>
  <2>1. PathOf[x] = WatchPath(x)
    BY <1>4
  <2>2. \A p \in Paths : pathTriggers'[p] =
            IF p = PathOf[x] THEN pathTriggers[p] \cup {x} ELSE pathTriggers[p]
    BY <1>4, <2>1 DEF FsScheduleByID, FsTypeOK
  <2>3. ChildInv'
    <3>1. \A p \in Paths : \A y \in pathTriggers'[p] :
              PathOf[y] = p /\ ids'[y] = "fsnotify" /\ y \in fsTriggers \cup {x}
      <4> SUFFICES ASSUME NEW p \in Paths, NEW y \in pathTriggers'[p]
                   PROVE  PathOf[y] = p /\ ids'[y] = "fsnotify" /\ y \in fsTriggers \cup {x}
        OBVIOUS
      <4>1. CASE y = x /\ p = PathOf[x]
        BY <1>1, <1>4, <4>1
      <4>2. CASE y \in pathTriggers[p]
        <5>1. PathOf[y] = p /\ ids[y] = "fsnotify" /\ y \in fsTriggers
          BY <4>2 DEF ChildInv
        <5>2. y \in Triggers
          BY <4>2 DEF FsTypeOK
        <5> QED
          BY <1>1, <1>4, <5>1, <5>2
      <4> QED
        BY <2>2, <4>1, <4>2
    <3>2. fsTriggers' = fsTriggers \cup {x}
      BY <1>4 DEF FsScheduleByID
    <3>3. \A e \in Events : \A y \in eventTriggers[e] : y # x /\ ids'[y] = ids[y]
      BY <1>1, <1>4 DEF ChildInv, TsTypeOK
    <3> QED
      BY <1>4, <3>1, <3>2, <3>3 DEF tsVars, ChildInv
  <2> QED
    BY <1>4, <2>2, <2>3 DEF cronVars, tsVars, CalledBack
<1> QED
  BY <1>2, <1>3, <1>4 DEF ScheduleByID

\* No child calls back for a trigger that has been taken out.
LEMMA UnscheduleSilences ==
    ASSUME CompositeTypeOK, JobsInv, ChildInv, NEW x \in Triggers, CompositeUnschedule(x)
    PROVE  /\ ChildInv'
           /\ ~CalledBack(x)'
           /\ \A y \in Triggers : CalledBack(y)' => CalledBack(y)
<1> USE TriggersAssumption DEF CompositeTypeOK
<1>1. UNCHANGED ids
  BY DEF CompositeUnschedule
<1>2. \A j \in cronJobs : j[1] = x => j = <<x, jobs[x]>> /\ ids[x] = "cron"
  <2> SUFFICES ASSUME NEW j \in cronJobs, j[1] = x PROVE j = <<x, jobs[x]>> /\ ids[x] = "cron"
    OBVIOUS
  <2>1. j \in Triggers \X (Nat \ {0}) /\ JobInv(j)
    BY DEF CronTypeOK, JobsInv
  <2> QED
    BY <2>1 DEF JobInv
<1>3. CASE ids[x] = "none" /\ UNCHANGED childVars
  <2>1. ~CalledBack(x)
    BY <1>2, <1>3 DEF ChildInv, CalledBack
  <2> QED
    BY <1>1, <1>3, <2>1 DEF childVars, cronVars, tsVars, fsVars, ChildInv, CalledBack
<1>4. CASE ids[x] = "cron" /\ CronUnschedule(x) /\ UNCHANGED <<tsVars, fsVars>>
  <2>1. ChildInv'
    BY <1>1, <1>4 DEF tsVars, fsVars, ChildInv
  <2>2. ~CalledBack(x)'
    BY <1>2, <1>4 DEF CronUnschedule, tsVars, fsVars, ChildInv, CalledBack
  <2> QED
    BY <1>4, <2>1, <2>2 DEF CronUnschedule, tsVars, fsVars, CalledBack
<1>5. CASE ids[x] = "event" /\ TsUnschedule(x) /\ UNCHANGED <<cronVars, fsVars>>
  <2>1. \A e \in Events : eventTriggers'[e] \subseteq eventTriggers[e] \ {x}
    <3>1. CASE x \in tsTriggers
      BY <1>5, <3>1 DEF TsUnschedule, TsTypeOK, ChildInv
    <3>2. CASE x \notin tsTriggers
      BY <1>5, <3>2 DEF TsUnschedule, ChildInv
    <3> QED
      BY <3>1, <3>2
  <2>2. ChildInv'
    <3>1. tsTriggers \ {x} \subseteq tsTriggers'
      BY <1>5 DEF TsUnschedule
    <3> QED
      BY <1>1, <1>5, <2>1, <3>1 DEF cronVars, fsVars, ChildInv
  <2>3. ~CalledBack(x)'
    BY <1>2, <1>5, <2>1 DEF cronVars, fsVars, ChildInv, CalledBack
  <2> QED
    BY <1>5, <2>1, <2>2, <2>3 DEF cronVars, fsVars, CalledBack
<1>6. CASE ids[x] = "fsnotify" /\ FsUnschedule(x) /\ UNCHANGED <<cronVars, tsVars>>
  <2>1. \A p \in Paths : pathTriggers'[p] \subseteq pathTriggers[p] \ {x}
    <3>1. CASE x \in fsTriggers
      BY <1>6, <3>1 DEF FsUnschedule, FsTypeOK, ChildInv
    <3>2. CASE x \notin fsTriggers
      BY <1>6, <3>2 DEF FsUnschedule, ChildInv
    <3> QED
      BY <3>1, <3>2
  <2>2. ChildInv'
    BY <1>1, <1>6, <2>1 DEF FsUnschedule, cronVars, tsVars, ChildInv
  <2>3. ~CalledBack(x)'
    BY <1>2, <1>6, <2>1 DEF cronVars, tsVars, ChildInv, CalledBack
  <2> QED
    BY <1>6, <2>1, <2>2, <2>3 DEF cronVars, tsVars, CalledBack
<1> QED
  BY <1>3, <1>4, <1>5, <1>6 DEF CompositeUnschedule

\* A callback stays justified when what it rests on stays.
LEMMA HeldKept ==
    ASSUME HeldInv,
           \A x \in Triggers : CalledBack(x)' => CalledBack(x),
           \A x \in Triggers, t \in Tasks :
               /\ CalledBack(x)' /\ Runs(x, t)
               /\ pc \in {"unschedule", "unscheduleTask"} /\ current = t => x \in todo
               => /\ Runs(x, t)'
                  /\ pc' \in {"unschedule", "unscheduleTask"} /\ current' = t => x \in todo'
    PROVE  HeldInv'
  BY DEF HeldInv

\* What the two invariants of the children read.
filed == <<cronJobs, jobs, ids, eventTriggers, tsTriggers, pathTriggers, fsTriggers>>

\* A step that leaves the tables of the children alone keeps them.
LEMMA FiledKept ==
    ASSUME UNCHANGED filed
    PROVE  /\ ChildInv => ChildInv'
           /\ \A x \in Triggers : CalledBack(x)' <=> CalledBack(x)
  BY DEF filed, ChildInv, CalledBack

\* A task that was met again is stale under every trigger until it is updated.
LEMMA ScheduleBeginsLive ==
    ASSUME TableTypes, OwnTriggersInv, LiveInv, NEW t \in Tasks, NEW S \in Definitions[t],
           ScheduleNew(t, S) \/ Reschedule(t, S)
    PROVE  LiveInv'
<1> USE DEF TableTypes
<1>1. /\ pc = "idle" /\ current' = t /\ todo' = S /\ newTriggers' = {}
      /\ definition' = [definition EXCEPT ![t] = [triggers |-> S, version |-> version + 1]]
      /\ tasks' = tasks \cup {t} /\ current = NoTask
      /\ UNCHANGED <<filed, triggerTasks>>
  BY DEF ScheduleNew, Reschedule, OwnTriggersInv, FiledInv, filed, compositeVars, childVars,
         cronVars, tsVars, fsVars
<1>2. \/ t \notin tasks /\ pc' = "add" /\ scheduledTriggers' = [scheduledTriggers EXCEPT ![t] = {}]
      \/ t \in tasks /\ pc' = "update" /\ UNCHANGED scheduledTriggers
  BY DEF ScheduleNew, Reschedule
<1>3. /\ \A x \in Triggers, u \in Tasks : Runs(x, u)' <=> Runs(x, u)
      /\ \A x \in Triggers : ~Runs(x, t)' \/ pc' = "update"
  BY <1>1, <1>2 DEF Runs
<1>4. ChildInv' /\ HeldInv'
  BY <1>1, <1>2, <1>3, FiledKept, HeldKept DEF LiveInv
<1>5. S \subseteq Triggers /\ definition'[t].triggers = S
      /\ \A u \in Tasks : u # t => definition'[u] = definition[u]
  BY <1>1, TasksAssumption
<1>6. ASSUME NEW x \in Triggers, NEW u \in Tasks, u # t, Runs(x, u)
      PROVE  Fresh(x, u)'
  BY <1>1, <1>5, <1>6 DEF LiveInv, NewestInv, Fresh
<1>7. NewestInv'
  BY <1>1, <1>3, <1>5, <1>6 DEF NewestInv
<1> QED
  BY <1>4, <1>7 DEF LiveInv

\* A trigger that is new to the task runs the definition that named it.
LEMMA UpdateSchedulesLive ==
    ASSUME PathsAsWritten, CompositeTypeOK, TableTypes, OwnTriggersInv, LiveInv,
           NEW x \in Triggers, UpdateTriggerSchedules(x)
    PROVE  LiveInv'
<1> USE DEF TableTypes
<1>1. /\ current \in Tasks /\ current \in tasks /\ pc \in {"add", "update"}
      /\ x \in todo /\ ScheduleByID(x)
      /\ scheduledTriggers' = [scheduledTriggers EXCEPT ![current] = @ \cup {x}]
      /\ newTriggers' = newTriggers \cup {x} /\ todo' = todo \ {x}
      /\ UNCHANGED <<tasks, definition, pc, current, version>>
  BY DEF UpdateTriggerSchedules, Updating, OwnTriggersInv, OwnInv
<1>2. \A y \in Triggers, u \in Tasks : triggerTasks'[y][u] =
          IF y # x THEN triggerTasks[y][u]
          ELSE IF u = current THEN definition[u].version ELSE 0
  BY <1>1 DEF UpdateTriggerSchedules
<1>3. definition[current].version # 0
  BY <1>1 DEF OwnTriggersInv, FiledInv
<1>4. \A u \in Tasks : scheduledTriggers'[u] =
          IF u = current THEN scheduledTriggers[u] \cup {x} ELSE scheduledTriggers[u]
  BY <1>1
<1>5. /\ Runs(x, current)' /\ \A u \in Tasks : Runs(x, u)' => u = current
      /\ \A y \in Triggers, u \in Tasks : y # x => (Runs(y, u)' <=> Runs(y, u))
  BY <1>1, <1>2, <1>3, <1>4 DEF Runs
<1>6. ChildInv' /\ \A y \in Triggers : CalledBack(y)' => y = x \/ CalledBack(y)
  <2>1. Kind[x] = "fsnotify" => PathOf[x] = WatchPath(x)
    BY <1>1 DEF PathsAsWritten, OwnTriggersInv, OwnInv
  <2> QED
    BY <1>1, <2>1, ScheduleByIDFiles DEF OwnTriggersInv, PlacedInv, LiveInv
<1>7. HeldInv'
  BY <1>1, <1>5, <1>6 DEF LiveInv, HeldInv
<1>8. Fresh(x, current)'
  BY <1>1, <1>2 DEF LiveInv, NewestInv, Fresh
<1>9. NewestInv'
  BY <1>1, <1>2, <1>5, <1>8 DEF LiveInv, NewestInv, Fresh
<1> QED
  BY <1>6, <1>7, <1>9 DEF LiveInv

\* A trigger the task has runs its new definition from now on.
LEMMA UpdateExistsLive ==
    ASSUME TableTypes, OwnTriggersInv, LiveInv, NEW x \in Triggers, UpdateTriggerExists(x)
    PROVE  LiveInv'
<1> USE DEF TableTypes
<1>1. /\ current \in Tasks /\ current \in tasks /\ pc \in {"add", "update"}
      /\ x \in todo /\ x \in scheduledTriggers[current]
      /\ newTriggers' = newTriggers \cup {x} /\ todo' = todo \ {x}
      /\ UNCHANGED <<filed, tasks, definition, scheduledTriggers, pc, current, version>>
  BY DEF UpdateTriggerExists, Updating, OwnTriggersInv, OwnInv, filed, compositeVars, childVars,
         cronVars, tsVars, fsVars
<1>2. definition[current].version # 0
  BY <1>1 DEF OwnTriggersInv, FiledInv
<1>3. \A y \in Triggers, u \in Tasks : triggerTasks'[y][u] =
          IF y = x /\ u = current THEN definition[u].version ELSE triggerTasks[y][u]
  BY <1>1 DEF UpdateTriggerExists
<1>4. \A y \in Triggers, u \in Tasks :
          /\ Runs(y, u) => Runs(y, u)'
          /\ y # x \/ u # current => (Runs(y, u)' <=> Runs(y, u))
  BY <1>1, <1>2, <1>3 DEF Runs
<1>5. ChildInv' /\ HeldInv'
  BY <1>1, <1>4, FiledKept, HeldKept DEF LiveInv
<1>6. Fresh(x, current)'
  BY <1>1, <1>3 DEF LiveInv, NewestInv, Fresh
<1>7. NewestInv'
  BY <1>1, <1>3, <1>4, <1>6 DEF LiveInv, NewestInv, Fresh
<1> QED
  BY <1>5, <1>7 DEF LiveInv

\* No child calls back for a trigger that was swept.
LEMMA SweepTakesOutLive ==
    ASSUME NothingShared, CompositeTypeOK, TableTypes, OwnTriggersInv, LiveInv,
           NEW x \in Triggers, RemoveTrigger(x)
    PROVE  LiveInv'
<1> USE DEF TableTypes
<1>1. /\ current \in Tasks /\ pc \in {"remove", "unscheduleTask"}
      /\ x \in todo /\ x \in Own(current)
      /\ todo' = todo \ {x}
      /\ UNCHANGED <<tasks, definition, scheduledTriggers, pc, current, newTriggers, version>>
  BY DEF RemoveTrigger, Sweeping, OwnTriggersInv, OwnInv, FiledInv
<1>2. \A y \in Triggers, u \in Tasks : triggerTasks'[y][u] =
          IF y = x /\ u = current THEN 0 ELSE triggerTasks[y][u]
  BY <1>1 DEF RemoveTrigger
<1>3. \A u \in Tasks : u # current => triggerTasks[x][u] = 0
  BY <1>1 DEF NothingShared, OwnTriggersInv, OwnInv
<1>4. /\ \A y \in Triggers, u \in Tasks : y # x => (Runs(y, u)' <=> Runs(y, u))
      /\ \A u \in Tasks : ~Runs(x, u)'
  BY <1>1, <1>2, <1>3 DEF Runs
<1>5. /\ ChildInv'
      /\ ~CalledBack(x)'
      /\ \A y \in Triggers : CalledBack(y)' => CalledBack(y)
  <2>1. CASE triggerTasks[x][current] # 0
    <3>1. CompositeUnschedule(x)
      BY <1>1, <1>3, <2>1 DEF RemoveTrigger, LastTaskOf, TasksOf
    <3> QED
      BY <3>1, UnscheduleSilences DEF OwnTriggersInv, LiveInv
  <2>2. CASE triggerTasks[x][current] = 0
    <3>1. UNCHANGED filed
      BY <1>1, <1>3, <2>2 DEF RemoveTrigger, LastTaskOf, TasksOf, filed, compositeVars, childVars,
                              cronVars, tsVars, fsVars
    <3>2. ~CalledBack(x)
      BY <1>3, <2>2 DEF LiveInv, HeldInv, Runs
    <3> QED
      BY <3>1, <3>2, FiledKept DEF LiveInv
  <2> QED
    BY <2>1, <2>2
<1>6. HeldInv'
  BY <1>1, <1>4, <1>5, HeldKept DEF LiveInv
<1>7. NewestInv'
  BY <1>1, <1>2, <1>4 DEF LiveInv, NewestInv, Fresh
<1> QED
  BY <1>5, <1>6, <1>7 DEF LiveInv

\* No child calls back for a trigger that Unschedule has reached.
LEMMA UnscheduleTakesOutLive ==
    ASSUME CompositeTypeOK, TableTypes, OwnTriggersInv, LiveInv,
           NEW x \in Triggers, UnscheduleTrigger(x)
    PROVE  LiveInv'
<1> USE DEF TableTypes
<1>1. /\ pc = "unschedule" /\ todo' = todo \ {x} /\ CompositeUnschedule(x)
      /\ UNCHANGED <<tasks, definition, scheduledTriggers, triggerTasks, pc, current, newTriggers>>
  BY DEF UnscheduleTrigger, tableVars
<1>2. /\ ChildInv'
      /\ ~CalledBack(x)'
      /\ \A y \in Triggers : CalledBack(y)' => CalledBack(y)
  BY <1>1, UnscheduleSilences DEF OwnTriggersInv, LiveInv
<1>3. \A y \in Triggers, u \in Tasks : Runs(y, u)' <=> Runs(y, u)
  BY <1>1 DEF Runs
<1>4. HeldInv'
  BY <1>1, <1>2, <1>3, HeldKept DEF LiveInv
<1>5. NewestInv'
  BY <1>1, <1>3 DEF LiveInv, NewestInv, Fresh
<1> QED
  BY <1>2, <1>4, <1>5 DEF LiveInv

\* The end of each loop: an updated definition has nothing stale left that is
\* not to be swept, and the sweep leaves nothing stale.
LEMMA LoopsKeepLive ==
    ASSUME TableTypes, OwnTriggersInv, LiveInv,
           \/ AddDone \/ UpdateDone \/ RemoveDone \/ UnscheduleDone
           \/ \E x \in Triggers : UpdateTriggerFails(x)
           \/ \E t \in Tasks : Unschedule(t) \/ UnscheduleTask(t)
    PROVE  LiveInv'
<1> USE DEF TableTypes
<1>1. UNCHANGED <<filed, definition, scheduledTriggers, triggerTasks>>
  BY DEF AddDone, UpdateDone, RemoveDone, UnscheduleDone, UpdateTriggerFails, Unschedule,
         UnscheduleTask, BeginUnschedule, tableVars, filed, compositeVars, childVars, cronVars,
         tsVars, fsVars
<1>2. ChildInv'
  BY <1>1, FiledKept DEF LiveInv
<1>3. CASE AddDone \/ UpdateDone \/ RemoveDone \/ \E x \in Triggers : UpdateTriggerFails(x)
  <2>1. /\ \A x \in Triggers, t \in Tasks : Runs(x, t)' <=> Runs(x, t)
        /\ pc \in {"add", "update", "remove"} /\ pc' \in {"idle", "add", "update", "remove"}
    BY <1>1, <1>3 DEF AddDone, UpdateDone, RemoveDone, UpdateTriggerFails, Updating, tableVars, Runs
  <2>2. HeldInv'
    BY <1>1, <2>1, FiledKept, HeldKept DEF LiveInv
  <2>3. ASSUME NEW x \in Triggers, NEW t \in Tasks, Runs(x, t)
        PROVE  \/ Fresh(x, t)'
               \/ t = current' /\ pc' = "update" /\ x \notin newTriggers'
               \/ t = current' /\ pc' = "remove" /\ x \in todo'
    <3>1. CASE Fresh(x, t)
      BY <1>1, <3>1 DEF Fresh
    <3>2. CASE t = current /\ pc = "update" /\ x \notin newTriggers
      BY <1>3, <2>3, <3>2 DEF AddDone, UpdateDone, RemoveDone, UpdateTriggerFails, tableVars, Runs
    <3>3. CASE t = current /\ pc = "remove" /\ x \in todo
      BY <1>3, <3>3 DEF AddDone, UpdateDone, RemoveDone, UpdateTriggerFails, Updating
    <3> QED
      BY <2>3, <3>1, <3>2, <3>3 DEF LiveInv, NewestInv
  <2>4. pc' \in {"add", "update"} => todo' \subseteq definition'[current'].triggers
    BY <1>1, <1>3 DEF AddDone, UpdateDone, RemoveDone, UpdateTriggerFails, LiveInv, NewestInv
  <2> QED
    BY <1>2, <2>1, <2>2, <2>3, <2>4 DEF LiveInv, NewestInv
<1>4. CASE UnscheduleDone
  <2>1. /\ pc \in {"unschedule", "unscheduleTask"} /\ pc' = "idle" /\ todo = {}
        /\ tasks' = tasks \ {current}
    BY <1>4 DEF UnscheduleDone
  <2>2. \A x \in Triggers, t \in Tasks : Runs(x, t)' <=> Runs(x, t) /\ t # current
    BY <1>1, <2>1 DEF Runs
  <2>3. HeldInv'
    BY <1>1, <2>1, <2>2, FiledKept, HeldKept DEF LiveInv
  <2>4. NewestInv'
    BY <1>1, <2>1, <2>2 DEF LiveInv, NewestInv, Fresh
  <2> QED
    BY <1>2, <2>3, <2>4 DEF LiveInv
<1>5. ASSUME NEW t \in Tasks, Unschedule(t) \/ UnscheduleTask(t)
      PROVE  LiveInv'
  <2>1. /\ pc = "idle" /\ pc' \in {"unschedule", "unscheduleTask"}
        /\ current' = t /\ todo' = scheduledTriggers[t] /\ UNCHANGED tasks
    BY <1>5 DEF Unschedule, UnscheduleTask, BeginUnschedule, tableVars
  <2>2. \A x \in Triggers, u \in Tasks : Runs(x, u)' <=> Runs(x, u)
    BY <1>1, <2>1 DEF Runs
  <2>3. HeldInv'
    BY <1>1, <2>1, <2>2, FiledKept, HeldKept DEF LiveInv, Runs
  <2>4. NewestInv'
    BY <1>1, <2>1, <2>2 DEF LiveInv, NewestInv, Fresh
  <2> QED
    BY <1>2, <2>3, <2>4 DEF LiveInv
<1> QED
  BY <1>3, <1>4, <1>5

\* Callbacks, Start, Stop, a lost watch and a panic file nothing.
LEMMA OthersKeepLive ==
    ASSUME LiveInv, UNCHANGED <<tableVars, handlerVars, filed>>
    PROVE  LiveInv'
<1>1. ChildInv' /\ \A x \in Triggers : CalledBack(x)' <=> CalledBack(x)
  BY FiledKept DEF LiveInv
<1>2. HeldInv'
  BY <1>1, HeldKept DEF tableVars, handlerVars, LiveInv, Runs
<1>3. NewestInv'
  BY DEF tableVars, handlerVars, LiveInv, NewestInv, Runs, Fresh
<1> QED
  BY <1>1, <1>2, <1>3 DEF LiveInv

\* Every operation of the package keeps what its callbacks may run.
LEMMA StepLiveInv ==
    ASSUME NothingShared, PathsAsWritten, SchedulerTypeOK, OwnTriggersInv, LiveInv,
           [LibraryNext]_vars
    PROVE  LiveInv'
<1>0. TableTypes /\ CompositeTypeOK
  BY TypesOfTables
<1>1. ASSUME NEW t \in Tasks, NEW S \in Definitions[t], ScheduleNew(t, S) \/ Reschedule(t, S)
      PROVE  LiveInv'
  BY <1>0, <1>1, ScheduleBeginsLive
<1>2. ASSUME NEW x \in Triggers,
             UpdateTriggerSchedules(x) \/ UpdateTriggerExists(x)
             \/ RemoveTrigger(x) \/ UnscheduleTrigger(x)
      PROVE  LiveInv'
  BY <1>0, <1>2, UpdateSchedulesLive, UpdateExistsLive, SweepTakesOutLive, UnscheduleTakesOutLive
<1>3. CASE \/ AddDone \/ UpdateDone \/ RemoveDone \/ UnscheduleDone
           \/ \E x \in Triggers : UpdateTriggerFails(x)
           \/ \E t \in Tasks : Unschedule(t) \/ UnscheduleTask(t)
  BY <1>0, <1>3, LoopsKeepLive
<1>4. ASSUME NEW x \in Triggers,
             \/ UpdateTriggerPanics(x) \/ UpdateTriggerNilMap(x)
             \/ RemoveTriggerPanics(x) \/ UnscheduleTriggerPanics(x)
      PROVE  LiveInv'
  BY <1>4, OthersKeepLive DEF UpdateTriggerPanics, UpdateTriggerNilMap, RemoveTriggerPanics,
     UnscheduleTriggerPanics, Dies, filed, compositeVars, childVars, cronVars, tsVars, fsVars
<1>5. CASE Start \/ Stop
  BY <1>5, OthersKeepLive DEF Start, Stop, CompositeStart, CompositeStop, CronStart, CronStop,
     TsStart, TsStop, FsStart, FsStop, filed
<1>6. CASE Environment
  BY <1>6, OthersKeepLive, CallbacksKeepTables DEF Environment, MapRace, FileGone, Dies, FsFileGone,
     filed, compositeVars, childVars, cronVars, tsVars, fsVars
<1>7. CASE UNCHANGED vars
  BY <1>7, OthersKeepLive DEF vars, filed, compositeVars, childVars, cronVars, tsVars, fsVars
<1> QED
  BY <1>1, <1>2, <1>3, <1>4, <1>5, <1>6, <1>7 DEF LibraryNext, Next, Schedule

\* Nothing is filed with a new task scheduler.
LEMMA InitLiveInv == Init => LiveInv
<1> SUFFICES ASSUME Init PROVE LiveInv
  OBVIOUS
<1>1. /\ tasks = {} /\ cronJobs = {} /\ pc = "idle"
      /\ \A e \in Events : eventTriggers[e] = {}
      /\ \A p \in Paths : pathTriggers[p] = {}
  BY DEF Init, CompositeInit, CronInit, TsInit, FsInit
<1> QED
  BY <1>1 DEF LiveInv, ChildInv, HeldInv, NewestInv, CalledBack, Runs

\* Between two calls, a trigger a child may still call back for is one of a task
\* in the table, which it runs with its newest definition, however often tasks
\* were taken out by Unschedule or UnscheduleTask and scheduled again.
THEOREM NoTriggerOutlivesItsTaskHolds ==
    ASSUME NothingShared, PathsAsWritten
    PROVE  LibrarySpec => []NoTriggerOutlivesItsTask
<1>1. SchedulerTypeOK /\ OwnTriggersInv /\ LiveInv => NoTriggerOutlivesItsTask
  <2> SUFFICES ASSUME SchedulerTypeOK, OwnTriggersInv, LiveInv, pc = "idle",
                      NEW x \in Triggers, CalledBack(x)
               PROVE  \E t \in tasks : /\ x \in scheduledTriggers[t]
                                       /\ triggerTasks[x][t] # 0
                                       /\ Fresh(x, t)
    BY DEF NoTriggerOutlivesItsTask
  <2>1. PICK t \in Tasks : Runs(x, t)
    BY DEF LiveInv, HeldInv
  <2>2. Fresh(x, t)
    BY <2>1 DEF LiveInv, NewestInv
  <2> QED
    BY <2>1, <2>2 DEF Runs
<1>2. SchedulerTypeOK /\ OwnTriggersInv /\ LiveInv /\ [LibraryNext]_vars => LiveInv'
  BY StepLiveInv
<1> QED
  BY <1>1, <1>2, InitLiveInv, OwnTriggersInvariant, PTL DEF LibrarySpec
=============================================================================
