------------------------- MODULE TaskSchedulerProofs -------------------------
(***************************************************************************)
(* What TaskScheduler guarantees for every set of tasks and triggers.      *)
(***************************************************************************)
EXTENDS TaskScheduler, FiniteSetTheorems, TLAPS

\* What one step of the task scheduler may do to the trigger schedulers: at
\* most one call of the CompositeTriggersScheduler, or the loss of a watch.
CompositeStep ==
    \/ \E x \in Triggers : ScheduleByID(x)
    \/ \E x \in Triggers : CompositeUnschedule(x)
    \/ CompositeStart /\ watcher # "closed"
    \/ CompositeStop
    \/ \E p \in Paths : FsFileGone(p) /\ UNCHANGED <<cronVars, tsVars, ids, isRunning>>
    \/ UNCHANGED compositeVars

\* Every step of the package's interface is such a step (each handler of
\* task_scheduler.go reaches the children through the composite only).
LEMMA StepsAreCompositeSteps ==
    ASSUME FsTypeOK, [LibraryNext]_vars
    PROVE  CompositeStep
<1>1. CASE UNCHANGED vars
  BY <1>1 DEF vars, CompositeStep
<1>2. CASE Schedule
  <2>1. ASSUME NEW t \in Tasks, NEW S, ScheduleNew(t, S) \/ Reschedule(t, S)
        PROVE  UNCHANGED compositeVars
    BY <2>1 DEF ScheduleNew, Reschedule
  <2>2. ASSUME NEW x \in Triggers, UpdateTriggerSchedules(x)
        PROVE  ScheduleByID(x)
    BY <2>2 DEF UpdateTriggerSchedules
  <2>3. ASSUME NEW x \in Triggers,
               UpdateTriggerFails(x) \/ UpdateTriggerPanics(x) \/ UpdateTriggerExists(x)
               \/ UpdateTriggerNilMap(x) \/ RemoveTriggerPanics(x)
        PROVE  UNCHANGED compositeVars
    BY <2>3 DEF UpdateTriggerFails, UpdateTriggerPanics, UpdateTriggerExists,
                UpdateTriggerNilMap, RemoveTriggerPanics, Dies
  <2>4. ASSUME NEW x \in Triggers, RemoveTrigger(x)
        PROVE  CompositeUnschedule(x) \/ UNCHANGED compositeVars
    BY <2>4 DEF RemoveTrigger
  <2>5. ASSUME AddDone \/ UpdateDone \/ RemoveDone
        PROVE  UNCHANGED compositeVars
    BY <2>5 DEF AddDone, UpdateDone, RemoveDone
  <2> QED
    BY <1>2, <2>1, <2>2, <2>3, <2>4, <2>5 DEF Schedule, CompositeStep
<1>3. CASE Start \/ Stop
  BY <1>3 DEF Start, Stop, CompositeStep
<1>4. CASE Environment
  <2>1. CASE FileGone
    BY <2>1 DEF FileGone, CompositeStep, FsTypeOK
  <2>2. CASE CronJobFires \/ EventFires \/ PathFires \/ ClosedWatcherFires \/ MapRace
    BY <2>2 DEF CronJobFires, EventFires, PathFires, ClosedWatcherFires, MapRace,
                Launches, Dies, CompositeStep
  <2>3. ASSUME NEW x, OnTrigger(x) \/ OvertakenLoop(x)
        PROVE  CompositeStep
    BY <2>3 DEF OnTrigger, OvertakenLoop, CompositeStep
  <2> QED
    BY <1>4, <2>1, <2>2, <2>3 DEF Environment
<1>5. CASE \E t \in Tasks : Unschedule(t) \/ UnscheduleTask(t)
  BY <1>5 DEF Unschedule, UnscheduleTask, BeginUnschedule, CompositeStep
<1>6. CASE \E x \in Triggers : UnscheduleTrigger(x) \/ UnscheduleTriggerPanics(x)
  BY <1>6 DEF UnscheduleTrigger, UnscheduleTriggerPanics, Dies, CompositeStep
<1>7. CASE UnscheduleDone
  BY <1>7 DEF UnscheduleDone, CompositeStep
<1> QED
  BY <1>1, <1>2, <1>3, <1>4, <1>5, <1>6, <1>7 DEF LibraryNext, Next

-----------------------------------------------------------------------------
(* Type correctness *)

\* The child schedulers start with empty tables of the right types (their
\* constructors in trigger_scheduler.go).
LEMMA CompositeInitTypeOK == CompositeInit => CompositeTypeOK
<1> SUFFICES ASSUME CompositeInit PROVE CompositeTypeOK
  OBVIOUS
<1>1. CronTypeOK
  BY DEF CompositeInit, CronInit, CronTypeOK
<1>2. TsTypeOK
  <2>1. subscriptionsCounters \in [Events -> Int]
    BY DEF CompositeInit, TsInit
  <2>2. eventTriggers \in [Events -> SUBSET Triggers]
    BY DEF CompositeInit, TsInit
  <2> QED
    BY <2>1, <2>2 DEF CompositeInit, TsInit, TsTypeOK
<1>3. FsTypeOK
  BY DEF CompositeInit, FsInit, FsTypeOK
<1> QED
  BY <1>1, <1>2, <1>3 DEF CompositeInit, CompositeTypeOK

\* A call of the composite scheduler keeps the types of its children's tables.
LEMMA CompositeStepTypeOK ==
    ASSUME CompositeTypeOK, CompositeStep
    PROVE  CompositeTypeOK'
<1> USE TriggersAssumption, FSAssumption DEF CompositeTypeOK
<1>1. ASSUME NEW x \in Triggers, ScheduleByID(x)
      PROVE  CompositeTypeOK'
  <2>1. CronTypeOK'
    BY <1>1 DEF ScheduleByID, CronScheduleByID, CronTypeOK, cronVars
  <2>2. TsTypeOK'
    BY <1>1 DEF ScheduleByID, TsScheduleByID, TsTypeOK, tsVars
  <2>3. FsTypeOK'
    BY <1>1 DEF ScheduleByID, FsScheduleByID, FsTypeOK, fsVars, WatchPath
  <2>4. (ids \in [Triggers -> Kinds \cup {"none"}])' /\ (isRunning \in BOOLEAN)'
    BY <1>1 DEF ScheduleByID, Kinds
  <2> QED
    BY <2>1, <2>2, <2>3, <2>4
<1>2. ASSUME NEW x \in Triggers, CompositeUnschedule(x)
      PROVE  CompositeTypeOK'
  <2>1. CronTypeOK'
    BY <1>2 DEF CompositeUnschedule, childVars, CronUnschedule, CronTypeOK, cronVars
  <2>2. TsTypeOK'
    BY <1>2 DEF CompositeUnschedule, childVars, TsUnschedule, TsTypeOK, tsVars
  <2>3. FsTypeOK'
    BY <1>2 DEF CompositeUnschedule, childVars, FsUnschedule, FsTypeOK, fsVars
  <2> QED
    BY <1>2, <2>1, <2>2, <2>3 DEF CompositeUnschedule
<1>3. CASE CompositeStart \/ CompositeStop
  BY <1>3 DEF CompositeStart, CompositeStop, CronStart, CronStop, CronTypeOK, TsStart,
              TsStop, TsTypeOK, FsStart, FsStop, FsTypeOK
<1>4. CASE \E p \in Paths : FsFileGone(p) /\ UNCHANGED <<cronVars, tsVars, ids, isRunning>>
  BY <1>4 DEF FsFileGone, FsTypeOK, CronTypeOK, TsTypeOK, cronVars, tsVars
<1>5. CASE UNCHANGED compositeVars
  BY <1>5 DEF compositeVars, childVars, cronVars, tsVars, fsVars, CronTypeOK, TsTypeOK, FsTypeOK
<1> QED
  BY <1>1, <1>2, <1>3, <1>4, <1>5 DEF CompositeStep

\* The part of TypeOK that is about the tables of the task scheduler itself.
TablesTypeOK ==
    /\ tasks \in SUBSET Tasks
    /\ definition \in [Tasks -> [triggers : SUBSET Triggers, version : Nat]]
    /\ scheduledTriggers \in [Tasks -> SUBSET Triggers]
    /\ triggerTasks \in [Triggers -> [Tasks -> Nat]]
    /\ version \in Nat

\* The goroutine that runs Schedule.
HandlerTypeOK ==
    /\ pc \in {"idle", "add", "update", "remove", "unschedule", "unscheduleTask"}
    /\ current \in Tasks \cup {NoTask}
    /\ (pc # "idle") => (current \in Tasks)
    /\ todo \in SUBSET Triggers
    /\ newTriggers \in SUBSET Triggers
    /\ fault \in {"none", "nil map", "panic", "map race"}

\* The callbacks under way and what the last of them ran.
CallbacksTypeOK ==
    /\ launched \in SUBSET Triggers
    /\ overtaken \in SUBSET (Triggers \X [Tasks -> Nat])
    /\ called \in SUBSET (Triggers \X Tasks \X Nat)

SchedulerTypeOK == CompositeTypeOK /\ TablesTypeOK /\ HandlerTypeOK /\ CallbacksTypeOK

\* NewTaskScheduler makes tables of the right types.
LEMMA InitTypeOK == Init => SchedulerTypeOK
  BY CompositeInitTypeOK, TasksAssumption
  DEF Init, SchedulerTypeOK, TablesTypeOK, HandlerTypeOK, CallbacksTypeOK, NoDefinition

\* Each child calls back for triggers, of which onTrigger looks one up, or goes on
\* with a map it holds; no other step reaches a callback, except that Schedule may
\* replace the map of one.
LEMMA StepCallbacksTypeOK ==
    ASSUME SchedulerTypeOK, [LibraryNext]_vars
    PROVE  CallbacksTypeOK'
<1> USE DEF SchedulerTypeOK, CallbacksTypeOK
<1>1. ASSUME called' = {} \/ UNCHANGED called, UNCHANGED callbackVars
      PROVE  CallbacksTypeOK'
  BY <1>1 DEF callbackVars
<1>2. ASSUME NEW x \in Triggers, Launches(x)
      PROVE  CallbacksTypeOK'
  BY <1>2 DEF Launches, Alive
<1>3. CASE CronJobFires \/ EventFires \/ PathFires \/ ClosedWatcherFires
  <2>1. \A j \in cronJobs : j[1] \in Triggers
    <3> SUFFICES ASSUME NEW j \in cronJobs PROVE j[1] \in Triggers
      OBVIOUS
    <3>1. j \in Triggers \X (Nat \ {0})
      BY DEF CompositeTypeOK, CronTypeOK
    <3> QED
      BY <3>1
  <2>2. \A e \in Events : TsBatch(e) \subseteq Triggers
    BY DEF CompositeTypeOK, TsTypeOK, TsBatch
  <2>3. \A name : FsBatch(name) \subseteq Triggers
    BY DEF FsBatch
  <2> QED
    BY <1>2, <1>3, <2>1, <2>2, <2>3 DEF CronJobFires, EventFires, PathFires, ClosedWatcherFires
<1>4. ASSUME NEW x \in Triggers, NEW m \in [Tasks -> Nat], called' = TasksRun(x, m)
      PROVE  called' \in SUBSET (Triggers \X Tasks \X Nat)
  BY <1>4 DEF TasksRun
<1>5. ASSUME NEW x \in launched, OnTrigger(x)
      PROVE  CallbacksTypeOK'
  <2>1. x \in Triggers /\ triggerTasks[x] \in [Tasks -> Nat]
    BY DEF TablesTypeOK
  <2> QED
    BY <1>4, <1>5, <2>1 DEF OnTrigger
<1>6. ASSUME NEW loop \in overtaken, OvertakenLoop(loop)
      PROVE  CallbacksTypeOK'
  <2>1. loop[1] \in Triggers /\ loop[2] \in [Tasks -> Nat]
    BY DEF TablesTypeOK
  <2> QED
    BY <1>4, <1>6, <2>1 DEF OvertakenLoop
<1>7. ASSUME NEW x \in Triggers, UpdateTriggerSchedules(x)
      PROVE  CallbacksTypeOK'
  <2>1. triggerTasks[x] \in [Tasks -> Nat]
    BY DEF TablesTypeOK
  <2> QED
    BY <1>7, <2>1 DEF UpdateTriggerSchedules, Updating, Alive, Overtakes, callbackVars
<1>8. CASE UNCHANGED vars
  BY <1>1, <1>8 DEF vars
<1>9. ASSUME NEW t \in Tasks, NEW S,
             ScheduleNew(t, S) \/ Reschedule(t, S) \/ Unschedule(t) \/ UnscheduleTask(t)
      PROVE  CallbacksTypeOK'
  BY <1>1, <1>9 DEF ScheduleNew, Reschedule, Unschedule, UnscheduleTask, BeginUnschedule, Alive
<1>10. ASSUME NEW x \in Triggers,
              \/ UpdateTriggerFails(x) \/ UpdateTriggerPanics(x) \/ UpdateTriggerExists(x)
              \/ UpdateTriggerNilMap(x) \/ RemoveTrigger(x) \/ RemoveTriggerPanics(x)
              \/ UnscheduleTrigger(x) \/ UnscheduleTriggerPanics(x)
       PROVE  CallbacksTypeOK'
  BY <1>1, <1>10 DEF UpdateTriggerFails, UpdateTriggerPanics, UpdateTriggerExists,
     UpdateTriggerNilMap, Updating, RemoveTrigger, RemoveTriggerPanics, Sweeping,
     UnscheduleTrigger, UnscheduleTriggerPanics, Dies, Alive
<1>11. CASE \/ AddDone \/ UpdateDone \/ RemoveDone \/ UnscheduleDone
            \/ Start \/ Stop \/ MapRace \/ FileGone
  BY <1>1, <1>11 DEF AddDone, UpdateDone, RemoveDone, UnscheduleDone, Start, Stop, MapRace,
     FileGone, Dies, Alive
<1> QED
  BY <1>3, <1>5, <1>6, <1>7, <1>8, <1>9, <1>10, <1>11 DEF LibraryNext, Next, Schedule, Environment

\* What a callback leaves alone: every table.
LEMMA CallbacksKeepTables ==
    ASSUME \/ CronJobFires \/ EventFires \/ PathFires \/ ClosedWatcherFires
           \/ \E x \in launched : OnTrigger(x)
           \/ \E loop \in overtaken : OvertakenLoop(loop)
    PROVE  UNCHANGED <<compositeVars, tableVars, handlerVars, fault>>
  BY DEF CronJobFires, EventFires, PathFires, ClosedWatcherFires, Launches, OnTrigger, OvertakenLoop

\* Every handler of task_scheduler.go keeps the types of the tables.
LEMMA StepTypeOK ==
    ASSUME SchedulerTypeOK, [LibraryNext]_vars
    PROVE  SchedulerTypeOK'
<1> USE TasksAssumption, TriggersAssumption DEF SchedulerTypeOK, TablesTypeOK, HandlerTypeOK
<1>c. CompositeTypeOK'
  BY StepsAreCompositeSteps, CompositeStepTypeOK DEF CompositeTypeOK
<1>d. CallbacksTypeOK'
  BY StepCallbacksTypeOK
<1>1. CASE UNCHANGED vars
  BY <1>c, <1>d, <1>1 DEF vars, tableVars, handlerVars
<1>2. ASSUME NEW t \in Tasks, NEW S \in Definitions[t], ScheduleNew(t, S) \/ Reschedule(t, S)
      PROVE  SchedulerTypeOK'
  <2>1. S \in SUBSET Triggers
    BY <1>2
  <2>2. TablesTypeOK'
    <3>1. /\ version' = version + 1
          /\ definition' = [definition EXCEPT ![t] = [triggers |-> S, version |-> version']]
      BY <1>2 DEF ScheduleNew, Reschedule
    <3>2. version' \in Nat
      <4> HIDE DEF SchedulerTypeOK, TablesTypeOK, HandlerTypeOK
      <4>1. version \in Nat
        BY DEF SchedulerTypeOK, TablesTypeOK
      <4> QED
        BY <3>1, <4>1
    <3>3. (definition \in [Tasks -> [triggers : SUBSET Triggers, version : Nat]])'
      BY <2>1, <3>1, <3>2
    <3>4. (tasks \in SUBSET Tasks /\ scheduledTriggers \in [Tasks -> SUBSET Triggers])'
      <4>1. CASE ScheduleNew(t, S)
        BY <4>1 DEF ScheduleNew
      <4>2. CASE Reschedule(t, S)
        BY <4>2 DEF Reschedule
      <4> QED
        BY <1>2, <4>1, <4>2
    <3>5. (triggerTasks \in [Triggers -> [Tasks -> Nat]])'
      BY <1>2 DEF ScheduleNew, Reschedule
    <3> QED
      BY <3>2, <3>3, <3>4, <3>5
  <2>3. HandlerTypeOK'
    BY <1>2, <2>1 DEF ScheduleNew, Reschedule, Alive
  <2> QED
    BY <1>c, <1>d, <2>2, <2>3
<1>3. ASSUME NEW x \in Triggers, UpdateTriggerSchedules(x)
      PROVE  SchedulerTypeOK'
  <2>1. current \in Tasks
    BY <1>3 DEF UpdateTriggerSchedules, Updating
  <2>2. TablesTypeOK'
    BY <1>3, <2>1 DEF UpdateTriggerSchedules
  <2>3. HandlerTypeOK'
    BY <1>3, <2>1 DEF UpdateTriggerSchedules, Updating, Alive
  <2> QED
    BY <1>c, <1>d, <2>2, <2>3
<1>4. ASSUME NEW x \in Triggers, UpdateTriggerExists(x)
      PROVE  SchedulerTypeOK'
  <2>1. current \in Tasks
    BY <1>4 DEF UpdateTriggerExists, Updating
  <2>2. TablesTypeOK'
    BY <1>4, <2>1 DEF UpdateTriggerExists
  <2>3. HandlerTypeOK'
    BY <1>4, <2>1 DEF UpdateTriggerExists, Updating, Alive
  <2> QED
    BY <1>c, <1>d, <2>2, <2>3
<1>5. ASSUME NEW x \in Triggers,
             UpdateTriggerFails(x) \/ UpdateTriggerPanics(x) \/ UpdateTriggerNilMap(x)
             \/ RemoveTriggerPanics(x) \/ UnscheduleTriggerPanics(x)
      PROVE  SchedulerTypeOK'
  BY <1>c, <1>d, <1>5 DEF UpdateTriggerFails, UpdateTriggerPanics, UpdateTriggerNilMap, Updating,
                    RemoveTriggerPanics, UnscheduleTriggerPanics, Dies, Alive,
                    tableVars, handlerVars
<1>6. ASSUME NEW x \in Triggers, RemoveTrigger(x) \/ UnscheduleTrigger(x)
      PROVE  SchedulerTypeOK'
  <2>0. current \in Tasks
    BY <1>6 DEF RemoveTrigger, UnscheduleTrigger, Sweeping
  <2>1. TablesTypeOK'
    <3>1. CASE RemoveTrigger(x)
      BY <2>0, <3>1 DEF RemoveTrigger
    <3>2. CASE UnscheduleTrigger(x)
      BY <3>2 DEF UnscheduleTrigger, tableVars
    <3> QED
      BY <1>6, <3>1, <3>2
  <2>2. HandlerTypeOK'
    BY <1>6, <2>0 DEF RemoveTrigger, UnscheduleTrigger, Sweeping, Alive
  <2> QED
    BY <1>c, <1>d, <2>1, <2>2
<1>7. CASE AddDone \/ UpdateDone \/ RemoveDone \/ UnscheduleDone
  BY <1>c, <1>d, <1>7 DEF AddDone, UpdateDone, RemoveDone, UnscheduleDone, Alive, tableVars
<1>8. ASSUME NEW t \in Tasks, Unschedule(t) \/ UnscheduleTask(t)
      PROVE  SchedulerTypeOK'
  BY <1>c, <1>d, <1>8 DEF Unschedule, UnscheduleTask, BeginUnschedule, Alive, tableVars
<1>9. CASE Start \/ Stop \/ MapRace \/ FileGone
  BY <1>c, <1>d, <1>9 DEF Start, Stop, MapRace, FileGone, Dies, Alive, tableVars, handlerVars
<1>10. CASE \/ CronJobFires \/ EventFires \/ PathFires \/ ClosedWatcherFires
            \/ \E x \in launched : OnTrigger(x)
            \/ \E loop \in overtaken : OvertakenLoop(loop)
  BY <1>c, <1>d, <1>10, CallbacksKeepTables DEF tableVars, handlerVars
<1> QED
  BY <1>1, <1>2, <1>3, <1>4, <1>5, <1>6, <1>7, <1>8, <1>9, <1>10
  DEF LibraryNext, Next, Schedule, Environment

\* The tables keep their types under every operation of the package, and so
\* under those the agent uses (task_scheduler.go, trigger_scheduler.go).
THEOREM LibraryTypeCorrect == LibrarySpec => []TypeOK
<1>1. SchedulerTypeOK => TypeOK
  BY DEF SchedulerTypeOK, TablesTypeOK, HandlerTypeOK, CallbacksTypeOK, TypeOK
<1> QED
  BY InitTypeOK, StepTypeOK, <1>1, PTL DEF LibrarySpec

\* The same for the agent, which only schedules.
THEOREM TypeCorrect == Spec => []TypeOK
<1>1. SchedulerTypeOK => TypeOK
  BY DEF SchedulerTypeOK, TablesTypeOK, HandlerTypeOK, CallbacksTypeOK, TypeOK
<1>2. [Next]_vars => [LibraryNext]_vars
  BY DEF LibraryNext
<1> QED
  BY InitTypeOK, StepTypeOK, <1>1, <1>2, PTL DEF Spec

-----------------------------------------------------------------------------
(* Event triggers: the counter and the subscription *)

\* The tables of the TelephonistScheduler agree with each other: an event has
\* the triggers known for it, is counted at least as often, and is received
\* while it is counted.  Before Start nothing has been counted.
EventTablesInv ==
    /\ \A e \in Events : eventTriggers[e] = {x \in tsTriggers : EventOf[x] = e}
    /\ \A e \in Events : subscriptionsCounters[e] >= Cardinality(eventTriggers[e])
    /\ \A e \in Events : queueOpen /\ subscriptionsCounters[e] > 0 => e \in subscribed
    /\ watcher = "open" => \A e \in Events : subscriptionsCounters[e] = 0
    /\ watcher = "running" <=> queueOpen
    /\ isRunning <=> queueOpen

\* The sets of the event tables are finite, as Triggers is.
LEMMA EventTriggersFinite ==
    ASSUME CompositeTypeOK, NEW e \in Events
    PROVE  /\ IsFiniteSet(eventTriggers[e])
           /\ Cardinality(eventTriggers[e]) \in Nat
<1>1. eventTriggers[e] \subseteq Triggers
  BY DEF CompositeTypeOK, TsTypeOK
<1>2. IsFiniteSet(eventTriggers[e])
  BY <1>1, FS_Subset, TriggersAssumption
<1> QED
  BY <1>2, FS_CardinalityType

\* A new TelephonistScheduler counts and files nothing.
LEMMA InitEventTablesInv == Init => EventTablesInv
<1> SUFFICES ASSUME Init PROVE EventTablesInv
  OBVIOUS
<1>1. /\ \A e \in Events : eventTriggers[e] = {} /\ subscriptionsCounters[e] = 0
      /\ tsTriggers = {} /\ queueOpen = FALSE /\ watcher = "open" /\ isRunning = FALSE
  BY DEF Init, CompositeInit, TsInit, FsInit
<1>2. \A e \in Events : subscriptionsCounters[e] >= Cardinality(eventTriggers[e])
  BY <1>1, FS_EmptySet
<1> QED
  BY <1>1, <1>2 DEF EventTablesInv

\* No call of the composite scheduler, in any order, takes the tables of the
\* TelephonistScheduler apart (ScheduleByID, Unschedule, Start, Stop).
LEMMA StepEventTablesInv ==
    ASSUME CompositeTypeOK, EventTablesInv, CompositeStep
    PROVE  EventTablesInv'
<1>t. /\ subscriptionsCounters \in [Events -> Int]
      /\ eventTriggers \in [Events -> SUBSET Triggers]
      /\ EventOf \in [Triggers -> Events]
  BY TriggersAssumption DEF CompositeTypeOK, TsTypeOK
<1>1. ASSUME NEW x \in Triggers, Kind[x] = "event", TsScheduleByID(x), UNCHANGED fsVars,
             UNCHANGED isRunning
      PROVE  EventTablesInv'
  <2> DEFINE e == EventOf[x]
  <2>1. \A d \in Events : eventTriggers'[d] = {y \in tsTriggers' : EventOf[y] = d}
    BY <1>1, <1>t DEF TsScheduleByID, EventTablesInv
  <2>2. \A d \in Events : subscriptionsCounters'[d] >= Cardinality(eventTriggers'[d])
    <3> SUFFICES ASSUME NEW d \in Events
                 PROVE  subscriptionsCounters'[d] >= Cardinality(eventTriggers'[d])
      OBVIOUS
    <3>1. CASE d = e
      <4>1. eventTriggers'[d] = eventTriggers[d] \cup {x}
        BY <1>1, <1>t, <3>1 DEF TsScheduleByID
      <4>2. Cardinality(eventTriggers'[d]) <= Cardinality(eventTriggers[d]) + 1
        <5>1. IsFiniteSet(eventTriggers[d]) /\ Cardinality(eventTriggers[d]) \in Nat
          BY EventTriggersFinite
        <5>2. Cardinality(eventTriggers[d] \cup {x}) =
                IF x \in eventTriggers[d] THEN Cardinality(eventTriggers[d])
                                          ELSE Cardinality(eventTriggers[d]) + 1
          BY <5>1, FS_AddElement
        <5> QED
          BY <4>1, <5>1, <5>2
      <4>3. Cardinality(eventTriggers'[d]) \in Nat
        BY <4>1, EventTriggersFinite, FS_AddElement, FS_CardinalityType
      <4>4. subscriptionsCounters'[d] = subscriptionsCounters[d] + 1
        BY <1>1, <1>t, <3>1 DEF TsScheduleByID
      <4>5. subscriptionsCounters[d] \in Int /\ Cardinality(eventTriggers[d]) \in Nat
            /\ subscriptionsCounters[d] >= Cardinality(eventTriggers[d])
        BY <1>t, EventTriggersFinite DEF EventTablesInv
      <4> QED
        BY <4>2, <4>3, <4>4, <4>5
    <3>2. CASE d # e
      BY <1>1, <1>t, <3>2 DEF TsScheduleByID, EventTablesInv
    <3> QED
      BY <3>1, <3>2
  <2>3. \A d \in Events : queueOpen' /\ subscriptionsCounters'[d] > 0 => d \in subscribed'
    <3> SUFFICES ASSUME NEW d \in Events, queueOpen', subscriptionsCounters'[d] > 0
                 PROVE  d \in subscribed'
      OBVIOUS
    <3>1. CASE d = e
      <4>1. subscriptionsCounters[e] \in Int /\ subscriptionsCounters[e] >= 0
        BY <1>t, EventTriggersFinite DEF EventTablesInv
      <4>2. subscriptionsCounters[e] = 0 \/ subscriptionsCounters[e] > 0
        BY <4>1
      <4> QED
        BY <1>1, <1>t, <3>1, <4>2 DEF TsScheduleByID, EventTablesInv
    <3>2. CASE d # e
      BY <1>1, <1>t, <3>2 DEF TsScheduleByID, EventTablesInv
    <3> QED
      BY <3>1, <3>2
  <2>4. watcher' # "open"
    BY <1>1, <1>t DEF TsScheduleByID, TsSchedulePanics, EventTablesInv, fsVars
  <2> QED
    BY <1>1, <2>1, <2>2, <2>3, <2>4 DEF EventTablesInv, TsScheduleByID, fsVars
<1>2. ASSUME NEW x \in Triggers, TsUnschedule(x), UNCHANGED fsVars, UNCHANGED isRunning
      PROVE  EventTablesInv'
  <2>1. CASE x \notin tsTriggers
    BY <1>2, <2>1 DEF TsUnschedule, EventTablesInv, fsVars
  <2>2. CASE x \in tsTriggers
    <3> DEFINE e == EventOf[x]
    <3>1. \A d \in Events : eventTriggers'[d] = {y \in tsTriggers' : EventOf[y] = d}
      BY <1>2, <1>t, <2>2 DEF TsUnschedule, EventTablesInv
    <3>2. /\ x \in eventTriggers[e]
          /\ eventTriggers'[e] = eventTriggers[e] \ {x}
          /\ subscriptionsCounters'[e] = subscriptionsCounters[e] - 1
      BY <1>2, <1>t, <2>2 DEF TsUnschedule, EventTablesInv
    <3>3. Cardinality(eventTriggers'[e]) = Cardinality(eventTriggers[e]) - 1
      <4>1. e \in Events
        BY <1>t
      <4>2. IsFiniteSet(eventTriggers[e])
        BY <4>1, EventTriggersFinite
      <4> QED
        BY <3>2, <4>2, FS_RemoveElement
    <3>4. /\ subscriptionsCounters[e] \in Int /\ Cardinality(eventTriggers[e]) \in Nat
          /\ subscriptionsCounters[e] >= Cardinality(eventTriggers[e])
      BY <1>t, EventTriggersFinite DEF EventTablesInv
    <3>5. \A d \in Events : subscriptionsCounters'[d] >= Cardinality(eventTriggers'[d])
      <4> SUFFICES ASSUME NEW d \in Events
                   PROVE  subscriptionsCounters'[d] >= Cardinality(eventTriggers'[d])
        OBVIOUS
      <4>1. CASE d = e
        <5>1. subscriptionsCounters[e] - 1 >= Cardinality(eventTriggers[e]) - 1
          BY <3>4
        <5>2. subscriptionsCounters'[e] >= Cardinality(eventTriggers'[e])
          BY <3>2, <3>3, <5>1
        <5> QED
          BY <4>1, <5>2
      <4>2. CASE d # e
        BY <1>2, <1>t, <2>2, <4>2 DEF TsUnschedule, EventTablesInv
      <4> QED
        BY <4>1, <4>2
    <3>6. \A d \in Events : queueOpen' /\ subscriptionsCounters'[d] > 0 => d \in subscribed'
      <4> SUFFICES ASSUME NEW d \in Events, queueOpen', subscriptionsCounters'[d] > 0
                   PROVE  d \in subscribed'
        OBVIOUS
      <4>1. CASE d = e
        <5>1. subscriptionsCounters[e] > 0 /\ subscriptionsCounters[e] # 1
          BY <3>2, <3>4, <4>1
        <5> QED
          BY <1>2, <1>t, <2>2, <4>1, <5>1 DEF TsUnschedule, EventTablesInv
      <4>2. CASE d # e
        BY <1>2, <1>t, <2>2, <4>2 DEF TsUnschedule, EventTablesInv
      <4> QED
        BY <4>1, <4>2
    <3>7. watcher' # "open"
      <4>1. Cardinality(eventTriggers[e]) # 0
        BY <1>t, <3>2, EventTriggersFinite, FS_EmptySet
      <4>2. subscriptionsCounters[e] # 0
        BY <3>4, <4>1
      <4> QED
        BY <1>2, <1>t, <4>2 DEF EventTablesInv, fsVars
    <3> QED
      BY <1>2, <2>2, <3>1, <3>5, <3>6, <3>7 DEF EventTablesInv, TsUnschedule, fsVars
  <2> QED
    BY <2>1, <2>2
<1>3. ASSUME UNCHANGED <<tsVars, watcher, isRunning>>
      PROVE  EventTablesInv'
  BY <1>3 DEF EventTablesInv, tsVars
<1>4. ASSUME NEW x \in Triggers, ScheduleByID(x)
      PROVE  EventTablesInv'
  BY <1>1, <1>3, <1>4 DEF ScheduleByID, FsScheduleByID, fsVars
<1>5. ASSUME NEW x \in Triggers, CompositeUnschedule(x)
      PROVE  EventTablesInv'
  BY <1>2, <1>3, <1>5 DEF CompositeUnschedule, FsUnschedule, fsVars, childVars
<1>6. CASE CompositeStart /\ watcher # "closed"
  <2>1. \A e \in Events : subscriptionsCounters[e] = 0
    BY <1>6 DEF CompositeStart, EventTablesInv, CompositeTypeOK, FsTypeOK
  <2> QED
    BY <1>6, <2>1 DEF CompositeStart, TsStart, FsStart, EventTablesInv, CompositeTypeOK, FsTypeOK
<1>7. CASE CompositeStop
  BY <1>7 DEF CompositeStop, TsStop, FsStop, EventTablesInv
<1>8. CASE \E p \in Paths : FsFileGone(p) /\ UNCHANGED <<cronVars, tsVars, ids, isRunning>>
  BY <1>3, <1>8 DEF FsFileGone
<1>9. CASE UNCHANGED compositeVars
  BY <1>3, <1>9 DEF compositeVars, childVars, fsVars
<1> QED
  BY <1>4, <1>5, <1>6, <1>7, <1>8, <1>9 DEF CompositeStep

\* So the event tables agree with each other under any use of the package.
LEMMA EventTablesInvariant == LibrarySpec => [](SchedulerTypeOK /\ EventTablesInv)
<1>1. SchedulerTypeOK /\ EventTablesInv /\ [LibraryNext]_vars => (SchedulerTypeOK /\ EventTablesInv)'
  BY StepTypeOK, StepsAreCompositeSteps, StepEventTablesInv DEF SchedulerTypeOK, CompositeTypeOK
<1> QED
  BY InitTypeOK, InitEventTablesInv, <1>1, PTL DEF LibrarySpec

\* The subscription counter of the TelephonistScheduler never undercounts,
\* under any use of the package.
THEOREM CountersCover == LibrarySpec => []CounterCoversTriggers
<1>1. EventTablesInv => CounterCoversTriggers
  BY DEF EventTablesInv, CounterCoversTriggers
<1> QED
  BY EventTablesInvariant, <1>1, PTL

\* A running TelephonistScheduler receives every event that has a trigger, so
\* rescheduling one task never silences another.
THEOREM SubscribedWhileFiledHolds == LibrarySpec => []SubscribedWhileFiled
<1>1. ASSUME SchedulerTypeOK, EventTablesInv PROVE SubscribedWhileFiled
  <2> SUFFICES ASSUME queueOpen, NEW e \in Events, eventTriggers[e] # {}
               PROVE  e \in subscribed
    BY DEF SubscribedWhileFiled
  <2>1. Cardinality(eventTriggers[e]) \in Nat /\ Cardinality(eventTriggers[e]) # 0
    BY <1>1, EventTriggersFinite, FS_EmptySet DEF SchedulerTypeOK
  <2>2. subscriptionsCounters[e] \in Int
    BY <1>1 DEF SchedulerTypeOK, CompositeTypeOK, TsTypeOK
  <2>3. subscriptionsCounters[e] > 0
    BY <1>1, <2>1, <2>2 DEF EventTablesInv
  <2> QED
    BY <1>1, <2>3 DEF EventTablesInv
<1> QED
  BY EventTablesInvariant, <1>1, PTL

-----------------------------------------------------------------------------
(* Dispatch: which definition a trigger runs *)

\* What Schedule has still to do for the task it works on: its entries are
\* fresh where updateTrigger has been, and the others are left to the sweep.
CurrentInv ==
    /\ pc = "idle" => current = NoTask /\ newTriggers = {}
    /\ pc # "idle" => current \in tasks
    /\ pc \in {"add", "update"} => todo \subseteq definition[current].triggers
    /\ pc = "add" => \A x \in Triggers : triggerTasks[x][current] # 0 => Fresh(x, current)
    /\ pc = "update" => newTriggers \subseteq definition[current].triggers
    /\ pc = "update" => \A x \in newTriggers : triggerTasks[x][current] # 0 => Fresh(x, current)
    /\ pc = "remove" => \A x \in Triggers :
           triggerTasks[x][current] # 0 => Fresh(x, current) \/ x \in todo

DispatchInv ==
    /\ pc \in {"idle", "add", "update", "remove"}
    /\ \A x \in Triggers, t \in Tasks :
           triggerTasks[x][t] # 0 => t \in tasks /\ x \in scheduledTriggers[t]
    /\ CurrentInv
    /\ NoStaleDispatch

\* A new task scheduler dispatches nothing.
LEMMA InitDispatchInv == Init => DispatchInv
<1> SUFFICES ASSUME Init PROVE DispatchInv
  OBVIOUS
<1>1. \A x \in Triggers, t \in Tasks : triggerTasks[x][t] = 0
  BY DEF Init
<1> QED
  BY <1>1 DEF Init, DispatchInv, CurrentInv, NoStaleDispatch

\* Each step of Schedule keeps what is left of the old definition within what the
\* rest of the call will remove (updateTrigger, removeTrigger, Schedule).
LEMMA StepDispatchInv ==
    ASSUME SchedulerTypeOK, DispatchInv, [Next]_vars
    PROVE  DispatchInv'
<1> USE DEF DispatchInv, CurrentInv, NoStaleDispatch, Fresh
<1>t. /\ current \in Tasks \cup {NoTask}
      /\ definition \in [Tasks -> [triggers : SUBSET Triggers, version : Nat]]
      /\ scheduledTriggers \in [Tasks -> SUBSET Triggers]
      /\ triggerTasks \in [Triggers -> [Tasks -> Nat]]
      /\ tasks \in SUBSET Tasks
      /\ todo \in SUBSET Triggers
      /\ newTriggers \in SUBSET Triggers
  BY DEF SchedulerTypeOK, TablesTypeOK, HandlerTypeOK
<1>1. ASSUME UNCHANGED <<tableVars, handlerVars>>
      PROVE  DispatchInv'
  BY <1>1 DEF tableVars, handlerVars
<1>2. ASSUME NEW t \in Tasks, NEW S \in Definitions[t], ScheduleNew(t, S)
      PROVE  DispatchInv'
  <2>1. \A x \in Triggers : triggerTasks[x][t] = 0
    BY <1>2, <1>t DEF ScheduleNew
  <2>2. \A x \in Triggers, u \in Tasks : u # t =>
           definition'[u] = definition[u] /\ scheduledTriggers'[u] = scheduledTriggers[u]
    BY <1>2, <1>t DEF ScheduleNew
  <2>3. definition'[t].triggers = S
    BY <1>2, <1>t DEF ScheduleNew
  <2> QED
    BY <1>2, <1>t, <2>1, <2>2, <2>3, TasksAssumption DEF ScheduleNew
<1>3. ASSUME NEW t \in Tasks, NEW S \in Definitions[t], Reschedule(t, S)
      PROVE  DispatchInv'
  <2>1. \A u \in Tasks : u # t => definition'[u] = definition[u]
    BY <1>3, <1>t DEF Reschedule
  <2>2. definition'[t].triggers = S
    BY <1>3, <1>t DEF Reschedule
  <2> QED
    BY <1>3, <1>t, <2>1, <2>2, TasksAssumption DEF Reschedule
<1>4. ASSUME NEW x \in Triggers, UpdateTriggerSchedules(x)
      PROVE  DispatchInv'
  <2>1. current \in Tasks /\ current \in tasks /\ x \in definition[current].triggers
    BY <1>4, <1>t DEF UpdateTriggerSchedules, Updating
  <2>2. \A y \in Triggers, u \in Tasks : triggerTasks'[y][u] =
            IF y # x THEN triggerTasks[y][u]
            ELSE IF u = current THEN definition[u].version ELSE 0
    BY <1>4, <1>t, <2>1 DEF UpdateTriggerSchedules
  <2>3. \A u \in Tasks : scheduledTriggers'[u] =
            IF u = current THEN scheduledTriggers[u] \cup {x} ELSE scheduledTriggers[u]
    BY <1>4, <1>t, <2>1 DEF UpdateTriggerSchedules
  <2> QED
    BY <1>4, <1>t, <2>1, <2>2, <2>3 DEF UpdateTriggerSchedules, Updating
<1>5. ASSUME NEW x \in Triggers, UpdateTriggerExists(x)
      PROVE  DispatchInv'
  <2>1. current \in Tasks /\ current \in tasks /\ x \in definition[current].triggers
    BY <1>5, <1>t DEF UpdateTriggerExists, Updating
  <2>2. \A y \in Triggers, u \in Tasks : triggerTasks'[y][u] =
            IF y = x /\ u = current THEN definition[u].version ELSE triggerTasks[y][u]
    BY <1>5, <1>t, <2>1 DEF UpdateTriggerExists
  <2> QED
    BY <1>5, <1>t, <2>1, <2>2 DEF UpdateTriggerExists, Updating
<1>6. ASSUME NEW x \in Triggers, UpdateTriggerFails(x)
      PROVE  DispatchInv'
  <2>1. x \notin scheduledTriggers[current]
    BY <1>6 DEF UpdateTriggerFails
  <2> QED
    BY <1>6, <1>t, <2>1 DEF UpdateTriggerFails, Updating, tableVars
<1>7. ASSUME NEW x \in Triggers, RemoveTrigger(x)
      PROVE  DispatchInv'
  <2>1. current \in Tasks /\ current \in tasks /\ pc = "remove"
    BY <1>7, <1>t DEF RemoveTrigger, Sweeping
  <2>2. \A y \in Triggers, u \in Tasks : triggerTasks'[y][u] =
            IF y = x /\ u = current THEN 0 ELSE triggerTasks[y][u]
    BY <1>7, <1>t, <2>1 DEF RemoveTrigger
  <2> QED
    BY <1>7, <1>t, <2>1, <2>2 DEF RemoveTrigger, Sweeping
<1>8. CASE AddDone
  BY <1>8, <1>t DEF AddDone, tableVars
<1>9. CASE UpdateDone
  <2>1. current \in Tasks /\ current \in tasks
    BY <1>9, <1>t DEF UpdateDone
  <2> QED
    BY <1>9, <1>t, <2>1 DEF UpdateDone, tableVars
<1>10. CASE RemoveDone
  BY <1>10, <1>t DEF RemoveDone, tableVars
<1>11. ASSUME NEW x \in Triggers,
              UpdateTriggerPanics(x) \/ UpdateTriggerNilMap(x) \/ RemoveTriggerPanics(x)
       PROVE  DispatchInv'
  BY <1>1, <1>11 DEF UpdateTriggerPanics, UpdateTriggerNilMap, RemoveTriggerPanics, Dies
<1>12. CASE Start \/ Stop \/ Environment
  <2>1. UNCHANGED <<tableVars, handlerVars>>
    BY <1>12, CallbacksKeepTables DEF Start, Stop, Environment, MapRace, Dies, FileGone
  <2> QED
    BY <1>1, <2>1
<1>13. CASE UNCHANGED vars
  BY <1>1, <1>13 DEF vars
<1> QED
  BY <1>2, <1>3, <1>4, <1>5, <1>6, <1>7, <1>8, <1>9, <1>10, <1>11, <1>12, <1>13
  DEF Next, Schedule

\* So the dispatch tables hold nothing old between two calls of Schedule.
LEMMA DispatchInvariant == Spec => [](SchedulerTypeOK /\ EventTablesInv /\ DispatchInv)
<1>1. [Next]_vars => [LibraryNext]_vars
  BY DEF LibraryNext
<1>2. Spec => [](SchedulerTypeOK /\ EventTablesInv)
  BY EventTablesInvariant, <1>1, PTL DEF Spec, LibrarySpec
<1>3. SchedulerTypeOK /\ DispatchInv /\ [Next]_vars => DispatchInv'
  BY StepDispatchInv
<1> QED
  BY <1>2, <1>3, InitDispatchInv, PTL DEF Spec

\* Outside the call of Schedule that works on it, a task is run only by the
\* triggers of its newest definition, with that definition, whatever triggers
\* it shares with other tasks (Schedule, updateTrigger, removeTrigger).
THEOREM NoStaleDispatchHolds == Spec => []NoStaleDispatch
<1>1. DispatchInv => NoStaleDispatch
  BY DEF DispatchInv
<1> QED
  BY DispatchInvariant, <1>1, PTL

-----------------------------------------------------------------------------
(* Arming: a trigger with tasks is known to its child *)

\* A trigger with tasks went to its child, whose tables hold it under the path
\* or event it decodes to; a path holds only triggers that normalise to it.
Placed(x) == ids[x] = Kind[x] /\ Armed(x)

PathsInv == \A p \in Paths : \A x \in pathTriggers[p] : WatchPath(x) = p

ArmedInv ==
    /\ \A x \in Triggers : TasksOf(x) # {} => Placed(x)
    /\ PathsInv

\* Scheduling a trigger places it, and displaces no other.
LEMMA ScheduleByIDPlaces ==
    ASSUME CompositeTypeOK, PathsInv, NEW x \in Triggers, ScheduleByID(x)
    PROVE  /\ PathsInv'
           /\ Placed(x)'
           /\ \A y \in Triggers : y # x /\ Placed(y) => Placed(y)'
<1> USE TriggersAssumption
<1>1. PathsInv'
  BY DEF ScheduleByID, FsScheduleByID, PathsInv, fsVars, CompositeTypeOK, FsTypeOK, WatchPath
<1>2. ids' = [ids EXCEPT ![x] = Kind[x]] /\ ids \in [Triggers -> Kinds \cup {"none"}]
  BY DEF ScheduleByID, CompositeTypeOK
<1>3. CASE Kind[x] = "cron"
  <2>1. CronScheduleByID(x) /\ UNCHANGED <<tsVars, fsVars>>
    BY <1>3 DEF ScheduleByID
  <2>2. CronArmed(x)' /\ \A y \in Triggers : y # x /\ CronArmed(y) => CronArmed(y)'
    BY <2>1 DEF CronScheduleByID, CronArmed, CompositeTypeOK, CronTypeOK
  <2> QED
    BY <1>1, <1>2, <1>3, <2>1, <2>2
    DEF Placed, Armed, TsArmed, FsArmed, tsVars, fsVars, WatchPath
<1>4. CASE Kind[x] = "event"
  <2>1. TsScheduleByID(x) /\ UNCHANGED <<cronVars, fsVars>>
    BY <1>4 DEF ScheduleByID
  <2>2. TsArmed(x)' /\ \A y \in Triggers : y # x /\ TsArmed(y) => TsArmed(y)'
    BY <2>1 DEF TsScheduleByID, TsArmed, CompositeTypeOK, TsTypeOK
  <2> QED
    BY <1>1, <1>2, <1>4, <2>1, <2>2
    DEF Placed, Armed, CronArmed, FsArmed, cronVars, fsVars, WatchPath
<1>5. CASE Kind[x] = "fsnotify"
  <2>1. FsScheduleByID(x) /\ UNCHANGED <<cronVars, tsVars>>
    BY <1>5 DEF ScheduleByID
  <2>2. FsArmed(x)' /\ \A y \in Triggers : y # x /\ FsArmed(y) => FsArmed(y)'
    BY <2>1 DEF FsScheduleByID, FsArmed, CompositeTypeOK, FsTypeOK, WatchPath
  <2> QED
    BY <1>1, <1>2, <1>5, <2>1, <2>2
    DEF Placed, Armed, CronArmed, TsArmed, cronVars, tsVars
<1> QED
  BY <1>3, <1>4, <1>5 DEF ScheduleByID

\* Taking a placed trigger out of its child displaces no other: above all, a
\* path that loses its last trigger loses the right one.
LEMMA UnscheduleKeepsOthers ==
    ASSUME CompositeTypeOK, PathsInv, NEW x \in Triggers, Placed(x), CompositeUnschedule(x)
    PROVE  /\ PathsInv'
           /\ \A y \in Triggers : y # x /\ Placed(y) => Placed(y)'
<1> USE TriggersAssumption
<1>1. PathsInv'
  BY DEF CompositeUnschedule, FsUnschedule, PathsInv, childVars, fsVars, CompositeTypeOK,
         FsTypeOK, WatchPath
<1>2. UNCHANGED ids /\ ids[x] = Kind[x] /\ Kind[x] \in Kinds
  BY DEF CompositeUnschedule, Placed, Armed, Kinds
<1>3. CASE Kind[x] = "cron"
  <2>1. CronUnschedule(x) /\ UNCHANGED <<tsVars, fsVars>>
    BY <1>2, <1>3 DEF CompositeUnschedule
  <2>2. \A y \in Triggers : y # x /\ CronArmed(y) => CronArmed(y)'
    BY <2>1 DEF CronUnschedule, CronArmed
  <2> QED
    BY <1>1, <1>2, <2>1, <2>2
    DEF Placed, Armed, TsArmed, FsArmed, tsVars, fsVars, WatchPath
<1>4. CASE Kind[x] = "event"
  <2>1. TsUnschedule(x) /\ UNCHANGED <<cronVars, fsVars>>
    BY <1>2, <1>4 DEF CompositeUnschedule
  <2>2. \A y \in Triggers : y # x /\ TsArmed(y) => TsArmed(y)'
    BY <2>1 DEF TsUnschedule, TsArmed, CompositeTypeOK, TsTypeOK
  <2> QED
    BY <1>1, <1>2, <2>1, <2>2
    DEF Placed, Armed, CronArmed, FsArmed, cronVars, fsVars, WatchPath
<1>5. CASE Kind[x] = "fsnotify"
  <2>1. FsUnschedule(x) /\ UNCHANGED <<cronVars, tsVars>>
    BY <1>2, <1>5 DEF CompositeUnschedule
  <2>2. \A y \in Triggers : y # x /\ FsArmed(y) => FsArmed(y)'
    <3> SUFFICES ASSUME NEW y \in Triggers, y # x, FsArmed(y)
                 PROVE  FsArmed(y)'
      OBVIOUS
    <3> DEFINE p == PathOf[x]
    <3>1. pathTriggers \in [Paths -> SUBSET Triggers] /\ p \in Paths /\ WatchPath(y) \in Paths
      BY DEF CompositeTypeOK, FsTypeOK, WatchPath
    <3>2. CASE WatchPath(y) # p
      BY <2>1, <3>1, <3>2 DEF FsUnschedule, FsArmed, WatchPath
    <3>3. CASE WatchPath(y) = p
      <4>1. WatchPath(x) = p
        BY <3>1, <3>3, NormalPathIdempotent DEF WatchPath
      <4>2. x \in pathTriggers[p] /\ y \in pathTriggers[p]
        BY <1>5, <3>3, <4>1 DEF Placed, Armed, FsArmed
      <4>3. IsFiniteSet(pathTriggers[p])
        BY <3>1, FS_Subset
      <4>4. Cardinality(pathTriggers[p]) # 1
        BY <4>2, <4>3, FS_Singleton
      <4>5. y \in pathTriggers'[p]
        BY <2>1, <3>1, <4>2, <4>4 DEF FsUnschedule
      <4> QED
        BY <3>3, <4>5 DEF FsArmed, WatchPath
    <3> QED
      BY <3>2, <3>3
  <2> QED
    BY <1>1, <1>2, <2>1, <2>2
    DEF Placed, Armed, CronArmed, TsArmed, cronVars, tsVars
<1> QED
  BY <1>2, <1>3, <1>4, <1>5 DEF Kinds

\* Each step of the agent leaves every trigger with a task armed, and every path
\* with the triggers filed under it.
LEMMA StepArmedInv ==
    ASSUME SchedulerTypeOK, ArmedInv, [Next]_vars
    PROVE  ArmedInv'
<1> USE DEF ArmedInv
<1>t. CompositeTypeOK /\ triggerTasks \in [Triggers -> [Tasks -> Nat]]
  BY DEF SchedulerTypeOK, TablesTypeOK
<1>1. ASSUME UNCHANGED <<triggerTasks, cronJobs, jobs, eventTriggers, pathTriggers, ids>>
      PROVE  ArmedInv'
  BY <1>1 DEF TasksOf, Placed, Armed, CronArmed, TsArmed, FsArmed, PathsInv, WatchPath
<1>2. ASSUME NEW x \in Triggers, UpdateTriggerSchedules(x)
      PROVE  ArmedInv'
  <2>1. \A y \in Triggers : y # x => TasksOf(y)' = TasksOf(y)
    BY <1>2, <1>t DEF UpdateTriggerSchedules, TasksOf
  <2>2. /\ PathsInv'
        /\ Placed(x)'
        /\ \A y \in Triggers : y # x /\ Placed(y) => Placed(y)'
    BY <1>2, <1>t, ScheduleByIDPlaces DEF UpdateTriggerSchedules
  <2> QED
    BY <2>1, <2>2
<1>3. ASSUME NEW x \in Triggers, UpdateTriggerExists(x)
      PROVE  ArmedInv'
  <2>1. \A y \in Triggers : TasksOf(y)' # {} => TasksOf(y) # {}
    BY <1>3, <1>t DEF UpdateTriggerExists, TasksOf
  <2>2. /\ PathsInv' = PathsInv
        /\ \A y \in Triggers : Placed(y)' = Placed(y)
    BY <1>3 DEF UpdateTriggerExists, compositeVars, childVars, cronVars, tsVars, fsVars,
                Placed, Armed, CronArmed, TsArmed, FsArmed, PathsInv, WatchPath
  <2> QED
    BY <2>1, <2>2
<1>4. ASSUME NEW x \in Triggers, RemoveTrigger(x)
      PROVE  ArmedInv'
  <2>1. current \in Tasks
    BY <1>4 DEF RemoveTrigger, Sweeping, SchedulerTypeOK, HandlerTypeOK
  <2>2. \A y \in Triggers : TasksOf(y)' = IF y = x THEN TasksOf(y) \ {current} ELSE TasksOf(y)
    BY <1>4, <1>t, <2>1 DEF RemoveTrigger, TasksOf
  <2>3. CASE LastTaskOf(x)
    <3>1. TasksOf(x)' = {} /\ Placed(x)
      BY <2>2, <2>3 DEF LastTaskOf
    <3>2. PathsInv' /\ \A y \in Triggers : y # x /\ Placed(y) => Placed(y)'
      BY <1>4, <1>t, <2>3, <3>1, UnscheduleKeepsOthers DEF RemoveTrigger
    <3> QED
      BY <2>2, <3>1, <3>2
  <2>4. CASE ~LastTaskOf(x)
    <3>1. /\ PathsInv' = PathsInv
          /\ \A y \in Triggers : Placed(y)' = Placed(y)
      BY <1>4, <2>4 DEF RemoveTrigger, compositeVars, childVars, cronVars, tsVars, fsVars,
                        Placed, Armed, CronArmed, TsArmed, FsArmed, PathsInv, WatchPath
    <3> QED
      BY <2>2, <3>1
  <2> QED
    BY <2>3, <2>4
<1>5. ASSUME UNCHANGED <<compositeVars, triggerTasks>>
      PROVE  ArmedInv'
  BY <1>1, <1>5 DEF compositeVars, childVars, cronVars, tsVars, fsVars
<1>6. ASSUME NEW t \in Tasks, NEW S, ScheduleNew(t, S) \/ Reschedule(t, S)
      PROVE  ArmedInv'
  BY <1>5, <1>6 DEF ScheduleNew, Reschedule
<1>7. ASSUME NEW x \in Triggers,
             UpdateTriggerFails(x) \/ UpdateTriggerPanics(x) \/ UpdateTriggerNilMap(x)
             \/ RemoveTriggerPanics(x)
      PROVE  ArmedInv'
  BY <1>5, <1>7 DEF UpdateTriggerFails, UpdateTriggerPanics, UpdateTriggerNilMap,
                    RemoveTriggerPanics, Dies, tableVars
<1>8. CASE AddDone \/ UpdateDone \/ RemoveDone
  BY <1>5, <1>8 DEF AddDone, UpdateDone, RemoveDone, tableVars
<1>9. CASE Start \/ Stop \/ FileGone
  BY <1>1, <1>9 DEF Start, Stop, FileGone, CompositeStart, CompositeStop, CronStart, CronStop,
                    TsStart, TsStop, FsStart, FsStop, FsFileGone, cronVars, tsVars, tableVars
<1>10. CASE \/ CronJobFires \/ EventFires \/ PathFires \/ ClosedWatcherFires \/ MapRace
            \/ \E x \in launched : OnTrigger(x)
            \/ \E loop \in overtaken : OvertakenLoop(loop)
  BY <1>5, <1>10, CallbacksKeepTables DEF MapRace, Dies, tableVars
<1>11. CASE UNCHANGED vars
  BY <1>5, <1>11 DEF vars, tableVars
<1> QED
  BY <1>2, <1>3, <1>4, <1>6, <1>7, <1>8, <1>9, <1>10, <1>11
  DEF Next, Schedule, Environment

\* A trigger that runs some task is always armed in the child scheduler of its
\* kind: taking one trigger out never takes out another, not even one filed
\* under the same path or event (removeTrigger, Unschedule of the children).
THEOREM ArmedWhileWantedHolds == Spec => []ArmedWhileWanted
<1>1. Init => ArmedInv
  <2> SUFFICES ASSUME Init PROVE ArmedInv
    OBVIOUS
  <2>1. \A x \in Triggers : TasksOf(x) = {}
    BY DEF Init, TasksOf
  <2>2. PathsInv
    BY DEF Init, CompositeInit, FsInit, PathsInv
  <2> QED
    BY <2>1, <2>2 DEF ArmedInv
<1>2. SchedulerTypeOK /\ ArmedInv /\ [Next]_vars => ArmedInv'
  BY StepArmedInv
<1>3. ArmedInv => ArmedWhileWanted
  BY DEF ArmedInv, ArmedWhileWanted, Placed
<1> QED
  BY DispatchInvariant, <1>1, <1>2, <1>3, PTL DEF Spec
=============================================================================
