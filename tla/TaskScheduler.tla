---------------------------- MODULE TaskScheduler ----------------------------
(***************************************************************************)
(* taskscheduler.taskScheduler: which tasks a trigger runs.  Its tables    *)
(* carry no lock: Schedule runs on the goroutine that reads the websocket, *)
(* triggers call back from the goroutines of the three child schedulers,   *)
(* and Start and Stop are called by the main goroutine.  Schedule is       *)
(* therefore one step for each trigger it updates or removes, and a        *)
(* callback is two: a child calls, onTrigger looks the trigger up.         *)
(*                                                                         *)
(* A DefinedTask is the set of its triggers and a version; the version     *)
(* stands for the pointer, so two definitions of a task are told apart.    *)
(***************************************************************************)
EXTENDS CompositeTriggersScheduler

CONSTANTS
    Tasks,
    NoTask,
    Definitions,  \* the sets of triggers a task may be given: [Tasks -> ...]
    MaxVersions,  \* bound: the number of calls of Schedule
    MaxCallbacks  \* bound: the callbacks under way at once

ASSUME TasksAssumption ==
    /\ NoTask \notin Tasks
    /\ Definitions \in [Tasks -> SUBSET SUBSET Triggers]
    /\ MaxVersions \in Nat
    /\ MaxCallbacks \in Nat

VARIABLES
    tasks,             \* the keys of e.tasks
    definition,        \* ScheduledTask.DefinedTask of each task
    scheduledTriggers, \* the keys of ScheduledTask.ScheduledTriggers
    triggerTasks,      \* the version a trigger runs of each task, 0 for none
    version,           \* the newest definition
    pc,                \* where the goroutine that changes the tables is
    current,           \* the task it works on
    todo,              \* the triggers its present loop has not reached
    newTriggers,       \* the triggers updateTrigger accepted
    launched,          \* the triggers a child has called back for, not looked up so far
    overtaken,         \* the loops of onTrigger over a map that was replaced: <<trigger, map>>
    called,            \* what onTrigger ran in the last step: <<trigger, task, version>>
    fault              \* why the process died, "none" while it lives

tableVars == <<tasks, definition, scheduledTriggers, triggerTasks>>
handlerVars == <<pc, current, todo, newTriggers, version>>
callbackVars == <<launched, overtaken>>
vars == <<compositeVars, tableVars, handlerVars, callbackVars, called, fault>>

NoDefinition == [triggers |-> {}, version |-> 0]

Init ==
    /\ CompositeInit
    /\ tasks = {}
    /\ definition = [t \in Tasks |-> NoDefinition]
    /\ scheduledTriggers = [t \in Tasks |-> {}]
    /\ triggerTasks = [x \in Triggers |-> [t \in Tasks |-> 0]]
    /\ version = 0
    /\ pc = "idle" /\ current = NoTask /\ todo = {} /\ newTriggers = {}
    /\ launched = {} /\ overtaken = {} /\ called = {}
    /\ fault = "none"

-----------------------------------------------------------------------------
\* A trigger has a map of tasks exactly while some task is in it.
TasksOf(x) == {t \in Tasks : triggerTasks[x][t] # 0}

Alive == fault = "none" /\ called' = {}

Dies(why) ==
    /\ Alive
    /\ fault' = why
    /\ UNCHANGED <<compositeVars, tableVars, handlerVars, callbackVars>>

-----------------------------------------------------------------------------
(* Schedule *)

\* The two branches of Schedule: a task met first, and one to reschedule.
ScheduleNew(t, triggers) ==
    /\ Alive
    /\ pc = "idle"
    /\ version < MaxVersions
    /\ t \notin tasks
    /\ version' = version + 1
    /\ tasks' = tasks \cup {t}
    /\ definition' = [definition EXCEPT ![t] = [triggers |-> triggers, version |-> version']]
    /\ scheduledTriggers' = [scheduledTriggers EXCEPT ![t] = {}]
    /\ pc' = "add" /\ current' = t /\ todo' = triggers
    /\ UNCHANGED <<compositeVars, triggerTasks, newTriggers, callbackVars, fault>>

Reschedule(t, triggers) ==
    /\ Alive
    /\ pc = "idle"
    /\ version < MaxVersions
    /\ t \in tasks
    /\ version' = version + 1
    /\ definition' = [definition EXCEPT ![t] = [triggers |-> triggers, version |-> version']]
    /\ pc' = "update" /\ current' = t /\ todo' = triggers
    /\ UNCHANGED <<compositeVars, tasks, scheduledTriggers, triggerTasks, newTriggers>>
    /\ UNCHANGED <<callbackVars, fault>>

\* updateTrigger for x, a trigger of the definition not reached so far.
Updating(x) == Alive /\ pc \in {"add", "update"} /\ x \in todo

\* onTrigger may be in its loop over the map that is replaced here, and goes on
\* with that map.  It reads any other map as Schedule leaves it, which is what
\* looking the trigger up at that moment finds.
Overtakes(x) ==
    \/ UNCHANGED callbackVars
    \/ /\ x \in launched /\ TasksOf(x) # {}
       /\ launched' = launched \ {x}
       /\ overtaken' = overtaken \cup {<<x, triggerTasks[x]>>}

\* Mutant: every trigger of a definition is scheduled again.
UpdateTriggerSchedulesAgain(x) ==
    /\ Updating(x)
    /\ ScheduleByID(x)
    /\ scheduledTriggers' = [scheduledTriggers EXCEPT ![current] = @ \cup {x}]
    /\ triggerTasks' = [triggerTasks EXCEPT ![x] =
           [t \in Tasks |-> IF t = current THEN definition[t].version ELSE 0]]
    /\ newTriggers' = newTriggers \cup {x}
    /\ todo' = todo \ {x}
    /\ Overtakes(x)
    /\ UNCHANGED <<tasks, definition, pc, current, version, fault>>

\* The trigger is new to the task: it is scheduled, and gets a map of its own.
UpdateTriggerSchedules(x) ==
    /\ Updating(x)
    /\ x \notin scheduledTriggers[current]
    /\ ScheduleByID(x)
    /\ scheduledTriggers' = [scheduledTriggers EXCEPT ![current] = @ \cup {x}]
    /\ triggerTasks' = [triggerTasks EXCEPT ![x] =
           [t \in Tasks |-> IF t = current THEN definition[t].version ELSE 0]]
    /\ newTriggers' = newTriggers \cup {x}
    /\ todo' = todo \ {x}
    /\ Overtakes(x)
    /\ UNCHANGED <<tasks, definition, pc, current, version, fault>>

\* The error is logged by Schedule, which goes on with the next trigger.
UpdateTriggerFails(x) ==
    /\ Updating(x)
    /\ x \notin scheduledTriggers[current]
    /\ ScheduleByIDMayFail(x)
    /\ todo' = todo \ {x}
    /\ UNCHANGED <<compositeVars, tableVars, pc, current, newTriggers, version>>
    /\ UNCHANGED <<callbackVars, fault>>

UpdateTriggerPanics(x) ==
    /\ Updating(x)
    /\ x \notin scheduledTriggers[current]
    /\ ScheduleByIDPanics(x)
    /\ Dies("panic")

\* Mutant: a trigger known to the task keeps the definition it had.
UpdateTriggerExistsKeepsOld(x) ==
    /\ Updating(x)
    /\ x \in scheduledTriggers[current]
    /\ TasksOf(x) # {}
    /\ newTriggers' = newTriggers \cup {x}
    /\ todo' = todo \ {x}
    /\ UNCHANGED <<compositeVars, tableVars, pc, current, version, callbackVars, fault>>

\* The trigger is known to the task: the map it should have is written.
UpdateTriggerExists(x) ==
    /\ Updating(x)
    /\ x \in scheduledTriggers[current]
    /\ TasksOf(x) # {}
    /\ triggerTasks' = [triggerTasks EXCEPT ![x][current] = definition[current].version]
    /\ newTriggers' = newTriggers \cup {x}
    /\ todo' = todo \ {x}
    /\ UNCHANGED <<compositeVars, tasks, definition, scheduledTriggers, pc, current, version>>
    /\ UNCHANGED <<callbackVars, fault>>

\* removeTrigger may have deleted that map and left the trigger with the task.
UpdateTriggerNilMap(x) ==
    /\ Updating(x)
    /\ x \in scheduledTriggers[current]
    /\ TasksOf(x) = {}
    /\ Dies("nil map")

AddDone ==
    /\ Alive
    /\ pc = "add" /\ todo = {}
    /\ pc' = "idle" /\ current' = NoTask /\ newTriggers' = {}
    /\ UNCHANGED <<compositeVars, tableVars, todo, version, callbackVars, fault>>

\* Mutants: the difference taken the wrong way round, and not taken at all.
UpdateDoneSweepsNew ==
    /\ Alive
    /\ pc = "update" /\ todo = {}
    /\ pc' = "remove"
    /\ todo' = newTriggers \ scheduledTriggers[current]
    /\ UNCHANGED <<compositeVars, tableVars, current, newTriggers, version, callbackVars, fault>>

UpdateDoneSweepsAll ==
    /\ Alive
    /\ pc = "update" /\ todo = {}
    /\ pc' = "remove"
    /\ todo' = scheduledTriggers[current]
    /\ UNCHANGED <<compositeVars, tableVars, current, newTriggers, version, callbackVars, fault>>

\* What the task was scheduled for and the new definition does not name.
UpdateDone ==
    /\ Alive
    /\ pc = "update" /\ todo = {}
    /\ pc' = "remove"
    /\ todo' = scheduledTriggers[current] \ newTriggers
    /\ UNCHANGED <<compositeVars, tableVars, current, newTriggers, version, callbackVars, fault>>

-----------------------------------------------------------------------------
(* removeTrigger, called by Schedule and by UnscheduleTask *)

Sweeping(x) == Alive /\ pc \in {"remove", "unscheduleTask"} /\ x \in todo

\* Mutant: any task of a trigger takes it out.
AnyTaskOf(x) == TasksOf(x) # {}

\* The last task of a trigger takes the trigger out of its child scheduler.
LastTaskOf(x) == TasksOf(x) \subseteq {current} /\ TasksOf(x) # {}

RemoveTrigger(x) ==
    /\ Sweeping(x)
    /\ triggerTasks' = [triggerTasks EXCEPT ![x][current] = 0]
    /\ IF LastTaskOf(x) THEN CompositeUnschedule(x) ELSE UNCHANGED compositeVars
    /\ todo' = todo \ {x}
    /\ UNCHANGED <<tasks, definition, scheduledTriggers, pc, current, newTriggers, version>>
    /\ UNCHANGED <<callbackVars, fault>>

RemoveTriggerPanics(x) ==
    /\ Sweeping(x)
    /\ LastTaskOf(x)
    /\ UnschedulePanics(x)
    /\ Dies("panic")

RemoveDone ==
    /\ Alive
    /\ pc = "remove" /\ todo = {}
    /\ pc' = "idle" /\ current' = NoTask /\ newTriggers' = {}
    /\ UNCHANGED <<compositeVars, tableVars, todo, version, callbackVars, fault>>

-----------------------------------------------------------------------------
(* Unschedule and UnscheduleTask: operations of the package that the agent *)
(* never calls (see LibraryNext)                                           *)

BeginUnschedule(t, operation) ==
    /\ Alive
    /\ pc = "idle"
    /\ t \in tasks
    /\ pc' = operation /\ current' = t /\ todo' = scheduledTriggers[t]
    /\ UNCHANGED <<compositeVars, tableVars, newTriggers, version, callbackVars, fault>>

Unschedule(t) == BeginUnschedule(t, "unschedule")
UnscheduleTask(t) == BeginUnschedule(t, "unscheduleTask")

\* Unschedule asks the child directly, and leaves triggerTasks alone.
UnscheduleTrigger(x) ==
    /\ Alive
    /\ pc = "unschedule" /\ x \in todo
    /\ CompositeUnschedule(x)
    /\ todo' = todo \ {x}
    /\ UNCHANGED <<tableVars, pc, current, newTriggers, version, callbackVars, fault>>

UnscheduleTriggerPanics(x) ==
    /\ Alive
    /\ pc = "unschedule" /\ x \in todo
    /\ UnschedulePanics(x)
    /\ Dies("panic")

UnscheduleDone ==
    /\ Alive
    /\ pc \in {"unschedule", "unscheduleTask"} /\ todo = {}
    /\ tasks' = tasks \ {current}
    /\ pc' = "idle" /\ current' = NoTask
    /\ UNCHANGED <<compositeVars, definition, scheduledTriggers, triggerTasks>>
    /\ UNCHANGED <<todo, newTriggers, version, callbackVars, fault>>

-----------------------------------------------------------------------------
(* Start and Stop, called by the main goroutine whatever Schedule is at *)

Start ==
    /\ Alive
    /\ watcher # "closed"  \* ApplicationScheduler starts its scheduler once
    /\ CompositeStart
    /\ UNCHANGED <<tableVars, handlerVars, callbackVars, fault>>

Stop ==
    /\ Alive
    /\ CompositeStop
    /\ UNCHANGED <<tableVars, handlerVars, callbackVars, fault>>

-----------------------------------------------------------------------------
(* onTrigger *)

\* A goroutine of a child calls back for x; the rest of what it has to call back
\* for is up to the next such steps.
Launches(x) ==
    /\ Alive
    /\ Cardinality(launched) + Cardinality(overtaken) < MaxCallbacks
    /\ launched' = launched \cup {x}
    /\ UNCHANGED <<compositeVars, tableVars, handlerVars, overtaken, fault>>

CronJobFires == \E j \in cronJobs : CronFires(j) /\ Launches(j[1])
EventFires == \E e \in Events : TsFires(e) /\ \E x \in TsBatch(e) : Launches(x)
PathFires == \E p, name \in Paths : FsFires(p, name) /\ \E x \in FsBatch(name) : Launches(x)
ClosedWatcherFires == FsFiresClosed /\ \E x \in FsBatch(WorkingDir) : Launches(x)

\* The loop runs every task of a map of triggerTasks, as it is stored there.
TasksRun(x, m) == {<<x, t, m[t]>> : t \in {u \in Tasks : m[u] # 0}}

\* onTrigger looks x up, whatever has become of x since its child called.
OnTrigger(x) ==
    /\ fault = "none"
    /\ x \in launched
    /\ called' = TasksRun(x, triggerTasks[x])
    /\ launched' = launched \ {x}
    /\ UNCHANGED <<compositeVars, tableVars, handlerVars, overtaken, fault>>

\* A loop over a replaced map ends.
OvertakenLoop(loop) ==
    /\ fault = "none"
    /\ loop \in overtaken
    /\ called' = TasksRun(loop[1], loop[2])
    /\ overtaken' = overtaken \ {loop}
    /\ UNCHANGED <<compositeVars, tableVars, handlerVars, launched, fault>>

\* A Go map iterated by onTrigger while Schedule writes it: the runtime may
\* abort the process.
MapRace ==
    /\ pc # "idle"
    /\ SomeTriggerFires \/ launched # {}
    /\ Dies("map race")

FileGone ==
    \E p \in watched :
        /\ Alive
        /\ FsFileGone(p)
        /\ UNCHANGED <<cronVars, tsVars, ids, isRunning, tableVars, handlerVars>>
        /\ UNCHANGED <<callbackVars, fault>>

-----------------------------------------------------------------------------
Schedule ==
    \/ \E t \in Tasks : \E triggers \in Definitions[t] :
          ScheduleNew(t, triggers) \/ Reschedule(t, triggers)
    \/ \E x \in Triggers :
          \/ UpdateTriggerSchedules(x)
          \/ UpdateTriggerFails(x)
          \/ UpdateTriggerPanics(x)
          \/ UpdateTriggerExists(x)
          \/ UpdateTriggerNilMap(x)
          \/ RemoveTrigger(x)
          \/ RemoveTriggerPanics(x)
    \/ AddDone
    \/ UpdateDone
    \/ RemoveDone

Environment ==
    \/ CronJobFires
    \/ EventFires
    \/ PathFires
    \/ ClosedWatcherFires
    \/ \E x \in launched : OnTrigger(x)
    \/ \E loop \in overtaken : OvertakenLoop(loop)
    \/ MapRace
    \/ FileGone

\* What the agent does with a taskScheduler.
Next == Schedule \/ Start \/ Stop \/ Environment

\* What the package's interface allows beyond that.
LibraryNext ==
    \/ Next
    \/ \E t \in Tasks : Unschedule(t) \/ UnscheduleTask(t)
    \/ \E x \in Triggers : UnscheduleTrigger(x) \/ UnscheduleTriggerPanics(x)
    \/ UnscheduleDone

Spec == Init /\ [][Next]_vars
LibrarySpec == Init /\ [][LibraryNext]_vars

-----------------------------------------------------------------------------
TypeOK ==
    /\ CompositeTypeOK
    /\ tasks \in SUBSET Tasks
    /\ definition \in [Tasks -> [triggers : SUBSET Triggers, version : Nat]]
    /\ scheduledTriggers \in [Tasks -> SUBSET Triggers]
    /\ triggerTasks \in [Triggers -> [Tasks -> Nat]]
    /\ version \in Nat
    /\ pc \in {"idle", "add", "update", "remove", "unschedule", "unscheduleTask"}
    /\ current \in Tasks \cup {NoTask}
    /\ todo \in SUBSET Triggers
    /\ newTriggers \in SUBSET Triggers
    /\ launched \in SUBSET Triggers
    /\ overtaken \in SUBSET (Triggers \X [Tasks -> Nat])
    /\ called \in SUBSET (Triggers \X Tasks \X Nat)
    /\ fault \in {"none", "nil map", "panic", "map race"}

\* The entry of t under x is the definition t has now, and names x.
Fresh(x, t) ==
    /\ x \in definition[t].triggers
    /\ triggerTasks[x][t] = definition[t].version

\* Once Schedule has returned for a task, no trigger runs an old definition of
\* it, and no trigger that its definition does not name runs it at all: the
\* sweep at the end of Schedule and the updates before it leave nothing behind,
\* whatever other tasks share the triggers (task_scheduler.go, Schedule).
NoStaleDispatch ==
    \A x \in Triggers, t \in Tasks :
        t # current /\ triggerTasks[x][t] # 0 => Fresh(x, t)

\* A trigger that some task is filed under is known to its child scheduler: a
\* task of the table cannot be one that nothing will ever call
\* (removeTrigger disarms a trigger only with its last task).
ArmedWhileWanted == \A x \in Triggers : TasksOf(x) # {} => Armed(x)

\* The count of subscriptions never falls behind the triggers that need the
\* event, however tasks share and swap triggers, and so never goes below zero
\* and never unsubscribes an event in use (TelephonistScheduler.Unschedule).
CounterCoversTriggers ==
    \A e \in Events : subscriptionsCounters[e] >= Cardinality(eventTriggers[e])

\* While the queue lives it receives every event that has a trigger.
SubscribedWhileFiled ==
    queueOpen => \A e \in Events : eventTriggers[e] # {} => e \in subscribed

\* Between two calls, a trigger that some child may still call back for belongs
\* to a task of the table, which it runs with its newest definition: taking a
\* task out, in either way, or scheduling it with other triggers leaves no job,
\* subscription or path of its own behind, however often it came and went
\* (Schedule, Unschedule, UnscheduleTask and the children's Unschedule).
NoTriggerOutlivesItsTask ==
    pc = "idle" => \A x \in Triggers : CalledBack(x) =>
        \E t \in tasks : /\ x \in scheduledTriggers[t]
                         /\ triggerTasks[x][t] # 0
                         /\ Fresh(x, t)

\* Between two calls of Schedule a task is called for every trigger it was
\* scheduled for and its definition still names, and the trigger is armed.
ScheduledTaskIsCalled ==
    pc = "idle" => \A t \in tasks :
        \A x \in scheduledTriggers[t] \cap definition[t].triggers :
            triggerTasks[x][t] # 0 /\ Armed(x)

\* "check if trigger is already scheduled, if it isn't - schedule it": an
\* identifier has one job, so one tick of the clock runs its tasks once.
TriggerScheduledOnce ==
    \A j, k \in cronJobs : j[1] = k[1] => j = k

\* "Schedules (or reschedules, if already scheduled) the task", with whatever
\* triggers: the call never takes the process down.
ScheduleNeverPanics == fault # "nil map"

\* The versions of a task that may run: the one it has, and those a trigger
\* still has.
LiveVersions(t) ==
    {definition[u].version : u \in tasks \cap {t}}
        \cup ({triggerTasks[x][t] : x \in Triggers} \ {0})

Table == INSTANCE TaskTable WITH
    live <- [t \in Tasks |-> LiveVersions(t)],
    begun <- {<<c[2], c[3]>> : c \in UNION {TasksRun(loop[1], loop[2]) : loop \in overtaken}},
    latest <- version

\* Schedule replaces the definition of one task at a time, and a definition
\* that was replaced runs in a callback that had begun before and never again,
\* though the replacement takes one step per trigger and callbacks read the
\* tables between them (Schedule, onTrigger).
ImplementsTaskTable == Table!Spec

\* A kernel watch always has a path entry that can still remove it.
NoOrphanWatch == \A p \in watched : pathTriggers[p] # {}
=============================================================================
