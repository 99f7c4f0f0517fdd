--------------------- MODULE CompositeTriggersScheduler ---------------------
(***************************************************************************)
(* taskscheduler.CompositeTriggersScheduler: one scheduler in front of the *)
(* three children ApplicationScheduler.createExecutor gives it.  e.ids     *)
(* remembers which child an identifier went to.                            *)
(***************************************************************************)
EXTENDS CronTriggersScheduler, TelephonistScheduler, FSTriggersScheduler

VARIABLES
    ids,       \* e.ids: the child of an identifier, "none" when it has none
    isRunning  \* e.isRunning

childVars == <<cronVars, tsVars, fsVars>>
compositeVars == <<childVars, ids, isRunning>>

CompositeInit ==
    /\ CronInit
    /\ TsInit
    /\ FsInit
    /\ ids = [x \in Triggers |-> "none"]
    /\ isRunning = FALSE

CanSchedule(x) == Kind[x] \in Kinds

\* The first child whose CanSchedule accepts the name takes the trigger.
ScheduleByID(x) ==
    /\ ~MustStringPanics(x)
    /\ \/ Kind[x] = "cron" /\ CronScheduleByID(x) /\ UNCHANGED <<tsVars, fsVars>>
       \/ Kind[x] = "event" /\ TsScheduleByID(x) /\ UNCHANGED <<cronVars, fsVars>>
       \/ Kind[x] = "fsnotify" /\ FsScheduleByID(x) /\ UNCHANGED <<cronVars, tsVars>>
    /\ ids' = [ids EXCEPT ![x] = Kind[x]]
    /\ UNCHANGED isRunning

\* The errors ScheduleByID may return; they leave every table as it was.
ScheduleByIDMayFail(x) ==
    \/ ~CanSchedule(x)
    \/ Kind[x] = "cron" /\ ~MustStringPanics(x) /\ CronRejects(x)
    \/ Kind[x] = "fsnotify" /\ ~MustStringPanics(x) /\ FsMayReject(x)

ScheduleByIDPanics(x) ==
    \/ MustStringPanics(x)
    \/ Kind[x] = "event" /\ TsSchedulePanics(x)

\* An identifier without a child is an error the callers ignore.
CompositeUnschedule(x) ==
    /\ \/ ids[x] = "none" /\ UNCHANGED childVars
       \/ ids[x] = "cron" /\ CronUnschedule(x) /\ UNCHANGED <<tsVars, fsVars>>
       \/ ids[x] = "event" /\ TsUnschedule(x) /\ UNCHANGED <<cronVars, fsVars>>
       \/ ids[x] = "fsnotify" /\ FsUnschedule(x) /\ UNCHANGED <<cronVars, tsVars>>
    /\ UNCHANGED <<ids, isRunning>>

UnschedulePanics(x) == ids[x] = "event" /\ TsUnschedulePanics(x)

\* No child's Start returns an error, so the rollback of Start never runs.
CompositeStart ==
    /\ ~isRunning
    /\ CronStart /\ TsStart /\ FsStart
    /\ isRunning' = TRUE
    /\ UNCHANGED ids

CompositeStop ==
    /\ isRunning
    /\ CronStop /\ TsStop /\ FsStop
    /\ isRunning' = FALSE
    /\ UNCHANGED ids

\* Some goroutine of a child is about to call back.
SomeTriggerFires ==
    \/ \E j \in cronJobs : CronFires(j)
    \/ \E e \in Events : TsFires(e)
    \/ \E p, name \in Paths : FsFires(p, name)
    \/ FsFiresClosed

\* The child an identifier belongs to will call back for it.
Armed(x) ==
    \/ Kind[x] = "cron" /\ CronArmed(x)
    \/ Kind[x] = "event" /\ TsArmed(x)
    \/ Kind[x] = "fsnotify" /\ FsArmed(x)

\* Some child has the trigger where its goroutine finds what to call back for.
CalledBack(x) ==
    \/ \E j \in cronJobs : j[1] = x
    \/ \E e \in Events : x \in eventTriggers[e]
    \/ \E p \in Paths : x \in pathTriggers[p]

CompositeTypeOK ==
    /\ CronTypeOK
    /\ TsTypeOK
    /\ FsTypeOK
    /\ ids \in [Triggers -> Kinds \cup {"none"}]
    /\ isRunning \in BOOLEAN
=============================================================================
