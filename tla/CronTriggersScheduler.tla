----------------------- MODULE CronTriggersScheduler -----------------------
(***************************************************************************)
(* taskscheduler.CronTriggersScheduler: "cron" triggers kept as jobs of a  *)
(* gocron scheduler.  e.jobs holds the newest job of an identifier only,   *)
(* and a job leaves gocron only through that entry.                        *)
(***************************************************************************)
EXTENDS Triggers

VARIABLES
    cronJobs,    \* the jobs in gocron: <<identifier, number of the job>>
    jobs,        \* e.jobs: the newest job of an identifier, 0 when it has none
    cronRunning  \* gocron is started

cronVars == <<cronJobs, jobs, cronRunning>>

CronInit ==
    /\ cronJobs = {}
    /\ jobs = [x \in Triggers |-> 0]
    /\ cronRunning = FALSE

\* gocron's Do returns the error of an expression it could not parse.
CronRejects(x) == x \in InvalidCron

\* Mutant: the job is filed under the number of the one before it.
CronScheduleByIDStaleNumber(x) ==
    /\ ~CronRejects(x)
    /\ jobs' = [jobs EXCEPT ![x] = @ + 1]
    /\ cronJobs' = cronJobs \cup {<<x, jobs[x]>>}
    /\ UNCHANGED cronRunning

\* A second job for an identifier replaces the entry of e.jobs, not the job.
CronScheduleByID(x) ==
    /\ ~CronRejects(x)
    /\ jobs' = [jobs EXCEPT ![x] = @ + 1]
    /\ cronJobs' = cronJobs \cup {<<x, jobs[x] + 1>>}
    /\ UNCHANGED cronRunning

\* The entry of e.jobs stays: only the job it names is removed.
CronUnschedule(x) ==
    /\ cronJobs' = cronJobs \ {<<x, jobs[x]>>}
    /\ UNCHANGED <<jobs, cronRunning>>

CronStart == cronRunning' = TRUE /\ UNCHANGED <<cronJobs, jobs>>
CronStop == cronRunning' = FALSE /\ UNCHANGED <<cronJobs, jobs>>

\* gocron runs a job, which calls trigger(id) and hence the callback once.
CronFires(j) == cronRunning /\ j \in cronJobs

CronArmed(x) == <<x, jobs[x]>> \in cronJobs

CronTypeOK ==
    /\ cronJobs \subseteq Triggers \X (Nat \ {0})
    /\ jobs \in [Triggers -> Nat]
    /\ cronRunning \in BOOLEAN
=============================================================================
