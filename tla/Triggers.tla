------------------------------ MODULE Triggers ------------------------------
(***************************************************************************)
(* The triggers the backend may put in a task.  TaskTrigger.GetID hashes   *)
(* the name and the raw body of a trigger, and every table of the agent is *)
(* keyed by that hash, so a trigger is modelled by its identifier and the  *)
(* functions below say what the code decodes out of its name and body.     *)
(***************************************************************************)
EXTENDS Naturals, FiniteSets

CONSTANTS
    Triggers,    \* the identifiers, one per distinct (name, raw body)
    Kind,        \* TaskTrigger.Name
    Malformed,   \* the triggers whose body is not a JSON string
    InvalidCron, \* the cron triggers whose body gocron does not parse
    Events,      \* event keys
    EventOf,     \* MustString() of an "event" trigger
    Paths,       \* paths, as written and as normalised
    PathOf,      \* MustString() of an "fsnotify" trigger
    NormalPath   \* normalizePath: a leading "/" added, one trailing "/" cut

\* The trigger types a child scheduler accepts; the backend may send others.
Kinds == {"cron", "event", "fsnotify"}

ASSUME TriggersAssumption ==
    /\ IsFiniteSet(Triggers)
    /\ \A x \in Triggers : Kind[x] \in STRING
    /\ Malformed \subseteq Triggers
    /\ InvalidCron \subseteq Triggers
    /\ EventOf \in [Triggers -> Events]
    /\ PathOf \in [Triggers -> Paths]
    /\ NormalPath \in [Paths -> Paths]

\* MustString of a body that cannot be decoded, called by every ScheduleByID.
MustStringPanics(x) == Kind[x] \in Kinds /\ x \in Malformed

\* The path under which FSTriggersScheduler files an "fsnotify" trigger.
WatchPath(x) == NormalPath[PathOf[x]]
=============================================================================
