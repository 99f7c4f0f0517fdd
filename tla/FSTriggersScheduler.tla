------------------------ MODULE FSTriggersScheduler ------------------------
(***************************************************************************)
(* taskscheduler.FSTriggersScheduler: "fsnotify" triggers.  pathTriggers   *)
(* is keyed by the normalised path, but Unschedule looks the path up as it *)
(* was written; the map of one path is never left empty, so a path has an  *)
(* entry exactly when the set kept for it here is not empty.               *)
(***************************************************************************)
EXTENDS Triggers

CONSTANTS
    Reports,     \* the names of the events a watch on a path reports
    HasPrefix,   \* the paths that have a path as a string prefix
    WorkingDir   \* filepath.Abs(""), the directory the agent runs in

ASSUME FSAssumption ==
    /\ Reports \in [Paths -> SUBSET Paths]
    /\ HasPrefix \in [Paths -> SUBSET Paths]
    /\ WorkingDir \in Paths

\* Paths do not end in two slashes, of which normalizePath would cut one only.
ASSUME NormalPathIdempotent ==
    \A p \in Paths : NormalPath[NormalPath[p]] = NormalPath[p]

VARIABLES
    pathTriggers, \* the identifiers filed under each normalised path
    fsTriggers,   \* e.triggers: every identifier ever scheduled
    watched,      \* the paths with a live kernel watch
    watcher       \* "open", "running" (its goroutine was started) or "closed"

fsVars == <<pathTriggers, fsTriggers, watched, watcher>>

FsInit ==
    /\ pathTriggers = [p \in Paths |-> {}]
    /\ fsTriggers = {}
    /\ watched = {}
    /\ watcher = "open"

\* Only a path without an entry is given to watcher.Add, which may refuse it
\* (no such file, too many watches) and always does once it is closed.
FsMayReject(x) == pathTriggers[WatchPath(x)] = {}

FsScheduleByID(x) ==
    LET p == WatchPath(x) IN
    /\ FsMayReject(x) => watcher # "closed"
    /\ pathTriggers' = [pathTriggers EXCEPT ![p] = @ \cup {x}]
    /\ watched' = IF FsMayReject(x) THEN watched \cup {p} ELSE watched
    /\ fsTriggers' = fsTriggers \cup {x}
    /\ UNCHANGED watcher

\* Mutant: the entry of a path goes, its watch stays.
FsUnscheduleKeepsWatch(x) ==
    LET p == PathOf[x]
        last == Cardinality(pathTriggers[p]) = 1 IN
    /\ IF x \in fsTriggers
       THEN pathTriggers' = [pathTriggers EXCEPT ![p] = IF last THEN {} ELSE @ \ {x}]
       ELSE UNCHANGED pathTriggers
    /\ UNCHANGED <<fsTriggers, watched, watcher>>

\* e.triggers keeps x, and a last entry goes whichever identifier it holds.
FsUnschedule(x) ==
    LET p == PathOf[x]
        last == Cardinality(pathTriggers[p]) = 1 IN
    /\ IF x \in fsTriggers
       THEN /\ pathTriggers' = [pathTriggers EXCEPT ![p] = IF last THEN {} ELSE @ \ {x}]
            /\ watched' = IF last THEN watched \ {p} ELSE watched
       ELSE UNCHANGED <<pathTriggers, watched>>
    /\ UNCHANGED <<fsTriggers, watcher>>

FsStart ==
    /\ watcher' = IF watcher = "open" THEN "running" ELSE watcher
    /\ UNCHANGED <<pathTriggers, fsTriggers, watched>>

\* watcher.Close closes Events; the goroutine is not told, closeChan stays open.
FsStop ==
    /\ watcher' = "closed"
    /\ watched' = {}
    /\ UNCHANGED <<pathTriggers, fsTriggers>>

\* dispatchEvent calls back for every root that is a string prefix of the name.
FsBatch(name) ==
    {x \in Triggers : \E root \in Paths : name \in HasPrefix[root] /\ x \in pathTriggers[root]}

FsFires(p, name) == watcher = "running" /\ p \in watched /\ name \in Reports[p]

\* A receive from the closed Events yields a zero event, whose name is "".
FsFiresClosed == watcher = "closed"

\* inotify drops the watch of a file that is deleted; pathTriggers is not told.
FsFileGone(p) ==
    /\ watched' = watched \ {p}
    /\ UNCHANGED <<pathTriggers, fsTriggers, watcher>>

FsArmed(x) == x \in pathTriggers[WatchPath(x)]

FsTypeOK ==
    /\ pathTriggers \in [Paths -> SUBSET Triggers]
    /\ fsTriggers \in SUBSET Triggers
    /\ watched \in SUBSET Paths
    /\ watcher \in {"open", "running", "closed"}
=============================================================================
