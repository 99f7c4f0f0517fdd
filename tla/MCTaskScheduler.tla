--------------------------- MODULE MCTaskScheduler ---------------------------
(***************************************************************************)
(* Small instances of TaskScheduler.  Two event triggers decode to one     *)
(* event key (a body may be escaped in two ways), and the two fsnotify     *)
(* triggers name one directory, one of them with a trailing slash: each    *)
(* pair has two identifiers and shares a table entry.                      *)
(***************************************************************************)
EXTENDS TaskScheduler, TLC

CONSTANTS t1, t2

MCTasks == {t1, t2}
TaskSymmetry == Permutations(MCTasks)

\* "never" has an expression gocron refuses, "hook" a name no child takes, and
\* "garbled" a body no child can decode.
MCTriggers == {"tick", "never", "push", "push2", "dir", "dir/", "hook", "garbled"}
MCKind == [x \in MCTriggers |->
    CASE x \in {"tick", "never"} -> "cron"
      [] x \in {"push", "push2", "garbled"} -> "event"
      [] x \in {"dir", "dir/"} -> "fsnotify"
      [] OTHER -> "webhook"]

MCEvents == {"pushed"}
MCEventOf == [x \in MCTriggers |-> "pushed"]

\* A prefix in the sense of matchesPath is one of the string, as "/d" of "/d/".
MCPaths == {"/d", "/d/"}
MCPathOf == [x \in MCTriggers |-> IF x = "dir/" THEN "/d/" ELSE "/d"]
MCNormalPath == [p \in MCPaths |-> IF p = "/d/" THEN "/d" ELSE p]
MCReports == [p \in MCPaths |-> {p}]
MCHasPrefix == [p \in MCPaths |-> IF p = "/d" THEN {"/d", "/d/"} ELSE {p}]

\* Definitions two tasks may both be given, so that they share triggers.
SharedDefinitions == [t \in MCTasks |->
    {{}, {"tick", "push"}, {"push", "push2"}, {"dir", "dir/"}, {"push2", "dir"}}]

\* Definitions with which no trigger, event or path belongs to both tasks.
OwnDefinitions ==
    (t1 :> SUBSET {"tick", "dir"} \cup {{"never", "tick"}, {"hook", "dir"}, {"garbled"}})
    @@ (t2 :> SUBSET {"push", "push2"})
=============================================================================
