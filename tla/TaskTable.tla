------------------------------ MODULE TaskTable ------------------------------
(***************************************************************************)
(* What a task scheduler promises to whoever schedules tasks with it, in   *)
(* terms of the definitions that may run and of nothing inside it: a new   *)
(* definition of a task takes over from the one before, the two may run    *)
(* side by side for a while, and the next definition, of whatever task,    *)
(* comes only when that is over.  A definition that was taken over from    *)
(* runs in the callbacks that had begun by then, and never again.          *)
(***************************************************************************)
EXTENDS Naturals

CONSTANTS Tasks, Triggers

VARIABLES
    live,    \* the versions of each task that may run
    begun,   \* what callbacks that have begun may still run: <<task, version>>
    latest,  \* the newest version
    called   \* what ran in the last step: <<trigger, task, version>>

vars == <<live, begun, latest, called>>

Init ==
    /\ live = [t \in Tasks |-> {}]
    /\ begun = {}
    /\ latest = 0
    /\ called = {}

Settled(t) == \A v, w \in live[t] : v = w

\* A callback that begins can only have found definitions that may run.
BegunWhileLive == \A c \in begun' \ begun : c[1] \in Tasks /\ c[2] \in live[c[1]]

\* Task t gets a new definition, next to the one it had or in place of it.
Define(t) ==
    /\ latest' = latest + 1
    /\ \A u \in Tasks : Settled(u)
    /\ live' \in {[live EXCEPT ![t] = {latest'}], [live EXCEPT ![t] = @ \cup {latest'}]}
    /\ called' = {}
    /\ UNCHANGED begun

\* The definition before the newest one is gone.
TakeOver(t) ==
    /\ latest \in live[t]
    /\ live' = [live EXCEPT ![t] = {latest}]
    /\ BegunWhileLive
    /\ called' = {}
    /\ UNCHANGED latest

\* Some tasks run, or nothing does.
Run ==
    /\ \A c \in called' :
          /\ c[1] \in Triggers /\ c[2] \in Tasks
          /\ c[3] \in live[c[2]] \/ <<c[2], c[3]>> \in begun
    /\ BegunWhileLive
    /\ UNCHANGED <<live, latest>>

Next == Run \/ \E t \in Tasks : Define(t) \/ TakeOver(t)

Spec == Init /\ [][Next]_vars
=============================================================================
