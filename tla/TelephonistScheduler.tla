------------------------ MODULE TelephonistScheduler ------------------------
(***************************************************************************)
(* taskscheduler.TelephonistScheduler: "event" triggers.  One EventQueue   *)
(* of the websocket client carries the events; how many times an event was *)
(* asked for is counted, and the queue subscribes when the count leaves    *)
(* zero and unsubscribes when it returns to it.                            *)
(***************************************************************************)
EXTENDS Triggers, Integers

VARIABLES
    eventTriggers,         \* the identifiers filed under each event
    tsTriggers,            \* e.triggers: the identifiers known
    subscriptionsCounters, \* per event, 0 when the map has no entry
    queueOpen,             \* e.queue is not nil
    subscribed             \* the events the queue receives

tsVars == <<eventTriggers, tsTriggers, subscriptionsCounters, queueOpen, subscribed>>

TsInit ==
    /\ eventTriggers = [e \in Events |-> {}]
    /\ tsTriggers = {}
    /\ subscriptionsCounters = [e \in Events |-> 0]
    /\ queueOpen = FALSE
    /\ subscribed = {}

\* e.queue.Subcribe on the nil queue of a scheduler that is not running.
TsSchedulePanics(x) == ~queueOpen /\ subscriptionsCounters[EventOf[x]] = 0

\* Mutant: only the first trigger of an event is counted.
TsScheduleByIDCountsOnce(x) ==
    LET e == EventOf[x] IN
    /\ ~TsSchedulePanics(x)
    /\ tsTriggers' = tsTriggers \cup {x}
    /\ eventTriggers' = [eventTriggers EXCEPT ![e] = @ \cup {x}]
    /\ subscriptionsCounters' = [subscriptionsCounters EXCEPT ![e] = 1]
    /\ subscribed' = subscribed \cup {e}
    /\ UNCHANGED queueOpen

TsScheduleByID(x) ==
    LET e == EventOf[x] IN
    /\ ~TsSchedulePanics(x)
    /\ tsTriggers' = tsTriggers \cup {x}
    /\ eventTriggers' = [eventTriggers EXCEPT ![e] = @ \cup {x}]
    /\ subscriptionsCounters' = [subscriptionsCounters EXCEPT ![e] = @ + 1]
    /\ subscribed' = IF subscriptionsCounters[e] = 0 THEN subscribed \cup {e} ELSE subscribed
    /\ UNCHANGED queueOpen

\* e.queue.Unsubscribe on the nil queue.
TsUnschedulePanics(x) ==
    x \in tsTriggers /\ ~queueOpen /\ subscriptionsCounters[EventOf[x]] = 1

\* Mutant: the queue unsubscribes whatever the count.
TsUnscheduleAlwaysUnsubscribes(x) ==
    LET e == EventOf[x] IN
    /\ ~TsUnschedulePanics(x)
    /\ IF x \in tsTriggers
       THEN /\ tsTriggers' = tsTriggers \ {x}
            /\ eventTriggers' = [eventTriggers EXCEPT ![e] = @ \ {x}]
            /\ subscriptionsCounters' = [subscriptionsCounters EXCEPT ![e] = @ - 1]
            /\ subscribed' = subscribed \ {e}
       ELSE UNCHANGED <<tsTriggers, eventTriggers, subscriptionsCounters, subscribed>>
    /\ UNCHANGED queueOpen

TsUnschedule(x) ==
    LET e == EventOf[x] IN
    /\ ~TsUnschedulePanics(x)
    /\ IF x \in tsTriggers
       THEN /\ tsTriggers' = tsTriggers \ {x}
            /\ eventTriggers' = [eventTriggers EXCEPT ![e] = @ \ {x}]
            /\ subscriptionsCounters' = [subscriptionsCounters EXCEPT ![e] = @ - 1]
            /\ subscribed' = IF subscriptionsCounters[e] = 1 THEN subscribed \ {e} ELSE subscribed
       ELSE UNCHANGED <<tsTriggers, eventTriggers, subscriptionsCounters, subscribed>>
    /\ UNCHANGED queueOpen

\* Start makes a queue when there is none; Stop drops it after UnsubscribeAll.
TsStart ==
    /\ queueOpen' = TRUE
    /\ UNCHANGED <<eventTriggers, tsTriggers, subscriptionsCounters, subscribed>>

TsStop ==
    /\ queueOpen' = FALSE
    /\ subscribed' = {}
    /\ UNCHANGED <<eventTriggers, tsTriggers, subscriptionsCounters>>

\* drain: an event of the queue calls back once per identifier filed under it.
TsFires(e) == queueOpen /\ e \in subscribed
TsBatch(e) == eventTriggers[e]

TsArmed(x) == x \in eventTriggers[EventOf[x]]

TsTypeOK ==
    /\ eventTriggers \in [Events -> SUBSET Triggers]
    /\ tsTriggers \in SUBSET Triggers
    /\ subscriptionsCounters \in [Events -> Int]
    /\ queueOpen \in BOOLEAN
    /\ subscribed \in SUBSET Events
=============================================================================
