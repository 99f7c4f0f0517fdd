---------------------------- MODULE EventDelivery ----------------------------
(***************************************************************************)
(* How an event gets from the backend to the triggers that ask for it, and *)
(* how the agent stops: the tables of TelephonistScheduler, its EventQueue *)
(* and the channels of WSClient, composed.  The goroutines are the reader  *)
(* of the present connection, which delivers events and also schedules     *)
(* triggers; drain, which takes events out of the queue; and main, which   *)
(* stops everything after an interrupt.  Reader and main block whenever    *)
(* they tell the backend something, until writePump has taken it.  The     *)
(* reader schedules triggers also over a connection that has gone: it is   *)
(* in the middle of a list of tasks, or handles one again.                 *)
(*                                                                         *)
(* WSClient has the handshake and the states of a connection; here a       *)
(* connection is up, lost (writePump has not noticed yet) or down.  What   *)
(* the task scheduler asks for is any sequence of ScheduleByID and of      *)
(* Unschedule for triggers whose ScheduleByID has returned.                *)
(***************************************************************************)
EXTENDS Integers, Sequences

CONSTANTS
    Events,         \* event keys
    Spellings,      \* how a body may spell its event: each an identifier
    MaxConnections, \* bound: the connections that are made
    MaxCalls,       \* bound: the calls of ScheduleByID
    MaxEvents,      \* bound: the events that happen
    MaxStale        \* bound: how often a reader handles a message again

ASSUME EventDeliveryAssumption ==
    /\ "none" \notin Events  \* it stands for no event
    /\ MaxConnections \in Nat /\ MaxCalls \in Nat /\ MaxEvents \in Nat /\ MaxStale \in Nat

Triggers == Events \X Spellings
EventOf(x) == x[1]

VARIABLES
    link,          \* the present connection: "up", "lost" or "down"
    chan,          \* c.sendMessages, numbered by connection
    eventChannels, \* how many channels c.eventChannels has for each event
    sending,       \* what the reader and main wait to send, and on which channel
    reader,        \* where the reader of the present connection is
    rm,            \* the event it keeps in rm
    left,          \* the channels it has not delivered it to
    stale,         \* how often it has handled it again
    filed,         \* the triggers of TelephonistScheduler.eventTriggers
    armed,         \* those whose ScheduleByID has returned
    counters,      \* TelephonistScheduler.subscriptionsCounters, 0 for no entry
    subscribed,    \* the keys of EventQueue.subscribed
    queue,         \* TelephonistScheduler.queue is "open" or "nil"
    drain,         \* where drain is
    taken,         \* the event it has taken out of the queue
    main,          \* where main is
    todo,          \* the events UnsubscribeAll has not reached
    inbox,         \* the events on their way to the agent
    serverSubs,    \* the subscriptions the backend keeps for the connection
    happened,      \* the events that have happened
    calls,         \* the calls of ScheduleByID
    late,          \* the events drain has dispatched after the queue was dropped
    abandoned,     \* a reader was left behind in an Unsubscribe
    fault          \* why the agent died, "none" while it lives

connection == <<link, chan>>
readerVars == <<reader, rm, left, stale>>
tables == <<filed, armed, counters, subscribed>>
backend == <<inbox, serverSubs, happened>>
mainVars == <<main, todo>>
drainVars == <<drain, taken, late>>
control == <<calls, abandoned, fault>>
vars == <<connection, eventChannels, sending, readerVars, tables, queue, drainVars, mainVars,
          backend, control>>

NoEvent == <<"none", 0>>
NoSend == [chan |-> 0, type |-> "none", events |-> {}]

Init ==
    /\ link = "down" /\ chan = 0
    /\ eventChannels = [e \in Events |-> 0]
    /\ sending = [g \in {"reader", "main"} |-> NoSend]
    /\ reader = "none" /\ rm = NoEvent /\ left = 0 /\ stale = 0
    /\ filed = {} /\ armed = {} /\ counters = [e \in Events |-> 0] /\ subscribed = {}
    /\ queue = "open" /\ drain = "check" /\ taken = "none" /\ late = 0
    /\ main = "running" /\ todo = {}
    /\ inbox = <<>> /\ serverSubs = {} /\ happened = 0
    /\ calls = 0 /\ abandoned = FALSE /\ fault = "none"

Alive == fault = "none" /\ main # "exited"

Dies(why) ==
    /\ Alive
    /\ fault' = why
    /\ UNCHANGED <<connection, eventChannels, sending, readerVars, tables, queue, drainVars, mainVars,
                   backend, calls, abandoned>>

BeginSend(g, type, events) ==
    sending' = [sending EXCEPT ![g] = [chan |-> chan', type |-> type, events |-> events]]

-----------------------------------------------------------------------------
(* The connection *)

\* writePump receives from the new channel, and the reader answers greetings.
\* A reader of the old connection has ended, or is blocked for good.
Connect ==
    /\ Alive
    /\ link = "down"
    /\ reader \in {"none", "done", "sending"}
    /\ chan < MaxConnections
    /\ chan' = chan + 1
    /\ link' = "up"
    /\ reader' = "sending" /\ rm' = NoEvent /\ left' = 0 /\ stale' = 0
    /\ BeginSend("reader", "set_subscriptions", {e \in Events : eventChannels[e] > 0})
    /\ inbox' = <<>> /\ serverSubs' = {}
    /\ abandoned' = (abandoned \/ (reader = "sending" /\ sending["reader"].type = "unsubscribe"))
    /\ UNCHANGED <<eventChannels, tables, queue, drainVars, mainVars, happened, calls, fault>>

LinkChanges(from, to) ==
    /\ Alive
    /\ link = from
    /\ link' = to
    /\ inbox' = <<>>
    /\ UNCHANGED <<chan, eventChannels, sending, readerVars, tables, queue, drainVars, mainVars,
                   serverSubs, happened, control>>

ConnectionLost == LinkChanges("up", "lost")
PumpEnds == LinkChanges("lost", "down")

\* What the backend makes of a message.
Told(message) ==
    CASE message.type = "set_subscriptions" -> message.events
      [] message.type = "subscribe" -> serverSubs \cup message.events
      [] message.type = "unsubscribe" -> serverSubs \ message.events

\* The loop of UnsubscribeAll over e.subscribed is on.
InRange == main \in {"unsubscribing", "sending"}

\* A key that is added to the map meanwhile may be met by the loop or not.
RangeMeets(added) ==
    todo' \in IF InRange THEN {todo \ added, todo \cup added} ELSE {todo}

\* The reader goes on where it waited: Subcribe and Unsubscribe keep their own
\* table only now, and ScheduleByID returns.
ReaderGoesOn ==
    LET m == sending["reader"] IN
    /\ reader' = "reading"
    /\ subscribed' = CASE m.type = "subscribe" -> subscribed \cup m.events
                       [] m.type = "unsubscribe" -> subscribed \ m.events
                       [] OTHER -> subscribed
    \* the one trigger filed for an event nobody was subscribed to
    /\ armed' = IF m.type = "subscribe"
                THEN armed \cup {x \in filed : EventOf(x) \in m.events} ELSE armed
    /\ RangeMeets(IF m.type = "subscribe" THEN m.events ELSE {})
    /\ UNCHANGED <<rm, left, stale, filed, counters, main>>

MainGoesOn == main' = "unsubscribing" /\ UNCHANGED <<todo, readerVars, tables>>

PumpTakes(g) ==
    /\ Alive
    /\ link \in {"up", "lost"}
    /\ sending[g].chan = chan /\ chan # 0
    /\ sending' = [sending EXCEPT ![g] = NoSend]
    /\ serverSubs' = IF link = "up" THEN Told(sending[g]) ELSE serverSubs
    /\ IF g = "reader" THEN ReaderGoesOn ELSE MainGoesOn
    /\ UNCHANGED <<connection, eventChannels, queue, drainVars, inbox, happened, control>>

-----------------------------------------------------------------------------
(* The reader schedules triggers *)

Reading == Alive /\ reader = "reading"

\* Scheduling changes a table and, with the first or last channel of an event,
\* blocks; the tables of the queue change when it goes on.
Asks(type, e) ==
    /\ UNCHANGED <<chan, subscribed>>
    /\ BeginSend("reader", type, {e})
    /\ reader' = "sending"

\* EventQueue.Subcribe and WSClient.addEventChannel.
Subscribe(x, e) ==
    IF e \in subscribed
    THEN /\ armed' = armed \cup {x}
         /\ UNCHANGED <<eventChannels, sending, reader, subscribed, chan, todo>>
    ELSE /\ eventChannels' = [eventChannels EXCEPT ![e] = @ + 1]
         /\ IF eventChannels[e] = 0
            THEN Asks("subscribe", e) /\ UNCHANGED <<armed, todo>>
            ELSE /\ subscribed' = subscribed \cup {e} /\ armed' = armed \cup {x}
                 /\ RangeMeets({e})
                 /\ UNCHANGED <<sending, reader, chan>>

\* Mutants: every trigger subscribes; only the first one is counted.
EachSubscribes(e) == TRUE
CountedOnce(e) == 1

FirstOf(e) == counters[e] = 0
Counted(e) == counters[e] + 1

ScheduleByID(x) ==
    LET e == EventOf(x) IN
    /\ Reading
    /\ queue = "open" \/ ~FirstOf(e)
    /\ calls < MaxCalls
    /\ calls' = calls + 1
    /\ filed' = filed \cup {x}
    /\ counters' = [counters EXCEPT ![e] = Counted(e)]
    /\ IF FirstOf(e)
       THEN Subscribe(x, e)
       ELSE /\ armed' = armed \cup {x}
            /\ UNCHANGED <<eventChannels, sending, reader, subscribed, chan, todo>>
    /\ UNCHANGED <<link, rm, left, stale, queue, drainVars, main, backend, abandoned, fault>>

\* EventQueue.Unsubscribe and WSClient.removeEventChannel.
Unsubscribe(e) ==
    IF e \in subscribed /\ eventChannels[e] = 1
    THEN eventChannels' = [eventChannels EXCEPT ![e] = 0] /\ Asks("unsubscribe", e)
    ELSE /\ eventChannels' = IF e \in subscribed /\ eventChannels[e] > 1
                             THEN [eventChannels EXCEPT ![e] = @ - 1] ELSE eventChannels
         /\ subscribed' = subscribed \ {e}
         /\ UNCHANGED <<sending, reader, chan>>

\* Mutant: any trigger of an event unsubscribes it.
AnyOf(e) == TRUE
LastOf(e) == counters[e] = 1

Unschedule(x) ==
    LET e == EventOf(x) IN
    /\ Reading
    /\ x \in armed
    /\ queue = "open" \/ ~LastOf(e)
    /\ filed' = filed \ {x}
    /\ armed' = armed \ {x}
    /\ IF LastOf(e)
       THEN counters' = [counters EXCEPT ![e] = 0] /\ Unsubscribe(e)
       ELSE /\ counters' = [counters EXCEPT ![e] = @ - 1]
            /\ UNCHANGED <<eventChannels, sending, reader, subscribed, chan>>
    /\ UNCHANGED <<link, rm, left, stale, queue, drainVars, mainVars, backend, control>>

\* Stop has dropped the queue these would ask.
ScheduleOnNilQueue ==
    /\ Reading
    /\ queue = "nil"
    /\ \/ calls < MaxCalls /\ \E e \in Events : FirstOf(e)
       \/ \E x \in armed : LastOf(EventOf(x))
    /\ Dies("nil queue")

-----------------------------------------------------------------------------
(* The reader delivers events: onNewEvent *)

Delivers(event) ==
    /\ rm' = event
    /\ left' = eventChannels[event[1]]
    /\ reader' = IF left' = 0 THEN "reading" ELSE "delivering"
    /\ UNCHANGED <<link, chan, eventChannels, sending, tables, queue, drainVars, mainVars, serverSubs,
                   happened, control>>

ReadEvent ==
    /\ Reading /\ link = "up"
    /\ inbox # <<>>
    /\ Delivers(Head(inbox))
    /\ inbox' = Tail(inbox)
    /\ UNCHANGED stale

\* A failed read: the message is handled again, until the reader ends.
KeepsEvent == Reading /\ link # "up" /\ rm # NoEvent /\ stale < MaxStale

ReadFails ==
    /\ KeepsEvent
    /\ stale' = stale + 1
    /\ Delivers(rm)
    /\ UNCHANGED inbox

ReaderEnds ==
    /\ Reading /\ link # "up"
    /\ reader' = "done"
    /\ UNCHANGED <<connection, eventChannels, sending, rm, left, stale, tables, queue, drainVars,
                   mainVars, backend, control>>

\* One channel has been served, or given up.
ChannelDone ==
    /\ Alive
    /\ reader = "delivering"
    /\ left' = left - 1
    /\ reader' = IF left' = 0 THEN "reading" ELSE "delivering"
    /\ UNCHANGED <<connection, eventChannels, sending, rm, stale, tables, queue, late, mainVars, backend,
                   control>>

Deliver ==
    /\ ChannelDone
    /\ drain = "receive"
    /\ drain' = "dispatch" /\ taken' = rm[1]

\* 1.5 s are over, and drain was busy or gone.
DeliveryTimesOut == ChannelDone /\ drain # "receive" /\ UNCHANGED <<drain, taken>>

-----------------------------------------------------------------------------
(* drain *)

Drains(from, to) ==
    /\ Alive
    /\ drain = from
    /\ drain' = to
    /\ UNCHANGED <<connection, eventChannels, sending, readerVars, tables, queue, mainVars, backend,
                   control>>

\* The condition of the loop, then e.queue is read once more.
DrainChecks == Drains("check", IF queue = "open" THEN "load" ELSE "done") /\ UNCHANGED <<taken, late>>
DrainReceives == Drains("load", "receive") /\ queue = "open" /\ UNCHANGED <<taken, late>>
DrainPanics == drain = "load" /\ queue = "nil" /\ Dies("nil queue")

HasTriggers == \E x \in filed : EventOf(x) = taken

\* Mutant: drain returns at an event without triggers.
LeavesTheLoop == IF HasTriggers THEN "check" ELSE "done"
GoesOn == "check"

\* The callback of every trigger filed under the event, if there are any left.
Dispatch ==
    /\ Drains("dispatch", GoesOn)
    /\ taken' = "none"
    /\ late' = IF main = "stopClient" /\ HasTriggers THEN late + 1 ELSE late

-----------------------------------------------------------------------------
(* main: the interrupt, UnsubscribeAll, Stop of the queue and of the client *)

MainSteps(from) ==
    /\ Alive
    /\ main = from
    /\ UNCHANGED <<connection, readerVars, tables, drainVars, backend, control>>

Interrupt ==
    /\ MainSteps("running")
    /\ main' = "unsubscribing" /\ todo' = subscribed
    /\ UNCHANGED <<eventChannels, sending, queue>>

\* Mutant: the loop does not get any further.
LeftAgain(e) == todo
LeftAfter(e) == todo \ {e}

\* The loop of UnsubscribeAll.
UnsubscribeNext(e) ==
    /\ MainSteps("unsubscribing")
    /\ e \in todo \cap subscribed
    /\ todo' = LeftAfter(e)
    /\ eventChannels' = [eventChannels EXCEPT ![e] = IF @ = 0 THEN 0 ELSE @ - 1]
    /\ IF eventChannels[e] = 1
       THEN BeginSend("main", "unsubscribe", {e}) /\ main' = "sending"
       ELSE UNCHANGED <<main, sending>>
    /\ UNCHANGED queue

\* Mutant: the queue is kept.
QueueKept == queue
QueueOnceStopped == "nil"

QueueDropped ==
    /\ MainSteps("unsubscribing")
    /\ todo \cap subscribed = {}
    /\ queue' = QueueOnceStopped
    /\ main' = "stopClient"
    /\ UNCHANGED <<todo, eventChannels, sending>>

\* wsc.Stop closes the channel, and the process is at its end.
ClientStopped ==
    /\ MainSteps("stopClient")
    /\ chan # 0 /\ sending["reader"].chan # chan
    /\ main' = "exited"
    /\ UNCHANGED <<todo, eventChannels, sending, queue>>

ClientStopPanics ==
    /\ main = "stopClient"
    /\ \/ chan = 0 /\ Dies("close of nil channel")
       \/ chan # 0 /\ sending["reader"].chan = chan /\ Dies("send on closed channel")

\* main and the reader at one map at once: the runtime may abort the process.
MapRace ==
    /\ main = "unsubscribing" /\ todo \cap subscribed # {}
    /\ \/ Reading /\ (inbox # <<>> \/ calls < MaxCalls \/ armed # {})
       \/ KeepsEvent
       \/ reader = "sending" /\ link # "down" /\ sending["reader"].type # "set_subscriptions"
    /\ Dies("map race")

-----------------------------------------------------------------------------
\* Something happens at the backend, which tells a subscriber.
EventHappens(e) ==
    /\ Alive
    /\ link = "up" /\ e \in serverSubs
    /\ happened < MaxEvents
    /\ happened' = happened + 1
    /\ inbox' = Append(inbox, <<e, happened'>>)
    /\ UNCHANGED <<connection, eventChannels, sending, readerVars, tables, queue, drainVars, mainVars,
                   serverSubs, control>>

Pump == \E g \in {"reader", "main"} : PumpTakes(g)

ReaderSchedules == ScheduleOnNilQueue \/ \E x \in Triggers : ScheduleByID(x) \/ Unschedule(x)

Drain == DrainChecks \/ DrainReceives \/ DrainPanics \/ Dispatch

MainStops ==
    \/ \E e \in Events : UnsubscribeNext(e)
    \/ QueueDropped \/ ClientStopped \/ ClientStopPanics

Next ==
    \/ Connect \/ ConnectionLost \/ PumpEnds \/ Pump
    \/ ReaderSchedules \/ ReadEvent \/ ReadFails \/ ReaderEnds
    \/ Deliver \/ DeliveryTimesOut
    \/ Drain
    \/ Interrupt \/ MainStops \/ MapRace
    \/ \E e \in Events : EventHappens(e)

Spec == Init /\ [][Next]_vars

\* Timers end, drain and main run, and writePump serves each of its senders.
FairSpec ==
    /\ Spec
    /\ WF_vars(PumpTakes("reader")) /\ WF_vars(PumpTakes("main"))
    /\ WF_vars(Deliver \/ DeliveryTimesOut)
    /\ WF_vars(Drain)
    /\ WF_vars(MainStops)

-----------------------------------------------------------------------------
Sends == {"none", "set_subscriptions", "subscribe", "unsubscribe"}
EventRecords == Events \X (1 .. MaxEvents)

TypeOK ==
    /\ link \in {"up", "lost", "down"}
    /\ chan \in 0 .. MaxConnections
    /\ eventChannels \in [Events -> Nat]
    /\ sending \in [{"reader", "main"} ->
                        [chan : 0 .. MaxConnections, type : Sends, events : SUBSET Events]]
    /\ reader \in {"none", "reading", "sending", "delivering", "done"}
    /\ rm \in EventRecords \cup {NoEvent}
    /\ left \in Nat /\ (reader = "delivering") = (left > 0)
    /\ stale \in 0 .. MaxStale
    /\ armed \subseteq filed /\ filed \subseteq Triggers
    /\ counters \in [Events -> Nat]
    /\ subscribed \subseteq Events
    /\ queue \in {"open", "nil"}
    /\ drain \in {"check", "load", "receive", "dispatch", "done"}
    /\ taken \in Events \cup {"none"} /\ (drain = "dispatch") = (taken # "none")
    /\ main \in {"running", "unsubscribing", "sending", "stopClient", "exited"}
    /\ todo \subseteq Events
    /\ inbox \in Seq(EventRecords)
    /\ serverSubs \subseteq Events
    /\ happened \in 0 .. MaxEvents /\ calls \in 0 .. MaxCalls /\ late \in Nat
    /\ abandoned \in BOOLEAN
    /\ fault \in {"none", "nil queue", "map race", "close of nil channel", "send on closed channel"}

\* An event has the queue's channel once, however connections are lost in the
\* middle of subscribing: drain is given each event once (addEventChannel,
\* which adds a channel whether or not the queue has one there already).
OneChannelPerEvent == \A e \in Events : eventChannels[e] <= 1

\* While a connection is up and the reader is back at it, the backend is
\* subscribed to the event of every trigger, also of those scheduled over a
\* connection that was lost on the way, unless a reader was left behind in an
\* Unsubscribe, whose entry in EventQueue.subscribed then never goes away.
TriggersSubscribed ==
    link = "up" /\ reader = "reading" /\ main = "running" /\ ~abandoned
        => \A x \in filed : EventOf(x) \in serverSubs

\* Once Stop has dropped the queue no more than one event, the one drain was
\* waiting for or working on, runs tasks (TelephonistScheduler.Stop, drain).
OneLateEvent == late <= 1

\* As long as there is a queue drain comes back to it, also from an event whose
\* last trigger was removed while the event was on its way, and whatever the
\* reader has given up meanwhile (TelephonistScheduler.drain, onNewEvent).
DrainComesBack ==
    (queue = "open") ~> (drain = "receive" \/ queue = "nil" \/ fault # "none")

\* main waits on a channel nobody receives from any more.
MainIsStuck == main = "sending" /\ (link = "down" \/ sending["main"].chan # chan)

\* After an interrupt the agent exits, whatever the reader does meanwhile,
\* unless the connection goes while main waits to tell the backend
\* (App.action, ApplicationScheduler.Stop, UnsubscribeAll).
ShutdownEnds ==
    (main = "unsubscribing") ~> (main = "exited" \/ fault # "none" \/ MainIsStuck)
=============================================================================
