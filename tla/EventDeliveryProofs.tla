-------------------------- MODULE EventDeliveryProofs --------------------------
(***************************************************************************)
(* What EventDelivery guarantees for every set of events and spellings,    *)
(* and for any number of connections, calls, events and failed reads.      *)
(***************************************************************************)
EXTENDS EventDelivery, FiniteSetTheorems, TLAPS

\* The triggers of an event among S.
Of(S, e) == {x \in S : EventOf(x) = e}

-----------------------------------------------------------------------------
(* Invariants *)

\* A goroutine waits to send exactly while it is in a blocking call.
WaitingInv ==
    /\ \A g \in {"reader", "main"} :
           sending[g] # NoSend => sending[g].type \in {"set_subscriptions", "subscribe", "unsubscribe"}
    /\ reader = "sending" <=> sending["reader"] # NoSend
    /\ main = "sending" <=> sending["main"] # NoSend

\* The counter of an event covers the triggers filed under it.
CountersInv ==
    /\ IsFiniteSet(filed)
    /\ \A e \in Events : counters[e] >= Cardinality(Of(filed, e))

DeliveringInv == reader = "delivering" => rm # NoEvent

Typed == TypeOK /\ WaitingInv /\ CountersInv /\ DeliveringInv

\* An event the queue is not subscribed to has a channel only while some call of
\* ScheduleByID has counted its trigger and has not returned.
ChannelsInv ==
    /\ \A e \in Events : eventChannels[e] <= 1
    /\ \A e \in Events : eventChannels[e] = 1 /\ e \notin subscribed =>
           counters[e] >= Cardinality(Of(armed, e)) + 1
    /\ sending["reader"].type = "unsubscribe" =>
           \A e \in sending["reader"].events : eventChannels[e] = 0

Channels == {e \in Events : eventChannels[e] > 0}

\* What the backend keeps, once the message under way has reached it, is what
\* there are channels for.
BackendInv ==
    link = "up" /\ main = "running" =>
        LET m == sending["reader"] IN
        CASE m.type = "set_subscriptions" -> m.events = Channels
          [] m.type = "subscribe" -> serverSubs \cup m.events = Channels
          [] m.type = "unsubscribe" -> serverSubs \ m.events = Channels
          [] OTHER -> serverSubs = Channels

LinkInv ==
    /\ link = "up" => reader \in {"reading", "delivering", "sending"}
    /\ link # "down" /\ reader = "sending" => sending["reader"].chan = chan

\* Unless a reader was left behind in an Unsubscribe, an event has a channel as
\* soon as a trigger of it is counted and as long as the queue is subscribed.
KeptInv ==
    main = "running" /\ ~abandoned =>
        /\ \A e \in Events : counters[e] > 0 => eventChannels[e] = 1
        /\ \A e \in subscribed :
               \/ eventChannels[e] = 1
               \/ sending["reader"].type = "unsubscribe" /\ e \in sending["reader"].events
        /\ sending["reader"].type = "subscribe" =>
               \A e \in sending["reader"].events : eventChannels[e] = 1

\* drain comes to one event after the queue was dropped, and then to its check.
LateInv ==
    /\ queue = "nil" <=> main \in {"stopClient", "exited"}
    /\ late <= 1
    /\ late = 1 => queue = "nil" /\ drain \in {"check", "done"}

-----------------------------------------------------------------------------
(* Type correctness *)

\* How the triggers of one event grow and shrink with a set of triggers.
LEMMA OfSets ==
    ASSUME NEW S, S \subseteq Triggers, IsFiniteSet(S), NEW x \in Triggers
    PROVE  /\ \A e \in Events : IsFiniteSet(Of(S, e)) /\ Cardinality(Of(S, e)) \in Nat
           /\ \A e \in Events : e # EventOf(x) =>
                  Of(S \cup {x}, e) = Of(S, e) /\ Of(S \ {x}, e) = Of(S, e)
           /\ Cardinality(Of(S \cup {x}, EventOf(x))) <= Cardinality(Of(S, EventOf(x))) + 1
           /\ x \in S => Cardinality(Of(S \ {x}, EventOf(x))) = Cardinality(Of(S, EventOf(x))) - 1
<1>1. \A e \in Events : IsFiniteSet(Of(S, e)) /\ Cardinality(Of(S, e)) \in Nat
  BY FS_Subset, FS_CardinalityType DEF Of
<1>2. EventOf(x) \in Events
  BY DEF Triggers, EventOf
<1>3. /\ Of(S \cup {x}, EventOf(x)) = Of(S, EventOf(x)) \cup {x}
      /\ Of(S \ {x}, EventOf(x)) = Of(S, EventOf(x)) \ {x}
      /\ x \in S => x \in Of(S, EventOf(x))
  BY DEF Of
<1>4. Cardinality(Of(S, EventOf(x)) \cup {x}) <= Cardinality(Of(S, EventOf(x))) + 1
  <2> DEFINE F == Of(S, EventOf(x))
  <2>1. IsFiniteSet(F) /\ Cardinality(F) \in Nat
    BY <1>1, <1>2
  <2>2. Cardinality(F \cup {x}) \in {Cardinality(F), Cardinality(F) + 1}
    BY <2>1, FS_AddElement
  <2> HIDE DEF F
  <2>3. Cardinality(F \cup {x}) <= Cardinality(F) + 1
    BY <2>1, <2>2
  <2> QED
    BY <2>3 DEF F
<1>5. x \in S => Cardinality(Of(S, EventOf(x)) \ {x}) = Cardinality(Of(S, EventOf(x))) - 1
  BY <1>1, <1>2, <1>3, FS_RemoveElement
<1>6. \A e \in Events : e # EventOf(x) => Of(S \cup {x}, e) = Of(S, e) /\ Of(S \ {x}, e) = Of(S, e)
  BY DEF Of
<1> QED
  BY <1>1, <1>3, <1>4, <1>5, <1>6

\* A larger set has no fewer triggers of an event.
LEMMA OfMonotone ==
    ASSUME NEW S, NEW T, S \subseteq T, T \subseteq Triggers, IsFiniteSet(T), NEW e \in Events
    PROVE  /\ Cardinality(Of(S, e)) \in Nat /\ Cardinality(Of(T, e)) \in Nat
           /\ Cardinality(Of(S, e)) <= Cardinality(Of(T, e))
<1>1. Of(S, e) \subseteq Of(T, e) /\ Of(T, e) \subseteq T
  BY DEF Of
<1>2. IsFiniteSet(Of(T, e))
  BY <1>1, FS_Subset
<1> QED
  BY <1>1, <1>2, FS_Subset, FS_CardinalityType

\* The fields, in the groups that the steps disturb.
ConnectionTypeOK ==
    /\ link \in {"up", "lost", "down"}
    /\ chan \in 0 .. MaxConnections
    /\ eventChannels \in [Events -> Nat]
    /\ sending \in [{"reader", "main"} ->
                        [chan : 0 .. MaxConnections, type : Sends, events : SUBSET Events]]

ReaderTypeOK ==
    /\ reader \in {"none", "reading", "sending", "delivering", "done"}
    /\ rm \in EventRecords \cup {NoEvent}
    /\ left \in Nat /\ (reader = "delivering") = (left > 0)
    /\ stale \in 0 .. MaxStale

TablesTypeOK ==
    /\ armed \subseteq filed /\ filed \subseteq Triggers
    /\ counters \in [Events -> Nat]
    /\ subscribed \subseteq Events

QueueTypeOK ==
    /\ queue \in {"open", "nil"}
    /\ drain \in {"check", "load", "receive", "dispatch", "done"}
    /\ taken \in Events \cup {"none"} /\ (drain = "dispatch") = (taken # "none")
    /\ late \in Nat

MainTypeOK ==
    /\ main \in {"running", "unsubscribing", "sending", "stopClient", "exited"}
    /\ todo \subseteq Events

BackendTypeOK ==
    /\ inbox \in Seq(EventRecords)
    /\ serverSubs \subseteq Events
    /\ happened \in 0 .. MaxEvents

ControlTypeOK ==
    /\ calls \in 0 .. MaxCalls
    /\ abandoned \in BOOLEAN
    /\ fault \in {"none", "nil queue", "map race", "close of nil channel", "send on closed channel"}

\* The groups together are the type invariant.
LEMMA TypeGroups ==
    TypeOK <=> /\ ConnectionTypeOK /\ ReaderTypeOK /\ TablesTypeOK /\ QueueTypeOK
               /\ MainTypeOK /\ BackendTypeOK /\ ControlTypeOK
  BY DEF TypeOK, ConnectionTypeOK, ReaderTypeOK, TablesTypeOK, QueueTypeOK, MainTypeOK,
         BackendTypeOK, ControlTypeOK

\* The client, the scheduler and its queue as App makes them.
LEMMA InitTyped == Init => Typed
<1> SUFFICES ASSUME Init PROVE Typed
  OBVIOUS
<1> USE EventDeliveryAssumption
<1>1. sending \in [{"reader", "main"} ->
                       [chan : 0 .. MaxConnections, type : Sends, events : SUBSET Events]]
  BY DEF Init, NoSend, Sends
<1>2. ConnectionTypeOK
  BY <1>1 DEF Init, ConnectionTypeOK
<1>3. ReaderTypeOK
  BY DEF Init, ReaderTypeOK
<1>4. TablesTypeOK
  BY DEF Init, TablesTypeOK
<1>5. QueueTypeOK
  BY DEF Init, QueueTypeOK
<1>6. MainTypeOK /\ ControlTypeOK
  <2>1. MainTypeOK
    BY DEF Init, MainTypeOK
  <2>2. calls \in 0 .. MaxCalls
    BY DEF Init
  <2>3. abandoned \in BOOLEAN
    BY DEF Init
  <2>4. ControlTypeOK
    BY <2>2, <2>3 DEF Init, ControlTypeOK
  <2> QED
    BY <2>1, <2>4
<1>7. BackendTypeOK
  BY DEF Init, BackendTypeOK
<1>8. WaitingInv
  BY DEF Init, WaitingInv
<1>9. CountersInv
  <2>1. filed = {} /\ \A e \in Events : counters[e] = 0
    BY DEF Init
  <2>2. \A e \in Events : Of(filed, e) = {}
    BY <2>1 DEF Of
  <2> QED
    BY <2>1, <2>2, FS_EmptySet DEF CountersInv
<1> QED
  BY <1>2, <1>3, <1>4, <1>5, <1>6, <1>7, <1>8, <1>9, TypeGroups DEF Typed, DeliveringInv, Init

\* A group whose fields a step leaves alone keeps its types.
LEMMA GroupsUnchanged ==
    /\ ConnectionTypeOK /\ UNCHANGED <<connection, eventChannels, sending>> => ConnectionTypeOK'
    /\ ReaderTypeOK /\ UNCHANGED readerVars => ReaderTypeOK'
    /\ TablesTypeOK /\ UNCHANGED tables => TablesTypeOK'
    /\ QueueTypeOK /\ UNCHANGED <<queue, drainVars>> => QueueTypeOK'
    /\ MainTypeOK /\ UNCHANGED mainVars => MainTypeOK'
    /\ BackendTypeOK /\ UNCHANGED backend => BackendTypeOK'
    /\ ControlTypeOK /\ UNCHANGED control => ControlTypeOK'
    /\ WaitingInv /\ UNCHANGED <<sending, reader, main>> => WaitingInv'
    /\ CountersInv /\ UNCHANGED <<filed, counters>> => CountersInv'
    /\ DeliveringInv /\ UNCHANGED <<reader, rm>> => DeliveringInv'
<1>1. CountersInv /\ UNCHANGED <<filed, counters>> => CountersInv'
  BY DEF CountersInv, Of
<1> QED
  BY <1>1
  DEF ConnectionTypeOK, ReaderTypeOK, TablesTypeOK, QueueTypeOK, MainTypeOK, BackendTypeOK,
      ControlTypeOK, WaitingInv, DeliveringInv, connection, readerVars, tables, drainVars,
      mainVars, backend, control

\* The invariant, group by group.
Groups ==
    /\ ConnectionTypeOK /\ ReaderTypeOK /\ TablesTypeOK /\ QueueTypeOK
    /\ MainTypeOK /\ BackendTypeOK /\ ControlTypeOK
    /\ WaitingInv /\ CountersInv /\ DeliveringInv

\* The type invariant is its groups, before a step and after it.
LEMMA TypedGroups == (Typed <=> Groups) /\ (Typed' <=> Groups')
  BY DEF Typed, Groups, TypeOK, ConnectionTypeOK, ReaderTypeOK, TablesTypeOK, QueueTypeOK,
         MainTypeOK, BackendTypeOK, ControlTypeOK

\* A message is of the type of messages.
LEMMA BeginSendType ==
    ASSUME ConnectionTypeOK, chan' \in 0 .. MaxConnections, NEW g \in {"reader", "main"},
           NEW type \in Sends, NEW es \in SUBSET Events, BeginSend(g, type, es)
    PROVE  /\ sending' \in [{"reader", "main"} ->
                               [chan : 0 .. MaxConnections, type : Sends, events : SUBSET Events]]
           /\ sending'[g].type = type /\ sending'[g].events = es
           /\ type # "none" => sending'[g] # NoSend
           /\ \A h \in {"reader", "main"} \ {g} : sending'[h] = sending[h]
  BY DEF ConnectionTypeOK, BeginSend, NoSend

\* A connection that comes and goes leaves the tables of the scheduler alone.
LEMMA ConnectionStepsTyped ==
    ASSUME Typed, Connect \/ ConnectionLost \/ PumpEnds
    PROVE  Typed'
<1> USE DEF connection, readerVars, tables, drainVars, mainVars, backend, control
<1>t. /\ ConnectionTypeOK /\ ReaderTypeOK /\ TablesTypeOK /\ QueueTypeOK
      /\ MainTypeOK /\ BackendTypeOK /\ ControlTypeOK
      /\ WaitingInv /\ CountersInv /\ DeliveringInv
  BY TypedGroups DEF Groups
<1>1. CASE Connect
  <2>1. chan' \in 0 .. MaxConnections
    BY <1>1, <1>t, EventDeliveryAssumption DEF Connect, ConnectionTypeOK
  <2> DEFINE es == {e \in Events : eventChannels[e] > 0}
  <2>2. BeginSend("reader", "set_subscriptions", es)
    BY <1>1 DEF Connect
  <2>3. /\ sending' \in [{"reader", "main"} ->
                            [chan : 0 .. MaxConnections, type : Sends, events : SUBSET Events]]
        /\ sending'["reader"].type = "set_subscriptions" /\ sending'["reader"] # NoSend
        /\ sending'["main"] = sending["main"]
    BY <1>t, <2>1, <2>2, BeginSendType DEF Sends
  <2>4. ConnectionTypeOK'
    BY <1>1, <1>t, <2>1, <2>3 DEF Connect, ConnectionTypeOK
  <2>5. ReaderTypeOK' /\ DeliveringInv'
    BY <1>1, EventDeliveryAssumption DEF Connect, ReaderTypeOK, DeliveringInv
  <2>6. BackendTypeOK'
    BY <1>1, <1>t DEF Connect, BackendTypeOK
  <2>7. ControlTypeOK'
    <3>1. abandoned' \in BOOLEAN
      BY <1>1 DEF Connect
    <3> QED
      BY <1>1, <1>t, <3>1 DEF Connect, ControlTypeOK
  <2>8. WaitingInv'
    BY <1>1, <1>t, <2>3 DEF Connect, WaitingInv, mainVars
  <2> QED
    BY <1>1, <1>t, <2>4, <2>5, <2>6, <2>7, <2>8, GroupsUnchanged, TypedGroups
    DEF Groups, Connect, tables
<1>2. ASSUME NEW from, NEW to \in {"up", "lost", "down"}, LinkChanges(from, to)
      PROVE  Typed'
  <2>1. ConnectionTypeOK'
    BY <1>2, <1>t DEF LinkChanges, ConnectionTypeOK
  <2>2. BackendTypeOK'
    BY <1>2, <1>t DEF LinkChanges, BackendTypeOK
  <2> QED
    BY <1>2, <1>t, <2>1, <2>2, GroupsUnchanged, TypedGroups
    DEF Groups, LinkChanges, readerVars, tables, mainVars
<1> QED
  BY <1>1, <1>2 DEF ConnectionLost, PumpEnds

\* What is added to the table is among the events the loop may still reach.
LEMMA RangeMeetsTyped ==
    ASSUME MainTypeOK, NEW added \in SUBSET Events, main' = main, todo' = todo \/ RangeMeets(added)
    PROVE  MainTypeOK'
  BY DEF MainTypeOK, RangeMeets

\* writePump hands a message over, and its sender goes on.
LEMMA PumpTakesTyped ==
    ASSUME Typed, NEW g \in {"reader", "main"}, PumpTakes(g)
    PROVE  Typed'
<1> USE DEF connection, readerVars, tables, drainVars, mainVars, backend, control
<1>t. /\ ConnectionTypeOK /\ ReaderTypeOK /\ TablesTypeOK /\ QueueTypeOK
      /\ MainTypeOK /\ BackendTypeOK /\ ControlTypeOK
      /\ WaitingInv /\ CountersInv /\ DeliveringInv
  BY TypedGroups DEF Groups
<1>1. /\ sending' = [sending EXCEPT ![g] = NoSend] /\ sending[g] # NoSend
      /\ sending[g].type \in {"set_subscriptions", "subscribe", "unsubscribe"}
      /\ sending[g].events \in SUBSET Events
  BY <1>t DEF PumpTakes, WaitingInv, ConnectionTypeOK, NoSend
<1>2. ConnectionTypeOK'
  BY <1>t, <1>1, EventDeliveryAssumption DEF PumpTakes, ConnectionTypeOK, connection, NoSend, Sends
<1>3. BackendTypeOK'
  <2>1. serverSubs' \in SUBSET Events
    BY <1>t, <1>1 DEF PumpTakes, Told, BackendTypeOK
  <2> QED
    BY <1>t, <2>1 DEF PumpTakes, BackendTypeOK
<1>4. CASE g = "reader"
  <2>1. ReaderGoesOn
    BY <1>4 DEF PumpTakes
  <2>2. reader = "sending"
    BY <1>t, <1>1, <1>4 DEF WaitingInv
  <2>3. ReaderTypeOK' /\ DeliveringInv'
    BY <1>t, <2>1, <2>2 DEF ReaderGoesOn, ReaderTypeOK, DeliveringInv
  <2>4. TablesTypeOK'
    <3>1. /\ subscribed' \in {subscribed, subscribed \cup sending["reader"].events,
                              subscribed \ sending["reader"].events}
          /\ armed' \in {armed, armed \cup {x \in filed : EventOf(x) \in sending["reader"].events}}
          /\ UNCHANGED <<filed, counters>>
      BY <2>1 DEF ReaderGoesOn
    <3> QED
      BY <1>t, <1>1, <1>4, <3>1 DEF TablesTypeOK
  <2>5. WaitingInv'
    BY <1>t, <1>1, <1>4, <2>1 DEF ReaderGoesOn, WaitingInv, mainVars, ConnectionTypeOK
  <2>6. MainTypeOK'
    <3> DEFINE added == IF sending["reader"].type = "subscribe" THEN sending["reader"].events ELSE {}
    <3>1. added \in SUBSET Events
      BY <1>1, <1>4
    <3>2. RangeMeets(added) /\ main' = main
      BY <2>1 DEF ReaderGoesOn
    <3> HIDE DEF added
    <3> QED
      BY <1>t, <3>1, <3>2, RangeMeetsTyped
  <2> QED
    BY <1>t, <1>2, <1>3, <2>1, <2>3, <2>4, <2>5, <2>6, GroupsUnchanged, TypedGroups
    DEF Groups, PumpTakes, ReaderGoesOn
<1>5. CASE g = "main"
  <2>1. MainGoesOn
    BY <1>5 DEF PumpTakes
  <2>2. MainTypeOK'
    BY <1>t, <2>1 DEF MainGoesOn, MainTypeOK
  <2>3. WaitingInv'
    BY <1>t, <1>1, <1>5, <2>1 DEF MainGoesOn, WaitingInv, readerVars, ConnectionTypeOK
  <2> QED
    BY <1>t, <1>2, <1>3, <2>1, <2>2, <2>3, GroupsUnchanged, TypedGroups
    DEF Groups, PumpTakes, MainGoesOn, readerVars, tables
<1> QED
  BY <1>4, <1>5

\* What the reader asks for is sent over the present connection.
LEMMA AsksType ==
    ASSUME Typed, NEW type \in Sends \ {"none"}, NEW e \in Events, Asks(type, e),
           link' = link, reader = "reading", UNCHANGED <<main, rm>>,
           eventChannels' \in [Events -> Nat]
    PROVE  /\ ConnectionTypeOK' /\ WaitingInv' /\ DeliveringInv'
           /\ left = 0 /\ reader' = "sending"
           /\ sending'["reader"] = [chan |-> chan, type |-> type, events |-> {e}]
           /\ sending'["main"] = sending["main"]
           /\ subscribed' = subscribed /\ chan' = chan
<1>t. ConnectionTypeOK /\ ReaderTypeOK /\ WaitingInv
  BY TypedGroups DEF Groups
<1>1. chan' = chan /\ subscribed' = subscribed /\ chan' \in 0 .. MaxConnections
  BY <1>t DEF Asks, ConnectionTypeOK
<1>2. BeginSend("reader", type, {e}) /\ reader' = "sending"
  BY DEF Asks
<1>3. /\ sending' \in [{"reader", "main"} ->
                          [chan : 0 .. MaxConnections, type : Sends, events : SUBSET Events]]
      /\ sending'["reader"].type = type /\ sending'["reader"] # NoSend
      /\ sending'["main"] = sending["main"]
  <2>1. {e} \in SUBSET Events /\ type \in Sends /\ type # "none"
    OBVIOUS
  <2> QED
    BY <1>t, <1>1, <1>2, <2>1, BeginSendType
<1>4. sending'["reader"] = [chan |-> chan, type |-> type, events |-> {e}]
  BY <1>t, <1>1, <1>2 DEF BeginSend, ConnectionTypeOK
<1>5. ConnectionTypeOK'
  BY <1>t, <1>1, <1>3 DEF ConnectionTypeOK
<1>6. type \in {"set_subscriptions", "subscribe", "unsubscribe"}
  BY DEF Sends
<1>7. WaitingInv'
  BY <1>t, <1>2, <1>3, <1>6 DEF WaitingInv
<1>8. left = 0
  BY <1>t DEF ReaderTypeOK
<1> QED
  BY <1>1, <1>2, <1>3, <1>4, <1>5, <1>7, <1>8 DEF DeliveringInv

\* A call of ScheduleByID counts its trigger.
LEMMA ScheduleTyped ==
    ASSUME Typed, NEW x \in Triggers, ScheduleByID(x)
    PROVE  Typed'
<1> USE DEF connection, drainVars, mainVars, backend
<1>t. /\ ConnectionTypeOK /\ ReaderTypeOK /\ TablesTypeOK /\ QueueTypeOK
      /\ MainTypeOK /\ BackendTypeOK /\ ControlTypeOK
      /\ WaitingInv /\ CountersInv /\ DeliveringInv
  BY TypedGroups DEF Groups
<1> DEFINE e == EventOf(x)
<1>1. e \in Events
  BY DEF Triggers, EventOf
<1>2. /\ Reading /\ calls < MaxCalls /\ calls' = calls + 1
      /\ filed' = filed \cup {x}
      /\ counters' = [counters EXCEPT ![e] = counters[e] + 1]
      /\ UNCHANGED <<link, rm, left, stale, queue, drainVars, main, backend, abandoned, fault>>
  BY DEF ScheduleByID, Counted
<1>3. \/ /\ FirstOf(e) /\ e \notin subscribed /\ eventChannels[e] = 0
         /\ eventChannels' = [eventChannels EXCEPT ![e] = @ + 1]
         /\ Asks("subscribe", e) /\ UNCHANGED armed
      \/ /\ FirstOf(e) /\ e \notin subscribed /\ eventChannels[e] # 0
         /\ eventChannels' = [eventChannels EXCEPT ![e] = @ + 1]
         /\ subscribed' = subscribed \cup {e} /\ armed' = armed \cup {x}
         /\ UNCHANGED <<sending, reader, chan>>
      \/ /\ armed' = armed \cup {x}
         /\ UNCHANGED <<eventChannels, sending, reader, subscribed, chan>>
  BY DEF ScheduleByID, Subscribe
<1>4. eventChannels' \in [Events -> Nat]
  BY <1>t, <1>1, <1>3 DEF ConnectionTypeOK
<1>5. /\ ConnectionTypeOK' /\ WaitingInv' /\ DeliveringInv' /\ ReaderTypeOK'
      /\ subscribed' \in {subscribed, subscribed \cup {e}}
  <2>1. CASE Asks("subscribe", e)
    <3>1. reader = "reading" /\ link' = link /\ UNCHANGED <<main, rm>>
      BY <1>2 DEF Reading
    <3>2. "subscribe" \in Sends \ {"none"}
      BY DEF Sends
    <3> HIDE DEF e
    <3>3. /\ ConnectionTypeOK' /\ WaitingInv' /\ DeliveringInv'
          /\ left = 0 /\ reader' = "sending" /\ subscribed' = subscribed
      BY <1>1, <1>4, <2>1, <3>1, <3>2, AsksType
    <3> QED
      BY <1>t, <1>2, <3>3 DEF ReaderTypeOK
  <2>2. CASE UNCHANGED <<sending, reader, chan>>
    <3>1. ConnectionTypeOK'
      BY <1>t, <1>2, <1>4, <2>2 DEF ConnectionTypeOK
    <3>2. subscribed' \in {subscribed, subscribed \cup {e}}
      BY <1>3 DEF Asks
    <3> QED
      BY <1>t, <1>2, <2>2, <3>1, <3>2, GroupsUnchanged DEF readerVars
  <2> QED
    BY <1>3, <2>1, <2>2
<1>6. TablesTypeOK'
  <2>1. counters' \in [Events -> Nat]
    BY <1>t, <1>1, <1>2 DEF TablesTypeOK
  <2>2. armed' \subseteq filed' /\ filed' \subseteq Triggers
    BY <1>t, <1>2, <1>3 DEF TablesTypeOK
  <2> QED
    BY <1>t, <1>1, <1>5, <2>1, <2>2 DEF TablesTypeOK
<1>7. CountersInv'
  <2>1. IsFiniteSet(filed')
    BY <1>t, <1>2, FS_AddElement DEF CountersInv
  <2>2. /\ \A d \in Events : Cardinality(Of(filed, d)) \in Nat
        /\ \A d \in Events : d # e => Of(filed', d) = Of(filed, d)
        /\ Cardinality(Of(filed', e)) <= Cardinality(Of(filed, e)) + 1
        /\ Cardinality(Of(filed', e)) \in Nat
    <3>1. filed \subseteq Triggers /\ IsFiniteSet(filed) /\ filed' \subseteq Triggers
      BY <1>t, <1>6 DEF TablesTypeOK, CountersInv
    <3> QED
      BY <1>1, <1>2, <2>1, <3>1, OfSets
  <2>3. ASSUME NEW d \in Events PROVE counters'[d] >= Cardinality(Of(filed', d))
    <3>1. counters[d] \in Nat /\ counters[d] >= Cardinality(Of(filed, d))
      BY <1>t DEF TablesTypeOK, CountersInv
    <3> HIDE DEF e
    <3>2. counters'[d] = IF d = e THEN counters[d] + 1 ELSE counters[d]
      BY <1>t, <1>1, <1>2 DEF TablesTypeOK
    <3> QED
      BY <1>1, <2>2, <3>1, <3>2
  <2> QED
    BY <2>1, <2>3 DEF CountersInv
<1>8. ControlTypeOK'
  <2>1. calls' \in 0 .. MaxCalls
    <3>1. calls \in 0 .. MaxCalls
      BY <1>t DEF ControlTypeOK
    <3> QED
      BY <1>2, <3>1, EventDeliveryAssumption
  <2> QED
    BY <1>t, <1>2, <2>1 DEF ControlTypeOK
<1>9. MainTypeOK'
  <2>1. todo' = todo \/ RangeMeets({e})
    BY DEF ScheduleByID, Subscribe
  <2>2. {e} \in SUBSET Events
    BY <1>1
  <2> HIDE DEF e
  <2> QED
    BY <1>t, <1>2, <2>1, <2>2, RangeMeetsTyped
<1> QED
  BY <1>t, <1>2, <1>5, <1>6, <1>7, <1>8, <1>9, GroupsUnchanged, TypedGroups DEF Groups

\* Unschedule takes one of the triggers it counted.
LEMMA UnscheduleTyped ==
    ASSUME Typed, NEW x \in Triggers, Unschedule(x)
    PROVE  Typed'
<1> USE DEF connection, drainVars, mainVars, backend
<1>t. /\ ConnectionTypeOK /\ ReaderTypeOK /\ TablesTypeOK /\ QueueTypeOK
      /\ MainTypeOK /\ BackendTypeOK /\ ControlTypeOK
      /\ WaitingInv /\ CountersInv /\ DeliveringInv
  BY TypedGroups DEF Groups
<1> DEFINE e == EventOf(x)
<1>1. e \in Events /\ x \in armed /\ x \in filed
  BY <1>t DEF Triggers, EventOf, Unschedule, TablesTypeOK
<1>2. /\ Reading
      /\ filed' = filed \ {x} /\ armed' = armed \ {x}
      /\ UNCHANGED <<link, rm, left, stale, queue, drainVars, mainVars, backend, control>>
  BY DEF Unschedule
<1>c. /\ filed \subseteq Triggers /\ IsFiniteSet(filed)
      /\ counters \in [Events -> Nat]
      /\ \A d \in Events : counters[d] >= Cardinality(Of(filed, d))
  BY <1>t DEF TablesTypeOK, CountersInv
<1>3. /\ IsFiniteSet(filed')
      /\ \A d \in Events : Cardinality(Of(filed, d)) \in Nat /\ Cardinality(Of(filed', d)) \in Nat
      /\ \A d \in Events : d # e => Of(filed', d) = Of(filed, d)
      /\ Cardinality(Of(filed', e)) = Cardinality(Of(filed, e)) - 1
  <2>1. IsFiniteSet(filed') /\ filed' \subseteq Triggers
    BY <1>c, <1>2, FS_RemoveElement
  <2> QED
    BY <1>1, <1>2, <1>c, <2>1, OfSets
<1>4. counters[e] >= 1
  <2> HIDE DEF e
  <2> QED
    BY <1>1, <1>3, <1>c
<1>5. counters' = [counters EXCEPT ![e] = @ - 1]
  <2> HIDE DEF e
  <2>1. counters' = IF LastOf(e) THEN [counters EXCEPT ![e] = 0] ELSE [counters EXCEPT ![e] = @ - 1]
    BY DEF Unschedule, e
  <2>2. LastOf(e) => [counters EXCEPT ![e] = 0] = [counters EXCEPT ![e] = @ - 1]
    <3>1. SUFFICES ASSUME counters[e] = 1
                   PROVE  [counters EXCEPT ![e] = 0] = [counters EXCEPT ![e] = @ - 1]
      BY DEF LastOf
    <3>2. counters[e] - 1 = 0
      BY <3>1
    <3> QED
      BY <3>2
  <2> QED
    BY <2>1, <2>2
<1>6. \/ /\ e \in subscribed /\ eventChannels[e] = 1 /\ LastOf(e)
         /\ eventChannels' = [eventChannels EXCEPT ![e] = 0] /\ Asks("unsubscribe", e)
      \/ /\ eventChannels' = IF e \in subscribed /\ eventChannels[e] > 1
                             THEN [eventChannels EXCEPT ![e] = @ - 1] ELSE eventChannels
         /\ subscribed' = subscribed \ {e}
         /\ UNCHANGED <<sending, reader, chan>>
      \/ UNCHANGED <<eventChannels, sending, reader, subscribed, chan>>
  BY DEF Unschedule, Unsubscribe
<1>7. eventChannels' \in [Events -> Nat]
  BY <1>t, <1>1, <1>6 DEF ConnectionTypeOK
<1>8. /\ ConnectionTypeOK' /\ WaitingInv' /\ DeliveringInv' /\ ReaderTypeOK'
      /\ subscribed' \in {subscribed, subscribed \ {e}}
  <2>1. CASE Asks("unsubscribe", e)
    <3>1. reader = "reading" /\ link' = link /\ UNCHANGED <<main, rm>>
      BY <1>2 DEF Reading
    <3>2. "unsubscribe" \in Sends \ {"none"}
      BY DEF Sends
    <3> HIDE DEF e
    <3>3. /\ ConnectionTypeOK' /\ WaitingInv' /\ DeliveringInv'
          /\ left = 0 /\ reader' = "sending" /\ subscribed' = subscribed
      BY <1>1, <1>7, <2>1, <3>1, <3>2, AsksType
    <3> QED
      BY <1>t, <1>2, <3>3 DEF ReaderTypeOK
  <2>2. CASE UNCHANGED <<sending, reader, chan>>
    <3>1. ConnectionTypeOK'
      BY <1>t, <1>2, <1>7, <2>2 DEF ConnectionTypeOK
    <3>2. subscribed' \in {subscribed, subscribed \ {e}}
      BY <1>6 DEF Asks
    <3> QED
      BY <1>t, <1>2, <2>2, <3>1, <3>2, GroupsUnchanged DEF readerVars
  <2> QED
    BY <1>6, <2>1, <2>2
<1>9. TablesTypeOK'
  <2>1. counters' \in [Events -> Nat]
    <3> HIDE DEF e
    <3> QED
      BY <1>c, <1>1, <1>4, <1>5
  <2> QED
    BY <1>t, <1>1, <1>2, <1>8, <2>1 DEF TablesTypeOK
<1>10. CountersInv'
  <2>1. ASSUME NEW d \in Events PROVE counters'[d] >= Cardinality(Of(filed', d))
    <3> HIDE DEF e
    <3>1. counters'[d] = IF d = e THEN counters[d] - 1 ELSE counters[d]
      BY <1>c, <1>1, <1>5
    <3> QED
      BY <1>1, <1>3, <1>c, <3>1
  <2> QED
    BY <1>3, <2>1 DEF CountersInv
<1> QED
  BY <1>t, <1>2, <1>8, <1>9, <1>10, GroupsUnchanged, TypedGroups DEF Groups

\* Delivering an event, read now or kept in rm.
LEMMA DeliversTyped ==
    ASSUME Typed, reader = "reading", NEW event \in EventRecords, Delivers(event),
           inbox' \in Seq(EventRecords), stale' \in 0 .. MaxStale
    PROVE  Typed'
<1> USE DEF connection, drainVars, mainVars, control, tables
<1>t. /\ ConnectionTypeOK /\ ReaderTypeOK /\ TablesTypeOK /\ QueueTypeOK
      /\ MainTypeOK /\ BackendTypeOK /\ ControlTypeOK
      /\ WaitingInv /\ CountersInv /\ DeliveringInv
  BY TypedGroups DEF Groups
<1>1. event[1] \in Events /\ event # NoEvent
  BY EventDeliveryAssumption DEF EventRecords, NoEvent
<1>2. left' \in Nat /\ rm' = event /\ reader' = IF left' = 0 THEN "reading" ELSE "delivering"
  BY <1>t, <1>1 DEF Delivers, ConnectionTypeOK
<1>3. ReaderTypeOK' /\ DeliveringInv'
  BY <1>1, <1>2 DEF ReaderTypeOK, DeliveringInv
<1>4. WaitingInv'
  BY <1>t, <1>2 DEF Delivers, WaitingInv
<1>5. BackendTypeOK'
  BY <1>t DEF Delivers, BackendTypeOK
<1> QED
  BY <1>t, <1>3, <1>4, <1>5, GroupsUnchanged, TypedGroups DEF Groups, Delivers

\* The reader between its messages.
LEMMA ReaderStepsTyped ==
    ASSUME Typed, ReadEvent \/ ReadFails \/ ReaderEnds \/ Deliver \/ DeliveryTimesOut
    PROVE  Typed'
<1> USE DEF connection, mainVars, backend, control, tables
<1>t. /\ ConnectionTypeOK /\ ReaderTypeOK /\ TablesTypeOK /\ QueueTypeOK
      /\ MainTypeOK /\ BackendTypeOK /\ ControlTypeOK
      /\ WaitingInv /\ CountersInv /\ DeliveringInv
  BY TypedGroups DEF Groups
<1>1. CASE ReadEvent
  <2>1. Head(inbox) \in EventRecords /\ Tail(inbox) \in Seq(EventRecords)
    BY <1>1, <1>t DEF ReadEvent, BackendTypeOK
  <2>2. reader = "reading" /\ Delivers(Head(inbox)) /\ inbox' = Tail(inbox) /\ stale' = stale
    BY <1>1 DEF ReadEvent, Reading
  <2> QED
    BY <1>t, <2>1, <2>2, DeliversTyped DEF ReaderTypeOK
<1>2. CASE ReadFails
  <2>1. rm \in EventRecords
    BY <1>2, <1>t DEF ReadFails, KeepsEvent, ReaderTypeOK
  <2>2. reader = "reading" /\ Delivers(rm) /\ inbox' = inbox /\ stale' = stale + 1 /\ stale < MaxStale
    BY <1>2 DEF ReadFails, KeepsEvent, Reading
  <2>3. inbox' \in Seq(EventRecords) /\ stale' \in 0 .. MaxStale
    BY <1>t, <2>2, EventDeliveryAssumption DEF ReaderTypeOK, BackendTypeOK
  <2> QED
    BY <2>1, <2>2, <2>3, DeliversTyped
<1>3. CASE ReaderEnds
  <2>1. ReaderTypeOK' /\ DeliveringInv'
    BY <1>3, <1>t DEF ReaderEnds, Reading, ReaderTypeOK, DeliveringInv
  <2>2. WaitingInv'
    BY <1>3, <1>t DEF ReaderEnds, Reading, WaitingInv
  <2> QED
    BY <1>3, <1>t, <2>1, <2>2, GroupsUnchanged, TypedGroups DEF Groups, ReaderEnds, drainVars
<1>4. ASSUME ChannelDone
      PROVE  /\ ConnectionTypeOK' /\ ReaderTypeOK' /\ TablesTypeOK' /\ MainTypeOK'
             /\ BackendTypeOK' /\ ControlTypeOK' /\ WaitingInv' /\ CountersInv' /\ DeliveringInv'
             /\ rm[1] \in Events /\ UNCHANGED <<queue, late>>
  <2>1. left > 0 /\ left \in Nat /\ rm # NoEvent /\ rm \in EventRecords
    BY <1>4, <1>t DEF ChannelDone, ReaderTypeOK, DeliveringInv
  <2>2. ReaderTypeOK' /\ DeliveringInv'
    BY <1>4, <1>t, <2>1 DEF ChannelDone, ReaderTypeOK, DeliveringInv
  <2>3. WaitingInv'
    BY <1>4, <1>t DEF ChannelDone, WaitingInv
  <2> QED
    BY <1>4, <1>t, <2>1, <2>2, <2>3, GroupsUnchanged DEF ChannelDone, EventRecords
<1>5. CASE Deliver
  <2>1. QueueTypeOK'
    <3>1. drain' = "dispatch" /\ taken' = rm[1] /\ rm[1] \in Events /\ UNCHANGED <<queue, late>>
      BY <1>4, <1>5 DEF Deliver
    <3>2. taken' # "none"
      BY <3>1, EventDeliveryAssumption
    <3> QED
      BY <1>t, <3>1, <3>2 DEF QueueTypeOK
  <2> QED
    BY <1>4, <1>5, <2>1, TypedGroups DEF Groups, Deliver
<1>6. CASE DeliveryTimesOut
  <2>1. ChannelDone /\ UNCHANGED <<drain, taken>>
    BY <1>6 DEF DeliveryTimesOut
  <2>2. QueueTypeOK'
    BY <1>4, <1>t, <2>1, GroupsUnchanged DEF drainVars
  <2> QED
    BY <1>4, <2>1, <2>2, TypedGroups DEF Groups
<1> QED
  BY <1>1, <1>2, <1>3, <1>5, <1>6

\* A step that only says why the agent died.
LEMMA DiesTyped ==
    ASSUME Typed,
           NEW why \in {"nil queue", "map race", "close of nil channel", "send on closed channel"},
           Dies(why)
    PROVE  Typed'
<1> USE DEF connection, drainVars, mainVars, backend, control, tables
<1>t. /\ ConnectionTypeOK /\ ReaderTypeOK /\ TablesTypeOK /\ QueueTypeOK
      /\ MainTypeOK /\ BackendTypeOK /\ ControlTypeOK
      /\ WaitingInv /\ CountersInv /\ DeliveringInv
  BY TypedGroups DEF Groups
<1>1. ControlTypeOK'
  BY <1>t DEF Dies, ControlTypeOK
<1> QED
  BY <1>t, <1>1, GroupsUnchanged, TypedGroups DEF Groups, Dies, readerVars

\* What drain does leaves everything but its own state alone.
LEMMA DrainTyped ==
    ASSUME Typed, Drain
    PROVE  Typed'
<1> USE DEF connection, mainVars, backend, control, tables
<1>t. /\ ConnectionTypeOK /\ ReaderTypeOK /\ TablesTypeOK /\ QueueTypeOK
      /\ MainTypeOK /\ BackendTypeOK /\ ControlTypeOK
      /\ WaitingInv /\ CountersInv /\ DeliveringInv
  BY TypedGroups DEF Groups
<1>1. ASSUME NEW from, NEW to, Drains(from, to), QueueTypeOK'
      PROVE  Typed'
  BY <1>1, <1>t, GroupsUnchanged, TypedGroups DEF Groups, Drains, readerVars
<1>2. CASE DrainChecks
  <2>1. QueueTypeOK'
    BY <1>2, <1>t DEF DrainChecks, Drains, QueueTypeOK
  <2> QED
    BY <1>1, <1>2, <2>1 DEF DrainChecks
<1>3. CASE DrainReceives
  <2>1. QueueTypeOK'
    BY <1>3, <1>t DEF DrainReceives, Drains, QueueTypeOK
  <2> QED
    BY <1>1, <1>3, <2>1 DEF DrainReceives
<1>4. CASE DrainPanics
  BY <1>4, DiesTyped DEF DrainPanics
<1>5. CASE Dispatch
  <2>1. Drains("dispatch", "check") /\ taken' = "none" /\ late' \in {late, late + 1}
    BY <1>5 DEF Dispatch, GoesOn
  <2>2. QueueTypeOK'
    BY <2>1, <1>t DEF Drains, QueueTypeOK
  <2> QED
    BY <1>1, <2>1, <2>2
<1> QED
  BY <1>2, <1>3, <1>4, <1>5 DEF Drain

\* main on its way out.
LEMMA MainTyped ==
    ASSUME Typed, Interrupt \/ MainStops
    PROVE  Typed'
<1> USE DEF connection, drainVars, backend, control, tables
<1>t. /\ ConnectionTypeOK /\ ReaderTypeOK /\ TablesTypeOK /\ QueueTypeOK
      /\ MainTypeOK /\ BackendTypeOK /\ ControlTypeOK
      /\ WaitingInv /\ CountersInv /\ DeliveringInv
  BY TypedGroups DEF Groups
<1>1. ASSUME NEW from, MainSteps(from), MainTypeOK', WaitingInv', ConnectionTypeOK', QueueTypeOK'
      PROVE  Typed'
  BY <1>1, <1>t, GroupsUnchanged, TypedGroups DEF Groups, MainSteps, readerVars
<1>2. ASSUME NEW from \in {"running", "unsubscribing", "stopClient"}, MainSteps(from),
             main' \in {"unsubscribing", "stopClient", "exited"}, todo' \in SUBSET Events,
             UNCHANGED <<eventChannels, sending>>, queue' \in {"open", "nil"}
      PROVE  Typed'
  <2>1. MainTypeOK'
    BY <1>2 DEF MainTypeOK
  <2>2. WaitingInv'
    BY <1>2, <1>t DEF MainSteps, WaitingInv, readerVars
  <2>3. ConnectionTypeOK'
    BY <1>2, <1>t, GroupsUnchanged DEF MainSteps
  <2>4. QueueTypeOK'
    BY <1>2, <1>t DEF MainSteps, QueueTypeOK
  <2> QED
    BY <1>1, <1>2, <2>1, <2>2, <2>3, <2>4
<1>3. CASE Interrupt
  <2>1. MainSteps("running") /\ main' = "unsubscribing" /\ todo' \in SUBSET Events
        /\ UNCHANGED <<eventChannels, sending, queue>> /\ queue' \in {"open", "nil"}
    BY <1>3, <1>t DEF Interrupt, TablesTypeOK, QueueTypeOK
  <2> QED
    BY <1>2, <2>1
<1>4. CASE QueueDropped
  <2>1. MainSteps("unsubscribing") /\ main' = "stopClient" /\ todo' \in SUBSET Events
        /\ UNCHANGED <<eventChannels, sending>> /\ queue' \in {"open", "nil"}
    BY <1>4, <1>t DEF QueueDropped, QueueOnceStopped, MainTypeOK
  <2> QED
    BY <1>2, <2>1
<1>5. CASE ClientStopped
  <2>1. MainSteps("stopClient") /\ main' = "exited" /\ todo' \in SUBSET Events
        /\ UNCHANGED <<eventChannels, sending>> /\ queue' \in {"open", "nil"}
    BY <1>5, <1>t DEF ClientStopped, MainTypeOK, QueueTypeOK
  <2> QED
    BY <1>2, <2>1
<1>6. CASE ClientStopPanics
  BY <1>6, DiesTyped DEF ClientStopPanics
<1>7. ASSUME NEW e \in Events, UnsubscribeNext(e)
      PROVE  Typed'
  <2>1. /\ MainSteps("unsubscribing") /\ main = "unsubscribing"
        /\ todo' = todo \ {e} /\ UNCHANGED <<queue, chan, link, reader>>
        /\ eventChannels' = [eventChannels EXCEPT ![e] = IF @ = 0 THEN 0 ELSE @ - 1]
    BY <1>7 DEF UnsubscribeNext, LeftAfter, MainSteps, readerVars
  <2>2. eventChannels' \in [Events -> Nat]
    <3>1. eventChannels[e] \in Nat /\ eventChannels \in [Events -> Nat]
      BY <1>t DEF ConnectionTypeOK
    <3>2. (IF eventChannels[e] = 0 THEN 0 ELSE eventChannels[e] - 1) \in Nat
      BY <3>1
    <3> QED
      BY <2>1, <3>1, <3>2
  <2>3. QueueTypeOK'
    BY <2>1, <1>t, GroupsUnchanged DEF MainSteps
  <2>4. CASE eventChannels[e] = 1
    <3>1. BeginSend("main", "unsubscribe", {e}) /\ main' = "sending"
      BY <1>7, <2>4 DEF UnsubscribeNext
    <3>2. chan' \in 0 .. MaxConnections
      BY <2>1, <1>t DEF ConnectionTypeOK
    <3>3. /\ sending' \in [{"reader", "main"} ->
                              [chan : 0 .. MaxConnections, type : Sends, events : SUBSET Events]]
          /\ sending'["main"].type = "unsubscribe" /\ sending'["main"] # NoSend
          /\ sending'["reader"] = sending["reader"]
      <4>1. {e} \in SUBSET Events /\ "unsubscribe" \in Sends
        BY DEF Sends
      <4> QED
        BY <1>t, <3>1, <3>2, <4>1, BeginSendType
    <3>4. ConnectionTypeOK'
      BY <2>1, <2>2, <3>2, <3>3, <1>t DEF ConnectionTypeOK
    <3>5. MainTypeOK'
      BY <2>1, <3>1, <1>t DEF MainTypeOK
    <3>6. WaitingInv'
      BY <2>1, <3>1, <3>3, <1>t DEF WaitingInv
    <3> QED
      BY <1>1, <2>1, <2>3, <3>4, <3>5, <3>6
  <2>5. CASE eventChannels[e] # 1
    <3>1. UNCHANGED <<main, sending>>
      BY <1>7, <2>5 DEF UnsubscribeNext
    <3>2. ConnectionTypeOK'
      BY <2>1, <2>2, <3>1, <1>t DEF ConnectionTypeOK
    <3>3. MainTypeOK'
      BY <2>1, <3>1, <1>t DEF MainTypeOK
    <3>4. WaitingInv'
      BY <2>1, <3>1, <1>t, GroupsUnchanged
    <3> QED
      BY <1>1, <2>1, <2>3, <3>2, <3>3, <3>4
  <2> QED
    BY <2>4, <2>5
<1> QED
  BY <1>3, <1>4, <1>5, <1>6, <1>7 DEF MainStops

\* Every step preserves the types.
LEMMA StepTyped == Typed /\ [Next]_vars => Typed'
<1> SUFFICES ASSUME Typed, [Next]_vars PROVE Typed'
  OBVIOUS
<1>1. CASE Connect \/ ConnectionLost \/ PumpEnds
  BY <1>1, ConnectionStepsTyped
<1>2. CASE Pump
  BY <1>2, PumpTakesTyped DEF Pump
<1>3. CASE ReaderSchedules
  <2>1. CASE ScheduleOnNilQueue
    BY <2>1, DiesTyped DEF ScheduleOnNilQueue
  <2> QED
    BY <1>3, <2>1, ScheduleTyped, UnscheduleTyped DEF ReaderSchedules
<1>4. CASE ReadEvent \/ ReadFails \/ ReaderEnds \/ Deliver \/ DeliveryTimesOut
  BY <1>4, ReaderStepsTyped
<1>5. CASE Drain
  BY <1>5, DrainTyped
<1>6. CASE Interrupt \/ MainStops
  BY <1>6, MainTyped
<1>7. CASE MapRace
  BY <1>7, DiesTyped DEF MapRace
<1>8. ASSUME NEW e \in Events, EventHappens(e)
      PROVE  Typed'
  <2>1. /\ ConnectionTypeOK /\ ReaderTypeOK /\ TablesTypeOK /\ QueueTypeOK
        /\ MainTypeOK /\ BackendTypeOK /\ ControlTypeOK
        /\ WaitingInv /\ CountersInv /\ DeliveringInv
    BY TypedGroups DEF Groups
  <2>2. happened' = happened + 1 /\ happened < MaxEvents /\ inbox' = Append(inbox, <<e, happened'>>)
        /\ serverSubs' = serverSubs
    BY <1>8 DEF EventHappens
  <2>3. happened' \in 1 .. MaxEvents
    BY <2>1, <2>2, EventDeliveryAssumption DEF BackendTypeOK
  <2>4. <<e, happened'>> \in EventRecords
    BY <2>3 DEF EventRecords
  <2>5. inbox' \in Seq(EventRecords)
    BY <2>1, <2>2, <2>4 DEF BackendTypeOK
  <2>6. BackendTypeOK'
    BY <2>1, <2>2, <2>3, <2>5, EventDeliveryAssumption DEF BackendTypeOK
  <2> QED
    BY <1>8, <2>1, <2>6, GroupsUnchanged, TypedGroups
    DEF Groups, EventHappens, connection, readerVars, mainVars, control, tables
<1>9. CASE UNCHANGED vars
  BY <1>9, GroupsUnchanged, TypedGroups
  DEF Groups, vars, connection, readerVars, tables, drainVars, mainVars, backend, control
<1> QED
  BY <1>1, <1>2, <1>3, <1>4, <1>5, <1>6, <1>7, <1>8, <1>9 DEF Next

\* Whatever happens, the fields keep their types, a goroutine waits exactly while
\* it is in a blocking call, and no counter falls below the triggers it counts.
LEMMA TypedInvariant == Spec => []Typed
  BY InitTyped, StepTyped, PTL DEF Spec

\* The type invariant of the tables, the channels and the stop of the agent.
THEOREM TypeCorrect == Spec => []TypeOK
<1>1. Typed => TypeOK
  BY DEF Typed
<1> QED
  BY <1>1, TypedInvariant, PTL

-----------------------------------------------------------------------------
(* One channel for each event *)

\* Nothing is waiting to be sent by a reader that reads.
LEMMA ReadingSendsNothing ==
    ASSUME Typed, Reading
    PROVE  /\ reader = "reading" /\ fault = "none" /\ main # "exited"
           /\ sending["reader"].type = "none" /\ sending["reader"].chan = 0
  BY DEF Typed, WaitingInv, Reading, Alive, NoSend

\* What a call of ScheduleByID changes: it blocks with the first channel of the
\* event, or returns.
LEMMA ScheduleSteps ==
    ASSUME Typed, NEW x \in Triggers, ScheduleByID(x), NEW e, e = EventOf(x)
    PROVE  /\ e \in Events
           /\ Reading
           /\ UNCHANGED <<link, main, serverSubs, abandoned, chan, queue, drain, late>>
           /\ filed' = filed \cup {x}
           /\ counters' = [counters EXCEPT ![e] = @ + 1]
           /\ sending'["main"] = sending["main"]
           /\ \/ /\ counters[e] = 0 /\ e \notin subscribed /\ eventChannels[e] = 0
                 /\ eventChannels' = [eventChannels EXCEPT ![e] = @ + 1]
                 /\ sending'["reader"] = [chan |-> chan, type |-> "subscribe", events |-> {e}]
                 /\ reader' = "sending"
                 /\ UNCHANGED <<armed, subscribed>>
              \/ /\ counters[e] = 0 /\ e \notin subscribed /\ eventChannels[e] # 0
                 /\ eventChannels' = [eventChannels EXCEPT ![e] = @ + 1]
                 /\ subscribed' = subscribed \cup {e} /\ armed' = armed \cup {x}
                 /\ UNCHANGED <<sending, reader>>
              \/ /\ counters[e] = 0 => e \in subscribed
                 /\ armed' = armed \cup {x}
                 /\ UNCHANGED <<eventChannels, sending, reader, subscribed>>
<1>t. ConnectionTypeOK /\ WaitingInv
  BY TypedGroups DEF Groups
<1>1. e \in Events
  BY DEF Triggers, EventOf
<1>2. /\ Reading /\ filed' = filed \cup {x}
      /\ counters' = [counters EXCEPT ![e] = @ + 1]
      /\ UNCHANGED <<link, main, serverSubs, abandoned, queue, drain, late>>
  BY DEF ScheduleByID, Counted, mainVars, backend, drainVars
<1>3. \/ /\ counters[e] = 0 /\ e \notin subscribed /\ eventChannels[e] = 0
         /\ eventChannels' = [eventChannels EXCEPT ![e] = @ + 1]
         /\ Asks("subscribe", e) /\ UNCHANGED armed
      \/ /\ counters[e] = 0 /\ e \notin subscribed /\ eventChannels[e] # 0
         /\ eventChannels' = [eventChannels EXCEPT ![e] = @ + 1]
         /\ subscribed' = subscribed \cup {e} /\ armed' = armed \cup {x}
         /\ UNCHANGED <<sending, reader, chan>>
      \/ /\ counters[e] = 0 => e \in subscribed
         /\ armed' = armed \cup {x}
         /\ UNCHANGED <<eventChannels, sending, reader, subscribed, chan>>
  BY DEF ScheduleByID, Subscribe, FirstOf
<1>4. ASSUME Asks("subscribe", e)
      PROVE  /\ sending'["reader"] = [chan |-> chan, type |-> "subscribe", events |-> {e}]
             /\ sending'["main"] = sending["main"] /\ reader' = "sending"
             /\ UNCHANGED <<subscribed, chan>>
  BY <1>4, <1>t DEF Asks, BeginSend, ConnectionTypeOK
<1> QED
  BY <1>1, <1>2, <1>3, <1>4

\* What Unschedule changes: it blocks with the last channel of the event, or returns.
LEMMA UnscheduleSteps ==
    ASSUME Typed, NEW x \in Triggers, Unschedule(x), NEW e, e = EventOf(x)
    PROVE  /\ e \in Events /\ x \in armed /\ x \in filed
           /\ Reading
           /\ UNCHANGED <<link, main, serverSubs, abandoned, chan, queue, drain, late>>
           /\ filed' = filed \ {x} /\ armed' = armed \ {x}
           /\ \A d \in Events \ {e} : counters'[d] = counters[d]
           /\ sending'["main"] = sending["main"]
           /\ \/ /\ counters[e] = 1 /\ counters'[e] = 0
                 /\ e \in subscribed /\ eventChannels[e] = 1
                 /\ eventChannels' = [eventChannels EXCEPT ![e] = 0]
                 /\ sending'["reader"] = [chan |-> chan, type |-> "unsubscribe", events |-> {e}]
                 /\ reader' = "sending"
                 /\ UNCHANGED subscribed
              \/ /\ counters[e] = 1 /\ counters'[e] = 0
                 /\ ~(e \in subscribed /\ eventChannels[e] = 1)
                 /\ eventChannels' = IF e \in subscribed /\ eventChannels[e] > 1
                                     THEN [eventChannels EXCEPT ![e] = @ - 1] ELSE eventChannels
                 /\ subscribed' = subscribed \ {e}
                 /\ UNCHANGED <<sending, reader>>
              \/ /\ counters[e] # 1 /\ counters'[e] = counters[e] - 1
                 /\ UNCHANGED <<eventChannels, sending, reader, subscribed>>
<1>t. ConnectionTypeOK /\ WaitingInv /\ TablesTypeOK
  BY TypedGroups DEF Groups
<1>1. e \in Events /\ x \in armed /\ x \in filed
  BY <1>t DEF Triggers, EventOf, Unschedule, TablesTypeOK
<1>2. /\ Reading /\ filed' = filed \ {x} /\ armed' = armed \ {x}
      /\ UNCHANGED <<link, main, serverSubs, abandoned, queue, drain, late>>
  BY DEF Unschedule, mainVars, backend, drainVars, control
<1>3. \/ /\ counters[e] = 1 /\ counters' = [counters EXCEPT ![e] = 0]
         /\ e \in subscribed /\ eventChannels[e] = 1
         /\ eventChannels' = [eventChannels EXCEPT ![e] = 0]
         /\ Asks("unsubscribe", e)
      \/ /\ counters[e] = 1 /\ counters' = [counters EXCEPT ![e] = 0]
         /\ ~(e \in subscribed /\ eventChannels[e] = 1)
         /\ eventChannels' = IF e \in subscribed /\ eventChannels[e] > 1
                             THEN [eventChannels EXCEPT ![e] = @ - 1] ELSE eventChannels
         /\ subscribed' = subscribed \ {e}
         /\ UNCHANGED <<sending, reader, chan>>
      \/ /\ counters[e] # 1 /\ counters' = [counters EXCEPT ![e] = @ - 1]
         /\ UNCHANGED <<eventChannels, sending, reader, subscribed, chan>>
  BY DEF Unschedule, Unsubscribe, LastOf
<1>4. ASSUME Asks("unsubscribe", e)
      PROVE  /\ sending'["reader"] = [chan |-> chan, type |-> "unsubscribe", events |-> {e}]
             /\ sending'["main"] = sending["main"] /\ reader' = "sending"
             /\ UNCHANGED <<subscribed, chan>>
  BY <1>4, <1>t DEF Asks, BeginSend, ConnectionTypeOK
<1>5. counters \in [Events -> Nat]
  BY <1>t DEF TablesTypeOK
<1>6. /\ \A d \in Events \ {e} : counters'[d] = counters[d]
      /\ counters[e] = 1 => counters'[e] = 0
      /\ counters[e] # 1 => counters'[e] = counters[e] - 1
  BY <1>1, <1>3, <1>5
<1> QED
  BY <1>1, <1>2, <1>3, <1>4, <1>6

\* What ReaderGoesOn changes, by the message it waited with.
LEMMA PumpTakesReaderSteps ==
    ASSUME Typed, PumpTakes("reader")
    PROVE  /\ UNCHANGED <<link, chan, eventChannels, filed, counters, main, abandoned, queue, drain,
                          late>>
           /\ link \in {"up", "lost"} /\ sending["reader"].chan = chan
           /\ reader = "sending" /\ reader' = "reading"
           /\ sending'["reader"].type = "none" /\ sending'["main"] = sending["main"]
           /\ serverSubs' = IF link = "up" THEN Told(sending["reader"]) ELSE serverSubs
           /\ sending["reader"].events \subseteq Events
           /\ \/ /\ sending["reader"].type = "set_subscriptions"
                 /\ UNCHANGED <<armed, subscribed>>
              \/ /\ sending["reader"].type = "subscribe"
                 /\ subscribed' = subscribed \cup sending["reader"].events
                 /\ armed' = armed \cup {x \in filed : EventOf(x) \in sending["reader"].events}
              \/ /\ sending["reader"].type = "unsubscribe"
                 /\ subscribed' = subscribed \ sending["reader"].events
                 /\ UNCHANGED armed
<1>t. ConnectionTypeOK /\ WaitingInv
  BY TypedGroups DEF Groups
<1>1. /\ sending["reader"] # NoSend
      /\ UNCHANGED <<link, chan, eventChannels, filed, counters, main, abandoned, queue, drain, late>>
  BY DEF PumpTakes, ReaderGoesOn, connection, mainVars, control, drainVars, NoSend
<1>2. /\ reader = "sending"
      /\ sending["reader"].type \in {"set_subscriptions", "subscribe", "unsubscribe"}
  BY <1>t, <1>1 DEF WaitingInv
<1>3. /\ sending["reader"].events \subseteq Events
      /\ sending'["reader"].type = "none" /\ sending'["main"] = sending["main"]
  BY <1>t DEF ConnectionTypeOK, PumpTakes, NoSend
<1>4. /\ reader' = "reading"
      /\ subscribed' = CASE sending["reader"].type = "subscribe" -> subscribed \cup sending["reader"].events
                         [] sending["reader"].type = "unsubscribe" -> subscribed \ sending["reader"].events
                         [] OTHER -> subscribed
      /\ armed' = IF sending["reader"].type = "subscribe"
                  THEN armed \cup {x \in filed : EventOf(x) \in sending["reader"].events} ELSE armed
      /\ link \in {"up", "lost"} /\ sending["reader"].chan = chan
      /\ serverSubs' = IF link = "up" THEN Told(sending["reader"]) ELSE serverSubs
  BY DEF PumpTakes, ReaderGoesOn
<1> QED
  BY <1>1, <1>2, <1>3, <1>4

\* The steps that tell the backend nothing and schedule nothing.
Quiet ==
    /\ UNCHANGED <<connection, eventChannels, sending, tables, serverSubs, abandoned>>
    /\ main' = "running" => main = "running"
    /\ \/ UNCHANGED reader \/ reader' \in {"reading", "delivering"}
       \/ link # "up" /\ reader' = "done"

\* The other steps are quiet: they change no subscription and leave a reader that
\* is at its connection there.
LEMMA Steps ==
    [Next]_vars => \/ Quiet
                   \/ Connect \/ ConnectionLost \/ PumpEnds
                   \/ PumpTakes("reader") \/ PumpTakes("main")
                   \/ \E x \in Triggers : ScheduleByID(x) \/ Unschedule(x)
                   \/ \E e \in Events : UnsubscribeNext(e)
<1> USE DEF connection, tables, backend, control, mainVars, readerVars
<1>1. ASSUME NEW why, Dies(why) PROVE Quiet
  BY <1>1 DEF Dies, Quiet
<1>2. ReadEvent \/ ReadFails \/ ReaderEnds \/ Deliver \/ DeliveryTimesOut => Quiet
  BY DEF Quiet, ReadEvent, ReadFails, Delivers, ReaderEnds, Deliver, DeliveryTimesOut, ChannelDone
<1>3. Drain => Quiet
  BY <1>1 DEF Quiet, Drain, DrainChecks, DrainReceives, DrainPanics, Dispatch, Drains
<1>4. Interrupt \/ QueueDropped \/ ClientStopped => Quiet
  BY DEF Quiet, Interrupt, QueueDropped, ClientStopped, MainSteps
<1>5. ClientStopPanics \/ MapRace \/ ScheduleOnNilQueue => Quiet
  BY <1>1 DEF ClientStopPanics, MapRace, ScheduleOnNilQueue
<1>6. (\E e \in Events : EventHappens(e)) => Quiet
  BY DEF EventHappens, Quiet
<1>7. UNCHANGED vars => Quiet
  BY DEF vars, Quiet
<1> QED
  BY <1>2, <1>3, <1>4, <1>5, <1>6, <1>7 DEF Next, Pump, ReaderSchedules, MainStops

\* A first trigger finds no channel left by an earlier one, and the last trigger
\* of an event with a channel is one the queue is subscribed for.
LEMMA StepChannelsInv == Typed /\ ChannelsInv /\ [Next]_vars => ChannelsInv'
<1> SUFFICES ASSUME Typed, ChannelsInv, [Next]_vars PROVE ChannelsInv'
  OBVIOUS
<1>t. /\ ConnectionTypeOK /\ TablesTypeOK /\ WaitingInv /\ CountersInv
      /\ TablesTypeOK' /\ CountersInv'
  BY StepTyped, TypedGroups DEF Groups
<1>n. /\ \A e \in Events : counters[e] \in Nat /\ eventChannels[e] \in Nat
      /\ eventChannels \in [Events -> Nat] /\ counters \in [Events -> Nat]
      /\ \A e \in Events : /\ Cardinality(Of(armed, e)) \in Nat
                           /\ Cardinality(Of(armed, e)) <= Cardinality(Of(filed, e))
                           /\ Cardinality(Of(filed, e)) \in Nat
                           /\ counters[e] >= Cardinality(Of(filed, e))
                           /\ Cardinality(Of(armed', e)) \in Nat
  <2>1. armed \subseteq filed /\ filed \subseteq Triggers /\ IsFiniteSet(filed)
    BY <1>t DEF TablesTypeOK, CountersInv
  <2>2. armed' \subseteq filed' /\ filed' \subseteq Triggers /\ IsFiniteSet(filed')
    BY <1>t DEF TablesTypeOK, CountersInv
  <2>3. ASSUME NEW e \in Events
        PROVE  /\ Cardinality(Of(armed, e)) \in Nat /\ Cardinality(Of(filed, e)) \in Nat
               /\ Cardinality(Of(armed, e)) <= Cardinality(Of(filed, e))
               /\ Cardinality(Of(armed', e)) \in Nat
    BY <2>1, <2>2, OfMonotone
  <2> QED
    BY <1>t, <2>3 DEF ConnectionTypeOK, TablesTypeOK, CountersInv
<1>i. /\ \A e \in Events : eventChannels[e] <= 1
      /\ \A e \in Events : eventChannels[e] = 1 /\ e \notin subscribed =>
             counters[e] >= Cardinality(Of(armed, e)) + 1
      /\ sending["reader"].type = "unsubscribe" =>
             \A e \in sending["reader"].events : eventChannels[e] = 0
  BY DEF ChannelsInv
<1>a. ASSUME NEW x \in Triggers
      PROVE  /\ \A e \in Events \ {EventOf(x)} :
                    Of(armed \cup {x}, e) = Of(armed, e) /\ Of(armed \ {x}, e) = Of(armed, e)
             /\ Cardinality(Of(armed \cup {x}, EventOf(x))) <= Cardinality(Of(armed, EventOf(x))) + 1
             /\ x \in armed => Cardinality(Of(armed \ {x}, EventOf(x))) = Cardinality(Of(armed, EventOf(x))) - 1
  <2>1. armed \subseteq Triggers /\ IsFiniteSet(armed)
    BY <1>t, FS_Subset DEF TablesTypeOK, CountersInv
  <2> QED
    BY <2>1, OfSets
<1>1. CASE Quiet
  <2>1. UNCHANGED <<eventChannels, sending, counters, subscribed, armed>>
    BY <1>1 DEF Quiet, tables
  <2> QED
    BY <2>1, <1>i DEF ChannelsInv, Of
<1>2. CASE Connect
  <2>1. UNCHANGED <<eventChannels, counters, subscribed, armed>>
    BY <1>2 DEF Connect, tables
  <2>2. sending'["reader"].type = "set_subscriptions"
    BY <1>2, <1>t DEF Connect, BeginSend, ConnectionTypeOK
  <2> QED
    BY <2>1, <2>2, <1>i DEF ChannelsInv, Of
<1>3. CASE ConnectionLost \/ PumpEnds
  <2>1. UNCHANGED <<eventChannels, sending, counters, subscribed, armed>>
    BY <1>3 DEF ConnectionLost, PumpEnds, LinkChanges, tables
  <2> QED
    BY <2>1, <1>i DEF ChannelsInv, Of
<1>4. CASE PumpTakes("main")
  <2>1. UNCHANGED <<eventChannels, counters, subscribed, armed>> /\ sending'["reader"] = sending["reader"]
    BY <1>4, <1>t DEF PumpTakes, MainGoesOn, tables, ConnectionTypeOK
  <2> QED
    BY <2>1, <1>i DEF ChannelsInv, Of
<1>5. CASE PumpTakes("reader")
  <2> DEFINE m == sending["reader"]
  <2>1. /\ UNCHANGED <<eventChannels, counters>> /\ sending'["reader"].type = "none"
        /\ \/ UNCHANGED <<armed, subscribed>>
           \/ /\ subscribed' = subscribed \cup m.events
              /\ armed' = armed \cup {x \in filed : EventOf(x) \in m.events}
           \/ /\ m.type = "unsubscribe" /\ subscribed' = subscribed \ m.events /\ UNCHANGED armed
    BY <1>5, PumpTakesReaderSteps
  <2>2. ASSUME NEW e \in Events, eventChannels'[e] = 1, e \notin subscribed'
        PROVE  counters'[e] >= Cardinality(Of(armed', e)) + 1
    <3>1. e \notin subscribed
      BY <2>1, <2>2, <1>i
    <3>2. Of(armed', e) = Of(armed, e)
      BY <2>1, <2>2 DEF Of
    <3> QED
      BY <2>1, <2>2, <3>1, <3>2, <1>i
  <2> QED
    BY <2>1, <2>2, <1>i DEF ChannelsInv
<1>6. ASSUME NEW x \in Triggers, ScheduleByID(x)
      PROVE  ChannelsInv'
  <2>0. PICK e : e = EventOf(x)
    OBVIOUS
  <2>1. /\ e \in Events /\ sending["reader"].type = "none"
        /\ counters' = [counters EXCEPT ![e] = @ + 1]
        /\ \/ /\ counters[e] = 0 /\ e \notin subscribed /\ eventChannels[e] = 0
              /\ eventChannels' = [eventChannels EXCEPT ![e] = @ + 1]
              /\ sending'["reader"].type = "subscribe"
              /\ UNCHANGED <<armed, subscribed>>
           \/ /\ counters[e] = 0 /\ e \notin subscribed /\ eventChannels[e] # 0
           \/ /\ armed' = armed \cup {x}
              /\ UNCHANGED <<eventChannels, sending, subscribed>>
    <3>1. Reading /\ sending["reader"].type = "none"
      BY <1>6, <2>0, ScheduleSteps, ReadingSendsNothing
    <3>2. \A m : m = [chan |-> chan, type |-> "subscribe", events |-> {e}] => m.type = "subscribe"
      OBVIOUS
    <3> QED
      BY <1>6, <2>0, <3>1, <3>2, ScheduleSteps
  <2>2. ~(counters[e] = 0 /\ e \notin subscribed /\ eventChannels[e] # 0)
    BY <2>1, <1>i, <1>n
  <2>3. CASE UNCHANGED <<armed, subscribed>> /\ sending'["reader"].type = "subscribe"
             /\ counters[e] = 0 /\ eventChannels[e] = 0
             /\ eventChannels' = [eventChannels EXCEPT ![e] = @ + 1]
    <3>1. ASSUME NEW d \in Events
          PROVE  /\ eventChannels'[d] <= 1
                 /\ eventChannels'[d] = 1 /\ d \notin subscribed' =>
                        counters'[d] >= Cardinality(Of(armed', d)) + 1
      <4>1. Of(armed', d) = Of(armed, d)
        BY <2>3
      <4>2. CASE d = e
        <5>1. eventChannels'[d] = 1 /\ counters'[d] = 1
          BY <2>1, <2>3, <1>n, <4>2
        <5>2. Cardinality(Of(armed, d)) = 0
          BY <2>3, <1>n, <4>2
        <5> QED
          BY <4>1, <5>1, <5>2
      <4>3. CASE d # e
        <5>1. eventChannels'[d] = eventChannels[d] /\ counters'[d] = counters[d]
          BY <2>1, <2>3, <1>n, <4>3
        <5> QED
          BY <2>3, <4>1, <5>1, <1>i
      <4> QED
        BY <4>2, <4>3
    <3> QED
      BY <2>3, <3>1 DEF ChannelsInv
  <2>4. CASE armed' = armed \cup {x} /\ UNCHANGED <<eventChannels, sending, subscribed>>
    <3>1. ASSUME NEW d \in Events, eventChannels'[d] = 1, d \notin subscribed'
          PROVE  counters'[d] >= Cardinality(Of(armed', d)) + 1
      <4>1. counters[d] >= Cardinality(Of(armed, d)) + 1
        BY <2>4, <3>1, <1>i
      <4>2. CASE d = e
        <5>1. counters'[d] = counters[d] + 1
          BY <2>1, <1>n, <4>2
        <5>2. Cardinality(Of(armed', d)) <= Cardinality(Of(armed, d)) + 1
          BY <2>0, <2>4, <4>2, <1>a
        <5> QED
          BY <4>1, <5>1, <5>2, <1>n
      <4>3. CASE d # e
        <5>1. counters'[d] = counters[d]
          BY <2>1, <1>n, <4>3
        <5>2. Of(armed', d) = Of(armed, d)
          BY <2>0, <2>4, <4>3, <1>a
        <5> QED
          BY <4>1, <5>1, <5>2
      <4> QED
        BY <4>2, <4>3
    <3> QED
      BY <2>1, <2>4, <3>1, <1>i DEF ChannelsInv
  <2> QED
    BY <2>1, <2>2, <2>3, <2>4
<1>7. ASSUME NEW x \in Triggers, Unschedule(x)
      PROVE  ChannelsInv'
  <2>0. PICK e : e = EventOf(x)
    OBVIOUS
  <2>1. /\ e \in Events /\ x \in armed /\ sending["reader"].type = "none"
        /\ armed' = armed \ {x}
        /\ \A d \in Events \ {e} : counters'[d] = counters[d]
        /\ \/ /\ eventChannels' = [eventChannels EXCEPT ![e] = 0]
              /\ sending'["reader"] = [chan |-> chan, type |-> "unsubscribe", events |-> {e}]
              /\ UNCHANGED subscribed
           \/ /\ counters[e] = 1 /\ ~(e \in subscribed /\ eventChannels[e] = 1)
              /\ eventChannels' = IF e \in subscribed /\ eventChannels[e] > 1
                                  THEN [eventChannels EXCEPT ![e] = @ - 1] ELSE eventChannels
              /\ subscribed' = subscribed \ {e}
              /\ UNCHANGED sending
           \/ /\ counters[e] # 1 /\ counters'[e] = counters[e] - 1
              /\ UNCHANGED <<eventChannels, sending, subscribed>>
    BY <1>7, <2>0, UnscheduleSteps, ReadingSendsNothing
  <2>2. /\ Cardinality(Of(armed', e)) = Cardinality(Of(armed, e)) - 1
        /\ \A d \in Events \ {e} : Of(armed', d) = Of(armed, d)
    BY <2>0, <2>1, <1>a
  <2>3. CASE /\ eventChannels' = [eventChannels EXCEPT ![e] = 0]
             /\ sending'["reader"] = [chan |-> chan, type |-> "unsubscribe", events |-> {e}]
             /\ UNCHANGED subscribed
    <3>1. eventChannels'[e] = 0 /\ \A d \in Events \ {e} : eventChannels'[d] = eventChannels[d]
      BY <2>1, <2>3, <1>n
    <3>2. sending'["reader"].events = {e}
      BY <2>3
    <3>3. \A d \in Events : eventChannels'[d] <= 1
      BY <2>1, <3>1, <1>i
    <3>4. ASSUME NEW d \in Events, eventChannels'[d] = 1, d \notin subscribed'
          PROVE  counters'[d] >= Cardinality(Of(armed', d)) + 1
      <4>1. d # e /\ d \in Events \ {e} /\ eventChannels[d] = 1 /\ d \notin subscribed
        BY <2>3, <3>1, <3>4
      <4>2. counters'[d] = counters[d] /\ Of(armed', d) = Of(armed, d)
        BY <2>1, <2>2, <4>1
      <4> QED
        BY <4>1, <4>2, <1>i
    <3> QED
      BY <3>1, <3>2, <3>3, <3>4 DEF ChannelsInv
  <2>4. CASE /\ counters[e] = 1 /\ ~(e \in subscribed /\ eventChannels[e] = 1)
             /\ eventChannels' = IF e \in subscribed /\ eventChannels[e] > 1
                                 THEN [eventChannels EXCEPT ![e] = @ - 1] ELSE eventChannels
             /\ subscribed' = subscribed \ {e}
             /\ UNCHANGED sending
    <3>1. eventChannels[e] = 0
      <4>1. Cardinality(Of(armed, e)) >= 1
        <5>1. Cardinality(Of(armed, e)) \in Nat /\ Cardinality(Of(armed', e)) \in Nat
          BY <2>1, <1>n
        <5> QED
          BY <2>2, <5>1
      <4>2. ~(eventChannels[e] = 1 /\ e \notin subscribed)
        BY <2>1, <2>4, <4>1, <1>i, <1>n
      <4>3. eventChannels[e] <= 1 /\ eventChannels[e] \in Nat
        BY <2>1, <1>i, <1>n
      <4> QED
        BY <2>4, <4>2, <4>3
    <3>2. eventChannels' = eventChannels
      BY <2>4, <3>1
    <3>3. ASSUME NEW d \in Events, eventChannels'[d] = 1, d \notin subscribed'
          PROVE  counters'[d] >= Cardinality(Of(armed', d)) + 1
      <4>1. d # e /\ d \notin subscribed
        BY <2>4, <3>1, <3>2, <3>3
      <4> QED
        BY <2>1, <2>2, <3>2, <3>3, <4>1, <1>i
    <3> QED
      BY <2>1, <2>4, <3>2, <3>3, <1>i DEF ChannelsInv
  <2>5. CASE /\ counters[e] # 1 /\ counters'[e] = counters[e] - 1
             /\ UNCHANGED <<eventChannels, sending, subscribed>>
    <3>1. ASSUME NEW d \in Events, eventChannels'[d] = 1, d \notin subscribed'
          PROVE  counters'[d] >= Cardinality(Of(armed', d)) + 1
      <4>1. counters[d] >= Cardinality(Of(armed, d)) + 1
        BY <2>5, <3>1, <1>i
      <4> QED
        <5>1. CASE d = e
          <6>1. counters[e] \in Nat /\ Cardinality(Of(armed, e)) \in Nat
            BY <2>1, <1>n
          <6> QED
            BY <2>2, <2>5, <4>1, <5>1, <6>1
        <5>2. CASE d # e
          <6>1. counters'[d] = counters[d] /\ Of(armed', d) = Of(armed, d)
            BY <2>1, <2>2, <5>2
          <6> QED
            BY <4>1, <6>1
        <5> QED
          BY <5>1, <5>2
    <3> QED
      BY <2>1, <2>5, <3>1, <1>i DEF ChannelsInv
  <2> QED
    BY <2>1, <2>3, <2>4, <2>5
<1>8. ASSUME NEW e \in Events, UnsubscribeNext(e)
      PROVE  ChannelsInv'
  <2>1. /\ UNCHANGED <<counters, subscribed, armed>>
        /\ eventChannels' = [eventChannels EXCEPT ![e] = IF @ = 0 THEN 0 ELSE @ - 1]
        /\ sending'["reader"] = sending["reader"]
    BY <1>8, <1>t DEF UnsubscribeNext, MainSteps, tables, BeginSend, ConnectionTypeOK
  <2>2. eventChannels[e] \in {0, 1}
    BY <1>i, <1>n
  <2>3. eventChannels'[e] = 0 /\ \A d \in Events \ {e} : eventChannels'[d] = eventChannels[d]
    BY <2>1, <2>2, <1>n
  <2>4. \A d \in Events : eventChannels'[d] <= 1 /\ (eventChannels'[d] = 1 => eventChannels[d] = 1)
    BY <2>3, <1>i
  <2>5. \A d \in Events : Of(armed', d) = Of(armed, d)
    BY <2>1
  <2>6. ASSUME sending'["reader"].type = "unsubscribe", NEW d \in sending'["reader"].events
        PROVE  eventChannels'[d] = 0
    <3>1. d \in Events /\ eventChannels[d] = 0
      BY <2>1, <2>6, <1>i, <1>t DEF ConnectionTypeOK
    <3> QED
      BY <2>3, <3>1
  <2> QED
    BY <2>1, <2>4, <2>5, <2>6, <1>i DEF ChannelsInv
<1> QED
  BY <1>1, <1>2, <1>3, <1>4, <1>5, <1>6, <1>7, <1>8, Steps

\* The channels of the events are as the tables and the messages say.
LEMMA ChannelsInvariant == Spec => []ChannelsInv
<1>1. Init => ChannelsInv
  BY DEF Init, ChannelsInv, NoSend
<1> QED
  BY <1>1, TypedInvariant, StepChannelsInv, PTL DEF Spec

\* addEventChannel is only called where the queue has no channel of the event,
\* also after calls that were cut off by a lost connection.
THEOREM OneChannelPerEventHolds == Spec => []OneChannelPerEvent
<1>1. ChannelsInv => OneChannelPerEvent
  BY DEF ChannelsInv, OneChannelPerEvent
<1> QED
  BY <1>1, ChannelsInvariant, PTL

-----------------------------------------------------------------------------
(* The subscriptions the backend keeps *)

\* A reader that waits does so on the channel of the connection that is there.
LEMMA StepLinkInv == Typed /\ LinkInv /\ [Next]_vars => LinkInv'
<1> SUFFICES ASSUME Typed, LinkInv, [Next]_vars PROVE LinkInv'
  OBVIOUS
<1>t. ConnectionTypeOK
  BY TypedGroups DEF Groups
<1>1. CASE Quiet
  BY <1>1 DEF Quiet, LinkInv, connection
<1>2. CASE Connect
  BY <1>2, <1>t DEF Connect, LinkInv, BeginSend, ConnectionTypeOK
<1>3. CASE ConnectionLost \/ PumpEnds
  BY <1>3 DEF ConnectionLost, PumpEnds, LinkChanges, LinkInv, readerVars
<1>4. CASE PumpTakes("main")
  BY <1>4, <1>t DEF PumpTakes, MainGoesOn, LinkInv, connection, readerVars, ConnectionTypeOK
<1>5. CASE PumpTakes("reader")
  BY <1>5, PumpTakesReaderSteps DEF LinkInv
<1>6. ASSUME NEW x \in Triggers, ScheduleByID(x) \/ Unschedule(x)
      PROVE  LinkInv'
  <2>1. /\ reader = "reading" /\ UNCHANGED <<link, chan>>
        /\ \/ UNCHANGED reader
           \/ reader' = "sending" /\ \E m : sending'["reader"] = m /\ m.chan = chan
    <3>1. PICK e : e = EventOf(x)
      OBVIOUS
    <3>2. \A type, es : [chan |-> chan, type |-> type, events |-> es].chan = chan
      OBVIOUS
    <3>3. ScheduleByID(x) => reader = "reading" /\ UNCHANGED <<link, chan>>
          /\ (\/ UNCHANGED reader
              \/ /\ reader' = "sending"
                 /\ sending'["reader"] = [chan |-> chan, type |-> "subscribe", events |-> {e}])
      BY <3>1, ScheduleSteps, ReadingSendsNothing
    <3>4. Unschedule(x) => reader = "reading" /\ UNCHANGED <<link, chan>>
          /\ (\/ UNCHANGED reader
              \/ /\ reader' = "sending"
                 /\ sending'["reader"] = [chan |-> chan, type |-> "unsubscribe", events |-> {e}])
      BY <3>1, UnscheduleSteps, ReadingSendsNothing
    <3> QED
      BY <1>6, <3>2, <3>3, <3>4
  <2> QED
    BY <2>1 DEF LinkInv
<1>7. ASSUME NEW e \in Events, UnsubscribeNext(e)
      PROVE  LinkInv'
  <2>1. UNCHANGED <<link, chan, reader>> /\ sending'["reader"] = sending["reader"]
    BY <1>7, <1>t DEF UnsubscribeNext, MainSteps, connection, readerVars, BeginSend, ConnectionTypeOK
  <2> QED
    BY <2>1 DEF LinkInv
<1> QED
  BY <1>1, <1>2, <1>3, <1>4, <1>5, <1>6, <1>7, Steps

\* Over a connection that is up the backend is told every change of the channels.
LEMMA StepBackendInv == Typed /\ BackendInv /\ [Next]_vars => BackendInv'
<1> SUFFICES ASSUME Typed, BackendInv, [Next]_vars, link' = "up", main' = "running"
             PROVE  LET m == sending'["reader"] IN
                    CASE m.type = "set_subscriptions" -> m.events = Channels'
                      [] m.type = "subscribe" -> serverSubs' \cup m.events = Channels'
                      [] m.type = "unsubscribe" -> serverSubs' \ m.events = Channels'
                      [] OTHER -> serverSubs' = Channels'
  BY DEF BackendInv
<1>t. /\ ConnectionTypeOK /\ BackendTypeOK
      /\ \A e \in Events : eventChannels[e] \in Nat
      /\ eventChannels \in [Events -> Nat] /\ serverSubs \subseteq Events
  BY TypedGroups DEF Groups, ConnectionTypeOK, BackendTypeOK
<1>i. ASSUME link = "up", main = "running"
      PROVE  LET m == sending["reader"] IN
             /\ m.type = "set_subscriptions" => m.events = Channels
             /\ m.type = "subscribe" => serverSubs \cup m.events = Channels
             /\ m.type = "unsubscribe" => serverSubs \ m.events = Channels
             /\ m.type = "none" => serverSubs = Channels
  BY <1>i DEF BackendInv
<1>1. CASE Quiet
  <2>1. UNCHANGED <<link, sending, serverSubs, eventChannels>> /\ main = "running"
    BY <1>1 DEF Quiet, connection
  <2> QED
    BY <2>1 DEF BackendInv, Channels
<1>2. CASE Connect
  <2>1. sending'["reader"].type = "set_subscriptions"
        /\ sending'["reader"].events = {e \in Events : eventChannels[e] > 0}
        /\ eventChannels' = eventChannels
    BY <1>2, <1>t DEF Connect, BeginSend, ConnectionTypeOK
  <2> QED
    BY <2>1 DEF Channels
<1>3. CASE ConnectionLost \/ PumpEnds
  BY <1>3 DEF ConnectionLost, PumpEnds, LinkChanges
<1>4. CASE PumpTakes("main")
  BY <1>4 DEF PumpTakes, MainGoesOn
<1>5. CASE PumpTakes("reader")
  <2>1. /\ link = "up" /\ main = "running" /\ eventChannels' = eventChannels
        /\ sending'["reader"].type = "none"
        /\ serverSubs' = Told(sending["reader"])
        /\ sending["reader"].type \in {"set_subscriptions", "subscribe", "unsubscribe"}
    BY <1>5, PumpTakesReaderSteps
  <2>2. serverSubs' = Channels
    BY <2>1, <1>i DEF Told
  <2> QED
    BY <2>1, <2>2 DEF Channels
<1>6. ASSUME NEW x \in Triggers, ScheduleByID(x)
      PROVE  LET m == sending'["reader"] IN
             CASE m.type = "set_subscriptions" -> m.events = Channels'
               [] m.type = "subscribe" -> serverSubs' \cup m.events = Channels'
               [] m.type = "unsubscribe" -> serverSubs' \ m.events = Channels'
               [] OTHER -> serverSubs' = Channels'
  <2>0. PICK e : e = EventOf(x)
    OBVIOUS
  <2>1. Reading /\ sending["reader"].type = "none" /\ link = "up" /\ main = "running"
    BY <1>6, <2>0, ScheduleSteps, ReadingSendsNothing
  <2>2. serverSubs = Channels /\ serverSubs' = serverSubs /\ e \in Events
    BY <2>1, <1>i, <1>6, <2>0, ScheduleSteps
  <2>3. CASE /\ eventChannels' = [eventChannels EXCEPT ![e] = @ + 1]
             /\ sending'["reader"] = [chan |-> chan, type |-> "subscribe", events |-> {e}]
    <3>1. Channels' = Channels \cup {e}
      BY <2>2, <2>3, <1>t DEF Channels
    <3>2. sending'["reader"].type = "subscribe" /\ sending'["reader"].events = {e}
      BY <2>3
    <3> QED
      BY <2>2, <3>1, <3>2
  <2>4. CASE /\ eventChannels[e] # 0
             /\ eventChannels' = [eventChannels EXCEPT ![e] = @ + 1]
             /\ UNCHANGED sending
    <3>1. Channels' = Channels
      BY <2>2, <2>4, <1>t DEF Channels
    <3> QED
      BY <2>1, <2>2, <2>4, <3>1
  <2>5. CASE UNCHANGED <<eventChannels, sending>>
    BY <2>1, <2>2, <2>5 DEF Channels
  <2> QED
    BY <1>6, <2>0, <2>3, <2>4, <2>5, ScheduleSteps
<1>7. ASSUME NEW x \in Triggers, Unschedule(x)
      PROVE  LET m == sending'["reader"] IN
             CASE m.type = "set_subscriptions" -> m.events = Channels'
               [] m.type = "subscribe" -> serverSubs' \cup m.events = Channels'
               [] m.type = "unsubscribe" -> serverSubs' \ m.events = Channels'
               [] OTHER -> serverSubs' = Channels'
  <2>0. PICK e : e = EventOf(x)
    OBVIOUS
  <2>1. Reading /\ sending["reader"].type = "none" /\ link = "up" /\ main = "running"
    BY <1>7, <2>0, UnscheduleSteps, ReadingSendsNothing
  <2>2. serverSubs = Channels /\ serverSubs' = serverSubs /\ e \in Events
    BY <2>1, <1>i, <1>7, <2>0, UnscheduleSteps
  <2>3. CASE /\ eventChannels' = [eventChannels EXCEPT ![e] = 0]
             /\ sending'["reader"] = [chan |-> chan, type |-> "unsubscribe", events |-> {e}]
    <3>1. Channels' = Channels \ {e}
      BY <2>2, <2>3, <1>t DEF Channels
    <3>2. sending'["reader"].type = "unsubscribe" /\ sending'["reader"].events = {e}
      BY <2>3
    <3> QED
      BY <2>2, <3>1, <3>2
  <2>4. CASE /\ eventChannels' = IF e \in subscribed /\ eventChannels[e] > 1
                                 THEN [eventChannels EXCEPT ![e] = @ - 1] ELSE eventChannels
             /\ UNCHANGED sending
    <3>1. Channels' = Channels
      BY <2>2, <2>4, <1>t DEF Channels
    <3> QED
      BY <2>1, <2>2, <2>4, <3>1
  <2>5. CASE UNCHANGED <<eventChannels, sending>>
    BY <2>1, <2>2, <2>5 DEF Channels
  <2> QED
    BY <1>7, <2>0, <2>3, <2>4, <2>5, UnscheduleSteps
<1>8. ASSUME NEW e \in Events, UnsubscribeNext(e)
      PROVE  FALSE
  BY <1>8 DEF UnsubscribeNext, MainSteps
<1> QED
  BY <1>1, <1>2, <1>3, <1>4, <1>5, <1>6, <1>7, <1>8, Steps

\* A counted trigger has its channel, a channel goes with the last trigger, and
\* only a reader left behind in an Unsubscribe keeps an entry it should drop.
LEMMA StepKeptInv == Typed /\ ChannelsInv /\ KeptInv /\ [Next]_vars => KeptInv'
<1> SUFFICES ASSUME Typed, ChannelsInv, KeptInv, [Next]_vars, main' = "running", ~abandoned'
             PROVE  /\ \A d \in Events : counters'[d] > 0 => eventChannels'[d] = 1
                    /\ \A d \in subscribed' :
                           \/ eventChannels'[d] = 1
                           \/ sending'["reader"].type = "unsubscribe" /\ d \in sending'["reader"].events
                    /\ sending'["reader"].type = "subscribe" =>
                           \A d \in sending'["reader"].events : eventChannels'[d] = 1
  BY DEF KeptInv
<1> DEFINE Kept == /\ \A d \in Events : counters'[d] > 0 => eventChannels'[d] = 1
                   /\ \A d \in subscribed' :
                          \/ eventChannels'[d] = 1
                          \/ sending'["reader"].type = "unsubscribe" /\ d \in sending'["reader"].events
                   /\ sending'["reader"].type = "subscribe" =>
                          \A d \in sending'["reader"].events : eventChannels'[d] = 1
<1>t. /\ ConnectionTypeOK /\ WaitingInv
      /\ eventChannels \in [Events -> Nat] /\ counters \in [Events -> Nat] /\ subscribed \subseteq Events
      /\ \A d \in Events : eventChannels[d] \in Nat /\ counters[d] \in Nat
  BY TypedGroups DEF Groups, ConnectionTypeOK, TablesTypeOK
<1>i. ASSUME main = "running", ~abandoned
      PROVE  /\ \A d \in Events : counters[d] > 0 => eventChannels[d] = 1
             /\ \A d \in subscribed :
                    \/ eventChannels[d] = 1
                    \/ sending["reader"].type = "unsubscribe" /\ d \in sending["reader"].events
             /\ sending["reader"].type = "subscribe" =>
                    \A d \in sending["reader"].events : eventChannels[d] = 1
  BY <1>i DEF KeptInv
<1>1. CASE Quiet \/ ConnectionLost \/ PumpEnds
  <2>1. UNCHANGED <<sending, counters, subscribed, eventChannels, abandoned>> /\ main = "running"
    BY <1>1 DEF Quiet, ConnectionLost, PumpEnds, LinkChanges, tables, mainVars, control
  <2> QED
    BY <2>1, <1>i
<1>2. CASE Connect
  <2>1. sending'["reader"].type = "set_subscriptions"
        /\ UNCHANGED <<eventChannels, counters, subscribed, main>>
    BY <1>2, <1>t DEF Connect, BeginSend, ConnectionTypeOK, tables, mainVars
  <2>2. ~abandoned /\ ~(reader = "sending" /\ sending["reader"].type = "unsubscribe")
    BY <1>2 DEF Connect
  <2>3. sending["reader"].type # "unsubscribe"
    BY <2>2, <1>t DEF WaitingInv, NoSend
  <2> QED
    BY <2>1, <2>2, <2>3, <1>i
<1>3. CASE PumpTakes("main")
  BY <1>3 DEF PumpTakes, MainGoesOn
<1>4. CASE PumpTakes("reader")
  <2> DEFINE m == sending["reader"]
  <2>1. /\ main = "running" /\ ~abandoned
        /\ UNCHANGED <<eventChannels, counters>> /\ sending'["reader"].type = "none"
        /\ \/ m.type = "set_subscriptions" /\ UNCHANGED subscribed
           \/ m.type = "subscribe" /\ subscribed' = subscribed \cup m.events
           \/ m.type = "unsubscribe" /\ subscribed' = subscribed \ m.events
    BY <1>4, PumpTakesReaderSteps
  <2> QED
    BY <2>1, <1>i
<1>5. ASSUME NEW x \in Triggers, ScheduleByID(x)
      PROVE  Kept
  <2>0. PICK e : e = EventOf(x)
    OBVIOUS
  <2>1. Reading /\ sending["reader"].type = "none" /\ main = "running" /\ ~abandoned
    BY <1>5, <2>0, ScheduleSteps, ReadingSendsNothing
  <2>2. e \in Events /\ counters' = [counters EXCEPT ![e] = @ + 1]
    BY <1>5, <2>0, ScheduleSteps
  <2>3. CASE /\ counters[e] = 0 /\ eventChannels[e] = 0
             /\ eventChannels' = [eventChannels EXCEPT ![e] = @ + 1]
             /\ sending'["reader"] = [chan |-> chan, type |-> "subscribe", events |-> {e}]
             /\ UNCHANGED subscribed
    <3>1. eventChannels'[e] = 1
          /\ \A d \in Events \ {e} : eventChannels'[d] = eventChannels[d] /\ counters'[d] = counters[d]
      BY <2>2, <2>3, <1>t
    <3>2. sending'["reader"].type = "subscribe" /\ sending'["reader"].events = {e}
      BY <2>3
    <3> QED
      BY <2>1, <2>2, <2>3, <3>1, <3>2, <1>i, <1>t
  <2>4. CASE /\ counters[e] = 0 /\ e \notin subscribed /\ eventChannels[e] # 0
    <3>1. eventChannels[e] = 1
      BY <2>2, <2>4, <1>t DEF ChannelsInv
    <3>2. Cardinality(Of(armed, e)) \in Nat
      BY <2>2, TypedGroups, OfMonotone DEF Groups, TablesTypeOK, CountersInv
    <3> QED
      BY <2>2, <2>4, <3>1, <3>2 DEF ChannelsInv
  <2>5. CASE /\ counters[e] = 0 => e \in subscribed
             /\ UNCHANGED <<eventChannels, sending, subscribed>>
    <3>1. eventChannels[e] = 1
      BY <2>1, <2>2, <2>5, <1>i, <1>t
    <3>2. \A d \in Events \ {e} : counters'[d] = counters[d]
      BY <2>2, <1>t
    <3> QED
      BY <2>1, <2>5, <3>1, <3>2, <1>i
  <2> QED
    BY <1>5, <2>0, <2>3, <2>4, <2>5, ScheduleSteps
<1>6. ASSUME NEW x \in Triggers, Unschedule(x)
      PROVE  Kept
  <2>0. PICK e : e = EventOf(x)
    OBVIOUS
  <2>1. Reading /\ sending["reader"].type = "none" /\ main = "running" /\ ~abandoned
    BY <1>6, <2>0, UnscheduleSteps, ReadingSendsNothing
  <2>2. e \in Events /\ \A d \in Events \ {e} : counters'[d] = counters[d]
    BY <1>6, <2>0, UnscheduleSteps
  <2>3. CASE /\ counters'[e] = 0
             /\ eventChannels' = [eventChannels EXCEPT ![e] = 0]
             /\ sending'["reader"] = [chan |-> chan, type |-> "unsubscribe", events |-> {e}]
             /\ UNCHANGED subscribed
    <3>1. \A d \in Events \ {e} : eventChannels'[d] = eventChannels[d]
      BY <2>2, <2>3, <1>t
    <3>2. sending'["reader"].type = "unsubscribe" /\ sending'["reader"].events = {e}
      BY <2>3
    <3> QED
      BY <2>1, <2>2, <2>3, <3>1, <3>2, <1>i, <1>t
  <2>4. CASE /\ counters[e] = 1 /\ counters'[e] = 0
             /\ ~(e \in subscribed /\ eventChannels[e] = 1)
             /\ eventChannels' = IF e \in subscribed /\ eventChannels[e] > 1
                                 THEN [eventChannels EXCEPT ![e] = @ - 1] ELSE eventChannels
             /\ subscribed' = subscribed \ {e}
             /\ UNCHANGED sending
    <3>1. eventChannels[e] = 1 /\ eventChannels' = eventChannels
      BY <2>1, <2>2, <2>4, <1>i
    <3> QED
      BY <2>1, <2>2, <2>4, <3>1, <1>i
  <2>5. CASE /\ counters[e] # 1 /\ counters'[e] = counters[e] - 1
             /\ UNCHANGED <<eventChannels, sending, subscribed>>
    <3>1. counters'[e] > 0 => counters[e] > 0
      BY <2>2, <2>5, <1>t
    <3> QED
      BY <2>1, <2>2, <2>5, <3>1, <1>i
  <2> QED
    BY <1>6, <2>0, <2>3, <2>4, <2>5, UnscheduleSteps
<1>7. ASSUME NEW e \in Events, UnsubscribeNext(e)
      PROVE  FALSE
  BY <1>7 DEF UnsubscribeNext, MainSteps
<1> QED
  BY <1>1, <1>2, <1>3, <1>4, <1>5, <1>6, <1>7, Steps

\* The channels, the messages under way and the backend, together.
LEMMA SubscriptionsInvariant == Spec => [](LinkInv /\ BackendInv /\ KeptInv)
<1>1. Init => LinkInv /\ BackendInv /\ KeptInv
  BY DEF Init, LinkInv, BackendInv, KeptInv, NoSend
<1> QED
  BY <1>1, TypedInvariant, ChannelsInvariant, StepLinkInv, StepBackendInv, StepKeptInv, PTL DEF Spec

\* Over a connection that is up, and once the reader is back at it, the backend
\* is subscribed to the event of every trigger the scheduler keeps, unless a
\* reader was left behind in an Unsubscribe (ScheduleByID, Unschedule,
\* addEventChannel, removeEventChannel, setSubscriptions).
THEOREM TriggersSubscribedHolds == Spec => []TriggersSubscribed
<1>1. Typed /\ BackendInv /\ KeptInv => TriggersSubscribed
  <2> SUFFICES ASSUME Typed, BackendInv, KeptInv, link = "up", reader = "reading", main = "running",
                      ~abandoned, NEW x \in filed
               PROVE  EventOf(x) \in serverSubs
    BY DEF TriggersSubscribed
  <2>1. /\ sending["reader"].type = "none" /\ filed \subseteq Triggers /\ CountersInv
        /\ counters \in [Events -> Nat]
    BY TypedGroups DEF Groups, WaitingInv, NoSend, TablesTypeOK
  <2>2. EventOf(x) \in Events /\ x \in Of(filed, EventOf(x))
    BY <2>1 DEF Triggers, EventOf, Of
  <2>3. counters[EventOf(x)] > 0
    <3>1. IsFiniteSet(Of(filed, EventOf(x)))
      BY <2>1, FS_Subset DEF CountersInv, Of
    <3>2. Cardinality(Of(filed, EventOf(x))) \in Nat /\ Cardinality(Of(filed, EventOf(x))) # 0
      BY <2>2, <3>1, FS_CardinalityType, FS_EmptySet
    <3>3. counters[EventOf(x)] >= Cardinality(Of(filed, EventOf(x))) /\ counters[EventOf(x)] \in Nat
      BY <2>1, <2>2 DEF CountersInv
    <3> QED
      BY <3>2, <3>3
  <2>4. eventChannels[EventOf(x)] = 1
    BY <2>2, <2>3 DEF KeptInv
  <2>5. serverSubs = Channels
    BY <2>1 DEF BackendInv
  <2> QED
    BY <2>2, <2>4, <2>5 DEF Channels
<1> QED
  BY <1>1, TypedInvariant, SubscriptionsInvariant, PTL

-----------------------------------------------------------------------------
(* Events after the queue was dropped *)

\* drain comes to its check with the one event it still had, and leaves there.
LEMMA StepLateInv == Typed /\ LateInv /\ [Next]_vars => LateInv'
<1> SUFFICES ASSUME Typed, LateInv, [Next]_vars PROVE LateInv'
  OBVIOUS
<1>t. QueueTypeOK /\ MainTypeOK /\ WaitingInv
  BY TypedGroups DEF Groups
<1>1. ASSUME UNCHANGED <<queue, main, late, drain>>
      PROVE  LateInv'
  BY <1>1 DEF LateInv
<1>2. CASE Connect \/ ConnectionLost \/ PumpEnds
  BY <1>2, <1>1 DEF Connect, ConnectionLost, PumpEnds, LinkChanges, drainVars, mainVars
<1>3. CASE Pump
  <2>1. CASE PumpTakes("reader")
    BY <1>1, <2>1 DEF PumpTakes, ReaderGoesOn, drainVars, mainVars
  <2>2. CASE PumpTakes("main")
    <3>1. main = "sending"
      BY <2>2, <1>t DEF PumpTakes, WaitingInv, NoSend
    <3> QED
      BY <2>2, <3>1 DEF LateInv, PumpTakes, MainGoesOn, drainVars
  <2> QED
    BY <1>3, <2>1, <2>2 DEF Pump
<1>4. CASE ReaderSchedules
  BY <1>1, <1>4 DEF ReaderSchedules, ScheduleOnNilQueue, Dies, ScheduleByID, Unschedule, drainVars,
     mainVars
<1>5. CASE ReadEvent \/ ReadFails \/ ReaderEnds \/ DeliveryTimesOut
  BY <1>1, <1>5 DEF ReadEvent, ReadFails, Delivers, ReaderEnds, DeliveryTimesOut, ChannelDone,
     drainVars, mainVars
<1>6. CASE Deliver
  BY <1>6 DEF LateInv, Deliver, ChannelDone, mainVars
<1>7. CASE Drain
  <2>1. CASE DrainChecks
    BY <2>1, <1>t DEF LateInv, DrainChecks, Drains, mainVars
  <2>2. CASE DrainReceives
    BY <2>2 DEF LateInv, DrainReceives, Drains, mainVars
  <2>3. CASE DrainPanics
    BY <1>1, <2>3 DEF DrainPanics, Dies, drainVars, mainVars
  <2>4. CASE Dispatch
    <3>1. late = 0 /\ drain' = "check" /\ UNCHANGED <<queue, main>>
          /\ (late' = 0 \/ (late' = 1 /\ main = "stopClient"))
      BY <2>4, <1>t DEF LateInv, Dispatch, Drains, GoesOn, QueueTypeOK, mainVars
    <3> QED
      BY <3>1 DEF LateInv
  <2> QED
    BY <1>7, <2>1, <2>2, <2>3, <2>4 DEF Drain
<1>8. CASE Interrupt
  BY <1>8 DEF LateInv, Interrupt, MainSteps, drainVars
<1>9. CASE MainStops
  <2>1. ASSUME NEW e \in Events, UnsubscribeNext(e)
        PROVE  LateInv'
    BY <2>1 DEF LateInv, UnsubscribeNext, MainSteps, drainVars
  <2>2. CASE QueueDropped
    BY <2>2 DEF LateInv, QueueDropped, QueueOnceStopped, MainSteps, drainVars
  <2>3. CASE ClientStopped
    BY <2>3 DEF LateInv, ClientStopped, MainSteps, drainVars
  <2>4. CASE ClientStopPanics
    BY <1>1, <2>4 DEF ClientStopPanics, Dies, drainVars, mainVars
  <2> QED
    BY <1>9, <2>1, <2>2, <2>3, <2>4 DEF MainStops
<1>10. CASE MapRace
  BY <1>1, <1>10 DEF MapRace, Dies, drainVars, mainVars
<1>11. CASE \E e \in Events : EventHappens(e)
  BY <1>1, <1>11 DEF EventHappens, drainVars, mainVars
<1>12. CASE UNCHANGED vars
  BY <1>1, <1>12 DEF vars, drainVars, mainVars
<1> QED
  BY <1>2, <1>3, <1>4, <1>5, <1>6, <1>7, <1>8, <1>9, <1>10, <1>11, <1>12 DEF Next

\* Once Stop has dropped the queue no more than one event still runs tasks
\* (TelephonistScheduler.Stop, drain).
THEOREM OneLateEventHolds == Spec => []OneLateEvent
<1>1. Init => LateInv
  BY DEF Init, LateInv
<1>2. LateInv => OneLateEvent
  BY DEF LateInv, OneLateEvent
<1> QED
  BY <1>1, <1>2, TypedInvariant, StepLateInv, PTL DEF Spec
=============================================================================
