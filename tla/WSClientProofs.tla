---------------------------- MODULE WSClientProofs ----------------------------
(***************************************************************************)
(* What WSClient guarantees for every number of connections, senders and   *)
(* events, whenever the connection is lost and whenever Stop is called.    *)
(***************************************************************************)
EXTENDS WSClient, TLAPS

-----------------------------------------------------------------------------
(* Type correctness *)

\* connectWithTicket has made a channel before it dials.
DialInv == pc[Loop] = "dial" => chan # 0

Typed == TypeOK /\ DialInv

\* The loop is no reader.
LEMMA LoopIsNoReader ==
    /\ Loop \notin Connections /\ Loop \in Actors /\ Connections \subseteq Actors
    /\ \A k \in Connections : k # 0
    /\ Connections \cap Senders = {}
  BY WSClientAssumption DEF Loop, Connections, Actors

\* NewWSClient makes a client without a connection.
LEMMA InitTyped == Init => Typed
<1> SUFFICES ASSUME Init PROVE Typed
  OBVIOUS
<1>1. DialInv
  BY DEF Init, DialInv, Loop, Actors
<1>2. pc[Loop] \in LoopLabels /\ pc \in [Actors -> LoopLabels \cup ReaderLabels]
      /\ \A r \in Connections : pc[r] \in ReaderLabels
  BY LoopIsNoReader DEF Init, LoopLabels, ReaderLabels
<1>3. sending \in [Goroutines -> [chan : Connections \cup {0}, type : Sends, data : SUBSET Events]]
  BY DEF Init, NoSend, Sends
<1>4. rm \in [Connections -> [type : MessageTypes, want : SUBSET Events]]
  BY DEF Init, NoMessage, MessageTypes
<1> QED
  BY <1>1, <1>2, <1>3, <1>4 DEF Init, Typed, TypeOK, States, Faults, MessageTypes

\* Where the goroutines are: the part of TypeOK that every step disturbs.
PlacesOK ==
    /\ pc \in [Actors -> LoopLabels \cup ReaderLabels]
    /\ pc[Loop] \in LoopLabels
    /\ \A r \in Connections : pc[r] \in ReaderLabels

\* A goroutine that moves stays within its own labels.
LEMMA GotoPlaces ==
    ASSUME PlacesOK, NEW a \in Actors, NEW label, Goto(a, label),
           label \in IF a = Loop THEN LoopLabels ELSE ReaderLabels
    PROVE  PlacesOK'
  BY LoopIsNoReader DEF PlacesOK, Goto

\* Each step of each goroutine, and of the backend, keeps the types of the
\* client's fields (wsclient.go).
LEMMA StepTyped ==
    ASSUME Typed, [Next]_vars
    PROVE  Typed'
<1> USE LoopIsNoReader DEF Typed, TypeOK
<1>p. PlacesOK
  BY DEF PlacesOK
<1>q. PlacesOK' => /\ pc'[Loop] \in LoopLabels
                   /\ pc' \in [Actors -> LoopLabels \cup ReaderLabels]
                   /\ \A r \in Connections : pc'[r] \in ReaderLabels
  BY DEF PlacesOK
<1>1. ASSUME NEW a \in Actors, NEW from, NEW to, Moves(a, from, to), state' \in States,
             to \in IF a = Loop THEN LoopLabels \ {"dial"} ELSE ReaderLabels
      PROVE  Typed'
  <2>1. PlacesOK'
    BY <1>1, <1>p, GotoPlaces DEF Moves
  <2>2. DialInv'
    BY <1>1, <2>1 DEF DialInv, Moves, Goto, data, connection, PlacesOK
  <2> QED
    BY <1>1, <1>q, <2>1, <2>2
    DEF Moves, data, connection, reading, backend, control
<1>2. ASSUME NEW why \in Faults, Dies(why)
      PROVE  Typed'
  BY <1>2 DEF Dies, data, connection, reading, backend, DialInv
<1>3. CASE StartAsync \/ BeginConnect \/ LoopEnds \/ TicketFails \/ Wakes \/ PumpFails \/ PumpEnds
  <2>1. CASE StartAsync
    BY <1>1, <2>1 DEF StartAsync, Transition, States, LoopLabels
  <2>2. CASE BeginConnect
    BY <1>1, <2>2 DEF BeginConnect, Transition, States, LoopLabels
  <2>3. CASE LoopEnds
    BY <1>1, <2>3 DEF LoopEnds, LoopLabels
  <2>4. CASE TicketFails
    BY <1>1, <2>4 DEF TicketFails, Transition, States, LoopLabels
  <2>5. CASE Wakes
    BY <1>1, <2>5 DEF Wakes, LoopLabels
  <2>6. CASE PumpFails \/ PumpEnds
    BY <1>1, <2>6 DEF PumpFails, PumpEnds, LoopLabels
  <2> QED
    BY <1>3, <2>1, <2>2, <2>3, <2>4, <2>5, <2>6
<1>4. CASE TicketIssued \/ DialFails \/ DialSucceeds
  <2>1. CASE TicketIssued
    <3>1. chan' \in Connections \cup {0} /\ chan' # 0
      BY <2>1, WSClientAssumption DEF TicketIssued, Connections
    <3>2. PlacesOK'
      BY <2>1, <1>p, GotoPlaces DEF TicketIssued, LoopLabels
    <3> QED
      BY <2>1, <1>q, <3>1, <3>2 DEF TicketIssued, DialInv, reading, backend, control
  <2>2. CASE DialFails
    <3>1. PlacesOK' /\ pc'[Loop] = "sleep"
      BY <2>2, <1>p, GotoPlaces DEF DialFails, LoopLabels, Goto
    <3> QED
      BY <2>2, <1>q, <3>1 DEF DialFails, Transition, DialInv, States, reading, backend, control
  <2>3. CASE DialSucceeds
    <3>1. chan \in Connections
      BY <2>3 DEF DialSucceeds, At, DialInv
    <3>2. PlacesOK' /\ pc'[Loop] = "pump"
      BY <2>3, <3>1, <1>p DEF DialSucceeds, PlacesOK, LoopLabels, ReaderLabels
    <3> QED
      BY <2>3, <1>q, <3>1, <3>2
      DEF DialSucceeds, Transition, DialInv, States, StateOnceDialed, reading, backend, control
  <2> QED
    BY <1>4, <2>1, <2>2, <2>3
<1>5. ASSUME NEW g \in Goroutines, PumpWrites(g)
      PROVE  Typed'
  <2>1. PlacesOK'
    BY <1>5, <1>p, GotoPlaces DEF PumpWrites, AfterSend, ReaderLabels, PlacesOK
  <2>2. pc'[Loop] = pc[Loop]
    BY <1>5, <1>p DEF PumpWrites, AfterSend, Goto, PlacesOK
  <2>3. sending' \in [Goroutines -> [chan : Connections \cup {0}, type : Sends, data : SUBSET Events]]
    BY <1>5 DEF PumpWrites, NoSend, Sends
  <2>4. sending[g].data \in SUBSET Events
    BY <1>5
  <2>5. ASSUME BackendReceives(conn, sending[g])
        PROVE  (hellos \in [Connections -> Nat])' /\ (serverSubs \in [Connections -> SUBSET Events])'
    <3>1. hellos' \in {hellos, [hellos EXCEPT ![conn] = @ + 1]}
      BY <2>5 DEF BackendReceives
    <3>2. (hellos \in [Connections -> Nat])'
      BY <3>1
    <3> DEFINE known == serverSubs[conn]
               told == sending[g].data
    <3>3. serverSubs' \in {[serverSubs EXCEPT ![conn] = D] :
                              D \in {told, known \cup told, known \ told, known}}
      BY <2>5 DEF BackendReceives
    <3>4. conn \in Connections => known \in SUBSET Events
      OBVIOUS
    <3>5. (serverSubs \in [Connections -> SUBSET Events])'
      BY <2>4, <3>3, <3>4
    <3> QED
      BY <3>2, <3>5
  <2>6. /\ (hellos \in [Connections -> Nat])' /\ (serverSubs \in [Connections -> SUBSET Events])'
        /\ (served \in [Connections -> MessageTypes \cup {"nothing"}])'
    BY <1>5, <2>5 DEF PumpWrites, BackendReceives, backend
  <2> QED
    BY <1>5, <1>q, <2>1, <2>2, <2>3, <2>6
    DEF PumpWrites, DialInv, connection, reading, control
<1>6. ASSUME NEW a \in Actors, OnDisconnect(a)
      PROVE  Typed'
  <2>1. CASE DisconnectIsOver(a)
    BY <1>1, <2>1 DEF DisconnectIsOver, AfterDisconnect, LoopLabels, ReaderLabels
  <2>2. CASE DisconnectLocks(a)
    <3>1. PlacesOK' /\ (pc'[Loop] = "dial" => pc[Loop] = "dial")
      BY <2>2, <1>p, GotoPlaces DEF DisconnectLocks, LoopLabels, ReaderLabels, Goto, PlacesOK
    <3> QED
      BY <2>2, <1>q, <3>1 DEF DisconnectLocks, DialInv, data, connection, reading, backend
  <2>3. CASE DisconnectCloses(a)
    <3>1. PlacesOK' /\ (pc'[Loop] = "dial" => pc[Loop] = "dial")
      BY <2>3, <1>p, GotoPlaces
      DEF DisconnectCloses, AfterDisconnect, LoopLabels, ReaderLabels, Goto, PlacesOK
    <3> QED
      BY <2>3, <1>q, <3>1
      DEF DisconnectCloses, StateOnceClosed, LinkOnceClosed, States, DialInv, reading, backend
  <2> QED
    BY <1>6, <2>1, <2>2, <2>3 DEF OnDisconnect
<1>7. ASSUME NEW r \in Connections, ReadMessage(r) \/ ReadFails(r)
      PROVE  Typed'
  <2>1. PlacesOK' /\ pc'[Loop] = pc[Loop]
    BY <1>7, <1>p, GotoPlaces DEF ReadMessage, ReadFails, ReaderLabels, Goto, PlacesOK
  <2>2. CASE ReadMessage(r)
    <3>1. \A m \in NextMessages(r) : m \in [type : MessageTypes, want : SUBSET Events]
      BY DEF NextMessages, MessageTypes
    <3> QED
      BY <2>2, <1>q, <2>1, <3>1 DEF ReadMessage, DialInv, connection, control
  <2>3. CASE ReadFails(r)
    BY <2>3, <1>q, <2>1 DEF ReadFails, DialInv, connection, backend, control
  <2> QED
    BY <1>7, <2>2, <2>3
<1>8. ASSUME NEW r \in Connections,
             ReadCloseFrame(r) \/ HandleNothing(r) \/ HandleIntroduction(r) \/ HandleTasksDone(r)
      PROVE  Typed'
  <2>1. CASE ReadCloseFrame(r) \/ HandleNothing(r) \/ HandleTasksDone(r)
    BY <1>1, <2>1 DEF ReadCloseFrame, HandleNothing, HandleTasksDone, ReaderLabels
  <2>2. CASE HandleIntroduction(r)
    BY <1>1, <2>2 DEF HandleIntroduction, ReaderLabels, States
  <2> QED
    BY <1>8, <2>1, <2>2
<1>9. ASSUME NEW g \in Goroutines, NEW type \in Sends, NEW content \in SUBSET Events,
             BeginSend(g, type, content)
      PROVE  (sending \in [Goroutines -> [chan : Connections \cup {0}, type : Sends,
                                          data : SUBSET Events]])'
  BY <1>9 DEF BeginSend
<1>10. ASSUME NEW r \in Connections, NEW type \in Sends, NEW content \in SUBSET Events,
              ReaderSends(r, type, content), eventChannels' \in SUBSET Events
       PROVE  Typed'
  <2>1. PlacesOK' /\ pc'[Loop] = pc[Loop]
    BY <1>10, <1>p, GotoPlaces DEF ReaderSends, ReaderLabels, Goto, PlacesOK
  <2> QED
    BY <1>9, <1>10, <1>q, <2>1
    DEF ReaderSends, DialInv, Goroutines, connection, reading, backend, control
<1>11. ASSUME NEW r \in Connections, SendHello(r) \/ HandleGreetings(r)
       PROVE  Typed'
  BY <1>10, <1>11 DEF SendHello, HandleGreetings, Reported, Sends
<1>12. ASSUME NEW r \in Connections, NEW e \in Events,
              HandleTasksSubscribes(r, e) \/ HandleTasksUnsubscribes(r, e)
       PROVE  Typed'
  <2>1. {e} \in SUBSET Events /\ eventChannels' \in SUBSET Events
    BY <1>12 DEF HandleTasksSubscribes, HandleTasksUnsubscribes
  <2>2. \E type \in Sends : ReaderSends(r, type, {e})
    BY <1>12 DEF HandleTasksSubscribes, HandleTasksUnsubscribes, Sends
  <2> QED
    BY <1>10, <2>1, <2>2
<1>13. ASSUME NEW s \in Senders, SendLogs(s)
       PROVE  Typed'
  BY <1>9, <1>13
  DEF SendLogs, Goroutines, Sends, DialInv, connection, reading, backend, control
<1>14. CASE Stop
  BY <1>14 DEF Stop, CanStop, DialInv, States, reading, backend
<1>15. CASE WrongState \/ StopPanics \/ \E r \in Connections : ReadPanics(r) \/ ReaderSendPanics(r)
  BY <1>2, <1>15 DEF WrongState, StopPanics, ReadPanics, ReaderSendPanics, Faults
<1>16. ASSUME NEW k \in Connections, NEW how \in {"closedByPeer", "lost"}, PeerCloses(k, how)
       PROVE  Typed'
  BY <1>16 DEF PeerCloses, DialInv, reading, backend, control
<1>17. CASE UNCHANGED vars
  BY <1>17 DEF vars, data, connection, reading, backend, control, DialInv
<1> QED
  BY <1>3, <1>4, <1>5, <1>6, <1>7, <1>8, <1>11, <1>12, <1>13, <1>14, <1>15, <1>16, <1>17
  DEF Next, RunLoop, ReaderRuns, Environment

\* The fields of the client keep their types in every run (wsclient.go).
LEMMA TypedInvariant == Spec => []Typed
  BY InitTyped, StepTyped, PTL DEF Spec

\* In particular no channel is made beyond those the model numbers, and the loop
\* and the readers are always at a place of their own code.
THEOREM TypeCorrect == Spec => []TypeOK
  BY TypedInvariant, PTL DEF Typed

-----------------------------------------------------------------------------
(* One connection at a time *)

\* A reader that has ended, was never started, or waits for a receiver.
Idle(k) == pc[k] \in {"none", "done", "sending"}

\* What the unlocked fields agree on although four kinds of goroutines write
\* them: only the newest connection is held and only its reader runs, nothing is
\* held while the client is about to connect, and one goroutine at a time closes.
PresentInv ==
    /\ \A k \in Connections : Held(k) => k = conn /\ k = chan
    /\ state \in {"Disconnected", "Connecting"} => \A k \in Connections : ~Held(k)
    /\ pc[Loop] = "new" => chan = 0 /\ \A k \in Connections : ~Held(k)
    /\ pc[Loop] \in {"ticket", "dial"} => \A k \in Connections : Idle(k)
    /\ \A k \in Connections : k # chan => Idle(k)
    /\ state \in {"Preparing", "Connected"} => conn = chan /\ chan # 0
    /\ pc[Loop] = "pump" => conn = chan /\ chan # 0

\* onDisconnect's lock: whoever closes has it, and no state but Stopped comes in
\* between.
ClosingInv ==
    /\ \A a \in Actors : pc[a] = "closing" =>
           mut = "held" /\ state \in {"Preparing", "Connected", "Stopped"}
    /\ \A a, b \in Actors : pc[a] = "closing" /\ pc[b] = "closing" => a = b

\* A reader that sends waits on the channel of its own connection.
SendingInv ==
    \A k \in Connections :
        sending[k] # NoSend => pc[k] = "sending" /\ sending[k].chan = k

\* Nothing has happened yet on a connection that was not made.
NotMade(k) == k > chan \/ (k = chan /\ pc[Loop] = "dial")

Untouched(k) ==
    served[k] = "nothing" /\ hellos[k] = 0 /\ sending[k] = NoSend /\ pc[k] = "none"

FreshInv == \A k \in Connections : NotMade(k) => Untouched(k)

LinkInv == PresentInv /\ ClosingInv /\ SendingInv /\ FreshInv

\* What each reader handles is what the backend sent it last.
MessagesInv ==
    /\ \A k \in Connections :
           rm[k].type = IF served[k] = "nothing" THEN "none" ELSE served[k]
    /\ state = "Connected" => served[conn] # "nothing"

\* hello is due only as long as the backend has not got it.
HelloInv ==
    /\ \A s \in Senders : sending[s].type # "hello"
    /\ \A k \in Connections : hellos[k] <= 1
    /\ \A k \in Connections : pc[k] = "hello" \/ sending[k].type = "hello" => hellos[k] = 0
    /\ state = "Preparing" =>
           pc[conn] # "hello" /\ sending[conn].type # "hello" /\ hellos[conn] = 0

\* What the backend will know of the subscriptions once the message under way
\* has reached it.
TellsTheRest(k, m) ==
    CASE m.type = "set_subscriptions" -> m.data = eventChannels /\ rm[k].type = "greetings"
      [] m.type = "subscribe" -> serverSubs[k] \cup m.data = eventChannels /\ rm[k].type = "tasks"
      [] m.type = "unsubscribe" -> serverSubs[k] \ m.data = eventChannels /\ rm[k].type = "tasks"
      [] OTHER -> m.type = "hello" /\ rm[k].type = "introduction"

\* The subscriptions the backend keeps, against where the reader is.
InStep(k) ==
    /\ pc[k] = "reading" /\ served[k] \in {"greetings", "tasks"} => serverSubs[k] = eventChannels
    /\ pc[k] = "handling" /\ rm[k].type = "tasks" => serverSubs[k] = eventChannels
    /\ pc[k] = "hello" => rm[k].type = "introduction"
    /\ pc[k] = "sending" => TellsTheRest(k, sending[k])

SubscriptionsInv ==
    /\ \A s \in Senders : sending[s].type \in {"none", "log"}
    /\ \A k \in Connections : link[k] = "open" => InStep(k)

\* Before StartAsync there is no connection, no reader and no message.
LEMMA InitLinkInv == Init => LinkInv
<1> SUFFICES ASSUME Init PROVE LinkInv
  OBVIOUS
<1>1. /\ \A k \in Connections : ~Held(k) /\ pc[k] = "none" /\ sending[k] = NoSend
      /\ pc[Loop] = "new" /\ state = "Stopped"
  BY LoopIsNoReader DEF Init, Held, Goroutines
<1>2. \A a \in Actors : pc[a] # "closing"
  BY DEF Init
<1>3. PresentInv
  BY <1>1 DEF PresentInv, Idle, Init
<1>4. FreshInv
  BY <1>1 DEF FreshInv, Untouched, Init
<1> QED
  BY <1>1, <1>2, <1>3, <1>4 DEF LinkInv, ClosingInv, SendingInv

\* What a step must leave alone to keep the three invariants without more ado.
linkVars == <<state, pc, conn, chan, link, mut, sending>>

\* Whoever handles, reads or says hello is the reader of the newest connection.
LEMMA OnlyTheNewestReads ==
    ASSUME LinkInv, NEW k \in Connections, pc[k] \notin {"none", "done", "sending"}
    PROVE  k = chan /\ sending[k] = NoSend
  BY DEF LinkInv, PresentInv, SendingInv, Idle

\* What the writer takes from a reader, it takes from that reader.
LEMMA OnlyTheNewestSends ==
    ASSUME Typed, LinkInv, NEW g \in Goroutines, PumpWrites(g)
    PROVE  /\ conn = chan /\ chan \in Connections
           /\ g \in Connections => g = chan /\ pc[g] = "sending"
  BY DEF Typed, TypeOK, LinkInv, PresentInv, SendingInv, PumpWrites, Receives, At

\* A reader's message goes to its own channel, which nobody else receives from.
LEMMA StepSendingInv ==
    ASSUME Typed, LinkInv, [Next]_vars
    PROVE  SendingInv'
<1> USE LoopIsNoReader DEF Typed, TypeOK, SendingInv
<1>0. SendingInv
  BY DEF LinkInv
<1>1. ASSUME NEW a \in Actors, NEW label, Goto(a, label), UNCHANGED sending,
             a # Loop => pc[a] # "sending"
      PROVE  SendingInv'
  BY <1>0, <1>1 DEF Goto
<1>2. ASSUME UNCHANGED <<pc, sending>>
      PROVE  SendingInv'
  BY <1>0, <1>2
<1>3. ASSUME NEW a \in Actors, NEW from, NEW to, Moves(a, from, to), from # "sending"
      PROVE  SendingInv'
  BY <1>1, <1>3 DEF Moves, At, data
<1>4. ASSUME NEW why, Dies(why)
      PROVE  SendingInv'
  BY <1>2, <1>4 DEF Dies, data
<1>5. CASE StartAsync \/ BeginConnect \/ LoopEnds \/ TicketFails \/ Wakes \/ PumpFails \/ PumpEnds
  BY <1>3, <1>5 DEF StartAsync, BeginConnect, LoopEnds, TicketFails, Wakes, PumpFails, PumpEnds
<1>6. CASE TicketIssued \/ DialFails
  BY <1>1, <1>6 DEF TicketIssued, DialFails
<1>7. CASE DialSucceeds
  <2>1. chan \in Connections => sending[chan] = NoSend
    BY <1>7 DEF DialSucceeds, At, LinkInv, FreshInv, NotMade, Untouched
  <2> QED
    BY <1>0, <1>7, <2>1 DEF DialSucceeds
<1>8. ASSUME NEW g \in Goroutines, PumpWrites(g)
      PROVE  SendingInv'
  BY <1>0, <1>8, OnlyTheNewestSends DEF PumpWrites, AfterSend, Goto, Goroutines
<1>9. ASSUME NEW a \in Actors, OnDisconnect(a)
      PROVE  SendingInv'
  BY <1>1, <1>3, <1>9
  DEF OnDisconnect, DisconnectIsOver, DisconnectLocks, DisconnectCloses, At, data
<1>10. ASSUME NEW r \in Connections,
              ReadMessage(r) \/ ReadFails(r) \/ ReadCloseFrame(r) \/ HandleNothing(r)
              \/ HandleIntroduction(r) \/ HandleTasksDone(r)
       PROVE  SendingInv'
  BY <1>1, <1>3, <1>10
  DEF ReadMessage, ReadFails, ReadCloseFrame, HandleNothing, HandleIntroduction, HandleTasksDone, At
<1>11. ASSUME NEW r \in Connections, NEW type, NEW content, ReaderSends(r, type, content),
              pc[r] \in {"hello", "handling"}
       PROVE  SendingInv'
  <2>1. r = chan
    BY <1>11, OnlyTheNewestReads
  <2> QED
    BY <1>0, <1>11, <2>1 DEF ReaderSends, BeginSend, Goto, Goroutines
<1>12. ASSUME NEW r \in Connections,
              \/ SendHello(r) \/ HandleGreetings(r)
              \/ \E e \in Events : HandleTasksSubscribes(r, e) \/ HandleTasksUnsubscribes(r, e)
       PROVE  SendingInv'
  BY <1>11, <1>12
  DEF SendHello, HandleGreetings, HandleTasksSubscribes, HandleTasksUnsubscribes, Handling, At
<1>13. ASSUME NEW s \in Senders, SendLogs(s)
       PROVE  SendingInv'
  BY <1>0, <1>13 DEF SendLogs, BeginSend, Goroutines
<1>14. CASE Stop \/ (\E k \in Connections, how \in {"closedByPeer", "lost"} : PeerCloses(k, how))
            \/ UNCHANGED vars
  BY <1>2, <1>14 DEF Stop, PeerCloses, vars, data
<1>15. CASE WrongState \/ StopPanics \/ \E r \in Connections : ReadPanics(r) \/ ReaderSendPanics(r)
  BY <1>4, <1>15 DEF WrongState, StopPanics, ReadPanics, ReaderSendPanics
<1> QED
  BY <1>5, <1>6, <1>7, <1>8, <1>9, <1>10, <1>12, <1>13, <1>14, <1>15
  DEF Next, RunLoop, ReaderRuns, Environment

\* A new channel has a new number: nothing is left on it from an earlier attempt.
LEMMA StepFreshInv ==
    ASSUME Typed, LinkInv, [Next]_vars
    PROVE  FreshInv'
<1> USE LoopIsNoReader DEF Typed, TypeOK, FreshInv, NotMade, Untouched
<1>0. FreshInv
  BY DEF LinkInv
<1>1. ASSUME NEW a \in Actors, NEW label, Goto(a, label), label # "dial", pc[a] # "none",
             UNCHANGED <<chan, sending, served, hellos>>
      PROVE  FreshInv'
  BY <1>0, <1>1 DEF Goto
<1>2. ASSUME UNCHANGED <<pc, chan, sending, served, hellos>>
      PROVE  FreshInv'
  BY <1>0, <1>2
<1>3. ASSUME NEW a \in Actors, NEW from, NEW to, Moves(a, from, to), from # "none", to # "dial"
      PROVE  FreshInv'
  BY <1>1, <1>3 DEF Moves, At, data, connection, backend
<1>4. ASSUME NEW why, Dies(why)
      PROVE  FreshInv'
  BY <1>2, <1>4 DEF Dies, data, connection, backend
<1>5. CASE StartAsync \/ BeginConnect \/ LoopEnds \/ TicketFails \/ Wakes \/ PumpFails \/ PumpEnds
  BY <1>3, <1>5 DEF StartAsync, BeginConnect, LoopEnds, TicketFails, Wakes, PumpFails, PumpEnds
<1>6. CASE TicketIssued
  BY <1>0, <1>6 DEF TicketIssued, Goto, backend, Connections
<1>7. CASE DialFails
  BY <1>1, <1>7 DEF DialFails, At, backend
<1>8. CASE DialSucceeds
  BY <1>0, <1>8 DEF DialSucceeds, At, backend, Connections
<1>9. ASSUME NEW g \in Goroutines, PumpWrites(g)
      PROVE  FreshInv'
  <2>1. conn = chan /\ chan \in Connections /\ (g \in Connections => g = chan /\ pc[g] = "sending")
    BY <1>9, OnlyTheNewestSends
  <2>2. UNCHANGED <<chan, served>> /\ pc'[Loop] = pc[Loop] /\ pc[Loop] = "pump"
    BY <1>9 DEF PumpWrites, AfterSend, Goto, At, connection, BackendReceives, backend
  <2>3. \A k \in Connections : k # chan =>
           hellos'[k] = hellos[k] /\ sending'[k] = sending[k] /\ pc'[k] = pc[k]
    BY <1>9, <2>1
    DEF PumpWrites, AfterSend, Goto, BackendReceives, backend, Goroutines
  <2>4. \A k \in Connections : NotMade(k)' => k # chan /\ NotMade(k)
    BY <2>1, <2>2 DEF Connections
  <2> QED
    BY <1>0, <2>2, <2>3, <2>4
<1>10. ASSUME NEW a \in Actors, OnDisconnect(a)
       PROVE  FreshInv'
  BY <1>1, <1>3, <1>10
  DEF OnDisconnect, DisconnectIsOver, DisconnectLocks, DisconnectCloses, AfterDisconnect, At,
      data, connection, backend
<1>11. ASSUME NEW r \in Connections, ReadMessage(r)
       PROVE  FreshInv'
  <2>1. ~NotMade(r)
    BY <1>0, <1>11 DEF ReadMessage, At
  <2> QED
    BY <1>0, <1>11, <2>1 DEF ReadMessage, Goto, connection
<1>12. ASSUME NEW r \in Connections,
              \/ ReadFails(r) \/ ReadCloseFrame(r) \/ HandleNothing(r)
              \/ HandleIntroduction(r) \/ HandleTasksDone(r)
       PROVE  FreshInv'
  BY <1>1, <1>3, <1>12
  DEF ReadFails, ReadCloseFrame, HandleNothing, HandleIntroduction, HandleTasksDone, At,
      connection, backend
<1>13. ASSUME NEW r \in Connections, NEW type, NEW content, ReaderSends(r, type, content),
              pc[r] \in {"hello", "handling"}
       PROVE  FreshInv'
  <2>1. ~NotMade(r)
    BY <1>0, <1>13
  <2>2. /\ UNCHANGED <<chan, served, hellos>> /\ pc'[Loop] = pc[Loop]
        /\ \A k \in Connections \ {r} : sending'[k] = sending[k] /\ pc'[k] = pc[k]
    BY <1>13 DEF ReaderSends, BeginSend, Goto, connection, backend, Goroutines
  <2> QED
    BY <1>0, <2>1, <2>2
<1>14. ASSUME NEW r \in Connections,
              \/ SendHello(r) \/ HandleGreetings(r)
              \/ \E e \in Events : HandleTasksSubscribes(r, e) \/ HandleTasksUnsubscribes(r, e)
       PROVE  FreshInv'
  BY <1>13, <1>14
  DEF SendHello, HandleGreetings, HandleTasksSubscribes, HandleTasksUnsubscribes, Handling, At
<1>15. ASSUME NEW s \in Senders, SendLogs(s)
       PROVE  FreshInv'
  BY <1>0, <1>15 DEF SendLogs, BeginSend, connection, backend
<1>16. CASE \/ Stop
            \/ \E k \in Connections, how \in {"closedByPeer", "lost"} : PeerCloses(k, how)
            \/ UNCHANGED vars
  BY <1>2, <1>16 DEF Stop, PeerCloses, vars, data, connection, backend
<1>17. CASE WrongState \/ StopPanics \/ \E r \in Connections : ReadPanics(r) \/ ReaderSendPanics(r)
  BY <1>4, <1>17 DEF WrongState, StopPanics, ReadPanics, ReaderSendPanics
<1> QED
  BY <1>5, <1>6, <1>7, <1>8, <1>9, <1>10, <1>11, <1>12, <1>14, <1>15, <1>16, <1>17
  DEF Next, RunLoop, ReaderRuns, Environment

\* onDisconnect holds c.mut from its look at the state to its change of it, and
\* meanwhile only Stop changes the state, and a reader from Preparing to Connected.
LEMMA StepClosingInv ==
    ASSUME Typed, LinkInv, [Next]_vars
    PROVE  ClosingInv'
<1> USE LoopIsNoReader DEF Typed, TypeOK, ClosingInv
<1>0. ClosingInv
  BY DEF LinkInv
<1>1. ASSUME NEW a \in Actors, NEW label, Goto(a, label), label # "closing", UNCHANGED mut,
             state' \in {state, "Stopped"}
      PROVE  ClosingInv'
  BY <1>0, <1>1 DEF Goto
<1>2. ASSUME UNCHANGED <<pc, mut>>, state' \in {state, "Stopped"}
      PROVE  ClosingInv'
  BY <1>0, <1>2
<1>3. ASSUME NEW a \in Actors, NEW from, NEW to, Moves(a, from, to), to # "closing",
             UNCHANGED state
      PROVE  ClosingInv'
  BY <1>1, <1>3 DEF Moves, control
<1>4. ASSUME NEW why, Dies(why)
      PROVE  ClosingInv'
  BY <1>2, <1>4 DEF Dies
<1>5. CASE LoopEnds \/ Wakes \/ PumpFails \/ PumpEnds
  BY <1>3, <1>5 DEF LoopEnds, Wakes, PumpFails, PumpEnds
<1>6. ASSUME NEW a \in Actors, NEW label, Goto(a, label), label # "closing", UNCHANGED mut,
             state \in {"Connecting", "Disconnected"}
      PROVE  ClosingInv'
  BY <1>0, <1>6 DEF Goto
<1>7. CASE BeginConnect \/ TicketFails \/ TicketIssued \/ DialFails
  BY <1>6, <1>7 DEF BeginConnect, TicketFails, TicketIssued, DialFails, Moves, Transition, control
<1>8. CASE StartAsync
  <2>1. \A k \in Connections : pc[k] = "none"
    BY <1>8 DEF StartAsync, Moves, At, LinkInv, PresentInv, FreshInv, NotMade, Untouched,
                Connections
  <2> QED
    BY <1>0, <1>8, <2>1 DEF StartAsync, Moves, At, Goto, control, Actors
<1>9. CASE DialSucceeds
  BY <1>0, <1>9 DEF DialSucceeds, Transition, control
<1>10. ASSUME NEW g \in Goroutines, PumpWrites(g)
       PROVE  ClosingInv'
  BY <1>1, <1>2, <1>10 DEF PumpWrites, AfterSend, control
<1>11. ASSUME NEW a \in Actors, OnDisconnect(a)
       PROVE  ClosingInv'
  <2>1. CASE DisconnectIsOver(a)
    BY <1>3, <2>1 DEF DisconnectIsOver, AfterDisconnect
  <2>2. CASE DisconnectLocks(a)
    BY <1>0, <2>2 DEF DisconnectLocks, Goto
  <2>3. CASE DisconnectCloses(a)
    BY <1>0, <2>3 DEF DisconnectCloses, Goto, At, AfterDisconnect
  <2> QED
    BY <1>11, <2>1, <2>2, <2>3 DEF OnDisconnect
<1>12. ASSUME NEW r \in Connections,
              \/ ReadMessage(r) \/ ReadFails(r) \/ ReadCloseFrame(r) \/ HandleNothing(r)
              \/ HandleTasksDone(r)
       PROVE  ClosingInv'
  BY <1>1, <1>3, <1>12
  DEF ReadMessage, ReadFails, ReadCloseFrame, HandleNothing, HandleTasksDone, control
<1>13. ASSUME NEW r \in Connections, HandleIntroduction(r)
       PROVE  ClosingInv'
  BY <1>0, <1>3, <1>13 DEF HandleIntroduction, Moves, Goto, control
<1>14. ASSUME NEW r \in Connections,
              \/ SendHello(r) \/ HandleGreetings(r)
              \/ \E e \in Events : HandleTasksSubscribes(r, e) \/ HandleTasksUnsubscribes(r, e)
       PROVE  ClosingInv'
  BY <1>1, <1>14
  DEF SendHello, HandleGreetings, HandleTasksSubscribes, HandleTasksUnsubscribes, ReaderSends,
      control
<1>15. CASE \/ \E s \in Senders : SendLogs(s)
            \/ Stop
            \/ \E k \in Connections, how \in {"closedByPeer", "lost"} : PeerCloses(k, how)
            \/ UNCHANGED vars
  BY <1>2, <1>15 DEF SendLogs, Stop, PeerCloses, vars, control
<1>16. CASE WrongState \/ StopPanics \/ \E r \in Connections : ReadPanics(r) \/ ReaderSendPanics(r)
  BY <1>4, <1>16 DEF WrongState, StopPanics, ReadPanics, ReaderSendPanics
<1> QED
  BY <1>5, <1>7, <1>8, <1>9, <1>10, <1>11, <1>12, <1>13, <1>14, <1>15, <1>16
  DEF Next, RunLoop, ReaderRuns, Environment

\* The loop connects only when the readers are through, and the state it connects
\* from means that the connection before was closed (runLoop, onDisconnect).
LEMMA StepPresentInv ==
    ASSUME Typed, LinkInv, [Next]_vars
    PROVE  PresentInv'
<1> USE LoopIsNoReader DEF Typed, TypeOK, PresentInv, Idle
<1>0. PresentInv
  BY DEF LinkInv
<1>h. \A k \in Connections : Held(k) => link[k] \notin {"none", "closed"}
  BY DEF Held
<1>k. ASSUME UNCHANGED link
      PROVE  \A k \in Connections : Held(k)' = Held(k)
  BY <1>k DEF Held
<1>1. ASSUME UNCHANGED <<link, pc, conn, chan>>, state' \in {state, "Stopped"}
      PROVE  PresentInv'
  BY <1>0, <1>1, <1>k
<1>2. ASSUME NEW to \in {"connect", "disconnect", "closing", "sleep", "done"},
             NEW from, At(Loop, from), from # "new", Goto(Loop, to),
             UNCHANGED <<state, link, conn, chan>>
      PROVE  PresentInv'
  BY <1>0, <1>2, <1>k DEF Goto, At
<1>3. ASSUME NEW r \in Connections, NEW to, Goto(r, to),
             ~Idle(r) \/ to \in {"none", "done", "sending"}, UNCHANGED <<link, conn, chan>>,
             state' = state \/ (state = "Preparing" /\ state' = "Connected")
      PROVE  PresentInv'
  BY <1>0, <1>3, <1>k DEF Goto
<1>4. ASSUME NEW why, Dies(why)
      PROVE  PresentInv'
  BY <1>1, <1>4 DEF Dies, data, connection
<1>5. CASE LoopEnds \/ Wakes \/ PumpFails \/ PumpEnds
  BY <1>2, <1>5 DEF LoopEnds, Wakes, PumpFails, PumpEnds, Moves, At, data, connection
<1>6. CASE StartAsync
  BY <1>0, <1>k, <1>6 DEF StartAsync, Moves, At, Goto, Transition, data, connection
<1>7. CASE BeginConnect
  BY <1>0, <1>k, <1>7 DEF BeginConnect, Moves, At, Goto, Transition, data, connection
<1>8. CASE TicketFails
  BY <1>0, <1>k, <1>8 DEF TicketFails, Moves, At, Goto, Transition, data, connection
<1>9. CASE TicketIssued
  BY <1>0, <1>k, <1>9 DEF TicketIssued, At, Goto
<1>10. CASE DialFails
  BY <1>0, <1>k, <1>10 DEF DialFails, At, Goto, Transition
<1>11. CASE DialSucceeds
  <2>1. chan \in Connections
    BY <1>11 DEF DialSucceeds, At, DialInv
  <2>2. \A k \in Connections : Held(k)' <=> k = chan
    BY <1>0, <1>11, <2>1 DEF DialSucceeds, Transition, Held
  <2> QED
    BY <1>0, <1>11, <2>1, <2>2
    DEF DialSucceeds, Transition, StateOnceDialed, At
<1>12. ASSUME NEW g \in Goroutines, PumpWrites(g)
       PROVE  PresentInv'
  <2>1. g \in Connections => g = chan
    BY <1>12, OnlyTheNewestSends
  <2> QED
    BY <1>0, <1>12, <1>k, <2>1 DEF PumpWrites, AfterSend, Goto, At, connection
<1>13. ASSUME NEW a \in Actors, OnDisconnect(a)
       PROVE  PresentInv'
  <2>0. a # Loop => a \in Connections
    BY DEF Actors
  <2>1. CASE DisconnectIsOver(a)
    BY <1>2, <1>3, <2>0, <2>1 DEF DisconnectIsOver, AfterDisconnect, Moves, At, data, connection
  <2>2. CASE DisconnectLocks(a)
    BY <1>2, <1>3, <2>0, <2>2 DEF DisconnectLocks, At, data, connection
  <2>3. CASE DisconnectCloses(a)
    <3>1. \A k \in Connections : ~Held(k)'
      BY <1>0, <2>3 DEF DisconnectCloses, LinkOnceClosed, Held
    <3>2. UNCHANGED <<conn, chan>> /\ state' = "Disconnected" /\ pc[a] = "closing"
      BY <2>3 DEF DisconnectCloses, StateOnceClosed, At
    <3>3. pc' = [pc EXCEPT ![a] = IF a = Loop THEN "sleep" ELSE "done"]
      BY <2>3 DEF DisconnectCloses, Goto, AfterDisconnect
    <3> QED
      BY <1>0, <2>0, <3>1, <3>2, <3>3
  <2> QED
    BY <1>13, <2>1, <2>2, <2>3 DEF OnDisconnect
<1>14. ASSUME NEW r \in Connections,
              \/ ReadMessage(r) \/ ReadFails(r) \/ ReadCloseFrame(r) \/ HandleNothing(r)
              \/ HandleTasksDone(r) \/ HandleIntroduction(r)
       PROVE  PresentInv'
  BY <1>3, <1>14
  DEF ReadMessage, ReadFails, ReadCloseFrame, HandleNothing, HandleTasksDone, HandleIntroduction,
      Moves, At, data, connection
<1>15. ASSUME NEW r \in Connections,
              \/ SendHello(r) \/ HandleGreetings(r)
              \/ \E e \in Events : HandleTasksSubscribes(r, e) \/ HandleTasksUnsubscribes(r, e)
       PROVE  PresentInv'
  BY <1>3, <1>15
  DEF SendHello, HandleGreetings, HandleTasksSubscribes, HandleTasksUnsubscribes, ReaderSends,
      connection
<1>16. CASE (\E s \in Senders : SendLogs(s)) \/ Stop \/ UNCHANGED vars
  BY <1>1, <1>16 DEF SendLogs, Stop, vars, data, connection
<1>17. ASSUME NEW k \in Connections, NEW how \in {"closedByPeer", "lost"}, PeerCloses(k, how)
       PROVE  PresentInv'
  <2>1. \A j \in Connections : Held(j)' => Held(j)
    BY <1>17 DEF PeerCloses, Held
  <2> QED
    BY <1>0, <1>17, <2>1 DEF PeerCloses
<1>18. CASE WrongState \/ StopPanics \/ \E r \in Connections : ReadPanics(r) \/ ReaderSendPanics(r)
  BY <1>4, <1>18 DEF WrongState, StopPanics, ReadPanics, ReaderSendPanics
<1> QED
  BY <1>5, <1>6, <1>7, <1>8, <1>9, <1>10, <1>11, <1>12, <1>13, <1>14, <1>15, <1>16, <1>17, <1>18
  DEF Next, RunLoop, ReaderRuns, Environment

\* The unlocked fields stay in agreement through every interleaving of the loop,
\* the readers, the senders and the caller of Stop.
LEMMA LinkInvariant == Spec => [](Typed /\ LinkInv)
<1>1. Typed /\ LinkInv /\ [Next]_vars => LinkInv'
  BY StepPresentInv, StepClosingInv, StepSendingInv, StepFreshInv DEF LinkInv
<1> QED
  BY InitLinkInv, TypedInvariant, <1>1, PTL DEF Spec

\* The agent holds one connection at most, whichever goroutine noticed that the
\* one before was lost and whatever Stop did to the state in the meantime
\* (runLoop, readPump, onDisconnect, Stop).
THEOREM OneConnectionHolds == Spec => []OneConnection
<1>1. LinkInv => OneConnection
  BY DEF LinkInv, PresentInv, OneConnection
<1> QED
  BY LinkInvariant, <1>1, PTL

-----------------------------------------------------------------------------
(* What has been said on the present connection *)

\* Only the reader of the present connection can make the client Connected, and
\* only for a message of that connection (onIntroduction).
LEMMA StepMessagesInv ==
    ASSUME Typed, LinkInv, MessagesInv, [Next]_vars
    PROVE  MessagesInv'
<1> USE LoopIsNoReader DEF Typed, TypeOK, MessagesInv
<1>1. ASSUME UNCHANGED <<rm, served>>, state' # "Connected" \/ (state' = state /\ UNCHANGED conn)
      PROVE  MessagesInv'
  BY <1>1
<1>2. ASSUME NEW why, Dies(why)
      PROVE  MessagesInv'
  BY <1>1, <1>2 DEF Dies, data, connection, reading, backend
<1>3. CASE \/ StartAsync \/ BeginConnect \/ LoopEnds \/ TicketFails \/ Wakes
           \/ PumpFails \/ PumpEnds
  BY <1>1, <1>3
  DEF StartAsync, BeginConnect, LoopEnds, TicketFails, Wakes, PumpFails, PumpEnds, Moves,
      Transition, data, connection, reading, backend
<1>4. CASE TicketIssued \/ DialFails \/ DialSucceeds
  BY <1>1, <1>4
  DEF TicketIssued, DialFails, DialSucceeds, StateOnceDialed, Transition, reading, backend
<1>5. ASSUME NEW g \in Goroutines, PumpWrites(g)
      PROVE  MessagesInv'
  BY <1>1, <1>5 DEF PumpWrites, BackendReceives, connection, reading, backend
<1>6. ASSUME NEW a \in Actors, OnDisconnect(a)
      PROVE  MessagesInv'
  BY <1>1, <1>6
  DEF OnDisconnect, DisconnectIsOver, DisconnectLocks, DisconnectCloses, StateOnceClosed, Moves,
      data, connection, reading, backend
<1>7. ASSUME NEW r \in Connections, ReadMessage(r)
      PROVE  MessagesInv'
  <2>1. PICK m \in NextMessages(r) :
             rm' = [rm EXCEPT ![r] = m] /\ served' = [served EXCEPT ![r] = m.type]
    BY <1>7 DEF ReadMessage
  <2>2. m.type # "nothing"
    BY <2>1 DEF NextMessages
  <2>3. UNCHANGED <<state, conn>>
    BY <1>7 DEF ReadMessage, connection
  <2> QED
    BY <2>1, <2>2, <2>3
<1>8. ASSUME NEW r \in Connections,
             \/ ReadFails(r) \/ ReadCloseFrame(r) \/ HandleNothing(r) \/ HandleTasksDone(r)
      PROVE  MessagesInv'
  BY <1>1, <1>8
  DEF ReadFails, ReadCloseFrame, HandleNothing, HandleTasksDone, Moves, data, connection,
      reading, backend
<1>9. ASSUME NEW r \in Connections, HandleIntroduction(r)
      PROVE  MessagesInv'
  <2>1. UNCHANGED <<rm, served, conn>>
    BY <1>9 DEF HandleIntroduction, Moves, data, connection, reading, backend
  <2>2. CASE state = "Preparing"
    <3>1. r = chan /\ conn = chan
      BY <1>9, <2>2, OnlyTheNewestReads
      DEF HandleIntroduction, Handling, At, LinkInv, PresentInv
    <3>2. served[r] # "nothing"
      BY <1>9 DEF HandleIntroduction, Handling
    <3> QED
      BY <2>1, <3>1, <3>2
  <2>3. CASE state # "Preparing"
    BY <1>1, <1>9, <2>1, <2>3 DEF HandleIntroduction
  <2> QED
    BY <2>2, <2>3
<1>10. ASSUME NEW r \in Connections,
              \/ SendHello(r) \/ HandleGreetings(r)
              \/ \E e \in Events : HandleTasksSubscribes(r, e) \/ HandleTasksUnsubscribes(r, e)
       PROVE  MessagesInv'
  BY <1>1, <1>10
  DEF SendHello, HandleGreetings, HandleTasksSubscribes, HandleTasksUnsubscribes, ReaderSends,
      connection, reading, backend
<1>11. CASE \/ \E s \in Senders : SendLogs(s)
            \/ Stop
            \/ \E k \in Connections, how \in {"closedByPeer", "lost"} : PeerCloses(k, how)
            \/ UNCHANGED vars
  BY <1>1, <1>11 DEF SendLogs, Stop, PeerCloses, vars, data, connection, reading, backend
<1>12. CASE WrongState \/ StopPanics \/ \E r \in Connections : ReadPanics(r) \/ ReaderSendPanics(r)
  BY <1>2, <1>12 DEF WrongState, StopPanics, ReadPanics, ReaderSendPanics
<1> QED
  BY <1>3, <1>4, <1>5, <1>6, <1>7, <1>8, <1>9, <1>10, <1>11, <1>12
  DEF Next, RunLoop, ReaderRuns, Environment

\* So what a reader handles is always what its connection brought it.
LEMMA MessagesInvariant == Spec => [](Typed /\ LinkInv /\ MessagesInv)
<1>1. Init => MessagesInv
  BY DEF Init, MessagesInv, NoMessage
<1>2. Typed /\ LinkInv /\ MessagesInv /\ [Next]_vars => MessagesInv'
  BY StepMessagesInv
<1> QED
  BY LinkInvariant, <1>1, <1>2, PTL DEF Spec

\* The client is Connected only when the backend of the connection it has now has
\* introduced itself: no reader of an earlier connection can say so for it
\* (onIntroduction, connectWithTicket).
THEOREM ConnectedMeansIntroducedHolds == Spec => []ConnectedMeansIntroduced
<1>1. Typed /\ LinkInv /\ MessagesInv => ConnectedMeansIntroduced
  BY DEF LinkInv, PresentInv, MessagesInv, ConnectedMeansIntroduced
<1> QED
  BY MessagesInvariant, <1>1, PTL

\* hello goes to the backend once a connection: the client leaves Preparing as the
\* one reader of the connection decides to send it, and nothing on that connection
\* brings Preparing back (onIntroduction, though readPump may handle an
\* introduction again after a failed read).
LEMMA StepHelloInv ==
    ASSUME Typed, LinkInv, HelloInv, [Next]_vars
    PROVE  HelloInv'
<1> USE LoopIsNoReader DEF Typed, TypeOK, HelloInv
<1>1. ASSUME UNCHANGED <<sending, hellos>>,
             \A k \in Connections : pc'[k] = "hello" => pc[k] = "hello",
             state' # "Preparing" \/ (state' = state /\ UNCHANGED conn),
             state = "Preparing" => conn \in Connections
      PROVE  HelloInv'
  BY <1>1
<1>2. state = "Preparing" => conn \in Connections /\ conn = chan
  BY DEF LinkInv, PresentInv
<1>3. ASSUME NEW a \in Actors, NEW label, Goto(a, label), label # "hello",
             UNCHANGED <<sending, hellos>>,
             state' # "Preparing" \/ (state' = state /\ UNCHANGED conn)
      PROVE  HelloInv'
  <2>1. \A k \in Connections : pc'[k] = "hello" => pc[k] = "hello"
    BY <1>3 DEF Goto
  <2> QED
    BY <1>1, <1>2, <1>3, <2>1
<1>4. ASSUME NEW why, Dies(why)
      PROVE  HelloInv'
  BY <1>1, <1>2, <1>4 DEF Dies, data, connection, backend
<1>5. CASE \/ StartAsync \/ BeginConnect \/ LoopEnds \/ TicketFails \/ Wakes
           \/ PumpFails \/ PumpEnds
  BY <1>3, <1>5
  DEF StartAsync, BeginConnect, LoopEnds, TicketFails, Wakes, PumpFails, PumpEnds, Moves,
      Transition, data, connection, backend
<1>6. CASE TicketIssued \/ DialFails
  BY <1>3, <1>6 DEF TicketIssued, DialFails, Transition, backend
<1>7. CASE DialSucceeds
  <2>1. chan \in Connections /\ hellos[chan] = 0 /\ sending[chan] = NoSend
    BY <1>7 DEF DialSucceeds, At, DialInv, LinkInv, FreshInv, NotMade, Untouched
  <2>2. conn' = chan /\ UNCHANGED <<sending, hellos>> /\ pc'[chan] = "reading"
        /\ \A k \in Connections : pc'[k] = "hello" => pc[k] = "hello"
    BY <1>7, <2>1 DEF DialSucceeds, backend
  <2> QED
    BY <2>1, <2>2 DEF NoSend
<1>8. ASSUME NEW g \in Goroutines, PumpWrites(g)
      PROVE  HelloInv'
  <2>1. conn = chan /\ chan \in Connections /\ (g \in Connections => g = chan /\ pc[g] = "sending")
    BY <1>8, OnlyTheNewestSends
  <2>2. UNCHANGED <<state, conn>> /\ sending' = [sending EXCEPT ![g] = NoSend]
    BY <1>8 DEF PumpWrites, connection
  <2>3. \A k \in Connections : pc'[k] = "hello" => pc[k] = "hello"
    BY <1>8 DEF PumpWrites, AfterSend, Goto
  <2>4. CASE g \in Connections /\ sending[g].type = "hello"
    <3>1. hellos'[chan] <= 1 /\ \A k \in Connections : k # chan => hellos'[k] = hellos[k]
      BY <1>8, <2>1, <2>4 DEF PumpWrites, BackendReceives, backend
    <3>2. pc'[chan] # "hello" /\ sending'[chan].type # "hello"
      BY <2>1, <2>2, <2>3, <2>4 DEF NoSend, Goroutines
    <3>3. state # "Preparing"
      BY <2>1, <2>4
    <3> QED
      BY <2>1, <2>2, <2>3, <2>4, <3>1, <3>2, <3>3 DEF Goroutines
  <2>5. CASE ~(g \in Connections /\ sending[g].type = "hello")
    <3>1. UNCHANGED hellos
      BY <1>8, <2>5 DEF PumpWrites, BackendReceives, backend, Goroutines
    <3>2. \A k \in Goroutines : sending'[k].type = "hello" => sending[k].type = "hello"
      BY <2>2 DEF NoSend
    <3> QED
      BY <1>2, <2>2, <2>3, <3>1, <3>2 DEF Goroutines
  <2> QED
    BY <2>4, <2>5
<1>9. ASSUME NEW a \in Actors, OnDisconnect(a)
      PROVE  HelloInv'
  BY <1>3, <1>9
  DEF OnDisconnect, DisconnectIsOver, DisconnectLocks, DisconnectCloses, AfterDisconnect,
      StateOnceClosed, Moves, data, connection, backend
<1>10. ASSUME NEW r \in Connections,
              \/ ReadMessage(r) \/ ReadFails(r) \/ ReadCloseFrame(r) \/ HandleNothing(r)
              \/ HandleTasksDone(r)
       PROVE  HelloInv'
  BY <1>3, <1>10
  DEF ReadMessage, ReadFails, ReadCloseFrame, HandleNothing, HandleTasksDone, Moves, data,
      connection, backend
<1>11. ASSUME NEW r \in Connections, HandleIntroduction(r)
       PROVE  HelloInv'
  <2>1. CASE state = "Preparing"
    <3>1. r = chan /\ conn = chan /\ sending[r] = NoSend
      BY <1>2, <1>11, <2>1, OnlyTheNewestReads DEF HandleIntroduction, Handling, At
    <3>2. UNCHANGED <<sending, hellos>> /\ state' = "Connected"
          /\ \A k \in Connections : pc'[k] = "hello" => k = r \/ pc[k] = "hello"
      BY <1>11, <2>1 DEF HandleIntroduction, Moves, Goto, data, connection, backend
    <3> QED
      BY <2>1, <3>1, <3>2
  <2>2. CASE state # "Preparing"
    BY <1>3, <1>11, <2>2 DEF HandleIntroduction, Moves, data, connection, backend
  <2> QED
    BY <2>1, <2>2
<1>12. ASSUME NEW g \in Goroutines, NEW type \in Sends, NEW content, BeginSend(g, type, content),
              UNCHANGED <<state, conn, hellos>>, type # "hello",
              \A k \in Connections : pc'[k] = "hello" => pc[k] = "hello"
       PROVE  HelloInv'
  BY <1>2, <1>12 DEF BeginSend, Goroutines
<1>13. ASSUME NEW r \in Connections, SendHello(r)
       PROVE  HelloInv'
  <2>1. UNCHANGED <<state, conn, hellos>> /\ hellos[r] = 0 /\ pc[r] = "hello"
    BY <1>13 DEF SendHello, ReaderSends, At, connection, backend
  <2>2. pc' = [pc EXCEPT ![r] = "sending"]
        /\ \A g \in Goroutines \ {r} : sending'[g] = sending[g]
    BY <1>13 DEF SendHello, ReaderSends, BeginSend, Goto
  <2>3. state = "Preparing" => r # conn
    BY <2>1
  <2> QED
    BY <1>2, <2>1, <2>2, <2>3 DEF Goroutines
<1>14. ASSUME NEW r \in Connections,
              \/ HandleGreetings(r)
              \/ \E e \in Events : HandleTasksSubscribes(r, e) \/ HandleTasksUnsubscribes(r, e)
       PROVE  HelloInv'
  BY <1>12, <1>14
  DEF HandleGreetings, HandleTasksSubscribes, HandleTasksUnsubscribes, ReaderSends, Goto, Sends,
      Goroutines, connection, backend
<1>15. ASSUME NEW s \in Senders, SendLogs(s)
       PROVE  HelloInv'
  BY <1>12, <1>15 DEF SendLogs, Sends, Goroutines, connection, backend
<1>16. CASE \/ Stop
            \/ \E k \in Connections, how \in {"closedByPeer", "lost"} : PeerCloses(k, how)
            \/ UNCHANGED vars
  BY <1>1, <1>2, <1>16 DEF Stop, PeerCloses, vars, data, connection, backend
<1>17. CASE WrongState \/ StopPanics \/ \E r \in Connections : ReadPanics(r) \/ ReaderSendPanics(r)
  BY <1>4, <1>17 DEF WrongState, StopPanics, ReadPanics, ReaderSendPanics
<1> QED
  BY <1>5, <1>6, <1>7, <1>8, <1>9, <1>10, <1>11, <1>13, <1>14, <1>15, <1>16, <1>17
  DEF Next, RunLoop, ReaderRuns, Environment

\* The backend is told hello at most once on a connection.
THEOREM HelloOnceHolds == Spec => []HelloOnce
<1>1. Init => HelloInv
  BY LoopIsNoReader DEF Init, HelloInv, NoSend, Goroutines, Connections, Actors
<1>2. Typed /\ LinkInv /\ HelloInv /\ [Next]_vars => HelloInv'
  BY StepHelloInv
<1>3. HelloInv => HelloOnce
  BY DEF HelloInv, HelloOnce
<1> QED
  BY LinkInvariant, <1>1, <1>2, <1>3, PTL DEF Spec

-----------------------------------------------------------------------------
(* The subscriptions of the backend *)

\* An open connection is the newest, and no other reader is awake.
LEMMA OpenIsNewest ==
    ASSUME LinkInv, NEW k \in Connections, link[k] = "open"
    PROVE  k = chan /\ k = conn
  BY DEF LinkInv, PresentInv, Held

\* Each message of the reader carries what the backend is behind by; nobody else
\* changes eventChannels before the message has arrived (onGreetings,
\* addEventChannel, removeEventChannel, writePump).
LEMMA StepSubscriptionsInv ==
    ASSUME Typed, LinkInv, MessagesInv, SubscriptionsInv, [Next]_vars
    PROVE  SubscriptionsInv'
<1> USE LoopIsNoReader DEF Typed, TypeOK
<1>s. ASSUME UNCHANGED <<sending, served, rm, serverSubs, eventChannels>>,
             NEW k \in Connections, InStep(k), pc'[k] = pc[k] \/ pc'[k] \in {"disconnect", "closing", "done"}
      PROVE  InStep(k)'
  BY <1>s DEF InStep, TellsTheRest
<1>1. ASSUME UNCHANGED <<sending, served, rm, serverSubs, eventChannels>>,
             \A k \in Connections : link'[k] = "open" => link[k] = "open",
             \A k \in Connections : pc'[k] = pc[k] \/ pc'[k] \in {"disconnect", "closing", "done"}
      PROVE  SubscriptionsInv'
  BY <1>1, <1>s DEF SubscriptionsInv
<1>2. ASSUME NEW why, Dies(why)
      PROVE  SubscriptionsInv'
  BY <1>1, <1>2 DEF Dies, data, connection, reading, backend
<1>3. ASSUME NEW to, Goto(Loop, to)
      PROVE  \A k \in Connections : pc'[k] = pc[k]
  BY <1>3 DEF Goto
<1>4. CASE \/ StartAsync \/ BeginConnect \/ LoopEnds \/ TicketFails \/ Wakes
           \/ PumpFails \/ PumpEnds
  BY <1>1, <1>3, <1>4
  DEF StartAsync, BeginConnect, LoopEnds, TicketFails, Wakes, PumpFails, PumpEnds, Moves,
      data, connection, reading, backend
<1>5. CASE TicketIssued \/ DialFails
  BY <1>1, <1>3, <1>5 DEF TicketIssued, DialFails, reading, backend
<1>6. CASE DialSucceeds
  <2>1. chan \in Connections /\ served[chan] = "nothing"
    BY <1>6 DEF DialSucceeds, At, DialInv, LinkInv, FreshInv, NotMade, Untouched
  <2>2. UNCHANGED <<sending, served, rm, serverSubs, eventChannels>>
    BY <1>6 DEF DialSucceeds, reading, backend
  <2>3. \A k \in Connections : k # chan => pc'[k] = pc[k] /\ link'[k] = link[k]
    BY <1>6 DEF DialSucceeds
  <2>4. pc'[chan] = "reading"
    BY <1>6, <2>1 DEF DialSucceeds
  <2>5. \A k \in Connections : k = chan => InStep(k)'
    BY <2>1, <2>2, <2>4 DEF InStep
  <2> QED
    BY <1>s, <2>2, <2>3, <2>5 DEF SubscriptionsInv
<1>7. ASSUME NEW g \in Goroutines, PumpWrites(g)
      PROVE  SubscriptionsInv'
  <2>1. conn = chan /\ chan \in Connections /\ (g \in Connections => g = chan /\ pc[g] = "sending")
    BY <1>7, OnlyTheNewestSends
  <2>2. /\ UNCHANGED <<served, rm, eventChannels, link>>
        /\ sending' = [sending EXCEPT ![g] = NoSend]
    BY <1>7 DEF PumpWrites, BackendReceives, connection, reading, backend
  <2>3. \A s \in Senders : sending'[s].type \in {"none", "log"}
    BY <2>2 DEF SubscriptionsInv, NoSend, Goroutines
  <2>4. CASE link[conn] # "open"
    BY <2>2, <2>3, <2>4, OpenIsNewest DEF SubscriptionsInv
  <2>5. CASE link[conn] = "open" /\ g \in Senders
    <3>1. sending[g].type \in {"none", "log"}
      BY <2>5 DEF SubscriptionsInv
    <3>2. UNCHANGED <<serverSubs, pc>>
      BY <1>7, <2>5, <3>1 DEF PumpWrites, BackendReceives, AfterSend
    <3>3. \A k \in Connections : sending'[k] = sending[k]
      BY <2>2, <2>5
    <3>4. \A k \in Connections : InStep(k) => InStep(k)'
      BY <2>2, <3>2, <3>3 DEF InStep, TellsTheRest
    <3> QED
      BY <2>2, <2>3, <3>4 DEF SubscriptionsInv
  <2>6. CASE link[conn] = "open" /\ g \in Connections
    <3>1. TellsTheRest(g, sending[g])
      BY <2>1, <2>6 DEF SubscriptionsInv, InStep
    <3>2. pc'[g] = IF rm[g].type = "tasks" THEN "handling" ELSE "reading"
      BY <1>7, <2>6 DEF PumpWrites, AfterSend, Goto
    <3>3. BackendReceives(g, sending[g])
      BY <1>7, <2>1, <2>6 DEF PumpWrites
    <3>4. CASE sending[g].type \in {"set_subscriptions", "subscribe", "unsubscribe"}
      <4>1. serverSubs'[g] = eventChannels
        BY <2>6, <3>1, <3>3, <3>4 DEF TellsTheRest, BackendReceives
      <4>2. rm[g].type \in {"greetings", "tasks"}
        BY <3>1, <3>4 DEF TellsTheRest
      <4>3. InStep(g)'
        BY <2>2, <3>2, <4>1, <4>2 DEF InStep
      <4> QED
        BY <2>1, <2>2, <2>3, <2>6, <4>3, OpenIsNewest DEF SubscriptionsInv
    <3>5. CASE sending[g].type \notin {"set_subscriptions", "subscribe", "unsubscribe"}
      <4>1. rm[g].type = "introduction"
        BY <3>1, <3>5 DEF TellsTheRest
      <4>2. served[g] = "introduction"
        BY <2>6, <4>1 DEF MessagesInv
      <4>3. InStep(g)'
        BY <2>2, <3>2, <4>1, <4>2 DEF InStep
      <4> QED
        BY <2>1, <2>2, <2>3, <2>6, <4>3, OpenIsNewest DEF SubscriptionsInv
    <3> QED
      BY <3>4, <3>5
  <2> QED
    BY <2>4, <2>5, <2>6 DEF Goroutines
<1>8. ASSUME NEW a \in Actors, OnDisconnect(a)
      PROVE  SubscriptionsInv'
  <2>1. \A k \in Connections : pc'[k] = pc[k] \/ pc'[k] \in {"disconnect", "closing", "done"}
    BY <1>8
    DEF OnDisconnect, DisconnectIsOver, DisconnectLocks, DisconnectCloses, AfterDisconnect, Moves,
        Goto, Loop
  <2>2. \A k \in Connections : link'[k] = "open" => link[k] = "open"
    BY <1>8
    DEF OnDisconnect, DisconnectIsOver, DisconnectLocks, DisconnectCloses, LinkOnceClosed, Moves,
        data, connection
  <2> QED
    BY <1>1, <1>8, <2>1, <2>2
    DEF OnDisconnect, DisconnectIsOver, DisconnectLocks, DisconnectCloses, Moves, data, reading,
        backend
<1>9. ASSUME NEW r \in Connections, UNCHANGED <<link, sending>>, InStep(r)',
             \A k \in Connections \ {r} : link[k] # "open"
      PROVE  SubscriptionsInv'
  BY <1>9 DEF SubscriptionsInv
<1>10. ASSUME NEW r \in Connections, ReadMessage(r)
       PROVE  SubscriptionsInv'
  <2>1. PICK m \in NextMessages(r) :
             rm' = [rm EXCEPT ![r] = m] /\ served' = [served EXCEPT ![r] = m.type]
    BY <1>10 DEF ReadMessage
  <2>2. /\ UNCHANGED <<link, sending, serverSubs, eventChannels>>
        /\ pc[r] = "reading" /\ link[r] = "open" /\ pc'[r] = "handling"
    BY <1>10 DEF ReadMessage, At, Goto, connection
  <2>3. m.type = "tasks" => served[r] \in {"greetings", "tasks"}
    BY <2>1 DEF NextMessages
  <2>4. InStep(r)'
    BY <2>1, <2>2, <2>3 DEF SubscriptionsInv, InStep
  <2> QED
    BY <1>9, <2>2, <2>4, OpenIsNewest
<1>11. ASSUME NEW r \in Connections, ReadFails(r)
       PROVE  SubscriptionsInv'
  <2>1. /\ UNCHANGED <<link, sending, serverSubs, eventChannels, rm, served>>
        /\ link[r] # "open" /\ \A k \in Connections \ {r} : pc'[k] = pc[k]
    BY <1>11 DEF ReadFails, Goto, connection, backend
  <2> QED
    BY <1>s, <2>1 DEF SubscriptionsInv
<1>12. ASSUME NEW r \in Connections, NEW from, NEW to, Moves(r, from, to),
              link[r] = "open" => InStep(r)'
       PROVE  SubscriptionsInv'
  <2>1. UNCHANGED <<link, sending, serverSubs, eventChannels, rm, served>>
        /\ \A k \in Connections \ {r} : pc'[k] = pc[k]
    BY <1>12 DEF Moves, Goto, data, connection, reading, backend
  <2> QED
    BY <1>s, <1>12, <2>1 DEF SubscriptionsInv
<1>13. ASSUME NEW r \in Connections, ReadCloseFrame(r)
       PROVE  SubscriptionsInv'
  BY <1>12, <1>13 DEF ReadCloseFrame
<1>14. ASSUME NEW r \in Connections, NEW to \in {"reading", "hello"}, Moves(r, "handling", to),
              to = "hello" => rm[r].type = "introduction",
              rm[r].type \in {"none", "introduction"}
                  \/ (rm[r].type = "tasks" /\ to = "reading")
       PROVE  SubscriptionsInv'
  <2>1. /\ UNCHANGED <<link, sending, serverSubs, eventChannels, rm, served>>
        /\ pc[r] = "handling" /\ pc'[r] = to
    BY <1>14 DEF Moves, At, Goto, data, connection, reading, backend
  <2>2. link[r] = "open" => InStep(r)'
    BY <1>14, <2>1 DEF SubscriptionsInv, InStep, MessagesInv
  <2> QED
    BY <1>12, <1>14, <2>2
<1>15. ASSUME NEW r \in Connections,
              HandleNothing(r) \/ HandleIntroduction(r) \/ HandleTasksDone(r)
       PROVE  SubscriptionsInv'
  BY <1>14, <1>15 DEF HandleNothing, HandleIntroduction, HandleTasksDone, Handling
<1>16. ASSUME NEW r \in Connections, NEW type, NEW content, ReaderSends(r, type, content),
              pc[r] \in {"hello", "handling"},
              link[r] = "open" =>
                  TellsTheRest(r, [chan |-> chan, type |-> type, data |-> content])'
       PROVE  SubscriptionsInv'
  <2>1. /\ UNCHANGED <<link, serverSubs, rm, served>>
        /\ pc'[r] = "sending"
        /\ sending' = [sending EXCEPT ![r] = [chan |-> chan, type |-> type, data |-> content]]
    BY <1>16 DEF ReaderSends, BeginSend, Goto, connection, reading, backend
  <2>2. r = chan /\ chan' = chan
    BY <1>16, OnlyTheNewestReads DEF ReaderSends, connection
  <2>3. \A s \in Senders : sending'[s] = sending[s]
    BY <2>1
  <2>4. link[r] = "open" => InStep(r)'
    BY <1>16, <2>1, <2>2 DEF InStep, TellsTheRest, Goroutines
  <2> QED
    BY <2>1, <2>2, <2>3, <2>4, OpenIsNewest DEF SubscriptionsInv
<1>17. ASSUME NEW r \in Connections, SendHello(r)
       PROVE  SubscriptionsInv'
  <2>1. pc[r] = "hello" /\ ReaderSends(r, "hello", {}) /\ UNCHANGED rm
    BY <1>17 DEF SendHello, At, ReaderSends, reading
  <2>2. link[r] = "open" => rm[r].type = "introduction"
    BY <2>1 DEF SubscriptionsInv, InStep
  <2>3. link[r] = "open" => TellsTheRest(r, [chan |-> chan, type |-> "hello", data |-> {}])'
    BY <2>1, <2>2 DEF TellsTheRest
  <2> QED
    BY <1>16, <2>1, <2>3
<1>18. ASSUME NEW r \in Connections, HandleGreetings(r)
       PROVE  SubscriptionsInv'
  <2>1. /\ pc[r] = "handling" /\ rm[r].type = "greetings"
        /\ ReaderSends(r, "set_subscriptions", eventChannels) /\ UNCHANGED <<eventChannels, rm>>
    BY <1>18 DEF HandleGreetings, Handling, At, Reported, ReaderSends, reading
  <2>2. TellsTheRest(r, [chan |-> chan, type |-> "set_subscriptions", data |-> eventChannels])'
    BY <2>1 DEF TellsTheRest
  <2> QED
    BY <1>16, <2>1, <2>2
<1>19. ASSUME NEW r \in Connections, NEW e \in Events, HandleTasksSubscribes(r, e)
       PROVE  SubscriptionsInv'
  <2>1. /\ pc[r] = "handling" /\ rm[r].type = "tasks" /\ ReaderSends(r, "subscribe", {e})
        /\ UNCHANGED <<serverSubs, rm>> /\ eventChannels' = eventChannels \cup {e}
    BY <1>19 DEF HandleTasksSubscribes, Handling, At, ReaderSends, backend, reading
  <2>2. link[r] = "open" => serverSubs[r] = eventChannels
    BY <2>1 DEF SubscriptionsInv, InStep
  <2>3. link[r] = "open" => TellsTheRest(r, [chan |-> chan, type |-> "subscribe", data |-> {e}])'
    BY <2>1, <2>2 DEF TellsTheRest
  <2> QED
    BY <1>16, <2>1, <2>3
<1>20. ASSUME NEW r \in Connections, NEW e \in Events, HandleTasksUnsubscribes(r, e)
       PROVE  SubscriptionsInv'
  <2>1. /\ pc[r] = "handling" /\ rm[r].type = "tasks" /\ ReaderSends(r, "unsubscribe", {e})
        /\ UNCHANGED <<serverSubs, rm>> /\ eventChannels' = eventChannels \ {e}
    BY <1>20 DEF HandleTasksUnsubscribes, Handling, At, ReaderSends, backend, reading
  <2>2. link[r] = "open" => serverSubs[r] = eventChannels
    BY <2>1 DEF SubscriptionsInv, InStep
  <2>3. link[r] = "open" => TellsTheRest(r, [chan |-> chan, type |-> "unsubscribe", data |-> {e}])'
    BY <2>1, <2>2 DEF TellsTheRest
  <2> QED
    BY <1>16, <2>1, <2>3
<1>21. ASSUME NEW s \in Senders, SendLogs(s)
       PROVE  SubscriptionsInv'
  <2>1. /\ UNCHANGED <<link, pc, serverSubs, eventChannels, rm, served>>
        /\ sending' = [sending EXCEPT ![s] = [chan |-> chan, type |-> "log", data |-> {}]]
    BY <1>21 DEF SendLogs, BeginSend, connection, reading, backend
  <2>2. \A k \in Connections : sending'[k] = sending[k]
    BY <2>1
  <2>3. \A k \in Connections : InStep(k) => InStep(k)'
    BY <2>1, <2>2 DEF InStep, TellsTheRest
  <2>4. \A u \in Senders : sending'[u].type \in {"none", "log"}
    BY <2>1 DEF SubscriptionsInv, Goroutines
  <2> QED
    BY <2>1, <2>3, <2>4 DEF SubscriptionsInv
<1>22. CASE \/ Stop
            \/ \E k \in Connections, how \in {"closedByPeer", "lost"} : PeerCloses(k, how)
            \/ UNCHANGED vars
  BY <1>1, <1>22 DEF Stop, PeerCloses, vars, data, connection, reading, backend
<1>23. CASE WrongState \/ StopPanics \/ \E r \in Connections : ReadPanics(r) \/ ReaderSendPanics(r)
  BY <1>2, <1>23 DEF WrongState, StopPanics, ReadPanics, ReaderSendPanics
<1> QED
  BY <1>4, <1>5, <1>6, <1>7, <1>8, <1>10, <1>11, <1>13, <1>15, <1>17, <1>18, <1>19, <1>20,
     <1>21, <1>22, <1>23
  DEF Next, RunLoop, ReaderRuns, Environment

\* Whenever the reader of a greeted connection waits for the next message, the
\* backend knows exactly the events the agent has channels for, those asked for
\* on earlier connections included, for any number of events and reconnections.
THEOREM SubscriptionsInSyncHolds == Spec => []SubscriptionsInSync
<1>1. Init => SubscriptionsInv
  BY LoopIsNoReader DEF Init, SubscriptionsInv, NoSend, Goroutines, Connections
<1>2. Typed /\ LinkInv /\ MessagesInv /\ SubscriptionsInv /\ [Next]_vars => SubscriptionsInv'
  BY StepSubscriptionsInv
<1>3. SubscriptionsInv => SubscriptionsInSync
  BY DEF SubscriptionsInv, InStep, SubscriptionsInSync
<1> QED
  BY MessagesInvariant, <1>1, <1>2, <1>3, PTL DEF Spec
-----------------------------------------------------------------------------
(* The promise of the client: Session *)

\* The connection the client counts on is one it has not closed, and a number
\* that was not dialed yet has no connection.
HeldInv ==
    /\ state \in {"Preparing", "Connected"} => Held(conn)
    /\ conn # 0 => link[conn] # "none"
    /\ \A k \in Connections : NotMade(k) => link[k] = "none"

\* Only onDisconnect closes a connection, and it sets the state in the same turn
\* of the lock (connectWithTicket, onDisconnect).
LEMMA StepHeldInv ==
    ASSUME Typed, LinkInv, HeldInv, [Next]_vars
    PROVE  HeldInv'
<1> USE LoopIsNoReader DEF Typed, TypeOK
<1>1. ASSUME UNCHANGED <<conn, chan, link>>,
             state' \in {"Preparing", "Connected"} => state \in {"Preparing", "Connected"},
             pc'[Loop] = "dial" => pc[Loop] = "dial"
      PROVE  HeldInv'
  BY <1>1 DEF HeldInv, NotMade, Held
<1>2. ASSUME NEW a \in Actors, NEW from, NEW to, Moves(a, from, to), to # "dial",
             state' \in {"Preparing", "Connected"} => state \in {"Preparing", "Connected"}
      PROVE  HeldInv'
  BY <1>1, <1>2 DEF Moves, Goto, data, connection
<1>3. ASSUME NEW why, Dies(why)
      PROVE  HeldInv'
  BY <1>1, <1>3 DEF Dies, data, connection
<1>4. CASE StartAsync \/ BeginConnect \/ LoopEnds \/ TicketFails \/ Wakes \/ PumpFails \/ PumpEnds
  BY <1>2, <1>4
  DEF StartAsync, BeginConnect, LoopEnds, TicketFails, Wakes, PumpFails, PumpEnds, Transition
<1>5. CASE TicketIssued
  <2>1. UNCHANGED <<state, conn, link>> /\ chan' = chan + 1 /\ state = "Connecting"
    BY <1>5 DEF TicketIssued
  <2>2. \A k \in Connections : NotMade(k)' => NotMade(k)
    BY <2>1, WSClientAssumption DEF NotMade, Connections
  <2> QED
    BY <2>1, <2>2 DEF HeldInv
<1>6. CASE DialFails
  <2>1. UNCHANGED <<chan, link>> /\ conn' = 0 /\ state' = "Disconnected" /\ pc'[Loop] = "sleep"
    BY <1>6 DEF DialFails, Transition, Goto
  <2> QED
    BY <2>1 DEF HeldInv, NotMade
<1>7. CASE DialSucceeds
  <2>1. /\ chan' = chan /\ conn' = chan /\ chan \in Connections /\ pc'[Loop] = "pump"
        /\ link' = [link EXCEPT ![chan] = "open"]
    BY <1>7 DEF DialSucceeds, At, DialInv
  <2>2. link'[conn'] = "open"
    BY <2>1
  <2>3. \A k \in Connections : NotMade(k)' => NotMade(k) /\ k # chan
    BY <2>1 DEF NotMade, Connections
  <2> QED
    BY <2>1, <2>2, <2>3 DEF HeldInv, Held
<1>8. ASSUME NEW g \in Goroutines, PumpWrites(g)
      PROVE  HeldInv'
  BY <1>1, <1>8 DEF PumpWrites, AfterSend, Goto, connection
<1>9. ASSUME NEW a \in Actors, OnDisconnect(a)
      PROVE  HeldInv'
  <2>1. CASE DisconnectIsOver(a)
    BY <1>2, <2>1 DEF DisconnectIsOver, AfterDisconnect
  <2>2. CASE DisconnectLocks(a)
    BY <1>1, <2>2 DEF DisconnectLocks, Goto, data, connection
  <2>3. CASE DisconnectCloses(a)
    <3>1. /\ UNCHANGED <<conn, chan>> /\ state' = "Disconnected"
          /\ link' = [link EXCEPT ![conn] = "closed"]
          /\ pc'[Loop] = "dial" => pc[Loop] = "dial"
      BY <2>3 DEF DisconnectCloses, StateOnceClosed, LinkOnceClosed, Goto, AfterDisconnect
    <3> QED
      BY <3>1 DEF HeldInv, NotMade
  <2> QED
    BY <1>9, <2>1, <2>2, <2>3 DEF OnDisconnect
<1>10. ASSUME NEW r \in Connections,
              \/ ReadMessage(r) \/ ReadFails(r) \/ ReadCloseFrame(r) \/ HandleNothing(r)
              \/ HandleIntroduction(r) \/ HandleTasksDone(r)
       PROVE  HeldInv'
  BY <1>1, <1>2, <1>10
  DEF ReadMessage, ReadFails, ReadCloseFrame, HandleNothing, HandleIntroduction, HandleTasksDone,
      Goto, connection
<1>11. ASSUME NEW r \in Connections,
              \/ SendHello(r) \/ HandleGreetings(r)
              \/ \E e \in Events : HandleTasksSubscribes(r, e) \/ HandleTasksUnsubscribes(r, e)
       PROVE  HeldInv'
  BY <1>1, <1>11
  DEF SendHello, HandleGreetings, HandleTasksSubscribes, HandleTasksUnsubscribes, ReaderSends,
      Goto, connection
<1>12. CASE Stop \/ (\E s \in Senders : SendLogs(s)) \/ UNCHANGED vars
  BY <1>1, <1>12 DEF Stop, SendLogs, vars, data, connection
<1>13. ASSUME NEW k \in Connections, NEW how \in {"closedByPeer", "lost"}, PeerCloses(k, how)
       PROVE  HeldInv'
  <2>1. /\ UNCHANGED <<state, conn, chan, pc>> /\ link[k] = "open"
        /\ link' = [link EXCEPT ![k] = how]
    BY <1>13 DEF PeerCloses
  <2> QED
    BY <2>1 DEF HeldInv, NotMade, Held
<1>14. CASE WrongState \/ StopPanics \/ \E r \in Connections : ReadPanics(r) \/ ReaderSendPanics(r)
  BY <1>3, <1>14 DEF WrongState, StopPanics, ReadPanics, ReaderSendPanics
<1> QED
  BY <1>4, <1>5, <1>6, <1>7, <1>8, <1>9, <1>10, <1>11, <1>12, <1>13, <1>14
  DEF Next, RunLoop, ReaderRuns, Environment

SessionInv == Typed /\ LinkInv /\ MessagesInv /\ HelloInv /\ SubscriptionsInv /\ HeldInv

\* A step that leaves the connections, the handshake and the subscriptions alone
\* keeps the promise, unless the client becomes ready by it.
LEMMA OnlyReadyChanges ==
    ASSUME UNCHANGED <<link, served, hellos, eventChannels, serverSubs>>,
           state' = "Connected" => state = "Connected"
    PROVE  [Promised!Next]_(Promised!vars)
<1>1. /\ UNCHANGED <<{k \in Connections : Held(k)}, [k \in Connections |-> Phase(k)]>>
      /\ UNCHANGED <<hellos, eventChannels, serverSubs>>
  BY DEF Held, Phase
<1>2. CASE (state' = "Connected") = (state = "Connected")
  BY <1>1, <1>2 DEF Promised!vars
<1>3. CASE (state' = "Connected") # (state = "Connected")
  <2>1. (state' = "Connected") = FALSE
    BY <1>3
  <2>2. Promised!Unready
    BY <1>1, <2>1 DEF Promised!Unready
  <2> QED
    BY <2>2 DEF Promised!Next
<1> QED
  BY <1>2, <1>3

\* An open connection is the one the client counts on, still held, and its
\* handshake is where the backend is.
LEMMA OpenIsHeld ==
    ASSUME Typed, LinkInv, NEW k \in Connections, link[k] = "open"
    PROVE  /\ k = conn /\ Held(k)
           /\ Phase(k) = CASE served[k] = "nothing" -> "open"
                           [] served[k] = "introduction" -> "introduced"
                           [] OTHER -> "greeted"
  BY OpenIsNewest DEF Held, Phase

\* A dial makes the first connection of its number, with no other held.
LEMMA DialIsPromised ==
    ASSUME SessionInv, DialSucceeds
    PROVE  Promised!Dial(chan) /\ chan \in Connections
<1> USE LoopIsNoReader DEF SessionInv, Typed, TypeOK
<1>1. /\ chan \in Connections /\ state = "Connecting" /\ pc[Loop] = "dial" /\ state' = "Preparing"
      /\ link' = [link EXCEPT ![chan] = "open"]
      /\ UNCHANGED <<served, hellos, eventChannels, serverSubs>>
  BY DEF DialSucceeds, At, DialInv, Transition, StateOnceDialed, reading, backend
<1>2. link[chan] = "none" /\ served[chan] = "nothing"
  BY <1>1 DEF HeldInv, LinkInv, FreshInv, NotMade, Untouched
<1>3. \A k \in Connections : ~Held(k)
  BY <1>1 DEF LinkInv, PresentInv
<1>4. {k \in Connections : Held(k)}' = {chan}
  BY <1>1, <1>3 DEF Held
<1>5. [k \in Connections |-> Phase(k)]' = [[k \in Connections |-> Phase(k)] EXCEPT ![chan] = "open"]
  BY <1>1, <1>2 DEF Phase
<1>6. Phase(chan) = "none"
  BY <1>2 DEF Phase
<1> QED
  BY <1>1, <1>3, <1>4, <1>5, <1>6 DEF Promised!Dial

\* What the backend sends takes the handshake one step on, never back.
LEMMA ReadIsPromised ==
    ASSUME SessionInv, NEW r \in Connections, ReadMessage(r)
    PROVE  \/ Promised!Introduce(r) \/ Promised!Greet(r)
           \/ UNCHANGED Promised!vars
<1> USE DEF SessionInv, Typed, TypeOK
<1>1. PICK m \in NextMessages(r) : served' = [served EXCEPT ![r] = m.type]
  BY DEF ReadMessage
<1>2. /\ link[r] = "open"
      /\ UNCHANGED <<state, link, hellos, eventChannels, serverSubs>>
  BY DEF ReadMessage, connection
<1>3. r \in {k \in Connections : Held(k)} /\ Phase(r) = CASE served[r] = "nothing" -> "open"
                           [] served[r] = "introduction" -> "introduced"
                           [] OTHER -> "greeted"
  BY <1>2, OpenIsHeld
<1>4. UNCHANGED {k \in Connections : Held(k)}
  BY <1>2 DEF Held
<1>5. [k \in Connections |-> Phase(k)]' = [[k \in Connections |-> Phase(k)] EXCEPT ![r] = Phase(r)']
  BY <1>1, <1>2 DEF Phase
<1>6. CASE served[r] = "nothing"
  <2>1. m.type = "introduction"
    BY <1>6 DEF NextMessages
  <2>2. Phase(r) = "open" /\ Phase(r)' = "introduced"
    BY <1>1, <1>2, <1>3, <1>6, <2>1 DEF Phase
  <2>3. Promised!Introduce(r)
    BY <1>2, <1>3, <1>4, <1>5, <2>2 DEF Promised!Introduce
  <2> QED
    BY <2>3
<1>7. CASE served[r] = "introduction"
  <2>1. m.type = "greetings" /\ hellos[r] > 0
    BY <1>7 DEF NextMessages
  <2>2. hellos[r] = 1
    BY <2>1 DEF HelloInv
  <2>3. Phase(r) = "introduced" /\ Phase(r)' = "greeted"
    BY <1>1, <1>2, <1>3, <1>7, <2>1 DEF Phase
  <2>4. Promised!Greet(r)
    BY <1>2, <1>3, <1>4, <1>5, <2>2, <2>3 DEF Promised!Greet
  <2> QED
    BY <2>4
<1>8. CASE served[r] \notin {"nothing", "introduction"}
  <2>1. m.type = "tasks"
    BY <1>8 DEF NextMessages
  <2>2. Phase(r) = "greeted" /\ Phase(r)' = "greeted"
    BY <1>1, <1>2, <1>3, <1>8, <2>1 DEF Phase
  <2>3. UNCHANGED [k \in Connections |-> Phase(k)]
    BY <1>5, <2>2
  <2> QED
    BY <1>2, <1>4, <2>3 DEF Promised!vars
<1> QED
  BY <1>6, <1>7, <1>8

\* The client becomes ready once per connection, with hello still to be said.
LEMMA ReadyIsPromised ==
    ASSUME SessionInv, NEW r \in Connections, HandleIntroduction(r), state = "Preparing"
    PROVE  Promised!BecomeReady
<1> USE DEF SessionInv, Typed, TypeOK
<1>1. /\ pc[r] = "handling" /\ rm[r].type = "introduction" /\ state' = "Connected"
      /\ UNCHANGED <<link, served, hellos, eventChannels, serverSubs>>
  BY DEF HandleIntroduction, Handling, At, Moves, data, connection, backend
<1>2. r = chan /\ conn = chan
  BY <1>1, OnlyTheNewestReads DEF LinkInv, PresentInv
<1>3. Held(r) /\ hellos[r] = 0
  BY <1>2 DEF HeldInv, HelloInv
<1>4. served[r] = "introduction"
  BY <1>1 DEF MessagesInv
<1>5. Phase(r) = "introduced"
  BY <1>3, <1>4 DEF Phase, Held
<1>6. UNCHANGED <<{k \in Connections : Held(k)}, [k \in Connections |-> Phase(k)]>>
  BY <1>1 DEF Held, Phase
<1> QED
  BY <1>1, <1>3, <1>5, <1>6 DEF Promised!BecomeReady

\* What the loop writes is one of Session's messages: hello while it is due, a
\* report that makes the backend up to date, or a log.
LEMMA WriteIsPromised ==
    ASSUME SessionInv, NEW g \in Goroutines, PumpWrites(g)
    PROVE  [Promised!Next]_(Promised!vars)
<1> USE LoopIsNoReader DEF SessionInv, Typed, TypeOK
<1>1. conn \in Connections /\ conn = chan /\ (g \in Connections => g = conn /\ pc[g] = "sending")
  BY OnlyTheNewestSends
<1>2. UNCHANGED <<state, link, served, eventChannels>>
  BY DEF PumpWrites, BackendReceives, connection, backend
<1>3. UNCHANGED <<{k \in Connections : Held(k)}, [k \in Connections |-> Phase(k)]>>
  BY <1>2 DEF Held, Phase
<1>4. CASE link[conn] # "open" \/ g \in Senders
  <2>1. UNCHANGED <<hellos, serverSubs>>
    BY <1>4 DEF PumpWrites, BackendReceives, backend, SubscriptionsInv
  <2> QED
    BY <1>2, <2>1, OnlyReadyChanges
<1>5. CASE link[conn] = "open" /\ g \in Connections
  <2>1. TellsTheRest(g, sending[g]) /\ g = conn
    BY <1>1, <1>5 DEF SubscriptionsInv, InStep
  <2>2. BackendReceives(g, sending[g])
    BY <1>5, <2>1 DEF PumpWrites
  <2>3. g \in {k \in Connections : Held(k)}
    BY <1>5, <2>1 DEF Held
  <2>4. rm[g].type = IF served[g] = "nothing" THEN "none" ELSE served[g]
    BY <1>5 DEF MessagesInv
  <2>5. CASE sending[g].type \in {"set_subscriptions", "subscribe", "unsubscribe"}
    <3>1. serverSubs' = [serverSubs EXCEPT ![g] = eventChannels] /\ hellos' = hellos
      BY <2>1, <2>2, <2>5 DEF TellsTheRest, BackendReceives
    <3>2. rm[g].type \in {"greetings", "tasks"}
      BY <2>1, <2>5 DEF TellsTheRest
    <3>3. Phase(g) = "greeted"
      BY <1>5, <2>4, <3>2 DEF Phase
    <3>4. Promised!Report(g)
      BY <1>2, <1>3, <2>3, <3>1, <3>3 DEF Promised!Report
    <3> QED
      BY <1>5, <3>4 DEF Promised!Next
  <2>6. CASE sending[g].type \notin {"set_subscriptions", "subscribe", "unsubscribe"}
    <3>1. sending[g].type = "hello" /\ rm[g].type = "introduction"
      BY <2>1, <2>6 DEF TellsTheRest
    <3>2. Phase(g) = "introduced"
      BY <1>5, <2>4, <3>1 DEF Phase
    <3>3. hellos[g] = 0
      BY <1>5, <3>1 DEF HelloInv
    <3>4. hellos' = [hellos EXCEPT ![g] = 1]
      BY <2>2, <3>1, <3>3 DEF BackendReceives
    <3>5. serverSubs' = serverSubs
      BY <2>2, <3>1 DEF BackendReceives
    <3>6. Promised!Hello(g)
      BY <1>2, <1>3, <2>3, <3>2, <3>3, <3>4, <3>5 DEF Promised!Hello
    <3> QED
      BY <1>5, <3>6 DEF Promised!Next
  <2> QED
    BY <2>5, <2>6
<1> QED
  BY <1>4, <1>5 DEF Goroutines

\* A task that asks for an event, or no longer does, comes after the greetings.
LEMMA WantIsPromised ==
    ASSUME SessionInv, NEW r \in Connections, NEW e \in Events,
           HandleTasksSubscribes(r, e) \/ HandleTasksUnsubscribes(r, e)
    PROVE  Promised!Want(e)
<1> USE DEF SessionInv, Typed, TypeOK
<1>1. /\ rm[r].type = "tasks" /\ eventChannels' \in {eventChannels \cup {e}, eventChannels \ {e}}
      /\ UNCHANGED <<state, link, served, hellos, serverSubs>>
  BY DEF HandleTasksSubscribes, HandleTasksUnsubscribes, Handling, ReaderSends, connection, backend
<1>2. served[r] = "tasks"
  BY <1>1 DEF MessagesInv
<1>3. Phase(r) = "greeted"
  BY <1>2 DEF Phase
<1>4. UNCHANGED <<{k \in Connections : Held(k)}, [k \in Connections |-> Phase(k)]>>
  BY <1>1 DEF Held, Phase
<1> QED
  BY <1>1, <1>3, <1>4 DEF Promised!Want

\* onDisconnect closes the connection the client holds, or one that was closed
\* before Stop.
LEMMA CloseIsPromised ==
    ASSUME SessionInv, NEW a \in Actors, DisconnectCloses(a)
    PROVE  [Promised!Next]_(Promised!vars)
<1> USE LoopIsNoReader DEF SessionInv, Typed, TypeOK
<1>1. /\ state' = "Disconnected" /\ link' = [link EXCEPT ![conn] = "closed"]
      /\ UNCHANGED <<served, hellos, eventChannels, serverSubs>>
  BY DEF DisconnectCloses, StateOnceClosed, LinkOnceClosed, reading, backend
<1>2. CASE conn # 0 /\ Held(conn)
  <2>1. conn \in Connections
    BY <1>2
  <2>2. {k \in Connections : Held(k)}' = {k \in Connections : Held(k)} \ {conn}
    BY <1>1 DEF Held
  <2>3. UNCHANGED [k \in Connections |-> Phase(k)]
    BY <1>1, <1>2 DEF Held, Phase
  <2>4. (state' = "Connected") = FALSE
    BY <1>1
  <2>5. Promised!Close(conn)
    BY <1>1, <1>2, <2>1, <2>2, <2>3, <2>4 DEF Promised!Close
  <2> QED
    BY <2>1, <2>5 DEF Promised!Next
<1>3. CASE ~(conn # 0 /\ Held(conn))
  <2>1. conn # 0 => link[conn] = "closed"
    BY <1>3 DEF HeldInv, Held
  <2>2. UNCHANGED link
    BY <1>1, <2>1
  <2> QED
    BY <1>1, <2>2, OnlyReadyChanges
<1> QED
  BY <1>2, <1>3

\* Each step of each goroutine is a step of Session or changes nothing it tells
\* apart (wsclient.go).
LEMMA StepSession ==
    ASSUME SessionInv, [Next]_vars
    PROVE  [Promised!Next]_(Promised!vars)
<1> USE LoopIsNoReader DEF SessionInv
<1>1. ASSUME UNCHANGED data, state' = "Connected" => state = "Connected"
      PROVE  [Promised!Next]_(Promised!vars)
  BY <1>1, OnlyReadyChanges DEF data, connection, backend
<1>2. ASSUME NEW why, Dies(why)
      PROVE  [Promised!Next]_(Promised!vars)
  BY <1>1, <1>2 DEF Dies
<1>3. CASE StartAsync \/ BeginConnect \/ LoopEnds \/ TicketFails \/ Wakes \/ PumpFails \/ PumpEnds
  BY <1>1, <1>3
  DEF StartAsync, BeginConnect, LoopEnds, TicketFails, Wakes, PumpFails, PumpEnds, Moves, Transition
<1>4. CASE TicketIssued \/ DialFails
  BY <1>4, OnlyReadyChanges DEF TicketIssued, DialFails, Transition, backend
<1>5. CASE DialSucceeds
  BY <1>5, DialIsPromised DEF Promised!Next
<1>6. ASSUME NEW g \in Goroutines, PumpWrites(g)
      PROVE  [Promised!Next]_(Promised!vars)
  BY <1>6, WriteIsPromised
<1>7. ASSUME NEW a \in Actors, OnDisconnect(a)
      PROVE  [Promised!Next]_(Promised!vars)
  <2>1. CASE DisconnectIsOver(a) \/ DisconnectLocks(a)
    BY <1>1, <2>1 DEF DisconnectIsOver, DisconnectLocks, Moves
  <2> QED
    BY <1>7, <2>1, CloseIsPromised DEF OnDisconnect
<1>8. ASSUME NEW r \in Connections, ReadMessage(r)
      PROVE  [Promised!Next]_(Promised!vars)
  BY <1>8, ReadIsPromised DEF Promised!Next
<1>9. ASSUME NEW r \in Connections, HandleIntroduction(r)
      PROVE  [Promised!Next]_(Promised!vars)
  <2>1. CASE state = "Preparing"
    BY <1>9, <2>1, ReadyIsPromised DEF Promised!Next
  <2>2. CASE state # "Preparing"
    BY <1>1, <1>9, <2>2 DEF HandleIntroduction, Moves
  <2> QED
    BY <2>1, <2>2
<1>10. ASSUME NEW r \in Connections,
              \/ ReadFails(r) \/ ReadCloseFrame(r) \/ HandleNothing(r) \/ HandleTasksDone(r)
              \/ SendHello(r) \/ HandleGreetings(r)
       PROVE  [Promised!Next]_(Promised!vars)
  BY <1>1, <1>10, OnlyReadyChanges
  DEF ReadFails, ReadCloseFrame, HandleNothing, HandleTasksDone, SendHello, HandleGreetings,
      ReaderSends, Moves, connection, backend
<1>11. ASSUME NEW r \in Connections, NEW e \in Events,
              HandleTasksSubscribes(r, e) \/ HandleTasksUnsubscribes(r, e)
       PROVE  [Promised!Next]_(Promised!vars)
  BY <1>11, WantIsPromised DEF Promised!Next
<1>12. CASE Stop \/ (\E s \in Senders : SendLogs(s)) \/ UNCHANGED vars
  BY <1>12, OnlyReadyChanges DEF Stop, SendLogs, vars, data, connection, backend
<1>13. ASSUME NEW k \in Connections, NEW how \in {"closedByPeer", "lost"}, PeerCloses(k, how)
       PROVE  [Promised!Next]_(Promised!vars)
  <2>1. /\ UNCHANGED <<state, served, hellos, eventChannels, serverSubs>> /\ link[k] = "open"
        /\ link' = [link EXCEPT ![k] = how]
    BY <1>13 DEF PeerCloses, backend
  <2>2. UNCHANGED <<{j \in Connections : Held(j)}, [j \in Connections |-> Phase(j)]>>
    BY <1>13, <2>1 DEF Held, Phase, Typed, TypeOK
  <2> QED
    BY <2>1, <2>2 DEF Promised!vars
<1>14. CASE WrongState \/ StopPanics \/ \E r \in Connections : ReadPanics(r) \/ ReaderSendPanics(r)
  BY <1>2, <1>14 DEF WrongState, StopPanics, ReadPanics, ReaderSendPanics
<1> QED
  BY <1>3, <1>4, <1>5, <1>6, <1>7, <1>8, <1>9, <1>10, <1>11, <1>12, <1>13, <1>14
  DEF Next, RunLoop, ReaderRuns, Environment

\* NewWSClient promises a Session that has not begun.
LEMMA InitSession == Init => Promised!Init
<1> SUFFICES ASSUME Init PROVE Promised!Init
  OBVIOUS
<1>1. {k \in Connections : Held(k)} = {}
  BY DEF Init, Held
<1>2. [k \in Connections |-> Phase(k)] = [k \in Connections |-> "none"]
  BY DEF Init, Phase
<1>3. (state = "Connected") = FALSE
  BY DEF Init
<1> QED
  BY <1>1, <1>2, <1>3 DEF Init, Promised!Init

\* The client implements Session for every number of connections, senders and
\* events: its goroutines share their fields without a lock and keep the promise
\* nevertheless, whenever the connection is lost and whenever Stop is called.
THEOREM SessionImplemented == Spec => ImplementsSession
<1>1. Init => SubscriptionsInv /\ HelloInv /\ HeldInv
  BY LoopIsNoReader
  DEF Init, SubscriptionsInv, HelloInv, HeldInv, NotMade, NoSend, Goroutines, Connections, Actors
<1>2. Typed /\ LinkInv /\ MessagesInv /\ SubscriptionsInv /\ HelloInv /\ HeldInv /\ [Next]_vars
        => SubscriptionsInv' /\ HelloInv' /\ HeldInv'
  BY StepSubscriptionsInv, StepHelloInv, StepHeldInv
<1>3. Init => Promised!Init
  BY InitSession
<1>4. Typed /\ LinkInv /\ MessagesInv /\ HelloInv /\ SubscriptionsInv /\ HeldInv /\ [Next]_vars
        => [Promised!Next]_(Promised!vars)
  BY StepSession DEF SessionInv
<1> QED
  BY TypedInvariant, LinkInvariant, MessagesInvariant, <1>1, <1>2, <1>3, <1>4, PTL
  DEF Spec, ImplementsSession, Promised!Spec
=============================================================================
