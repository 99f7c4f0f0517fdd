------------------------------- MODULE WSClient -------------------------------
(***************************************************************************)
(* telephonist.WSClient: one websocket connection to the backend, made     *)
(* again after it is lost.  The goroutines are the loop that connects and  *)
(* then writes (runLoop and writePump), one reader per connection          *)
(* (readPump), the task executions that send logs, and the caller of Stop. *)
(* They share c.state, c.conn and c.sendMessages without a lock; only      *)
(* onDisconnect has one.  A step ends where the code blocks or does I/O.   *)
(*                                                                         *)
(* Connections and send channels are numbered by the attempt to connect    *)
(* that made them.                                                         *)
(***************************************************************************)
EXTENDS Naturals, APIClient

CONSTANTS
    Senders,        \* the goroutines that call SendLogs
    Events,         \* the event keys tasks may ask for
    MaxConnections, \* bound: the attempts that get as far as dialing
    ReadErrLimit    \* the failed reads gorilla allows (1000)

ASSUME WSClientAssumption ==
    /\ MaxConnections \in Nat \ {0}
    /\ ReadErrLimit \in Nat \ {0}
    /\ Senders \cap Nat = {}

Connections == 1 .. MaxConnections
Loop == 0
Actors == {Loop} \cup Connections       \* the loop, and the readers
Goroutines == Connections \cup Senders  \* whoever sends a message

VARIABLES
    state,         \* c.state
    conn,          \* c.conn, 0 when nil
    chan,          \* c.sendMessages, 0 when nil
    chanClosed,    \* the channels Stop has closed
    mut,           \* who holds c.mut
    pc,            \* where the loop and each reader are
    link,          \* what has become of each connection
    rm,            \* the message each reader keeps in rm
    readErrs,      \* the failed reads of each connection
    sending,       \* what each goroutine is blocked on sending
    eventChannels, \* the keys of c.eventChannels
    served,        \* how far the backend is with each connection
    hellos,        \* the hellos it got on each connection
    serverSubs,    \* the subscriptions it keeps for each connection
    stopping,      \* Stop has been called
    fault          \* why the process died, "none" while it lives

connection == <<conn, chan, chanClosed, link>>
reading == <<rm, readErrs>>
backend == <<served, hellos, serverSubs>>
control == <<mut, stopping, fault>>
data == <<connection, reading, sending, eventChannels, backend>>
vars == <<state, pc, data, control>>

NoSend == [chan |-> 0, type |-> "none", data |-> {}]
NoMessage == [type |-> "none", want |-> {}]

Init ==
    /\ state = "Stopped"
    /\ conn = 0 /\ chan = 0 /\ chanClosed = {} /\ eventChannels = {}
    /\ mut = "free" /\ stopping = FALSE /\ fault = "none"
    /\ pc = [a \in Actors |-> IF a = Loop THEN "new" ELSE "none"]
    /\ link = [k \in Connections |-> "none"]
    /\ rm = [k \in Connections |-> NoMessage]
    /\ readErrs = [k \in Connections |-> 0]
    /\ sending = [g \in Goroutines |-> NoSend]
    /\ served = [k \in Connections |-> "nothing"]
    /\ hellos = [k \in Connections |-> 0]
    /\ serverSubs = [k \in Connections |-> {}]

Alive == fault = "none"
At(a, label) == Alive /\ pc[a] = label
Goto(a, label) == pc' = [pc EXCEPT ![a] = label]

Dies(why) == fault' = why /\ UNCHANGED <<state, pc, data, mut, stopping>>

\* A step that changes the place of a and perhaps the state, nothing else.
Moves(a, from, to) == At(a, from) /\ Goto(a, to) /\ UNCHANGED <<data, control>>

\* transitionState: requireState ends the process when the state is not `from`.
Transition(from, to) == state = from /\ state' = to

\* The guard under which requireState(from) logs Fatal at one of its callers.
WrongState ==
    /\ \/ At(Loop, "connect") /\ state \notin {"Stopped", "Disconnected"}
       \/ (At(Loop, "ticket") \/ At(Loop, "dial")) /\ state # "Connecting"
    /\ Dies("invalid client state")

-----------------------------------------------------------------------------
(* runLoop and connect *)

StartAsync == Moves(Loop, "new", "connect") /\ Transition("Stopped", "Disconnected")

\* The condition of the for loop, and connect up to the request of a ticket.
\* The 20 s of restartTimeout are over: a reader of the old connection has
\* ended by then, unless it is blocked on a channel nobody receives from.
BeginConnect ==
    /\ \A k \in Connections : pc[k] \in {"none", "done", "sending"}
    /\ Moves(Loop, "connect", "ticket")
    /\ Transition("Disconnected", "Connecting")

LoopEnds == Moves(Loop, "connect", "done") /\ state = "Stopped" /\ UNCHANGED state

TicketFails ==
    /\ \E r \in Responses : issueWSTicket(r) = "error"
    /\ Moves(Loop, "ticket", "sleep")
    /\ Transition("Connecting", "Disconnected")

\* connectWithTicket makes a new channel before it dials.
TicketIssued ==
    /\ At(Loop, "ticket")
    /\ state = "Connecting"
    /\ \E r \in Responses : issueWSTicket(r) = "ok"
    /\ chan < MaxConnections
    /\ chan' = chan + 1
    /\ Goto(Loop, "dial")
    /\ UNCHANGED <<state, conn, chanClosed, link, reading, sending, eventChannels, backend, control>>

\* Dial returns a nil connection with its error, and c.conn takes it.
DialFails ==
    /\ At(Loop, "dial")
    /\ Transition("Connecting", "Disconnected")
    /\ conn' = 0
    /\ Goto(Loop, "sleep")
    /\ UNCHANGED <<chan, chanClosed, link, reading, sending, eventChannels, backend, control>>

\* There is a connection, and the backend has not spoken yet.
StateOnceDialed == "Preparing"

DialSucceeds ==
    /\ At(Loop, "dial")
    /\ Transition("Connecting", StateOnceDialed)
    /\ conn' = chan
    /\ link' = [link EXCEPT ![chan] = "open"]
    /\ pc' = [pc EXCEPT ![Loop] = "pump", ![chan] = "reading"]
    /\ UNCHANGED <<chan, chanClosed, reading, sending, eventChannels, backend, control>>

Wakes == Moves(Loop, "sleep", "connect") /\ UNCHANGED state

-----------------------------------------------------------------------------
(* Sending: a message waits on the unbuffered c.sendMessages until writePump *)
(* receives it; closing the channel panics whoever waits on it.              *)

\* g blocks on the channel c.sendMessages holds now, unless it is closed.
BeginSend(g, type, content) ==
    /\ chan \notin chanClosed
    /\ sending' = [sending EXCEPT ![g] = [chan |-> chan, type |-> type, data |-> content]]

\* SendWebsocketMessage: an error unless connected, else a blocking send.
SendLogs(s) ==
    /\ Alive
    /\ sending[s] = NoSend
    /\ state = "Connected"
    /\ BeginSend(s, "log", {})
    /\ UNCHANGED <<state, pc, connection, reading, eventChannels, backend, control>>

\* What the backend makes of a message that reaches it.
BackendReceives(k, m) ==
    /\ hellos' = IF m.type = "hello" THEN [hellos EXCEPT ![k] = @ + 1] ELSE hellos
    /\ serverSubs' = [serverSubs EXCEPT ![k] =
           CASE m.type = "set_subscriptions" -> m.data
             [] m.type = "subscribe" -> @ \cup m.data
             [] m.type = "unsubscribe" -> @ \ m.data
             [] OTHER -> @]
    /\ UNCHANGED served

\* A reader goes on with the message it was handling, or with the next one.
AfterSend(g) ==
    IF g \in Connections
    THEN Goto(g, IF rm[g].type = "tasks" THEN "handling" ELSE "reading")
    ELSE UNCHANGED pc

\* Mutant: all but hello is held back until the backend has sent greetings.
ReceivesOnceGreeted(g) ==
    sending[g].chan = chan /\ (sending[g].type = "hello" \/ served[conn] # "introduction")

\* The loop receives from the channel of its own connection.
Receives(g) == sending[g].chan = chan

\* writePump takes a message.  One written to a connection that is gone is
\* dropped: NextWriter's error is no CloseError, and the loop goes on.
PumpWrites(g) ==
    /\ At(Loop, "pump")
    /\ sending[g] # NoSend
    /\ Receives(g)
    /\ chan \notin chanClosed
    /\ sending' = [sending EXCEPT ![g] = NoSend]
    /\ IF link[conn] = "open" THEN BackendReceives(conn, sending[g]) ELSE UNCHANGED backend
    /\ AfterSend(g)
    /\ UNCHANGED <<state, connection, reading, eventChannels, control>>

\* The ticker's ping, or the write of a long message, finds the connection
\* gone; or Stop has closed the channel.
PumpFails ==
    /\ Moves(Loop, "pump", "disconnect")
    /\ link[conn] # "open"
    /\ UNCHANGED state

PumpEnds ==
    /\ chan \in chanClosed
    /\ Moves(Loop, "pump", "disconnect")
    /\ UNCHANGED state

-----------------------------------------------------------------------------
(* onDisconnect, called by writePump and by readPump as each ends *)

\* Mutants: a reader goes on like the loop, and the loop ends like a reader.
Sleeps(a) == "sleep"
EndsTheLoop(a) == "done"

AfterDisconnect(a) == IF a = Loop THEN "sleep" ELSE "done"

\* With c.mut locked: nothing to do, or a close message to write.
DisconnectIsOver(a) ==
    /\ mut = "free"
    /\ state \notin {"Connected", "Preparing"}
    /\ Moves(a, "disconnect", AfterDisconnect(a))
    /\ UNCHANGED state

DisconnectLocks(a) ==
    /\ At(a, "disconnect")
    /\ mut = "free"
    /\ state \in {"Connected", "Preparing"}
    /\ mut' = "held"
    /\ Goto(a, "closing")
    /\ UNCHANGED <<state, data, stopping, fault>>

\* Mutants: the state is not set, and the connection is not closed.
StateKept == state
LinkKept == link

StateOnceClosed == "Disconnected"
LinkOnceClosed == [link EXCEPT ![conn] = "closed"]

\* The close message written, the connection closed and the state set: the
\* state may have become Stopped in the meantime.
DisconnectCloses(a) ==
    /\ At(a, "closing")
    /\ mut' = "free"
    /\ link' = LinkOnceClosed
    /\ state' = StateOnceClosed
    /\ Goto(a, AfterDisconnect(a))
    /\ UNCHANGED <<conn, chan, chanClosed, reading, sending, eventChannels, backend, stopping, fault>>

-----------------------------------------------------------------------------
(* readPump *)

\* The messages the backend may send next on connection k: an introduction,
\* greetings once it got hello, and lists of tasks after that.  A list of
\* tasks is the set of events its triggers ask for.
NextMessages(k) ==
    CASE served[k] = "nothing" -> {[type |-> "introduction", want |-> {}]}
      [] served[k] = "introduction" /\ hellos[k] > 0 -> {[type |-> "greetings", want |-> {}]}
      [] served[k] \in {"greetings", "tasks"} -> [type : {"tasks"}, want : SUBSET Events]
      [] OTHER -> {}

ReadMessage(r) ==
    /\ At(r, "reading")
    /\ link[r] = "open"
    /\ \E m \in NextMessages(r) :
           /\ rm' = [rm EXCEPT ![r] = m]
           /\ served' = [served EXCEPT ![r] = m.type]
    /\ Goto(r, "handling")
    /\ UNCHANGED <<state, connection, readErrs, sending, eventChannels, hellos, serverSubs, control>>

\* A close frame with a code other than 1001 and 1006 ends the reader.
ReadCloseFrame(r) ==
    /\ link[r] = "closedByPeer"
    /\ Moves(r, "reading", "disconnect")
    /\ UNCHANGED state

\* Any other error is logged, and the message read last is handled again.
ReadFails(r) ==
    /\ At(r, "reading")
    /\ link[r] \in {"lost", "closed"}
    /\ readErrs[r] + 1 < ReadErrLimit
    /\ readErrs' = [readErrs EXCEPT ![r] = @ + 1]
    /\ Goto(r, "handling")
    /\ UNCHANGED <<state, connection, rm, sending, eventChannels, backend, control>>

\* gorilla panics on a connection that keeps being read after it failed.
ReadPanics(r) ==
    /\ At(r, "reading")
    /\ link[r] \in {"lost", "closed"}
    /\ readErrs[r] + 1 >= ReadErrLimit
    /\ Dies("repeated read on failed connection")

Handling(r, type) == At(r, "handling") /\ rm[r].type = type

\* A zero rm is an unknown message.
HandleNothing(r) ==
    /\ Handling(r, "none")
    /\ Moves(r, "handling", "reading")
    /\ UNCHANGED state

\* Mutant: the state is set whatever it was.
HandlesAnyIntroduction(r) ==
    Handling(r, "introduction") /\ Moves(r, "handling", "hello") /\ state' = "Connected"

\* onIntroduction sets the state, then asks the system what it is.
HandleIntroduction(r) ==
    /\ Handling(r, "introduction")
    /\ IF state = "Preparing"
       THEN Moves(r, "handling", "hello") /\ state' = "Connected"
       ELSE Moves(r, "handling", "reading") /\ UNCHANGED state

ReaderSends(r, type, content) ==
    /\ BeginSend(r, type, content)
    /\ Goto(r, "sending")
    /\ UNCHANGED <<state, connection, reading, backend, control>>

SendHello(r) == At(r, "hello") /\ ReaderSends(r, "hello", {}) /\ UNCHANGED eventChannels

\* Mutant: greetings report the subscriptions of hello, which are none.
ReportsNone == {}

\* onGreetings reports the keys of eventChannels.
Reported == eventChannels

HandleGreetings(r) ==
    /\ Handling(r, "greetings")
    /\ ReaderSends(r, "set_subscriptions", Reported)
    /\ UNCHANGED eventChannels

\* Scheduling the tasks reaches addEventChannel and removeEventChannel, which
\* change eventChannels and then block until the backend has been told.
HandleTasksSubscribes(r, e) ==
    /\ Handling(r, "tasks")
    /\ e \in rm[r].want \ eventChannels
    /\ ReaderSends(r, "subscribe", {e})
    /\ eventChannels' = eventChannels \cup {e}

HandleTasksUnsubscribes(r, e) ==
    /\ Handling(r, "tasks")
    /\ e \in eventChannels \ rm[r].want
    /\ ReaderSends(r, "unsubscribe", {e})
    /\ eventChannels' = eventChannels \ {e}

HandleTasksDone(r) ==
    /\ Handling(r, "tasks")
    /\ eventChannels = rm[r].want
    /\ Moves(r, "handling", "reading")
    /\ UNCHANGED state

\* A reader that has something to send once Stop has closed the channel.
ReaderSendPanics(r) ==
    /\ \/ At(r, "hello")
       \/ Handling(r, "greetings")
       \/ Handling(r, "tasks") /\ eventChannels # rm[r].want
    /\ chan \in chanClosed
    /\ Dies("send on closed channel")

-----------------------------------------------------------------------------
(* Stop, and what happens to a connection outside the agent *)

Blocked == {g \in Goroutines : sending[g].chan = chan}

CanStop == Alive /\ ~stopping /\ state # "Stopped"

Stop ==
    /\ CanStop
    /\ chan # 0 /\ Blocked = {}
    /\ state' = "Stopped"
    /\ chanClosed' = chanClosed \cup {chan}
    /\ stopping' = TRUE
    /\ UNCHANGED <<conn, chan, link, reading, sending, eventChannels, backend, pc, mut, fault>>

StopPanics ==
    /\ CanStop
    /\ \/ chan = 0 /\ Dies("close of nil channel")
       \/ chan # 0 /\ Blocked # {} /\ Dies("send on closed channel")

PeerCloses(k, how) ==
    /\ Alive
    /\ link[k] = "open"
    /\ link' = [link EXCEPT ![k] = how]
    /\ UNCHANGED <<state, conn, chan, chanClosed, reading, sending, eventChannels, backend, pc, control>>

-----------------------------------------------------------------------------
RunLoop ==
    \/ StartAsync \/ BeginConnect \/ LoopEnds \/ Wakes \/ WrongState
    \/ TicketFails \/ TicketIssued
    \/ DialFails \/ DialSucceeds
    \/ \E g \in Goroutines : PumpWrites(g)
    \/ PumpFails \/ PumpEnds

OnDisconnect(a) == DisconnectIsOver(a) \/ DisconnectLocks(a) \/ DisconnectCloses(a)

\* What a reader does without waiting for the backend.
ReaderRuns(r) ==
    \/ ReadCloseFrame(r) \/ ReadFails(r) \/ ReadPanics(r)
    \/ HandleNothing(r) \/ HandleIntroduction(r) \/ SendHello(r) \/ HandleGreetings(r)
    \/ \E e \in Events : HandleTasksSubscribes(r, e) \/ HandleTasksUnsubscribes(r, e)
    \/ HandleTasksDone(r)
    \/ ReaderSendPanics(r)
    \/ OnDisconnect(r)

Environment ==
    \/ \E s \in Senders : SendLogs(s)
    \/ Stop \/ StopPanics
    \/ \E k \in Connections, how \in {"closedByPeer", "lost"} : PeerCloses(k, how)

Next ==
    \/ RunLoop \/ OnDisconnect(Loop)
    \/ \E r \in Connections : ReadMessage(r) \/ ReaderRuns(r)
    \/ Environment

Spec == Init /\ [][Next]_vars

\* The goroutines run: requests and dials end one way or the other, the ticker
\* pings, a channel with waiting senders serves each of them, and a reader goes
\* on while it has not to wait for the backend.
Fairness ==
    /\ WF_vars(BeginConnect \/ LoopEnds)
    /\ WF_vars(TicketFails \/ TicketIssued)
    /\ WF_vars(DialFails \/ DialSucceeds)
    /\ WF_vars(Wakes)
    /\ \A g \in Goroutines : WF_vars(PumpWrites(g))
    /\ WF_vars(PumpFails \/ PumpEnds)
    /\ WF_vars(OnDisconnect(Loop))
    /\ \A r \in Connections : WF_vars(ReaderRuns(r))

FairSpec == Spec /\ Fairness

-----------------------------------------------------------------------------
States == {"Stopped", "Disconnected", "Connecting", "Preparing", "Connected"}

LoopLabels == {"new", "connect", "ticket", "dial", "pump", "disconnect", "closing", "sleep", "done"}
ReaderLabels == {"none", "reading", "handling", "hello", "sending", "disconnect", "closing", "done"}
MessageTypes == {"none", "introduction", "greetings", "tasks"}
Sends == {"none", "hello", "set_subscriptions", "subscribe", "unsubscribe", "log"}
Faults == {"none", "invalid client state", "repeated read on failed connection",
           "send on closed channel", "close of nil channel"}

TypeOK ==
    /\ state \in States
    /\ conn \in Connections \cup {0}
    /\ chan \in Connections \cup {0}
    /\ chanClosed \in SUBSET Connections
    /\ mut \in {"free", "held"}
    /\ pc[Loop] \in LoopLabels
    /\ pc \in [Actors -> LoopLabels \cup ReaderLabels]
    /\ \A r \in Connections : pc[r] \in ReaderLabels
    /\ link \in [Connections -> {"none", "open", "closedByPeer", "lost", "closed"}]
    /\ rm \in [Connections -> [type : MessageTypes, want : SUBSET Events]]
    /\ readErrs \in [Connections -> Nat]
    /\ sending \in [Goroutines -> [chan : Connections \cup {0}, type : Sends, data : SUBSET Events]]
    /\ eventChannels \in SUBSET Events
    /\ served \in [Connections -> MessageTypes \cup {"nothing"}]
    /\ hellos \in [Connections -> Nat]
    /\ serverSubs \in [Connections -> SUBSET Events]
    /\ stopping \in BOOLEAN
    /\ fault \in Faults

\* The agent has not closed its end of connection k.
Held(k) == link[k] \notin {"none", "closed"}

\* A new connection is made only after the old one has been closed, whichever
\* of the writer and the readers noticed the loss and whatever Stop did
\* (runLoop against the two callers of onDisconnect): no socket is leaked.
OneConnection == \A j, k \in Connections : Held(j) /\ Held(k) => j = k

\* "connected and ready to go": the state is Connected only when the backend
\* of the present connection has introduced itself, though an older reader may
\* have set it (onIntroduction).
ConnectedMeansIntroduced ==
    state = "Connected" => conn # 0 /\ served[conn] # "nothing"

\* The backend is told hello at most once on a connection, however many
\* readers handle introductions, fresh or stale (onIntroduction).
HelloOnce == \A k \in Connections : hellos[k] <= 1

\* Between two messages of a greeted connection, the backend knows exactly the
\* events the agent has channels for, also those asked for on an earlier
\* connection (onGreetings, addEventChannel, removeEventChannel).
SubscriptionsInSync ==
    \A k \in Connections :
        link[k] = "open" /\ pc[k] = "reading" /\ served[k] \in {"greetings", "tasks"}
            => serverSubs[k] = eventChannels

\* How far the handshake is on connection k.
Phase(k) ==
    CASE served[k] = "nothing" -> IF link[k] = "none" THEN "none" ELSE "open"
      [] served[k] = "introduction" -> "introduced"
      [] OTHER -> "greeted"

Promised == INSTANCE Session WITH
    held <- {k \in Connections : Held(k)},
    phase <- [k \in Connections |-> Phase(k)],
    ready <- state = "Connected",
    wanted <- eventChannels,
    known <- serverSubs

\* The client keeps what Session promises, though its fields are shared without
\* a lock and old readers go on: no second connection, one hello between the
\* introduction and the greetings, ready only within a connection that was
\* introduced, and each report on subscriptions makes the backend exactly
\* up to date (runLoop, onDisconnect, onIntroduction, onGreetings).
ImplementsSession == Promised!Spec

\* The client does not stay connected to a connection that is gone.
LossIsNoticed ==
    (state = "Connected" /\ link[conn] # "open") ~> (state # "Connected" \/ fault # "none")

\* A client that lost its connection tries again, until it is stopped.
RetriesAfterDisconnect ==
    (state = "Disconnected") ~> (state \in {"Connecting", "Stopped"} \/ fault # "none")

\* A message a goroutine waits to send is taken while its connection lives.
SendCompletes ==
    \A g \in Goroutines : \A k \in Connections :
        (sending[g].chan = k /\ link[k] = "open")
            ~> (sending[g].chan # k \/ link[k] # "open" \/ fault # "none" \/ stopping)

=============================================================================
