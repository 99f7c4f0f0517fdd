------------------------------- MODULE Session -------------------------------
(***************************************************************************)
(* What the websocket client promises to the backend and to the rest of    *)
(* the agent, in terms of connections and messages and of none of its      *)
(* goroutines: one connection at a time, each of them taken through the    *)
(* same handshake, ready for messages only between the introduction and    *)
(* the end of the connection, and every report about subscriptions leaves  *)
(* the backend with exactly the events the agent wants.                    *)
(***************************************************************************)
EXTENDS Naturals

CONSTANTS Connections, Events

VARIABLES
    held,    \* the connections the agent has not closed
    phase,   \* how far the handshake is on each connection
    hellos,  \* the hellos the backend got on each connection
    ready,   \* the client takes messages
    wanted,  \* the events the agent wants
    known    \* the events the backend knows of, for each connection

vars == <<held, phase, hellos, ready, wanted, known>>

Init ==
    /\ held = {}
    /\ phase = [k \in Connections |-> "none"]
    /\ hellos = [k \in Connections |-> 0]
    /\ ready = FALSE
    /\ wanted = {}
    /\ known = [k \in Connections |-> {}]

\* Connection k is made, for the first time, while no other is held.
Dial(k) ==
    /\ held = {} /\ ~ready
    /\ phase[k] = "none"
    /\ held' = {k}
    /\ phase' = [phase EXCEPT ![k] = "open"]
    /\ UNCHANGED <<hellos, ready, wanted, known>>

Introduce(k) ==
    /\ k \in held /\ phase[k] = "open"
    /\ phase' = [phase EXCEPT ![k] = "introduced"]
    /\ UNCHANGED <<held, hellos, ready, wanted, known>>

\* The client takes messages from now on, and hello is the first it owes.
BecomeReady ==
    /\ ~ready
    /\ \E k \in held : phase[k] = "introduced" /\ hellos[k] = 0
    /\ ready' = TRUE
    /\ UNCHANGED <<held, phase, hellos, wanted, known>>

\* hello answers the introduction, and is said once.
Hello(k) ==
    /\ k \in held /\ phase[k] = "introduced" /\ hellos[k] = 0
    /\ hellos' = [hellos EXCEPT ![k] = 1]
    /\ UNCHANGED <<held, phase, ready, wanted, known>>

Greet(k) ==
    /\ k \in held /\ phase[k] = "introduced" /\ hellos[k] = 1
    /\ phase' = [phase EXCEPT ![k] = "greeted"]
    /\ UNCHANGED <<held, hellos, ready, wanted, known>>

\* The agent changes its mind about one event, once it has been greeted.
Want(e) ==
    /\ \E k \in Connections : phase[k] = "greeted"
    /\ wanted' \in {wanted \cup {e}, wanted \ {e}}
    /\ UNCHANGED <<held, phase, hellos, ready, known>>

Report(k) ==
    /\ k \in held /\ phase[k] = "greeted"
    /\ known' = [known EXCEPT ![k] = wanted]
    /\ UNCHANGED <<held, phase, hellos, ready, wanted>>

Unready == ready' = FALSE /\ UNCHANGED <<held, phase, hellos, wanted, known>>

\* Connection k is closed for good, and the client is no longer ready.
Close(k) ==
    /\ k \in held
    /\ held' = held \ {k}
    /\ ready' = FALSE
    /\ UNCHANGED <<phase, hellos, wanted, known>>

Next ==
    \/ BecomeReady \/ Unready
    \/ \E k \in Connections : Dial(k) \/ Introduce(k) \/ Hello(k) \/ Greet(k) \/ Report(k) \/ Close(k)
    \/ \E e \in Events : Want(e)

Spec == Init /\ [][Next]_vars
=============================================================================
