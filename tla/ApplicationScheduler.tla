------------------------ MODULE ApplicationScheduler ------------------------
(***************************************************************************)
(* main.ApplicationScheduler: what the agent does with the tasks the       *)
(* backend sends.  The goroutine that reads the websocket handles one      *)
(* message after the other; each task goes to the task scheduler and to    *)
(* the configuration, which is written to a file after every change.  The  *)
(* agent may die at any time and is started again (by systemd).            *)
(*                                                                         *)
(* A task is known by the version of its definition, 0 standing for none.  *)
(* taskScheduler is what TaskScheduler makes precise: here it remembers    *)
(* the version it was last given.                                          *)
(***************************************************************************)
EXTENDS Naturals, Sequences

CONSTANTS
    Tasks,
    CanExecute,  \* the tasks whose type the ShellExecutor knows
    MaxVersions  \* bound: the changes made at the backend

ASSUME ApplicationAssumption ==
    /\ CanExecute \subseteq Tasks
    /\ MaxVersions \in Nat

VARIABLES
    pc,            \* how far ApplicationScheduler.Start has come
    config,        \* e.config.Value.Tasks
    file,          \* the file of e.config: missing, whole or torn
    scheduled,     \* the version the task scheduler was given
    handler,       \* where the handler of a message is
    newMap,        \* the list of tasks it works on
    todo,          \* the tasks its present loop has not reached
    lastMessage,   \* the message the reader keeps in rm
    session,       \* the connection is "open" or "none"
    inbox,         \* the messages on their way to the agent
    backendTasks,  \* the tasks at the backend
    version        \* the newest definition

memory == <<pc, config, scheduled, handler, newMap, todo, lastMessage>>
backend == <<backendTasks, version>>
vars == <<memory, file, session, inbox, backend>>

NoTasks == [t \in Tasks |-> 0]
NoMessage == [type |-> "none", tasks |-> NoTasks]
Present(tasks) == {t \in Tasks : tasks[t] # 0}

\* A message names the tasks it is about with their versions.
TaskList(tasks) == [type |-> "tasks", tasks |-> tasks]
TaskUpdated(t, v) == [type |-> "task_updated", tasks |-> [NoTasks EXCEPT ![t] = v]]
TaskRemoved(t, v) == [type |-> "task_removed", tasks |-> [NoTasks EXCEPT ![t] = v]]

Init ==
    /\ pc = "down"
    /\ config = NoTasks
    /\ file = [status |-> "missing", tasks |-> NoTasks]
    /\ scheduled = NoTasks
    /\ handler = "idle" /\ newMap = NoTasks /\ todo = {} /\ lastMessage = NoMessage
    /\ session = "none" /\ inbox = <<>>
    /\ backendTasks = NoTasks /\ version = 0

-----------------------------------------------------------------------------
(* ConfigFile *)

\* Write encodes into the file in one call and then truncates it; what a crash
\* leaves behind the new text is not read by Decode.  The file may be refused
\* before it is touched, or take part of the text only; callers ignore both.
Write(tasks) ==
    \/ file' = [status |-> "whole", tasks |-> tasks]
    \/ file' = [status |-> "torn", tasks |-> NoTasks]
    \/ file' = file

-----------------------------------------------------------------------------
(* Start *)

\* A file that cannot be parsed, or cannot be made, is an error, and the agent
\* exits; one that is missing is made with no tasks in it.
LoadOrWrite ==
    \/ file.status = "whole" /\ file' = file /\ config' = file.tasks
    \/ file.status = "missing" /\ Write(NoTasks) /\ file' # file /\ config' = NoTasks

\* LoadOrWrite, and wsc.StartAsync: from here on messages may arrive.
LoadAndConnect ==
    /\ pc = "down"
    /\ LoadOrWrite
    /\ pc' = "starting"
    /\ UNCHANGED <<scheduled, handler, newMap, todo, lastMessage, session, inbox, backend>>

\* createExecutor sets e.taskScheduler, and taskScheduler.Start opens the queue
\* that event triggers subscribe with.
CreateExecutor ==
    /\ pc = "starting"
    /\ pc' = "created"
    /\ UNCHANGED <<config, scheduled, handler, newMap, todo, lastMessage, file, session, inbox, backend>>

StartTaskScheduler ==
    /\ pc = "created"
    /\ pc' = "running"
    /\ UNCHANGED <<config, scheduled, handler, newMap, todo, lastMessage, file, session, inbox, backend>>

\* Everything but the file is lost.
Dies ==
    /\ pc' = "down"
    /\ config' = NoTasks /\ scheduled' = NoTasks
    /\ handler' = "idle" /\ newMap' = NoTasks /\ todo' = {} /\ lastMessage' = NoMessage
    /\ session' = "none" /\ inbox' = <<>>
    /\ UNCHANGED <<file, backend>>

Crash == pc # "down" /\ Dies

-----------------------------------------------------------------------------
(* onTasks, onTask and onTaskRemoved *)

Up == pc # "down"

\* Mutant: only a task that is not in the configuration is scheduled.
ScheduledOnce(t, v) == [scheduled EXCEPT ![t] = IF config[t] = v THEN @ ELSE v]
Scheduled(t, v) == [scheduled EXCEPT ![t] = v]

\* onTask for version v of task t.
OnTask(t, v) ==
    /\ scheduled' = Scheduled(t, v)
    /\ config' = [config EXCEPT ![t] = v]
    /\ Write(config')

\* onTaskRemoved: a task that is not in the configuration is passed over.
OnTaskRemoved(t) ==
    /\ config' = [config EXCEPT ![t] = 0]
    /\ IF config[t] # 0 THEN Write(config') ELSE file' = file
    /\ UNCHANGED scheduled

\* Scheduling before Start is through: e.taskScheduler is nil, or its event
\* queue is.
ScheduleTooEarly ==
    /\ pc \in {"starting", "created"}
    /\ \/ handler = "schedule" /\ todo \cap CanExecute # {}
       \/ handler = "task_updated"
    /\ Dies

\* Mutant: a list of tasks is taken for the update of one.
HandlerUnsorted(m) == m.type
HandlerOf(m) == IF m.type = "tasks" THEN "schedule" ELSE m.type

\* The reader hands message m to its handler.
Handles(m) ==
    /\ Up
    /\ handler = "idle"
    /\ handler' = HandlerOf(m)
    /\ newMap' = m.tasks
    /\ todo' = Present(m.tasks)
    /\ lastMessage' = m
    /\ UNCHANGED <<pc, config, scheduled, file, session, backend>>

\* Mutant: each message is handled in a goroutine of its own.
ReceivesInAnyOrder ==
    \E i \in DOMAIN inbox :
        /\ Handles(inbox[i])
        /\ inbox' = SubSeq(inbox, 1, i - 1) \o SubSeq(inbox, i + 1, Len(inbox))

Receive ==
    /\ inbox # <<>>
    /\ Handles(Head(inbox))
    /\ inbox' = Tail(inbox)

\* After a failed read the message before is handled once more.
ReceiveStale ==
    /\ session = "none"
    /\ lastMessage # NoMessage
    /\ Handles(lastMessage)
    /\ UNCHANGED inbox

\* A handler of the kind `type` is at task t.
At(type, t) == Up /\ handler = type /\ t \in todo

HandleTaskUpdated(t) ==
    /\ At("task_updated", t) /\ pc # "starting"
    /\ OnTask(t, newMap[t])
    /\ handler' = "idle" /\ todo' = {}
    /\ UNCHANGED <<pc, newMap, lastMessage, session, inbox, backend>>

HandleTaskRemoved(t) ==
    /\ At("task_removed", t)
    /\ OnTaskRemoved(t)
    /\ handler' = "idle" /\ todo' = {}
    /\ UNCHANGED <<pc, newMap, lastMessage, session, inbox, backend>>

\* The loops of onTasks go through their maps in any order.
\* Mutant: a loop starts again after each task.
LeftAgain(t) == todo
LeftAfter(t) == todo \ {t}

OnTasksSchedules(t) ==
    /\ At("schedule", t) /\ pc # "starting"
    /\ t \in CanExecute
    /\ OnTask(t, newMap[t])
    /\ todo' = LeftAfter(t)
    /\ UNCHANGED <<pc, handler, newMap, lastMessage, session, inbox, backend>>

OnTasksSkips(t) ==
    /\ At("schedule", t)
    /\ t \notin CanExecute
    /\ todo' = LeftAfter(t)
    /\ UNCHANGED <<pc, config, scheduled, handler, newMap, lastMessage, file, session, inbox, backend>>

\* oldTasks is the map of the configuration itself, with what onTask put in it.
OnTasksScheduled ==
    /\ Up
    /\ handler = "schedule" /\ todo = {}
    /\ handler' = "remove"
    /\ todo' = Present(config) \ Present(newMap)
    /\ UNCHANGED <<pc, config, scheduled, newMap, lastMessage, file, session, inbox, backend>>

OnTasksRemoves(t) ==
    /\ At("remove", t)
    /\ OnTaskRemoved(t)
    /\ todo' = LeftAfter(t)
    /\ UNCHANGED <<pc, handler, newMap, lastMessage, session, inbox, backend>>

\* Mutant: the list of the backend is not stored.
ListDropped == config
ListStored == newMap

OnTasksAssigns ==
    /\ Up
    /\ handler = "remove" /\ todo = {}
    /\ config' = ListStored
    /\ Write(config')
    /\ handler' = "idle"
    /\ UNCHANGED <<pc, scheduled, newMap, todo, lastMessage, session, inbox, backend>>

-----------------------------------------------------------------------------
(* The backend: it sends its tasks to a new connection, and every change *)

\* By then the reader of the old connection has ended, unless Schedule waits to
\* send a subscription over it, and then it waits for good.
Connect ==
    /\ Up
    /\ session = "none"
    /\ handler = "idle" \/ (handler \in {"schedule", "task_updated"} /\ todo # {})
    /\ session' = "open"
    /\ inbox' = <<TaskList(backendTasks)>>
    /\ handler' = "idle" /\ todo' = {} /\ lastMessage' = NoMessage
    /\ UNCHANGED <<pc, config, scheduled, newMap, file, backend>>

ConnectionLost ==
    /\ session = "open"
    /\ session' = "none"
    /\ inbox' = <<>>
    /\ UNCHANGED <<memory, file, backend>>

\* A message for a change goes to whoever is connected.
Sends(m) == inbox' = IF session = "open" THEN Append(inbox, m) ELSE inbox

BackendUpdates(t) ==
    /\ version < MaxVersions
    /\ version' = version + 1
    /\ backendTasks' = [backendTasks EXCEPT ![t] = version']
    /\ Sends(TaskUpdated(t, version'))
    /\ UNCHANGED <<memory, file, session>>

BackendRemoves(t) ==
    /\ backendTasks[t] # 0
    /\ backendTasks' = [backendTasks EXCEPT ![t] = 0]
    /\ Sends(TaskRemoved(t, backendTasks[t]))
    /\ UNCHANGED <<memory, file, session, version>>

-----------------------------------------------------------------------------
Start == LoadAndConnect \/ CreateExecutor \/ StartTaskScheduler

Handle ==
    \/ Receive \/ ScheduleTooEarly
    \/ \E t \in Tasks :
          \/ HandleTaskUpdated(t) \/ HandleTaskRemoved(t)
          \/ OnTasksSchedules(t) \/ OnTasksSkips(t) \/ OnTasksRemoves(t)
    \/ OnTasksScheduled \/ OnTasksAssigns

Environment ==
    \/ Crash \/ Connect \/ ConnectionLost \/ ReceiveStale
    \/ \E t \in Tasks : BackendUpdates(t) \/ BackendRemoves(t)

Next == Start \/ Handle \/ Environment

Spec == Init /\ [][Next]_vars

\* The reader handles what arrives.
FairSpec == Spec /\ WF_vars(Handle)

-----------------------------------------------------------------------------
Versions == 0 .. MaxVersions
TaskMaps == [Tasks -> Versions]
MessageTypes == {"none", "tasks", "task_updated", "task_removed"}
IsMessage(m) == m.type \in MessageTypes /\ m.tasks \in TaskMaps

TypeOK ==
    /\ pc \in {"down", "starting", "created", "running"}
    /\ config \in TaskMaps
    /\ file.status \in {"missing", "whole", "torn"} /\ file.tasks \in TaskMaps
    /\ scheduled \in TaskMaps
    /\ handler \in {"idle", "schedule", "remove", "task_updated", "task_removed"}
    /\ newMap \in TaskMaps
    /\ todo \in SUBSET Tasks
    /\ IsMessage(lastMessage)
    /\ session \in {"none", "open"}
    /\ \A i \in DOMAIN inbox : IsMessage(inbox[i])
    /\ backendTasks \in TaskMaps
    /\ version \in Versions

\* The agent has handled all the present connection has brought it.
Synced == Up /\ session = "open" /\ inbox = <<>> /\ handler = "idle"

\* What the agent stores is what the backend has, once every message is handled:
\* crashes, stale messages handled twice, and changes made while the agent was
\* away or in the middle of onTasks do not last (onTasks, onTask, onTaskRemoved).
ConfigFollowsBackend == Synced => config = backendTasks

\* And a task the agent can execute is scheduled with its newest definition.
ScheduleFollowsBackend ==
    Synced => \A t \in Present(backendTasks) \cap CanExecute : scheduled[t] = backendTasks[t]

\* While an agent is up it never goes back to an older definition of a task, be
\* it with a message that is handled again, one of the connection before, or the
\* list of the next one (readPump, onTasks, onTask): the task scheduler is given
\* newer ones only, and a task that comes into the configuration or changes there
\* is no older than what was scheduled.
NeverGoesBack ==
    [][pc # "down" /\ pc' # "down" =>
          \A t \in Tasks :
              /\ scheduled'[t] >= scheduled[t]
              /\ \/ config'[t] \in {0, config[t]}
                 \/ config'[t] > config[t] /\ config'[t] >= scheduled[t]]_vars

\* An agent that stays up and connected catches up with a backend that has come
\* to rest (no message makes the handler stop or go round in circles).
CatchesUp == <>[](pc = "running" /\ session = "open") => <>[](config = backendTasks)

\* "synchronizes tasks list with the server": no task is scheduled that the
\* backend has deleted.
TasksSynchronized == Synced => Present(scheduled) \subseteq Present(backendTasks)
=============================================================================
