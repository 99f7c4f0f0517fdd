---------------------- MODULE ApplicationSchedulerProofs ----------------------
(***************************************************************************)
(* What ApplicationScheduler guarantees for every set of tasks, whichever  *)
(* of them can be executed, and for any number of changes at the backend:  *)
(* once the messages are handled the configuration and the schedule are    *)
(* those of the backend, and on the way there they never go back.          *)
(***************************************************************************)
EXTENDS ApplicationScheduler, TLAPS

-----------------------------------------------------------------------------
(* Invariants *)

\* What the backend sends: all its tasks, or a change of one.
Messages ==
    {m \in [type : {"tasks", "task_updated", "task_removed"}, tasks : TaskMaps] :
         m.type # "tasks" => \E t \in Tasks : Present(m.tasks) = {t}}

\* What arrives is what the backend sends, a handler of a change is about one
\* task, and an agent that is down has no connection.
MessagesInv ==
    /\ inbox \in Seq(Messages)
    /\ lastMessage \in Messages \cup {NoMessage}
    /\ handler \in {"task_updated", "task_removed"} => \E t \in Tasks : todo = {t}
    /\ pc = "down" => session = "none" /\ handler = "idle"

Typed == TypeOK /\ MessagesInv

\* Message m is about task t, and tells its version.
Mentions(m, t) == m.type = "tasks" \/ m.tasks[t] # 0
Told(m, t) == IF m.type = "task_removed" THEN 0 ELSE m.tasks[t]

\* No message about t is on its way.
Quiet(t) == \A i \in 1 .. Len(inbox) : ~Mentions(inbox[i], t)

\* The last message about a task tells the version the backend has.
LastWordInv ==
    session = "open" =>
        \A t \in Tasks : \A i \in 1 .. Len(inbox) :
            Mentions(inbox[i], t) /\ (\A j \in i + 1 .. Len(inbox) : ~Mentions(inbox[j], t))
                => Told(inbox[i], t) = backendTasks[t]

\* The version of t in the configuration once the handler is through.
Outcome(t) ==
    CASE handler = "idle" -> config[t]
      [] handler \in {"schedule", "remove"} -> newMap[t]
      [] handler = "task_updated" -> IF t \in todo THEN newMap[t] ELSE config[t]
      [] handler = "task_removed" -> IF t \in todo THEN 0 ELSE config[t]

ConfigInv == session = "open" => \A t \in Tasks : Quiet(t) => Outcome(t) = backendTasks[t]

\* The version of t the task scheduler has once the handler is through.
ScheduleOutcome(t) ==
    IF handler \in {"schedule", "task_updated"} /\ t \in todo THEN newMap[t] ELSE scheduled[t]

ScheduleInv ==
    session = "open" =>
        \A t \in CanExecute :
            Quiet(t) /\ backendTasks[t] # 0 => ScheduleOutcome(t) = backendTasks[t]

-----------------------------------------------------------------------------
(* Type correctness *)

\* A message of the backend is about the one task it names, or is the list.
LEMMA MessagesSent ==
    /\ \A t \in Tasks : \A v \in 1 .. MaxVersions :
           /\ TaskUpdated(t, v) \in Messages /\ TaskRemoved(t, v) \in Messages
           /\ \A u \in Tasks : Mentions(TaskUpdated(t, v), u) <=> u = t
           /\ \A u \in Tasks : Mentions(TaskRemoved(t, v), u) <=> u = t
           /\ Told(TaskUpdated(t, v), t) = v /\ Told(TaskRemoved(t, v), t) = 0
    /\ \A tasks \in TaskMaps :
           /\ TaskList(tasks) \in Messages
           /\ \A u \in Tasks : Mentions(TaskList(tasks), u) /\ Told(TaskList(tasks), u) = tasks[u]
<1> USE ApplicationAssumption
<1>1. ASSUME NEW t \in Tasks, NEW v \in 1 .. MaxVersions
      PROVE  /\ [NoTasks EXCEPT ![t] = v] \in TaskMaps
             /\ [NoTasks EXCEPT ![t] = v][t] = v
             /\ \A u \in Tasks : [NoTasks EXCEPT ![t] = v][u] # 0 <=> u = t
             /\ Present([NoTasks EXCEPT ![t] = v]) = {t}
  BY DEF NoTasks, TaskMaps, Versions, Present
<1>2. ASSUME NEW t \in Tasks, NEW v \in 1 .. MaxVersions
      PROVE  /\ TaskUpdated(t, v) \in Messages /\ TaskRemoved(t, v) \in Messages
             /\ \A u \in Tasks : Mentions(TaskUpdated(t, v), u) <=> u = t
             /\ \A u \in Tasks : Mentions(TaskRemoved(t, v), u) <=> u = t
             /\ Told(TaskUpdated(t, v), t) = v /\ Told(TaskRemoved(t, v), t) = 0
  <2> DEFINE tasks == [NoTasks EXCEPT ![t] = v]
  <2>1. /\ tasks \in TaskMaps /\ tasks[t] = v /\ \A u \in Tasks : tasks[u] # 0 <=> u = t
        /\ Present(tasks) = {t}
    BY <1>1, <1>2
  <2>2. TaskUpdated(t, v) = [type |-> "task_updated", tasks |-> tasks]
        /\ TaskRemoved(t, v) = [type |-> "task_removed", tasks |-> tasks]
    BY DEF TaskUpdated, TaskRemoved
  <2> HIDE DEF tasks
  <2> QED
    BY <2>1, <2>2 DEF Messages, Mentions, Told
<1>3. ASSUME NEW tasks \in TaskMaps
      PROVE  /\ TaskList(tasks) \in Messages
             /\ \A u \in Tasks : Mentions(TaskList(tasks), u) /\ Told(TaskList(tasks), u) = tasks[u]
  BY DEF TaskList, Messages, Mentions, Told
<1> QED
  BY <1>2, <1>3

\* A message is of the type the handlers expect.
LEMMA MessagesAreMessages ==
    /\ \A m \in Messages : /\ IsMessage(m) /\ m.tasks \in TaskMaps
                           /\ m.type \in {"tasks", "task_updated", "task_removed"}
                           /\ m.type # "tasks" => \E t \in Tasks : Present(m.tasks) = {t}
    /\ IsMessage(NoMessage) /\ NoTasks \in TaskMaps
<1>1. NoTasks \in TaskMaps
  BY ApplicationAssumption DEF NoTasks, TaskMaps, Versions
<1> QED
  BY <1>1 DEF Messages, IsMessage, MessageTypes, NoMessage

\* The file, the configuration and the schedule, the handler, the messages and
\* the backend.
FileTyped == file.status \in {"missing", "whole", "torn"} /\ file.tasks \in TaskMaps
MapsTyped == config \in TaskMaps /\ scheduled \in TaskMaps
HandlerTyped ==
    /\ handler \in {"idle", "schedule", "remove", "task_updated", "task_removed"}
    /\ newMap \in TaskMaps
    /\ todo \in SUBSET Tasks
    /\ handler \in {"task_updated", "task_removed"} => \E t \in Tasks : todo = {t}
LinkTyped ==
    /\ pc \in {"down", "starting", "created", "running"}
    /\ session \in {"none", "open"}
    /\ pc = "down" => session = "none" /\ handler = "idle"
InboxTyped == inbox \in Seq(Messages) /\ lastMessage \in Messages \cup {NoMessage}
BackendTyped == backendTasks \in TaskMaps /\ version \in Versions

Groups == /\ FileTyped /\ MapsTyped /\ HandlerTyped
          /\ LinkTyped /\ InboxTyped /\ BackendTyped

\* The type invariant is its groups, before a step and after it.
LEMMA TypedGroups == (Typed <=> Groups) /\ (Typed' <=> Groups')
<1>1. ASSUME NEW s \in Seq(Messages), NEW i \in DOMAIN s
      PROVE  IsMessage(s[i])
  <2>1. s[i] \in Messages
    OBVIOUS
  <2> QED
    BY <2>1, MessagesAreMessages
<1>2. lastMessage \in Messages \cup {NoMessage} => IsMessage(lastMessage)
  BY MessagesAreMessages
<1>3. lastMessage' \in Messages \cup {NoMessage} => IsMessage(lastMessage')
  BY MessagesAreMessages
<1>4. Typed <=> Groups
  BY <1>1, <1>2 DEF Typed, Groups, TypeOK, MessagesInv, FileTyped, MapsTyped, HandlerTyped, LinkTyped,
                    InboxTyped, BackendTyped
<1>5. Typed' <=> Groups'
  BY <1>1, <1>3 DEF Typed, Groups, TypeOK, MessagesInv, FileTyped, MapsTyped, HandlerTyped, LinkTyped,
                    InboxTyped, BackendTyped
<1> QED
  BY <1>4, <1>5

\* A configuration file holds what it was given, or nothing that can be read.
LEMMA WriteTyped ==
    ASSUME FileTyped, NEW tasks \in TaskMaps, Write(tasks)
    PROVE  FileTyped'
  BY MessagesAreMessages DEF FileTyped, Write

\* What a task's version becomes in the configuration and the schedule.
LEMMA OnTaskTyped ==
    ASSUME Typed, NEW t \in Tasks
    PROVE  /\ \A v \in Versions : OnTask(t, v) => MapsTyped' /\ FileTyped'
           /\ OnTaskRemoved(t) => MapsTyped' /\ FileTyped'
<1>t. MapsTyped /\ FileTyped
  BY TypedGroups DEF Groups
<1>1. ASSUME NEW v \in Versions, OnTask(t, v)
      PROVE  MapsTyped' /\ FileTyped'
  <2>1. config' \in TaskMaps /\ scheduled' \in TaskMaps /\ Write(config')
    BY <1>1, <1>t DEF OnTask, Scheduled, MapsTyped, TaskMaps
  <2> QED
    BY <1>t, <2>1, WriteTyped DEF MapsTyped
<1>2. ASSUME OnTaskRemoved(t)
      PROVE  MapsTyped' /\ FileTyped'
  <2>1. config' \in TaskMaps /\ scheduled' = scheduled
    <3>1. 0 \in Versions
      BY ApplicationAssumption DEF Versions
    <3> QED
      BY <1>2, <1>t, <3>1 DEF OnTaskRemoved, MapsTyped, TaskMaps
  <2>2. Write(config') \/ file' = file
    BY <1>2 DEF OnTaskRemoved
  <2> QED
    BY <1>t, <2>1, <2>2, WriteTyped DEF MapsTyped, FileTyped
<1> QED
  BY <1>1, <1>2

\* Starting the agent, and its end.
LEMMA StartTyped ==
    ASSUME Typed, Start \/ Crash \/ ScheduleTooEarly
    PROVE  Typed'
<1> USE DEF backend
<1>t. FileTyped /\ MapsTyped /\ HandlerTyped /\ LinkTyped /\ InboxTyped /\ BackendTyped
  BY TypedGroups DEF Groups
<1>1. CASE LoadAndConnect
  <2>1. FileTyped' /\ config' \in TaskMaps
    <3>1. CASE file' = file /\ config' = file.tasks
      BY <3>1, <1>t DEF FileTyped
    <3>2. CASE Write(NoTasks) /\ config' = NoTasks
      BY <3>2, <1>t, WriteTyped, MessagesAreMessages
    <3> QED
      BY <1>1, <3>1, <3>2 DEF LoadAndConnect, LoadOrWrite
  <2> QED
    BY <1>1, <1>t, <2>1, TypedGroups
    DEF Groups, LoadAndConnect, MapsTyped, HandlerTyped, LinkTyped, InboxTyped, BackendTyped
<1>2. CASE CreateExecutor \/ StartTaskScheduler
  BY <1>2, <1>t, TypedGroups
  DEF Groups, CreateExecutor, StartTaskScheduler, FileTyped, MapsTyped, HandlerTyped, LinkTyped,
      InboxTyped, BackendTyped
<1>3. CASE Dies
  BY <1>3, <1>t, TypedGroups, MessagesAreMessages
  DEF Groups, Dies, FileTyped, MapsTyped, HandlerTyped, LinkTyped, InboxTyped, BackendTyped
<1> QED
  BY <1>1, <1>2, <1>3 DEF Start, Crash, ScheduleTooEarly

\* The reader hands over a message.
LEMMA HandlesTyped ==
    ASSUME Typed, NEW m \in Messages, Handles(m), inbox' \in Seq(Messages)
    PROVE  /\ Typed' /\ newMap' = m.tasks /\ todo' = Present(m.tasks)
           /\ handler = "idle" /\ pc # "down"
           /\ handler' = IF m.type = "tasks" THEN "schedule" ELSE m.type
           /\ UNCHANGED <<session, config, scheduled, backendTasks>>
<1> USE DEF backend
<1>t. FileTyped /\ MapsTyped /\ HandlerTyped /\ LinkTyped /\ InboxTyped /\ BackendTyped
  BY TypedGroups DEF Groups
<1>1. /\ newMap' = m.tasks /\ todo' = Present(m.tasks) /\ handler = "idle" /\ pc # "down"
      /\ handler' = IF m.type = "tasks" THEN "schedule" ELSE m.type
      /\ lastMessage' = m
      /\ UNCHANGED <<pc, config, scheduled, file, session, backend>>
  BY DEF Handles, Up, HandlerOf
<1>2. HandlerTyped'
  BY <1>1, MessagesAreMessages DEF HandlerTyped, Present
<1> QED
  BY <1>1, <1>2, <1>t, TypedGroups DEF Groups, FileTyped, MapsTyped, LinkTyped, InboxTyped, BackendTyped

\* The handlers go through their tasks.
LEMMA HandlersTyped ==
    ASSUME Typed, NEW t \in Tasks,
           \/ HandleTaskUpdated(t) \/ HandleTaskRemoved(t)
           \/ OnTasksSchedules(t) \/ OnTasksSkips(t) \/ OnTasksRemoves(t)
    PROVE  Typed'
<1> USE DEF backend
<1>t. FileTyped /\ MapsTyped /\ HandlerTyped /\ LinkTyped /\ InboxTyped /\ BackendTyped
  BY TypedGroups DEF Groups
<1>v. newMap[t] \in Versions
  BY <1>t DEF HandlerTyped, TaskMaps
<1>1. ASSUME MapsTyped', FileTyped', HandlerTyped', LinkTyped',
             UNCHANGED <<lastMessage, inbox, backendTasks, version>>
      PROVE  Typed'
  BY <1>1, <1>t, TypedGroups DEF Groups, InboxTyped, BackendTyped
<1>2. CASE HandleTaskUpdated(t)
  <2>1. MapsTyped' /\ FileTyped'
    BY <1>2, <1>v, OnTaskTyped DEF HandleTaskUpdated
  <2>2. HandlerTyped' /\ LinkTyped'
    BY <1>2, <1>t DEF HandleTaskUpdated, HandlerTyped, LinkTyped
  <2> QED
    BY <1>1, <1>2, <2>1, <2>2 DEF HandleTaskUpdated
<1>3. CASE HandleTaskRemoved(t)
  <2>1. MapsTyped' /\ FileTyped'
    BY <1>3, OnTaskTyped DEF HandleTaskRemoved
  <2>2. HandlerTyped' /\ LinkTyped'
    BY <1>3, <1>t DEF HandleTaskRemoved, HandlerTyped, LinkTyped
  <2> QED
    BY <1>1, <1>3, <2>1, <2>2 DEF HandleTaskRemoved
<1>4. CASE OnTasksSchedules(t)
  <2>1. MapsTyped' /\ FileTyped'
    BY <1>4, <1>v, OnTaskTyped DEF OnTasksSchedules
  <2>2. HandlerTyped' /\ LinkTyped'
    BY <1>4, <1>t DEF OnTasksSchedules, At, LeftAfter, HandlerTyped, LinkTyped
  <2> QED
    BY <1>1, <1>4, <2>1, <2>2 DEF OnTasksSchedules
<1>5. CASE OnTasksSkips(t)
  <2>1. MapsTyped' /\ FileTyped'
    BY <1>5, <1>t DEF OnTasksSkips, MapsTyped, FileTyped
  <2>2. HandlerTyped' /\ LinkTyped'
    BY <1>5, <1>t DEF OnTasksSkips, At, LeftAfter, HandlerTyped, LinkTyped
  <2> QED
    BY <1>1, <1>5, <2>1, <2>2 DEF OnTasksSkips
<1>6. CASE OnTasksRemoves(t)
  <2>1. MapsTyped' /\ FileTyped'
    BY <1>6, OnTaskTyped DEF OnTasksRemoves
  <2>2. HandlerTyped' /\ LinkTyped'
    BY <1>6, <1>t DEF OnTasksRemoves, At, LeftAfter, HandlerTyped, LinkTyped
  <2> QED
    BY <1>1, <1>6, <2>1, <2>2 DEF OnTasksRemoves
<1> QED
  BY <1>2, <1>3, <1>4, <1>5, <1>6

\* A message for a change reaches the inbox of a connection that is open.
LEMMA ChangesTyped ==
    ASSUME Typed, NEW t \in Tasks, BackendUpdates(t) \/ BackendRemoves(t)
    PROVE  /\ Typed'
           /\ UNCHANGED <<memory, session>>
           /\ \A u \in Tasks \ {t} : backendTasks'[u] = backendTasks[u]
           /\ \E m \in Messages :
                 /\ inbox' = IF session = "open" THEN Append(inbox, m) ELSE inbox
                 /\ \A u \in Tasks : Mentions(m, u) <=> u = t
                 /\ Told(m, t) = backendTasks'[t]
<1>t. FileTyped /\ MapsTyped /\ HandlerTyped /\ LinkTyped /\ InboxTyped /\ BackendTyped
  BY TypedGroups DEF Groups
<1>u. UNCHANGED <<memory, session, file>>
  BY DEF BackendUpdates, BackendRemoves
<1>1. /\ BackendTyped'
      /\ \A u \in Tasks \ {t} : backendTasks'[u] = backendTasks[u]
      /\ \E m \in Messages :
            /\ inbox' = IF session = "open" THEN Append(inbox, m) ELSE inbox
            /\ \A u \in Tasks : Mentions(m, u) <=> u = t
            /\ Told(m, t) = backendTasks'[t]
  <2>1. CASE BackendUpdates(t)
    <3>1. version' \in 1 .. MaxVersions /\ version' \in Versions
      BY <2>1, <1>t, ApplicationAssumption DEF BackendUpdates, BackendTyped, Versions
    <3>2. backendTasks' = [backendTasks EXCEPT ![t] = version'] /\ Sends(TaskUpdated(t, version'))
      BY <2>1 DEF BackendUpdates
    <3>3. backendTasks'[t] = version' /\ \A u \in Tasks \ {t} : backendTasks'[u] = backendTasks[u]
      BY <3>2, <1>t DEF BackendTyped, TaskMaps
    <3>4. BackendTyped'
      BY <3>1, <3>2, <1>t DEF BackendTyped, TaskMaps
    <3> QED
      BY <3>1, <3>2, <3>3, <3>4, MessagesSent DEF Sends
  <2>2. CASE BackendRemoves(t)
    <3>1. backendTasks[t] \in 1 .. MaxVersions /\ 0 \in Versions
      BY <2>2, <1>t, ApplicationAssumption DEF BackendRemoves, BackendTyped, TaskMaps, Versions
    <3>2. /\ backendTasks' = [backendTasks EXCEPT ![t] = 0] /\ Sends(TaskRemoved(t, backendTasks[t]))
          /\ version' = version
      BY <2>2 DEF BackendRemoves
    <3>3. backendTasks'[t] = 0 /\ \A u \in Tasks \ {t} : backendTasks'[u] = backendTasks[u]
      BY <3>2, <1>t DEF BackendTyped, TaskMaps
    <3>4. BackendTyped'
      BY <3>1, <3>2, <1>t DEF BackendTyped, TaskMaps
    <3> QED
      BY <3>1, <3>2, <3>3, <3>4, MessagesSent DEF Sends
  <2> QED
    BY <2>1, <2>2
<1>2. InboxTyped'
  BY <1>1, <1>u, <1>t DEF InboxTyped, memory
<1> QED
  BY <1>1, <1>2, <1>u, <1>t, TypedGroups
  DEF Groups, FileTyped, MapsTyped, HandlerTyped, LinkTyped, memory

\* Every step preserves the types.
LEMMA StepTyped == Typed /\ [Next]_vars => Typed'
<1> SUFFICES ASSUME Typed, [Next]_vars PROVE Typed'
  OBVIOUS
<1> USE DEF backend, memory
<1>t. FileTyped /\ MapsTyped /\ HandlerTyped /\ LinkTyped /\ InboxTyped /\ BackendTyped
  BY TypedGroups DEF Groups
<1>1. CASE Start \/ Crash \/ ScheduleTooEarly
  BY <1>1, StartTyped
<1>2. CASE Receive
  <2>1. Head(inbox) \in Messages /\ Tail(inbox) \in Seq(Messages)
    BY <1>2, <1>t DEF Receive, InboxTyped
  <2> QED
    BY <1>2, <2>1, HandlesTyped DEF Receive
<1>3. CASE ReceiveStale
  BY <1>3, <1>t, HandlesTyped DEF ReceiveStale, InboxTyped
<1>4. ASSUME NEW t \in Tasks,
             \/ HandleTaskUpdated(t) \/ HandleTaskRemoved(t)
             \/ OnTasksSchedules(t) \/ OnTasksSkips(t) \/ OnTasksRemoves(t)
      PROVE  Typed'
  BY <1>4, HandlersTyped
<1>5. CASE OnTasksScheduled
  BY <1>5, <1>t, TypedGroups
  DEF OnTasksScheduled, Present, Up, Groups, FileTyped, MapsTyped, HandlerTyped, LinkTyped, InboxTyped,
      BackendTyped
<1>6. CASE OnTasksAssigns
  <2>1. MapsTyped' /\ Write(config') /\ config' \in TaskMaps
    BY <1>6, <1>t DEF OnTasksAssigns, ListStored, MapsTyped, HandlerTyped
  <2>2. FileTyped'
    BY <2>1, <1>t, WriteTyped
  <2> QED
    BY <1>6, <1>t, <2>1, <2>2, TypedGroups
    DEF OnTasksAssigns, Groups, HandlerTyped, LinkTyped, InboxTyped, BackendTyped
<1>7. CASE Connect
  <2>1. TaskList(backendTasks) \in Messages
    BY <1>t, MessagesSent DEF BackendTyped
  <2>2. InboxTyped'
    BY <1>7, <2>1 DEF Connect, InboxTyped
  <2> QED
    BY <1>7, <1>t, <2>2, TypedGroups
    DEF Connect, Up, Groups, FileTyped, MapsTyped, HandlerTyped, LinkTyped, BackendTyped
<1>8. CASE ConnectionLost
  BY <1>8, <1>t, TypedGroups
  DEF ConnectionLost, Groups, FileTyped, MapsTyped, HandlerTyped, LinkTyped, InboxTyped, BackendTyped
<1>9. CASE \E t \in Tasks : BackendUpdates(t) \/ BackendRemoves(t)
  BY <1>9, ChangesTyped
<1>10. CASE UNCHANGED vars
  BY <1>10, <1>t, TypedGroups
  DEF vars, Groups, FileTyped, MapsTyped, HandlerTyped, LinkTyped, InboxTyped, BackendTyped
<1> QED
  BY <1>1, <1>2, <1>3, <1>4, <1>5, <1>6, <1>7, <1>8, <1>9, <1>10 DEF Next, Handle, Environment

\* The types, and the messages and handlers as the backend makes them.
LEMMA TypedInvariant == Spec => []Typed
<1>1. Init => Typed
  <2> SUFFICES ASSUME Init PROVE Typed
    OBVIOUS
  <2>1. NoTasks \in TaskMaps /\ 0 \in Versions
    BY MessagesAreMessages, ApplicationAssumption DEF Versions
  <2> QED
    BY <2>1, TypedGroups
    DEF Init, Groups, FileTyped, MapsTyped, HandlerTyped, LinkTyped, InboxTyped, BackendTyped
<1> QED
  BY <1>1, StepTyped, PTL DEF Spec

\* The type invariant of the agent, its file and the backend.
THEOREM TypeCorrect == Spec => []TypeOK
<1>1. Typed => TypeOK
  BY DEF Typed
<1> QED
  BY <1>1, TypedInvariant, PTL

-----------------------------------------------------------------------------
(* The agent follows the backend *)

\* The steps of an agent that is connected after them.
HandlerStep(t) ==
    \/ HandleTaskUpdated(t) \/ HandleTaskRemoved(t)
    \/ OnTasksSchedules(t) \/ OnTasksSkips(t) \/ OnTasksRemoves(t)

\* An agent that is connected after a step has just connected, received, been
\* overtaken by the backend, or worked on the message its handler has.
LEMMA ConnectedSteps ==
    ASSUME Typed, [Next]_vars, session' = "open"
    PROVE  \/ Connect
           \/ session = "open" /\ Receive
           \/ session = "open" /\ \E t \in Tasks : BackendUpdates(t) \/ BackendRemoves(t)
           \/ /\ session = "open" /\ UNCHANGED <<inbox, backendTasks>>
              /\ \/ UNCHANGED <<handler, newMap, todo, config, scheduled>>
                 \/ \E t \in Tasks : HandlerStep(t)
                 \/ OnTasksScheduled \/ OnTasksAssigns
<1> USE DEF backend, memory
<1>t. LinkTyped
  BY TypedGroups DEF Groups
<1>1. ~LoadAndConnect /\ ~Crash /\ ~ScheduleTooEarly /\ ~ConnectionLost
  BY <1>t DEF LoadAndConnect, Crash, ScheduleTooEarly, Dies, ConnectionLost, LinkTyped
<1>2. CreateExecutor \/ StartTaskScheduler \/ UNCHANGED vars
          => session = "open" /\ UNCHANGED <<inbox, backendTasks, handler, newMap, todo, config, scheduled>>
  BY DEF CreateExecutor, StartTaskScheduler, vars
<1>3. Receive => session = "open"
  BY DEF Receive, Handles
<1>4. ~ReceiveStale
  BY DEF ReceiveStale, Handles
<1>5. \A t \in Tasks : BackendUpdates(t) \/ BackendRemoves(t) => session = "open"
  BY DEF BackendUpdates, BackendRemoves
<1>6. ASSUME NEW t \in Tasks, HandlerStep(t)
      PROVE  session = "open" /\ UNCHANGED <<inbox, backendTasks>>
  BY <1>6 DEF HandlerStep, HandleTaskUpdated, HandleTaskRemoved, OnTasksSchedules, OnTasksSkips,
              OnTasksRemoves
<1>7. OnTasksScheduled \/ OnTasksAssigns => session = "open" /\ UNCHANGED <<inbox, backendTasks>>
  BY DEF OnTasksScheduled, OnTasksAssigns
<1>8. ASSUME NEW t \in Tasks,
             \/ HandleTaskUpdated(t) \/ HandleTaskRemoved(t)
             \/ OnTasksSchedules(t) \/ OnTasksSkips(t) \/ OnTasksRemoves(t)
      PROVE  HandlerStep(t)
  BY <1>8 DEF HandlerStep
<1>9. Handle => Receive \/ (\E t \in Tasks : HandlerStep(t)) \/ OnTasksScheduled \/ OnTasksAssigns
  BY <1>1, <1>8 DEF Handle
<1>10. Next => \/ CreateExecutor \/ StartTaskScheduler \/ Handle \/ Connect
               \/ \E t \in Tasks : BackendUpdates(t) \/ BackendRemoves(t)
  BY <1>1, <1>4 DEF Next, Start, Environment
<1> QED
  BY <1>2, <1>3, <1>5, <1>6, <1>7, <1>9, <1>10

\* The head of the inbox leaves the rest as it was, and a new message comes last.
LEMMA Inboxes ==
    ASSUME NEW s \in Seq(Messages)
    PROVE  /\ Len(s) \in Nat
           /\ s # <<>> => /\ Head(s) = s[1] /\ Head(s) \in Messages /\ Tail(s) \in Seq(Messages)
                         /\ Len(s) >= 1 /\ Len(Tail(s)) = Len(s) - 1
                         /\ \A i \in 1 .. Len(s) - 1 : Tail(s)[i] = s[i + 1]
           /\ \A m \in Messages : /\ Len(Append(s, m)) = Len(s) + 1
                                  /\ Append(s, m)[Len(s) + 1] = m
                                  /\ \A i \in 1 .. Len(s) : Append(s, m)[i] = s[i]
  OBVIOUS

\* The backend sends each change after the ones before, and the list first.
LEMMA StepLastWordInv == Typed /\ LastWordInv /\ [Next]_vars => LastWordInv'
<1> SUFFICES ASSUME Typed, LastWordInv, [Next]_vars, session' = "open",
                    NEW t \in Tasks, NEW i \in 1 .. Len(inbox'),
                    Mentions(inbox'[i], t), \A j \in i + 1 .. Len(inbox') : ~Mentions(inbox'[j], t)
             PROVE  Told(inbox'[i], t) = backendTasks'[t]
  BY DEF LastWordInv
<1>t. inbox \in Seq(Messages) /\ Len(inbox) \in Nat /\ backendTasks \in TaskMaps
  BY TypedGroups, Inboxes DEF Groups, InboxTyped, BackendTyped
<1>i. ASSUME session = "open", NEW k \in 1 .. Len(inbox), Mentions(inbox[k], t),
             \A j \in k + 1 .. Len(inbox) : ~Mentions(inbox[j], t)
      PROVE  Told(inbox[k], t) = backendTasks[t]
  BY <1>i DEF LastWordInv
<1>1. CASE Connect
  <2>1. inbox' = <<TaskList(backendTasks)>> /\ backendTasks' = backendTasks
    BY <1>1 DEF Connect, backend
  <2>2. Len(inbox') = 1 /\ inbox'[1] = TaskList(backendTasks)
    BY <2>1
  <2>3. i = 1
    BY <2>2
  <2> QED
    BY <1>t, <2>1, <2>2, <2>3, MessagesSent
<1>2. CASE session = "open" /\ Receive
  <2>1. inbox # <<>> /\ inbox' = Tail(inbox) /\ backendTasks' = backendTasks
    BY <1>2 DEF Receive, Handles, backend
  <2>2. /\ Len(inbox') = Len(inbox) - 1
        /\ \A k \in 1 .. Len(inbox) - 1 : inbox'[k] = inbox[k + 1]
    BY <1>t, <2>1, Inboxes
  <2>3. i + 1 \in 1 .. Len(inbox) /\ inbox'[i] = inbox[i + 1]
    BY <1>t, <2>2
  <2>4. ASSUME NEW j \in i + 2 .. Len(inbox)
        PROVE  ~Mentions(inbox[j], t)
    <3>1. j - 1 \in i + 1 .. Len(inbox') /\ inbox'[j - 1] = inbox[j]
      BY <1>t, <2>2
    <3> QED
      BY <3>1
  <2> QED
    BY <1>2, <1>i, <2>1, <2>3, <2>4
<1>3. ASSUME session = "open", NEW u \in Tasks, BackendUpdates(u) \/ BackendRemoves(u)
      PROVE  Told(inbox'[i], t) = backendTasks'[t]
  <2>1. PICK m \in Messages :
            /\ inbox' = Append(inbox, m)
            /\ \A v \in Tasks : Mentions(m, v) <=> v = u
            /\ Told(m, u) = backendTasks'[u]
    BY <1>3, ChangesTyped
  <2>2. /\ Len(inbox') = Len(inbox) + 1 /\ inbox'[Len(inbox) + 1] = m
        /\ \A k \in 1 .. Len(inbox) : inbox'[k] = inbox[k]
    BY <1>t, <2>1, Inboxes
  <2>3. CASE t = u
    <3>1. i = Len(inbox) + 1
      <4>1. SUFFICES ASSUME i \in 1 .. Len(inbox) PROVE FALSE
        BY <1>t, <2>2
      <4>2. Len(inbox) + 1 \in i + 1 .. Len(inbox')
        BY <1>t, <2>2, <4>1
      <4> QED
        BY <2>1, <2>2, <2>3, <4>2
    <3> QED
      BY <2>1, <2>2, <2>3, <3>1
  <2>4. CASE t # u
    <3>1. ~Mentions(m, t) /\ backendTasks'[t] = backendTasks[t]
      BY <2>1, <2>4, <1>3, ChangesTyped
    <3>2. i \in 1 .. Len(inbox) /\ inbox'[i] = inbox[i]
      BY <1>t, <2>2, <3>1
    <3>3. ASSUME NEW j \in i + 1 .. Len(inbox)
          PROVE  ~Mentions(inbox[j], t)
      <4>1. j \in i + 1 .. Len(inbox') /\ inbox'[j] = inbox[j]
        BY <1>t, <2>2, <3>2
      <4> QED
        BY <4>1
    <3> QED
      BY <1>3, <1>i, <3>1, <3>2, <3>3
  <2> QED
    BY <2>3, <2>4
<1>4. CASE session = "open" /\ UNCHANGED <<inbox, backendTasks>>
  BY <1>4, <1>i
<1> QED
  BY <1>1, <1>2, <1>3, <1>4, ConnectedSteps

\* What the reader takes out of the inbox is the last word on every task that
\* nothing more arrives about.
LEMMA ReceivedWord ==
    ASSUME Typed, LastWordInv, session = "open", Receive, NEW t \in Tasks, Quiet(t)'
    PROVE  \E m \in Messages :
               /\ newMap' = m.tasks /\ todo' = Present(m.tasks) /\ m.tasks \in TaskMaps
               /\ handler = "idle"
               /\ handler' = IF m.type = "tasks" THEN "schedule" ELSE m.type
               /\ m.type \in {"tasks", "task_updated", "task_removed"}
               /\ UNCHANGED <<config, scheduled, backendTasks>>
               /\ \/ Mentions(m, t) /\ Told(m, t) = backendTasks[t]
                  \/ ~Mentions(m, t) /\ Quiet(t)
<1>t. inbox \in Seq(Messages) /\ Len(inbox) \in Nat
  BY TypedGroups, Inboxes DEF Groups, InboxTyped
<1>1. inbox # <<>> /\ inbox' = Tail(inbox) /\ Handles(Head(inbox))
  BY DEF Receive
<1>2. /\ Head(inbox) = inbox[1] /\ Head(inbox) \in Messages /\ inbox' \in Seq(Messages)
      /\ Len(inbox) >= 1 /\ Len(inbox') = Len(inbox) - 1
      /\ \A k \in 1 .. Len(inbox) - 1 : inbox'[k] = inbox[k + 1]
  BY <1>t, <1>1, Inboxes
<1>3. PICK m \in Messages : m = Head(inbox)
  BY <1>2
<1>4. /\ newMap' = m.tasks /\ todo' = Present(m.tasks) /\ handler = "idle"
      /\ handler' = IF m.type = "tasks" THEN "schedule" ELSE m.type
      /\ UNCHANGED <<config, scheduled, backendTasks>>
  BY <1>1, <1>2, <1>3, HandlesTyped
<1>5. m.tasks \in TaskMaps /\ m.type \in {"tasks", "task_updated", "task_removed"}
  BY MessagesAreMessages
<1>6. ASSUME NEW j \in 2 .. Len(inbox)
      PROVE  ~Mentions(inbox[j], t)
  <2>1. j - 1 \in 1 .. Len(inbox') /\ inbox'[j - 1] = inbox[j]
    BY <1>t, <1>2
  <2> QED
    BY <2>1 DEF Quiet
<1>7. CASE Mentions(m, t)
  <2>1. Told(m, t) = backendTasks[t]
    <3>1. 1 \in 1 .. Len(inbox) /\ \A j \in 1 + 1 .. Len(inbox) : ~Mentions(inbox[j], t)
      BY <1>t, <1>2, <1>6
    <3> QED
      BY <1>2, <1>3, <1>7, <3>1 DEF LastWordInv
  <2> QED
    BY <1>4, <1>5, <1>7, <2>1
<1>8. CASE ~Mentions(m, t)
  <2>1. Quiet(t)
    <3>1. ASSUME NEW j \in 1 .. Len(inbox) PROVE ~Mentions(inbox[j], t)
      <4>1. j = 1 \/ j \in 2 .. Len(inbox)
        BY <1>t
      <4> QED
        BY <1>2, <1>3, <1>6, <1>8, <4>1
    <3> QED
      BY <3>1 DEF Quiet
  <2> QED
    BY <1>4, <1>5, <1>8, <2>1
<1> QED
  BY <1>7, <1>8

\* Once nothing is on its way about a task, the handler leaves it in the
\* configuration as the backend has it.
LEMMA StepConfigInv == Typed /\ LastWordInv /\ ConfigInv /\ [Next]_vars => ConfigInv'
<1> SUFFICES ASSUME Typed, LastWordInv, ConfigInv, [Next]_vars, session' = "open",
                    NEW t \in Tasks, Quiet(t)'
             PROVE  Outcome(t)' = backendTasks'[t]
  BY DEF ConfigInv
<1>t. /\ inbox \in Seq(Messages) /\ Len(inbox) \in Nat
      /\ config \in TaskMaps /\ newMap \in TaskMaps
      /\ handler \in {"idle", "schedule", "remove", "task_updated", "task_removed"}
      /\ handler \in {"task_updated", "task_removed"} => \E u \in Tasks : todo = {u}
  BY TypedGroups, Inboxes DEF Groups, InboxTyped, MapsTyped, HandlerTyped
<1>i. ASSUME session = "open", Quiet(t)
      PROVE  Outcome(t) = backendTasks[t]
  BY <1>i DEF ConfigInv
<1>1. CASE Connect
  <2>1. inbox' = <<TaskList(backendTasks)>> /\ backendTasks \in TaskMaps
    BY <1>1, TypedGroups DEF Connect, Groups, BackendTyped
  <2>2. 1 \in 1 .. Len(inbox') /\ inbox'[1] = TaskList(backendTasks)
    BY <2>1
  <2>3. Mentions(inbox'[1], t)
    BY <2>1, <2>2, MessagesSent
  <2> QED
    BY <2>2, <2>3 DEF Quiet
<1>2. CASE session = "open" /\ Receive
  <2>1. PICK m \in Messages :
            /\ newMap' = m.tasks /\ todo' = Present(m.tasks)
            /\ handler = "idle"
            /\ handler' = IF m.type = "tasks" THEN "schedule" ELSE m.type
            /\ m.type \in {"tasks", "task_updated", "task_removed"}
            /\ UNCHANGED <<config, scheduled, backendTasks>>
            /\ \/ Mentions(m, t) /\ Told(m, t) = backendTasks[t]
               \/ ~Mentions(m, t) /\ Quiet(t)
    BY <1>2, ReceivedWord
  <2>2. CASE Mentions(m, t) /\ Told(m, t) = backendTasks[t]
    BY <2>1, <2>2 DEF Outcome, Mentions, Told, Present
  <2>3. CASE ~Mentions(m, t) /\ Quiet(t)
    <3>1. config[t] = backendTasks[t]
      BY <1>2, <1>i, <2>1, <2>3 DEF Outcome
    <3>2. m.type # "tasks" /\ t \notin todo'
      BY <2>1, <2>3 DEF Mentions, Present
    <3> QED
      BY <2>1, <3>1, <3>2 DEF Outcome
  <2> QED
    BY <2>1, <2>2, <2>3
<1>3. ASSUME session = "open", NEW u \in Tasks, BackendUpdates(u) \/ BackendRemoves(u)
      PROVE  Outcome(t)' = backendTasks'[t]
  <2>1. PICK m \in Messages :
            /\ inbox' = Append(inbox, m)
            /\ \A v \in Tasks : Mentions(m, v) <=> v = u
    BY <1>3, ChangesTyped
  <2>2. /\ Len(inbox') = Len(inbox) + 1 /\ inbox'[Len(inbox) + 1] = m
        /\ \A k \in 1 .. Len(inbox) : inbox'[k] = inbox[k]
    BY <1>t, <2>1, Inboxes
  <2>3. t # u
    <3>1. Len(inbox) + 1 \in 1 .. Len(inbox')
      BY <1>t, <2>2
    <3> QED
      BY <2>1, <2>2, <3>1 DEF Quiet
  <2>4. Quiet(t)
    <3>1. \A k \in 1 .. Len(inbox) : k \in 1 .. Len(inbox')
      BY <1>t, <2>2
    <3> QED
      BY <2>2, <3>1 DEF Quiet
  <2>5. UNCHANGED <<config, handler, newMap, todo>> /\ backendTasks'[t] = backendTasks[t]
    BY <1>3, <2>3, ChangesTyped DEF memory
  <2> QED
    BY <1>3, <1>i, <2>4, <2>5 DEF Outcome
<1>4. ASSUME session = "open", UNCHANGED <<inbox, backendTasks>>
      PROVE  Outcome(t) = backendTasks[t] /\ backendTasks' = backendTasks
  BY <1>4, <1>i DEF Quiet
<1>5. CASE /\ session = "open" /\ UNCHANGED <<inbox, backendTasks>>
           /\ UNCHANGED <<handler, newMap, todo, config, scheduled>>
  BY <1>4, <1>5 DEF Outcome
<1>6. ASSUME session = "open", UNCHANGED <<inbox, backendTasks>>, NEW u \in Tasks, HandlerStep(u)
      PROVE  Outcome(t)' = backendTasks'[t]
  <2>0. Outcome(t) = backendTasks[t] /\ backendTasks' = backendTasks
    BY <1>4, <1>6
  <2>1. CASE HandleTaskUpdated(u)
    <3>1. handler = "task_updated" /\ todo = {u} /\ handler' = "idle"
          /\ config' = [config EXCEPT ![u] = newMap[u]]
      BY <2>1, <1>t DEF HandleTaskUpdated, At, OnTask
    <3> QED
      BY <2>0, <3>1, <1>t DEF Outcome, TaskMaps
  <2>2. CASE HandleTaskRemoved(u)
    <3>1. handler = "task_removed" /\ todo = {u} /\ handler' = "idle"
          /\ config' = [config EXCEPT ![u] = 0]
      BY <2>2, <1>t DEF HandleTaskRemoved, At, OnTaskRemoved
    <3> QED
      BY <2>0, <3>1, <1>t DEF Outcome, TaskMaps
  <2>3. CASE OnTasksSchedules(u) \/ OnTasksSkips(u) \/ OnTasksRemoves(u)
    <3>1. handler \in {"schedule", "remove"} /\ UNCHANGED <<handler, newMap>>
      BY <2>3 DEF OnTasksSchedules, OnTasksSkips, OnTasksRemoves, At
    <3> QED
      BY <2>0, <3>1 DEF Outcome
  <2> QED
    BY <1>6, <2>1, <2>2, <2>3 DEF HandlerStep
<1>7. CASE session = "open" /\ UNCHANGED <<inbox, backendTasks>> /\ OnTasksScheduled
  BY <1>4, <1>7 DEF Outcome, OnTasksScheduled
<1>8. CASE session = "open" /\ UNCHANGED <<inbox, backendTasks>> /\ OnTasksAssigns
  BY <1>4, <1>8 DEF Outcome, OnTasksAssigns, ListStored
<1> QED
  BY <1>1, <1>2, <1>3, <1>5, <1>6, <1>7, <1>8, ConnectedSteps

\* And leaves it scheduled as the backend has it, if it can be executed.
LEMMA StepScheduleInv == Typed /\ LastWordInv /\ ScheduleInv /\ [Next]_vars => ScheduleInv'
<1> SUFFICES ASSUME Typed, LastWordInv, ScheduleInv, [Next]_vars, session' = "open",
                    NEW t \in CanExecute, Quiet(t)', backendTasks'[t] # 0
             PROVE  ScheduleOutcome(t)' = backendTasks'[t]
  BY DEF ScheduleInv
<1>t. /\ inbox \in Seq(Messages) /\ Len(inbox) \in Nat /\ t \in Tasks
      /\ scheduled \in TaskMaps /\ newMap \in TaskMaps
      /\ handler \in {"idle", "schedule", "remove", "task_updated", "task_removed"}
      /\ handler \in {"task_updated", "task_removed"} => \E u \in Tasks : todo = {u}
  BY TypedGroups, Inboxes, ApplicationAssumption DEF Groups, InboxTyped, MapsTyped, HandlerTyped
<1>i. ASSUME session = "open", Quiet(t), backendTasks[t] # 0
      PROVE  ScheduleOutcome(t) = backendTasks[t]
  BY <1>i DEF ScheduleInv
<1>1. CASE Connect
  <2>1. inbox' = <<TaskList(backendTasks)>> /\ backendTasks \in TaskMaps
    BY <1>1, TypedGroups DEF Connect, Groups, BackendTyped
  <2>2. 1 \in 1 .. Len(inbox') /\ inbox'[1] = TaskList(backendTasks)
    BY <2>1
  <2>3. Mentions(inbox'[1], t)
    BY <1>t, <2>1, <2>2, MessagesSent
  <2> QED
    BY <2>2, <2>3 DEF Quiet
<1>2. CASE session = "open" /\ Receive
  <2>1. PICK m \in Messages :
            /\ newMap' = m.tasks /\ todo' = Present(m.tasks)
            /\ handler = "idle"
            /\ handler' = IF m.type = "tasks" THEN "schedule" ELSE m.type
            /\ m.type \in {"tasks", "task_updated", "task_removed"}
            /\ UNCHANGED <<config, scheduled, backendTasks>>
            /\ \/ Mentions(m, t) /\ Told(m, t) = backendTasks[t]
               \/ ~Mentions(m, t) /\ Quiet(t)
    BY <1>2, <1>t, ReceivedWord
  <2>2. CASE Mentions(m, t) /\ Told(m, t) = backendTasks[t]
    <3>1. m.type # "task_removed" /\ m.tasks[t] = backendTasks[t] /\ t \in todo'
      BY <1>t, <2>1, <2>2 DEF Told, Present
    <3> QED
      BY <2>1, <3>1 DEF ScheduleOutcome
  <2>3. CASE ~Mentions(m, t) /\ Quiet(t)
    <3>1. scheduled[t] = backendTasks[t]
      BY <1>2, <1>i, <2>1, <2>3 DEF ScheduleOutcome
    <3>2. t \notin todo'
      BY <2>1, <2>3 DEF Mentions, Present
    <3> QED
      BY <2>1, <3>1, <3>2 DEF ScheduleOutcome
  <2> QED
    BY <2>1, <2>2, <2>3
<1>3. ASSUME session = "open", NEW u \in Tasks, BackendUpdates(u) \/ BackendRemoves(u)
      PROVE  ScheduleOutcome(t)' = backendTasks'[t]
  <2>1. PICK m \in Messages :
            /\ inbox' = Append(inbox, m)
            /\ \A v \in Tasks : Mentions(m, v) <=> v = u
    BY <1>3, ChangesTyped
  <2>2. /\ Len(inbox') = Len(inbox) + 1 /\ inbox'[Len(inbox) + 1] = m
        /\ \A k \in 1 .. Len(inbox) : inbox'[k] = inbox[k]
    BY <1>t, <2>1, Inboxes
  <2>3. t # u
    <3>1. Len(inbox) + 1 \in 1 .. Len(inbox')
      BY <1>t, <2>2
    <3> QED
      BY <1>t, <2>1, <2>2, <3>1 DEF Quiet
  <2>4. Quiet(t)
    <3>1. \A k \in 1 .. Len(inbox) : k \in 1 .. Len(inbox')
      BY <1>t, <2>2
    <3> QED
      BY <2>2, <3>1 DEF Quiet
  <2>5. UNCHANGED <<scheduled, handler, newMap, todo>> /\ backendTasks'[t] = backendTasks[t]
    BY <1>3, <1>t, <2>3, ChangesTyped DEF memory
  <2> QED
    BY <1>3, <1>i, <2>4, <2>5 DEF ScheduleOutcome
<1>4. ASSUME session = "open", UNCHANGED <<inbox, backendTasks>>
      PROVE  ScheduleOutcome(t) = backendTasks[t] /\ backendTasks' = backendTasks
  BY <1>4, <1>i DEF Quiet
<1>5. CASE /\ session = "open" /\ UNCHANGED <<inbox, backendTasks>>
           /\ UNCHANGED <<handler, newMap, todo, config, scheduled>>
  BY <1>4, <1>5 DEF ScheduleOutcome
<1>6. ASSUME session = "open", UNCHANGED <<inbox, backendTasks>>, NEW u \in Tasks, HandlerStep(u)
      PROVE  ScheduleOutcome(t)' = backendTasks'[t]
  <2>0. ScheduleOutcome(t) = backendTasks[t] /\ backendTasks' = backendTasks
    BY <1>4, <1>6
  <2>1. CASE HandleTaskUpdated(u)
    <3>1. handler = "task_updated" /\ todo = {u} /\ handler' = "idle"
          /\ scheduled' = [scheduled EXCEPT ![u] = newMap[u]]
      BY <2>1, <1>t DEF HandleTaskUpdated, At, OnTask, Scheduled
    <3> QED
      BY <2>0, <3>1, <1>t DEF ScheduleOutcome, TaskMaps
  <2>2. CASE HandleTaskRemoved(u)
    <3>1. handler = "task_removed" /\ handler' = "idle" /\ scheduled' = scheduled
      BY <2>2 DEF HandleTaskRemoved, At, OnTaskRemoved
    <3> QED
      BY <2>0, <3>1 DEF ScheduleOutcome
  <2>3. CASE OnTasksSchedules(u)
    <3>1. handler = "schedule" /\ u \in todo /\ todo' = todo \ {u} /\ UNCHANGED <<handler, newMap>>
          /\ scheduled' = [scheduled EXCEPT ![u] = newMap[u]]
      BY <2>3 DEF OnTasksSchedules, At, OnTask, Scheduled, LeftAfter
    <3> QED
      BY <2>0, <3>1, <1>t DEF ScheduleOutcome, TaskMaps
  <2>4. CASE OnTasksSkips(u)
    <3>1. u # t /\ todo' = todo \ {u} /\ UNCHANGED <<handler, newMap, scheduled>>
      BY <2>4 DEF OnTasksSkips, LeftAfter
    <3> QED
      BY <2>0, <3>1 DEF ScheduleOutcome
  <2>5. CASE OnTasksRemoves(u)
    <3>1. handler = "remove" /\ UNCHANGED <<handler, scheduled>>
      BY <2>5 DEF OnTasksRemoves, At, OnTaskRemoved
    <3> QED
      BY <2>0, <3>1 DEF ScheduleOutcome
  <2> QED
    BY <1>6, <2>1, <2>2, <2>3, <2>4, <2>5 DEF HandlerStep
<1>7. CASE session = "open" /\ UNCHANGED <<inbox, backendTasks>> /\ OnTasksScheduled
  BY <1>4, <1>7 DEF ScheduleOutcome, OnTasksScheduled
<1>8. CASE session = "open" /\ UNCHANGED <<inbox, backendTasks>> /\ OnTasksAssigns
  BY <1>4, <1>8 DEF ScheduleOutcome, OnTasksAssigns
<1> QED
  BY <1>1, <1>2, <1>3, <1>5, <1>6, <1>7, <1>8, ConnectedSteps

\* Before the first connection there is nothing to follow.
LEMMA FollowsInvariant == Spec => [](LastWordInv /\ ConfigInv /\ ScheduleInv)
<1>1. Init => LastWordInv /\ ConfigInv /\ ScheduleInv
  BY DEF Init, LastWordInv, ConfigInv, ScheduleInv
<1> QED
  BY <1>1, TypedInvariant, StepLastWordInv, StepConfigInv, StepScheduleInv, PTL DEF Spec

\* With every message handled, what the agent stores is what the backend has,
\* whatever was lost, handled twice or cut off before (onTasks, onTask,
\* onTaskRemoved).
THEOREM ConfigFollowsBackendHolds == Spec => []ConfigFollowsBackend
<1>1. Typed /\ ConfigInv => ConfigFollowsBackend
  <2> SUFFICES ASSUME Typed, ConfigInv, session = "open", inbox = <<>>, handler = "idle"
               PROVE  config = backendTasks
    BY DEF ConfigFollowsBackend, Synced
  <2>1. config \in [Tasks -> Versions] /\ backendTasks \in [Tasks -> Versions]
    BY TypedGroups DEF Groups, MapsTyped, BackendTyped, TaskMaps
  <2>2. \A t \in Tasks : Quiet(t)
    BY DEF Quiet
  <2>3. \A t \in Tasks : config[t] = backendTasks[t]
    BY <2>2 DEF ConfigInv, Outcome
  <2> QED
    BY <2>1, <2>3
<1> QED
  BY <1>1, TypedInvariant, FollowsInvariant, PTL

\* And every task of the backend that the agent can execute is scheduled with
\* its newest definition (TaskScheduler.Schedule called by onTask).
THEOREM ScheduleFollowsBackendHolds == Spec => []ScheduleFollowsBackend
<1>1. ScheduleInv => ScheduleFollowsBackend
  <2> SUFFICES ASSUME ScheduleInv, session = "open", inbox = <<>>, handler = "idle",
                      NEW t \in Present(backendTasks) \cap CanExecute
               PROVE  scheduled[t] = backendTasks[t]
    BY DEF ScheduleFollowsBackend, Synced
  <2>1. Quiet(t) /\ backendTasks[t] # 0
    BY DEF Quiet, Present
  <2> QED
    BY <2>1 DEF ScheduleInv, ScheduleOutcome
<1> QED
  BY <1>1, FollowsInvariant, PTL
-----------------------------------------------------------------------------
(* The order of versions *)

\* What `older` says of a task is not newer than what `newer` says of it.
NotAfter(older, newer) == \A t \in Tasks : newer[t] # 0 => older[t] <= newer[t]

\* Versions no newer than the backend has given out, nor than the one it has.
AtMostLatest(tasks) == NotAfter(tasks, backendTasks) /\ \A t \in Tasks : tasks[t] <= version

\* A version travels from the backend through the inbox and the message that is
\* being handled, or handled again, to the configuration and the schedule, and
\* none overtakes another on the way.  The file may be behind, never ahead.
OrderInv ==
    /\ \A tasks \in {config, scheduled, file.tasks, lastMessage.tasks, backendTasks} :
           AtMostLatest(tasks)
    /\ \A i \in 1 .. Len(inbox) : AtMostLatest(inbox[i].tasks)
    /\ \A tasks \in {config, scheduled} : NotAfter(tasks, lastMessage.tasks)
    /\ \A tasks \in {config, scheduled, lastMessage.tasks} :
           \A i \in 1 .. Len(inbox) : NotAfter(tasks, inbox[i].tasks)
    /\ \A i, j \in 1 .. Len(inbox) : i < j => NotAfter(inbox[i].tasks, inbox[j].tasks)
    /\ handler # "idle" => newMap = lastMessage.tasks
    /\ session = "none" => inbox = <<>>
    /\ pc = "down" => lastMessage = NoMessage

\* The maps of tasks, as functions to numbers.
LEMMA MapsAreMaps ==
    ASSUME Typed
    PROVE  /\ \A tasks \in {config, scheduled, file.tasks, newMap, lastMessage.tasks, backendTasks} :
                  \A t \in Tasks : tasks[t] \in Nat
           /\ \A i \in 1 .. Len(inbox) : \A t \in Tasks : inbox[i].tasks[t] \in Nat
           /\ Len(inbox) \in Nat /\ version \in Nat
           /\ \A tasks \in {config, scheduled, file.tasks, lastMessage.tasks, backendTasks} :
                  tasks \in TaskMaps
           /\ \A i \in 1 .. Len(inbox) : inbox[i].tasks \in TaskMaps
           /\ \A tasks \in TaskMaps : \A t \in Tasks : tasks[t] \in Nat
<1>1. FileTyped /\ MapsTyped /\ HandlerTyped /\ InboxTyped /\ BackendTyped
  BY TypedGroups DEF Groups
<1>2. lastMessage.tasks \in TaskMaps
  BY <1>1, MessagesAreMessages DEF InboxTyped, NoMessage
<1>3. \A i \in 1 .. Len(inbox) : inbox[i].tasks \in TaskMaps
  BY <1>1, MessagesAreMessages DEF InboxTyped
<1>4. \A tasks \in TaskMaps : \A t \in Tasks : tasks[t] \in Nat
  BY ApplicationAssumption DEF TaskMaps, Versions
<1> QED
  BY <1>1, <1>2, <1>3, <1>4, ApplicationAssumption
  DEF FileTyped, MapsTyped, HandlerTyped, InboxTyped, BackendTyped, Versions

\* A handler moves versions of its message on, or takes some out.
LEMMA HandlerKeepsOrder ==
    ASSUME Typed, Typed', OrderInv,
           UNCHANGED <<lastMessage, inbox, session, backend>>,
           \A t \in Tasks : config'[t] \in {0, config[t], lastMessage.tasks[t]},
           \A t \in Tasks : scheduled'[t] \in {scheduled[t], lastMessage.tasks[t]},
           \A t \in Tasks : file'.tasks[t] \in {0, file.tasks[t], config'[t]},
           handler' # "idle" => handler # "idle" /\ newMap' = newMap,
           pc' = "down" => pc = "down"
    PROVE  OrderInv'
<1> DEFINE sent == lastMessage.tasks
<1>1. /\ \A t \in Tasks : config[t] \in Nat /\ scheduled[t] \in Nat /\ file.tasks[t] \in Nat
      /\ \A t \in Tasks : sent[t] \in Nat /\ backendTasks[t] \in Nat
      /\ \A i \in 1 .. Len(inbox) : \A t \in Tasks : inbox[i].tasks[t] \in Nat
      /\ version \in Nat
  BY MapsAreMaps
<1>2. UNCHANGED <<backendTasks, version>>
  BY DEF backend
<1>3. AtMostLatest(config) /\ AtMostLatest(scheduled) /\ AtMostLatest(sent) /\ AtMostLatest(file.tasks)
  BY DEF OrderInv
<1>4. NotAfter(config, sent) /\ NotAfter(scheduled, sent)
  BY DEF OrderInv
<1>5. \A i \in 1 .. Len(inbox) : /\ NotAfter(config, inbox[i].tasks)
                                 /\ NotAfter(scheduled, inbox[i].tasks)
                                 /\ NotAfter(sent, inbox[i].tasks)
  BY DEF OrderInv
<1>6. AtMostLatest(config)' /\ AtMostLatest(scheduled)'
  BY <1>1, <1>2, <1>3 DEF AtMostLatest, NotAfter
<1>7. AtMostLatest(file.tasks)'
  BY <1>1, <1>2, <1>3, <1>6 DEF AtMostLatest, NotAfter
<1>8. NotAfter(config', sent) /\ NotAfter(scheduled', sent)
  BY <1>1, <1>4 DEF NotAfter
<1>9. \A i \in 1 .. Len(inbox) : NotAfter(config', inbox[i].tasks) /\ NotAfter(scheduled', inbox[i].tasks)
  BY <1>1, <1>5 DEF NotAfter
<1>10. /\ AtMostLatest(sent)' /\ AtMostLatest(backendTasks)'
       /\ \A i \in 1 .. Len(inbox) : AtMostLatest(inbox[i].tasks)'
  BY <1>2 DEF OrderInv, AtMostLatest, NotAfter
<1>11. /\ handler' # "idle" => newMap' = sent
       /\ session = "none" => inbox = <<>>
       /\ pc' = "down" => lastMessage = NoMessage
       /\ \A i, j \in 1 .. Len(inbox) : i < j => NotAfter(inbox[i].tasks, inbox[j].tasks)
  BY DEF OrderInv
<1>12. \A tasks \in {config', scheduled', file'.tasks, sent, backendTasks} : AtMostLatest(tasks)'
  BY <1>2, <1>6, <1>7, <1>10 DEF AtMostLatest, NotAfter
<1> QED
  BY <1>2, <1>5, <1>8, <1>9, <1>10, <1>11, <1>12 DEF OrderInv, NotAfter, AtMostLatest

\* onTask and onTaskRemoved, and the file they may or may not have written.
LEMMA HandlersKeepOrder ==
    ASSUME Typed, Typed', OrderInv, NEW t \in Tasks,
           \/ HandleTaskUpdated(t) \/ HandleTaskRemoved(t)
           \/ OnTasksSchedules(t) \/ OnTasksSkips(t) \/ OnTasksRemoves(t)
           \/ OnTasksScheduled \/ OnTasksAssigns
    PROVE  OrderInv'
<1>1. MapsTyped /\ MapsTyped' /\ FileTyped /\ FileTyped' /\ HandlerTyped /\ HandlerTyped'
  BY TypedGroups DEF Groups
<1>2. /\ UNCHANGED <<lastMessage, inbox, session, backend, pc>>
      /\ handler # "idle" /\ newMap' = newMap
  BY DEF HandleTaskUpdated, HandleTaskRemoved, OnTasksSchedules, OnTasksSkips, OnTasksRemoves,
         OnTasksScheduled, OnTasksAssigns, At
<1>3. newMap = lastMessage.tasks
  BY <1>2 DEF OrderInv
<1>4. \/ UNCHANGED <<config, scheduled>> /\ file' = file
      \/ UNCHANGED scheduled /\ config' = [config EXCEPT ![t] = 0]
      \/ scheduled' = [scheduled EXCEPT ![t] = newMap[t]] /\ config' = [config EXCEPT ![t] = newMap[t]]
      \/ UNCHANGED scheduled /\ config' = newMap
  BY DEF HandleTaskUpdated, HandleTaskRemoved, OnTasksSchedules, OnTasksSkips, OnTasksRemoves,
         OnTasksScheduled, OnTasksAssigns, OnTask, OnTaskRemoved, Scheduled, ListStored
<1>5. \/ file' = file \/ file'.tasks = config' \/ file'.tasks = NoTasks
  BY DEF HandleTaskUpdated, HandleTaskRemoved, OnTasksSchedules, OnTasksSkips, OnTasksRemoves,
         OnTasksScheduled, OnTasksAssigns, OnTask, OnTaskRemoved, Write
<1>6. \A u \in Tasks : /\ config'[u] \in {0, config[u], lastMessage.tasks[u]}
                       /\ scheduled'[u] \in {scheduled[u], lastMessage.tasks[u]}
  BY <1>1, <1>3, <1>4 DEF MapsTyped, TaskMaps
<1>7. \A u \in Tasks : file'.tasks[u] \in {0, file.tasks[u], config'[u]}
  BY <1>5 DEF NoTasks
<1> QED
  BY <1>2, <1>6, <1>7, HandlerKeepsOrder

\* A start takes what the file has, and a crash leaves nothing else.
LEMMA StartKeepsOrder ==
    ASSUME Typed, Typed', OrderInv, LoadAndConnect \/ Dies
    PROVE  OrderInv'
<1>1. /\ UNCHANGED <<backendTasks, version>> /\ inbox' = <<>> /\ lastMessage' = NoMessage
      /\ handler' = "idle"
  <2>1. CASE LoadAndConnect
    <3>1. session = "none" /\ lastMessage = NoMessage /\ handler = "idle"
      BY <2>1 DEF LoadAndConnect, OrderInv, Typed, MessagesInv
    <3> QED
      BY <2>1, <3>1 DEF LoadAndConnect, backend, OrderInv
  <2>2. CASE Dies
    BY <2>2 DEF Dies, backend, NoTasks
  <2> QED
    BY <2>1, <2>2
<1>2. \A t \in Tasks : NoTasks[t] = 0
  BY DEF NoTasks
<1>3. NoMessage.tasks = NoTasks
  BY DEF NoMessage
<1>4. /\ \A t \in Tasks : backendTasks[t] \in Nat
      /\ version \in Nat /\ Len(inbox') = 0
  BY <1>1, MapsAreMaps
<1>5. AtMostLatest(NoTasks) /\ \A tasks : NotAfter(tasks, NoTasks)
  BY <1>2, <1>4 DEF AtMostLatest, NotAfter
<1>6. AtMostLatest(file.tasks) /\ AtMostLatest(scheduled) /\ AtMostLatest(backendTasks)
  BY DEF OrderInv
<1>7. file'.tasks \in {file.tasks, NoTasks} /\ config' \in {file.tasks, NoTasks}
      /\ scheduled' \in {scheduled, NoTasks}
  BY DEF LoadAndConnect, LoadOrWrite, Write, Dies
<1>8. AtMostLatest(file'.tasks) /\ AtMostLatest(config') /\ AtMostLatest(scheduled')
  BY <1>5, <1>6, <1>7
<1>9. \A tasks \in {config', scheduled', file'.tasks, NoTasks, backendTasks} : AtMostLatest(tasks)'
  BY <1>1, <1>5, <1>6, <1>8 DEF AtMostLatest, NotAfter
<1>10. pc' = "down" => lastMessage' = NoMessage
  BY <1>1
<1> QED
  BY <1>1, <1>3, <1>4, <1>5, <1>9, <1>10 DEF OrderInv, NotAfter, AtMostLatest

\* The message that is taken comes before those that wait.
LEMMA ReceiveKeepsOrder ==
    ASSUME Typed, Typed', OrderInv, Receive \/ ReceiveStale
    PROVE  OrderInv'
<1>1. /\ UNCHANGED <<config, scheduled, file, session, backendTasks, version, pc>> /\ Up
      /\ newMap' = lastMessage'.tasks
  BY DEF Receive, ReceiveStale, Handles, backend
<1>2. CASE ReceiveStale
  <2>1. UNCHANGED <<inbox, lastMessage>>
    BY <1>2 DEF ReceiveStale, Handles
  <2> QED
    BY <1>1, <2>1 DEF OrderInv, AtMostLatest, NotAfter, Up
<1>3. CASE Receive
  <2>1. /\ Len(inbox) \in Nat /\ Len(inbox) >= 1 /\ lastMessage' = inbox[1]
        /\ Len(inbox') = Len(inbox) - 1
        /\ \A i \in 1 .. Len(inbox') : i + 1 \in 1 .. Len(inbox) /\ inbox'[i] = inbox[i + 1]
    BY <1>3, MapsAreMaps DEF Receive, Handles, Typed, MessagesInv
  <2>2. session # "none"
    BY <1>3 DEF Receive, OrderInv
  <2>3. \A tasks : AtMostLatest(tasks)' = AtMostLatest(tasks)
    BY <1>1 DEF AtMostLatest, NotAfter
  <2>4. \A tasks \in {config, scheduled, file.tasks, inbox[1].tasks, backendTasks} : AtMostLatest(tasks)
    BY <2>1 DEF OrderInv
  <2>5. \A i \in 1 .. Len(inbox') : AtMostLatest(inbox'[i].tasks)
    BY <2>1 DEF OrderInv
  <2>6. \A tasks \in {config, scheduled} : NotAfter(tasks, inbox[1].tasks)
    BY <2>1 DEF OrderInv
  <2>7. \A tasks \in {config, scheduled} : \A i \in 1 .. Len(inbox') : NotAfter(tasks, inbox'[i].tasks)
    BY <2>1 DEF OrderInv
  <2>8. \A i \in 1 .. Len(inbox') : NotAfter(inbox[1].tasks, inbox'[i].tasks)
    <3>1. \A i \in 1 .. Len(inbox') : 1 < i + 1 /\ 1 \in 1 .. Len(inbox)
      BY <2>1
    <3> QED
      BY <2>1, <3>1 DEF OrderInv
  <2>9. \A i, j \in 1 .. Len(inbox') : i < j => NotAfter(inbox'[i].tasks, inbox'[j].tasks)
    <3>1. \A i, j \in 1 .. Len(inbox') : i < j => i + 1 < j + 1
      BY <2>1
    <3> QED
      BY <2>1, <3>1 DEF OrderInv
  <2> QED
    BY <1>1, <2>1, <2>2, <2>3, <2>4, <2>5, <2>6, <2>7, <2>8, <2>9 DEF OrderInv, NotAfter, Up
<1> QED
  BY <1>2, <1>3

\* The list that opens a session is as new as the backend, and without a session
\* nothing waits.
LEMMA LinkKeepsOrder ==
    ASSUME Typed, Typed', OrderInv, Connect \/ ConnectionLost
    PROVE  OrderInv'
<1>1. /\ UNCHANGED <<config, scheduled, file, backendTasks, version, pc>>
      /\ handler' # "idle" => handler # "idle" /\ newMap' = newMap /\ lastMessage' = lastMessage
      /\ pc = "down" => lastMessage' = NoMessage
  BY DEF Connect, ConnectionLost, memory, backend, OrderInv
<1>2. \A t \in Tasks : NoTasks[t] = 0
  BY DEF NoTasks
<1>3. \A t \in Tasks : backendTasks[t] \in Nat /\ version \in Nat
  BY MapsAreMaps
<1>4. AtMostLatest(NoTasks) /\ \A tasks : NotAfter(tasks, NoTasks)
  BY <1>2, <1>3 DEF AtMostLatest, NotAfter
<1>5. \A tasks : AtMostLatest(tasks)' = AtMostLatest(tasks)
  BY <1>1 DEF AtMostLatest, NotAfter
<1>6. \A tasks \in {config, scheduled, file.tasks, lastMessage.tasks, backendTasks} : AtMostLatest(tasks)
  BY DEF OrderInv
<1>7. lastMessage' = lastMessage \/ lastMessage'.tasks = NoTasks
  BY DEF Connect, ConnectionLost, memory, NoMessage
<1>8. \A tasks \in {config, scheduled, file.tasks, lastMessage'.tasks, backendTasks} : AtMostLatest(tasks)
  BY <1>4, <1>6, <1>7
<1>9. \A tasks \in {config, scheduled} : NotAfter(tasks, lastMessage'.tasks)
  BY <1>4, <1>7 DEF OrderInv
<1>10. CASE ConnectionLost
  <2>1. inbox' = <<>> /\ Len(inbox') = 0
    BY <1>10 DEF ConnectionLost
  <2> QED
    BY <1>1, <1>5, <1>8, <1>9, <1>10, <2>1 DEF OrderInv, NotAfter, ConnectionLost, memory
<1>11. CASE Connect
  <2>1. /\ Len(inbox') = 1 /\ inbox'[1].tasks = backendTasks /\ session' = "open" /\ handler' = "idle"
    BY <1>11 DEF Connect, TaskList
  <2>2. \A i \in 1 .. Len(inbox') : i = 1
    BY <2>1
  <2>3. \A i, j \in 1 .. Len(inbox') : ~(i < j)
    BY <2>1
  <2>4. \A tasks \in {config, scheduled, lastMessage'.tasks} : NotAfter(tasks, backendTasks)
    BY <1>8 DEF AtMostLatest
  <2>5. AtMostLatest(backendTasks)
    BY <1>6
  <2> QED
    BY <1>1, <1>5, <1>8, <1>9, <2>1, <2>2, <2>3, <2>4, <2>5 DEF OrderInv, NotAfter
<1> QED
  BY <1>10, <1>11

\* What the backend sends after the others is as new as any of them.
LEMMA AppendKeepsOrder ==
    ASSUME Typed, OrderInv, NEW m, inbox' = Append(inbox, m),
           UNCHANGED <<memory, file>>, session' = session, session = "open",
           \A tasks \in TaskMaps :
               AtMostLatest(tasks) => AtMostLatest(tasks)' /\ NotAfter(tasks, m.tasks),
           AtMostLatest(backendTasks)', AtMostLatest(m.tasks)'
    PROVE  OrderInv'
<1>1. /\ Len(inbox) \in Nat /\ Len(inbox') = Len(inbox) + 1 /\ inbox'[Len(inbox) + 1] = m
      /\ \A i \in 1 .. Len(inbox) : inbox'[i] = inbox[i]
  BY MapsAreMaps DEF Typed, MessagesInv
<1>2. \A i \in 1 .. Len(inbox') : i \in 1 .. Len(inbox) \/ i = Len(inbox) + 1
  BY <1>1
<1>3. \A tasks \in {config, scheduled, file.tasks, lastMessage.tasks} :
          AtMostLatest(tasks) /\ tasks \in TaskMaps
  BY MapsAreMaps DEF OrderInv
<1>4. \A i \in 1 .. Len(inbox) : AtMostLatest(inbox[i].tasks) /\ inbox[i].tasks \in TaskMaps
  BY MapsAreMaps DEF OrderInv
<1>5. \A i \in 1 .. Len(inbox') : AtMostLatest(inbox[i].tasks)'
  <2>1. \A i \in 1 .. Len(inbox) : inbox'[i] = inbox[i] => AtMostLatest(inbox[i].tasks)'
    BY <1>4 DEF AtMostLatest, NotAfter
  <2>2. \A i \in 1 .. Len(inbox') : inbox'[i] = m => AtMostLatest(inbox[i].tasks)'
    BY DEF AtMostLatest, NotAfter
  <2> QED
    BY <1>1, <1>2, <2>1, <2>2
<1>6. \A tasks \in {config, scheduled, lastMessage.tasks} :
          \A i \in 1 .. Len(inbox') : NotAfter(tasks, inbox'[i].tasks)
  BY <1>1, <1>2, <1>3 DEF OrderInv
<1>7. \A i, j \in 1 .. Len(inbox') : i < j => NotAfter(inbox'[i].tasks, inbox'[j].tasks)
  <2>1. \A i, j \in 1 .. Len(inbox') : i < j => i \in 1 .. Len(inbox)
    BY <1>1
  <2>2. \A i, j \in 1 .. Len(inbox) : i < j => NotAfter(inbox[i].tasks, inbox[j].tasks)
    BY DEF OrderInv
  <2>3. \A i \in 1 .. Len(inbox) : NotAfter(inbox[i].tasks, m.tasks)
    BY <1>4
  <2> QED
    BY <1>1, <1>2, <2>1, <2>2, <2>3
<1>8. \A tasks \in {config, scheduled, file.tasks, lastMessage.tasks, backendTasks'} : AtMostLatest(tasks)'
  <2>1. \A tasks : tasks = backendTasks' => AtMostLatest(tasks)'
    BY DEF AtMostLatest, NotAfter
  <2> QED
    BY <1>3, <2>1
<1>9. \A tasks \in {config, scheduled} : NotAfter(tasks, lastMessage.tasks)
  BY DEF OrderInv
<1>10. /\ handler # "idle" => newMap = lastMessage.tasks
       /\ pc = "down" => lastMessage = NoMessage
  BY DEF OrderInv
<1>11. UNCHANGED <<config, scheduled, lastMessage, handler, newMap, pc, file>>
  BY DEF memory
<1> QED
  BY <1>5, <1>6, <1>7, <1>8, <1>9, <1>10, <1>11 DEF OrderInv, NotAfter, AtMostLatest

\* A change gets a version of its own, and its message follows the others.
LEMMA ChangeKeepsOrder ==
    ASSUME Typed, Typed', OrderInv, NEW t \in Tasks, BackendUpdates(t) \/ BackendRemoves(t)
    PROVE  OrderInv'
<1>1. /\ backendTasks \in [Tasks -> Nat] /\ version \in Nat
      /\ \A u \in Tasks : backendTasks[u] <= version
  <2>1. \A u \in Tasks : backendTasks[u] \in Nat /\ backendTasks[u] <= version
    BY MapsAreMaps DEF OrderInv, AtMostLatest
  <2>2. backendTasks \in TaskMaps
    BY MapsAreMaps
  <2> QED
    BY <2>1, <2>2, MapsAreMaps DEF TaskMaps
<1>2. UNCHANGED <<memory, file, session>>
  BY DEF BackendUpdates, BackendRemoves
<1>3. ASSUME NEW m, Sends(m), AtMostLatest(m.tasks)', AtMostLatest(backendTasks)',
             \A tasks \in TaskMaps :
                 AtMostLatest(tasks) => AtMostLatest(tasks)' /\ NotAfter(tasks, m.tasks)
      PROVE  OrderInv'
  <2>1. CASE session = "open"
    BY <1>2, <1>3, <2>1, AppendKeepsOrder DEF Sends
  <2>2. CASE session # "open"
    <3>1. inbox = <<>> /\ inbox' = <<>> /\ Len(inbox') = 0
      BY <1>3, <2>2 DEF Sends, OrderInv, Typed, TypeOK
    <3>2. \A tasks \in {config, scheduled, file.tasks, lastMessage.tasks} : AtMostLatest(tasks)'
      BY <1>3, MapsAreMaps DEF OrderInv
    <3>3. \A tasks \in {config, scheduled, file.tasks, lastMessage.tasks, backendTasks'} : AtMostLatest(tasks)'
      <4>1. \A tasks : tasks = backendTasks' => AtMostLatest(tasks)'
        BY <1>3 DEF AtMostLatest, NotAfter
      <4> QED
        BY <3>2, <4>1
    <3>4. /\ handler # "idle" => newMap = lastMessage.tasks
          /\ pc = "down" => lastMessage = NoMessage
          /\ \A tasks \in {config, scheduled} : NotAfter(tasks, lastMessage.tasks)
      BY DEF OrderInv
    <3>5. UNCHANGED <<config, scheduled, lastMessage, handler, newMap, pc, file>>
      BY <1>2 DEF memory
    <3> QED
      BY <3>1, <3>3, <3>4, <3>5 DEF OrderInv, NotAfter, AtMostLatest
  <2> QED
    BY <2>1, <2>2
<1>4. \A v : \A u \in Tasks : [NoTasks EXCEPT ![t] = v][u] = IF u = t THEN v ELSE 0
  BY DEF NoTasks
<1>5. CASE BackendUpdates(t)
  <2>1. PICK v : v = version'
    OBVIOUS
  <2>2. v = version + 1 /\ backendTasks' = [backendTasks EXCEPT ![t] = v]
    BY <1>5, <2>1 DEF BackendUpdates
  <2> DEFINE told == [NoTasks EXCEPT ![t] = v]
  <2>3. \A u \in Tasks : told[u] = IF u = t THEN v ELSE 0
    BY <1>4
  <2> HIDE DEF told
  <2>4. \A tasks \in TaskMaps : AtMostLatest(tasks) => AtMostLatest(tasks)' /\ NotAfter(tasks, told)
    BY <1>1, <2>1, <2>2, <2>3, MapsAreMaps DEF AtMostLatest, NotAfter
  <2>5. \A tasks : tasks = told => AtMostLatest(tasks)'
    BY <1>1, <2>1, <2>2, <2>3 DEF AtMostLatest, NotAfter
  <2>6. AtMostLatest(backendTasks)'
    BY <1>1, <2>1, <2>2 DEF AtMostLatest, NotAfter
  <2>7. Sends(TaskUpdated(t, v)) /\ TaskUpdated(t, v).tasks = told
    BY <1>5, <2>1 DEF BackendUpdates, TaskUpdated, told
  <2>8. PICK m : m = TaskUpdated(t, v)
    OBVIOUS
  <2>9. Sends(m) /\ m.tasks = told
    BY <2>7, <2>8
  <2>10. AtMostLatest(m.tasks)'
    BY <2>5, <2>9
  <2> QED
    BY <1>3, <2>4, <2>6, <2>9, <2>10
<1>6. CASE BackendRemoves(t)
  <2>1. /\ version' = version /\ backendTasks[t] # 0
        /\ backendTasks' = [backendTasks EXCEPT ![t] = 0]
    BY <1>6 DEF BackendRemoves
  <2> DEFINE told == [NoTasks EXCEPT ![t] = backendTasks[t]]
  <2>2. \A u \in Tasks : told[u] = IF u = t THEN backendTasks[t] ELSE 0
    BY <1>4
  <2> HIDE DEF told
  <2>3. \A tasks \in TaskMaps : AtMostLatest(tasks) => AtMostLatest(tasks)' /\ NotAfter(tasks, told)
    BY <1>1, <2>1, <2>2, MapsAreMaps DEF AtMostLatest, NotAfter
  <2>4. \A tasks : tasks = told => AtMostLatest(tasks)'
    BY <1>1, <2>1, <2>2 DEF AtMostLatest, NotAfter
  <2>5. AtMostLatest(backendTasks)'
    BY <1>1, <2>1 DEF AtMostLatest, NotAfter
  <2>6. Sends(TaskRemoved(t, backendTasks[t])) /\ TaskRemoved(t, backendTasks[t]).tasks = told
    BY <1>6 DEF BackendRemoves, TaskRemoved, told
  <2>7. PICK m : m = TaskRemoved(t, backendTasks[t])
    OBVIOUS
  <2>8. Sends(m) /\ m.tasks = told
    BY <2>6, <2>7
  <2>9. AtMostLatest(m.tasks)'
    BY <2>4, <2>8
  <2> QED
    BY <1>3, <2>3, <2>5, <2>8, <2>9
<1> QED
  BY <1>5, <1>6

\* Handlers, starts, crashes, messages and changes keep the order (scheduler.go).
LEMMA StepOrderInv == Typed /\ OrderInv /\ [Next]_vars => OrderInv'
<1> SUFFICES ASSUME Typed, OrderInv, [Next]_vars PROVE OrderInv'
  OBVIOUS
<1>0. Typed'
  BY StepTyped
<1>1. CASE CreateExecutor \/ StartTaskScheduler \/ UNCHANGED vars
  <2>1. /\ UNCHANGED <<config, scheduled, lastMessage, inbox, session, backendTasks, version, file>>
        /\ UNCHANGED <<handler, newMap>> /\ (pc' = "down" => pc = "down")
    BY <1>1 DEF CreateExecutor, StartTaskScheduler, vars, memory, backend
  <2> QED
    BY <2>1 DEF OrderInv, AtMostLatest, NotAfter
<1>2. CASE LoadAndConnect \/ ScheduleTooEarly \/ Crash
  BY <1>0, <1>2, StartKeepsOrder DEF ScheduleTooEarly, Crash
<1>3. CASE Receive \/ ReceiveStale
  BY <1>0, <1>3, ReceiveKeepsOrder
<1>4. ASSUME NEW t \in Tasks,
             \/ HandleTaskUpdated(t) \/ HandleTaskRemoved(t)
             \/ OnTasksSchedules(t) \/ OnTasksSkips(t) \/ OnTasksRemoves(t)
      PROVE  OrderInv'
  BY <1>0, <1>4, HandlersKeepOrder
<1>5. CASE OnTasksScheduled \/ OnTasksAssigns
  <2>1. CASE Tasks # {}
    BY <1>0, <1>5, <2>1, HandlersKeepOrder
  <2>2. CASE Tasks = {}
    <3>1. /\ UNCHANGED <<lastMessage, inbox, session, backend, pc>>
          /\ handler # "idle" /\ newMap' = newMap
      BY <1>5 DEF OnTasksScheduled, OnTasksAssigns
    <3> QED
      BY <1>0, <2>2, <3>1, HandlerKeepsOrder
  <2> QED
    BY <2>1, <2>2
<1>6. CASE Connect \/ ConnectionLost
  BY <1>0, <1>6, LinkKeepsOrder
<1>7. ASSUME NEW t \in Tasks, BackendUpdates(t) \/ BackendRemoves(t)
      PROVE  OrderInv'
  BY <1>0, <1>7, ChangeKeepsOrder
<1> QED
  BY <1>1, <1>2, <1>3, <1>4, <1>5, <1>6, <1>7 DEF Next, Start, Handle, Environment

\* Versions come in the order the backend gave them out, in every run.
LEMMA OrderInvariant == Spec => [](Typed /\ OrderInv)
<1>1. Init => OrderInv
  <2> SUFFICES ASSUME Init PROVE OrderInv
    OBVIOUS
  <2>1. /\ config = NoTasks /\ scheduled = NoTasks /\ file.tasks = NoTasks
        /\ lastMessage.tasks = NoTasks /\ backendTasks = NoTasks /\ version = 0
        /\ inbox = <<>> /\ Len(inbox) = 0 /\ handler = "idle" /\ lastMessage = NoMessage
    BY DEF Init, NoMessage
  <2>2. \A t \in Tasks : NoTasks[t] = 0
    BY DEF NoTasks
  <2> QED
    BY <2>1, <2>2 DEF OrderInv, AtMostLatest, NotAfter
<1> QED
  BY TypedInvariant, StepOrderInv, <1>1, PTL DEF Spec

\* What is left to schedule is in the message.
TodoInv == handler \in {"schedule", "task_updated"} => todo \subseteq Present(newMap)

LEMMA StepTodoInv == Typed /\ TodoInv /\ [Next]_vars => TodoInv'
<1> SUFFICES ASSUME Typed, TodoInv, [Next]_vars PROVE TodoInv'
  OBVIOUS
<1>1. CASE \/ CreateExecutor \/ StartTaskScheduler \/ LoadAndConnect \/ ConnectionLost
           \/ (\E t \in Tasks : BackendUpdates(t) \/ BackendRemoves(t))
           \/ UNCHANGED vars
  BY <1>1
  DEF CreateExecutor, StartTaskScheduler, LoadAndConnect, ConnectionLost, BackendUpdates,
      BackendRemoves, vars, memory, TodoInv, Present
<1>2. CASE ScheduleTooEarly \/ Crash \/ Connect
  BY <1>2 DEF ScheduleTooEarly, Crash, Dies, Connect, TodoInv
<1>3. CASE Receive \/ ReceiveStale
  BY <1>3 DEF Receive, ReceiveStale, Handles, TodoInv, Present
<1>4. ASSUME NEW t \in Tasks,
             \/ HandleTaskUpdated(t) \/ HandleTaskRemoved(t)
             \/ OnTasksSchedules(t) \/ OnTasksSkips(t) \/ OnTasksRemoves(t)
      PROVE  TodoInv'
  BY <1>4
  DEF HandleTaskUpdated, HandleTaskRemoved, OnTasksSchedules, OnTasksSkips, OnTasksRemoves,
      LeftAfter, TodoInv, Present
<1>5. CASE OnTasksScheduled \/ OnTasksAssigns
  BY <1>5 DEF OnTasksScheduled, OnTasksAssigns, TodoInv
<1> QED
  BY <1>1, <1>2, <1>3, <1>4, <1>5 DEF Next, Start, Handle, Environment

\* A step of an agent that stays up takes a definition from the message it
\* handles, and that is no older than what there is.
LEMMA StepGoesOn ==
    ASSUME Typed, OrderInv, TodoInv, Next, pc # "down", pc' # "down", NEW t \in Tasks
    PROVE  /\ scheduled'[t] >= scheduled[t]
           /\ \/ config'[t] \in {0, config[t]}
              \/ config'[t] > config[t] /\ config'[t] >= scheduled[t]
<1> DEFINE told == lastMessage.tasks[t]
<1>1. /\ config \in TaskMaps /\ scheduled \in TaskMaps
      /\ config[t] \in Nat /\ scheduled[t] \in Nat /\ told \in Nat
  BY MapsAreMaps
<1>2. told # 0 => config[t] <= told /\ scheduled[t] <= told
  BY DEF OrderInv, NotAfter
<1>3. \/ scheduled'[t] = scheduled[t] /\ config'[t] \in {0, config[t], told}
      \/ scheduled'[t] = told /\ config'[t] = told /\ told # 0
  <2>1. ASSUME NEW u \in Tasks,
               \/ HandleTaskUpdated(u) \/ OnTasksSchedules(u)
        PROVE  /\ newMap[u] # 0 /\ newMap = lastMessage.tasks
               /\ scheduled' = [scheduled EXCEPT ![u] = newMap[u]]
               /\ config' = [config EXCEPT ![u] = newMap[u]]
    BY <2>1
    DEF HandleTaskUpdated, OnTasksSchedules, OnTask, Scheduled, At, OrderInv, TodoInv, Present
  <2>2. ASSUME NEW u \in Tasks, HandleTaskRemoved(u) \/ OnTasksRemoves(u)
        PROVE  UNCHANGED scheduled /\ config' = [config EXCEPT ![u] = 0]
    BY <2>2 DEF HandleTaskRemoved, OnTasksRemoves, OnTaskRemoved
  <2>3. ASSUME OnTasksAssigns
        PROVE  UNCHANGED scheduled /\ config' = lastMessage.tasks
    BY <2>3 DEF OnTasksAssigns, ListStored, OrderInv
  <2>4. CASE \/ CreateExecutor \/ StartTaskScheduler \/ Receive \/ ReceiveStale
             \/ (\E u \in Tasks : OnTasksSkips(u)) \/ OnTasksScheduled
             \/ Connect \/ ConnectionLost
             \/ (\E u \in Tasks : BackendUpdates(u) \/ BackendRemoves(u))
    BY <2>4
    DEF CreateExecutor, StartTaskScheduler, Receive, ReceiveStale, Handles, OnTasksSkips,
        OnTasksScheduled, Connect, ConnectionLost, BackendUpdates, BackendRemoves, memory
  <2>5. ~LoadAndConnect /\ ~ScheduleTooEarly /\ ~Crash
    BY DEF LoadAndConnect, ScheduleTooEarly, Crash, Dies
  <2>6. CASE \E u \in Tasks : HandleTaskUpdated(u) \/ OnTasksSchedules(u)
    BY <1>1, <2>1, <2>6 DEF TaskMaps
  <2>7. CASE \E u \in Tasks : HandleTaskRemoved(u) \/ OnTasksRemoves(u)
    BY <1>1, <2>2, <2>7 DEF TaskMaps
  <2> QED
    BY <2>3, <2>4, <2>5, <2>6, <2>7 DEF Next, Start, Handle, Environment
<1> HIDE DEF told
<1> QED
  BY <1>1, <1>2, <1>3

\* While an agent is up no definition is replaced by an older one, however many
\* messages are lost, handled again or cut off, and however often it was started
\* before: the task scheduler only gets newer ones, and so does the configuration.
THEOREM NeverGoesBackHolds == Spec => NeverGoesBack
<1>1. Init => TodoInv
  BY DEF Init, TodoInv
<1>2. Typed /\ TodoInv /\ [Next]_vars => TodoInv'
  BY StepTodoInv
<1>3. Typed /\ OrderInv /\ TodoInv /\ [Next]_vars =>
          [pc # "down" /\ pc' # "down" =>
              \A t \in Tasks :
                  /\ scheduled'[t] >= scheduled[t]
                  /\ \/ config'[t] \in {0, config[t]}
                     \/ config'[t] > config[t] /\ config'[t] >= scheduled[t]]_vars
  BY StepGoesOn
<1> QED
  BY OrderInvariant, <1>1, <1>2, <1>3, PTL DEF Spec, NeverGoesBack
=============================================================================
