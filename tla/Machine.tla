------------------------------- MODULE Machine -------------------------------
(***************************************************************************)
(* The processes of one machine that work on the agent's folder: the agent *)
(* itself (App.action), started by systemd or by hand; the dialog that     *)
(* makes its configuration (init); test; and the installation of the       *)
(* service.  Only the agent takes the lock.  A process may be killed       *)
(* between any two steps; systemctl stop kills too, as only SIGINT is      *)
(* caught.  A step ends where the program does I/O others can see.         *)
(*                                                                         *)
(* A configuration is an address and a key.  Keys are numbers: 0 is blank, *)
(* 1 one that was typed in, and the others the backend has issued for the  *)
(* code of a registration.                                                 *)
(***************************************************************************)
EXTENDS Naturals, FiniteSets

CONSTANTS
    Service,     \* the process systemd runs
    Shells,      \* the processes started by hand
    NoProcess,
    Identifiers, \* instance identifiers, more than processes
    MaxLaunches, \* bound: how often something is started by hand
    MaxKills,    \* bound: how often a process is killed
    MaxKeys      \* bound: the greatest key

ASSUME MachineAssumption ==
    /\ Service \notin Shells /\ NoProcess \notin Shells \cup {Service}
    /\ MaxLaunches \in Nat /\ MaxKills \in Nat /\ MaxKeys \in Nat \ {0}
    /\ Identifiers \subseteq Nat \ {0}
    /\ IsFiniteSet(Shells) /\ Cardinality(Identifiers) > Cardinality(Shells) + 1

API == INSTANCE APIClient

Procs == Shells \cup {Service}

VARIABLES
    cmd,       \* the command of each process
    pc,        \* where it is, "off" when there is none
    after,     \* where it goes on after Write
    appConfig, \* its a.appConfig
    coded,     \* it has registered the application with a code
    instance,  \* its InstanceID, 0 for none
    lock,      \* who holds client.lock
    file,      \* client-config.json: "absent", "torn" or "whole", and its value
    newest,    \* who encoded into it last
    damaged,   \* a write took part of its text, or was truncated for another's
    idFile,    \* .telephonist-instance-id, likewise
    keys,      \* the greatest key
    exe,       \* the installed executable: "absent", "torn" or "whole"
    unit,      \* there is a unit file
    wanted,    \* systemd is to keep the service running
    launches,
    kills

memory == <<cmd, after, appConfig, coded, instance>>
configuration == <<file, newest, damaged>>
machine == <<lock, exe, unit, wanted, launches, kills>>
vars == <<pc, memory, configuration, idFile, keys, machine>>

Addresses == {"blank", "refused", "good"}   \* refused: without http or https
AppConfigs == [address : Addresses, key : 0 .. MaxKeys]
Default == [address |-> "good", key |-> 0]
Whole(v) == [status |-> "whole", value |-> v]
Broken(status) == [status |-> status, value |-> Default]

\* A fresh machine, or one where the agent was installed and set up by hand.
Init ==
    /\ pc = [p \in Procs |-> "off"] /\ cmd = [p \in Procs |-> "none"]
    /\ after = [p \in Procs |-> "off"] /\ appConfig = [p \in Procs |-> Default]
    /\ coded = [p \in Procs |-> FALSE] /\ instance = [p \in Procs |-> 0]
    /\ lock = NoProcess
    /\ file \in {Broken("absent")} \cup {Whole([address |-> a, key |-> 1]) : a \in Addresses}
    /\ newest = NoProcess /\ damaged = FALSE
    /\ idFile = [status |-> "absent", value |-> 0] /\ keys = 1
    /\ exe = IF file.status = "absent" THEN "absent" ELSE "whole"
    /\ unit = (exe = "whole") /\ wanted = unit
    /\ launches = 0 /\ kills = 0

-----------------------------------------------------------------------------
(* Processes *)

\* Process p goes from one step to another.
Goes(p, from, to) == pc[p] = from /\ pc' = [pc EXCEPT ![p] = to]

\* It changes nothing else.
Moves(p, from, to) ==
    Goes(p, from, to) /\ UNCHANGED <<memory, configuration, idFile, keys, machine>>

\* Mutant: the lock is a file, and stays when its owner dies.
LockKept(p) == lock
LockOnceEnded(p) == IF lock = p THEN NoProcess ELSE lock

\* The kernel frees the lock of whoever ends without Unlock.
Ends(p, places) ==
    /\ pc' = [places EXCEPT ![p] = "off"]
    /\ cmd' = [cmd EXCEPT ![p] = "none"] /\ after' = [after EXCEPT ![p] = "off"]
    /\ appConfig' = [appConfig EXCEPT ![p] = Default] /\ coded' = [coded EXCEPT ![p] = FALSE]
    /\ instance' = [instance EXCEPT ![p] = 0]
    /\ lock' = LockOnceEnded(p)
    /\ UNCHANGED <<configuration, idFile, keys, exe, unit, launches>>

\* It exits by itself: an error, or the end of the command.
Exits(p, from) ==
    /\ pc[p] = from
    /\ Ends(p, pc)
    /\ UNCHANGED <<wanted, kills>>

Killed(p) ==
    /\ pc[p] # "off"
    /\ kills < MaxKills /\ kills' = kills + 1
    /\ Ends(p, pc)
    /\ UNCHANGED wanted

FirstStep == [run |-> "lock", init |-> "load", test |-> "load", install |-> "move", reinstall |-> "stop"]

Begins(p, c) ==
    /\ Goes(p, "off", FirstStep[c])
    /\ cmd' = [cmd EXCEPT ![p] = c]
    /\ UNCHANGED <<after, appConfig, coded, instance, configuration, idFile, keys, lock, exe, unit,
                   wanted, kills>>

Launch(p, c) == launches < MaxLaunches /\ launches' = launches + 1 /\ Begins(p, c)

\* At once, or RestartSec after the service has ended.
SystemdStarts == wanted /\ exe = "whole" /\ Begins(Service, "run") /\ UNCHANGED launches

-----------------------------------------------------------------------------
(* The lock *)

\* Mutant: a timeout is taken for the lock.
LockOrTimeout == TRUE
LockFree == lock = NoProcess

LockFile(p) ==
    /\ LockFree
    /\ Goes(p, "lock", "load")
    /\ lock' = p
    /\ UNCHANGED <<memory, configuration, idFile, keys, exe, unit, wanted, launches, kills>>

LockTimesOut(p) == ~LockFree /\ Exits(p, "lock")

\* An action that returns, and only that, lets App.after unlock before the
\* process ends.
Unlocks(p, from) ==
    /\ Goes(p, from, "unlocked")
    /\ lock' = NoProcess
    /\ UNCHANGED <<memory, configuration, idFile, keys, exe, unit, wanted, launches, kills>>

Returns(p) == Exits(p, "unlocked")

-----------------------------------------------------------------------------
(* ConfigFile *)

\* Mutant: test is gone before it has ended.
AfterLoadGone(p) == CASE cmd[p] = "run" -> "check" [] cmd[p] = "init" -> "address" [] OTHER -> "off"
AfterLoad(p) == CASE cmd[p] = "run" -> "check" [] cmd[p] = "init" -> "address" [] OTHER -> "tested"

Loads(p) ==
    /\ file.status = "whole"
    /\ Goes(p, "load", AfterLoad(p))
    /\ appConfig' = [appConfig EXCEPT ![p] = file.value]
    /\ UNCHANGED <<cmd, after, coded, instance, configuration, idFile, keys, machine>>

\* Write returns to another step.
Writes(p, from, to) ==
    /\ Goes(p, from, "open")
    /\ after' = [after EXCEPT ![p] = to]
    /\ UNCHANGED <<cmd, instance, configuration, idFile, machine>>

\* LoadOrCreate: only a missing file is made, of what is in memory.
LoadCreates(p) ==
    /\ file.status = "absent" /\ cmd[p] # "test"
    /\ Writes(p, "load", AfterLoad(p))
    /\ UNCHANGED <<appConfig, coded, keys>>

LoadFails(p) ==
    /\ file.status = "torn" \/ (file.status = "absent" /\ cmd[p] = "test")
    /\ Exits(p, "load")

FileStep(p, from, to) == Goes(p, from, to) /\ UNCHANGED <<memory, idFile, keys, machine>>

Opened == IF file.status = "absent" THEN Broken("torn") ELSE file

WriteOpens(p) ==
    /\ FileStep(p, "open", "encode")
    /\ file' = Opened
    /\ UNCHANGED <<newest, damaged>>

\* The text goes into the file in one call.
WriteEncodes(p) ==
    /\ FileStep(p, "encode", "truncate")
    /\ file' = Whole(appConfig[p]) /\ newest' = p
    /\ UNCHANGED damaged

\* An error of Encode is swallowed; the file has taken nothing or a part.
EncodeFails(p) ==
    /\ FileStep(p, "encode", after[p])
    /\ file' \in {file, Broken("torn")} /\ newest' = p /\ damaged' = TRUE

\* To the length of p's own text: what another has written since may be longer.
\* What is left behind the text is not read by Decode.
WriteTruncates(p) ==
    /\ FileStep(p, "truncate", after[p])
    /\ \/ UNCHANGED <<file, damaged>>
       \/ file.value # appConfig[p] /\ file' = Broken("torn") /\ damaged' = TRUE
    /\ UNCHANGED newest

\* Every caller gives up when the file cannot be opened.
WriteFails(p) == Exits(p, "open")

-----------------------------------------------------------------------------
(* App.action *)

\* prepareConfig and createTelephonistClient, which asks whether the backend
\* answers and accepts the key.
Usable(config) == config.key # 0 /\ config.address = "good"

ClientCreated(p) ==
    /\ Usable(appConfig[p])
    /\ \E r \in API!Responses : API!Probe(r) = "ok"
    /\ Moves(p, "check", "identity")

ClientFails(p) ==
    /\ ~Usable(appConfig[p]) \/ \E r \in API!Responses : API!Probe(r) # "ok"
    /\ Unlocks(p, "check")

\* getOrSetInstanceID.
Identified(p, id, to) ==
    /\ Goes(p, "identity", to)
    /\ instance' = [instance EXCEPT ![p] = id]
    /\ UNCHANGED <<cmd, after, appConfig, coded, configuration, idFile, keys, machine>>

\* uuid.New: one that nobody has.
New == CHOOSE id \in Identifiers : id # idFile.value /\ \A p \in Procs : id # instance[p]

\* Mutant: every start makes a new one.
Anew == FALSE
Parses == idFile.status = "whole"

IdentityRead(p) == Parses /\ Identified(p, idFile.value, "start")

IdentityMade(p) == ~Parses /\ Identified(p, New, "idOpen")

\* A file that is there and cannot be read is not replaced.
IdentityUnread(p) == idFile.status # "absent" /\ Identified(p, New, "start")

\* WriteFile truncates the file and then fills it.
IdentityWrites(p, from, to, content) ==
    /\ Goes(p, from, to)
    /\ idFile' = content
    /\ UNCHANGED <<memory, configuration, keys, machine>>

IdentityOpened(p) == IdentityWrites(p, "idOpen", "idWrite", [status |-> "torn", value |-> 0])
IdentityWritten(p) == IdentityWrites(p, "idWrite", "start", Whole(instance[p]))

\* Its errors are ignored.
IdentityNotWritten(p) == \E from \in {"idOpen", "idWrite"} : Moves(p, from, "start")

SchedulerStarts(p) == Moves(p, "start", "up")
SchedulerFails(p) == Unlocks(p, "start")

\* SIGINT, which systemd does not send.
Interrupted(p) == p # Service /\ Unlocks(p, "up")

-----------------------------------------------------------------------------
(* init *)

Answers(p, from, to, config) ==
    /\ Goes(p, from, to)
    /\ appConfig' = [appConfig EXCEPT ![p] = config]
    /\ UNCHANGED <<cmd, after, coded, instance, configuration, idFile, keys, machine>>

\* Nothing gets past a blank address: the dialog asks again and again.
InitAddress(p) ==
    /\ appConfig[p].address # "blank"
    /\ \E a \in {appConfig[p].address, "refused", "good"} :
        Answers(p, "address", "key", [appConfig[p] EXCEPT !.address = a])

\* A key is kept if there is one, or typed in.
InitKey(p) ==
    \E k \in {appConfig[p].key, 1} \ {0} :
        Answers(p, "key", "confirm", [appConfig[p] EXCEPT !.key = k])

\* startCRProcedure: NewClient may refuse the address, and init panics.
InitWantsCode(p) ==
    /\ appConfig[p].key = 0
    /\ \/ appConfig[p].address = "good" /\ Moves(p, "key", "code")
       \/ appConfig[p].address # "good" /\ Exits(p, "key")

\* Mutant: a key is not written before the dialog's last question.
ConfirmsFirst(p) ==
    /\ Goes(p, "code", "confirm")
    /\ UNCHANGED <<cmd, after, instance, configuration, idFile, machine>>
Saves(p) == Writes(p, "code", "confirm")

CodeAccepted(p) ==
    /\ keys < MaxKeys /\ keys' = keys + 1
    /\ \E r \in API!Responses : API!SubmitCodeRegistration(r) = "ok"
    /\ appConfig' = [appConfig EXCEPT ![p].key = keys'] /\ coded' = [coded EXCEPT ![p] = TRUE]
    /\ Saves(p)

\* The operator is asked again.  The answer may have been lost on its way, and
\* the key with it.
CodeLost(p) ==
    /\ keys < MaxKeys /\ keys' = keys + 1
    /\ \E r \in API!Responses : API!SubmitCodeRegistration(r) # "ok" /\ TRUE \in API!CarriedOut(r)
    /\ Goes(p, "code", "code")
    /\ UNCHANGED <<memory, configuration, idFile, machine>>

InitConfirmed(p) == Writes(p, "confirm", "saved") /\ UNCHANGED <<appConfig, coded, keys>>
InitEnds(p) == Exits(p, "confirm") \/ Exits(p, "saved")

-----------------------------------------------------------------------------
(* service install, with or without --restart, and systemctl *)

\* systemctl stop: nothing catches SIGTERM.
StopService(p) ==
    /\ pc[p] = "stop" /\ unit
    /\ Ends(Service, [pc EXCEPT ![p] = "move"])
    /\ wanted' = FALSE
    /\ UNCHANGED kills

Installs(p, from, to) ==
    /\ Goes(p, from, to)
    /\ UNCHANGED <<memory, configuration, idFile, keys, lock, launches, kills>>

\* A file that is being executed is not opened for writing.
MoveExecutable(p) ==
    /\ pc[Service] = "off"
    /\ Installs(p, "move", "copy")
    /\ exe' = "torn"
    /\ UNCHANGED <<unit, wanted>>

ExecutableMoved(p) == Installs(p, "copy", "unit") /\ exe' = "whole" /\ UNCHANGED <<unit, wanted>>

CreateServiceFile(p) ==
    /\ Installs(p, "unit", IF cmd[p] = "reinstall" THEN "reload" ELSE "installed")
    /\ unit' = TRUE
    /\ UNCHANGED <<exe, wanted>>

ReloadDaemon(p) == unit /\ Installs(p, "reload", "installed") /\ wanted' = TRUE /\ UNCHANGED <<exe, unit>>

\* systemctl start by hand, which install without --restart leaves to do.
OperatorStarts ==
    /\ unit /\ ~wanted /\ wanted' = TRUE
    /\ launches < MaxLaunches /\ launches' = launches + 1
    /\ UNCHANGED <<pc, memory, configuration, idFile, keys, lock, exe, unit, kills>>

\* Each step may fail, and the rest is not done.
InstallEnds(p) == \E from \in {"stop", "move", "copy", "unit", "reload", "installed"} : Exits(p, from)

-----------------------------------------------------------------------------
Configures(p) ==
    \/ Loads(p) \/ LoadCreates(p) \/ LoadFails(p) \/ Exits(p, "tested")
    \/ WriteOpens(p) \/ WriteEncodes(p) \/ EncodeFails(p) \/ WriteTruncates(p) \/ WriteFails(p)

Runs(p) ==
    \/ LockFile(p) \/ LockTimesOut(p) \/ Returns(p)
    \/ ClientCreated(p) \/ ClientFails(p)
    \/ IdentityRead(p) \/ IdentityMade(p) \/ IdentityUnread(p)
    \/ IdentityOpened(p) \/ IdentityWritten(p) \/ IdentityNotWritten(p)
    \/ SchedulerStarts(p) \/ SchedulerFails(p)

Asks(p) ==
    \/ InitAddress(p) \/ InitKey(p) \/ InitWantsCode(p)
    \/ CodeAccepted(p) \/ CodeLost(p)
    \/ InitConfirmed(p) \/ InitEnds(p)

InstallService(p) ==
    \/ StopService(p) \/ MoveExecutable(p) \/ ExecutableMoved(p)
    \/ CreateServiceFile(p) \/ ReloadDaemon(p) \/ InstallEnds(p)

Next ==
    \/ SystemdStarts \/ OperatorStarts
    \/ \E p \in Shells : Interrupted(p) \/ Asks(p) \/ InstallService(p)
    \/ \E p \in Shells, c \in DOMAIN FirstStep : Launch(p, c)
    \/ \E p \in Procs : Configures(p) \/ Runs(p) \/ Killed(p)

Spec == Init /\ [][Next]_vars

\* systemd and the agent it started get on; a backend that is asked again and
\* again answers at last, and so does the start of the scheduler.
FairSpec ==
    /\ Spec
    /\ WF_vars(SystemdStarts)
    /\ WF_vars(Configures(Service) \/ Runs(Service))
    /\ SF_vars(LockFile(Service)) /\ SF_vars(Loads(Service))
    /\ SF_vars(ClientCreated(Service)) /\ SF_vars(SchedulerStarts(Service))

-----------------------------------------------------------------------------
Places ==
    {"off", "lock", "load", "open", "encode", "truncate", "check", "identity", "idOpen", "idWrite",
     "start", "up", "unlocked", "tested", "address", "key", "code", "confirm", "saved",
     "stop", "move", "copy", "unit", "reload", "installed"}

TypeOK ==
    /\ pc \in [Procs -> Places]
    /\ cmd \in [Procs -> {"none"} \cup DOMAIN FirstStep]
    /\ \A p \in Procs : (pc[p] = "off") = (cmd[p] = "none")
    /\ after \in [Procs -> {"off", "check", "address", "confirm", "saved"}]
    /\ appConfig \in [Procs -> AppConfigs]
    /\ coded \in [Procs -> BOOLEAN]
    /\ instance \in [Procs -> Identifiers \cup {0}]
    /\ lock \in Procs \cup {NoProcess}
    /\ file \in [status : {"absent", "torn", "whole"}, value : AppConfigs]
    /\ newest \in Procs \cup {NoProcess}
    /\ damaged \in BOOLEAN
    /\ idFile \in [status : {"absent", "torn", "whole"}, value : Identifiers \cup {0}]
    /\ keys \in 1 .. MaxKeys
    /\ exe \in {"absent", "torn", "whole"} /\ unit \in BOOLEAN /\ wanted \in BOOLEAN
    /\ launches \in 0 .. MaxLaunches /\ kills \in 0 .. MaxKills

\* Past lockFile, and not through with action.
InAction(p) == cmd[p] = "run" /\ pc[p] \notin {"lock", "unlocked"}

\* "make sure you only run one instance of the agent at a time": of the agents
\* started by systemd and by hand at most one gets past lockFile, whoever is
\* killed with the lock.
OneAgent == \A p, q \in Procs : InAction(p) /\ InAction(q) => p = q

\* An identifier that made it to the file is the machine's for good, whatever
\* agents are killed or started at once (getOrSetInstanceID).
IdentityKept == [][idFile.status = "whole" => idFile' = idFile]_idFile

\* The key a code was spent on is in the file before init asks anything else,
\* unless another process has written there since (startCRProcedure).
KeySaved ==
    \A p \in Procs :
        pc[p] = "confirm" /\ coded[p] /\ newest \in {p, NoProcess} /\ ~damaged
            => file = Whole(appConfig[p])

\* Nothing is in the way of the service.
Serviceable ==
    /\ wanted /\ exe = "whole"
    /\ file.status = "whole" /\ Usable(file.value)
    /\ lock \in {Service, NoProcess}

\* A service that could run for good comes up again and again, also after it
\* was killed or gave up on the backend (Restart=always).
ServiceComesBack == <>[]Serviceable => []<>(pc[Service] = "up")
=============================================================================
