---------------------------- MODULE MachineProofs ----------------------------
(***************************************************************************)
(* What Machine guarantees for any number of processes, launches, kills    *)
(* and keys.                                                               *)
(***************************************************************************)
EXTENDS Machine, FiniteSetTheorems, TLAPS

-----------------------------------------------------------------------------
(* Type correctness *)

\* The steps of each command.
WriteSteps == {"open", "encode", "truncate"}
IdentitySteps == {"idOpen", "idWrite", "start", "up", "unlocked"}
StepsOf(c) ==
    CASE c = "none" -> {"off"}
      [] c = "run" -> {"lock", "load", "check", "identity"} \cup WriteSteps \cup IdentitySteps
      [] c = "init" -> {"load", "address", "key", "code", "confirm", "saved"} \cup WriteSteps
      [] c = "test" -> {"load", "tested"}
      [] c = "install" -> {"move", "copy", "unit", "installed"}
      [] c = "reinstall" -> {"stop", "move", "copy", "unit", "reload", "installed"}

\* Where each command goes on after Write.
StepsAfter(c) == IF c = "run" THEN {"check"} ELSE {"address", "confirm", "saved"}

\* A process is at a step of its command, goes on after Write with another one,
\* and has an identifier only once it has been through getOrSetInstanceID.
StepsInv ==
    \A p \in Procs :
        /\ pc[p] \in StepsOf(cmd[p])
        /\ pc[p] \in WriteSteps => after[p] \in StepsAfter(cmd[p])
        /\ pc[p] \notin IdentitySteps => instance[p] = 0

MachineTypeOK == TypeOK /\ StepsInv

\* There is an identifier nobody has for a process that has none yet (uuid.New).
LEMMA NewIsNew ==
    ASSUME MachineTypeOK, NEW p \in Procs, instance[p] = 0
    PROVE  New \in Identifiers /\ New # 0
<1> DEFINE others == {instance[q] : q \in Procs \ {p}}
           taken == others \cup {idFile.value}
<1>1. IsFiniteSet(Procs) /\ Cardinality(Procs) = Cardinality(Shells) + 1
  BY MachineAssumption, FS_AddElement DEF Procs
<1>2. IsFiniteSet(Procs \ {p}) /\ Cardinality(Procs \ {p}) = Cardinality(Shells)
  <2>1. /\ IsFiniteSet(Procs \ {p})
        /\ Cardinality(Procs \ {p}) = Cardinality(Procs) - 1
    BY <1>1, FS_RemoveElement
  <2> QED
    BY <1>1, <2>1, MachineAssumption, FS_CardinalityType
<1>3. IsFiniteSet(others) /\ Cardinality(others) <= Cardinality(Shells)
  <2> DEFINE f == [q \in Procs \ {p} |-> instance[q]]
  <2>1. f \in Surjection(Procs \ {p}, others)
    BY DEF Surjection
  <2> HIDE DEF f, others
  <2> QED
    BY <1>2, <2>1, FS_Surjection
<1>4. IsFiniteSet(taken) /\ Cardinality(taken) <= Cardinality(Shells) + 1
  <2> HIDE DEF others
  <2>1. /\ IsFiniteSet(taken)
        /\ Cardinality(taken) = IF idFile.value \in others THEN Cardinality(others)
                                ELSE Cardinality(others) + 1
    BY <1>3, FS_AddElement
  <2> QED
    BY <1>3, <2>1, MachineAssumption, FS_CardinalityType
<1>5. ~(Identifiers \subseteq taken)
  <2> SUFFICES ASSUME Identifiers \subseteq taken PROVE FALSE
    OBVIOUS
  <2>1. Cardinality(Identifiers) <= Cardinality(taken) /\ Cardinality(Identifiers) \in Nat
    BY <1>4, FS_Subset, FS_CardinalityType
  <2> QED
    BY <2>1, <1>4, MachineAssumption, FS_CardinalityType
<1>6. \E id \in Identifiers : id # idFile.value /\ \A q \in Procs : id # instance[q]
  <2>1. PICK id \in Identifiers : id \notin taken
    BY <1>5
  <2>2. id # 0
    BY MachineAssumption
  <2> QED
    BY <2>1, <2>2
<1> QED
  BY <1>6, MachineAssumption DEF New

\* Nothing runs on the machine at first.
LEMMA InitTypeOK == Init => MachineTypeOK
<1> SUFFICES ASSUME Init PROVE MachineTypeOK
  OBVIOUS
<1>1. Default \in AppConfigs /\ \A a \in Addresses : [address |-> a, key |-> 1] \in AppConfigs
  BY MachineAssumption DEF Default, AppConfigs, Addresses
<1>2. file \in [status : {"absent", "torn", "whole"}, value : AppConfigs]
  BY <1>1 DEF Init, Broken, Whole
<1>3. \A p \in Procs : (pc[p] = "off") = (cmd[p] = "none")
  BY DEF Init
<1>4. idFile \in [status : {"absent", "torn", "whole"}, value : Identifiers \cup {0}]
  BY DEF Init
<1>5. /\ exe \in {"absent", "torn", "whole"} /\ unit \in BOOLEAN /\ wanted \in BOOLEAN
      /\ damaged \in BOOLEAN /\ coded \in [Procs -> BOOLEAN]
  BY DEF Init
<1>6. /\ appConfig \in [Procs -> AppConfigs] /\ keys \in 1 .. MaxKeys
      /\ launches \in 0 .. MaxLaunches /\ kills \in 0 .. MaxKills
  BY <1>1, MachineAssumption DEF Init
<1>7. TypeOK
  BY <1>2, <1>3, <1>4, <1>5, <1>6 DEF Init, TypeOK, Places
<1>8. StepsInv
  BY DEF Init, StepsInv, StepsOf, WriteSteps
<1> QED
  BY <1>7, <1>8 DEF MachineTypeOK
\* Ending, by itself or killed, keeps the types.
LEMMA EndsTypeOK ==
    ASSUME MachineTypeOK, NEW p \in Procs, NEW places \in [Procs -> Places],
           \A q \in Procs \ {p} : /\ places[q] \in StepsOf(cmd[q]) \ WriteSteps \/ places[q] = pc[q]
                                  /\ places[q] = "off" <=> pc[q] = "off"
                                  /\ pc[q] \in IdentitySteps => places[q] \in IdentitySteps,
           Ends(p, places), wanted' \in BOOLEAN, kills' \in 0 .. MaxKills
    PROVE  MachineTypeOK'
<1> USE MachineAssumption DEF MachineTypeOK, Ends
<1>1. TypeOK'
  <2>1. (appConfig \in [Procs -> AppConfigs])'
    BY DEF TypeOK, AppConfigs, Default, Addresses
  <2>2. lock' \in Procs \cup {NoProcess}
    BY DEF TypeOK, LockOnceEnded
  <2>3. (\A q \in Procs : (pc[q] = "off") = (cmd[q] = "none"))'
    BY DEF TypeOK
  <2> QED
    BY <2>1, <2>2, <2>3 DEF TypeOK, configuration, Places
<1>2. ASSUME NEW q \in Procs PROVE /\ pc'[q] \in StepsOf(cmd'[q])
                                   /\ pc'[q] \in WriteSteps => after'[q] \in StepsAfter(cmd'[q])
                                   /\ pc'[q] \notin IdentitySteps => instance'[q] = 0
  <2>1. CASE q = p
    BY <2>1 DEF TypeOK, StepsOf, WriteSteps
  <2>2. CASE q # p
    <3>1. /\ pc'[q] = places[q] /\ cmd'[q] = cmd[q]
          /\ after'[q] = after[q] /\ instance'[q] = instance[q]
      BY <2>2 DEF TypeOK
    <3>2. places[q] \in StepsOf(cmd[q])
      BY <2>2 DEF StepsInv
    <3>3. places[q] \in WriteSteps => places[q] = pc[q]
      BY <2>2
    <3>4. places[q] \notin IdentitySteps => instance[q] = 0
      BY <2>2 DEF StepsInv
    <3> QED
      BY <3>1, <3>2, <3>3, <3>4 DEF StepsInv
  <2> QED
    BY <2>1, <2>2
<1> QED
  BY <1>1, <1>2 DEF StepsInv

\* A command that ends, or is killed, keeps the types.
LEMMA ExitsTypeOK ==
    ASSUME MachineTypeOK, NEW p \in Procs, NEW from, Exits(p, from) \/ Killed(p)
    PROVE  MachineTypeOK'
<1>1. pc \in [Procs -> Places] /\ \A q \in Procs : pc[q] \in StepsOf(cmd[q])
  BY DEF MachineTypeOK, TypeOK, StepsInv
<1>2. Ends(p, pc) /\ wanted' \in BOOLEAN /\ kills' \in 0 .. MaxKills
  BY MachineAssumption DEF MachineTypeOK, TypeOK, Exits, Killed
<1> QED
  BY <1>1, <1>2, EndsTypeOK

\* Unlocking before the end keeps the types.
LEMMA UnlocksTypeOK ==
    ASSUME MachineTypeOK, NEW p \in Procs, NEW from \in {"check", "start", "up"}, Unlocks(p, from)
    PROVE  MachineTypeOK'
<1> USE DEF MachineTypeOK, Unlocks, Goes, memory, configuration
<1>1. TypeOK'
  BY DEF TypeOK, Places
<1>2. StepsInv'
  BY DEF TypeOK, StepsInv, StepsOf, WriteSteps, IdentitySteps, FirstStep
<1> QED
  BY <1>1, <1>2

\* Starting a command, by hand or by systemd, keeps the types.
LEMMA BeginsTypeOK ==
    ASSUME MachineTypeOK, NEW p \in Procs, NEW c \in DOMAIN FirstStep, Begins(p, c),
           launches' \in 0 .. MaxLaunches
    PROVE  MachineTypeOK'
<1> USE DEF MachineTypeOK, Begins, Goes, FirstStep
<1>1. TypeOK'
  BY DEF TypeOK, Places, configuration
<1>2. StepsInv'
  BY DEF TypeOK, StepsInv, StepsOf, WriteSteps, IdentitySteps
<1> QED
  BY <1>1, <1>2

\* Every step of a process, of systemd or of the operator keeps the types.
LEMMA StepTypeOK ==
    ASSUME MachineTypeOK, [Next]_vars
    PROVE  MachineTypeOK'
<1>1. ASSUME NEW p \in Procs, Configures(p)
      PROVE  MachineTypeOK'
  <2>1. CASE LoadFails(p) \/ WriteFails(p) \/ Exits(p, "tested")
    BY <2>1, ExitsTypeOK DEF LoadFails, WriteFails
  <2> USE MachineAssumption DEF MachineTypeOK, TypeOK, StepsInv, Goes, memory, configuration, machine,
          Places, StepsOf, StepsAfter, WriteSteps, IdentitySteps, FirstStep, AppConfigs, Default, Addresses
  <2>2. CASE Loads(p)
    BY <2>2 DEF Loads, AfterLoad, FirstStep
  <2>3. CASE LoadCreates(p)
    BY <2>3 DEF LoadCreates, Writes, AfterLoad, FirstStep
  <2>4. CASE WriteOpens(p)
    BY <2>4 DEF WriteOpens, FileStep, Opened, Broken, Default, AppConfigs, Addresses
  <2>5. CASE WriteEncodes(p)
    BY <2>5 DEF WriteEncodes, FileStep, Whole
  <2>6. CASE EncodeFails(p)
    BY <2>6 DEF EncodeFails, FileStep, Broken, Default, AppConfigs, Addresses
  <2>7. CASE WriteTruncates(p)
    <3>1. file' \in [status : {"absent", "torn", "whole"}, value : AppConfigs] /\ damaged' \in BOOLEAN
      <4>1. CASE UNCHANGED <<file, damaged>>
        BY <4>1
      <4>2. CASE file' = Broken("torn") /\ damaged' = TRUE
        BY <4>2 DEF Broken
      <4> QED
        BY <2>7, <4>1, <4>2 DEF WriteTruncates
    <3>2. /\ pc[p] = "truncate" /\ pc' = [pc EXCEPT ![p] = after[p]]
          /\ UNCHANGED <<memory, idFile, keys, machine, newest>>
      BY <2>7 DEF WriteTruncates, FileStep
    <3>3. after[p] \in StepsAfter(cmd[p])
      BY <3>2
    <3> QED
      BY <3>1, <3>2, <3>3 DEF FirstStep
  <2> QED
    BY <1>1, <2>1, <2>2, <2>3, <2>4, <2>5, <2>6, <2>7 DEF Configures
<1>2. ASSUME NEW p \in Procs, Runs(p)
      PROVE  MachineTypeOK'
  <2>1. CASE LockTimesOut(p) \/ Returns(p)
    BY <2>1, ExitsTypeOK DEF LockTimesOut, Returns
  <2>2. CASE IdentityMade(p) \/ IdentityUnread(p)
    <3>1. pc[p] = "identity" /\ instance[p] = 0
      BY <2>2 DEF IdentityMade, IdentityUnread, Identified, Goes, MachineTypeOK, StepsInv,
                  IdentitySteps
    <3>2. New \in Identifiers
      BY <3>1, NewIsNew
    <3>3. PICK to \in {"idOpen", "start"} : Identified(p, New, to)
      BY <2>2 DEF IdentityMade, IdentityUnread
    <3>4. PICK id \in Identifiers : Identified(p, id, to)
      BY <3>2, <3>3
    <3> QED
      BY <3>4 DEF Identified, MachineTypeOK, TypeOK, StepsInv, Goes, configuration, machine,
                  Places, StepsOf, StepsAfter, WriteSteps, IdentitySteps, FirstStep
  <2> USE MachineAssumption DEF MachineTypeOK, TypeOK, StepsInv, Goes, memory, configuration, machine,
          Places, StepsOf, StepsAfter, WriteSteps, IdentitySteps, FirstStep, AppConfigs, Default, Addresses
  <2>3. CASE LockFile(p)
    BY <2>3 DEF LockFile
  <2>4. CASE ClientCreated(p)
    BY <2>4 DEF ClientCreated, Moves
  <2>5. CASE SchedulerStarts(p)
    BY <2>5 DEF SchedulerStarts, Moves
  <2>6. CASE IdentityNotWritten(p)
    BY <2>6 DEF IdentityNotWritten, Moves
  <2>7. CASE IdentityRead(p)
    BY <2>7 DEF IdentityRead, Identified, Parses
  <2>8. CASE IdentityOpened(p)
    BY <2>8 DEF IdentityOpened, IdentityWrites
  <2>9. CASE IdentityWritten(p)
    BY <2>9 DEF IdentityWritten, IdentityWrites, Whole
  <2>10. CASE ClientFails(p) \/ SchedulerFails(p)
    BY <2>10, UnlocksTypeOK DEF ClientFails, SchedulerFails
  <2> QED
    BY <1>2, <2>1, <2>2, <2>3, <2>4, <2>5, <2>6, <2>7, <2>8, <2>9, <2>10 DEF Runs
<1>3. ASSUME NEW p \in Procs, Asks(p)
      PROVE  MachineTypeOK'
  <2>1. CASE InitEnds(p)
    BY <2>1, ExitsTypeOK DEF InitEnds
  <2>2. ASSUME Exits(p, "key")
        PROVE  MachineTypeOK'
    BY <2>2, ExitsTypeOK
  <2> USE MachineAssumption DEF MachineTypeOK, TypeOK, StepsInv, Goes, memory, configuration, machine,
          Places, StepsOf, StepsAfter, WriteSteps, IdentitySteps, FirstStep, AppConfigs, Default, Addresses
  <2>3. CASE InitAddress(p)
    BY <2>3 DEF InitAddress, Answers, AppConfigs, Addresses
  <2>4. CASE InitKey(p)
    BY <2>4 DEF InitKey, Answers, AppConfigs, Addresses
  <2>5. CASE CodeLost(p)
    BY <2>5 DEF CodeLost
  <2>6. CASE InitConfirmed(p)
    BY <2>6 DEF InitConfirmed, Writes
  <2>7. CASE InitWantsCode(p)
    <3>1. CASE Moves(p, "key", "code")
      BY <3>1 DEF Moves
    <3> QED
      BY <2>2, <2>7, <3>1 DEF InitWantsCode
  <2>8. CASE CodeAccepted(p)
    <3>1. keys' \in 1 .. MaxKeys /\ keys' \in 0 .. MaxKeys
      BY <2>8 DEF CodeAccepted
    <3>2. appConfig' = [appConfig EXCEPT ![p] = [appConfig[p] EXCEPT !.key = keys']]
      BY <2>8 DEF CodeAccepted
    <3>3. (appConfig \in [Procs -> AppConfigs])'
      BY <3>1, <3>2 DEF AppConfigs
    <3>4. /\ coded' = [coded EXCEPT ![p] = TRUE]
          /\ pc[p] = "code" /\ pc' = [pc EXCEPT ![p] = "open"]
          /\ after' = [after EXCEPT ![p] = "confirm"]
          /\ UNCHANGED <<cmd, instance, configuration, idFile, machine>>
      BY <2>8 DEF CodeAccepted, Saves, Writes
    <3>5. /\ pc' \in [Procs -> Places]
          /\ after' \in [Procs -> {"off", "check", "address", "confirm", "saved"}]
          /\ coded' \in [Procs -> BOOLEAN]
          /\ \A q \in Procs : (pc'[q] = "off") = (cmd'[q] = "none")
      BY <3>4
    <3>6. StepsInv'
      BY <3>4
    <3> QED
      BY <3>1, <3>3, <3>4, <3>5, <3>6 DEF MachineTypeOK, TypeOK
  <2> QED
    BY <1>3, <2>1, <2>3, <2>4, <2>5, <2>6, <2>7, <2>8 DEF Asks
<1>4. ASSUME NEW p \in Shells, InstallService(p)
      PROVE  MachineTypeOK'
  <2>0. p \in Procs /\ Service \in Procs /\ p # Service
    BY MachineAssumption DEF Procs
  <2>1. CASE StopService(p)
    <3> DEFINE places == [pc EXCEPT ![p] = "move"]
    <3>1. places \in [Procs -> Places] /\ pc[p] = "stop" /\ cmd[p] = "reinstall"
      BY <2>0, <2>1 DEF MachineTypeOK, TypeOK, StepsInv, StopService, FirstStep, StepsOf, Places,
                        WriteSteps, IdentitySteps
    <3>2. \A q \in Procs \ {Service} :
             /\ places[q] \in StepsOf(cmd[q]) \ WriteSteps \/ places[q] = pc[q]
             /\ places[q] = "off" <=> pc[q] = "off"
             /\ pc[q] \in IdentitySteps => places[q] \in IdentitySteps
      BY <2>0, <3>1 DEF MachineTypeOK, TypeOK, StepsOf, WriteSteps, IdentitySteps
    <3>3. Ends(Service, places) /\ wanted' \in BOOLEAN /\ kills' \in 0 .. MaxKills
      BY <2>1 DEF StopService, MachineTypeOK, TypeOK
    <3> HIDE DEF places
    <3> QED
      BY <2>0, <3>1, <3>2, <3>3, EndsTypeOK
  <2>2. CASE InstallEnds(p)
    BY <2>0, <2>2, ExitsTypeOK DEF InstallEnds
  <2> USE MachineAssumption DEF MachineTypeOK, TypeOK, StepsInv, Goes, memory, configuration, machine,
          Places, StepsOf, StepsAfter, WriteSteps, IdentitySteps, FirstStep, AppConfigs, Default, Addresses
  <2>3. CASE MoveExecutable(p)
    BY <2>3, <2>0 DEF MoveExecutable, Installs
  <2>4. CASE ExecutableMoved(p)
    BY <2>4, <2>0 DEF ExecutableMoved, Installs
  <2>5. CASE CreateServiceFile(p)
    BY <2>5, <2>0 DEF CreateServiceFile, Installs, FirstStep
  <2>6. CASE ReloadDaemon(p)
    BY <2>6, <2>0 DEF ReloadDaemon, Installs
  <2> QED
    BY <1>4, <2>1, <2>2, <2>3, <2>4, <2>5, <2>6 DEF InstallService
<1>5. CASE SystemdStarts
  <2>1. Service \in Procs /\ "run" \in DOMAIN FirstStep
    BY DEF Procs, FirstStep
  <2>2. Begins(Service, "run") /\ launches' \in 0 .. MaxLaunches
    BY <1>5 DEF SystemdStarts, MachineTypeOK, TypeOK
  <2> QED
    BY <2>1, <2>2, BeginsTypeOK
<1>6. CASE OperatorStarts
  <2>1. /\ wanted' = TRUE /\ launches' \in 0 .. MaxLaunches
        /\ UNCHANGED <<pc, cmd, after, appConfig, coded, instance, file, newest, damaged, idFile,
                       keys, lock, exe, unit, kills>>
    BY <1>6, MachineAssumption DEF OperatorStarts, MachineTypeOK, TypeOK, memory, configuration
  <2> QED
    BY <2>1 DEF MachineTypeOK, TypeOK, StepsInv
<1>7. ASSUME NEW p \in Shells, NEW c \in DOMAIN FirstStep, Launch(p, c)
      PROVE  MachineTypeOK'
  <2>1. p \in Procs /\ launches' \in 0 .. MaxLaunches
    BY <1>7, MachineAssumption DEF Launch, Procs, MachineTypeOK, TypeOK
  <2> QED
    BY <1>7, <2>1, BeginsTypeOK DEF Launch
<1>8. ASSUME NEW p \in Procs, Interrupted(p) \/ Killed(p)
      PROVE  MachineTypeOK'
  BY <1>8, ExitsTypeOK, UnlocksTypeOK DEF Interrupted
<1>9. CASE UNCHANGED vars
  BY <1>9 DEF vars, memory, configuration, machine, MachineTypeOK, TypeOK, StepsInv
<1> QED
  BY <1>1, <1>2, <1>3, <1>4, <1>5, <1>6, <1>7, <1>8, <1>9 DEF Next, Procs

\* The types are an invariant together with the steps of the commands.
LEMMA TypeInvariant == Spec => []MachineTypeOK
  BY InitTypeOK, StepTypeOK, PTL DEF Spec

\* The types of all variables (the fields of App, the files and the lock of
\* app.go, config.go and scheduler.go).
THEOREM TypeCorrect == Spec => []TypeOK
<1>1. MachineTypeOK => TypeOK
  BY DEF MachineTypeOK
<1> QED
  BY <1>1, TypeInvariant, PTL

-----------------------------------------------------------------------------
(* The lock and the identifier *)

\* Whoever is in action holds the lock.
LockInv == \A p \in Procs : InAction(p) => lock = p

\* No step takes the lock from its owner, and only its owner passes lockFile.
LEMMA StepLockInv ==
    ASSUME MachineTypeOK, LockInv, [Next]_vars
    PROVE  LockInv'
<1> USE DEF LockInv, InAction
<1>0. /\ pc \in [Procs -> Places] /\ cmd \in [Procs -> {"none"} \cup DOMAIN FirstStep]
      /\ NoProcess \notin Procs
  BY MachineAssumption DEF MachineTypeOK, TypeOK, Procs
<1>1. ASSUME NEW p \in Procs, NEW from, Exits(p, from) \/ Killed(p)
      PROVE  LockInv'
  BY <1>0, <1>1 DEF Exits, Killed, Ends, LockOnceEnded
<1>2. ASSUME NEW p \in Procs, NEW c, Begins(p, c)
      PROVE  LockInv'
  BY <1>0, <1>2 DEF Begins, Goes, FirstStep
<1>3. ASSUME NEW p \in Procs, pc[p] \notin {"lock", "unlocked"}, NEW to, pc' = [pc EXCEPT ![p] = to],
             UNCHANGED <<cmd, lock>>
      PROVE  LockInv'
  BY <1>0, <1>3
<1>12. ASSUME NEW p \in Procs, NEW from \in {"check", "start", "up"}, Unlocks(p, from)
       PROVE  LockInv'
  <2>1. lock = p
    BY <1>0, <1>12 DEF Unlocks, Goes, MachineTypeOK, StepsInv, StepsOf, WriteSteps, IdentitySteps, FirstStep
  <2>2. pc'[p] = "unlocked" /\ cmd' = cmd /\ \A q \in Procs \ {p} : pc'[q] = pc[q]
    BY <1>0, <1>12 DEF Unlocks, Goes, memory
  <2> QED
    BY <2>1, <2>2
<1>4. ASSUME NEW p \in Procs, Configures(p)
      PROVE  LockInv'
  <2>1. CASE LoadFails(p) \/ WriteFails(p) \/ Exits(p, "tested")
    BY <2>1, <1>1 DEF LoadFails, WriteFails
  <2>2. CASE Loads(p) \/ LoadCreates(p)
    BY <2>2, <1>3 DEF Loads, LoadCreates, Writes, Goes, machine
  <2>3. CASE WriteOpens(p) \/ WriteEncodes(p) \/ EncodeFails(p) \/ WriteTruncates(p)
    BY <2>3, <1>3 DEF WriteOpens, WriteEncodes, EncodeFails, WriteTruncates, FileStep, Goes,
                      memory, machine
  <2> QED
    BY <1>4, <2>1, <2>2, <2>3 DEF Configures
<1>5. ASSUME NEW p \in Procs, Runs(p)
      PROVE  LockInv'
  <2>1. CASE LockTimesOut(p) \/ Returns(p)
    BY <2>1, <1>1 DEF LockTimesOut, Returns
  <2>2. CASE LockFile(p)
    BY <1>0, <2>2 DEF LockFile, LockFree, Goes, memory
  <2>3. CASE ClientCreated(p) \/ SchedulerStarts(p) \/ IdentityNotWritten(p)
    BY <2>3, <1>3 DEF ClientCreated, SchedulerStarts, IdentityNotWritten, Moves, Goes, memory, machine
  <2>4. CASE IdentityRead(p) \/ IdentityMade(p) \/ IdentityUnread(p)
    BY <2>4, <1>3 DEF IdentityRead, IdentityMade, IdentityUnread, Identified, Goes, machine
  <2>5. CASE IdentityOpened(p) \/ IdentityWritten(p)
    BY <2>5, <1>3 DEF IdentityOpened, IdentityWritten, IdentityWrites, Goes, memory, machine
  <2>6. CASE ClientFails(p) \/ SchedulerFails(p)
    BY <2>6, <1>12 DEF ClientFails, SchedulerFails
  <2> QED
    BY <1>5, <2>1, <2>2, <2>3, <2>4, <2>5, <2>6 DEF Runs
<1>6. ASSUME NEW p \in Procs, Asks(p)
      PROVE  LockInv'
  <2>1. CASE InitEnds(p) \/ Exits(p, "key")
    BY <2>1, <1>1 DEF InitEnds
  <2>2. CASE InitAddress(p) \/ InitKey(p)
    BY <2>2, <1>3 DEF InitAddress, InitKey, Answers, Goes, machine
  <2>3. CASE CodeAccepted(p) \/ CodeLost(p) \/ InitConfirmed(p) \/ Moves(p, "key", "code")
    BY <2>3, <1>3 DEF CodeAccepted, Saves, CodeLost, InitConfirmed, Writes, Moves, Goes, memory, machine
  <2> QED
    BY <1>6, <2>1, <2>2, <2>3 DEF Asks, InitWantsCode
<1>7. ASSUME NEW p \in Shells, InstallService(p)
      PROVE  LockInv'
  <2>0. p \in Procs /\ Service \in Procs /\ p # Service
    BY MachineAssumption DEF Procs
  <2>1. CASE StopService(p)
    BY <1>0, <2>0, <2>1 DEF StopService, Ends, LockOnceEnded
  <2>2. CASE MoveExecutable(p) \/ ExecutableMoved(p) \/ CreateServiceFile(p) \/ ReloadDaemon(p)
    BY <2>0, <2>2, <1>3 DEF MoveExecutable, ExecutableMoved, CreateServiceFile, ReloadDaemon, Installs,
                            Goes, memory
  <2>3. CASE InstallEnds(p)
    BY <2>0, <2>3, <1>1 DEF InstallEnds
  <2> QED
    BY <1>7, <2>1, <2>2, <2>3 DEF InstallService
<1>8. CASE SystemdStarts \/ OperatorStarts
  BY <1>8, <1>2 DEF SystemdStarts, OperatorStarts, Procs, memory
<1>9. ASSUME NEW p \in Shells, NEW c \in DOMAIN FirstStep, Launch(p, c)
      PROVE  LockInv'
  BY <1>9, <1>2 DEF Launch, Procs
<1>10. ASSUME NEW p \in Procs, Interrupted(p) \/ Killed(p)
       PROVE  LockInv'
  BY <1>10, <1>1, <1>12 DEF Interrupted
<1>11. CASE UNCHANGED vars
  BY <1>11 DEF vars, memory, machine
<1> QED
  BY <1>4, <1>5, <1>6, <1>7, <1>8, <1>9, <1>10, <1>11 DEF Next, Procs

\* The lock, with the types it rests on.
LEMMA LockInvariant == Spec => [](MachineTypeOK /\ LockInv)
<1>1. Init => LockInv
  BY DEF Init, LockInv, InAction
<1> QED
  BY <1>1, TypeInvariant, StepLockInv, PTL DEF Spec

\* "make sure you only run one instance of the agent at a time" (lockFile in
\* app.go): at most one agent is past the lock.
THEOREM OneAgentHolds == Spec => []OneAgent
<1>1. LockInv => OneAgent
  BY DEF LockInv, OneAgent
<1> QED
  BY <1>1, LockInvariant, PTL

\* The steps at which getOrSetInstanceID has decided to write the file.
Identifying == {"idOpen", "idWrite"}

\* Only these three steps decide to write the file of the identifier, or do.
LEMMA IdentitySteps3 ==
    ASSUME MachineTypeOK, [Next]_vars
    PROVE  \/ \E p \in Procs : IdentityMade(p) \/ IdentityOpened(p) \/ IdentityWritten(p)
           \/ /\ UNCHANGED idFile
              /\ \A p \in Procs : pc'[p] \in Identifying => pc[p] \in Identifying
<1> USE DEF Identifying
<1> DEFINE Goal == /\ UNCHANGED idFile
                   /\ \A p \in Procs : pc'[p] \in Identifying => pc[p] \in Identifying
<1>0. /\ pc \in [Procs -> Places] /\ cmd \in [Procs -> {"none"} \cup DOMAIN FirstStep]
      /\ \A p \in Procs : pc[p] \in WriteSteps => after[p] \notin Identifying
  BY DEF MachineTypeOK, TypeOK, StepsInv, StepsAfter
<1>1. ASSUME NEW p \in Procs, NEW from, Exits(p, from) \/ Killed(p)
      PROVE  Goal
  BY <1>0, <1>1 DEF Exits, Killed, Ends
<1>2. ASSUME NEW p \in Procs, NEW c \in DOMAIN FirstStep, Begins(p, c)
      PROVE  Goal
  BY <1>0, <1>2 DEF Begins, Goes, FirstStep
<1>3. ASSUME NEW p \in Procs, NEW to, to \notin Identifying, pc' = [pc EXCEPT ![p] = to], UNCHANGED idFile
      PROVE  Goal
  BY <1>0, <1>3
<1> HIDE DEF Goal
<1>4. ASSUME NEW p \in Procs, Configures(p)
      PROVE  Goal
  <2>1. CASE LoadFails(p) \/ WriteFails(p) \/ Exits(p, "tested")
    BY <2>1, <1>1 DEF LoadFails, WriteFails
  <2>2. CASE Loads(p) \/ LoadCreates(p)
    BY <2>2, <1>3 DEF Loads, LoadCreates, Writes, Goes, AfterLoad
  <2>3. CASE WriteOpens(p) \/ WriteEncodes(p) \/ EncodeFails(p) \/ WriteTruncates(p)
    BY <1>0, <2>3, <1>3 DEF WriteOpens, WriteEncodes, EncodeFails, WriteTruncates, FileStep, Goes,
                            WriteSteps
  <2> QED
    BY <1>4, <2>1, <2>2, <2>3 DEF Configures
<1>5. ASSUME NEW p \in Procs, Runs(p)
      PROVE  Goal \/ IdentityMade(p) \/ IdentityOpened(p) \/ IdentityWritten(p)
  <2>1. CASE LockTimesOut(p) \/ Returns(p)
    BY <2>1, <1>1 DEF LockTimesOut, Returns
  <2>2. CASE LockFile(p)
    BY <1>3, <2>2 DEF LockFile, Goes
  <2>3. CASE ClientCreated(p) \/ SchedulerStarts(p) \/ IdentityNotWritten(p)
    BY <2>3, <1>3 DEF ClientCreated, SchedulerStarts, IdentityNotWritten, Moves, Goes
  <2>4. CASE IdentityRead(p) \/ IdentityUnread(p)
    BY <2>4, <1>3 DEF IdentityRead, IdentityUnread, Identified, Goes
  <2>5. CASE ClientFails(p) \/ SchedulerFails(p)
    BY <2>5, <1>3 DEF ClientFails, SchedulerFails, Unlocks, Goes
  <2> QED
    BY <1>5, <2>1, <2>2, <2>3, <2>4, <2>5 DEF Runs
<1>6. ASSUME NEW p \in Procs, Asks(p)
      PROVE  Goal
  <2>1. CASE InitEnds(p) \/ Exits(p, "key")
    BY <2>1, <1>1 DEF InitEnds
  <2>2. CASE InitAddress(p) \/ InitKey(p)
    BY <2>2, <1>3 DEF InitAddress, InitKey, Answers, Goes
  <2>3. CASE CodeAccepted(p) \/ CodeLost(p) \/ InitConfirmed(p) \/ Moves(p, "key", "code")
    BY <2>3, <1>3 DEF CodeAccepted, Saves, CodeLost, InitConfirmed, Writes, Moves, Goes
  <2> QED
    BY <1>6, <2>1, <2>2, <2>3 DEF Asks, InitWantsCode
<1>7. ASSUME NEW p \in Shells, InstallService(p)
      PROVE  Goal
  <2>0. p \in Procs /\ Service \in Procs
    BY DEF Procs
  <2>1. CASE StopService(p)
    BY <1>0, <2>0, <2>1 DEF StopService, Ends, Goal
  <2>2. CASE MoveExecutable(p) \/ ExecutableMoved(p) \/ CreateServiceFile(p) \/ ReloadDaemon(p)
    BY <2>0, <2>2, <1>3 DEF MoveExecutable, ExecutableMoved, CreateServiceFile, ReloadDaemon, Installs, Goes
  <2>3. CASE InstallEnds(p)
    BY <2>0, <2>3, <1>1 DEF InstallEnds
  <2> QED
    BY <1>7, <2>1, <2>2, <2>3 DEF InstallService
<1>8. CASE SystemdStarts \/ OperatorStarts
  BY <1>8, <1>2 DEF SystemdStarts, OperatorStarts, Procs, FirstStep, Goal
<1>9. ASSUME NEW p \in Shells, NEW c \in DOMAIN FirstStep, Launch(p, c)
      PROVE  Goal
  BY <1>9, <1>2 DEF Launch, Procs
<1>10. ASSUME NEW p \in Procs, Interrupted(p) \/ Killed(p)
       PROVE  Goal
  BY <1>10, <1>1, <1>3 DEF Interrupted, Unlocks, Goes
<1>11. CASE UNCHANGED vars
  BY <1>11 DEF vars, Goal
<1> QED
  BY <1>4, <1>5, <1>6, <1>7, <1>8, <1>9, <1>10, <1>11 DEF Next, Procs, Goal

\* An identifier is never written over another.
IdentityInv == \A p \in Procs : pc[p] \in Identifying => idFile.status # "whole"

\* Two processes do not write the identifier at once: both would hold the lock.
LEMMA OneIdentifies ==
    ASSUME MachineTypeOK, LockInv, NEW p \in Procs, NEW q \in Procs,
           pc[p] \in Identifying \cup {"identity"}, pc[q] \in Identifying \cup {"identity"}
    PROVE  p = q
<1>1. ASSUME NEW r \in Procs, pc[r] \in Identifying \cup {"identity"}
      PROVE  lock = r
  BY <1>1 DEF MachineTypeOK, TypeOK, StepsInv, LockInv, InAction, Identifying, StepsOf, WriteSteps, FirstStep
<1> QED
  BY <1>1

\* Only the owner of the lock writes an identifier, and it has seen that there is
\* none.
LEMMA StepIdentityInv ==
    ASSUME MachineTypeOK, LockInv, IdentityInv, [Next]_vars
    PROVE  IdentityInv'
<1>0. pc \in [Procs -> Places]
  BY DEF MachineTypeOK, TypeOK
<1>1. ASSUME NEW p \in Procs, IdentityMade(p)
      PROVE  IdentityInv'
  BY <1>0, <1>1 DEF IdentityInv, IdentityMade, Identified, Goes, Parses
<1>2. ASSUME NEW p \in Procs, IdentityOpened(p)
      PROVE  IdentityInv'
  BY <1>2 DEF IdentityInv, IdentityOpened, IdentityWrites
<1>3. ASSUME NEW p \in Procs, IdentityWritten(p)
      PROVE  IdentityInv'
  <2>1. pc[p] = "idWrite" /\ pc' = [pc EXCEPT ![p] = "start"]
    BY <1>3 DEF IdentityWritten, IdentityWrites, Goes
  <2>2. \A q \in Procs : pc'[q] \notin Identifying
    BY <1>0, <2>1, OneIdentifies DEF Identifying
  <2> QED
    BY <2>2 DEF IdentityInv
<1> QED
  BY <1>1, <1>2, <1>3, IdentitySteps3 DEF IdentityInv

\* The identifier, with the lock it rests on.
LEMMA IdentityInvariant == Spec => [](MachineTypeOK /\ LockInv /\ IdentityInv)
<1>1. Init => IdentityInv
  BY DEF Init, IdentityInv, Identifying
<1> QED
  BY <1>1, LockInvariant, StepIdentityInv, PTL DEF Spec

\* The identifier in the file stays (getOrSetInstanceID in scheduler.go).
THEOREM IdentityKeptHolds == Spec => IdentityKept
<1>1. ASSUME MachineTypeOK, LockInv, IdentityInv, [Next]_vars
      PROVE  [idFile.status = "whole" => idFile' = idFile]_idFile
  <2>1. ASSUME NEW p \in Procs, IdentityMade(p)
        PROVE  UNCHANGED idFile
    BY <2>1 DEF IdentityMade, Identified
  <2>2. ASSUME NEW p \in Procs, IdentityOpened(p) \/ IdentityWritten(p)
        PROVE  idFile.status # "whole"
    BY <1>1, <2>2 DEF IdentityOpened, IdentityWritten, IdentityWrites, Goes, IdentityInv,
                      Identifying
  <2> QED
    BY <1>1, <2>1, <2>2, IdentitySteps3
<1> QED
  BY <1>1, IdentityInvariant, PTL DEF Spec, IdentityKept

-----------------------------------------------------------------------------
(* The configuration *)

\* Only Write changes the configuration file.
LEMMA OnlyWriteChanges ==
    ASSUME [Next]_vars
    PROVE  \/ \E p \in Procs : WriteOpens(p) \/ WriteEncodes(p) \/ EncodeFails(p) \/ WriteTruncates(p)
           \/ UNCHANGED <<file, newest, damaged>>
<1> USE DEF configuration
<1>1. ASSUME NEW p \in Procs, NEW from, Exits(p, from) \/ Killed(p)
      PROVE  UNCHANGED configuration
  BY <1>1 DEF Exits, Killed, Ends
<1>2. ASSUME NEW p \in Procs, Runs(p)
      PROVE  UNCHANGED configuration
  <2>1. CASE LockTimesOut(p) \/ Returns(p)
    BY <1>1, <2>1 DEF LockTimesOut, Returns
  <2> QED
    BY <1>2, <2>1 DEF Runs, LockFile, ClientCreated, ClientFails, SchedulerFails, Unlocks, IdentityRead, IdentityMade, IdentityUnread,
                      IdentityOpened, IdentityWritten, IdentityNotWritten, SchedulerStarts, Moves,
                      Identified, IdentityWrites
<1>3. ASSUME NEW p \in Procs, Asks(p)
      PROVE  UNCHANGED configuration
  <2>1. CASE InitEnds(p) \/ Exits(p, "key")
    BY <1>1, <2>1 DEF InitEnds
  <2> QED
    BY <1>3, <2>1 DEF Asks, InitAddress, InitKey, InitWantsCode, CodeAccepted, CodeLost,
                      InitConfirmed, Answers, Saves, Writes, Moves
<1>4. ASSUME NEW p \in Procs, InstallService(p)
      PROVE  UNCHANGED configuration
  <2>1. CASE InstallEnds(p)
    BY <1>1, <2>1 DEF InstallEnds
  <2> QED
    BY <1>4, <2>1 DEF InstallService, StopService, Ends, MoveExecutable, ExecutableMoved,
                      CreateServiceFile, ReloadDaemon, Installs
<1>5. ASSUME NEW p \in Procs, Loads(p) \/ LoadCreates(p) \/ LoadFails(p) \/ WriteFails(p)
                              \/ Exits(p, "tested")
      PROVE  UNCHANGED configuration
  BY <1>1, <1>5 DEF Loads, LoadCreates, Writes, LoadFails, WriteFails
<1>6. CASE \/ SystemdStarts \/ OperatorStarts
           \/ \E p \in Shells, c \in DOMAIN FirstStep : Launch(p, c)
  BY <1>6 DEF SystemdStarts, OperatorStarts, Launch, Begins
<1>7. ASSUME NEW p \in Procs, Interrupted(p) \/ Killed(p)
      PROVE  UNCHANGED configuration
  BY <1>1, <1>7 DEF Interrupted, Unlocks
<1>8. CASE UNCHANGED vars
  BY <1>8 DEF vars
<1> QED
  BY <1>2, <1>3, <1>4, <1>5, <1>6, <1>7, <1>8 DEF Next, Configures, Procs

\* Whoever has spent a code writes the configuration before it is asked anything
\* else, and has the file to itself unless another process has encoded into it
\* since, or a write was damaged.
KeyInv ==
    \A p \in Procs : coded[p] =>
        /\ pc[p] \in WriteSteps \cup {"confirm", "saved"}
        /\ pc[p] \in WriteSteps => after[p] \in {"confirm", "saved"}
        /\ pc[p] \in {"truncate", "confirm"} =>
              newest # NoProcess /\ (newest = p /\ ~damaged => file = Whole(appConfig[p]))

\* A step of one process leaves what another has encoded, or is newer.
LEMMA OthersKeepTheFile ==
    ASSUME MachineTypeOK, [Next]_vars, NEW p \in Procs, newest = p, newest' = p, ~damaged',
           file = Whole(appConfig[p]), ~WriteEncodes(p), ~EncodeFails(p)
    PROVE  ~damaged => file' = file
<1>1. ASSUME NEW q \in Procs, WriteEncodes(q) \/ EncodeFails(q)
      PROVE  FALSE
  BY <1>1 DEF WriteEncodes, EncodeFails
<1>2. ASSUME NEW q \in Procs, WriteOpens(q) \/ WriteTruncates(q)
      PROVE  file' = file
  BY <1>2 DEF WriteOpens, WriteTruncates, Opened, Whole
<1> QED
  BY <1>1, <1>2, OnlyWriteChanges

\* The steps of a process that has spent a code.
LEMMA CodedSteps ==
    ASSUME MachineTypeOK, KeyInv, [Next]_vars, NEW q \in Procs, coded'[q]
    PROVE  \/ CodeAccepted(q) \/ InitConfirmed(q)
           \/ WriteOpens(q) \/ WriteEncodes(q) \/ EncodeFails(q) \/ WriteTruncates(q)
           \/ /\ coded[q] /\ pc'[q] = pc[q]
              /\ after'[q] = after[q] /\ appConfig'[q] = appConfig[q]
<1> DEFINE Same == coded[q] /\ pc'[q] = pc[q] /\ after'[q] = after[q] /\ appConfig'[q] = appConfig[q]
<1>0. /\ pc \in [Procs -> Places] /\ after \in [Procs -> {"off", "check", "address", "confirm", "saved"}]
      /\ appConfig \in [Procs -> AppConfigs] /\ coded \in [Procs -> BOOLEAN]
      /\ coded[q] => pc[q] \in WriteSteps \cup {"confirm", "saved"}
  BY DEF MachineTypeOK, TypeOK, KeyInv
<1>1. ASSUME NEW p \in Procs, NEW from, Exits(p, from) \/ Killed(p)
      PROVE  Same
  BY <1>0, <1>1 DEF Exits, Killed, Ends
<1>2. ASSUME NEW p \in Procs, NEW c, Begins(p, c)
      PROVE  Same
  BY <1>0, <1>2 DEF Begins, Goes, WriteSteps
<1>3. ASSUME NEW p \in Procs, NEW from, NEW to, Goes(p, from, to),
             from \notin WriteSteps \cup {"confirm", "saved"}, UNCHANGED coded,
             \A r \in Procs \ {p} : after'[r] = after[r] /\ appConfig'[r] = appConfig[r]
      PROVE  Same
  BY <1>0, <1>3 DEF Goes
<1>4. ASSUME NEW p \in Procs, p # q, NEW from, NEW to, Goes(p, from, to), coded'[q] = coded[q],
             \A r \in Procs \ {p} : after'[r] = after[r] /\ appConfig'[r] = appConfig[r]
      PROVE  Same
  BY <1>0, <1>4 DEF Goes
<1> HIDE DEF Same
<1>5. ASSUME NEW p \in Procs, Configures(p)
      PROVE  Same \/ WriteOpens(q) \/ WriteEncodes(q) \/ EncodeFails(q) \/ WriteTruncates(q)
  <2>1. CASE LoadFails(p) \/ WriteFails(p) \/ Exits(p, "tested")
    BY <2>1, <1>1 DEF LoadFails, WriteFails
  <2>2. CASE Loads(p)
    BY <1>0, <2>2, <1>3 DEF Loads, WriteSteps
  <2>3. CASE LoadCreates(p)
    <3>1. Goes(p, "load", "open") /\ UNCHANGED <<coded, appConfig>>
      BY <2>3 DEF LoadCreates, Writes
    <3>2. \A r \in Procs \ {p} : after'[r] = after[r]
      BY <1>0, <2>3 DEF LoadCreates, Writes
    <3> QED
      BY <3>1, <3>2, <1>3 DEF WriteSteps
  <2>4. CASE /\ p # q
             /\ WriteOpens(p) \/ WriteEncodes(p) \/ EncodeFails(p) \/ WriteTruncates(p)
    <3>1. UNCHANGED <<coded, after, appConfig>> /\ \E from, to : Goes(p, from, to)
      BY <2>4 DEF WriteOpens, WriteEncodes, EncodeFails, WriteTruncates, FileStep, memory
    <3> QED
      BY <2>4, <3>1, <1>4
  <2> QED
    BY <1>5, <2>1, <2>2, <2>3, <2>4 DEF Configures
<1>6. ASSUME NEW p \in Procs, Runs(p)
      PROVE  Same
  <2>1. CASE LockTimesOut(p) \/ Returns(p)
    BY <2>1, <1>1 DEF LockTimesOut, Returns
  <2>2. CASE LockFile(p) \/ ClientCreated(p) \/ SchedulerStarts(p)
    BY <1>3, <2>2 DEF LockFile, ClientCreated, SchedulerStarts, Moves, memory, WriteSteps
  <2>3. CASE IdentityNotWritten(p)
    BY <1>3, <2>3 DEF IdentityNotWritten, Moves, memory, WriteSteps
  <2>4. CASE IdentityRead(p) \/ IdentityMade(p) \/ IdentityUnread(p)
    BY <1>3, <2>4 DEF IdentityRead, IdentityMade, IdentityUnread, Identified, WriteSteps
  <2>5. CASE IdentityOpened(p) \/ IdentityWritten(p)
    BY <1>3, <2>5 DEF IdentityOpened, IdentityWritten, IdentityWrites, memory, WriteSteps
  <2>6. CASE ClientFails(p) \/ SchedulerFails(p)
    BY <1>3, <2>6 DEF ClientFails, SchedulerFails, Unlocks, memory, WriteSteps
  <2> QED
    BY <1>6, <2>1, <2>2, <2>3, <2>4, <2>5, <2>6 DEF Runs
<1>7. ASSUME NEW p \in Procs, Asks(p)
      PROVE  Same \/ CodeAccepted(q) \/ InitConfirmed(q)
  <2>1. CASE InitEnds(p) \/ Exits(p, "key")
    BY <2>1, <1>1 DEF InitEnds
  <2>2. CASE InitAddress(p) \/ InitKey(p)
    <3>1. PICK config : \/ Answers(p, "address", "key", config)
                        \/ Answers(p, "key", "confirm", config)
      BY <2>2 DEF InitAddress, InitKey
    <3>2. \A r \in Procs \ {p} : after'[r] = after[r] /\ appConfig'[r] = appConfig[r]
      BY <1>0, <3>1 DEF Answers
    <3> QED
      BY <3>1, <3>2, <1>3 DEF Answers, WriteSteps
  <2>3. CASE CodeLost(p) \/ Moves(p, "key", "code")
    BY <2>3, <1>3 DEF CodeLost, Moves, memory, WriteSteps
  <2>4. CASE p # q /\ (CodeAccepted(p) \/ InitConfirmed(p))
    <3>1. PICK from, to : Goes(p, from, to)
      BY <2>4 DEF CodeAccepted, Saves, InitConfirmed, Writes
    <3>2. coded'[q] = coded[q]
          /\ \A r \in Procs \ {p} : after'[r] = after[r] /\ appConfig'[r] = appConfig[r]
      BY <1>0, <2>4 DEF CodeAccepted, Saves, InitConfirmed, Writes
    <3> QED
      BY <2>4, <3>1, <3>2, <1>4
  <2> QED
    BY <1>7, <2>1, <2>2, <2>3, <2>4 DEF Asks, InitWantsCode
<1>8. ASSUME NEW p \in Procs, InstallService(p)
      PROVE  Same
  <2>1. CASE StopService(p)
    BY <1>0, <2>1 DEF StopService, Ends, Same, WriteSteps, Procs
  <2>2. CASE MoveExecutable(p) \/ ExecutableMoved(p)
    BY <2>2, <1>3 DEF MoveExecutable, ExecutableMoved, Installs, memory, WriteSteps
  <2>3. CASE CreateServiceFile(p) \/ ReloadDaemon(p)
    BY <2>3, <1>3 DEF CreateServiceFile, ReloadDaemon, Installs, memory, WriteSteps
  <2>4. CASE InstallEnds(p)
    BY <2>4, <1>1 DEF InstallEnds
  <2> QED
    BY <1>8, <2>1, <2>2, <2>3, <2>4 DEF InstallService
<1>9. CASE SystemdStarts \/ OperatorStarts
  BY <1>9, <1>2 DEF SystemdStarts, OperatorStarts, Procs, memory, Same
<1>10. ASSUME NEW p \in Shells, NEW c \in DOMAIN FirstStep, Launch(p, c)
       PROVE  Same
  BY <1>10, <1>2 DEF Launch, Procs
<1>11. ASSUME NEW p \in Procs, Interrupted(p) \/ Killed(p)
       PROVE  Same
  BY <1>11, <1>1, <1>3 DEF Interrupted, Unlocks, memory, WriteSteps
<1>12. CASE UNCHANGED vars
  BY <1>12 DEF vars, memory, Same
<1> QED
  BY <1>5, <1>6, <1>7, <1>8, <1>9, <1>10, <1>11, <1>12 DEF Next, Procs, Same

\* Every step keeps the promise to whoever has spent a code: its own steps take
\* its configuration to the file, the steps of others only mark that they came
\* in between.
LEMMA StepKeyInv ==
    ASSUME MachineTypeOK, KeyInv, [Next]_vars
    PROVE  KeyInv'
<1> SUFFICES ASSUME NEW q \in Procs, coded'[q]
             PROVE  /\ pc'[q] \in WriteSteps \cup {"confirm", "saved"}
                    /\ pc'[q] \in WriteSteps => after'[q] \in {"confirm", "saved"}
                    /\ pc'[q] \in {"truncate", "confirm"} =>
                          /\ newest' # NoProcess
                          /\ newest' = q /\ ~damaged' => file' = Whole(appConfig'[q])
  BY DEF KeyInv, Whole
<1>0. /\ pc \in [Procs -> Places] /\ after \in [Procs -> {"off", "check", "address", "confirm", "saved"}]
      /\ coded \in [Procs -> BOOLEAN] /\ NoProcess \notin Procs
  BY MachineAssumption DEF MachineTypeOK, TypeOK, Procs
<1>1. CASE CodeAccepted(q) \/ InitConfirmed(q)
  BY <1>0, <1>1 DEF CodeAccepted, Saves, InitConfirmed, Writes, Goes, WriteSteps
<1>2. CASE WriteOpens(q)
  BY <1>0, <1>2 DEF WriteOpens, FileStep, Goes, memory, WriteSteps, KeyInv
<1>3. CASE WriteEncodes(q)
  BY <1>0, <1>3 DEF WriteEncodes, FileStep, Goes, memory, WriteSteps, KeyInv
<1>4. CASE EncodeFails(q)
  BY <1>0, <1>4 DEF EncodeFails, FileStep, Goes, memory, WriteSteps, KeyInv
<1>5. CASE WriteTruncates(q)
  BY <1>0, <1>5 DEF WriteTruncates, FileStep, Goes, memory, WriteSteps, KeyInv
<1>6. CASE /\ coded[q] /\ pc'[q] = pc[q]
           /\ after'[q] = after[q] /\ appConfig'[q] = appConfig[q]
  <2>1. /\ pc[q] \in WriteSteps \cup {"confirm", "saved"}
        /\ pc[q] \in WriteSteps => after[q] \in {"confirm", "saved"}
        /\ pc[q] \in {"truncate", "confirm"} =>
              newest # NoProcess /\ (newest = q /\ ~damaged => file = Whole(appConfig[q]))
    BY <1>6 DEF KeyInv
  <2>2. ~WriteEncodes(q) /\ ~EncodeFails(q)
    BY <1>0, <1>6, <2>1 DEF WriteEncodes, EncodeFails, FileStep, Goes, WriteSteps
  <2>3. \/ \E p \in Procs : newest' = p /\ (WriteEncodes(p) \/ EncodeFails(p))
        \/ newest' = newest
    BY OnlyWriteChanges DEF WriteOpens, WriteEncodes, EncodeFails, WriteTruncates
  <2>4. ~damaged' => ~damaged
    BY OnlyWriteChanges DEF WriteOpens, WriteEncodes, EncodeFails, WriteTruncates
  <2>5. newest # NoProcess => newest' # NoProcess
    BY <1>0, <2>3
  <2>6. newest' = q => newest = q
    BY <2>2, <2>3
  <2> QED
    BY <1>6, <2>1, <2>2, <2>4, <2>5, <2>6, OthersKeepTheFile
<1> QED
  BY <1>1, <1>2, <1>3, <1>4, <1>5, <1>6, CodedSteps

\* The key, with the types it rests on.
LEMMA KeyInvariant == Spec => [](MachineTypeOK /\ KeyInv)
<1>1. Init => KeyInv
  BY DEF Init, KeyInv
<1> QED
  BY <1>1, TypeInvariant, StepKeyInv, PTL DEF Spec

\* The key of a registration is in the file before init asks anything else
\* (startCRProcedure in app.go).
THEOREM KeySavedHolds == Spec => []KeySaved
<1>1. KeyInv => KeySaved
  BY DEF KeyInv, KeySaved
<1> QED
  BY <1>1, KeyInvariant, PTL
=============================================================================
