------------------------- MODULE TaskExecutionProofs -------------------------
(***************************************************************************)
(* What an execution guarantees for pipes and outputs of every size: what  *)
(* is left of the output when the sequence is finished, when the           *)
(* goroutines that share the OutputBuffer without its lock are safe, and   *)
(* that what is printed to a lone stream stays in order and complete.      *)
(***************************************************************************)
EXTENDS TaskExecution, SequenceTheorems, TLAPS

Flushers == {"flush"} \cup Streams

-----------------------------------------------------------------------------
(* Invariants *)

Records == [stream : Streams, chunks : Seq(Chunks)]
Labels == MainLabels \cup CopierLabels \cup FlushLabels

\* The mutex is held by who appends a record, and by Flush while its callback
\* is out; a record is in the hands of a FlushRecord only.
MutexInv ==
    /\ \A g \in Flushers : pc[g] = "append" => mut = g /\ body # NoRecord
    /\ pc["flush"] \in {"sending", "flushed", "orphaned"} => mut = "flush"
    /\ \A g \in Flushers : mut = g => pc[g] \in {"append", "sending", "flushed", "orphaned"}
    /\ body # NoRecord => \E g \in Flushers : pc[g] = "append"

\* flushLoop flushes a record only when Stop has told it to close, and Stop is
\* only called when the copiers are through.
ClosingInv ==
    /\ pc["main"] \in {"create", "stdin", "blocked", "start"} =>
           /\ \A g \in Flushers : pc[g] = "none"
           /\ records = <<>>
    /\ pc["main"] \in {"wait", "join", "stop"} =>
           ~closing /\ pc["flush"] \in {"select", "flush", "sending", "flushed", "orphaned"}
    /\ pc["main"] \in {"stop", "confirm"} => \A s \in Streams : pc[s] = "done"
    /\ pc["main"] = "confirm" => closing /\ pc["flush"] \notin {"none", "select", "done"}
    /\ pc["main"] \in {"finish", "done"} =>
           /\ pc["flush"] \in {"none", "done"}
           /\ \A s \in Streams : pc[s] \in {"none", "done"}
           /\ records = <<>>
    /\ pc["flush"] = "confirm" => records = <<>>
    /\ pc["main"] \in {"create", "stdin", "blocked", "start"} => ~closing

\* A stream that nothing was printed to has not woken its copier.
SilentInv ==
    \A s \in Streams : printed[s] = 0 => pipe[s] = <<>> /\ pc[s] \in {"none", "read", "done"}

\* A FlushRecord that nothing can overtake finds the type it has seen.
ChosenInv ==
    /\ pc["flush"] = "lock" => currentRecordType # "none"
    /\ \A s \in Streams : OnlyPrinted(s) /\ pc[s] = "lock" => currentRecordType # "none"

\* Nothing happens to the buffer of a lone stream between the two steps of a
\* Write.
GrownInv == \A s \in Streams : OnlyPrinted(s) /\ pc[s] = "store" => grown[s] = buffer[s]

-----------------------------------------------------------------------------
(* Type correctness *)

LabelsOf(g) ==
    IF g = "main" THEN MainLabels ELSE IF g = "flush" THEN FlushLabels ELSE CopierLabels

\* The goroutines, what the process printed, the buffer and its records, and
\* what is known outside.
PlacesTyped == pc \in [Goroutines -> Labels] /\ \A g \in Goroutines : pc[g] \in LabelsOf(g)
OutputTyped ==
    /\ process \in {"none", "running", "exited"}
    /\ printed \in [Streams -> 0 .. MaxChunks]
    /\ pipe \in [Streams -> Seq(Chunks)]
    /\ readEnd \in {"open", "closed"}
HeldTyped ==
    /\ held \in [Streams -> Seq(Chunks)]
    /\ buffer \in [Streams -> Seq(Chunks)]
    /\ grown \in [Streams -> Seq(Chunks)]
RecordsTyped ==
    /\ currentRecordType \in Streams \cup {"none"}
    /\ mut \in {"free", "flush"} \cup Streams
    /\ body \in Records \cup {NoRecord}
    /\ records \in Seq(Records)
FlushTyped == closing \in BOOLEAN /\ handed \in Seq(Records)
WorldTyped ==
    /\ sequence \in {"none", "inProgress", "finished"}
    /\ connected \in BOOLEAN
    /\ fault \in {"none", "nil sequence", "nil buffer", "buffer race"}

Typed == /\ PlacesTyped /\ OutputTyped /\ HeldTyped
         /\ RecordsTyped /\ FlushTyped /\ WorldTyped

\* What is typed this way is of the types the runs check.
LEMMA TypedIsTypeOK == Typed => TypeOK
<1> SUFFICES ASSUME Typed PROVE TypeOK
  OBVIOUS
<1>1. ASSUME NEW rs \in Seq(Records) PROVE IsRecords(rs)
  <2>1. \A i \in DOMAIN rs : rs[i] \in Records
    OBVIOUS
  <2> QED
    BY <2>1 DEF IsRecords, IsRecord, Records
<1>2. body = NoRecord \/ IsRecord(body)
  BY DEF Typed, RecordsTyped, IsRecord, Records
<1>3. IsRecords(records) /\ IsRecords(handed)
  BY <1>1 DEF Typed, RecordsTyped, FlushTyped
<1>4. pc["main"] \in MainLabels /\ pc["flush"] \in FlushLabels /\ \A s \in Streams : pc[s] \in CopierLabels
  BY DEF Typed, PlacesTyped, LabelsOf, Goroutines, Streams
<1>5. closing \in BOOLEAN
  BY DEF Typed, FlushTyped
<1>6. connected \in BOOLEAN
  BY DEF Typed, WorldTyped
<1>7. OutputTyped /\ HeldTyped
  BY DEF Typed
<1>8. /\ sequence \in {"none", "inProgress", "finished"}
      /\ fault \in {"none", "nil sequence", "nil buffer", "buffer race"}
      /\ currentRecordType \in Streams \cup {"none"}
      /\ mut \in {"free", "flush"} \cup Streams
  BY DEF Typed, WorldTyped, RecordsTyped
<1> QED
  BY <1>2, <1>3, <1>4, <1>5, <1>6, <1>7, <1>8 DEF TypeOK, OutputTyped, HeldTyped

\* A goroutine goes on, and the others stay where they are.
LEMMA Going ==
    ASSUME PlacesTyped, NEW g \in Goroutines, NEW l \in LabelsOf(g), Goto(g, l)
    PROVE  /\ PlacesTyped' /\ pc'[g] = l
           /\ \A h \in Goroutines \ {g} : pc'[h] = pc[h]
<1>1. l \in Labels
  BY DEF LabelsOf, Labels
<1> QED
  BY <1>1 DEF PlacesTyped, Goto

\* What a step leaves alone keeps its types.
LEMMA Kept ==
    /\ PlacesTyped /\ UNCHANGED pc => PlacesTyped'
    /\ OutputTyped /\ UNCHANGED processVars => OutputTyped'
    /\ HeldTyped /\ UNCHANGED <<held, buffer, grown>> => HeldTyped'
    /\ RecordsTyped /\ UNCHANGED <<currentRecordType, mut, body, records>> => RecordsTyped'
    /\ FlushTyped /\ UNCHANGED flushVars => FlushTyped'
    /\ WorldTyped /\ UNCHANGED <<sequence, connected, fault>> => WorldTyped'
  BY DEF PlacesTyped, OutputTyped, HeldTyped, RecordsTyped, FlushTyped, WorldTyped, processVars, flushVars

\* A goroutine that only goes on keeps the types and touches no data.
LEMMA Moving ==
    ASSUME Typed, NEW g \in Goroutines, NEW from, NEW l \in LabelsOf(g), Moves(g, from, l)
    PROVE  /\ Typed' /\ pc[g] = from /\ pc'[g] = l
           /\ \A h \in Goroutines \ {g} : pc'[h] = pc[h]
           /\ UNCHANGED <<data, fault>>
  BY Going, Kept DEF Typed, Moves, At, data, bufferVars

\* A panic or a race of the buffer keeps the types.
LEMMA Dying ==
    ASSUME Typed, NEW why \in {"nil buffer", "buffer race"}, Dies(why)
    PROVE  Typed'
<1>1. WorldTyped'
  BY DEF Dies, data, Typed, WorldTyped
<1> QED
  BY <1>1, Kept DEF Typed, Dies, data, bufferVars

\* executeTask, and what it starts.
LEMMA ExecuteTaskTyped ==
    ASSUME Typed, ExecuteTask
    PROVE  Typed'
<1> USE DEF Goroutines, LabelsOf
<1>t. PlacesTyped /\ OutputTyped /\ HeldTyped /\ RecordsTyped /\ FlushTyped /\ WorldTyped
  BY DEF Typed
<1>1. CASE SequenceCreated \/ Finish
  <2>1. PlacesTyped'
    BY <1>1, <1>t, Going DEF SequenceCreated, Finish, MainLabels
  <2>2. WorldTyped'
    BY <1>1, <1>t DEF SequenceCreated, Finish, WorldTyped
  <2> QED
    BY <1>1, <1>t, <2>1, <2>2, Kept DEF Typed, SequenceCreated, Finish, bufferVars
<1>2. CASE SequenceFails
  <2>1. WorldTyped'
    BY <1>2, <1>t DEF SequenceFails, WorldTyped
  <2> QED
    BY <1>2, <1>t, <2>1, Kept DEF Typed, SequenceFails, bufferVars
<1>3. CASE BodyWritten \/ BodyTooLong \/ PipeFails \/ CopiersJoined
  BY <1>3, Moving DEF BodyWritten, BodyTooLong, PipeFails, CopiersJoined, MainLabels
<1>4. CASE ProcessStarts \/ StartFails
  <2>1. PlacesTyped'
    BY <1>4, <1>t DEF ProcessStarts, StartFails, Started, PlacesTyped, Labels, MainLabels, CopierLabels,
                      FlushLabels, Streams
  <2>2. OutputTyped'
    BY <1>4, <1>t DEF ProcessStarts, StartFails, OutputTyped
  <2> QED
    BY <1>4, <1>t, <2>1, <2>2, Kept DEF Typed, ProcessStarts, StartFails, bufferVars
<1>5. CASE ProcessWaited
  <2>1. PlacesTyped'
    BY <1>5, <1>t, Going DEF ProcessWaited, MainLabels
  <2>2. OutputTyped'
    BY <1>5, <1>t DEF ProcessWaited, OutputTyped
  <2> QED
    BY <1>5, <1>t, <2>1, <2>2, Kept DEF Typed, ProcessWaited, bufferVars
<1>6. CASE StopSent
  <2>1. PlacesTyped'
    BY <1>6, <1>t DEF StopSent, PlacesTyped, Labels, MainLabels, CopierLabels, FlushLabels, Streams
  <2>2. FlushTyped'
    BY <1>6, <1>t DEF StopSent, FlushTyped
  <2> QED
    BY <1>6, <1>t, <2>1, <2>2, Kept DEF Typed, StopSent, bufferVars
<1>7. CASE StopConfirmed
  <2>1. PlacesTyped'
    BY <1>7, <1>t DEF StopConfirmed, PlacesTyped, Labels, MainLabels, CopierLabels, FlushLabels, Streams
  <2> QED
    BY <1>7, <1>t, <2>1, Kept DEF Typed, StopConfirmed, data, bufferVars
<1> QED
  BY <1>1, <1>2, <1>3, <1>4, <1>5, <1>6, <1>7 DEF ExecuteTask

\* The process, and the connection.
LEMMA EnvironmentTyped ==
    ASSUME Typed, Environment
    PROVE  Typed'
<1> USE DEF Goroutines, LabelsOf
<1>t. PlacesTyped /\ OutputTyped /\ HeldTyped /\ RecordsTyped /\ FlushTyped /\ WorldTyped
  BY DEF Typed
<1>1. ASSUME NEW s \in Streams, ProcessPrints(s)
      PROVE  Typed'
  <2>1. printed[s] + 1 \in 1 .. MaxChunks
    <3>1. printed["stdout"] \in 0 .. MaxChunks /\ printed["stderr"] \in 0 .. MaxChunks
      BY <1>t DEF OutputTyped, Streams
    <3>2. printed["stdout"] + printed["stderr"] < MaxChunks
      BY <1>1 DEF ProcessPrints
    <3>3. printed["stdout"] + 1 \in 1 .. MaxChunks /\ printed["stderr"] + 1 \in 1 .. MaxChunks
      BY <3>1, <3>2, TaskExecutionAssumption
    <3> QED
      BY <3>3 DEF Streams
  <2>2. printed' = [printed EXCEPT ![s] = printed[s] + 1]
        /\ pipe' = [pipe EXCEPT ![s] = Append(pipe[s], printed'[s])]
        /\ UNCHANGED <<process, readEnd>>
    BY <1>1 DEF ProcessPrints
  <2>3. printed' \in [Streams -> 0 .. MaxChunks] /\ printed'[s] = printed[s] + 1
    <3>1. printed[s] + 1 \in 0 .. MaxChunks
      BY <2>1
    <3> QED
      BY <1>t, <2>2, <3>1 DEF OutputTyped
  <2>4. Append(pipe[s], printed'[s]) \in Seq(Chunks)
    BY <1>t, <2>1, <2>3 DEF OutputTyped, Chunks
  <2>5. OutputTyped'
    BY <1>t, <2>2, <2>3, <2>4 DEF OutputTyped
  <2> QED
    BY <1>1, <1>t, <2>5, Kept DEF Typed, ProcessPrints, bufferVars
<1>2. CASE ProcessExits
  <2>1. OutputTyped'
    BY <1>2, <1>t DEF ProcessExits, OutputTyped
  <2> QED
    BY <1>2, <1>t, <2>1, Kept DEF Typed, ProcessExits, bufferVars
<1>3. CASE ConnectionLost \/ Reconnected
  <2>1. PlacesTyped'
    BY <1>3, <1>t DEF ConnectionLost, Reconnected, PlacesTyped, Labels, FlushLabels, Streams
  <2>2. WorldTyped'
    BY <1>3, <1>t DEF ConnectionLost, Reconnected, WorldTyped
  <2> QED
    BY <1>3, <1>t, <2>1, <2>2, Kept DEF Typed, ConnectionLost, Reconnected, bufferVars
<1> QED
  BY <1>1, <1>2, <1>3 DEF Environment

\* FlushRecord, by whoever calls it.
LEMMA FlushRecordTyped ==
    ASSUME Typed, MutexInv, NEW g \in Flushers, FlushRecord(g)
    PROVE  Typed'
<1>g. g \in Goroutines
  BY DEF Flushers, Goroutines
<1>l. /\ "lock" \in LabelsOf(g) /\ "append" \in LabelsOf(g)
      /\ AfterFlushRecord(g) \in LabelsOf(g)
  BY DEF Flushers, LabelsOf, CopierLabels, FlushLabels, AfterFlushRecord, Streams
<1>t. PlacesTyped /\ OutputTyped /\ HeldTyped /\ RecordsTyped /\ FlushTyped /\ WorldTyped
  BY DEF Typed
<1>1. CASE NothingToFlush(g) \/ RecordChosen(g)
  BY <1>1, <1>g, <1>l, Moving DEF NothingToFlush, RecordChosen
<1>2. CASE RecordIsGone(g)
  BY <1>2, Dying DEF RecordIsGone
<1>3. CASE RecordTaken(g)
  <2>1. PlacesTyped'
    BY <1>3, <1>g, <1>l, <1>t, Going DEF RecordTaken
  <2>2. RecordsTyped'
    <3>1. currentRecordType \in Streams /\ buffer[currentRecordType] \in Seq(Chunks)
      BY <1>3, <1>t DEF RecordTaken, RecordsTyped, HeldTyped
    <3>2. body' \in Records
      BY <1>3, <3>1 DEF RecordTaken, Records
    <3> QED
      BY <1>3, <1>t, <3>2 DEF RecordTaken, RecordsTyped, Flushers
  <2> QED
    BY <1>3, <1>t, <2>1, <2>2, Kept DEF Typed, RecordTaken
<1>4. CASE RecordAppended(g)
  <2>1. PlacesTyped'
    BY <1>4, <1>g, <1>l, <1>t, Going DEF RecordAppended
  <2>2. body \in Records
    BY <1>4, <1>t DEF RecordAppended, At, MutexInv, RecordsTyped
  <2>3. RecordsTyped'
    BY <1>4, <1>t, <2>2 DEF RecordAppended, MutOnceAppended, RecordsTyped
  <2>4. HeldTyped'
    <3>1. body.stream \in Streams
      BY <2>2 DEF Records
    <3> QED
      BY <1>4, <1>t, <3>1 DEF RecordAppended, HeldTyped
  <2> QED
    BY <1>4, <1>t, <2>1, <2>3, <2>4, Kept DEF Typed, RecordAppended
<1> QED
  BY <1>1, <1>2, <1>3, <1>4 DEF FlushRecord

\* io.Copy and Write.
LEMMA CopierTyped ==
    ASSUME Typed, MutexInv, NEW s \in Streams, Copier(s)
    PROVE  Typed'
<1>g. s \in Goroutines /\ s \in Flushers
  BY DEF Goroutines, Flushers
<1>l. LabelsOf(s) = CopierLabels
  BY DEF LabelsOf, Streams
<1>t. PlacesTyped /\ OutputTyped /\ HeldTyped /\ RecordsTyped /\ FlushTyped /\ WorldTyped
  BY DEF Typed
<1>1. CASE CopierReads(s)
  <2>1. PlacesTyped'
    BY <1>1, <1>g, <1>l, <1>t, Going DEF CopierReads, CopierLabels
  <2>2. Head(pipe[s]) \in Chunks /\ Tail(pipe[s]) \in Seq(Chunks)
    BY <1>1, <1>t DEF CopierReads, OutputTyped
  <2>3. OutputTyped'
    BY <1>1, <1>t, <2>2 DEF CopierReads, OutputTyped
  <2>4. HeldTyped'
    BY <1>1, <1>t, <2>2 DEF CopierReads, HeldTyped, bufferVars
  <2> QED
    BY <1>1, <1>t, <2>1, <2>3, <2>4, Kept DEF Typed, CopierReads, bufferVars
<1>2. CASE CopierEnds(s) \/ RecordGoesOn(s) \/ RecordIsFlushed(s)
  BY <1>2, <1>g, <1>l, Moving DEF CopierEnds, RecordGoesOn, RecordIsFlushed, CopierLabels
<1>3. CASE TypeSet(s)
  <2>1. PlacesTyped'
    BY <1>3, <1>g, <1>l, <1>t, Going DEF TypeSet, CopierLabels
  <2>2. RecordsTyped'
    BY <1>3, <1>t DEF TypeSet, RecordsTyped
  <2> QED
    BY <1>3, <1>t, <2>1, <2>2, Kept DEF Typed, TypeSet
<1>4. CASE LengthTaken(s) \/ ChunkWritten(s)
  <2>1. PlacesTyped'
    BY <1>4, <1>g, <1>l, <1>t, Going DEF LengthTaken, ChunkWritten, CopierLabels
  <2>2. HeldTyped'
    <3>1. grown[s] \o held[s] \in Seq(Chunks) /\ <<>> \in Seq(Chunks) /\ buffer[s] \in Seq(Chunks)
      BY <1>t DEF HeldTyped
    <3> QED
      BY <1>4, <1>t, <3>1 DEF LengthTaken, ChunkWritten, HeldTyped
  <2> QED
    BY <1>4, <1>t, <2>1, <2>2, Kept DEF Typed, LengthTaken, ChunkWritten
<1>5. CASE BufferRace(s)
  BY <1>5, Dying DEF BufferRace
<1>6. CASE FlushRecord(s)
  BY <1>6, <1>g, FlushRecordTyped
<1> QED
  BY <1>1, <1>2, <1>3, <1>4, <1>5, <1>6 DEF Copier

\* flushLoop and Flush.
LEMMA FlushLoopTyped ==
    ASSUME Typed, MutexInv, FlushLoop
    PROVE  Typed'
<1>g. "flush" \in Goroutines /\ "flush" \in Flushers /\ LabelsOf("flush") = FlushLabels
  BY DEF Goroutines, Flushers, LabelsOf
<1>l. AfterFlush \in FlushLabels
  BY DEF AfterFlush, FlushLabels
<1>t. PlacesTyped /\ OutputTyped /\ HeldTyped /\ RecordsTyped /\ FlushTyped /\ WorldTyped
  BY DEF Typed
<1>1. CASE Tick \/ LogsTaken
  BY <1>1, <1>g, Moving DEF Tick, LogsTaken, FlushLabels
<1>2. CASE FlushEmpty
  BY <1>2, <1>g, <1>l, Moving DEF FlushEmpty
<1>3. CASE FlushBegins
  <2>1. PlacesTyped'
    BY <1>3, <1>g, <1>t, Going DEF FlushBegins, FlushLabels
  <2>2. RecordsTyped' /\ FlushTyped'
    BY <1>3, <1>t DEF FlushBegins, FlushLocks, RecordsTyped, FlushTyped
  <2> QED
    BY <1>3, <1>t, <2>1, <2>2, Kept DEF Typed, FlushBegins
<1>4. CASE FlushEnds
  <2>1. PlacesTyped'
    BY <1>4, <1>g, <1>l, <1>t, Going DEF FlushEnds
  <2>2. RecordsTyped'
    BY <1>4, <1>t DEF FlushEnds, RecordsOnceFlushed, RecordsTyped
  <2> QED
    BY <1>4, <1>t, <2>1, <2>2, Kept DEF Typed, FlushEnds
<1>5. CASE FlushRecord("flush")
  BY <1>5, <1>g, FlushRecordTyped
<1> QED
  BY <1>1, <1>2, <1>3, <1>4, <1>5 DEF FlushLoop

\* Every step preserves the types.
LEMMA StepTyped == Typed /\ MutexInv /\ [Next]_vars => Typed'
<1> SUFFICES ASSUME Typed, MutexInv, [Next]_vars PROVE Typed'
  OBVIOUS
<1>1. CASE UNCHANGED vars
  BY <1>1, Kept DEF Typed, vars, data, bufferVars
<1> QED
  BY <1>1, ExecuteTaskTyped, CopierTyped, FlushLoopTyped, EnvironmentTyped DEF Next

\* The types hold before the sequence is created.
LEMMA InitTyped == Init => Typed
<1> SUFFICES ASSUME Init PROVE Typed
  OBVIOUS
<1>1. PlacesTyped
  BY DEF Init, PlacesTyped, LabelsOf, Labels, MainLabels, CopierLabels, FlushLabels, Goroutines, Streams
<1>2. OutputTyped /\ HeldTyped
  BY TaskExecutionAssumption DEF Init, OutputTyped, HeldTyped, Nothing
<1>3. RecordsTyped
  BY DEF Init, RecordsTyped
<1>4. FlushTyped
  <2>1. closing \in BOOLEAN
    BY DEF Init
  <2> QED
    BY <2>1 DEF Init, FlushTyped
<1>5. WorldTyped
  BY DEF Init, WorldTyped
<1> QED
  BY <1>1, <1>2, <1>3, <1>4, <1>5 DEF Typed

-----------------------------------------------------------------------------
(* The mutex of the buffer *)

Critical == {"append", "sending", "flushed", "orphaned"}

\* The steps that neither lock nor unlock.
Bystanding ==
    /\ UNCHANGED <<mut, body>>
    /\ \A g \in Flushers : pc[g] \in Critical \/ pc'[g] \in Critical => pc'[g] = pc[g]

\* What a step may do to the mutex and to the goroutines that may have it.
LEMMA MutexSteps ==
    Typed /\ ClosingInv /\ [Next]_vars =>
        \/ Bystanding
        \/ \E g \in Flushers : RecordTaken(g) \/ RecordAppended(g)
        \/ FlushBegins \/ FlushEnds \/ LogsTaken \/ ConnectionLost
<1> SUFFICES ASSUME Typed, ClosingInv, [Next]_vars
             PROVE  \/ Bystanding
                    \/ \E g \in Flushers : RecordTaken(g) \/ RecordAppended(g)
                    \/ FlushBegins \/ FlushEnds \/ LogsTaken \/ ConnectionLost
  OBVIOUS
<1> USE DEF data, bufferVars
<1>t. PlacesTyped
  BY DEF Typed
<1>f. Flushers = {"flush", "stdout", "stderr"} /\ Flushers \subseteq Goroutines /\ "main" \notin Flushers
      /\ "main" \in Goroutines
  BY DEF Flushers, Streams, Goroutines
<1>1. ASSUME NEW g \in Goroutines, NEW l, Goto(g, l), UNCHANGED <<mut, body>>,
             pc[g] \notin Critical, l \notin Critical
      PROVE  Bystanding
  BY <1>1, <1>t, <1>f DEF Goto, PlacesTyped, Bystanding
<1>2. ASSUME UNCHANGED <<pc, mut, body>>
      PROVE  Bystanding
  BY <1>2 DEF Bystanding
<1>3. CASE ExecuteTask
  <2>0. ASSUME NEW l, Goto("main", l), UNCHANGED <<mut, body>>
        PROVE  Bystanding
    BY <2>0, <1>t, <1>f DEF Goto, PlacesTyped, Bystanding
  <2>1. CASE SequenceCreated \/ Finish \/ ProcessWaited
    BY <2>0, <2>1 DEF SequenceCreated, Finish, ProcessWaited
  <2>2. CASE SequenceFails
    BY <1>2, <2>2 DEF SequenceFails
  <2>3. CASE BodyWritten \/ BodyTooLong \/ PipeFails \/ CopiersJoined
    BY <2>0, <2>3 DEF BodyWritten, BodyTooLong, PipeFails, CopiersJoined, Moves
  <2>4. CASE ProcessStarts \/ StartFails
    <3>1. UNCHANGED <<mut, body>>
      BY <2>4 DEF ProcessStarts, StartFails
    <3>2. \A g \in Flushers : pc[g] = "none"
      BY <2>4 DEF ProcessStarts, StartFails, At, ClosingInv
    <3>3. \A g \in Flushers : pc'[g] \in {"read", "select"}
      BY <2>4, <1>t, <1>f DEF ProcessStarts, StartFails, Started, PlacesTyped
    <3> QED
      BY <3>1, <3>2, <3>3 DEF Bystanding, Critical
  <2>5. CASE StopSent
    BY <2>5, <1>t, <1>f DEF StopSent, At, PlacesTyped, Bystanding, Critical
  <2>6. CASE StopConfirmed
    BY <2>6, <1>t, <1>f DEF StopConfirmed, At, PlacesTyped, Bystanding, Critical
  <2> QED
    BY <1>3, <2>1, <2>2, <2>3, <2>4, <2>5, <2>6 DEF ExecuteTask
<1>4. ASSUME NEW g \in Flushers, FlushRecord(g), ~RecordTaken(g), ~RecordAppended(g)
      PROVE  Bystanding
  <2>1. g \in Goroutines /\ AfterFlushRecord(g) \notin Critical
    BY <1>f DEF AfterFlushRecord, Critical
  <2>2. CASE NothingToFlush(g)
    BY <1>1, <2>1, <2>2 DEF NothingToFlush, Moves, At, Critical
  <2>3. CASE RecordChosen(g)
    BY <1>1, <2>1, <2>3 DEF RecordChosen, Moves, At, Critical
  <2>4. CASE RecordIsGone(g)
    BY <1>2, <2>4 DEF RecordIsGone, Dies
  <2> QED
    BY <1>4, <2>2, <2>3, <2>4 DEF FlushRecord
<1>5. ASSUME NEW s \in Streams, Copier(s), ~FlushRecord(s)
      PROVE  Bystanding
  <2>1. s \in Goroutines
    BY DEF Goroutines
  <2>2. CASE CopierReads(s) \/ TypeSet(s) \/ LengthTaken(s) \/ ChunkWritten(s)
    BY <1>1, <2>1, <2>2 DEF CopierReads, TypeSet, LengthTaken, ChunkWritten, At, Critical
  <2>3. CASE CopierEnds(s) \/ RecordGoesOn(s) \/ RecordIsFlushed(s)
    BY <1>1, <2>1, <2>3 DEF CopierEnds, RecordGoesOn, RecordIsFlushed, Moves, At, Critical
  <2>4. CASE BufferRace(s)
    BY <1>2, <2>4 DEF BufferRace, Dies
  <2> QED
    BY <1>5, <2>2, <2>3, <2>4 DEF Copier
<1>6. CASE Tick \/ FlushEmpty
  <2>1. AfterFlush \notin Critical
    BY DEF AfterFlush, Critical
  <2> QED
    BY <1>1, <1>6, <1>f, <2>1 DEF Tick, FlushEmpty, Moves, At, Critical
<1>7. CASE \/ \E s \in Streams : ProcessPrints(s)
           \/ ProcessExits \/ Reconnected
  BY <1>2, <1>7 DEF ProcessPrints, ProcessExits, Reconnected
<1>8. CASE UNCHANGED vars
  BY <1>2, <1>8 DEF vars
<1>9. \A s \in Streams : s \in Flushers
  BY DEF Flushers
<1> QED
  BY <1>3, <1>4, <1>5, <1>6, <1>7, <1>8, <1>9, <1>f DEF Next, FlushLoop, Environment

\* Only who has locked the mutex appends, and Flush keeps it while its callback
\* is out.
LEMMA StepMutexInv == Typed /\ ClosingInv /\ MutexInv /\ [Next]_vars => MutexInv'
<1> SUFFICES ASSUME Typed, ClosingInv, MutexInv, [Next]_vars PROVE MutexInv'
  OBVIOUS
<1>t. PlacesTyped /\ RecordsTyped
  BY DEF Typed
<1>f. /\ Flushers = {"flush", "stdout", "stderr"} /\ Flushers \subseteq Goroutines
      /\ "flush" \in Flushers /\ "free" \notin Flushers
  BY DEF Flushers, Streams, Goroutines
<1>g. ASSUME NEW g \in Flushers, NEW l, Goto(g, l)
      PROVE  pc'[g] = l /\ \A h \in Flushers \ {g} : pc'[h] = pc[h]
  BY <1>g, <1>t, <1>f DEF Goto, PlacesTyped
<1>1. CASE Bystanding
  BY <1>1, <1>f DEF Bystanding, MutexInv, Critical
<1>2. ASSUME NEW g \in Flushers, RecordTaken(g)
      PROVE  MutexInv'
  <2>1. pc'[g] = "append" /\ \A h \in Flushers \ {g} : pc'[h] = pc[h]
    BY <1>2, <1>g DEF RecordTaken
  <2>2. mut = "free" /\ mut' = g /\ body' # NoRecord
    <3>1. body'.stream \in Streams
      BY <1>2, <1>t DEF RecordTaken, RecordsTyped
    <3>2. NoRecord.stream \notin Streams
      BY DEF NoRecord, Streams
    <3> QED
      BY <1>2, <3>1, <3>2 DEF RecordTaken
  <2>3. /\ \A h \in Flushers : pc[h] # "append"
        /\ pc["flush"] \notin {"sending", "flushed", "orphaned"}
    BY <2>2, <1>f DEF MutexInv
  <2> QED
    BY <2>1, <2>2, <2>3, <1>f DEF MutexInv
<1>3. ASSUME NEW g \in Flushers, RecordAppended(g)
      PROVE  MutexInv'
  <2>1. AfterFlushRecord(g) \in {"flush", "setType"}
    BY DEF AfterFlushRecord
  <2>2. pc[g] = "append" /\ pc'[g] \in {"flush", "setType"} /\ \A h \in Flushers \ {g} : pc'[h] = pc[h]
    BY <1>3, <1>g, <2>1 DEF RecordAppended, At
  <2>3. mut = g /\ mut' = "free" /\ body' = NoRecord
    BY <1>3, <2>2 DEF RecordAppended, MutOnceAppended, MutexInv
  <2>4. /\ \A h \in Flushers \ {g} : pc[h] # "append"
        /\ pc["flush"] \notin {"sending", "flushed", "orphaned"}
    BY <2>2, <2>3 DEF MutexInv
  <2> QED
    BY <2>2, <2>3, <2>4, <1>f DEF MutexInv
<1>4. CASE FlushBegins
  <2>1. /\ pc'["flush"] \in {"sending", "flushed"} /\ \A h \in Flushers \ {"flush"} : pc'[h] = pc[h]
        /\ mut = "free" /\ mut' = "flush" /\ body' = body
    BY <1>4, <1>g, <1>f DEF FlushBegins, FlushLocks
  <2>2. \A h \in Flushers : pc[h] # "append"
    BY <2>1, <1>f DEF MutexInv
  <2> QED
    BY <2>1, <2>2, <1>f DEF MutexInv
<1>5. CASE FlushEnds
  <2>1. AfterFlush \in {"confirm", "select"}
    BY DEF AfterFlush
  <2>2. /\ pc["flush"] = "flushed" /\ pc'["flush"] \in {"confirm", "select"}
        /\ \A h \in Flushers \ {"flush"} : pc'[h] = pc[h]
        /\ mut' = "free" /\ body' = body
    BY <1>5, <1>g, <1>f, <2>1 DEF FlushEnds, At
  <2>3. \A h \in Flushers : pc[h] # "append"
    BY <2>2, <1>f DEF MutexInv
  <2> QED
    BY <2>2, <2>3, <1>f DEF MutexInv
<1>6. CASE LogsTaken \/ ConnectionLost
  <2>1. /\ UNCHANGED <<mut, body>>
        /\ \/ pc["flush"] = "sending" /\ pc'["flush"] \in {"flushed", "orphaned"}
           \/ pc'["flush"] = pc["flush"]
        /\ \A h \in Flushers \ {"flush"} : pc'[h] = pc[h]
    <3>1. CASE LogsTaken
      BY <3>1, <1>g, <1>f DEF LogsTaken, Moves, At, data, bufferVars
    <3>2. CASE ConnectionLost
      BY <3>2, <1>t, <1>f DEF ConnectionLost, PlacesTyped, bufferVars
    <3> QED
      BY <1>6, <3>1, <3>2
  <2> QED
    BY <2>1, <1>f DEF MutexInv
<1> QED
  BY <1>1, <1>2, <1>3, <1>4, <1>5, <1>6, MutexSteps

-----------------------------------------------------------------------------
(* Stop against flushLoop *)

\* flushLoop closes after the copiers are through, and confirms with no records.
LEMMA StepClosingInv == Typed /\ ClosingInv /\ [Next]_vars => ClosingInv'
<1> SUFFICES ASSUME Typed, ClosingInv, [Next]_vars PROVE ClosingInv'
  OBVIOUS
<1> USE DEF data, bufferVars, flushVars, processVars
<1>t. PlacesTyped
  BY DEF Typed
<1>f. /\ Flushers = {"flush", "stdout", "stderr"} /\ Streams = {"stdout", "stderr"}
      /\ Goroutines = {"main", "flush", "stdout", "stderr"}
  BY DEF Flushers, Streams, Goroutines
<1>l. /\ pc["main"] \in {"create", "stdin", "blocked", "start", "wait", "join", "stop", "confirm",
                         "finish", "done"}
      /\ \A s \in Streams : pc[s] \in CopierLabels
  BY <1>t, <1>f DEF PlacesTyped, LabelsOf, MainLabels
<1>g. ASSUME NEW g \in Goroutines, NEW l, Goto(g, l)
      PROVE  pc'[g] = l /\ \A h \in Goroutines \ {g} : pc'[h] = pc[h]
  BY <1>g, <1>t DEF Goto, PlacesTyped
<1>1. CASE UNCHANGED <<pc, closing, records>>
  BY <1>1 DEF ClosingInv
<1>2. CASE ExecuteTask
  <2>1. CASE SequenceCreated
    BY <2>1, <1>g, <1>f DEF SequenceCreated, At, ClosingInv
  <2>2. CASE SequenceFails
    BY <2>2, <1>1 DEF SequenceFails
  <2>3. CASE BodyWritten \/ BodyTooLong
    BY <2>3, <1>g, <1>f DEF BodyWritten, BodyTooLong, Moves, At, ClosingInv
  <2>4. CASE PipeFails
    BY <2>4, <1>g, <1>f DEF PipeFails, Moves, At, ClosingInv
  <2>5. CASE ProcessStarts \/ StartFails
    <3>1. /\ pc["main"] = "start" /\ pc'["main"] \in {"wait", "join"} /\ pc'["flush"] = "select"
          /\ pc'["stdout"] = "read" /\ pc'["stderr"] = "read"
          /\ UNCHANGED <<closing, records>>
      BY <2>5, <1>t, <1>f DEF ProcessStarts, StartFails, Started, At, PlacesTyped
    <3> QED
      BY <3>1, <1>f DEF ClosingInv
  <2>6. CASE ProcessWaited
    BY <2>6, <1>g, <1>f DEF ProcessWaited, At, ClosingInv
  <2>7. CASE CopiersJoined
    BY <2>7, <1>g, <1>f DEF CopiersJoined, CopiersDone, Moves, At, ClosingInv
  <2>8. CASE StopSent
    <3>1. /\ pc["main"] = "stop" /\ pc'["main"] = "confirm" /\ pc'["flush"] = "flushRecord"
          /\ pc'["stdout"] = pc["stdout"] /\ pc'["stderr"] = pc["stderr"]
          /\ closing' = TRUE /\ records' = records
      BY <2>8, <1>t, <1>f DEF StopSent, At, PlacesTyped
    <3> QED
      BY <3>1, <1>f DEF ClosingInv
  <2>9. CASE StopConfirmed
    <3>1. /\ pc["main"] = "confirm" /\ pc["flush"] = "confirm" /\ pc'["main"] = "finish"
          /\ pc'["flush"] = "done" /\ pc'["stdout"] = pc["stdout"] /\ pc'["stderr"] = pc["stderr"]
          /\ UNCHANGED <<closing, records>>
      BY <2>9, <1>t, <1>f DEF StopConfirmed, At, PlacesTyped
    <3> QED
      BY <3>1, <1>f DEF ClosingInv
  <2>10. CASE Finish
    BY <2>10, <1>g, <1>f DEF Finish, At, ClosingInv
  <2> QED
    BY <1>2, <2>1, <2>2, <2>3, <2>4, <2>5, <2>6, <2>7, <2>8, <2>9, <2>10 DEF ExecuteTask
\* A copier that is not through goes on: then main waits for it.
<1>3. ASSUME NEW s \in Streams, pc[s] \notin {"none", "done"},
             \A h \in Goroutines \ {s} : pc'[h] = pc[h], closing' = closing,
             pc["flush"] # "confirm" => records' \in {records, Append(records, body)}
      PROVE  ClosingInv'
  <2>1. pc["main"] \in {"wait", "join"}
    BY <1>3, <1>l, <1>f DEF ClosingInv
  <2>2. pc["flush"] \in {"select", "flush", "sending", "flushed", "orphaned"} /\ ~closing
    BY <2>1 DEF ClosingInv
  <2>3. pc'["main"] = pc["main"] /\ pc'["flush"] = pc["flush"]
    BY <1>3, <1>f
  <2> QED
    BY <1>3, <2>1, <2>2, <2>3 DEF ClosingInv
<1>4. ASSUME NEW s \in Streams, Copier(s)
      PROVE  ClosingInv'
  <2>0. s \in Goroutines
    BY <1>f
  <2>1. CASE CopierReads(s) \/ TypeSet(s) \/ LengthTaken(s) \/ ChunkWritten(s)
    <3>1. pc[s] \notin {"none", "done"} /\ closing' = closing /\ records' = records
      BY <2>1 DEF CopierReads, TypeSet, LengthTaken, ChunkWritten, At
    <3>2. \A h \in Goroutines \ {s} : pc'[h] = pc[h]
      BY <2>0, <2>1, <1>g DEF CopierReads, TypeSet, LengthTaken, ChunkWritten
    <3> QED
      BY <3>1, <3>2, <1>3
  <2>2. CASE \E from, to : Moves(s, from, to) /\ from \notin {"none", "done"}
    <3>1. pc[s] \notin {"none", "done"} /\ closing' = closing /\ records' = records
      BY <2>2 DEF Moves, At
    <3>2. \A h \in Goroutines \ {s} : pc'[h] = pc[h]
      BY <2>0, <2>2, <1>g DEF Moves
    <3> QED
      BY <3>1, <3>2, <1>3
  <2>3. CopierEnds(s) \/ RecordGoesOn(s) \/ RecordIsFlushed(s) \/ NothingToFlush(s) \/ RecordChosen(s)
            => \E from, to : Moves(s, from, to) /\ from \notin {"none", "done"}
    BY DEF CopierEnds, RecordGoesOn, RecordIsFlushed, NothingToFlush, RecordChosen
  <2>4. CASE RecordTaken(s) \/ RecordAppended(s)
    <3>1. pc[s] \notin {"none", "done"} /\ closing' = closing /\ records' \in {records, Append(records, body)}
      BY <2>4 DEF RecordTaken, RecordAppended, At
    <3>2. \A h \in Goroutines \ {s} : pc'[h] = pc[h]
      BY <2>0, <2>4, <1>g DEF RecordTaken, RecordAppended
    <3> QED
      BY <3>1, <3>2, <1>3
  <2>5. CASE BufferRace(s) \/ RecordIsGone(s)
    BY <2>5, <1>1 DEF BufferRace, RecordIsGone, Dies
  <2> QED
    BY <1>4, <2>1, <2>2, <2>3, <2>4, <2>5 DEF Copier, FlushRecord
\* flushLoop goes on: it is there from the start of the process until it has
\* confirmed.
<1>5. ASSUME pc["flush"] \notin {"none", "done"}, closing' = closing,
             \A h \in Goroutines \ {"flush"} : pc'[h] = pc[h],
             ~closing => pc'["flush"] \in {"select", "flush", "sending", "flushed", "orphaned"},
             closing => pc'["flush"] \notin {"none", "select", "done"},
             pc'["flush"] = "confirm" => records' = <<>>
      PROVE  ClosingInv'
  <2>1. pc["main"] \in {"wait", "join", "stop", "confirm"}
    BY <1>5, <1>l, <1>f DEF ClosingInv
  <2>2. pc'["main"] = pc["main"] /\ pc'["stdout"] = pc["stdout"] /\ pc'["stderr"] = pc["stderr"]
    BY <1>5, <1>f
  <2> QED
    BY <1>5, <2>1, <2>2, <1>f DEF ClosingInv
<1>c. pc["flush"] \in {"flushRecord", "lock", "append"} => closing
  BY <1>l, <1>f DEF ClosingInv
<1>6. CASE FlushLoop
  <2>0. "flush" \in Goroutines
    BY <1>f
  <2>c. pc["flush"] = "select" => ~closing
    BY <1>l, <1>f DEF ClosingInv
  <2>1. CASE Tick \/ LogsTaken
    BY <2>0, <2>1, <2>c, <1>g, <1>5 DEF Tick, LogsTaken, Moves, At
  <2>2. CASE FlushEmpty
    BY <2>0, <2>2, <1>g, <1>5 DEF FlushEmpty, AfterFlush, Moves, At
  <2>3. CASE FlushBegins
    BY <2>0, <2>3, <1>g, <1>5 DEF FlushBegins, At
  <2>4. CASE FlushEnds
    BY <2>0, <2>4, <1>g, <1>5 DEF FlushEnds, RecordsOnceFlushed, AfterFlush, At
  <2>5. CASE NothingToFlush("flush") \/ RecordChosen("flush")
    BY <2>0, <2>5, <1>c, <1>g, <1>5 DEF NothingToFlush, RecordChosen, AfterFlushRecord, Moves, At
  <2>6. CASE RecordTaken("flush") \/ RecordAppended("flush")
    BY <2>0, <2>6, <1>c, <1>g, <1>5 DEF RecordTaken, RecordAppended, AfterFlushRecord, At
  <2>7. CASE RecordIsGone("flush")
    BY <2>7, <1>1 DEF RecordIsGone, Dies
  <2> QED
    BY <1>6, <2>1, <2>2, <2>3, <2>4, <2>5, <2>6, <2>7 DEF FlushLoop, FlushRecord
<1>7. CASE Environment
  <2>1. CASE (\E s \in Streams : ProcessPrints(s)) \/ ProcessExits \/ Reconnected
    BY <2>1, <1>1 DEF ProcessPrints, ProcessExits, Reconnected
  <2>2. CASE ConnectionLost
    <3>1. CASE pc["flush"] = "sending"
      <4>1. /\ pc'["flush"] = "orphaned" /\ \A h \in Goroutines \ {"flush"} : pc'[h] = pc[h]
            /\ closing' = closing
        BY <2>2, <3>1, <1>t, <1>f DEF ConnectionLost, PlacesTyped
      <4> QED
        BY <3>1, <4>1, <1>5
    <3>2. CASE pc["flush"] # "sending"
      BY <2>2, <3>2, <1>1 DEF ConnectionLost
    <3> QED
      BY <3>1, <3>2
  <2> QED
    BY <1>7, <2>1, <2>2 DEF Environment
<1>8. CASE UNCHANGED vars
  BY <1>1, <1>8 DEF vars
<1> QED
  BY <1>2, <1>4, <1>6, <1>7, <1>8 DEF Next

\* While flushLoop flushes a record the copiers are through.
LEMMA FlushLoopIsLast ==
    ASSUME Typed, ClosingInv, pc["flush"] \in {"flushRecord", "lock", "append"}
    PROVE  \A s \in Streams : pc[s] = "done"
<1>1. pc["main"] \in {"create", "stdin", "blocked", "start", "wait", "join", "stop", "confirm",
                     "finish", "done"}
  BY DEF Typed, PlacesTyped, LabelsOf, MainLabels, Goroutines
<1>2. pc["main"] = "confirm"
  BY <1>1 DEF ClosingInv, Flushers
<1> QED
  BY <1>2 DEF ClosingInv

\* Types, the mutex and the end of flushLoop, together.
LEMMA ExecutionInvariant == Spec => [](Typed /\ ClosingInv /\ MutexInv)
<1>1. Init => ClosingInv /\ MutexInv
  <2> SUFFICES ASSUME Init PROVE ClosingInv /\ MutexInv
    OBVIOUS
  <2>1. pc["main"] = "create" /\ (\A g \in Flushers : pc[g] = "none") /\ "flush" \in Flushers
    BY DEF Init, Goroutines, Flushers, Streams
  <2>2. mut \notin Flushers /\ body = NoRecord /\ records = <<>> /\ ~closing
    BY DEF Init, Flushers, Streams
  <2> QED
    BY <2>1, <2>2 DEF ClosingInv, MutexInv
<1> QED
  BY <1>1, InitTyped, StepTyped, StepClosingInv, StepMutexInv, PTL DEF Spec

\* The goroutines, the pipes, the buffer and its records keep their types.
THEOREM TypeCorrect == Spec => []TypeOK
  BY ExecutionInvariant, TypedIsTypeOK, PTL

\* The sequence is finished last: no record waits then, and no goroutine is left
\* that could send one (OutputBuffer.Stop, flushLoop, executeTask).
THEOREM NothingSentAfterFinishHolds == Spec => []NothingSentAfterFinish
<1>1. Typed /\ ClosingInv /\ MutexInv => NothingSentAfterFinish
  <2> SUFFICES ASSUME Typed, ClosingInv, MutexInv, pc["main"] \in {"finish", "done"}
               PROVE  records = <<>> /\ mut = "free" /\ pc["flush"] \in {"none", "done"}
    BY DEF NothingSentAfterFinish
  <2>1. /\ records = <<>> /\ pc["flush"] \in {"none", "done"}
        /\ \A s \in Streams : pc[s] \in {"none", "done"}
    BY DEF ClosingInv
  <2>2. mut \notin Flushers
    BY <2>1 DEF MutexInv, Flushers
  <2>3. mut \in {"free"} \cup Flushers
    BY DEF Typed, RecordsTyped, Flushers
  <2> QED
    BY <2>1, <2>2, <2>3
<1> QED
  BY <1>1, ExecutionInvariant, PTL

-----------------------------------------------------------------------------
(* A task that prints to one stream *)

\* A copier that has nothing to read stays at its pipe.
LEMMA StepSilentInv == Typed /\ ClosingInv /\ SilentInv /\ [Next]_vars =>
                           SilentInv' /\ \A s \in Streams : printed'[s] = 0 => printed[s] = 0
<1> SUFFICES ASSUME Typed, ClosingInv, SilentInv, [Next]_vars, NEW s \in Streams, printed'[s] = 0
             PROVE  pipe'[s] = <<>> /\ pc'[s] \in {"none", "read", "done"} /\ printed[s] = 0
  BY DEF SilentInv
<1> USE DEF data, bufferVars, flushVars, processVars
<1>t. PlacesTyped /\ OutputTyped
  BY DEF Typed
<1>f. /\ Flushers = {"flush", "stdout", "stderr"} /\ Streams = {"stdout", "stderr"}
      /\ Goroutines = {"main", "flush", "stdout", "stderr"}
  BY DEF Flushers, Streams, Goroutines
<1>i. printed[s] = 0 => pipe[s] = <<>> /\ pc[s] \in {"none", "read", "done"}
  BY DEF SilentInv
<1>1. ASSUME pc'[s] = pc[s], UNCHANGED <<pipe, printed>>
      PROVE  pipe'[s] = <<>> /\ pc'[s] \in {"none", "read", "done"} /\ printed[s] = 0
  BY <1>1, <1>i
<1>2. ASSUME NEW g \in Goroutines \ {s}, NEW l, Goto(g, l)
      PROVE  pc'[s] = pc[s]
  BY <1>2, <1>t, <1>f DEF Goto, PlacesTyped
<1>3. CASE ExecuteTask
  <2>1. CASE SequenceCreated \/ Finish \/ ProcessWaited
    BY <2>1, <1>1, <1>2, <1>f DEF SequenceCreated, Finish, ProcessWaited
  <2>2. CASE SequenceFails
    BY <2>2, <1>1 DEF SequenceFails
  <2>3. CASE BodyWritten \/ BodyTooLong \/ PipeFails \/ CopiersJoined
    BY <2>3, <1>1, <1>2, <1>f DEF BodyWritten, BodyTooLong, PipeFails, CopiersJoined, Moves
  <2>4. CASE ProcessStarts \/ StartFails
    <3>1. pc'[s] = "read" /\ UNCHANGED <<pipe, printed>>
      BY <2>4, <1>t, <1>f DEF ProcessStarts, StartFails, Started, PlacesTyped
    <3> QED
      BY <3>1, <1>i
  <2>5. CASE StopSent \/ StopConfirmed
    BY <2>5, <1>1, <1>t, <1>f DEF StopSent, StopConfirmed, PlacesTyped
  <2> QED
    BY <1>3, <2>1, <2>2, <2>3, <2>4, <2>5 DEF ExecuteTask
<1>4. ASSUME NEW g \in Flushers, FlushRecord(g)
      PROVE  pipe'[s] = <<>> /\ pc'[s] \in {"none", "read", "done"} /\ printed[s] = 0
  <2>1. UNCHANGED <<pipe, printed>>
    BY <1>4 DEF FlushRecord, NothingToFlush, RecordChosen, RecordTaken, RecordIsGone, RecordAppended,
                Moves, Dies
  <2>2. CASE g = s
    BY <1>4, <2>1, <2>2, <1>i
    DEF FlushRecord, NothingToFlush, RecordChosen, RecordTaken, RecordIsGone, RecordAppended, Moves, At
  <2>3. CASE g # s
    <3>1. pc' = pc \/ \E l : Goto(g, l)
      BY <1>4 DEF FlushRecord, NothingToFlush, RecordChosen, RecordTaken, RecordIsGone, RecordAppended,
                  Moves, Dies
    <3> QED
      BY <2>1, <2>3, <3>1, <1>1, <1>2, <1>f
  <2> QED
    BY <2>2, <2>3
<1>5. ASSUME NEW g \in Streams, Copier(g), ~FlushRecord(g)
      PROVE  pipe'[s] = <<>> /\ pc'[s] \in {"none", "read", "done"} /\ printed[s] = 0
  <2>1. CASE g = s
    <3>1. CASE CopierReads(g)
      BY <2>1, <3>1, <1>i DEF CopierReads
    <3>2. CASE CopierEnds(g)
      <4>1. pc'[s] = "done"
        BY <2>1, <3>2, <1>t, <1>f DEF CopierEnds, Moves, Goto, PlacesTyped
      <4> QED
        BY <3>2, <4>1, <1>i DEF CopierEnds, Moves
    <3>3. CASE RecordGoesOn(g) \/ RecordIsFlushed(g) \/ TypeSet(g) \/ LengthTaken(g) \/ ChunkWritten(g)
      BY <2>1, <3>3, <1>i DEF RecordGoesOn, RecordIsFlushed, TypeSet, LengthTaken, ChunkWritten, Moves, At
    <3>4. CASE BufferRace(g)
      BY <3>4, <1>1 DEF BufferRace, Dies
    <3> QED
      BY <1>5, <3>1, <3>2, <3>3, <3>4 DEF Copier
  <2>2. CASE g # s
    <3>1. pc' = pc \/ \E l : Goto(g, l)
      BY <1>5 DEF Copier, CopierReads, CopierEnds, RecordGoesOn, RecordIsFlushed, TypeSet, LengthTaken,
                  ChunkWritten, BufferRace, Moves, Dies
    <3>2. pipe'[s] = pipe[s] /\ printed' = printed
      BY <1>5, <2>2, <1>t
      DEF Copier, CopierReads, CopierEnds, RecordGoesOn, RecordIsFlushed, TypeSet, LengthTaken, ChunkWritten,
          BufferRace, Moves, Dies, OutputTyped
    <3>3. pc'[s] = pc[s]
      BY <2>2, <3>1, <1>2, <1>f
    <3> QED
      BY <3>2, <3>3, <1>i
  <2> QED
    BY <2>1, <2>2
<1>6. CASE Tick \/ LogsTaken \/ FlushEmpty \/ FlushBegins \/ FlushEnds
  BY <1>6, <1>1, <1>2, <1>f DEF Tick, LogsTaken, FlushEmpty, FlushBegins, FlushEnds, Moves
<1>7. CASE Environment
  <2>1. ASSUME NEW t \in Streams, ProcessPrints(t)
        PROVE  pipe'[s] = <<>> /\ pc'[s] \in {"none", "read", "done"} /\ printed[s] = 0
    <3>1. printed[s] \in Nat /\ printed[t] \in Nat
      BY <1>t DEF OutputTyped
    <3>2. s # t
      BY <2>1, <3>1, <1>t DEF ProcessPrints, OutputTyped
    <3> QED
      BY <2>1, <3>2, <1>t, <1>i DEF ProcessPrints, OutputTyped
  <2>2. CASE ProcessExits \/ Reconnected
    BY <2>2, <1>1 DEF ProcessExits, Reconnected
  <2>3. CASE ConnectionLost
    BY <2>3, <1>1, <1>t, <1>f DEF ConnectionLost, PlacesTyped
  <2> QED
    BY <1>7, <2>1, <2>2, <2>3 DEF Environment
<1>8. CASE UNCHANGED vars
  BY <1>1, <1>8 DEF vars
<1> QED
  BY <1>3, <1>4, <1>5, <1>6, <1>7, <1>8, <1>f DEF Next, FlushLoop, Copier

\* The steps that leave a goroutine at the lock to itself: only appending a
\* record takes the type away.
LEMMA LockSteps ==
    Typed /\ [Next]_vars =>
        \/ \E g \in Flushers : RecordAppended(g)
        \/ \A g \in Flushers : pc'[g] = "lock" =>
               \/ currentRecordType' # "none"
               \/ pc[g] = "lock" /\ currentRecordType' = currentRecordType
<1> SUFFICES ASSUME Typed, [Next]_vars, \A g \in Flushers : ~RecordAppended(g),
                    NEW h \in Flushers, pc'[h] = "lock", currentRecordType' = "none"
             PROVE  pc[h] = "lock" /\ currentRecordType' = currentRecordType
  OBVIOUS
<1> USE DEF data, bufferVars
<1>t. PlacesTyped
  BY DEF Typed
<1>f. /\ Flushers = {"flush", "stdout", "stderr"} /\ Streams = {"stdout", "stderr"}
      /\ Goroutines = {"main", "flush", "stdout", "stderr"}
  BY DEF Flushers, Streams, Goroutines
<1>1. ASSUME NEW g \in Goroutines, NEW l, Goto(g, l), l # "lock", currentRecordType' = currentRecordType
      PROVE  pc[h] = "lock" /\ currentRecordType' = currentRecordType
  BY <1>1, <1>t, <1>f DEF Goto, PlacesTyped
<1>2. ASSUME UNCHANGED <<pc, currentRecordType>>
      PROVE  pc[h] = "lock" /\ currentRecordType' = currentRecordType
  BY <1>2
<1>3. CASE ExecuteTask
  <2>1. CASE SequenceCreated \/ Finish \/ ProcessWaited
    BY <2>1, <1>1, <1>f DEF SequenceCreated, Finish, ProcessWaited
  <2>2. CASE SequenceFails
    BY <2>2, <1>2 DEF SequenceFails
  <2>3. CASE BodyWritten \/ BodyTooLong \/ PipeFails \/ CopiersJoined
    BY <2>3, <1>1, <1>f DEF BodyWritten, BodyTooLong, PipeFails, CopiersJoined, Moves
  <2>4. CASE ProcessStarts \/ StartFails
    BY <2>4, <1>t, <1>f DEF ProcessStarts, StartFails, Started, PlacesTyped
  <2>5. CASE StopSent \/ StopConfirmed
    BY <2>5, <1>t, <1>f DEF StopSent, StopConfirmed, PlacesTyped
  <2> QED
    BY <1>3, <2>1, <2>2, <2>3, <2>4, <2>5 DEF ExecuteTask
<1>4. ASSUME NEW g \in Flushers, FlushRecord(g)
      PROVE  pc[h] = "lock" /\ currentRecordType' = currentRecordType
  <2>0. g \in Goroutines /\ AfterFlushRecord(g) # "lock"
    BY <1>f DEF AfterFlushRecord
  <2>1. CASE NothingToFlush(g) \/ RecordTaken(g)
    BY <2>0, <2>1, <1>1 DEF NothingToFlush, RecordTaken, Moves
  <2>2. CASE RecordChosen(g)
    BY <2>2 DEF RecordChosen, Moves
  <2>3. CASE RecordIsGone(g)
    BY <2>3, <1>2 DEF RecordIsGone, Dies
  <2> QED
    BY <1>4, <2>1, <2>2, <2>3 DEF FlushRecord
<1>5. ASSUME NEW s \in Streams, Copier(s), ~FlushRecord(s)
      PROVE  pc[h] = "lock" /\ currentRecordType' = currentRecordType
  <2>0. s \in Goroutines /\ s # "none"
    BY <1>f
  <2>1. CASE CopierReads(s) \/ LengthTaken(s) \/ ChunkWritten(s)
    BY <2>0, <2>1, <1>1 DEF CopierReads, LengthTaken, ChunkWritten
  <2>2. CASE CopierEnds(s) \/ RecordGoesOn(s) \/ RecordIsFlushed(s)
    BY <2>0, <2>2, <1>1 DEF CopierEnds, RecordGoesOn, RecordIsFlushed, Moves
  <2>3. CASE TypeSet(s)
    BY <2>0, <2>3 DEF TypeSet
  <2>4. CASE BufferRace(s)
    BY <2>4, <1>2 DEF BufferRace, Dies
  <2> QED
    BY <1>5, <2>1, <2>2, <2>3, <2>4 DEF Copier
<1>6. CASE Tick \/ LogsTaken \/ FlushEmpty \/ FlushBegins \/ FlushEnds
  <2>1. AfterFlush # "lock"
    BY DEF AfterFlush
  <2> QED
    BY <1>6, <2>1, <1>1, <1>f DEF Tick, LogsTaken, FlushEmpty, FlushBegins, FlushEnds, Moves
<1>7. CASE Environment
  <2>1. CASE (\E s \in Streams : ProcessPrints(s)) \/ ProcessExits \/ Reconnected
    BY <2>1, <1>2 DEF ProcessPrints, ProcessExits, Reconnected
  <2>2. CASE ConnectionLost
    BY <2>2, <1>t, <1>f DEF ConnectionLost, PlacesTyped
  <2> QED
    BY <1>7, <2>1, <2>2 DEF Environment
<1>8. CASE UNCHANGED vars
  BY <1>2, <1>8 DEF vars
<1> QED
  BY <1>3, <1>4, <1>5, <1>6, <1>7, <1>8, <1>f DEF Next, FlushLoop, Copier

\* Who has seen a type to flush, and is alone with it, still finds it.
LEMMA StepChosenInv ==
    Typed /\ ClosingInv /\ SilentInv /\ ChosenInv /\ [Next]_vars => ChosenInv'
<1> SUFFICES ASSUME Typed, ClosingInv, SilentInv, ChosenInv, [Next]_vars PROVE ChosenInv'
  OBVIOUS
<1>f. /\ Flushers = {"flush", "stdout", "stderr"} /\ Streams = {"stdout", "stderr"}
      /\ Goroutines = {"main", "flush", "stdout", "stderr"}
  BY DEF Flushers, Streams, Goroutines
<1>o. \A s \in Streams : OnlyPrinted(s)' => OnlyPrinted(s)
  BY StepSilentInv DEF OnlyPrinted
<1>1. CASE \A g \in Flushers : pc'[g] = "lock" =>
               \/ currentRecordType' # "none"
               \/ pc[g] = "lock" /\ currentRecordType' = currentRecordType
  BY <1>1, <1>o, <1>f DEF ChosenInv
<1>2. ASSUME NEW g \in Flushers, RecordAppended(g)
      PROVE  ChosenInv'
  <2>1. /\ pc[g] = "append" /\ pc'[g] \in {"flush", "setType"}
        /\ \A h \in Flushers \ {g} : pc'[h] = pc[h]
    BY <1>2, <1>f DEF Typed, PlacesTyped, RecordAppended, At, Goto, AfterFlushRecord
  <2>2. CASE g = "flush"
    <3>1. \A s \in Streams : pc[s] = "done"
      BY <2>1, <2>2, FlushLoopIsLast
    <3> QED
      BY <2>1, <2>2, <3>1, <1>f DEF ChosenInv
  <2>3. CASE g \in Streams
    <3>1. pc["flush"] # "lock"
      BY <2>1, <2>3, FlushLoopIsLast
    <3>2. ASSUME NEW s \in Streams, OnlyPrinted(s)' PROVE pc'[s] # "lock"
      <4>1. CASE s = g
        BY <2>1, <4>1
      <4>2. CASE s # g
        <5>1. printed[g] = 0
          BY <2>3, <3>2, <4>2, <1>o DEF OnlyPrinted
        <5> QED
          BY <2>1, <2>3, <5>1 DEF SilentInv
      <4> QED
        BY <4>1, <4>2
    <3> QED
      BY <2>1, <2>3, <3>1, <3>2, <1>f DEF ChosenInv
  <2> QED
    BY <2>2, <2>3, <1>f
<1> QED
  BY <1>1, <1>2, LockSteps

\* A record of the only stream is flushed while nobody writes.
LEMMA OnlyWriterFlushes ==
    ASSUME Typed, ClosingInv, MutexInv, SilentInv, NEW s \in Streams, OnlyPrinted(s),
           body # NoRecord
    PROVE  pc[s] \notin {"write", "store"}
<1>1. PICK g \in Flushers : pc[g] = "append"
  BY DEF MutexInv
<1>2. CASE g = "flush"
  BY <1>1, <1>2, FlushLoopIsLast
<1>3. CASE g \in Streams
  <2>1. g = s
    BY <1>1, <1>3 DEF SilentInv, OnlyPrinted
  <2> QED
    BY <1>1, <2>1
<1> QED
  BY <1>2, <1>3 DEF Flushers

\* The steps that leave a copier between the two steps of its Write.
LEMMA StoreSteps ==
    ASSUME Typed, [Next]_vars, NEW s \in Streams, pc'[s] = "store"
    PROVE  \/ LengthTaken(s)
           \/ /\ pc[s] = "store"
              /\ \/ buffer'[s] = buffer[s] /\ grown'[s] = grown[s]
                 \/ \E g \in Flushers : RecordAppended(g)
<1> USE DEF data, bufferVars
<1> DEFINE Stays == pc[s] = "store" /\ buffer'[s] = buffer[s] /\ grown'[s] = grown[s]
<1>t. PlacesTyped /\ HeldTyped
  BY DEF Typed
<1>f. /\ Flushers = {"flush", "stdout", "stderr"} /\ Streams = {"stdout", "stderr"}
      /\ Goroutines = {"main", "flush", "stdout", "stderr"}
  BY DEF Flushers, Streams, Goroutines
<1>1. ASSUME NEW h \in Goroutines, NEW l, Goto(h, l), h # s \/ l # "store"
      PROVE  h # s /\ pc[s] = "store"
  BY <1>1, <1>t, <1>f DEF Goto, PlacesTyped
<1>2. CASE ExecuteTask
  <2>1. UNCHANGED <<buffer, grown>>
    BY <1>2 DEF ExecuteTask, SequenceCreated, SequenceFails, BodyWritten, BodyTooLong, PipeFails,
                ProcessStarts, StartFails, ProcessWaited, CopiersJoined, StopSent, StopConfirmed, Finish, Moves
  <2>2. CASE \E l : Goto("main", l)
    BY <2>1, <2>2, <1>1, <1>f
  <2>3. CASE SequenceFails
    BY <2>1, <2>3 DEF SequenceFails
  <2>4. CASE ProcessStarts \/ StartFails
    BY <2>4, <1>t, <1>f DEF ProcessStarts, StartFails, Started, PlacesTyped
  <2>5. CASE StopSent \/ StopConfirmed
    BY <2>1, <2>5, <1>t, <1>f DEF StopSent, StopConfirmed, PlacesTyped
  <2> QED
    BY <1>2, <2>2, <2>3, <2>4, <2>5 DEF ExecuteTask, SequenceCreated, Finish, ProcessWaited, BodyWritten,
       BodyTooLong, PipeFails, CopiersJoined, Moves
<1>3. ASSUME NEW g \in Flushers, FlushRecord(g) PROVE Stays \/ (pc[s] = "store" /\ RecordAppended(g))
  <2>0. g \in Goroutines /\ AfterFlushRecord(g) # "store"
    BY <1>f DEF AfterFlushRecord
  <2>1. CASE NothingToFlush(g) \/ RecordChosen(g) \/ RecordTaken(g)
    BY <2>0, <2>1, <1>1 DEF NothingToFlush, RecordChosen, RecordTaken, Moves
  <2>2. CASE RecordIsGone(g)
    BY <2>2 DEF RecordIsGone, Dies
  <2>3. CASE RecordAppended(g)
    BY <2>0, <2>3, <1>1 DEF RecordAppended
  <2> QED
    BY <1>3, <2>1, <2>2, <2>3 DEF FlushRecord
<1>4. ASSUME NEW t \in Streams, Copier(t), ~FlushRecord(t) PROVE LengthTaken(s) \/ Stays
  <2>0. t \in Goroutines
    BY <1>f
  <2>1. CASE CopierReads(t) \/ CopierEnds(t) \/ RecordGoesOn(t) \/ RecordIsFlushed(t) \/ TypeSet(t)
    BY <2>0, <2>1, <1>1 DEF CopierReads, CopierEnds, RecordGoesOn, RecordIsFlushed, TypeSet, Moves
  <2>2. CASE LengthTaken(t) \/ ChunkWritten(t)
    <3>1. CASE t = s
      BY <2>0, <2>2, <3>1, <1>1 DEF ChunkWritten
    <3>2. CASE t # s
      <4>1. pc[s] = "store"
        BY <2>0, <2>2, <3>2, <1>1 DEF LengthTaken, ChunkWritten
      <4> QED
        BY <4>1, <2>2, <3>2, <1>t DEF LengthTaken, ChunkWritten, HeldTyped
    <3> QED
      BY <3>1, <3>2
  <2>3. CASE BufferRace(t)
    BY <2>3 DEF BufferRace, Dies
  <2> QED
    BY <1>4, <2>1, <2>2, <2>3 DEF Copier
<1>5. CASE Tick \/ LogsTaken \/ FlushEmpty \/ FlushBegins \/ FlushEnds
  BY <1>5, <1>1, <1>f DEF Tick, LogsTaken, FlushEmpty, FlushBegins, FlushEnds, Moves
<1>6. CASE Environment
  <2>1. CASE (\E t \in Streams : ProcessPrints(t)) \/ ProcessExits \/ Reconnected
    BY <2>1 DEF ProcessPrints, ProcessExits, Reconnected
  <2>2. CASE ConnectionLost
    BY <2>2, <1>t, <1>f DEF ConnectionLost, PlacesTyped
  <2> QED
    BY <1>6, <2>1, <2>2 DEF Environment
<1>7. CASE UNCHANGED vars
  BY <1>7 DEF vars
<1> QED
  BY <1>2, <1>3, <1>4, <1>5, <1>6, <1>7, <1>f DEF Next, FlushLoop

\* No step comes between the two of a Write that could change its buffer.
LEMMA StepGrownInv ==
    Typed /\ ClosingInv /\ MutexInv /\ SilentInv /\ GrownInv /\ [Next]_vars => GrownInv'
<1> SUFFICES ASSUME Typed, ClosingInv, MutexInv, SilentInv, GrownInv, [Next]_vars,
                    NEW s \in Streams, OnlyPrinted(s)', pc'[s] = "store"
             PROVE  grown'[s] = buffer'[s]
  BY DEF GrownInv
<1>1. OnlyPrinted(s)
  BY StepSilentInv DEF OnlyPrinted
<1>2. CASE LengthTaken(s)
  BY <1>2 DEF LengthTaken, Typed, HeldTyped
<1>3. ASSUME NEW g \in Flushers, RecordAppended(g), pc[s] = "store" PROVE FALSE
  <2>1. body # NoRecord
    BY <1>3 DEF RecordAppended, At, MutexInv
  <2> QED
    BY <1>1, <1>3, <2>1, OnlyWriterFlushes
<1> QED
  BY <1>1, <1>2, <1>3, StoreSteps DEF GrownInv

\* The steps that take the agent down through its buffer are those of two
\* goroutines that meet there.
LEMMA StepOneStreamIsSafe ==
    Typed /\ ClosingInv /\ MutexInv /\ SilentInv /\ ChosenInv /\ GrownInv /\ OneStreamIsSafe /\ [Next]_vars
        => OneStreamIsSafe'
<1> SUFFICES ASSUME Typed, ClosingInv, MutexInv, SilentInv, ChosenInv, GrownInv, OneStreamIsSafe,
                    [Next]_vars, NEW s \in Streams, OnlyPrinted(s)'
             PROVE  fault' \notin {"nil buffer", "buffer race"}
  BY DEF OneStreamIsSafe
<1>f. Flushers = {"flush"} \cup Streams
  BY DEF Flushers
<1>1. OnlyPrinted(s) /\ fault \notin {"nil buffer", "buffer race"}
  BY StepSilentInv DEF OnlyPrinted, OneStreamIsSafe
<1>2. \A t \in Streams \ {s} : pc[t] \in {"none", "read", "done"}
  BY <1>1 DEF OnlyPrinted, SilentInv
<1>3. ASSUME NEW g \in Flushers PROVE ~RecordIsGone(g)
  BY <1>1, <1>2, <1>f DEF RecordIsGone, At, ChosenInv
<1>4. ASSUME NEW t \in Streams, BufferRace(t) PROVE FALSE
  <2>1. pc[t] = "store" /\ t = s
    BY <1>4, <1>2 DEF BufferRace, At
  <2>2. body.stream = s
    BY <1>4, <1>1, <2>1 DEF BufferRace, GrownInv
  <2>3. body # NoRecord
    BY <2>2 DEF NoRecord, Streams
  <2> QED
    BY <2>1, <2>3, <1>1, OnlyWriterFlushes
<1>5. fault' = fault \/ fault' = "nil sequence"
      \/ (\E g \in Flushers : RecordIsGone(g)) \/ \E t \in Streams : BufferRace(t)
  <2>1. ExecuteTask => fault' = fault \/ fault' = "nil sequence"
    BY DEF ExecuteTask, SequenceCreated, SequenceFails, BodyWritten, BodyTooLong, PipeFails,
           ProcessStarts, StartFails, ProcessWaited, CopiersJoined, StopSent, StopConfirmed, Finish,
           Moves
  <2>2. ASSUME NEW g \in Flushers, FlushRecord(g), ~RecordIsGone(g) PROVE fault' = fault
    BY <2>2 DEF FlushRecord, NothingToFlush, RecordChosen, RecordTaken, RecordAppended, Moves
  <2>3. ASSUME NEW t \in Streams, Copier(t), ~FlushRecord(t), ~BufferRace(t) PROVE fault' = fault
    BY <2>3 DEF Copier, CopierReads, CopierEnds, RecordGoesOn, RecordIsFlushed, TypeSet, LengthTaken,
                ChunkWritten, Moves
  <2>4. Tick \/ FlushEmpty \/ FlushBegins \/ LogsTaken \/ FlushEnds => fault' = fault
    BY DEF Tick, FlushEmpty, FlushBegins, LogsTaken, FlushEnds, Moves
  <2>5. Environment => fault' = fault
    BY DEF Environment, ProcessPrints, ProcessExits, ConnectionLost, Reconnected
  <2>6. UNCHANGED vars => fault' = fault
    BY DEF vars
  <2> QED
    BY <2>1, <2>2, <2>3, <2>4, <2>5, <2>6, <1>f DEF Next, FlushLoop
<1> QED
  BY <1>1, <1>3, <1>4, <1>5

\* A task that prints to one stream cannot take the agent down: whoever flushes
\* a record finds its type, and no Write meets a Reset of its buffer
\* (OutputBuffer.Write, FlushRecord).
THEOREM OneStreamIsSafeHolds == Spec => []OneStreamIsSafe
<1>1. Init => SilentInv /\ ChosenInv /\ GrownInv /\ OneStreamIsSafe
  <2> SUFFICES ASSUME Init PROVE SilentInv /\ ChosenInv /\ GrownInv /\ OneStreamIsSafe
    OBVIOUS
  <2>1. \A g \in Flushers : pc[g] = "none"
    BY DEF Init, Goroutines, Flushers, Streams
  <2>2. \A s \in Streams : pipe[s] = <<>>
    BY DEF Init, Nothing
  <2> QED
    BY <2>1, <2>2 DEF Init, SilentInv, ChosenInv, GrownInv, OneStreamIsSafe, Flushers
<1>2. Typed /\ ClosingInv /\ MutexInv /\ SilentInv /\ ChosenInv /\ GrownInv /\ OneStreamIsSafe
          /\ [Next]_vars => SilentInv' /\ ChosenInv' /\ GrownInv' /\ OneStreamIsSafe'
  BY StepSilentInv, StepChosenInv, StepGrownInv, StepOneStreamIsSafe
<1> QED
  BY <1>1, <1>2, ExecutionInvariant, PTL DEF Spec

-----------------------------------------------------------------------------
(* The output, from the pipes to the callback *)

\* A copier that is to read has written what it had read.  Of a task that prints
\* to one stream the chunks are in order and nothing is lost, and the record in
\* the hands of a FlushRecord is the whole buffer.
OutputInv ==
    \A s \in Streams :
        /\ pc[s] \in {"none", "read"} => held[s] = <<>>
        /\ OnlyPrinted(s) =>
               /\ InOrder(s) /\ ChunksOf(s) = 1 .. printed[s]
               /\ body.stream = s => body.chunks = buffer[s]

\* What is still to come is a sequence of chunks, and so are the records.
LEMMA Sequences ==
    ASSUME Typed
    PROVE  /\ Line \in Seq(Records) /\ DOMAIN Line = 1 .. Len(Line) /\ Len(Line) \in Nat
           /\ \A s \in Streams : Coming(s) \in Seq(Chunks)
           /\ \A s \in Streams : buffer[s] \in Seq(Chunks) /\ held[s] \in Seq(Chunks) /\ pipe[s] \in Seq(Chunks)
<1>1. Waiting \in Seq(Records)
  BY DEF Waiting, Typed, RecordsTyped
<1>2. Line \in Seq(Records)
  BY <1>1 DEF Line, Typed, FlushTyped
<1>3. \A s \in Streams : buffer[s] \in Seq(Chunks) /\ held[s] \in Seq(Chunks) /\ pipe[s] \in Seq(Chunks)
  BY DEF Typed, HeldTyped, OutputTyped
<1> QED
  BY <1>2, <1>3 DEF Coming

\* The order after a step, spelled out.
LEMMA OrderPrimed ==
    ASSUME NEW s \in Streams
    PROVE  /\ InOrder(s)' <=>
               /\ Increasing(Coming(s)')
               /\ \A i \in Own(s)' : Increasing(Line'[i].chunks) /\ Precedes(Line'[i].chunks, Coming(s)')
               /\ \A i, j \in Own(s)' : i < j => Precedes(Line'[i].chunks, Line'[j].chunks)
           /\ ChunksOf(s)' = Range(Coming(s)') \cup UNION {Range(Line'[i].chunks) : i \in Own(s)'}
<1>1. InOrder(s)' <=>
          /\ Increasing(Coming(s)')
          /\ \A i \in Own(s)' : Increasing(Line'[i].chunks) /\ Precedes(Line'[i].chunks, Coming(s)')
          /\ \A i, j \in Own(s)' : i < j => Precedes(Line'[i].chunks, Line'[j].chunks)
  BY DEF InOrder
<1>2. ChunksOf(s)' = Range(Coming(s)') \cup UNION {Range(Line'[i].chunks) : i \in Own(s)'}
  BY DEF ChunksOf
<1> QED
  BY <1>1, <1>2

\* Nothing of the order depends on anything but the records and what is to come.
LEMMA OrderKept ==
    ASSUME NEW s \in Streams, Line' = Line, Coming(s)' = Coming(s)
    PROVE  /\ InOrder(s) => InOrder(s)'
           /\ ChunksOf(s)' = ChunksOf(s)
<1>1. Own(s)' = Own(s)
  BY DEF Own
<1> QED
  BY <1>1 DEF InOrder, ChunksOf, Increasing, Precedes, Range

\* The process prints the next chunk of a stream.
LEMMA OrderPrinted ==
    ASSUME Typed, NEW s \in Streams, NEW c \in Nat, InOrder(s), ChunksOf(s) \subseteq 1 .. c,
           Line' = Line, Coming(s)' = Append(Coming(s), c + 1)
    PROVE  /\ InOrder(s)'
           /\ ChunksOf(s)' = ChunksOf(s) \cup {c + 1}
<1>1. Own(s)' = Own(s)
  BY DEF Own
<1> DEFINE q == Coming(s)
<1>2. q \in Seq(Nat)
  <2>1. q \in Seq(Chunks) /\ Chunks \subseteq Nat
    BY Sequences, TaskExecutionAssumption DEF Chunks
  <2> QED
    BY <2>1, SeqMonotonic
<1>3. Range(Append(q, c + 1)) = Range(q) \cup {c + 1}
  <2> HIDE DEF q
  <2>1. Len(q) \in Nat /\ DOMAIN q = 1 .. Len(q) /\ DOMAIN Append(q, c + 1) = 1 .. Len(q) + 1
    BY <1>2
  <2>2. Append(q, c + 1)[Len(q) + 1] = c + 1 /\ \A i \in 1 .. Len(q) : Append(q, c + 1)[i] = q[i]
    BY <1>2
  <2> QED
    BY <2>1, <2>2 DEF Range
<1>4. Range(q) \subseteq 1 .. c /\ \A i \in Own(s) : Range(Line[i].chunks) \subseteq 1 .. c
  <2>1. ChunksOf(s) = (UNION {Range(Line[i].chunks) : i \in Own(s)}) \cup Range(q)
    BY DEF ChunksOf
  <2> HIDE DEF q
  <2>2. Range(q) \subseteq ChunksOf(s) /\ \A i \in Own(s) : Range(Line[i].chunks) \subseteq ChunksOf(s)
    BY <2>1
  <2> QED
    BY <2>2
<1>5. Increasing(Append(q, c + 1))
  <2>2. Increasing(q)
    BY DEF InOrder
  <2> HIDE DEF q
  <2>1. \A i \in 1 .. Len(q) : q[i] \in 1 .. c
    BY <1>2, <1>4 DEF Range
  <2> QED
    BY <1>2, <2>1, <2>2 DEF Increasing
<1>6. ASSUME NEW i \in Own(s) PROVE Precedes(Line[i].chunks, Append(q, c + 1))
  <2>1. Precedes(Line[i].chunks, q)
    BY DEF InOrder
  <2> HIDE DEF q
  <2>2. \A d \in Range(Line[i].chunks) : d < c + 1
    BY <1>4
  <2> QED
    BY <2>1, <2>2, <1>3 DEF Precedes
<1>7. InOrder(s)'
  <2>1. \A i \in Own(s) : Increasing(Line[i].chunks)
    BY DEF InOrder
  <2>2. \A i, j \in Own(s) : i < j => Precedes(Line[i].chunks, Line[j].chunks)
    BY DEF InOrder
  <2> QED
    BY <1>1, <1>5, <1>6, <2>1, <2>2, OrderPrimed
<1>8. ChunksOf(s)' = ChunksOf(s) \cup {c + 1}
  <2>1. Range(Coming(s))' = Range(q) \cup {c + 1}
    BY <1>3 DEF Range
  <2>2. (UNION {Range(Line[i].chunks) : i \in Own(s)})' = (UNION {Range(Line[i].chunks) : i \in Own(s)})
    BY <1>1 DEF Range
  <2> QED
    BY <2>1, <2>2 DEF ChunksOf
<1> QED
  BY <1>7, <1>8

\* A record is made of the buffer of its stream: what it leaves to come is later
\* than the record.
LEMMA OrderRecorded ==
    ASSUME Typed, NEW s \in Streams, NEW r \in Records, r.stream = s, InOrder(s),
           r.chunks = buffer[s],
           Line' = Append(Line, r), Coming(s)' = held[s] \o pipe[s]
    PROVE  InOrder(s)' /\ ChunksOf(s)' = ChunksOf(s)
<1> DEFINE b == buffer[s]
           rest == held[s] \o pipe[s]
<1>1. b \in Seq(Nat) /\ rest \in Seq(Nat) /\ r.chunks \in Seq(Nat) /\ Coming(s) = b \o rest
  <2>1. Chunks \subseteq Nat
    BY TaskExecutionAssumption DEF Chunks
  <2>2. held[s] \in Seq(Nat) /\ pipe[s] \in Seq(Nat) /\ b \in Seq(Nat)
    BY <2>1, Sequences, SeqMonotonic
  <2>3. r.chunks \in Seq(Nat)
    <3>1. r.chunks \in Seq(Chunks)
      BY DEF Records
    <3> QED
      BY <3>1, <2>1, SeqMonotonic
  <2>4. Coming(s) = b \o rest
    <3>0. \A x, y, z \in Seq(Nat) : (x \o y) \o z = x \o (y \o z)
      BY ConcatAssociative
    <3>1. (b \o held[s]) \o pipe[s] = b \o (held[s] \o pipe[s])
      BY <2>2, <3>0
    <3> QED
      BY <3>1 DEF Coming
  <2> QED
    BY <2>2, <2>3, <2>4
<1>2. /\ Line' \in Seq(Records) /\ DOMAIN Line' = 1 .. Len(Line) + 1 /\ Line'[Len(Line) + 1] = r
      /\ \A i \in 1 .. Len(Line) : Line'[i] = Line[i]
  BY Sequences, AppendProperties
<1>3. Own(s)' = Own(s) \cup {Len(Line) + 1} /\ Own(s) \subseteq 1 .. Len(Line)
  BY <1>2, Sequences DEF Own
<1>4. /\ Range(b) \subseteq Range(Coming(s)) /\ Range(rest) \subseteq Range(Coming(s))
      /\ Range(Coming(s)) = Range(b) \cup Range(rest)
  <2>1. b \in Seq(Nat) /\ rest \in Seq(Nat)
    BY <1>1
  <2>2. Coming(s) = b \o rest
    BY <1>1
  <2> HIDE DEF b, rest
  <2>3. Range(b \o rest) = Range(b) \cup Range(rest)
    BY <2>1, RangeConcatenation
  <2> QED
    BY <2>2, <2>3
<1>5. r.chunks = b
  OBVIOUS
<1>6. Increasing(Coming(s))
  BY DEF InOrder
<1>7. Increasing(r.chunks) /\ Increasing(rest) /\ Precedes(r.chunks, rest)
  <2>1. r.chunks = b /\ Increasing(b \o rest)
    BY <1>1, <1>5, <1>6
  <2> HIDE DEF b, rest
  <2>2. /\ \A i \in 1 .. Len(r.chunks) : r.chunks[i] = (b \o rest)[i]
        /\ \A i \in 1 .. Len(rest) : rest[i] = (b \o rest)[Len(b) + i]
        /\ Len(r.chunks) <= Len(b) /\ DOMAIN (b \o rest) = 1 .. Len(b) + Len(rest)
        /\ Len(b) \in Nat /\ Len(rest) \in Nat /\ Len(r.chunks) \in Nat
        /\ DOMAIN rest = 1 .. Len(rest) /\ DOMAIN r.chunks = 1 .. Len(r.chunks)
    BY <1>1, <2>1
  <2>3. Increasing(r.chunks)
    BY <2>1, <2>2 DEF Increasing
  <2>4. Increasing(rest)
    <3>1. ASSUME NEW i \in DOMAIN rest, NEW j \in DOMAIN rest, i < j PROVE rest[i] < rest[j]
      <4>1. /\ Len(b) + i \in DOMAIN (b \o rest) /\ Len(b) + j \in DOMAIN (b \o rest)
            /\ Len(b) + i < Len(b) + j
        BY <3>1, <2>2
      <4>2. (b \o rest)[Len(b) + i] < (b \o rest)[Len(b) + j]
        BY <4>1, <2>1 DEF Increasing
      <4> QED
        BY <4>2, <2>2
    <3> QED
      BY <3>1 DEF Increasing
  <2>5. ASSUME NEW i \in 1 .. Len(r.chunks), NEW j \in 1 .. Len(rest) PROVE r.chunks[i] < rest[j]
    <3>1. i \in DOMAIN (b \o rest) /\ Len(b) + j \in DOMAIN (b \o rest) /\ i < Len(b) + j
      BY <2>2
    <3>2. (b \o rest)[i] < (b \o rest)[Len(b) + j]
      BY <3>1, <2>1 DEF Increasing
    <3> QED
      BY <3>2, <2>2
  <2> QED
    BY <2>2, <2>3, <2>4, <2>5 DEF Precedes, Range
<1>8. ASSUME NEW i \in Own(s)
      PROVE  /\ Increasing(Line[i].chunks) /\ Precedes(Line[i].chunks, r.chunks)
             /\ Precedes(Line[i].chunks, rest)
  <2>1. Precedes(Line[i].chunks, Coming(s)) /\ Increasing(Line[i].chunks)
    BY DEF InOrder
  <2> QED
    BY <2>1, <1>4, <1>5 DEF Precedes
<1>9. InOrder(s)'
  <2> HIDE DEF rest, b
  <2>0. Len(Line) \in Nat
    BY Sequences
  <2>1. \A i, j \in Own(s) : i < j => Precedes(Line[i].chunks, Line[j].chunks)
    BY DEF InOrder
  <2>2. Coming(s)' = rest
    BY DEF rest
  <2>3. ASSUME NEW i \in Own(s)' PROVE Increasing(Line'[i].chunks) /\ Precedes(Line'[i].chunks, rest)
    BY <1>2, <1>3, <1>7, <1>8
  <2>4. ASSUME NEW i \in Own(s)', NEW j \in Own(s)', i < j
        PROVE  Precedes(Line'[i].chunks, Line'[j].chunks)
    <3>1. i \in Own(s)
      BY <2>4, <1>3, <2>0
    <3> QED
      BY <3>1, <2>4, <1>2, <1>3, <1>8, <2>1
  <2> QED
    BY <1>7, <2>2, <2>3, <2>4, OrderPrimed
<1>10. ChunksOf(s)' = (UNION {Range(Line[i].chunks) : i \in Own(s)}) \cup Range(r.chunks) \cup Range(rest)
  <2>1. \A i \in Own(s) : Line'[i] = Line[i]
    BY <1>2, <1>3
  <2>2. ChunksOf(s)' = (UNION {Range(Line'[i].chunks) : i \in Own(s)'}) \cup Range(Coming(s)')
    BY DEF ChunksOf, Range
  <2>3. (UNION {Range(Line'[i].chunks) : i \in Own(s)'})
            = (UNION {Range(Line[i].chunks) : i \in Own(s)}) \cup Range(r.chunks)
    BY <2>1, <1>2, <1>3
  <2> QED
    BY <2>2, <2>3
<1>11. ChunksOf(s) = (UNION {Range(Line[i].chunks) : i \in Own(s)}) \cup Range(b) \cup Range(rest)
  BY <1>4 DEF ChunksOf
<1> QED
  BY <1>5, <1>9, <1>10, <1>11

\* A record of the other stream is beside the order of this one.
LEMMA OrderBeside ==
    ASSUME Typed, NEW s \in Streams, NEW r, r.stream # s,
           Line' = Append(Line, r), Coming(s)' = Coming(s)
    PROVE  /\ InOrder(s) => InOrder(s)'
           /\ ChunksOf(s)' = ChunksOf(s)
<1>1. /\ DOMAIN Line' = 1 .. Len(Line) + 1 /\ Line'[Len(Line) + 1] = r /\ Len(Line) \in Nat
      /\ \A i \in 1 .. Len(Line) : Line'[i] = Line[i]
  BY Sequences
<1>2. Own(s)' = Own(s)
  BY <1>1, Sequences DEF Own
<1>3. \A i \in Own(s) : Line'[i] = Line[i]
  BY <1>1, Sequences DEF Own
<1>4. ASSUME InOrder(s) PROVE InOrder(s)'
  <2>1. /\ Increasing(Coming(s))
        /\ \A i \in Own(s) : Increasing(Line[i].chunks) /\ Precedes(Line[i].chunks, Coming(s))
        /\ \A i, j \in Own(s) : i < j => Precedes(Line[i].chunks, Line[j].chunks)
    BY <1>4 DEF InOrder
  <2> QED
    BY <1>2, <1>3, <2>1, OrderPrimed
<1>5. ChunksOf(s)' = ChunksOf(s)
  <2>1. {Range(Line'[i].chunks) : i \in Own(s)'} = {Range(Line[i].chunks) : i \in Own(s)}
    BY <1>2, <1>3
  <2> QED
    BY <2>1, OrderPrimed DEF ChunksOf
<1> QED
  BY <1>4, <1>5

\* What a step does to the output.
Quiet == UNCHANGED <<printed, pipe, held, buffer, body>>

LEMMA OutputSteps ==
    ASSUME [Next]_vars
    PROVE  /\ \/ Quiet
              \/ \E s \in Streams : ProcessPrints(s) \/ CopierReads(s) \/ ChunkWritten(s)
              \/ \E g \in Flushers : RecordTaken(g) \/ RecordAppended(g)
           /\ \/ UNCHANGED <<records, handed>>
              \/ FlushBegins \/ FlushEnds
              \/ \E g \in Flushers : RecordAppended(g)
<1> USE DEF data, bufferVars, processVars, flushVars
<1> DEFINE Still == Quiet /\ UNCHANGED <<records, handed>>
<1>f. Flushers = {"flush"} \cup Streams
  BY DEF Flushers
<1>1. ExecuteTask => Still
  BY DEF ExecuteTask, SequenceCreated, SequenceFails, BodyWritten, BodyTooLong, PipeFails, ProcessStarts,
         StartFails, ProcessWaited, CopiersJoined, StopSent, StopConfirmed, Finish, Moves, Quiet
<1>2. ASSUME NEW g \in Flushers, FlushRecord(g)
      PROVE  Still \/ (RecordTaken(g) /\ UNCHANGED <<records, handed>>) \/ RecordAppended(g)
  <2>1. NothingToFlush(g) \/ RecordChosen(g) \/ RecordIsGone(g) => Still
    BY DEF NothingToFlush, RecordChosen, RecordIsGone, Moves, Dies, Quiet
  <2>2. RecordTaken(g) => UNCHANGED <<records, handed>>
    BY DEF RecordTaken
  <2> QED
    BY <1>2, <2>1, <2>2 DEF FlushRecord
<1>3. ASSUME NEW s \in Streams, Copier(s), ~FlushRecord(s)
      PROVE  Still \/ ((CopierReads(s) \/ ChunkWritten(s)) /\ UNCHANGED <<records, handed>>)
  <2>1. CopierEnds(s) \/ RecordGoesOn(s) \/ RecordIsFlushed(s) \/ TypeSet(s) \/ LengthTaken(s)
            \/ BufferRace(s) => Still
    BY DEF CopierEnds, RecordGoesOn, RecordIsFlushed, TypeSet, LengthTaken, BufferRace, Moves, Dies, Quiet
  <2>2. CopierReads(s) \/ ChunkWritten(s) => UNCHANGED <<records, handed>>
    BY DEF CopierReads, ChunkWritten
  <2> QED
    BY <1>3, <2>1, <2>2 DEF Copier
<1>4. Tick \/ FlushEmpty \/ LogsTaken => Still
  BY DEF Tick, FlushEmpty, LogsTaken, Moves, Quiet
<1>5. FlushBegins \/ FlushEnds => Quiet
  BY DEF FlushBegins, FlushEnds, Quiet
<1>6. Environment => Still \/ ((\E s \in Streams : ProcessPrints(s)) /\ UNCHANGED <<records, handed>>)
  BY DEF Environment, ProcessPrints, ProcessExits, ConnectionLost, Reconnected, Quiet
<1>7. UNCHANGED vars => Still
  BY DEF vars, Quiet
<1> HIDE DEF Still
<1>8. \/ Still
      \/ (\E s \in Streams : ProcessPrints(s) \/ CopierReads(s) \/ ChunkWritten(s))
             /\ UNCHANGED <<records, handed>>
      \/ \E g \in Flushers : RecordAppended(g) \/ (RecordTaken(g) /\ UNCHANGED <<records, handed>>)
      \/ (FlushBegins \/ FlushEnds) /\ Quiet
  BY <1>1, <1>2, <1>3, <1>4, <1>5, <1>6, <1>7, <1>f DEF Next, FlushLoop, Copier
<1> QED
  BY <1>8 DEF Still

\* The callback is given the records that wait, and they stay where they are in
\* the line; a new one is its last.
LEMMA LineSteps ==
    ASSUME Typed, ClosingInv, MutexInv, [Next]_vars
    PROVE  \/ Line' = Line /\ \A g \in Flushers : ~RecordAppended(g)
           \/ Line' = Append(Line, body) /\ \E g \in Flushers : RecordAppended(g)
<1> DEFINE Out == {"sending", "flushed", "orphaned"}
<1>t. handed \in Seq(Records) /\ records \in Seq(Records) /\ PlacesTyped
  BY DEF Typed, FlushTyped, RecordsTyped
<1>f. "flush" \in Flushers /\ "flush" \in Goroutines
  BY DEF Flushers, Goroutines
<1>w. Waiting = IF pc["flush"] \in Out THEN <<>> ELSE records
  BY DEF Waiting
<1>v. Waiting' = IF pc'["flush"] \in Out THEN <<>> ELSE records'
  BY DEF Waiting
<1>1. ASSUME UNCHANGED <<records, handed>>, pc'["flush"] \in Out <=> pc["flush"] \in Out
      PROVE  Line' = Line
  BY <1>1, <1>w, <1>v DEF Line
<1>2. ASSUME FlushBegins PROVE Line' = Line
  <2>1. pc["flush"] = "flush" /\ pc'["flush"] \in Out
    BY <1>2, <1>t, <1>f DEF FlushBegins, At, Goto, PlacesTyped
  <2>2. Line' = (handed \o records) \o <<>> /\ Line = handed \o records
    BY <1>2, <2>1, <1>w, <1>v DEF Line, FlushBegins
  <2>3. handed \o records \in Seq(Records)
    BY <1>t
  <2> QED
    BY <2>2, <2>3, ConcatEmptySeq
<1>3. ASSUME FlushEnds PROVE Line' = Line
  <2>1. pc["flush"] = "flushed" /\ pc'["flush"] \notin Out
    BY <1>3, <1>t, <1>f DEF FlushEnds, At, Goto, PlacesTyped, AfterFlush
  <2> QED
    BY <1>3, <2>1, <1>w, <1>v DEF Line, FlushEnds, RecordsOnceFlushed, flushVars
<1>4. ASSUME NEW g \in Flushers, RecordAppended(g) PROVE Line' = Append(Line, body)
  <2>1. pc[g] = "append" /\ mut = g /\ body \in Records /\ g \in Goroutines
    BY <1>4 DEF RecordAppended, At, MutexInv, Typed, RecordsTyped, Flushers, Goroutines
  <2>2. pc["flush"] \notin Out /\ pc'["flush"] \notin Out
    BY <1>4, <2>1, <1>t, <1>f DEF RecordAppended, Goto, PlacesTyped, MutexInv, AfterFlushRecord
  <2>3. Line = handed \o records /\ Line' = handed \o Append(records, body)
    BY <1>4, <2>2, <1>w, <1>v DEF Line, RecordAppended, flushVars
  <2>4. Append(records, body) = records \o <<body>> /\ <<body>> \in Seq(Records)
    BY <1>t, <2>1, AppendIsConcat
  <2>5. Append(handed \o records, body) = (handed \o records) \o <<body>>
    BY <1>t, <2>1, AppendIsConcat
  <2>6. \A x, y, z \in Seq(Records) : (x \o y) \o z = x \o (y \o z)
    BY ConcatAssociative
  <2> QED
    BY <2>3, <2>4, <2>5, <2>6, <1>t
<1>5. CASE \E g \in Flushers : RecordAppended(g)
  <2>1. Line' = Append(Line, body)
    BY <1>4, <1>5
  <2> QED
    BY <1>5, <2>1
<1>6. CASE \A g \in Flushers : ~RecordAppended(g)
  <2>1. UNCHANGED <<records, handed>> \/ FlushBegins \/ FlushEnds
    BY <1>6, OutputSteps
  <2>2. CASE ~FlushBegins /\ ~FlushEnds
    <3>1. \/ Bystanding
          \/ \E g \in Flushers : RecordTaken(g)
          \/ LogsTaken \/ ConnectionLost
      BY <1>6, <2>2, MutexSteps
    <3>2. pc'["flush"] \in Out <=> pc["flush"] \in Out
      <4>1. CASE Bystanding
        BY <4>1, <1>f DEF Bystanding, Critical
      <4>2. ASSUME NEW g \in Flushers, RecordTaken(g)
            PROVE  pc'["flush"] \in Out <=> pc["flush"] \in Out
        BY <4>2, <1>t, <1>f DEF RecordTaken, At, Goto, PlacesTyped, Flushers, Goroutines
      <4>3. CASE LogsTaken \/ ConnectionLost
        BY <4>3, <1>t, <1>f DEF LogsTaken, ConnectionLost, Moves, At, Goto, PlacesTyped
      <4> QED
        BY <3>1, <4>1, <4>2, <4>3
    <3>3. Line' = Line
      BY <1>1, <2>1, <2>2, <3>2
    <3> QED
      BY <3>3, <1>6
  <2>3. CASE FlushBegins \/ FlushEnds
    <3>1. Line' = Line
      BY <2>3, <1>2, <1>3
    <3> QED
      BY <3>1, <1>6
  <2> QED
    BY <2>2, <2>3
<1> QED
  BY <1>5, <1>6

\* What is to come after each step: the process adds a chunk, and a record
\* takes the buffer of its stream.
LEMMA ComingSteps ==
    ASSUME Typed, OutputInv, NEW s \in Streams
    PROVE  /\ Quiet => Coming(s)' = Coming(s)
           /\ \A t \in Streams : ProcessPrints(t) =>
                  Coming(s)' = IF t = s THEN Append(Coming(s), printed[s] + 1) ELSE Coming(s)
           /\ \A t \in Streams : CopierReads(t) => Coming(s)' = Coming(s)
           /\ \A t \in Streams : ChunkWritten(t) /\ grown[t] = buffer[t] => Coming(s)' = Coming(s)
           /\ \A g \in Flushers : RecordTaken(g) => Coming(s)' = Coming(s)
           /\ \A g \in Flushers : body \in Records /\ RecordAppended(g) =>
                  Coming(s)' = IF body.stream = s THEN held[s] \o pipe[s] ELSE Coming(s)
<1> DEFINE b == buffer[s]
           h == held[s]
           p == pipe[s]
<1>t. /\ b \in Seq(Chunks) /\ h \in Seq(Chunks) /\ p \in Seq(Chunks)
      /\ pipe \in [Streams -> Seq(Chunks)] /\ held \in [Streams -> Seq(Chunks)]
      /\ buffer \in [Streams -> Seq(Chunks)] /\ printed \in [Streams -> 0 .. MaxChunks]
  BY DEF Typed, OutputTyped, HeldTyped
<1>a. /\ \A x, y, z \in Seq(Chunks) : (x \o y) \o z = x \o (y \o z)
      /\ \A x \in Seq(Chunks) : x \o <<>> = x /\ <<>> \o x = x
  BY ConcatAssociative, ConcatEmptySeq
<1>c. Coming(s) = (b \o h) \o p /\ Coming(s)' = (buffer'[s] \o held'[s]) \o pipe'[s]
  BY DEF Coming
<1> HIDE DEF b, h, p
<1>1. Quiet => Coming(s)' = Coming(s)
  BY <1>c DEF Quiet, b, h, p
<1>2. ASSUME NEW t \in Streams, ProcessPrints(t)
      PROVE  Coming(s)' = IF t = s THEN Append(Coming(s), printed[s] + 1) ELSE Coming(s)
  <2>1. /\ UNCHANGED <<held, buffer>> /\ printed' = [printed EXCEPT ![t] = printed[t] + 1]
        /\ pipe' = [pipe EXCEPT ![t] = Append(pipe[t], printed'[t])]
    BY <1>2 DEF ProcessPrints, bufferVars
  <2>2. CASE t = s
    <3>1. pipe'[s] = Append(p, printed[s] + 1)
      BY <2>1, <2>2, <1>t DEF p
    <3>2. Coming(s)' = (b \o h) \o Append(p, printed[s] + 1)
      BY <3>1, <2>1, <1>c DEF b, h
    <3>3. \A x, y \in Seq(Nat), c \in Nat : x \o Append(y, c) = Append(x \o y, c)
      <4>1. ASSUME NEW x \in Seq(Nat), NEW y \in Seq(Nat), NEW c \in Nat
            PROVE  x \o Append(y, c) = Append(x \o y, c)
        <5>1. x \o y \in Seq(Nat) /\ <<c>> \in Seq(Nat)
          OBVIOUS
        <5>2. Append(y, c) = y \o <<c>>
          BY AppendIsConcat
        <5>3. Append(x \o y, c) = (x \o y) \o <<c>>
          BY <5>1, AppendIsConcat
        <5>4. (x \o y) \o <<c>> = x \o (y \o <<c>>)
          BY <5>1, ConcatAssociative
        <5> QED
          BY <5>2, <5>3, <5>4
      <4> QED
        BY <4>1
    <3>4. Chunks \subseteq Nat
      BY TaskExecutionAssumption DEF Chunks
    <3>5. b \o h \in Seq(Nat) /\ p \in Seq(Nat) /\ printed[s] + 1 \in Nat
      <4>1. b \in Seq(Nat) /\ h \in Seq(Nat) /\ p \in Seq(Nat)
        BY <3>4, <1>t, SeqMonotonic
      <4>2. printed[s] \in 0 .. MaxChunks
        BY <1>t
      <4> QED
        BY <4>1, <4>2
    <3> QED
      BY <3>2, <3>3, <3>5, <1>c, <2>2
  <2>3. CASE t # s
    BY <2>1, <2>3, <1>c, <1>t DEF b, h, p
  <2> QED
    BY <2>2, <2>3
<1>3. ASSUME NEW t \in Streams, CopierReads(t) PROVE Coming(s)' = Coming(s)
  <2>1. /\ UNCHANGED buffer /\ pipe[t] # <<>> /\ held[t] = <<>>
        /\ held' = [held EXCEPT ![t] = <<Head(pipe[t])>>]
        /\ pipe' = [pipe EXCEPT ![t] = Tail(pipe[t])]
    BY <1>3 DEF CopierReads, At, OutputInv, bufferVars
  <2>2. CASE t = s
    <3>1. /\ h = <<>> /\ p # <<>> /\ held'[s] = <<Head(p)>> /\ pipe'[s] = Tail(p) /\ buffer'[s] = b
      BY <2>1, <2>2, <1>t DEF h, p, b
    <3>2. p = <<Head(p)>> \o Tail(p) /\ <<Head(p)>> \in Seq(Chunks) /\ Tail(p) \in Seq(Chunks)
      BY <3>1, <1>t
    <3>3. (b \o <<Head(p)>>) \o Tail(p) = b \o (<<Head(p)>> \o Tail(p))
      BY <3>2, <1>a, <1>t
    <3>4. b \o <<>> = b
      BY <1>a, <1>t
    <3> QED
      BY <3>1, <3>2, <3>3, <3>4, <1>c
  <2>3. CASE t # s
    BY <2>1, <2>3, <1>c, <1>t DEF b, h, p
  <2> QED
    BY <2>2, <2>3
<1>4. ASSUME NEW t \in Streams, ChunkWritten(t), grown[t] = buffer[t] PROVE Coming(s)' = Coming(s)
  <2>1. /\ UNCHANGED pipe
        /\ held' = [held EXCEPT ![t] = <<>>]
        /\ buffer' = [buffer EXCEPT ![t] = buffer[t] \o held[t]]
    BY <1>4 DEF ChunkWritten, processVars
  <2>2. CASE t = s
    <3>1. held'[s] = <<>> /\ buffer'[s] = b \o h /\ pipe'[s] = p /\ b \o h \in Seq(Chunks)
      BY <2>1, <2>2, <1>t DEF h, p, b
    <3> QED
      BY <3>1, <1>a, <1>c, <1>t
  <2>3. CASE t # s
    BY <2>1, <2>3, <1>c, <1>t DEF b, h, p
  <2> QED
    BY <2>2, <2>3
<1>5. ASSUME NEW g \in Flushers, RecordTaken(g) PROVE Coming(s)' = Coming(s)
  BY <1>5, <1>c DEF RecordTaken, processVars, b, h, p
<1>6. ASSUME NEW g \in Flushers, body \in Records, RecordAppended(g)
      PROVE  Coming(s)' = IF body.stream = s THEN held[s] \o pipe[s] ELSE Coming(s)
  <2>1. UNCHANGED <<held, pipe>> /\ buffer' = [buffer EXCEPT ![body.stream] = <<>>]
    BY <1>6 DEF RecordAppended, processVars
  <2>2. body.stream \in Streams
    BY <1>6 DEF Records
  <2>3. buffer'[s] = IF body.stream = s THEN <<>> ELSE b
    BY <2>1, <2>2, <1>t DEF b
  <2> QED
    BY <2>1, <2>3, <1>a, <1>c, <1>t DEF h, p
<1> QED
  BY <1>1, <1>2, <1>3, <1>4, <1>5, <1>6

\* A copier that is to read has written what it had read.
LEMMA HeldSteps ==
    ASSUME Typed, ClosingInv, [Next]_vars, NEW s \in Streams, pc'[s] \in {"none", "read"}
    PROVE  \/ held'[s] = <<>>
           \/ pc[s] \in {"none", "read"} /\ held'[s] = held[s]
<1> USE DEF data, bufferVars, processVars
<1>t. PlacesTyped /\ HeldTyped
  BY DEF Typed
<1>f. /\ Flushers = {"flush", "stdout", "stderr"} /\ Streams = {"stdout", "stderr"}
      /\ Goroutines = {"main", "flush", "stdout", "stderr"}
  BY DEF Flushers, Streams, Goroutines
<1>1. ASSUME NEW h \in Goroutines, NEW l, Goto(h, l), UNCHANGED held, h # s \/ l \notin {"none", "read"}
      PROVE  pc[s] \in {"none", "read"} /\ held'[s] = held[s]
  BY <1>1, <1>t, <1>f DEF Goto, PlacesTyped
<1>2. ASSUME UNCHANGED <<pc, held>>
      PROVE  pc[s] \in {"none", "read"} /\ held'[s] = held[s]
  BY <1>2
<1>3. CASE ExecuteTask
  <2>1. CASE SequenceCreated \/ Finish \/ ProcessWaited
    BY <2>1, <1>1, <1>f DEF SequenceCreated, Finish, ProcessWaited
  <2>2. CASE SequenceFails
    BY <2>2, <1>2 DEF SequenceFails
  <2>3. CASE BodyWritten \/ BodyTooLong \/ PipeFails \/ CopiersJoined
    BY <2>3, <1>1, <1>f DEF BodyWritten, BodyTooLong, PipeFails, CopiersJoined, Moves
  <2>4. CASE ProcessStarts \/ StartFails
    <3>1. pc[s] = "none"
      BY <2>4, <1>f DEF ProcessStarts, StartFails, At, ClosingInv
    <3>2. held'[s] = held[s]
      BY <2>4 DEF ProcessStarts, StartFails
    <3> QED
      BY <3>1, <3>2
  <2>5. CASE StopSent \/ StopConfirmed
    BY <2>5, <1>t, <1>f DEF StopSent, StopConfirmed, PlacesTyped
  <2> QED
    BY <1>3, <2>1, <2>2, <2>3, <2>4, <2>5 DEF ExecuteTask
<1>4. ASSUME NEW g \in Flushers, FlushRecord(g)
      PROVE  pc[s] \in {"none", "read"} /\ held'[s] = held[s]
  <2>0. g \in Goroutines /\ AfterFlushRecord(g) \notin {"none", "read"}
    BY <1>f DEF AfterFlushRecord
  <2>1. CASE NothingToFlush(g) \/ RecordTaken(g) \/ RecordAppended(g)
    BY <2>0, <2>1, <1>1 DEF NothingToFlush, RecordTaken, RecordAppended, Moves
  <2>2. CASE RecordChosen(g)
    BY <2>0, <2>2, <1>1 DEF RecordChosen, Moves
  <2>3. CASE RecordIsGone(g)
    BY <2>3, <1>2 DEF RecordIsGone, Dies
  <2> QED
    BY <1>4, <2>1, <2>2, <2>3 DEF FlushRecord
<1>5. ASSUME NEW t \in Streams, Copier(t), ~FlushRecord(t)
      PROVE  \/ held'[s] = <<>>
             \/ pc[s] \in {"none", "read"} /\ held'[s] = held[s]
  <2>0. t \in Goroutines
    BY <1>f
  <2>1. CASE CopierReads(t)
    <3>1. pc'[t] = "check" /\ \A r \in Streams \ {t} : pc'[r] = pc[r] /\ held'[r] = held[r]
      BY <2>0, <2>1, <1>t, <1>f DEF CopierReads, Goto, PlacesTyped, HeldTyped
    <3> QED
      BY <3>1
  <2>2. CASE CopierEnds(t) \/ RecordGoesOn(t) \/ RecordIsFlushed(t)
    BY <2>0, <2>2, <1>1 DEF CopierEnds, RecordGoesOn, RecordIsFlushed, Moves
  <2>3. CASE TypeSet(t) \/ LengthTaken(t)
    BY <2>0, <2>3, <1>1 DEF TypeSet, LengthTaken
  <2>4. CASE BufferRace(t)
    BY <2>4, <1>2 DEF BufferRace, Dies
  <2>5. CASE ChunkWritten(t)
    <3>1. held'[t] = <<>> /\ \A r \in Streams \ {t} : pc'[r] = pc[r] /\ held'[r] = held[r]
      BY <2>0, <2>5, <1>t, <1>f DEF ChunkWritten, Goto, PlacesTyped, HeldTyped
    <3> QED
      BY <3>1
  <2> QED
    BY <1>5, <2>1, <2>2, <2>3, <2>4, <2>5 DEF Copier
<1>6. CASE Tick \/ LogsTaken \/ FlushEmpty \/ FlushBegins \/ FlushEnds
  BY <1>6, <1>1, <1>f DEF Tick, LogsTaken, FlushEmpty, FlushBegins, FlushEnds, Moves
<1>7. CASE Environment
  <2>1. CASE (\E t \in Streams : ProcessPrints(t)) \/ ProcessExits \/ Reconnected
    BY <2>1, <1>2 DEF ProcessPrints, ProcessExits, Reconnected
  <2>2. CASE ConnectionLost
    BY <2>2, <1>t, <1>f DEF ConnectionLost, PlacesTyped
  <2> QED
    BY <1>7, <2>1, <2>2 DEF Environment
<1>8. CASE UNCHANGED vars
  BY <1>2, <1>8 DEF vars
<1> QED
  BY <1>3, <1>4, <1>5, <1>6, <1>7, <1>8, <1>f DEF Next, FlushLoop, Copier

\* Every step keeps what a task prints to its only stream in order and whole.
LEMMA StepOutputInv ==
    Typed /\ ClosingInv /\ MutexInv /\ SilentInv /\ GrownInv /\ OutputInv /\ [Next]_vars => OutputInv'
<1> SUFFICES ASSUME Typed, ClosingInv, MutexInv, SilentInv, GrownInv, OutputInv, [Next]_vars,
                    NEW s \in Streams
             PROVE  /\ pc'[s] \in {"none", "read"} => held'[s] = <<>>
                    /\ OnlyPrinted(s)' =>
                           /\ InOrder(s)' /\ ChunksOf(s)' = 1 .. printed'[s]
                           /\ body'.stream = s => body'.chunks = buffer'[s]
  BY DEF OutputInv
<1>0. pc'[s] \in {"none", "read"} => held'[s] = <<>>
  BY HeldSteps DEF OutputInv
<1> SUFFICES ASSUME OnlyPrinted(s)'
             PROVE  /\ InOrder(s)' /\ ChunksOf(s)' = 1 .. printed'[s]
                    /\ body'.stream = s => body'.chunks = buffer'[s]
  BY <1>0
<1>p. OnlyPrinted(s)
  BY StepSilentInv DEF OnlyPrinted
<1>w. /\ InOrder(s) /\ ChunksOf(s) = 1 .. printed[s] /\ printed[s] \in Nat
      /\ body.stream = s => body.chunks = buffer[s]
  BY <1>p, TaskExecutionAssumption DEF OutputInv, Typed, OutputTyped
<1> DEFINE Good == /\ InOrder(s)' /\ ChunksOf(s)' = 1 .. printed'[s]
                   /\ body'.stream = s => body'.chunks = buffer'[s]
<1>1. ASSUME Line' = Line, Coming(s)' = Coming(s), UNCHANGED <<printed, body, buffer>>
      PROVE  Good
  BY <1>1, <1>w, OrderKept
<1>2. ASSUME Quiet, Line' = Line PROVE Good
  <2>1. Coming(s)' = Coming(s)
    BY <1>2, ComingSteps
  <2> QED
    BY <1>1, <1>2, <2>1 DEF Quiet
<1>3. ASSUME NEW t \in Streams, ProcessPrints(t), Line' = Line
      PROVE  Good
  <2>1. Coming(s)' = IF t = s THEN Append(Coming(s), printed[s] + 1) ELSE Coming(s)
    BY <1>3, ComingSteps
  <2>2. /\ printed'[s] = IF t = s THEN printed[s] + 1 ELSE printed[s]
        /\ UNCHANGED <<body, buffer>>
    BY <1>3 DEF ProcessPrints, bufferVars, Typed, OutputTyped
  <2>3. CASE t = s
    <3>1. InOrder(s)' /\ ChunksOf(s)' = ChunksOf(s) \cup {printed[s] + 1}
      BY <1>w, <1>3, <2>1, <2>3, OrderPrinted
    <3> QED
      BY <1>w, <2>2, <2>3, <3>1
  <2>4. CASE t # s
    <3>1. InOrder(s)' /\ ChunksOf(s)' = ChunksOf(s)
      BY <1>w, <1>3, <2>1, <2>4, OrderKept
    <3> QED
      BY <1>w, <2>2, <2>4, <3>1
  <2> QED
    BY <2>3, <2>4
<1>4. ASSUME NEW t \in Streams, CopierReads(t), Line' = Line
      PROVE  Good
  <2>1. Coming(s)' = Coming(s)
    BY <1>4, ComingSteps
  <2> QED
    BY <1>1, <1>4, <2>1 DEF CopierReads, bufferVars
<1>5. ASSUME NEW t \in Streams, ChunkWritten(t), Line' = Line
      PROVE  Good
  <2>1. t = s
    BY <1>5, <1>p DEF ChunkWritten, At, SilentInv, OnlyPrinted
  <2>2. grown[t] = buffer[t]
    BY <1>5, <1>p, <2>1 DEF ChunkWritten, At, GrownInv
  <2>3. Coming(s)' = Coming(s)
    BY <1>5, <2>2, ComingSteps
  <2>4. UNCHANGED <<printed, body>>
    BY <1>5 DEF ChunkWritten, processVars
  <2>5. body = NoRecord
    BY <1>5, <2>1, <1>p, OnlyWriterFlushes DEF ChunkWritten, At
  <2>6. InOrder(s)' /\ ChunksOf(s)' = ChunksOf(s)
    BY <1>5, <1>w, <2>3, OrderKept
  <2> QED
    BY <1>w, <2>4, <2>5, <2>6 DEF NoRecord, Streams
<1>6. ASSUME NEW g \in Flushers, RecordTaken(g), Line' = Line
      PROVE  Good
  <2>1. Coming(s)' = Coming(s)
    BY <1>6, ComingSteps
  <2>2. UNCHANGED <<printed, buffer>>
        /\ body' = [stream |-> currentRecordType, chunks |-> buffer[currentRecordType]]
    BY <1>6 DEF RecordTaken, processVars
  <2>3. InOrder(s)' /\ ChunksOf(s)' = 1 .. printed'[s]
    BY <1>6, <1>w, <2>1, <2>2, OrderKept
  <2> QED
    BY <2>2, <2>3
<1>7. ASSUME NEW g \in Flushers, RecordAppended(g), Line' = Append(Line, body)
      PROVE  Good
  <2>1. body \in Records /\ body # NoRecord
    BY <1>7 DEF RecordAppended, At, MutexInv, Typed, RecordsTyped
  <2>2. Coming(s)' = IF body.stream = s THEN held[s] \o pipe[s] ELSE Coming(s)
    BY <1>7, <2>1, ComingSteps
  <2>3. printed' = printed /\ body' = NoRecord
    BY <1>7 DEF RecordAppended, processVars
  <2>4. CASE body.stream = s
    <3>1. InOrder(s)' /\ ChunksOf(s)' = ChunksOf(s)
      BY <1>w, <1>7, <2>1, <2>2, <2>4, OrderRecorded
    <3> QED
      BY <1>w, <2>3, <3>1 DEF NoRecord, Streams
  <2>5. CASE body.stream # s
    <3>1. InOrder(s)' /\ ChunksOf(s)' = ChunksOf(s)
      BY <1>w, <1>7, <2>2, <2>5, OrderBeside
    <3> QED
      BY <1>w, <2>3, <3>1 DEF NoRecord, Streams
  <2> QED
    BY <2>4, <2>5
<1> HIDE DEF Good
<1>8. ASSUME \E g \in Flushers : RecordAppended(g) PROVE Good
  <2>1. Line' = Append(Line, body)
    BY <1>8, LineSteps
  <2> QED
    BY <1>7, <1>8, <2>1
<1>9. ASSUME \A g \in Flushers : ~RecordAppended(g) PROVE Good
  <2>1. Line' = Line
    BY <1>9, LineSteps
  <2>2. \/ Quiet
        \/ \E t \in Streams : ProcessPrints(t) \/ CopierReads(t) \/ ChunkWritten(t)
        \/ \E g \in Flushers : RecordTaken(g)
    BY <1>9, OutputSteps
  <2> QED
    BY <1>2, <1>3, <1>4, <1>5, <1>6, <2>1, <2>2
<1> QED
  BY <1>8, <1>9 DEF Good

\* At first nothing is printed.
LEMMA InitOutput == Init => SilentInv /\ GrownInv /\ OutputInv
<1> SUFFICES ASSUME Init PROVE SilentInv /\ GrownInv /\ OutputInv
  OBVIOUS
<1>1. /\ \A s \in Streams : /\ pipe[s] = <<>> /\ held[s] = <<>> /\ buffer[s] = <<>>
                           /\ printed[s] = 0 /\ pc[s] = "none"
      /\ handed = <<>> /\ records = <<>> /\ body = NoRecord
  BY DEF Init, Nothing, Goroutines, Streams
<1>2. Line = <<>>
  BY <1>1 DEF Line, Waiting
<1>3. ASSUME NEW s \in Streams PROVE Coming(s) = <<>> /\ Own(s) = {}
  BY <1>1, <1>2 DEF Coming, Own
<1>4. ASSUME NEW s \in Streams PROVE InOrder(s)
  BY <1>3 DEF InOrder, Increasing
<1>5. ASSUME NEW s \in Streams PROVE ChunksOf(s) = 1 .. printed[s]
  <2>1. ChunksOf(s) = {} /\ printed[s] = 0
    BY <1>1, <1>3 DEF ChunksOf, Range
  <2>2. 1 .. 0 = {}
    OBVIOUS
  <2> QED
    BY <2>1, <2>2
<1>6. SilentInv /\ GrownInv
  BY <1>1 DEF SilentInv, GrownInv
<1>7. OutputInv
  BY <1>1, <1>4, <1>5 DEF OutputInv, NoRecord, Streams
<1> QED
  BY <1>6, <1>7

\* What a task prints to one stream is handed on in order and as a whole, for
\* outputs and pipes of every size (OutputBuffer, io.Copy, flushLoop and Stop).
THEOREM OneStreamInOrderHolds == Spec => []OneStreamInOrder
<1>1. Typed /\ ClosingInv /\ MutexInv /\ SilentInv /\ GrownInv /\ OutputInv /\ [Next]_vars
          => SilentInv' /\ GrownInv' /\ OutputInv'
  BY StepSilentInv, StepGrownInv, StepOutputInv
<1>2. OutputInv => OneStreamInOrder
  BY DEF OutputInv, OneStreamInOrder
<1> QED
  BY <1>1, <1>2, InitOutput, ExecutionInvariant, PTL DEF Spec
=============================================================================
