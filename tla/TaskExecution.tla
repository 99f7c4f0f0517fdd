---------------------------- MODULE TaskExecution ----------------------------
(***************************************************************************)
(* One execution of a task: ApplicationScheduler.executeTask, the process  *)
(* ShellExecutor.Execute starts for it, and the OutputBuffer that turns    *)
(* what the process prints into log records of a sequence.  The goroutines *)
(* are executeTask itself, the two that copy the pipes of the process, and *)
(* flushLoop.  Only the records of the buffer are under its mutex; the     *)
(* type of the current record and the two byte buffers are not.            *)
(*                                                                         *)
(* What a stream prints is a sequence of chunks, numbered from 1; a chunk  *)
(* is what one Read of io.Copy returns.                                    *)
(***************************************************************************)
EXTENDS Naturals, SequencesExt, APIClient

CONSTANTS
    PipeSize,  \* bound: the chunks a pipe holds
    MaxChunks  \* bound: the chunks the process prints

ASSUME TaskExecutionAssumption ==
    /\ PipeSize \in Nat \ {0}
    /\ MaxChunks \in Nat

Streams == {"stdout", "stderr"}  \* also the goroutines that copy them
Goroutines == {"main", "flush"} \cup Streams

VARIABLES
    pc,                \* where each goroutine is
    sequence,          \* what the backend knows: "none", "inProgress", "finished"
    process,           \* "none", "running" or "exited"
    printed,           \* how many chunks each stream got
    pipe,              \* the chunks in each pipe
    readEnd,           \* the agent's ends of the pipes are "open" or "closed"
    held,              \* the chunk a copier has read and not written
    currentRecordType, \* buf.currentRecordType, "none" for noRecord
    buffer,            \* buf.stdout and buf.stderr
    grown,             \* the buffer whose length a Write has taken to grow it
    records,           \* buf.records, each a stream and its chunks
    mut,               \* who holds buf.mut, "free" if nobody does
    body,              \* the record FlushRecord has taken out of a buffer
    closing,           \* flushLoop received from flushClose
    handed,            \* the records FlushCallback was given
    connected,         \* the websocket client is connected
    fault              \* why the agent died, "none" while it lives

processVars == <<process, printed, pipe, readEnd>>
bufferVars == <<currentRecordType, buffer, grown, records, mut, body>>
flushVars == <<closing, handed>>
data == <<sequence, processVars, held, bufferVars, flushVars, connected>>
vars == <<pc, data, fault>>

NoRecord == [stream |-> "none", chunks |-> <<>>]
Nothing == [s \in Streams |-> <<>>]

Init ==
    /\ pc = [g \in Goroutines |-> IF g = "main" THEN "create" ELSE "none"]
    /\ sequence = "none"
    /\ process = "none" /\ printed = [s \in Streams |-> 0]
    /\ pipe = Nothing /\ readEnd = "open" /\ held = Nothing
    /\ currentRecordType = "none" /\ buffer = Nothing /\ grown = Nothing /\ records = <<>>
    /\ mut = "free" /\ body = NoRecord
    /\ closing = FALSE /\ handed = <<>>
    /\ connected \in BOOLEAN
    /\ fault = "none"

Alive == fault = "none"
At(g, label) == Alive /\ pc[g] = label
Goto(g, label) == pc' = [pc EXCEPT ![g] = label]

\* A step from one place of g to another that changes nothing else.
Moves(g, from, to) == At(g, from) /\ Goto(g, to) /\ UNCHANGED <<data, fault>>

Dies(why) == fault' = why /\ UNCHANGED <<pc, data>>

-----------------------------------------------------------------------------
(* executeTask and Execute *)

SequenceCreated ==
    /\ At("main", "create")
    /\ \E r \in Responses : CreateSequence(r) = "ok"
    /\ sequence' = "inProgress"
    /\ Goto("main", "stdin")
    /\ UNCHANGED <<processVars, held, bufferVars, flushVars, connected, fault>>

\* The error is logged, and then seq.ID is read from the nil seq; the backend
\* may have made the sequence all the same.
SequenceFails ==
    /\ At("main", "create")
    /\ \E r \in Responses : \E made \in CarriedOut(r) :
           /\ CreateSequence(r) # "ok"
           /\ sequence' = IF made THEN "inProgress" ELSE "none"
    /\ fault' = "nil sequence"
    /\ UNCHANGED <<pc, processVars, held, bufferVars, flushVars, connected>>

\* The body is written before the process is started, so nothing reads it: a
\* body larger than the pipe is never written, and Execute waits for good.
BodyWritten == Moves("main", "stdin", "start")
BodyTooLong == Moves("main", "stdin", "blocked")

\* A pipe that cannot be made ends Execute before anything else is started.
PipeFails == Moves("main", "stdin", "finish")

\* The goroutines are started, then cmd.Start starts the process or fails and
\* closes the pipes.
Started == [pc EXCEPT !["stdout"] = "read", !["stderr"] = "read", !["flush"] = "select"]

ProcessStarts ==
    /\ At("main", "start")
    /\ process' = "running"
    /\ pc' = [Started EXCEPT !["main"] = "wait"]
    /\ UNCHANGED <<sequence, printed, pipe, readEnd, held, bufferVars, flushVars, connected, fault>>

StartFails ==
    /\ At("main", "start")
    /\ readEnd' = "closed"
    /\ pc' = [Started EXCEPT !["main"] = "join"]
    /\ UNCHANGED <<sequence, process, printed, pipe, held, bufferVars, flushVars, connected, fault>>

\* cmd.Wait closes the pipes as soon as the process is gone, read or not.
ProcessWaited ==
    /\ At("main", "wait")
    /\ process = "exited"
    /\ readEnd' = "closed"
    /\ Goto("main", "join")
    /\ UNCHANGED <<sequence, process, printed, pipe, held, bufferVars, flushVars, connected, fault>>

\* Mutant: the copiers are not waited for.
CopiersIgnored == TRUE

\* wg.Wait
CopiersDone == \A s \in Streams : pc[s] = "done"

CopiersJoined == Moves("main", "join", "stop") /\ CopiersDone

\* output.Stop: flushLoop receives from flushClose ...
StopSent ==
    /\ At("main", "stop")
    /\ pc["flush"] = "select"
    /\ closing' = TRUE
    /\ pc' = [pc EXCEPT !["main"] = "confirm", !["flush"] = "flushRecord"]
    /\ UNCHANGED <<sequence, processVars, held, bufferVars, handed, connected, fault>>

\* ... and closedConfirmation is received from flushLoop.
StopConfirmed ==
    /\ At("main", "confirm")
    /\ pc["flush"] = "confirm"
    /\ pc' = [pc EXCEPT !["main"] = "finish", !["flush"] = "done"]
    /\ UNCHANGED <<data, fault>>

\* FinishSequence, whose error is returned to nobody.
Finish ==
    /\ At("main", "finish")
    /\ \E r \in Responses : \E made \in CarriedOut(r) :
           sequence' = IF made THEN "finished" ELSE sequence
    /\ Goto("main", "done")
    /\ UNCHANGED <<processVars, held, bufferVars, flushVars, connected, fault>>

-----------------------------------------------------------------------------
(* The process *)

ProcessPrints(s) ==
    /\ Alive
    /\ process = "running"
    /\ Len(pipe[s]) < PipeSize
    /\ printed["stdout"] + printed["stderr"] < MaxChunks
    /\ printed' = [printed EXCEPT ![s] = @ + 1]
    /\ pipe' = [pipe EXCEPT ![s] = Append(@, printed'[s])]
    /\ UNCHANGED <<pc, sequence, process, readEnd, held, bufferVars, flushVars, connected, fault>>

ProcessExits ==
    /\ Alive
    /\ process = "running"
    /\ process' = "exited"
    /\ UNCHANGED <<pc, sequence, printed, pipe, readEnd, held, bufferVars, flushVars, connected, fault>>

-----------------------------------------------------------------------------
(* io.Copy into OutputBuffer.Write *)

CopierReads(s) ==
    /\ At(s, "read")
    /\ readEnd = "open"
    /\ pipe[s] # <<>>
    /\ held' = [held EXCEPT ![s] = <<Head(pipe[s])>>]
    /\ pipe' = [pipe EXCEPT ![s] = Tail(@)]
    /\ Goto(s, "check")
    /\ UNCHANGED <<sequence, process, printed, readEnd, bufferVars, flushVars, connected, fault>>

\* The end of what the process prints, or the pipe closed by cmd.Wait.
CopierEnds(s) ==
    /\ Moves(s, "read", "done")
    /\ readEnd = "closed" \/ (process = "exited" /\ pipe[s] = <<>>)

\* The current record goes on, while its deadline has not passed, or is to be
\* flushed first.
RecordGoesOn(s) == Moves(s, "check", "setType") /\ currentRecordType \in {"none", s}
RecordIsFlushed(s) == Moves(s, "check", "flushRecord") /\ currentRecordType # "none"

TypeSet(s) ==
    /\ At(s, "setType")
    /\ currentRecordType' = s
    /\ Goto(s, "write")
    /\ UNCHANGED <<sequence, processVars, held, buffer, grown, records, mut, body, flushVars,
                   connected, fault>>

\* w.Write takes the length of the buffer ...
LengthTaken(s) ==
    /\ At(s, "write")
    /\ grown' = [grown EXCEPT ![s] = buffer[s]]
    /\ Goto(s, "store")
    /\ UNCHANGED <<sequence, processVars, held, currentRecordType, buffer, records, mut, body,
                   flushVars, connected, fault>>

\* ... and re-slices it to hold the chunk as well: what a Reset has dropped
\* since is in the buffer again.
ChunkWritten(s) ==
    /\ At(s, "store")
    /\ buffer' = [buffer EXCEPT ![s] = grown[s] \o held[s]]
    /\ grown' = [grown EXCEPT ![s] = <<>>]
    /\ held' = [held EXCEPT ![s] = <<>>]
    /\ Goto(s, "read")
    /\ UNCHANGED <<sequence, processVars, currentRecordType, records, mut, body, flushVars,
                   connected, fault>>

\* A Write that the Reset of its buffer meets may index past its end.
BufferRace(s) ==
    /\ At(s, "store")
    /\ (mut # "free" /\ body.stream = s) \/ grown[s] # buffer[s]
    /\ Dies("buffer race")

-----------------------------------------------------------------------------
(* FlushRecord, called by a copier and, at the end, by flushLoop *)

\* Mutants: flushLoop goes on like a copier, and confirms before it flushes.
AfterFlushRecordWrites(g) == "setType"
AfterFlushRecordConfirms(g) == IF g = "flush" THEN "confirm" ELSE "setType"

AfterFlushRecord(g) == IF g = "flush" THEN "flush" ELSE "setType"

NothingToFlush(g) ==
    Moves(g, "flushRecord", AfterFlushRecord(g)) /\ currentRecordType = "none"

RecordChosen(g) == Moves(g, "flushRecord", "lock") /\ currentRecordType # "none"

\* With buf.mut locked the type is read again, and its buffer is copied.
RecordTaken(g) ==
    /\ At(g, "lock")
    /\ mut = "free"
    /\ currentRecordType # "none"
    /\ mut' = g
    /\ body' = [stream |-> currentRecordType, chunks |-> buffer[currentRecordType]]
    /\ Goto(g, "append")
    /\ UNCHANGED <<sequence, processVars, held, currentRecordType, buffer, grown, records,
                   flushVars, connected, fault>>

\* Another FlushRecord was faster: the type has no buffer any more.
RecordIsGone(g) ==
    /\ At(g, "lock")
    /\ mut = "free"
    /\ currentRecordType = "none"
    /\ Dies("nil buffer")

\* Mutant: the mutex stays locked.
MutKept == mut
MutOnceAppended == "free"

\* The record is appended, and the buffer reset with what came meanwhile.
RecordAppended(g) ==
    /\ At(g, "append")
    /\ records' = Append(records, body)
    /\ buffer' = [buffer EXCEPT ![body.stream] = <<>>]
    /\ currentRecordType' = "none"
    /\ mut' = MutOnceAppended /\ body' = NoRecord
    /\ Goto(g, AfterFlushRecord(g))
    /\ UNCHANGED <<sequence, processVars, held, grown, flushVars, connected, fault>>

-----------------------------------------------------------------------------
(* flushLoop and Flush *)

Tick == Moves("flush", "select", "flush") /\ records # <<>>

AfterFlush == IF closing THEN "confirm" ELSE "select"

FlushEmpty == Moves("flush", "flush", AfterFlush) /\ records = <<>>

\* Mutant: Flush does not lock.
FlushUnlocked == UNCHANGED mut

FlushLocks == mut = "free" /\ mut' = "flush"
RecordsOnceFlushed == <<>>

\* The callback gets the records, which it sends when connected.
FlushBegins ==
    /\ At("flush", "flush")
    /\ records # <<>>
    /\ FlushLocks
    /\ handed' = handed \o records
    /\ Goto("flush", IF connected THEN "sending" ELSE "flushed")
    /\ UNCHANGED <<sequence, processVars, held, currentRecordType, buffer, grown, records, body,
                   closing, connected, fault>>

LogsTaken == Moves("flush", "sending", "flushed") /\ connected

\* The callback is back: the records are dropped, sent or not.
FlushEnds ==
    /\ At("flush", "flushed")
    /\ records' = RecordsOnceFlushed
    /\ mut' = "free"
    /\ Goto("flush", AfterFlush)
    /\ UNCHANGED <<sequence, processVars, held, currentRecordType, buffer, grown, body, flushVars,
                   connected, fault>>

-----------------------------------------------------------------------------
\* writePump has ended: the channel a sender waits on is never received from
\* again, since the next connection gets a channel of its own.
ConnectionLost ==
    /\ Alive
    /\ connected
    /\ connected' = FALSE
    /\ pc' = IF pc["flush"] = "sending" THEN [pc EXCEPT !["flush"] = "orphaned"] ELSE pc
    /\ UNCHANGED <<sequence, processVars, held, bufferVars, flushVars, fault>>

Reconnected ==
    /\ Alive
    /\ ~connected
    /\ connected' = TRUE
    /\ UNCHANGED <<pc, sequence, processVars, held, bufferVars, flushVars, fault>>

-----------------------------------------------------------------------------
ExecuteTask ==
    \/ SequenceCreated \/ SequenceFails
    \/ BodyWritten \/ BodyTooLong \/ PipeFails
    \/ ProcessStarts \/ StartFails \/ ProcessWaited
    \/ CopiersJoined \/ StopSent \/ StopConfirmed \/ Finish

FlushRecord(g) ==
    \/ NothingToFlush(g) \/ RecordChosen(g)
    \/ RecordTaken(g) \/ RecordIsGone(g) \/ RecordAppended(g)

Copier(s) ==
    \/ CopierReads(s) \/ CopierEnds(s)
    \/ RecordGoesOn(s) \/ RecordIsFlushed(s)
    \/ TypeSet(s) \/ LengthTaken(s) \/ ChunkWritten(s) \/ BufferRace(s)
    \/ FlushRecord(s)

FlushLoop ==
    Tick \/ FlushEmpty \/ FlushBegins \/ LogsTaken \/ FlushEnds \/ FlushRecord("flush")

Environment ==
    \/ \E s \in Streams : ProcessPrints(s)
    \/ ProcessExits \/ ConnectionLost \/ Reconnected

Next ==
    \/ ExecuteTask
    \/ \E s \in Streams : Copier(s)
    \/ FlushLoop
    \/ Environment

Spec == Init /\ [][Next]_vars

\* The goroutines run and requests are answered; writePump takes what it is
\* sent while its connection lasts.  Nothing is assumed of the process.
FairSpec ==
    /\ Spec
    /\ WF_vars(ExecuteTask)
    /\ \A s \in Streams : WF_vars(Copier(s))
    /\ WF_vars(FlushLoop)

-----------------------------------------------------------------------------
MainLabels == {"create", "stdin", "blocked", "start", "wait", "join", "stop", "confirm",
               "finish", "done"}
CopierLabels == {"none", "read", "check", "flushRecord", "lock", "append", "setType", "write",
                 "store", "done"}
FlushLabels == {"none", "select", "flushRecord", "lock", "append", "flush", "sending", "flushed",
                "orphaned", "confirm", "done"}
Chunks == 1 .. MaxChunks
IsRecord(r) == r.stream \in Streams /\ r.chunks \in Seq(Chunks)
IsRecords(rs) == \A i \in DOMAIN rs : IsRecord(rs[i])

TypeOK ==
    /\ pc["main"] \in MainLabels
    /\ pc["flush"] \in FlushLabels
    /\ \A s \in Streams : pc[s] \in CopierLabels
    /\ sequence \in {"none", "inProgress", "finished"}
    /\ process \in {"none", "running", "exited"}
    /\ printed \in [Streams -> 0 .. MaxChunks]
    /\ pipe \in [Streams -> Seq(Chunks)]
    /\ readEnd \in {"open", "closed"}
    /\ held \in [Streams -> Seq(Chunks)]
    /\ currentRecordType \in Streams \cup {"none"}
    /\ buffer \in [Streams -> Seq(Chunks)] /\ grown \in [Streams -> Seq(Chunks)]
    /\ mut \in {"free", "flush"} \cup Streams
    /\ body = NoRecord \/ IsRecord(body)
    /\ IsRecords(records) /\ IsRecords(handed)
    /\ closing \in BOOLEAN
    /\ connected \in BOOLEAN
    /\ fault \in {"none", "nil sequence", "nil buffer", "buffer race"}

\* The records made so far that are not lost, the oldest first: those a callback
\* was given, and those that wait for one.  Flush keeps what it gave out until
\* the callback is back.
Waiting == IF pc["flush"] \in {"sending", "flushed", "orphaned"} THEN <<>> ELSE records
Line == handed \o Waiting
Own(s) == {i \in DOMAIN Line : Line[i].stream = s}

\* The chunks of stream s no record was made of yet.
Coming(s) == buffer[s] \o held[s] \o pipe[s]

\* Chunks in the order they were printed in.
Increasing(chunks) == \A i, j \in DOMAIN chunks : i < j => chunks[i] < chunks[j]
Precedes(chunks, others) == \A c \in Range(chunks), d \in Range(others) : c < d

InOrder(s) ==
    /\ Increasing(Coming(s))
    /\ \A i \in Own(s) : Increasing(Line[i].chunks) /\ Precedes(Line[i].chunks, Coming(s))
    /\ \A i, j \in Own(s) : i < j => Precedes(Line[i].chunks, Line[j].chunks)

\* The chunks of stream s, from the callback back to the pipe.
ChunksOf(s) == Range(Coming(s)) \cup UNION {Range(Line[i].chunks) : i \in Own(s)}

\* The task has printed to no stream but s.
OnlyPrinted(s) == \A other \in Streams \ {s} : printed[other] = 0

\* What a task prints to one stream is handed to the callback in order, and
\* nothing is lost or doubled on the way, wherever Write, the deadline of a
\* record, the ticks of flushLoop and Stop meet (OutputBuffer).
OneStreamInOrder ==
    \A s \in Streams : OnlyPrinted(s) => InOrder(s) /\ ChunksOf(s) = 1 .. printed[s]

\* A task that prints to one stream cannot take the agent down: the buffer is
\* shared without a lock by goroutines that the lone writer always precedes.
OneStreamIsSafe ==
    (\E s \in Streams : OnlyPrinted(s)) => fault \notin {"nil buffer", "buffer race"}

\* The sequence is finished last: once executeTask asks the backend to finish
\* it, no record waits and none will be sent to it (Stop against flushLoop).
NothingSentAfterFinish ==
    pc["main"] \in {"finish", "done"} =>
        /\ records = <<>> /\ mut = "free"
        /\ pc["flush"] \in {"none", "done"}

\* When the process has exited the execution ends, unless the agent dies or the
\* connection was lost with a message half sent.
ExecutionEnds ==
    (process = "exited") ~> (pc["main"] = "done" \/ pc["flush"] = "orphaned" \/ fault # "none")

\* "if len(v) != 2": after cmd.Run all that the process printed has been read
\* out of the pipes by the copiers.
OutputIsRead ==
    pc["main"] \in {"stop", "confirm", "finish", "done"} => \A s \in Streams : pipe[s] = <<>>
=============================================================================
