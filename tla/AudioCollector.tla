--------------------------- MODULE AudioCollector ---------------------------
(***************************************************************************)
(* The capture thread and its two buffers (PipeWireWorker, AudioCollector).*)
(* PipeWire calls processStream in its realtime thread while it streams;   *)
(* a timer in the worker's loop clears what is shown when it does not, and *)
(* notices that the worker is to stop.  Processors copy the read buffer    *)
(* in threads of their own, without any lock.                              *)
(***************************************************************************)
EXTENDS Integers, Sequences

CONSTANTS
    ChunkSize,    \* CHUNK_SIZE
    MaxChunks,    \* bound on the chunks of a stream
    LateTimers    \* whether the loop may be ten timeouts late

ASSUME CollectorAssumption ==
    ChunkSize \in Nat \ {0} /\ MaxChunks \in Nat /\ LateTimers \in BOOLEAN

VARIABLES
    buffer,       \* m_buffer1, m_buffer2: the chunk each sample is of, 0: silence
    read, write,  \* m_readBuffer, m_writeBuffer
    writer,       \* a call in progress of the loop and of the realtime thread
    reader,       \* a readChunk in progress
    chunks,       \* chunks so far
    stream, timer, idle, stopping, running
worker == <<stream, timer, idle, stopping, running>>
collectorVars == <<buffer, read, write, writer, reader, chunks, stream, timer, idle,
                   stopping, running>>

Threads == {"loop", "rt"}
NotWriting == [at |-> 0, last |-> 0, into |-> 0, chunk |-> 0, old |-> 0]
NoRead == [at |-> 0, from |-> 0, got |-> <<>>, was |-> <<>>, swapped |-> FALSE]

Busy(t) == writer[t].into # 0

\* ------------------------------------------------------------ the buffers

\* No more samples than the buffers are long
Taken(count) == IF count > ChunkSize THEN ChunkSize ELSE count

\* clearBuffer and loadChunk start: the write buffer is looked up.
Begin(t, chunk, count) ==
    /\ ~Busy(t)
    /\ writer' = [writer EXCEPT ![t] = [NotWriting EXCEPT !.last = Taken(count),
                                                          !.into = write,
                                                          !.chunk = chunk]]
    /\ UNCHANGED <<buffer, read, write, reader>>

\* One sample is written.
WriteSample(t) ==
    /\ writer[t].at < writer[t].last
    /\ writer' = [writer EXCEPT ![t].at = @ + 1]
    /\ buffer' = [buffer EXCEPT ![writer[t].into][writer'[t].at] = writer[t].chunk]
    /\ UNCHANGED <<read, write, reader, chunks, worker>>

\* The chunk is shown as soon as it has begun.
MutExchange(t) ==
    /\ Busy(t) /\ writer[t].old = 0
    /\ read' = writer[t].into
    /\ writer' = [writer EXCEPT ![t].old = read]
    /\ reader' = [reader EXCEPT !.swapped = reader.at > 0]
    /\ UNCHANGED <<buffer, write, chunks, worker>>

\* The buffers are exchanged,
Exchange(t) ==
    /\ Busy(t) /\ writer[t].old = 0
    /\ writer[t].at = writer[t].last
    /\ read' = writer[t].into
    /\ writer' = [writer EXCEPT ![t].old = read]
    /\ reader' = [reader EXCEPT !.swapped = reader.at > 0]
    /\ UNCHANGED <<buffer, write, chunks, worker>>

\* and what was read is the next to be written.
StoreWriteBuffer(t) ==
    /\ writer[t].old # 0
    /\ write' = writer[t].old
    /\ writer' = [writer EXCEPT ![t] = NotWriting]
    /\ UNCHANGED <<buffer, read, reader, chunks, worker>>

\* readChunk: the buffer is looked up once,
BeginRead ==
    /\ reader.at = 0
    /\ reader' = [at |-> 1, from |-> read, got |-> <<>>, was |-> buffer[read],
                  swapped |-> FALSE]
    /\ UNCHANGED <<buffer, read, write, writer, chunks, worker>>

\* copied sample by sample,
ReadSample ==
    /\ reader.at \in 1..ChunkSize
    /\ reader' = [reader EXCEPT !.at = @ + 1,
                                !.got = Append(@, buffer[reader.from][reader.at])]
    /\ UNCHANGED <<buffer, read, write, writer, chunks, worker>>

\* and used.
EndRead ==
    /\ reader.at > ChunkSize
    /\ reader' = NoRead
    /\ UNCHANGED <<buffer, read, write, writer, chunks, worker>>

\* ------------------------------------------------------------ the worker

\* The loop quits once it is asked to, by whichever thread.
Quits == /\ running' = FALSE
         /\ UNCHANGED <<buffer, read, write, writer, reader, chunks, stream, timer, idle, stopping>>

\* handleTimeout
HandleTimeout ==
    /\ running /\ timer # "off" /\ ~Busy("loop")
    /\ IF stopping THEN Quits
       ELSE /\ UNCHANGED <<chunks, stream, stopping, running>>
            /\ \/ /\ ~idle
                  /\ Begin("loop", 0, ChunkSize)
                  /\ UNCHANGED <<timer, idle>>
               \/ /\ ~idle /\ LateTimers
                  /\ idle' = TRUE /\ timer' = "slow"
                  /\ UNCHANGED <<buffer, read, write, writer, reader>>
               \/ /\ idle
                  /\ UNCHANGED <<buffer, read, write, writer, reader, timer, idle>>

TimerOf(state) ==
    CASE state = "paused" -> "fast" [] state = "streaming" -> "off" [] OTHER -> timer

\* streamStateChanged, in the loop; PipeWire starts to process after it and
\* is done before.
StreamStateChanged(state) ==
    /\ running /\ ~Busy("loop") /\ ~Busy("rt")
    /\ state # stream /\ stream # "error"
    /\ stream' = state
    /\ idle' = FALSE
    /\ timer' = TimerOf(state)
    /\ running' = (state # "error")
    /\ UNCHANGED <<buffer, read, write, writer, reader, chunks, stopping>>

\* processStream
ProcessStream ==
    /\ running /\ stream = "streaming" /\ ~Busy("rt")
    /\ IF stopping THEN Quits
       ELSE /\ chunks < MaxChunks
            /\ chunks' = chunks + 1
            /\ \E count \in 1..(ChunkSize + 1) : Begin("rt", chunks + 1, count)
            /\ UNCHANGED worker

\* AudioCollector::stop
RequestStop ==
    /\ ~stopping /\ stopping' = TRUE
    /\ UNCHANGED <<buffer, read, write, writer, reader, chunks, stream, timer, idle, running>>

\* AudioCollector::start, when the thread before was joined
Start ==
    /\ stopping /\ ~running /\ ~Busy("rt")
    /\ Begin("loop", 0, ChunkSize)
    /\ stream' = "connecting" /\ timer' = "fast" /\ idle' = TRUE
    /\ stopping' = FALSE /\ running' = TRUE
    /\ UNCHANGED chunks

CollectorInit ==
    /\ buffer = [i \in {1, 2} |-> [k \in 1..ChunkSize |-> 0]]
    /\ read = 1 /\ write = 2
    /\ writer = [t \in Threads |-> NotWriting]
    /\ reader = NoRead
    /\ chunks = 0
    /\ stream = "connecting" /\ timer = "fast" /\ idle = TRUE
    /\ stopping = FALSE /\ running = TRUE

States == {"connecting", "unconnected", "paused", "streaming", "error"}

CollectorNext ==
    \/ \E t \in Threads : WriteSample(t) \/ Exchange(t) \/ StoreWriteBuffer(t)
    \/ BeginRead \/ ReadSample \/ EndRead
    \/ HandleTimeout
    \/ \E state \in States \ {"connecting"} : StreamStateChanged(state)
    \/ ProcessStream \/ RequestStop \/ Start

CollectorSpec == CollectorInit /\ [][CollectorNext]_collectorVars

\* The timer fires, PipeWire calls as long as it streams and both threads get on.
CollectorLiveSpec ==
    /\ CollectorSpec
    /\ WF_collectorVars(HandleTimeout) /\ WF_collectorVars(ProcessStream)
    /\ \A t \in Threads :
          /\ WF_collectorVars(WriteSample(t)) /\ WF_collectorVars(Exchange(t))
          /\ WF_collectorVars(StoreWriteBuffer(t))

\* --------------------------------------------------------- properties

CollectorTypeOK ==
    /\ buffer \in [{1, 2} -> [1..ChunkSize -> 0..MaxChunks]]
    /\ read \in {1, 2} /\ write \in {1, 2}
    /\ writer \in [Threads -> [at : 0..ChunkSize, last : 0..ChunkSize, into : 0..2,
                               chunk : 0..MaxChunks, old : 0..2]]
    /\ reader \in [at : 0..ChunkSize + 1, from : 0..2, got : Seq(0..MaxChunks),
                   was : Seq(0..MaxChunks), swapped : BOOLEAN]
    /\ chunks \in 0..MaxChunks
    /\ stream \in States /\ timer \in {"off", "fast", "slow"}
    /\ idle \in BOOLEAN /\ stopping \in BOOLEAN /\ running \in BOOLEAN

\* The loop and the realtime thread never write at the same time, so the two
\* buffers never become one (the timer of streamStateChanged).
BuffersStayApart ==
    /\ ~(Busy("loop") /\ Busy("rt"))
    /\ (\A t \in Threads : ~Busy(t)) => read # write

\* What a processor copies is what the buffer held when it looked, unless the
\* buffers were exchanged meanwhile, whatever is being written (loadChunk,
\* readChunk).
ReadsAreWhole == reader.at > ChunkSize /\ ~reader.swapped => reader.got = reader.was

\* Two threads write, others read, and there is no lock: the buffers stay two,
\* and a chunk is read as it was.
SoundIsWhole == CollectorTypeOK /\ BuffersStayApart /\ ReadsAreWhole

\* A worker that is asked to stop ends, once its stream settles in a state
\* where the timer or PipeWire calls it (stop waits for it in the main thread).
StopIsNoticed ==
    \A state \in {"connecting", "paused", "streaming"} :
        <>[](stream = state) => []<>~(stopping /\ running)

\* Once PipeWire pauses, silence is shown, if the timer is in time.
PausedIsSilent ==
    <>[](running /\ stream = "paused") => <>[](\A k \in 1..ChunkSize : buffer[read][k] = 0)
=============================================================================
