------------------------- MODULE BackgroundCommand -------------------------
(***************************************************************************)
(* One command of BackgroundCommandManager                                 *)
(* (src/cecli/helpers/background_commands.py), as the shell tool           *)
(* (tools/shell.py) and an agent's prompt (get_background_command_output   *)
(* of coders/agent_coder.py) use it.                                       *)
(*                                                                         *)
(* Threads: the process, the reader of its output, the writer of its       *)
(* input, and the worker loop, whose calls block it but not the others.    *)
(***************************************************************************)
EXTENDS OutputBuffers

CONSTANTS
  Terminals,    \* whether commands have a pseudo-terminal: a set of BOOLEANs
  DiskFaults,   \* the pages of a spill whose write may fail; 0 for none
  MaxChunk,     \* bound: characters read at once (4096)
  MaxOutput,    \* bound: characters the process writes
  MaxInputs     \* bound: inputs sent

ASSUME CommandAssumption ==
  /\ Terminals \subseteq BOOLEAN
  /\ 0 \in DiskFaults /\ DiskFaults \subseteq Nat
  /\ MaxChunk \in Nat \ {0} /\ MaxOutput \in Nat /\ MaxInputs \in Nat

VARIABLES
  pty,         \* the command has a terminal
  turn,        \* "waiting": _execute_with_timeout awaits the process
  process,     \* "running", "terminated" (by a signal, still alive), "exited"
  output,      \* characters the process has written
  taken,       \* characters the reader has read
  reader, chunk,
  b,           \* the buffer
  last_read_position,
  stop_event,
  queue, data_ready,          \* InputBuffer
  writer, text, closed,       \* its thread; closed: the input's descriptor
  tracked,     \* the manager knows the command
  loop,        \* where the worker loop is in a call of several steps
  running,     \* what list_background_commands told it
  \* history
  sent, written,   \* inputs
  told,            \* characters given by get_new_output, in order
  handed,          \* characters given by get_all
  forgotten        \* characters a full buffer has dropped

outputVars == <<output, taken, reader, chunk, b, last_read_position, told, handed, forgotten>>
inputVars == <<queue, data_ready, writer, text, closed, sent, written>>
vars == <<pty, turn, process, outputVars, stop_event, inputVars, tracked, loop, running>>

CommandTypeOK ==
  /\ pty \in BOOLEAN /\ turn \in {"waiting", "over"}
  /\ process \in {"running", "terminated", "exited"}
  /\ output \in 0..MaxOutput /\ taken \in 0..output
  /\ reader \in {"checking", "blocked", "appending", "ended"}
  /\ chunk \in Seq(1..MaxOutput)
  /\ b \in Buffer
  /\ last_read_position \in 0..MaxOutput
  /\ stop_event \in BOOLEAN /\ data_ready \in BOOLEAN /\ closed \in BOOLEAN
  /\ queue \in Seq(1..MaxInputs) /\ text \in Seq(1..MaxInputs) /\ written \in Seq(1..MaxInputs)
  /\ writer \in {"checking", "waiting", "woken", "writing", "ended"}
  /\ sent \in 0..MaxInputs
  /\ tracked \in BOOLEAN /\ running \in BOOLEAN
  /\ loop \in {"free", "sending", "listed", "read", "reported", "stopping", "discarding"}
  /\ told \in Seq(1..MaxOutput)
  /\ handed \subseteq 1..MaxOutput /\ forgotten \subseteq 1..MaxOutput
  /\ (reader = "appending" <=> chunk # <<>>) /\ (writer = "ended" <=> closed)

\* start_background_command: with a timeout the shell tool brings a
\* PagedOutputBuffer of its own.
Init ==
  /\ pty \in Terminals
  /\ \/ turn = "waiting" /\ \E kind \in {"paged", "window"} : b = NewBuffer(kind)
     \/ turn = "over" /\ \E kind \in {"paged", "circular"} : b = NewBuffer(kind)
  /\ process = "running"
  /\ output = 0 /\ taken = 0
  /\ reader = "checking" /\ chunk = <<>>
  /\ last_read_position = 0
  /\ stop_event = FALSE
  /\ queue = <<>> /\ data_ready = FALSE
  /\ writer = "checking" /\ text = <<>> /\ closed = FALSE
  /\ tracked = TRUE
  /\ loop = "free" /\ running = TRUE
  /\ sent = 0 /\ written = <<>>
  /\ told = <<>> /\ handed = {} /\ forgotten = {}

-----------------------------------------------------------------------------
(* The process.                                                            *)

Alive == process # "exited"

Emit ==
  /\ Alive
  /\ output < MaxOutput
  /\ output' = output + 1
  /\ UNCHANGED <<pty, turn, process, taken, reader, chunk, b, last_read_position, told, handed, forgotten,
                 stop_event, inputVars, tracked, loop, running>>

Exit ==
  /\ Alive
  /\ process' = "exited"
  /\ UNCHANGED <<pty, turn, outputVars, stop_event, inputVars, tracked, loop, running>>

-----------------------------------------------------------------------------
(* The reader thread.                                                      *)

readerRest == <<pty, turn, process, output, last_read_position, told, handed,
                stop_event, inputVars, tracked, loop, running>>

ReaderChecks ==
  /\ reader = "checking"
  /\ reader' = IF stop_event THEN "ended" ELSE "blocked"
  /\ UNCHANGED <<readerRest, taken, chunk, b, forgotten>>

\* os.read returns what there is, in parts of any size.  Over pipes the code
\* has two such readers, one for stdout and one for stderr; this is both, the
\* stream being what they append, in that order.
Read(n) ==
  /\ reader = "blocked"
  /\ n \in 1..MaxChunk /\ taken + n <= output
  /\ chunk' = [i \in 1..n |-> taken + i]
  /\ taken' = taken + n
  /\ reader' = "appending"
  /\ UNCHANGED <<readerRest, b, forgotten>>

\* Broken variant of ReaderEnds: the end of the output is not seen, only the
\* closing of the terminal.
ReaderEndsOnClose ==
  /\ reader = "blocked"
  /\ pty /\ closed
  /\ reader' = "ended"
  /\ UNCHANGED <<readerRest, taken, chunk, b, forgotten>>

\* The end of the output; or the terminal has been closed under the reader.
ReaderEnds ==
  /\ reader = "blocked"
  /\ (~Alive /\ taken = output) \/ (pty /\ closed)
  /\ reader' = "ended"
  /\ UNCHANGED <<readerRest, taken, chunk, b, forgotten>>

\* The buffer's append; an error of the disk ends the thread.
AppendChunk(failing) ==
  /\ reader = "appending"
  /\ failing \in DiskFaults
  /\ b' = Added(b, chunk, failing)
  /\ forgotten' = IF b.kind = "paged" THEN forgotten
                  ELSE forgotten \cup ((ToSet(b.buffer) \cup ToSet(chunk)) \ ToSet(b'.buffer))
  /\ chunk' = <<>>
  /\ reader' = IF \E i \in DOMAIN b'.pages \ DOMAIN b.pages : b'.pages[i] = Missing THEN "ended" ELSE "checking"
  /\ UNCHANGED <<readerRest, taken>>

-----------------------------------------------------------------------------
(* The writer thread.                                                      *)

writerRest == <<pty, turn, process, outputVars, stop_event, tracked, loop, running, sent>>

\* The loop's condition; when it fails the descriptor is closed.
WriterChecks ==
  /\ writer = "checking"
  /\ writer' = IF stop_event \/ ~Alive THEN "ended" ELSE "waiting"
  /\ closed' = (writer' = "ended")
  /\ UNCHANGED <<writerRest, queue, data_ready, text, written>>

\* wait_for_input times out.
WriterTimesOut ==
  /\ writer = "waiting"
  /\ ~data_ready
  /\ writer' = "checking"
  /\ UNCHANGED <<writerRest, queue, data_ready, text, closed, written>>

WriterWakes ==
  /\ writer = "waiting"
  /\ data_ready
  /\ writer' = IF stop_event THEN "ended" ELSE "woken"
  /\ closed' = (writer' = "ended")
  /\ UNCHANGED <<writerRest, queue, data_ready, text, written>>

\* pop_all, under the lock.
PopAll ==
  /\ writer = "woken"
  /\ text' = queue
  /\ queue' = <<>>
  /\ data_ready' = FALSE
  /\ writer' = "writing"
  /\ UNCHANGED <<writerRest, closed, written>>

\* Broken variant of WriteText: the event is cleared after the write, not with
\* the queue.
WriteTextClears ==
  /\ writer = "writing"
  /\ written' = IF Alive THEN written \o text ELSE written
  /\ writer' = IF Alive \/ text = <<>> THEN "checking" ELSE "ended"
  /\ closed' = (writer' = "ended")
  /\ text' = <<>>
  /\ data_ready' = FALSE
  /\ UNCHANGED <<writerRest, queue>>

\* os.write, or an error because the process is gone.
WriteText ==
  /\ writer = "writing"
  /\ written' = IF Alive THEN written \o text ELSE written
  /\ writer' = IF Alive \/ text = <<>> THEN "checking" ELSE "ended"
  /\ closed' = (writer' = "ended")
  /\ text' = <<>>
  /\ UNCHANGED <<writerRest, queue, data_ready>>

-----------------------------------------------------------------------------
(* The worker loop.                                                        *)

\* send_input: the text is queued under the lock, the event is set after it.
Send ==
  /\ loop = "free" /\ tracked
  /\ sent < MaxInputs
  /\ sent' = sent + 1
  /\ queue' = Append(queue, sent + 1)
  /\ loop' = "sending"
  /\ UNCHANGED <<pty, turn, process, outputVars, stop_event, data_ready, writer, text, closed, written, tracked, running>>

SetReady ==
  /\ loop = "sending"
  /\ data_ready' = TRUE
  /\ loop' = "free"
  /\ UNCHANGED <<pty, turn, process, outputVars, stop_event, queue, writer, text, closed, sent, written, tracked, running>>

\* BackgroundProcess.get_new_output.
TellNew ==
  /\ told' = told \o NewOutput(b, last_read_position)
  /\ last_read_position' = b.total_added
  /\ UNCHANGED <<output, taken, reader, chunk, b, handed, forgotten>>

\* The shell tool's action tail.
TailOutput ==
  /\ loop = "free" /\ tracked
  /\ TellNew
  /\ UNCHANGED <<pty, turn, process, stop_event, inputVars, tracked, loop, running>>

\* get_background_command_output: what is running is listed first, ...
ListCommands ==
  /\ loop = "free" /\ tracked
  /\ running' = Alive
  /\ loop' = "listed"
  /\ UNCHANGED <<pty, turn, process, outputVars, stop_event, inputVars, tracked>>

\* ... then the new output is read, ...
ReadNew ==
  /\ loop = "listed"
  /\ TellNew
  /\ loop' = IF running THEN "free" ELSE "read"
  /\ UNCHANGED <<pty, turn, process, stop_event, inputVars, tracked, running>>

\* BackgroundProcess.stop up to its wait.
StopBegins(next) ==
  /\ stop_event' = TRUE
  /\ data_ready' = TRUE
  /\ process' = IF Alive THEN "terminated" ELSE process
  /\ loop' = next
  /\ UNCHANGED <<pty, turn, queue, writer, text, closed, sent, written, tracked, running>>

\* ... and a command that was listed as finished is stopped.
StopFinished ==
  /\ loop = "read"
  /\ StopBegins("discarding")
  /\ UNCHANGED outputVars

\* The shell tool's action stop; a turn that is interrupted or cancelled.
Stop ==
  /\ loop = "free" /\ tracked
  /\ \/ turn = "over" /\ StopBegins("stopping")
     \/ turn = "waiting" /\ StopBegins("discarding")
  /\ UNCHANGED outputVars

\* _execute_with_timeout: the process has ended in time; what the buffer holds
\* is the result of the command, ...
Completed ==
  /\ loop = "free" /\ tracked /\ turn = "waiting"
  /\ ~Alive
  /\ handed' = handed \cup ToSet(b.buffer)
  /\ b' = Cleared(b)
  /\ loop' = "reported"
  /\ UNCHANGED <<pty, turn, process, output, taken, reader, chunk, last_read_position, told, forgotten,
                 stop_event, inputVars, tracked, running>>

\* ... and the command is removed.
StopCompleted ==
  /\ loop = "reported"
  /\ StopBegins("discarding")
  /\ UNCHANGED outputVars

\* The timeout has elapsed: what there is so far is shown, and the command
\* goes on in the background.
TimedOut ==
  /\ loop = "free" /\ tracked /\ turn = "waiting"
  /\ handed' = handed \cup ToSet(b.buffer)
  /\ turn' = "over"
  /\ UNCHANGED <<pty, process, output, taken, reader, chunk, b, last_read_position, told, forgotten,
                 stop_event, inputVars, tracked, loop, running>>

\* stop returns: the process has ended, by itself or killed.  The shell tool's
\* stop shows the final output, the other callers drop it.
StopEnds ==
  /\ loop \in {"stopping", "discarding"}
  /\ ~Alive
  /\ handed' = IF loop = "stopping" THEN handed \cup ToSet(b.buffer) ELSE handed
  /\ b' = Cleared(b)
  /\ tracked' = FALSE
  /\ turn' = "over"
  /\ loop' = "free"
  /\ UNCHANGED <<pty, process, output, taken, reader, chunk, last_read_position, told, forgotten,
                 stop_event, inputVars, running>>

-----------------------------------------------------------------------------

Reader == ReaderChecks \/ (\E n \in 1..MaxChunk : Read(n)) \/ ReaderEnds \/ \E j \in DiskFaults : AppendChunk(j)
Writer == WriterChecks \/ WriterTimesOut \/ WriterWakes \/ PopAll \/ WriteText
Worker == SetReady \/ ReadNew \/ StopFinished \/ StopCompleted \/ StopEnds

Next ==
  \/ Emit \/ Exit
  \/ Reader
  \/ Writer
  \/ Worker
  \/ Send \/ TailOutput \/ ListCommands \/ Stop \/ Completed \/ TimedOut

Spec == Init /\ [][Next]_vars

\* Threads run, calls return, a process that was signalled ends, and an
\* unlocked reader sees the data or the end.
FairSpec ==
  /\ Spec
  /\ WF_vars(Reader)
  /\ WF_vars(Writer)
  /\ WF_vars(Worker)
  /\ WF_vars(process = "terminated" /\ Exit)

-----------------------------------------------------------------------------

Received == taken - Len(chunk)

\* Every character the reader has appended is in memory, on a page of the disk,
\* or was shown by get_all, unless a bounded buffer had to drop it.
NothingUnaccounted ==
  tracked => 1..Received \subseteq ToSet(b.buffer) \cup OnPages(b) \cup handed \cup forgotten

\* Incremental reads give each character at most once, in order, and pass over
\* none, except what by then was on a page, dropped by a bounded buffer or
\* handed out whole: total_added counts all that was received.
ReadsFollowStream ==
  /\ \A i, j \in DOMAIN told : i < j => told[i] < told[j]
  /\ tracked => 1..last_read_position \subseteq ToSet(told) \cup OnPages(b) \cup handed \cup forgotten

\* An input that is queued reaches the process, after those sent before it and
\* each once, unless the process ends or is stopped: the wake of the writer is
\* not lost (InputBuffer.pop_all clears the event under the lock).
InputArrives ==
  \A i \in 1..MaxInputs :
    sent = i ~> IsPrefix([k \in 1..i |-> k], written) \/ ~Alive \/ stop_event

\* The threads of a command that was removed end ("so the child, its
\* reader/writer threads ... don't outlive the interrupted turn").
ThreadsEnd == ~tracked ~> reader = "ended" /\ writer = "ended"

\* A command is removed when its output has been read: what the process wrote
\* was told, shown or is on a page.
OutputReported ==
  loop = "discarding" /\ ~running =>
    1..output \subseteq ToSet(told) \cup OnPages(b) \cup handed \cup forgotten

=============================================================================
