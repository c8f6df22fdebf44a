-------------------------------- MODULE Agent --------------------------------
(***************************************************************************)
(* The agent process (lib/racer/agent.rb): it binds the socket, reads each *)
(* connection in a thread of its own, hands the traces to the collector    *)
(* thread through a Ruby Queue, and on HUP winds all of this down from an  *)
(* at_exit handler.  The collector is reduced to what winding down depends *)
(* on: which constants it knows, whether its thread lives, and whether it  *)
(* has written its output.                                                 *)
(***************************************************************************)
EXTENDS Kernel, FiniteSets

CONSTANTS
  Idle,        \* the collector holds no trace
  BadNames     \* constants whose name valid_name changes

VARIABLES
  phase,       \* the main thread, see AgentTypeOK
  reader,      \* reader[c]: "none", "reading", "stopped", "failed"
  noted,       \* connections whose thread is in @agent_threads
  inbox,       \* inbox[c]: messages read and split, not yet looked at
  traces,      \* @queue; each trace is marked with its connection and its
               \* number there (history)
  closed,      \* @queue is closed
  collector,   \* the collector thread: "alive", "dead", "written"
  task,        \* the trace it popped last, or Idle
  results,     \* constants in @results under the name the traces use
  parsed,      \* history: parsed[c], traces read from connection c
  collected    \* history: collected[c], traces of c collected, in order

agentVars == <<phase, reader, noted, inbox, traces, closed, collector, task, results,
               parsed, collected>>

AgentInit ==
  /\ phase = "boot"
  /\ reader = [c \in Conns |-> "none"]
  /\ noted = {}
  /\ inbox = [c \in Conns |-> <<>>]
  /\ traces = <<>>
  /\ closed = FALSE
  /\ collector = "alive"
  /\ task = Idle
  /\ results = {}
  /\ parsed = [c \in Conns |-> <<>>]
  /\ collected = [c \in Conns |-> <<>>]

Phases == {"boot", "bound", "listening", "trapped", "serving", "accepted", "spawned",
           "joining", "closing", "closed", "unlinked", "gone"}

AgentTypeOK ==
  /\ phase \in Phases
  /\ reader \in [Conns -> {"none", "reading", "stopped", "failed"}]
  /\ noted \subseteq {c \in Conns : reader[c] # "none"}
  /\ DOMAIN inbox = Conns /\ DOMAIN parsed = Conns
  /\ closed \in BOOLEAN
  /\ collector \in {"alive", "dead", "written"}

Up == phase # "gone"

------------------------------------------------------------------------------
(* Boot.  UNIXServer.new binds, which creates the file, and then listens;    *)
(* it raises if the file exists.                                             *)

(* The process is gone, with every connection to it. *)
Die ==
  /\ phase' = "gone"
  /\ agentUp' = FALSE
  /\ listener' = "closed"
  /\ ResetAll({c \in Conns : conn[c] # "none"})

Bind ==
  /\ phase = "boot" /\ ~sockfile /\ ~hup
  /\ sockfile' = TRUE
  /\ listener' = "bound"
  /\ phase' = "bound"
  /\ UNCHANGED <<conn, stream, eof, hup, agentUp, reader, noted, inbox, traces,
                 closed, collector, task, results, parsed, collected>>

BindFails ==
  /\ phase = "boot" /\ sockfile /\ ~hup
  /\ Die
  /\ UNCHANGED <<sockfile, eof, hup, reader, noted, inbox, traces, closed,
                 collector, task, results, parsed, collected>>

Listen ==
  /\ phase = "bound" /\ ~hup
  /\ listener' = "listening"
  /\ phase' = "listening"
  /\ UNCHANGED <<sockfile, conn, stream, eof, hup, agentUp, reader, noted,
                 inbox, traces, closed, collector, task, results, parsed,
                 collected>>

(* The collector thread runs; the HUP trap is set, then the at_exit handler. *)
Trap ==
  /\ phase = "listening" /\ ~hup
  /\ phase' = "trapped"
  /\ UNCHANGED <<kernelVars, reader, noted, inbox, traces, closed, collector,
                 task, results, parsed, collected>>

Serve ==
  /\ phase = "trapped"
  /\ phase' = "serving"
  /\ UNCHANGED <<kernelVars, reader, noted, inbox, traces, closed, collector,
                 task, results, parsed, collected>>

(* HUP before the trap kills the process at once, and before the at_exit     *)
(* handler is there it ends without further ado.                             *)
Killed ==
  /\ hup /\ phase \in {"boot", "bound", "listening", "trapped"}
  /\ Die
  /\ UNCHANGED <<sockfile, eof, hup, reader, noted, inbox, traces, closed,
                 collector, task, results, parsed, collected>>

------------------------------------------------------------------------------
(* main_loop: accept, start a thread, add it to @agent_threads; HUP can come *)
(* between any two of these.                                                 *)

Accept(c) ==
  /\ phase = "serving" /\ conn[c] = "backlog"
  /\ conn' = [conn EXCEPT ![c] = "open"]
  /\ phase' = "accepted"
  /\ UNCHANGED <<sockfile, listener, stream, eof, hup, agentUp, reader, noted,
                 inbox, traces, closed, collector, task, results, parsed,
                 collected>>

Spawn(c) ==
  /\ phase = "accepted" /\ conn[c] = "open" /\ reader[c] = "none"
  /\ reader' = [reader EXCEPT ![c] = "reading"]
  /\ phase' = "spawned"
  /\ UNCHANGED <<kernelVars, noted, inbox, traces, closed, collector, task,
                 results, parsed, collected>>

Note ==
  /\ phase = "spawned"
  /\ noted' = {c \in Conns : reader[c] # "none"}
  /\ phase' = "serving"
  /\ UNCHANGED <<kernelVars, reader, inbox, traces, closed, collector, task,
                 results, parsed, collected>>

------------------------------------------------------------------------------
(* worker_loop *)

(* Mutation: the first message behind the chunk is skipped. *)
ReadSkips(c) ==
  /\ Up /\ reader[c] = "reading" /\ inbox[c] = <<>>
  /\ \E k \in 1..Len(stream[c]) :
       /\ inbox' = [inbox EXCEPT ![c] = SubSeq(stream[c], 1, k)]
       /\ stream' = [stream EXCEPT ![c] = SubSeq(@, k + 2, Len(@))]
  /\ UNCHANGED <<sockfile, listener, conn, eof, hup, agentUp, phase, reader,
                 noted, traces, closed, collector, task, results, parsed,
                 collected>>

(* read(1024) returns once there are 1024 bytes or the stream has ended: a   *)
(* number of messages; the rest of a split one counts as unread.  At the     *)
(* end of an empty stream it returns nil and the loop comes straight back.   *)
Read(c) ==
  /\ Up /\ reader[c] = "reading" /\ inbox[c] = <<>>
  /\ \E k \in 1..Len(stream[c]) :
       /\ inbox' = [inbox EXCEPT ![c] = SubSeq(stream[c], 1, k)]
       /\ stream' = [stream EXCEPT ![c] = SubSeq(@, k + 1, Len(@))]
  /\ UNCHANGED <<sockfile, listener, conn, eof, hup, agentUp, phase, reader,
                 noted, traces, closed, collector, task, results, parsed,
                 collected>>

ParseTakesStop(c) ==   \* mutation: "stop" is not looked for
  /\ Up /\ reader[c] = "reading" /\ inbox[c] # <<>>
  /\ ~closed
  /\ inbox' = [inbox EXCEPT ![c] = Tail(@)]
  /\ traces' = Append(traces, [from |-> c, nr |-> Len(parsed[c]) + 1,
                                trace |-> Head(inbox[c])])
  /\ parsed' = [parsed EXCEPT ![c] = Append(@, Head(inbox[c]))]
  /\ UNCHANGED <<kernelVars, phase, reader, noted, closed, collector, task,
                 results, collected>>

Parse(c) ==
  /\ Up /\ reader[c] = "reading" /\ inbox[c] # <<>> /\ Head(inbox[c]) # StopMsg
  /\ ~closed
  /\ inbox' = [inbox EXCEPT ![c] = Tail(@)]
  /\ traces' = Append(traces, [from |-> c, nr |-> Len(parsed[c]) + 1,
                                trace |-> Head(inbox[c])])
  /\ parsed' = [parsed EXCEPT ![c] = Append(@, Head(inbox[c]))]
  /\ UNCHANGED <<kernelVars, phase, reader, noted, closed, collector, task,
                 results, collected>>

(* The push on a closed queue raises and ends the thread. *)
ParseFails(c) ==
  /\ Up /\ reader[c] = "reading" /\ inbox[c] # <<>> /\ Head(inbox[c]) # StopMsg
  /\ closed
  /\ inbox' = [inbox EXCEPT ![c] = <<>>]
  /\ reader' = [reader EXCEPT ![c] = "failed"]
  /\ UNCHANGED <<kernelVars, phase, noted, traces, closed, collector, task,
                 results, parsed, collected>>

(* Mutation: the thread goes on after "stop". *)
ReadStopGoesOn(c) ==
  /\ Up /\ reader[c] = "reading" /\ inbox[c] # <<>> /\ Head(inbox[c]) = StopMsg
  /\ inbox' = [inbox EXCEPT ![c] = <<>>]
  /\ UNCHANGED <<kernelVars, phase, reader, noted, traces, closed, collector,
                 task, results, parsed, collected>>

(* "stop" ends the thread, whatever else the chunk holds. *)
ReadStop(c) ==
  /\ Up /\ reader[c] = "reading" /\ inbox[c] # <<>> /\ Head(inbox[c]) = StopMsg
  /\ inbox' = [inbox EXCEPT ![c] = <<>>]
  /\ reader' = [reader EXCEPT ![c] = "stopped"]
  /\ UNCHANGED <<kernelVars, phase, noted, traces, closed, collector, task,
                 results, parsed, collected>>

------------------------------------------------------------------------------
(* The collector thread. *)

CollectorPop ==
  /\ phase \notin {"boot", "bound", "gone"}
  /\ collector = "alive" /\ task = Idle /\ traces # <<>>
  /\ task' = Head(traces)
  /\ traces' = Tail(traces)
  /\ UNCHANGED <<kernelVars, phase, reader, noted, inbox, closed, collector,
                 results, parsed, collected>>

Add(t) == collected' = [collected EXCEPT ![t.from] = Append(@, t.trace)]

(* Mutation: the owner is looked up before the constants are registered.     *)
CollectLooksUpFirst ==
  /\ Up /\ collector = "alive" /\ task # Idle
  /\ IF task.trace.owner \in results
       THEN Add(task) /\ UNCHANGED collector
       ELSE collector' = "dead" /\ UNCHANGED collected
  /\ results' = results \union (task.trace.updates \ BadNames)
  /\ task' = Idle
  /\ UNCHANGED <<kernelVars, phase, reader, noted, inbox, traces, closed, parsed>>

(* collect registers the constants the trace brings, under a name that       *)
(* valid_name may change, and then looks the method's owner up under the     *)
(* name in the trace; it raises if there is none, and nothing rescues.       *)
Collect ==
  /\ Up /\ collector = "alive" /\ task # Idle
  /\ results' = results \union (task.trace.updates \ BadNames)
  /\ IF task.trace.owner \in results'
       THEN Add(task) /\ UNCHANGED collector
       ELSE collector' = "dead" /\ UNCHANGED collected
  /\ task' = Idle
  /\ UNCHANGED <<kernelVars, phase, reader, noted, inbox, traces, closed, parsed>>

(* pop returns nil on a closed, empty queue: the collector writes. *)
Write ==
  /\ Up /\ collector = "alive" /\ task = Idle /\ traces = <<>> /\ closed
  /\ collector' = "written"
  /\ UNCHANGED <<kernelVars, phase, reader, noted, inbox, traces, closed, task,
                 results, parsed, collected>>

------------------------------------------------------------------------------
(* HUP and the at_exit handler. *)

HandleHup ==
  /\ hup /\ phase \in {"serving", "accepted", "spawned"}
  /\ phase' = "joining"
  /\ UNCHANGED <<kernelVars, reader, noted, inbox, traces, closed, collector,
                 task, results, parsed, collected>>

(* Mutation: the readers are not waited for. *)
JoinReadersEarly ==
  /\ phase = "joining"
  /\ phase' = "closing"
  /\ listener' = "closed"
  /\ ResetAll({c \in Conns : conn[c] = "backlog"})
  /\ UNCHANGED <<sockfile, eof, hup, agentUp, reader, noted, inbox, traces,
                 closed, collector, task, results, parsed, collected>>

(* @agent_threads.each(&:join) and @server.close: who waits to be accepted   *)
(* is turned away.                                                           *)
JoinReaders ==
  /\ phase = "joining" /\ \A c \in noted : reader[c] # "reading"
  /\ phase' = "closing"
  /\ listener' = "closed"
  /\ ResetAll({c \in Conns : conn[c] = "backlog"})
  /\ UNCHANGED <<sockfile, eof, hup, agentUp, reader, noted, inbox, traces,
                 closed, collector, task, results, parsed, collected>>

(* @queue.close if @queue.empty? *)
CloseQueue ==
  /\ phase = "closing"
  /\ closed' = (traces = <<>>)
  /\ phase' = "closed"
  /\ UNCHANGED <<kernelVars, reader, noted, inbox, traces, collector, task,
                 results, parsed, collected>>

Unlink ==
  /\ phase = "closed"
  /\ sockfile' = FALSE
  /\ phase' = "unlinked"
  /\ UNCHANGED <<listener, conn, stream, eof, hup, agentUp, reader, noted,
                 inbox, traces, closed, collector, task, results, parsed,
                 collected>>

(* worker_thread.join returns or raises what killed the thread.  If the      *)
(* collector sleeps on an open queue nobody is left to push to, Ruby finds   *)
(* no live thread and ends the process.                                      *)
Asleep ==
  /\ collector = "alive" /\ task = Idle /\ traces = <<>> /\ ~closed
  /\ \A c \in Conns : reader[c] # "reading"

(* Mutation: the collector is not waited for. *)
JoinCollectorEarly ==
  /\ phase = "unlinked"
  /\ Die
  /\ UNCHANGED <<sockfile, eof, hup, reader, noted, inbox, traces, closed,
                 collector, task, results, parsed, collected>>

JoinCollector ==
  /\ phase = "unlinked" /\ (collector # "alive" \/ Asleep)
  /\ Die
  /\ UNCHANGED <<sockfile, eof, hup, reader, noted, inbox, traces, closed,
                 collector, task, results, parsed, collected>>

BootStep == Bind \/ BindFails \/ Listen \/ Trap \/ Serve \/ Killed
AcceptStep == Note \/ \E c \in Conns : Accept(c) \/ Spawn(c)
ReaderStep(c) == Read(c) \/ Parse(c) \/ ParseFails(c) \/ ReadStop(c)
CollectorStep == CollectorPop \/ Collect \/ Write
ExitStep == HandleHup \/ JoinReaders \/ CloseQueue \/ Unlink \/ JoinCollector

AgentNext ==
  \/ BootStep \/ AcceptStep \/ CollectorStep \/ ExitStep
  \/ \E c \in Conns : ReaderStep(c)

(* A read is only sure to return at the end of the stream or when the buffer *)
(* is full (it holds far more than the 1024 bytes asked for).                *)
SureReaderStep(c) ==
  \/ Read(c) /\ (eof[c] \/ Len(stream[c]) = Capacity)
  \/ Parse(c) \/ ParseFails(c) \/ ReadStop(c)
==============================================================================
