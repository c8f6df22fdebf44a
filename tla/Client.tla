------------------------------- MODULE Client -------------------------------
(***************************************************************************)
(* A traced process: the part of ext/racer/racer.cc that starts, stops and *)
(* flushes tracing, its worker thread (worker.cc), and the life of the     *)
(* process around them (racer.rb, the test framework plugins).             *)
(*                                                                         *)
(* The method calls of the program are reduced to what delivery depends    *)
(* on: a call explores the constant that owns the method, its return       *)
(* pushes a trace.  Any number of threads make calls, and exploring a      *)
(* constant lets other threads run before it is announced.  The queue is   *)
(* FifoQueue, which TinyQueue implements.                                  *)
(***************************************************************************)
EXTENDS Kernel, FiniteSets

CONSTANTS
  Procs,       \* traced processes
  Leader,      \* the process that started the agent
  MaxConns,    \* connections a process makes, one after the other
  MaxTraces,   \* MaxTraces[p]: traces p pushes; it makes no traced calls after them
  Owners,      \* constants that own traced methods
  MayCrash     \* processes that may be killed

ASSUME ClientAssumption ==
  /\ Leader \in Procs /\ MayCrash \subseteq Procs
  /\ Conns = Procs \X (1..MaxConns)
  /\ MaxConns \in Nat /\ MaxTraces \in [Procs -> Nat]

VARIABLES
  life,        \* "unborn", "polling", "run", "waiting", "exited", "crashed"
  tp,          \* tpCall: "nil", "on", "off"
  sock,        \* socketFd: "none" (0), "open", "closed" (-1)
  epoch,       \* number of connections made so far
  flushing,    \* where flush_end is: "no", "join", "stop", "close"
  active,      \* owners of the traced calls on call_stacks
  known,       \* constant_map
  exploring,   \* constants in constant_map whose exploration goes on
  pending,     \* constant_updates: explored, not yet attached to a trace
  queue,       \* the tiny_queue of the current connection
  worker,      \* "none", "pop", "send", "done", "failed"
  hand,        \* the message the worker is sending
  broken,      \* history: connections on which a send failed although the agent was there
  pushed       \* history: pushed[c], the traces pushed for connection c

calling == <<active, known, exploring, pending>>
clientVars == <<life, tp, sock, epoch, flushing, calling, queue, worker, hand, broken, pushed>>

(* early is history: the owner was still being explored at the push. *)
Trace == [owner : Owners, updates : SUBSET Owners, early : BOOLEAN]
Message == Trace \union {StopMsg}
Current(p) == <<p, epoch[p]>>

Put(f, p, v) == f' = [f EXCEPT ![p] = v]

ClientInit ==
  /\ life = [p \in Procs |-> IF p = Leader THEN "polling" ELSE "unborn"]
  /\ tp = [p \in Procs |-> "nil"]
  /\ sock = [p \in Procs |-> "none"]
  /\ epoch = [p \in Procs |-> 0]
  /\ flushing = [p \in Procs |-> "no"]
  /\ active = [p \in Procs |-> {}]
  /\ known = [p \in Procs |-> {}]
  /\ exploring = [p \in Procs |-> {}]
  /\ pending = [p \in Procs |-> {}]
  /\ queue = [p \in Procs |-> <<>>]
  /\ worker = [p \in Procs |-> "none"]
  /\ hand = [p \in Procs |-> StopMsg]
  /\ broken = {}
  /\ pushed = [c \in Conns |-> <<>>]

ClientTypeOK ==
  /\ life \in [Procs -> {"unborn", "polling", "run", "waiting", "exited", "crashed"}]
  /\ tp \in [Procs -> {"nil", "on", "off"}]
  /\ sock \in [Procs -> {"none", "open", "closed"}]
  /\ epoch \in [Procs -> 0..MaxConns]
  /\ flushing \in [Procs -> {"no", "join", "stop", "close"}]
  /\ active \in [Procs -> SUBSET Owners] /\ known \in [Procs -> SUBSET Owners]
  /\ exploring \in [Procs -> SUBSET Owners] /\ pending \in [Procs -> SUBSET Owners]
  /\ queue \in [Procs -> Seq(Message)]
  /\ worker \in [Procs -> {"none", "pop", "send", "done", "failed"}]
  /\ hand \in [Procs -> Message]
  /\ broken \subseteq Conns
  /\ pushed \in [Conns -> Seq(Trace)]

(* Ruby code of p runs: flush_end keeps the VM lock from start to end, while *)
(* Process.wait in stop_agent lets the other threads run.                    *)
Lives(p) == life[p] \in {"run", "waiting"}
Running(p) == Lives(p) /\ flushing[p] = "no"

------------------------------------------------------------------------------
(* The life of a process. *)

(* start_agent waits for the socket's file, whoever made it. *)
PollFile ==
  /\ life[Leader] = "polling" /\ sockfile
  /\ Put(life, Leader, "run")
  /\ UNCHANGED <<kernelVars, tp, sock, epoch, flushing, calling, queue, worker, hand,
                 broken, pushed>>

(* A test process is forked between two sessions of the leader, when no call *)
(* event is being handled (the railtie has flushed by then), and inherits    *)
(* what the extension has explored.                                          *)
Fork(p) ==
  /\ life[p] = "unborn"
  /\ Running(Leader) /\ tp[Leader] = "nil" /\ exploring[Leader] = {}
  /\ Put(life, p, "run")
  /\ Put(known, p, known[Leader])
  /\ Put(pending, p, pending[Leader])
  /\ Put(sock, p, sock[Leader])
  /\ UNCHANGED <<kernelVars, tp, epoch, flushing, active, exploring, queue, worker, hand,
                 broken, pushed>>

(* A process that has flushed ends. *)
Exit(p) ==
  /\ p # Leader /\ Running(p) /\ sock[p] # "open"
  /\ Put(life, p, "exited")
  /\ UNCHANGED <<kernelVars, tp, sock, epoch, flushing, calling, queue, worker, hand,
                 broken, pushed>>

(* stop_agent: HUP is sent whatever this process or another is doing, and    *)
(* the agent waited for.  (What the leader does after that reaches nobody.)  *)
StopAgent ==
  /\ Running(Leader) /\ life[Leader] = "run"
  /\ hup' = TRUE
  /\ Put(life, Leader, "waiting")
  /\ UNCHANGED <<sockfile, listener, conn, stream, eof, agentUp, tp, sock, epoch, flushing,
                 calling, queue, worker, hand, broken, pushed>>

WaitAgent ==
  /\ life[Leader] = "waiting" /\ flushing[Leader] = "no" /\ ~agentUp
  /\ Put(life, Leader, "exited")
  /\ UNCHANGED <<kernelVars, tp, sock, epoch, flushing, calling, queue, worker, hand,
                 broken, pushed>>

(* The process is killed: the kernel closes its socket. *)
Crash(p) ==
  /\ p \in MayCrash /\ Lives(p)
  /\ Put(life, p, "crashed")
  /\ Put(worker, p, "none")
  /\ IF sock[p] = "open" THEN Put(eof, Current(p), TRUE) ELSE UNCHANGED eof
  /\ UNCHANGED <<sockfile, listener, conn, stream, hup, agentUp, tp, sock, epoch, flushing,
                 calling, queue, hand, broken, pushed>>

------------------------------------------------------------------------------
(* Racer.start, Racer.stop, Racer.flush *)

Resume(p) ==
  /\ Running(p) /\ tp[p] # "nil"
  /\ Put(tp, p, "on")
  /\ UNCHANGED <<kernelVars, life, sock, epoch, flushing, calling, queue, worker, hand,
                 broken, pushed>>

(* connect succeeded: a new queue, a new worker, a new trace point.          *)
Start(p) ==
  /\ Running(p) /\ tp[p] = "nil"
  /\ CanConnect /\ epoch[p] < MaxConns
  /\ Put(epoch, p, epoch[p] + 1)
  /\ Put(conn, <<p, epoch[p] + 1>>, "backlog")
  /\ Put(sock, p, "open")
  /\ Put(queue, p, <<>>)
  /\ Put(worker, p, "pop")
  /\ Put(tp, p, "on")
  /\ UNCHANGED <<sockfile, listener, stream, eof, hup, agentUp, life, flushing, calling,
                 hand, broken, pushed>>

(* connect failed: socketFd = 0, and nothing is traced. *)
StartFails(p) ==
  /\ Running(p) /\ tp[p] = "nil" /\ ~CanConnect
  /\ Put(sock, p, "none")
  /\ UNCHANGED <<kernelVars, life, tp, epoch, flushing, calling, queue, worker, hand,
                 broken, pushed>>

(* socket failed, for want of descriptors: socketFd = -1. *)
SocketFails(p) ==
  /\ Running(p) /\ tp[p] = "nil"
  /\ Put(sock, p, "closed")
  /\ UNCHANGED <<kernelVars, life, tp, epoch, flushing, calling, queue, worker, hand,
                 broken, pushed>>

Stopped(p) == IF tp[p] = "on" THEN "off" ELSE tp[p]

Stop(p) ==
  /\ Running(p)
  /\ Put(tp, p, Stopped(p))
  /\ Put(active, p, {})
  /\ UNCHANGED <<kernelVars, life, sock, epoch, flushing, known, exploring, pending, queue,
                 worker, hand, broken, pushed>>

(* Mutations: the trace point is kept; the message is not pushed.            *)
FlushBeginKeepsHook(p) ==
  /\ Running(p) /\ sock[p] = "open"
  /\ Put(tp, p, Stopped(p))
  /\ Put(active, p, {})
  /\ Put(queue, p, Append(queue[p], StopMsg))
  /\ Put(flushing, p, "join")
  /\ UNCHANGED <<kernelVars, life, sock, epoch, known, exploring, pending, worker, hand,
                 broken, pushed>>

FlushBeginNoMessage(p) ==
  /\ Running(p) /\ sock[p] = "open"
  /\ Put(tp, p, "nil")
  /\ Put(active, p, {})
  /\ Put(flushing, p, "join")
  /\ UNCHANGED <<kernelVars, life, sock, epoch, known, exploring, pending, queue, worker,
                 hand, broken, pushed>>

(* flush_end: stop, forget the trace point, push the state-0 message ...     *)
FlushBegin(p) ==
  /\ Running(p) /\ sock[p] = "open"
  /\ Put(tp, p, "nil")
  /\ Put(active, p, {})
  /\ Put(queue, p, Append(queue[p], StopMsg))
  /\ Put(flushing, p, "join")
  /\ UNCHANGED <<kernelVars, life, sock, epoch, known, exploring, pending, worker, hand,
                 broken, pushed>>

(* Mutation: the worker is not waited for. *)
FlushJoinEarly(p) ==
  /\ Lives(p) /\ flushing[p] = "join"
  /\ Put(worker, p, "none")
  /\ Put(queue, p, <<>>)
  /\ Put(flushing, p, "stop")
  /\ UNCHANGED <<kernelVars, life, tp, sock, epoch, calling, hand, broken, pushed>>

(* ... join the worker and destroy the queue ...                             *)
FlushJoin(p) ==
  /\ Lives(p) /\ flushing[p] = "join"
  /\ worker[p] \in {"done", "failed"}
  /\ Put(worker, p, "none")
  /\ Put(queue, p, <<>>)
  /\ Put(flushing, p, "stop")
  /\ UNCHANGED <<kernelVars, life, tp, sock, epoch, calling, hand, broken, pushed>>

Breaks(c) == broken' = broken \union {d \in Conns : d = c /\ Alive(d)}

(* ... send "stop", whose failure is only reported ...                       *)
FlushSendStop(p) ==
  /\ Lives(p) /\ flushing[p] = "stop" /\ Writable(Current(p))
  /\ Send(Current(p), StopMsg)
  /\ Put(flushing, p, "close")
  /\ UNCHANGED <<sockfile, listener, conn, eof, hup, agentUp, life, tp, sock, epoch,
                 calling, queue, worker, hand, broken, pushed>>

FlushSendFails(p) ==
  /\ Lives(p) /\ flushing[p] = "stop"
  /\ Breaks(Current(p))
  /\ Put(flushing, p, "close")
  /\ UNCHANGED <<kernelVars, life, tp, sock, epoch, calling, queue, worker, hand, pushed>>

(* ... and shut the socket down. *)
FlushClose(p) ==
  /\ Lives(p) /\ flushing[p] = "close"
  /\ Put(eof, Current(p), TRUE)
  /\ Put(sock, p, "closed")
  /\ Put(flushing, p, "no")
  /\ UNCHANGED <<sockfile, listener, conn, stream, hup, agentUp, life, tp, epoch, calling,
                 queue, worker, hand, broken, pushed>>

------------------------------------------------------------------------------
(* Traced calls. *)

TracesOf(p) == UNION {{<<c, i>> : i \in 1..Len(pushed[c])} : c \in {p} \X (1..MaxConns)}

(* process_call_event meets a new owner: it is put into constant_map, and    *)
(* exploring its namespace and ancestors may run Ruby code.                  *)
Explore(p, o) ==
  /\ Running(p) /\ tp[p] = "on" /\ o \notin known[p]
  /\ Cardinality(TracesOf(p)) < MaxTraces[p]
  /\ Put(known, p, known[p] \union {o})
  /\ Put(exploring, p, exploring[p] \union {o})
  /\ UNCHANGED <<kernelVars, life, tp, sock, epoch, flushing, active, pending, queue, worker,
                 hand, broken, pushed>>

(* The exploration ends with a push to constant_updates; the call event goes *)
(* on, even after a stop.                                                    *)
Announce(p, o) ==
  /\ Running(p) /\ o \in exploring[p]
  /\ Put(exploring, p, exploring[p] \ {o})
  /\ Put(pending, p, pending[p] \union {o})
  /\ Put(active, p, active[p] \union {o})
  /\ UNCHANGED <<kernelVars, life, tp, sock, epoch, flushing, known, queue, worker, hand, broken,
                 pushed>>

(* A call event that finds the owner in constant_map. *)
Call(p, o) ==
  /\ Running(p) /\ tp[p] = "on" /\ o \in known[p]
  /\ Cardinality(TracesOf(p)) < MaxTraces[p]
  /\ Put(active, p, active[p] \union {o})
  /\ UNCHANGED <<kernelVars, life, tp, sock, epoch, flushing, known, exploring, pending, queue,
                 worker, hand, broken, pushed>>

(* process_return_event takes every pending constant along and pushes.       *)
Return(p, o) ==
  /\ Running(p) /\ tp[p] = "on" /\ o \in active[p]
  /\ Cardinality(TracesOf(p)) < MaxTraces[p]
  /\ LET t == [owner |-> o, updates |-> pending[p], early |-> o \in exploring[p]]
     IN  /\ Put(queue, p, Append(queue[p], t))
         /\ Put(pushed, Current(p), Append(pushed[Current(p)], t))
  /\ Put(pending, p, {})
  /\ Put(active, p, active[p] \ {o})
  /\ UNCHANGED <<kernelVars, life, tp, sock, epoch, flushing, known, exploring, worker, hand,
                 broken>>

------------------------------------------------------------------------------
(* The worker thread. *)

WorkerPop(p) ==
  /\ worker[p] = "pop" /\ queue[p] # <<>>
  /\ Put(queue, p, Tail(queue[p]))
  /\ IF Head(queue[p]) = StopMsg
       THEN Put(worker, p, "done") /\ UNCHANGED hand
       ELSE Put(worker, p, "send") /\ Put(hand, p, Head(queue[p]))
  /\ UNCHANGED <<kernelVars, life, tp, sock, epoch, flushing, calling, broken, pushed>>

WorkerSend(p) ==
  /\ worker[p] = "send" /\ Writable(Current(p))
  /\ Send(Current(p), hand[p])
  /\ Put(hand, p, StopMsg)
  /\ Put(worker, p, "pop")
  /\ UNCHANGED <<sockfile, listener, conn, eof, hup, agentUp, life, tp, sock, epoch,
                 flushing, calling, queue, broken, pushed>>

(* send failed, for whatever reason: the thread ends, and what is queued is  *)
(* never looked at again.                                                    *)
WorkerFails(p) ==
  /\ worker[p] = "send"
  /\ Breaks(Current(p))
  /\ Put(hand, p, StopMsg)
  /\ Put(worker, p, "failed")
  /\ UNCHANGED <<kernelVars, life, tp, sock, epoch, flushing, calling, queue, pushed>>

WorkerStep(p) == WorkerPop(p) \/ WorkerSend(p) \/ WorkerFails(p)
FlushStep(p) == FlushJoin(p) \/ FlushSendStop(p) \/ FlushSendFails(p) \/ FlushClose(p)

(* A send is only sure to fail once the agent's end is gone. *)
SureToFail(p) == conn[Current(p)] = "reset"
SureWorkerStep(p) == WorkerPop(p) \/ WorkerSend(p) \/ (WorkerFails(p) /\ SureToFail(p))
SureFlushStep(p) ==
  FlushJoin(p) \/ FlushSendStop(p) \/ (FlushSendFails(p) /\ SureToFail(p)) \/ FlushClose(p)

ClientNext ==
  \/ PollFile \/ StopAgent \/ WaitAgent
  \/ \E p \in Procs :
       \/ Fork(p) \/ Exit(p) \/ Crash(p)
       \/ Resume(p) \/ Start(p) \/ StartFails(p) \/ SocketFails(p) \/ Stop(p)
       \/ FlushBegin(p) \/ FlushStep(p)
       \/ WorkerStep(p)
       \/ \E o \in Owners : Explore(p, o) \/ Announce(p, o) \/ Call(p, o) \/ Return(p, o)
==============================================================================
