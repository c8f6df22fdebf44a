-------------------------------- MODULE Racer --------------------------------
(***************************************************************************)
(* The whole system: traced processes (Client) and the agent (Agent),      *)
(* joined by the socket, the signal and the process table (Kernel).        *)
(***************************************************************************)
EXTENDS Client, Agent, SequencesExt

vars == <<kernelVars, clientVars, agentVars>>

(* A trace in the agent's @queue, with its connection and its number there.  *)
Entry == [from : Conns, nr : Nat, trace : Trace]

ASSUME RacerAssumption ==
  StopMsg \notin Trace /\ Idle \notin Entry /\ BadNames \subseteq Owners

Init == KernelInit /\ ClientInit /\ AgentInit

Next ==
  \/ ClientNext /\ UNCHANGED agentVars
  \/ AgentNext /\ UNCHANGED clientVars

Spec == Init /\ [][Next]_vars

(* Every thread runs on while it can: the leader's, which waits for the      *)
(* agent at both ends, each worker and flush, the agent's main thread, its   *)
(* readers and its collector.  Sends need not fail, nor clients do anything. *)
Fairness ==
  /\ WF_vars((PollFile \/ WaitAgent) /\ UNCHANGED agentVars)
  /\ \A p \in Procs :
       /\ WF_vars(SureWorkerStep(p) /\ UNCHANGED agentVars)
       /\ WF_vars(SureFlushStep(p) /\ UNCHANGED agentVars)
  /\ WF_vars((BootStep \/ AcceptStep \/ ExitStep) /\ UNCHANGED clientVars)
  /\ \A c \in Conns : WF_vars(SureReaderStep(c) /\ UNCHANGED clientVars)
  /\ WF_vars(CollectorStep /\ UNCHANGED clientVars)

FairSpec == Spec /\ Fairness

------------------------------------------------------------------------------
(* Properties *)

TypeOK ==
  /\ KernelTypeOK /\ ClientTypeOK /\ AgentTypeOK
  /\ stream \in [Conns -> Seq(Message)] /\ inbox \in [Conns -> Seq(Message)]
  /\ parsed \in [Conns -> Seq(Trace)] /\ collected \in [Conns -> Seq(Trace)]
  /\ traces \in Seq(Entry) /\ task \in Entry \union {Idle}
  /\ results \subseteq Owners

(* On each connection the agent sees the traces in the order of the method   *)
(* returns that pushed them, none twice and none skipped - through the       *)
(* queue, the worker, the socket buffer and the chunked reads, and whatever  *)
(* fails or crashes.  A reader that saw "stop" has seen everything its       *)
(* client ever pushed, unless a send failed on a connection that was there.  *)
StopIsLast ==
  \A c \in Conns :
    reader[c] = "stopped" => stream[c] = <<>> /\ (parsed[c] = pushed[c] \/ c \in broken)

InOrder == (\A c \in Conns : IsPrefix(parsed[c], pushed[c])) /\ StopIsLast

(* The messages of a connection that are on their way: what the agent has    *)
(* read but not parsed, the socket holds, the worker is sending, the queue   *)
(* holds.                                                                    *)
Sending(p) == (IF worker[p] = "send" THEN <<hand[p]>> ELSE <<>>) \o queue[p]
OnTheWay(c) ==
  (inbox[c] \o stream[c]) \o (IF c = Current(c[1]) THEN Sending(c[1]) ELSE <<>>)

(* As long as the agent, the process and the reader live, no trace is        *)
(* anywhere else, and at most a stop message comes after them: flush_end     *)
(* destroys the queue and closes the socket without losing one.  (After a    *)
(* failed send the worker leaves its trace and the rest of the queue behind.)*)
NothingLost ==
  \A c \in Conns :
    Alive(c) /\ life[c[1]] # "crashed" /\ reader[c] # "failed" /\ c \notin broken
      => parsed[c] \o OnTheWay(c) \in {pushed[c], Append(pushed[c], StopMsg)}

(* When the output is written, every connection whose thread the agent had   *)
(* noted is in it completely, and none of those threads is left whose push   *)
(* would find the queue closed.  Only a failed send leaves a gap.            *)
WrittenIsComplete ==
  /\ closed => \A c \in noted : reader[c] = "stopped"
  /\ collector = "written" => \A c \in noted \ broken : collected[c] = pushed[c]

(* The trace point is on only while there is a queue to push to, a socket    *)
(* behind it and a worker that was started for it - in every order of start, *)
(* stop and flush, with connects that fail in between.                       *)
HookHasQueue ==
  \A p \in Procs :
    /\ tp[p] # "nil" /\ Lives(p) => sock[p] = "open" /\ worker[p] # "none"
    /\ worker[p] \in {"pop", "send"} => sock[p] = "open"
    /\ sock[p] = "open" /\ Running(p) => tp[p] # "nil"

(* The collector's thread dies only over a trace whose owner it could not    *)
(* know: one that was announced on another connection, that its own process  *)
(* was still exploring, or whose name valid_name changes.  What a connection *)
(* announces itself always comes in time.                                    *)
AnnouncedOn(c, o) == \E i \in 1..Len(pushed[c]) : o \in pushed[c][i].updates
Unknowable(c, t) ==
  t.early \/ t.owner \in BadNames \/ \E d \in Conns \ {c} : AnnouncedOn(d, t.owner)
DeathsAreExplained ==
  collector = "dead" =>
    \E c \in Conns : /\ Len(collected[c]) < Len(pushed[c])
                     /\ Unknowable(c, pushed[c][Len(collected[c]) + 1])

(* README.md:74 "Racer works out of the box with parallel tests": the        *)
(* collector survives more than one connection, too, as long as no trace     *)
(* overtakes its constant, no name is changed and no send fails.             *)
CollectorSurvives ==
  broken = {} /\ (\A c \in Conns : \A i \in 1..Len(pushed[c]) :
      ~pushed[c][i].early /\ pushed[c][i].owner \notin BadNames)
    => collector # "dead"

(* A process settles if it flushes what it started, at the latest at exit,   *)
(* unless it is killed, and none of its sends fails while the agent is there.*)
(* If it is not killed either, each of its connections ends with "stop".     *)
(* (What is broken or crashed stays so: <>[] says never.)                    *)
Settles(p) ==
  <>[](/\ sock[p] # "open" \/ flushing[p] # "no" \/ life[p] = "crashed"
       /\ \A c \in broken : c[1] # p)
EndsProperly(p) == Settles(p) /\ <>[](life[p] # "crashed")

(* Liveness: a flush returns to the test suite, whoever else is killed and   *)
(* whichever sends fail, unless the agent joins a reader for ever (which     *)
(* StopAgentReturns is about).                                               *)
FlushReturns ==
  \/ \A p \in Procs : []<>(flushing[p] = "no" \/ life[p] = "crashed")
  \/ <>[](phase = "joining")

(* Liveness: stop_agent returns, whenever it is called and whoever connects  *)
(* meanwhile, if the processes end properly.                                 *)
WaitReturns == []<>(life[Leader] # "waiting")
StopAgentReturns == (\A p \in Procs : EndsProperly(p)) => WaitReturns

(* agent.rb:70 "Is this an error? I would expect it waits until there is     *)
(* something to read?": a reader waits, it does not keep the agent for ever, *)
(* so stop_agent returns even if a traced process was killed.                *)
StopAgentAlwaysReturns == (\A p \in Procs : Settles(p)) => WaitReturns

(* Liveness: once the queue is closed the output is written. *)
ClosedIsWritten == []<>(closed => collector \in {"written", "dead"})

(* README.md:83 "When the test suite finishes, the agent writes RBS files":  *)
(* an agent that is serving when it is told to stop, with every connection   *)
(* flushed, writes its output.                                               *)
HupWrites ==
  (\A p \in Procs : EndsProperly(p)) =>
    (hup /\ phase = "serving" /\ (\A p \in Procs : sock[p] # "open") ~> collector = "written")

(* agent.rb:39 "Waiting for all clients to finish sending messages": what a  *)
(* client has flushed before the HUP is in the output.                       *)
FlushedIsWritten ==
  \A c \in Conns :
    [](~hup /\ eof[c] /\ life[c[1]] # "crashed" /\ c \notin broken =>
         [](collector = "written" => collected[c] = pushed[c]))
==============================================================================
