------------------------------- MODULE Kernel -------------------------------
(***************************************************************************)
(* What lies between the traced processes and the agent and belongs to     *)
(* neither: the unix domain socket at Racer::SERVER_PATH, its connections, *)
(* the HUP signal and the agent as a process.  External to the repository: *)
(* modelled from the calls racer.cc, worker.cc, agent.rb and racer.rb make.*)
(***************************************************************************)
EXTENDS Naturals, Sequences

CONSTANTS
  Conns,       \* connections that are ever made
  Capacity,    \* messages that fit into a socket buffer before send blocks
  StopMsg      \* "stop" on the socket, and the state-0 message of the queue

ASSUME CapacityAssumption == Capacity \in Nat \ {0}

VARIABLES
  sockfile,    \* the file of the socket exists
  listener,    \* "none", "bound", "listening" or "closed"
  conn,        \* conn[c]: "none", "backlog", "open" (accepted) or "reset"
  stream,      \* stream[c]: messages sent and not yet read
  eof,         \* eof[c]: the client's end has been shut down
  hup,         \* a HUP has been sent to the agent
  agentUp      \* the agent process exists

kernelVars == <<sockfile, listener, conn, stream, eof, hup, agentUp>>

(* A socket file may be left over from an earlier agent. *)
KernelInit ==
  /\ sockfile \in BOOLEAN
  /\ listener = "none"
  /\ conn = [c \in Conns |-> "none"]
  /\ stream = [c \in Conns |-> <<>>]
  /\ eof = [c \in Conns |-> FALSE]
  /\ hup = FALSE
  /\ agentUp = TRUE

KernelTypeOK ==
  /\ sockfile \in BOOLEAN
  /\ listener \in {"none", "bound", "listening", "closed"}
  /\ conn \in [Conns -> {"none", "backlog", "open", "reset"}]
  /\ eof \in [Conns -> BOOLEAN]
  /\ DOMAIN stream = Conns
  /\ \A c \in Conns : Len(stream[c]) <= Capacity
  /\ hup \in BOOLEAN /\ agentUp \in BOOLEAN

CanConnect == sockfile /\ listener = "listening"

(* send: appended if there is room, an error once the peer is gone, and      *)
(* otherwise the sender blocks.                                              *)
Alive(c) == conn[c] \in {"backlog", "open"}
Writable(c) == Alive(c) /\ Len(stream[c]) < Capacity
Send(c, m) == stream' = [stream EXCEPT ![c] = Append(@, m)]

(* The connections in C lose the agent's end, with what was not yet read.    *)
ResetAll(C) ==
  /\ conn' = [c \in Conns |-> IF c \in C THEN "reset" ELSE conn[c]]
  /\ stream' = [c \in Conns |-> IF c \in C THEN <<>> ELSE stream[c]]
==============================================================================
