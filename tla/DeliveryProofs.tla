---------------------------- MODULE DeliveryProofs ----------------------------
(***************************************************************************)
(* Proofs about the life cycle of a traced process and about delivery,     *)
(* from the return of a method in it to the collector of the agent, for    *)
(* any number of processes, connections and traces and any capacity of the *)
(* socket.  In every order of start, stop, flush, failed connects, forks   *)
(* and crashes the trace point, the socket and the worker agree, and what  *)
(* is pushed is delivered in order.                                        *)
(***************************************************************************)
EXTENDS Racer, SequenceTheorems, TLAPS

------------------------------------------------------------------------------
(* The life cycle *)

(* The ranges of the variables that make up the life cycle. *)
LifeTypes ==
  /\ life \in [Procs -> {"unborn", "polling", "run", "waiting", "exited", "crashed"}]
  /\ tp \in [Procs -> {"nil", "on", "off"}]
  /\ sock \in [Procs -> {"none", "open", "closed"}]
  /\ flushing \in [Procs -> {"no", "join", "stop", "close"}]
  /\ worker \in [Procs -> {"none", "pop", "send", "done", "failed"}]

Began(p) == life[p] \in {"run", "waiting", "exited"}

(* A worker exists only once its process has run, and not when it has been   *)
(* killed; while no flush is under way socket, worker and trace point exist  *)
(* together, and a flush takes them down in the order trace point, worker,   *)
(* socket.                                                                   *)
Consistent(p) ==
  /\ worker[p] # "none" => Began(p)
  /\ life[p] \in {"unborn", "polling"} =>
       tp[p] = "nil" /\ sock[p] # "open" /\ worker[p] = "none" /\ flushing[p] = "no"
  /\ Began(p) /\ flushing[p] = "no" =>
       (sock[p] = "open" <=> tp[p] # "nil") /\ (sock[p] = "open" <=> worker[p] # "none")
  /\ Began(p) /\ flushing[p] # "no" =>
       /\ sock[p] = "open" /\ tp[p] = "nil"
       /\ worker[p] # "none" <=> flushing[p] = "join"

LifeInv == LifeTypes /\ \A p \in Procs : Consistent(p)

lifeVars == <<life, tp, sock, flushing, worker>>

(* The life cycle begins consistently. *)
LEMMA LifeInit == Init => LifeInv
  BY ClientAssumption
  DEF Init, ClientInit, LifeInv, LifeTypes, Consistent, Began

(* A step that changes the five variables of one process q only, from a      *)
(* consistent state to a consistent one, keeps the invariant.                *)
LEMMA OneProcess ==
  ASSUME LifeInv, NEW q \in Procs, LifeTypes', Consistent(q)',
         \A p \in Procs \ {q} :
           /\ life'[p] = life[p] /\ tp'[p] = tp[p] /\ sock'[p] = sock[p]
           /\ flushing'[p] = flushing[p] /\ worker'[p] = worker[p]
  PROVE  LifeInv'
  BY DEF LifeInv, Consistent, Began

(* Every step of a process, of the environment or of the agent keeps the     *)
(* life cycles consistent.                                                   *)
LEMMA LifeStep ==
  ASSUME LifeInv, [Next]_vars
  PROVE  LifeInv'
<1> USE DEF LifeInv, Began, Lives
<1>1. CASE UNCHANGED lifeVars
  BY <1>1 DEF lifeVars, LifeTypes, Consistent
<1>2. CASE PollFile
  <2>1. Leader \in Procs BY ClientAssumption
  <2> QED BY <1>2, <2>1, OneProcess DEF PollFile, Put, LifeTypes, Consistent
<1>3. CASE StopAgent
  <2>1. Leader \in Procs BY ClientAssumption
  <2> QED BY <1>3, <2>1, OneProcess DEF StopAgent, Put, Running, LifeTypes, Consistent
<1>4. CASE WaitAgent
  <2>1. Leader \in Procs BY ClientAssumption
  <2> QED BY <1>4, <2>1, OneProcess DEF WaitAgent, Put, LifeTypes, Consistent
<1>5. ASSUME NEW p \in Procs, Fork(p) PROVE LifeInv'
  <2>1. Leader \in Procs BY ClientAssumption
  <2>2. sock[Leader] # "open"
    BY <1>5, <2>1 DEF Fork, Running, Consistent
  <2> QED BY <1>5, <2>1, <2>2, OneProcess DEF Fork, Put, LifeTypes, Consistent
<1>6. ASSUME NEW p \in Procs, Exit(p) PROVE LifeInv'
  BY <1>6, OneProcess DEF Exit, Put, Running, LifeTypes, Consistent
<1>7. ASSUME NEW p \in Procs, Crash(p) PROVE LifeInv'
  BY <1>7, OneProcess DEF Crash, Put, LifeTypes, Consistent
<1>8. ASSUME NEW p \in Procs, Resume(p) PROVE LifeInv'
  BY <1>8, OneProcess DEF Resume, Put, Running, LifeTypes, Consistent
<1>9. ASSUME NEW p \in Procs, Start(p) PROVE LifeInv'
  BY <1>9, OneProcess DEF Start, Put, Running, LifeTypes, Consistent
<1>10. ASSUME NEW p \in Procs, StartFails(p) \/ SocketFails(p) PROVE LifeInv'
  BY <1>10, OneProcess
  DEF StartFails, SocketFails, Put, Running, LifeTypes, Consistent
<1>11. ASSUME NEW p \in Procs, Stop(p) PROVE LifeInv'
  BY <1>11, OneProcess DEF Stop, Stopped, Put, Running, LifeTypes, Consistent
<1>12. ASSUME NEW p \in Procs, FlushBegin(p) PROVE LifeInv'
  BY <1>12, OneProcess DEF FlushBegin, Put, Running, LifeTypes, Consistent
<1>13. ASSUME NEW p \in Procs, FlushStep(p) PROVE LifeInv'
  <2>1. CASE FlushJoin(p)
    BY <2>1, <1>13, OneProcess DEF FlushJoin, Put, LifeTypes, Consistent
  <2>2. CASE FlushSendStop(p)
    BY <2>2, <1>13, OneProcess DEF FlushSendStop, Put, LifeTypes, Consistent
  <2>3. CASE FlushClose(p)
    BY <2>3, <1>13, OneProcess DEF FlushClose, Put, LifeTypes, Consistent
  <2>4. CASE FlushSendFails(p)
    BY <2>4, <1>13, OneProcess DEF FlushSendFails, Put, LifeTypes, Consistent
  <2> QED BY <1>13, <2>1, <2>2, <2>3, <2>4 DEF FlushStep
<1>14. ASSUME NEW p \in Procs, WorkerStep(p) PROVE LifeInv'
  <2>1. CASE WorkerPop(p)
    BY <2>1, <1>14, OneProcess DEF WorkerPop, Put, LifeTypes, Consistent
  <2>2. CASE WorkerSend(p)
    BY <2>2, <1>14, OneProcess DEF WorkerSend, Put, LifeTypes, Consistent
  <2>3. CASE WorkerFails(p)
    BY <2>3, <1>14, OneProcess DEF WorkerFails, Put, LifeTypes, Consistent
  <2> QED BY <1>14, <2>1, <2>2, <2>3 DEF WorkerStep
<1>15. ASSUME NEW p \in Procs, NEW o \in Owners,
              Explore(p, o) \/ Announce(p, o) \/ Call(p, o) \/ Return(p, o)
       PROVE  UNCHANGED lifeVars
  BY <1>15 DEF Explore, Announce, Call, Return, lifeVars
<1>16. (AgentNext /\ UNCHANGED clientVars) \/ UNCHANGED vars => UNCHANGED lifeVars
  BY DEF lifeVars, clientVars, vars
<1> QED
  BY <1>1, <1>2, <1>3, <1>4, <1>5, <1>6, <1>7, <1>8, <1>9, <1>10, <1>11,
     <1>12, <1>13, <1>14, <1>15, <1>16
  DEF Next, ClientNext

(* The life cycles are consistent in every reachable state. *)
LEMMA LifeInvariant == Spec => []LifeInv
  BY LifeInit, LifeStep, PTL DEF Spec

(* The trace point is on only while there is a queue to push to, a socket    *)
(* and a worker, whatever the order of start, stop, flush and failures.      *)
THEOREM HookIsSafe == Spec => []HookHasQueue
<1>1. LifeInv => HookHasQueue
  BY DEF LifeInv, LifeTypes, Consistent, Began, HookHasQueue, Running, Lives
<1> QED BY <1>1, LifeInvariant, PTL

------------------------------------------------------------------------------
(* Types *)

(* A sequence of a family grows by an element, or loses its first. *)
LEMMA AppendAt ==
  ASSUME NEW S, NEW I, NEW f \in [I -> Seq(S)], NEW i \in I, NEW e \in S
  PROVE  [f EXCEPT ![i] = Append(f[i], e)] \in [I -> Seq(S)]
<1>1. Append(f[i], e) \in Seq(S)
  BY AppendProperties
<1> QED BY <1>1

LEMMA TailAt ==
  ASSUME NEW S, NEW I, NEW f \in [I -> Seq(S)], NEW i \in I, f[i] # <<>>
  PROVE  [f EXCEPT ![i] = Tail(f[i])] \in [I -> Seq(S)] /\ Head(f[i]) \in S
<1>1. Tail(f[i]) \in Seq(S) /\ Head(f[i]) \in S
  BY HeadTailProperties
<1> QED BY <1>1

(* A chunk and the rest of a sequence make up the whole. *)
LEMMA Split ==
  ASSUME NEW S, NEW s \in Seq(S), NEW k \in 1..Len(s)
  PROVE  /\ SubSeq(s, 1, k) \in Seq(S) /\ SubSeq(s, k + 1, Len(s)) \in Seq(S)
         /\ Len(SubSeq(s, k + 1, Len(s))) <= Len(s)
         /\ SubSeq(s, 1, k) \o SubSeq(s, k + 1, Len(s)) = s
<1>1. Len(s) \in Nat /\ \A i \in 1..Len(s) : s[i] \in S
  BY LenProperties, ElementOfSeq
<1>2. SubSeq(s, 1, k) \in Seq(S)
  BY <1>1, SubSeqProperties
<1>3. /\ SubSeq(s, k + 1, Len(s)) \in Seq(S)
      /\ Len(SubSeq(s, k + 1, Len(s))) = IF k + 1 <= Len(s) THEN Len(s) - k ELSE 0
  <2>1. \A i \in (k + 1)..Len(s) : s[i] \in S
    BY <1>1
  <2> QED BY <1>1, <2>1, SubSeqProperties
<1>4. SubSeq(s, 1, k) \o SubSeq(s, k + 1, Len(s)) = SubSeq(s, 1, Len(s))
  BY <1>1, ConcatAdjacentSubSeq
<1>5. SubSeq(s, 1, Len(s)) = s
  BY SubSeqFull
<1>6. Len(SubSeq(s, k + 1, Len(s))) <= Len(s)
  BY <1>1, <1>3
<1> QED BY <1>2, <1>3, <1>4, <1>5, <1>6

(* The variables have their types in the beginning. *)
LEMMA TypeInit == Init => TypeOK
<1> SUFFICES ASSUME Init PROVE TypeOK
  OBVIOUS
<1>1. KernelTypeOK
  <2>1. \A c \in Conns : Len(stream[c]) <= Capacity
    <3>1. \A c \in Conns : stream[c] = <<>>
      BY DEF Init, KernelInit
    <3> SUFFICES ASSUME NEW c \in Conns PROVE Len(stream[c]) <= Capacity
      OBVIOUS
    <3>2. Len(stream[c]) = 0
      BY <3>1, EmptySeq, Zenon
    <3>3. 0 <= Capacity
      BY CapacityAssumption
    <3> QED BY <3>2, <3>3
  <2> QED BY <2>1 DEF Init, KernelInit, KernelTypeOK
<1>2. ClientTypeOK
  BY ClientAssumption DEF Init, ClientInit, ClientTypeOK, Message
<1>3. AgentTypeOK
  BY DEF Init, AgentInit, AgentTypeOK, Phases
<1> QED
  BY <1>1, <1>2, <1>3 DEF Init, KernelInit, AgentInit, TypeOK

(* send never overfills the socket. *)
LEMMA SendType ==
  ASSUME TypeOK, NEW c, NEW m \in Message,
         \/ Writable(c) /\ Send(c, m)
         \/ UNCHANGED stream
  PROVE  stream' \in [Conns -> Seq(Message)] /\ \A d \in Conns : Len(stream'[d]) <= Capacity
<1> USE DEF TypeOK, KernelTypeOK
<1>1. CASE c \in Conns /\ Writable(c) /\ Send(c, m)
  <2>1. Len(Append(stream[c], m)) = Len(stream[c]) + 1 /\ Len(stream[c]) \in Nat
    BY <1>1, AppendProperties, LenProperties
  <2>2. \A d \in Conns : Len(stream'[d]) <= Capacity
    BY <1>1, <2>1, CapacityAssumption DEF Send, Writable
  <2> QED BY <1>1, <2>2, AppendAt DEF Send
<1>2. CASE c \notin Conns /\ Send(c, m)
  BY <1>2 DEF Send
<1> QED BY <1>1, <1>2

(* What a step of a process changes keeps its type. *)
LEMMA ClientTypeStep ==
  ASSUME TypeOK, ClientNext, UNCHANGED agentVars
  PROVE  TypeOK'
<1> USE ClientAssumption DEF TypeOK, ClientTypeOK, KernelTypeOK, AgentTypeOK, Put,
        kernelVars, agentVars, calling, Message
<1>1. CASE PollFile
  BY <1>1 DEF PollFile
<1>2. CASE StopAgent
  BY <1>2 DEF StopAgent
<1>3. CASE WaitAgent
  BY <1>3 DEF WaitAgent
<1>4. ASSUME NEW p \in Procs, Fork(p) PROVE TypeOK'
  BY <1>4 DEF Fork
<1>5. ASSUME NEW p \in Procs, Exit(p) PROVE TypeOK'
  BY <1>5 DEF Exit
<1>6. ASSUME NEW p \in Procs, Crash(p) PROVE TypeOK'
  BY <1>6 DEF Crash
<1>7. ASSUME NEW p \in Procs, Resume(p) \/ StartFails(p) \/ SocketFails(p) PROVE TypeOK'
  <2>1. CASE Resume(p) BY <2>1 DEF Resume
  <2>2. CASE StartFails(p) BY <2>2 DEF StartFails
  <2>3. CASE SocketFails(p) BY <2>3 DEF SocketFails
  <2> QED BY <1>7, <2>1, <2>2, <2>3
<1>8. ASSUME NEW p \in Procs, Start(p) PROVE TypeOK'
  <2> USE <1>8 DEF Start
  <2>1. epoch' \in [Procs -> 0..MaxConns]
    OBVIOUS
  <2>2. conn' \in [Conns -> {"none", "backlog", "open", "reset"}]
    OBVIOUS
  <2>3. queue' \in [Procs -> Seq(Trace \union {StopMsg})]
    OBVIOUS
  <2>4. sock' \in [Procs -> {"none", "open", "closed"}] /\ tp' \in [Procs -> {"nil", "on", "off"}]
        /\ worker' \in [Procs -> {"none", "pop", "send", "done", "failed"}]
    OBVIOUS
  <2>5. ClientTypeOK'
    BY <2>1, <2>3, <2>4
  <2>6. KernelTypeOK'
    BY <2>2
  <2> QED BY <2>5, <2>6
<1>9. ASSUME NEW p \in Procs, Stop(p) PROVE TypeOK'
  BY <1>9 DEF Stop, Stopped
<1>10. ASSUME NEW p \in Procs, FlushBegin(p) PROVE TypeOK'
  <2>1. queue' \in [Procs -> Seq(Trace \union {StopMsg})]
    BY <1>10, AppendAt DEF FlushBegin
  <2> QED BY <1>10, <2>1 DEF FlushBegin
<1>11. ASSUME NEW p \in Procs, FlushJoin(p) PROVE TypeOK'
  <2> USE <1>11 DEF FlushJoin
  <2>1. queue' \in [Procs -> Seq(Trace \union {StopMsg})]
    BY EmptySeq
  <2>2. worker' \in [Procs -> {"none", "pop", "send", "done", "failed"}]
        /\ flushing' \in [Procs -> {"no", "join", "stop", "close"}]
    OBVIOUS
  <2>3. ClientTypeOK'
    BY <2>1, <2>2
  <2> QED BY <2>3
<1>12. ASSUME NEW p \in Procs, FlushSendStop(p) PROVE TypeOK'
  <2>1. stream' \in [Conns -> Seq(Trace \union {StopMsg})] /\ \A c \in Conns : Len(stream'[c]) <= Capacity
    BY <1>12, SendType DEF FlushSendStop
  <2> QED BY <1>12, <2>1 DEF FlushSendStop
<1>13. ASSUME NEW p \in Procs, FlushClose(p) PROVE TypeOK'
  BY <1>13 DEF FlushClose
<1>14. ASSUME NEW p \in Procs, NEW o \in Owners, Return(p, o) PROVE TypeOK'
  <2> DEFINE t == [owner |-> o, updates |-> pending[p], early |-> o \in exploring[p]]
  <2>1. t \in Trace
    BY <1>14 DEF Return, Trace
  <2>2. queue' \in [Procs -> Seq(Trace \union {StopMsg})]
    BY <1>14, <2>1, AppendAt DEF Return
  <2>3. pushed' \in [Conns -> Seq(Trace)]
    <3>1. CASE Current(p) \in Conns
      BY <1>14, <2>1, <3>1, AppendAt DEF Return
    <3>2. CASE Current(p) \notin Conns
      BY <1>14, <3>2 DEF Return
    <3> QED BY <3>1, <3>2
  <2> HIDE DEF t
  <2> QED BY <1>14, <2>2, <2>3 DEF Return
<1>15. ASSUME NEW p \in Procs, WorkerPop(p) PROVE TypeOK'
  <2>1. queue' \in [Procs -> Seq(Trace \union {StopMsg})] /\ Head(queue[p]) \in Trace \union {StopMsg}
    BY <1>15, TailAt DEF WorkerPop
  <2>2. hand' \in [Procs -> Trace \union {StopMsg}]
        /\ worker' \in [Procs -> {"none", "pop", "send", "done", "failed"}]
    <3>1. \/ hand' = hand /\ worker' = [worker EXCEPT ![p] = "done"]
          \/ /\ hand' = [hand EXCEPT ![p] = Head(queue[p])]
             /\ worker' = [worker EXCEPT ![p] = "send"]
      BY <1>15 DEF WorkerPop
    <3>2. hand' \in [Procs -> Trace \union {StopMsg}]
      <4>1. CASE hand' = hand
        BY <4>1
      <4>2. CASE hand' = [hand EXCEPT ![p] = Head(queue[p])]
        <5>1. Head(queue[p]) \in Trace \union {StopMsg}
          BY <2>1
        <5>2. hand \in [Procs -> Trace \union {StopMsg}]
          OBVIOUS
        <5> DEFINE h == Head(queue[p])
        <5> HIDE DEF h
        <5>3. [hand EXCEPT ![p] = h] \in [Procs -> Trace \union {StopMsg}]
          BY <5>1, <5>2 DEF h
        <5> QED BY <4>2, <5>3 DEF h
      <4> QED BY <3>1, <4>1, <4>2
    <3>3. worker' \in [Procs -> {"none", "pop", "send", "done", "failed"}]
      BY <3>1
    <3> QED BY <3>2, <3>3
  <2>3. UNCHANGED <<kernelVars, life, tp, sock, epoch, flushing, calling, broken, pushed>>
    BY <1>15 DEF WorkerPop
  <2> QED BY <2>1, <2>2, <2>3
<1>16. ASSUME NEW p \in Procs, WorkerSend(p) PROVE TypeOK'
  <2>1. stream' \in [Conns -> Seq(Trace \union {StopMsg})] /\ \A c \in Conns : Len(stream'[c]) <= Capacity
    BY <1>16, SendType DEF WorkerSend
  <2> QED BY <1>16, <2>1 DEF WorkerSend
<1>17. ASSUME NEW p \in Procs, WorkerFails(p) PROVE TypeOK'
  BY <1>17 DEF WorkerFails, Breaks
<1>18. ASSUME NEW p \in Procs, NEW o \in Owners, Call(p, o) PROVE TypeOK'
  BY <1>18 DEF Call
<1>19. ASSUME NEW p \in Procs, NEW o \in Owners, Explore(p, o) PROVE TypeOK'
  BY <1>19 DEF Explore
<1>20. ASSUME NEW p \in Procs, NEW o \in Owners, Announce(p, o) PROVE TypeOK'
  <2>1. exploring' \in [Procs -> SUBSET Owners]
    BY <1>20 DEF Announce
  <2>2. pending' \in [Procs -> SUBSET Owners]
    BY <1>20 DEF Announce
  <2>3. active' \in [Procs -> SUBSET Owners]
    BY <1>20 DEF Announce
  <2> QED BY <1>20, <2>1, <2>2, <2>3 DEF Announce
<1>21. ASSUME NEW p \in Procs, FlushSendFails(p) PROVE TypeOK'
  BY <1>21 DEF FlushSendFails, Breaks
<1> QED
  BY <1>1, <1>2, <1>3, <1>4, <1>5, <1>6, <1>7, <1>8, <1>9, <1>10, <1>11, <1>12,
     <1>13, <1>14, <1>15, <1>16, <1>17, <1>18, <1>19, <1>20, <1>21
  DEF ClientNext, FlushStep, WorkerStep

(* What a step of the agent changes keeps its type. *)
LEMMA AgentTypeStep ==
  ASSUME TypeOK, AgentNext, UNCHANGED clientVars
  PROVE  TypeOK'
<1> USE DEF TypeOK, ClientTypeOK, KernelTypeOK, AgentTypeOK, Put, kernelVars, clientVars, calling
<1>1. ASSUME NEW C, ResetAll(C)
      PROVE  /\ conn' \in [Conns -> {"none", "backlog", "open", "reset"}]
             /\ stream' \in [Conns -> Seq(Message)]
             /\ \A c \in Conns : Len(stream'[c]) <= Capacity
  <2>1. Len(<<>>) = 0 /\ <<>> \in Seq(Message) BY EmptySeq
  <2> QED BY <1>1, <2>1, CapacityAssumption DEF ResetAll
<1>2. CASE Bind
  BY <1>2 DEF Bind, Phases
<1>3. CASE BindFails
  BY <1>3, <1>1 DEF BindFails, Die, Phases
<1>4. CASE Listen
  BY <1>4 DEF Listen, Phases
<1>5. CASE Serve
  BY <1>5 DEF Serve, Phases
<1>22. CASE Trap
  BY <1>22 DEF Trap, Phases
<1>6. CASE Killed
  BY <1>6, <1>1 DEF Killed, Die, Phases
<1>7. CASE Note
  BY <1>7 DEF Note, Phases
<1>8. ASSUME NEW c \in Conns, Accept(c) PROVE TypeOK'
  BY <1>8 DEF Accept, Phases
<1>9. ASSUME NEW c \in Conns, Spawn(c) PROVE TypeOK'
  BY <1>9 DEF Spawn, Phases
<1>10. ASSUME NEW c \in Conns, Read(c) PROVE TypeOK'
  <2>1. PICK k \in 1..Len(stream[c]) :
          /\ inbox' = [inbox EXCEPT ![c] = SubSeq(stream[c], 1, k)]
          /\ stream' = [stream EXCEPT ![c] = SubSeq(stream[c], k + 1, Len(stream[c]))]
    BY <1>10 DEF Read
  <2>2. /\ SubSeq(stream[c], 1, k) \in Seq(Message)
        /\ SubSeq(stream[c], k + 1, Len(stream[c])) \in Seq(Message)
        /\ Len(SubSeq(stream[c], k + 1, Len(stream[c]))) <= Len(stream[c])
    BY Split
  <2>3. \A d \in Conns : Len(stream'[d]) <= Capacity
    BY <2>1, <2>2, LenProperties, CapacityAssumption
  <2>4. /\ inbox' \in [Conns -> Seq(Message)] /\ stream' \in [Conns -> Seq(Message)]
    BY <2>1, <2>2
  <2> QED BY <1>10, <2>3, <2>4 DEF Read
<1>11. ASSUME NEW c \in Conns, Parse(c) PROVE TypeOK'
  <2>1. inbox' \in [Conns -> Seq(Message)] /\ Head(inbox[c]) \in Trace
    BY <1>11, TailAt DEF Parse, Message
  <2>2. parsed' \in [Conns -> Seq(Trace)]
    BY <1>11, <2>1, AppendAt DEF Parse
  <2>3. [from |-> c, nr |-> Len(parsed[c]) + 1, trace |-> Head(inbox[c])] \in Entry
    BY <2>1, LenProperties DEF Entry
  <2>4. traces' \in Seq(Entry)
    BY <1>11, <2>3, AppendProperties DEF Parse
  <2> QED BY <1>11, <2>1, <2>2, <2>4 DEF Parse
<1>12. ASSUME NEW c \in Conns, ParseFails(c) PROVE TypeOK'
  BY <1>12 DEF ParseFails
<1>13. ASSUME NEW c \in Conns, ReadStop(c) PROVE TypeOK'
  BY <1>13 DEF ReadStop
<1>14. CASE CollectorPop
  BY <1>14, HeadTailProperties DEF CollectorPop
<1>15. CASE Collect
  <2>1. task \in Entry
    BY <1>15 DEF Collect
  <2>2. task.from \in Conns /\ task.trace \in Trace /\ task.trace.updates \subseteq Owners
    BY <2>1 DEF Entry, Trace
  <2>3. collected' \in [Conns -> Seq(Trace)]
    <3>1. CASE collected' = [collected EXCEPT ![task.from] = Append(collected[task.from], task.trace)]
      BY <2>2, <3>1, AppendAt
    <3>2. CASE UNCHANGED collected
      BY <3>2
    <3> QED BY <1>15, <3>1, <3>2 DEF Collect, Add
  <2>4. collector' \in {"alive", "dead", "written"} /\ results' \subseteq Owners /\ task' = Idle
    BY <1>15, <2>2 DEF Collect
  <2>5. UNCHANGED <<kernelVars, phase, reader, noted, inbox, traces, closed, parsed>>
    BY <1>15 DEF Collect
  <2> QED BY <2>3, <2>4, <2>5
<1>16. CASE Write
  BY <1>16 DEF Write
<1>17. CASE HandleHup
  BY <1>17 DEF HandleHup, Phases
<1>18. CASE JoinReaders
  BY <1>18, <1>1 DEF JoinReaders, Phases
<1>19. CASE CloseQueue
  BY <1>19 DEF CloseQueue, Phases
<1>20. CASE Unlink
  BY <1>20 DEF Unlink, Phases
<1>21. CASE JoinCollector
  BY <1>21, <1>1 DEF JoinCollector, Die, Phases
<1> QED
  BY <1>2, <1>3, <1>4, <1>5, <1>6, <1>7, <1>8, <1>9, <1>10, <1>11, <1>12, <1>13,
     <1>14, <1>15, <1>16, <1>17, <1>18, <1>19, <1>20, <1>21, <1>22
  DEF AgentNext, BootStep, AcceptStep, ReaderStep, CollectorStep, ExitStep

(* The variables always have their types: in particular the socket's buffer  *)
(* never holds more than it can, whoever sends.                              *)
THEOREM DeliveryTypes == Spec => []TypeOK
<1>1. TypeOK /\ [Next]_vars => TypeOK'
  <2>1. CASE UNCHANGED vars
    BY <2>1 DEF vars, kernelVars, clientVars, calling, agentVars, TypeOK, KernelTypeOK,
       ClientTypeOK, AgentTypeOK
  <2> QED BY <2>1, ClientTypeStep, AgentTypeStep DEF Next
<1> QED BY <1>1, TypeInit, PTL DEF Spec

------------------------------------------------------------------------------
(* The order of delivery *)

Begins(s, t) == Len(s) <= Len(t) /\ \A i \in 1..Len(s) : s[i] = t[i]

(* What the agent's end of a connection has seen: "stop" counts as seen when *)
(* it has ended the reader.  What there is to see, once the client is done.  *)
Taken(c) == IF reader[c] = "stopped" THEN <<StopMsg>> ELSE inbox[c]
Seen(c) == (parsed[c] \o Taken(c)) \o stream[c]
Everything(c) == Append(pushed[c], StopMsg)

(* What a process still has to send on its current connection. *)
Owed(p) ==
  IF sock[p] # "open" \/ flushing[p] = "close" THEN <<>>
  ELSE IF flushing[p] = "no" THEN Append(Sending(p), StopMsg)
  ELSE IF flushing[p] = "join" /\ worker[p] \in {"pop", "send"} THEN Sending(p)
  ELSE <<StopMsg>>

Finished(c) ==
  LET p == c[1]
  IN  \/ c[2] < epoch[p]
      \/ c[2] = epoch[p] /\ (flushing[p] = "close" \/ sock[p] # "open")

(* A connection that has not been made is as it was in the beginning.        *)
Unused(c) ==
  c[2] > epoch[c[1]] =>
    /\ c \notin broken
    /\ conn[c] = "none" /\ reader[c] = "none"
    /\ stream[c] = <<>> /\ inbox[c] = <<>> /\ parsed[c] = <<>> /\ pushed[c] = <<>>

(* What connection c carries: u, the traces pushed for it or, where a send   *)
(* failed, a beginning of them; then "stop", which is seen only when the     *)
(* client is done with the connection.                                       *)
Carries(c, u) ==
  /\ Begins(u, pushed[c])
  /\ c \notin broken => u = pushed[c]
  /\ Begins(Seen(c), Append(u, StopMsg))
  /\ Len(Seen(c)) > Len(u) => Finished(c)

Ordered(c) ==
  /\ reader[c] = "stopped" => inbox[c] = <<>>
  /\ IF reader[c] = "failed"
       THEN Begins(parsed[c], pushed[c])
       ELSE \E u \in Seq(Trace) : Carries(c, u)

(* What is seen and what is owed are everything, unless a send failed.       *)
Complete(c) ==
  LET p == c[1]
  IN  Alive(c) /\ life[p] # "crashed" /\ reader[c] # "failed" /\ c \notin broken =>
        /\ c[2] < epoch[p] => Seen(c) = Everything(c)
        /\ c[2] = epoch[p] => /\ Seen(c) \o Owed(p) = Everything(c)
                              /\ worker[p] = "done" => queue[p] = <<>>

(* The worker and its queue. *)
WorkerOK(p) ==
  /\ worker[p] = "send" => hand[p] \in Trace
  /\ worker[p] = "failed" => ~Alive(Current(p)) \/ Current(p) \in broken
  /\ worker[p] \in {"pop", "send", "done"} => Current(p) \notin broken
  /\ worker[p] = "done" => flushing[p] = "join"
  /\ worker[p] = "none" /\ life[p] # "crashed" => queue[p] = <<>>
  /\ flushing[p] = "no" => queue[p] \in Seq(Trace)
  /\ life[p] \in {"unborn", "polling"} => epoch[p] = 0
  /\ sock[p] = "open" => epoch[p] >= 1

DeliveryInv ==
  /\ \A p \in Procs : WorkerOK(p)
  /\ \A c \in Conns : Unused(c) /\ Ordered(c) /\ Complete(c)

Local(c) == Unused(c) /\ Ordered(c) /\ Complete(c)

------------------------------------------------------------------------------
(* Lemmas about sequences *)

LEMMA AppendRight ==
  ASSUME NEW S, NEW s \in Seq(S), NEW t \in Seq(S), NEW e \in S
  PROVE  s \o Append(t, e) = Append(s \o t, e)
<1>1. <<e>> \in Seq(S) /\ s \o t \in Seq(S)
  BY ConcatProperties
<1>2. s \o (t \o <<e>>) = (s \o t) \o <<e>>
  BY <1>1, ConcatAssociative
<1>3. Append(t, e) = t \o <<e>> /\ Append(s \o t, e) = (s \o t) \o <<e>>
  BY <1>1, AppendIsConcat
<1> QED BY <1>2, <1>3

LEMMA AppendLeft ==
  ASSUME NEW S, NEW s \in Seq(S), NEW t \in Seq(S), NEW e \in S
  PROVE  Append(s, e) \o t = s \o (<<e>> \o t)
<1>1. <<e>> \in Seq(S)
  OBVIOUS
<1>2. s \o (<<e>> \o t) = (s \o <<e>>) \o t
  BY <1>1, ConcatAssociative
<1>3. Append(s, e) = s \o <<e>>
  BY AppendIsConcat
<1> QED BY <1>2, <1>3

LEMMA HeadFirst ==
  ASSUME NEW S, NEW s \in Seq(S), s # <<>>
  PROVE  <<Head(s)>> \o Tail(s) = s
<1>1. Len(s) \in Nat \ {0}
  BY EmptySeq
<1>2. SubSeq(s, 1, Len(s)) = <<s[1]>> \o SubSeq(s, 2, Len(s))
  BY <1>1, SubSeqRecursiveFirst
<1>3. SubSeq(s, 1, Len(s)) = s /\ Tail(s) = SubSeq(s, 2, Len(s)) /\ Head(s) = s[1]
  BY SubSeqFull, TailIsSubSeq
<1> QED BY <1>2, <1>3

(* The first of what is left moves over to what has gone. *)
LEMMA MoveHead ==
  ASSUME NEW S, NEW s \in Seq(S), NEW t \in Seq(S), t # <<>>
  PROVE  Append(s, Head(t)) \o Tail(t) = s \o t
<1>1. Head(t) \in S /\ Tail(t) \in Seq(S)
  BY HeadTailProperties
<1>2. Append(s, Head(t)) \o Tail(t) = s \o (<<Head(t)>> \o Tail(t))
  BY <1>1, AppendLeft
<1> QED BY <1>2, HeadFirst

LEMMA BeginsConcat ==
  ASSUME NEW S, NEW s \in Seq(S), NEW t \in Seq(S)
  PROVE  Begins(s, s \o t)
<1>1. Len(s) \in Nat /\ Len(t) \in Nat
  BY LenProperties
<1> QED BY <1>1, ConcatProperties DEF Begins

LEMMA BeginsSelf ==
  ASSUME NEW S, NEW s \in Seq(S)
  PROVE  Begins(s, s)
<1>1. Len(s) \in Nat
  BY LenProperties
<1> QED BY <1>1 DEF Begins

LEMMA BeginsTransitive ==
  ASSUME NEW S, NEW s \in Seq(S), NEW t \in Seq(S), NEW u, Begins(s, t), Begins(t, u)
  PROVE  Begins(s, u)
<1>1. Len(s) \in Nat /\ Len(t) \in Nat
  BY LenProperties
<1> QED BY <1>1 DEF Begins

LEMMA BeginsAppend ==
  ASSUME NEW S, NEW s \in Seq(S), NEW e \in S
  PROVE  Begins(s, Append(s, e))
<1>1. Len(s) \in Nat
  BY LenProperties
<1> QED BY <1>1, AppendProperties DEF Begins

(* What begins a sequence and is not longer than a beginning of it begins    *)
(* that, too.                                                                *)
LEMMA BeginsShorter ==
  ASSUME NEW S, NEW s \in Seq(S), NEW t \in Seq(S), NEW u \in Seq(S),
         Begins(s, u), Begins(t, u), Len(s) <= Len(t)
  PROVE  Begins(s, t)
<1>1. Len(s) \in Nat /\ Len(t) \in Nat /\ Len(u) \in Nat
  BY LenProperties
<1> QED BY <1>1 DEF Begins

(* As long as the whole: the whole. *)
LEMMA BeginsWhole ==
  ASSUME NEW S, NEW s \in Seq(S), NEW t \in Seq(S), Begins(s, t), Len(s) >= Len(t)
  PROVE  s = t
<1>1. Len(s) \in Nat /\ Len(t) \in Nat
  BY LenProperties
<1>2. Len(s) = Len(t) /\ \A i \in 1..Len(s) : s[i] = t[i]
  BY <1>1 DEF Begins
<1> QED BY <1>2, SeqEqual

(* Where "stop" comes, everything before it has come and nothing follows.    *)
LEMMA StopEnds ==
  ASSUME NEW u \in Seq(Trace), NEW a \in Seq(Message), NEW b \in Seq(Message),
         Begins(Append(a, StopMsg) \o b, Append(u, StopMsg))
  PROVE  a = u /\ b = <<>>
<1> DEFINE s == Append(a, StopMsg) \o b
           w == Append(u, StopMsg)
<1>1. StopMsg \in Message /\ u \in Seq(Message)
  BY SeqMonotonic DEF Message
<1>2. /\ Append(a, StopMsg) \in Seq(Message) /\ Len(Append(a, StopMsg)) = Len(a) + 1
      /\ Append(a, StopMsg)[Len(a) + 1] = StopMsg
      /\ \A i \in 1..Len(a) : Append(a, StopMsg)[i] = a[i]
  BY <1>1, AppendProperties
<1>3. /\ Len(w) = Len(u) + 1
      /\ \A i \in 1..Len(u) : w[i] = u[i]
  BY <1>1, AppendProperties
<1>4. Len(a) \in Nat /\ Len(b) \in Nat /\ Len(u) \in Nat
  BY LenProperties
<1>5. /\ Len(s) = Len(a) + 1 + Len(b)
      /\ \A i \in 1..(Len(a) + 1) : s[i] = Append(a, StopMsg)[i]
  BY <1>2, <1>4, ConcatProperties
<1>6. Len(s) <= Len(w) /\ \A i \in 1..Len(s) : s[i] = w[i]
  BY DEF Begins
<1> HIDE DEF s, w
<1>7. w[Len(a) + 1] = StopMsg
  BY <1>2, <1>4, <1>5, <1>6
<1>8. \A i \in 1..Len(u) : u[i] # StopMsg
  BY ElementOfSeq, RacerAssumption
<1>9. Len(a) = Len(u) /\ Len(b) = 0
  BY <1>3, <1>4, <1>5, <1>6, <1>7, <1>8
<1>10. \A i \in 1..Len(a) : a[i] = u[i]
  BY <1>2, <1>3, <1>4, <1>5, <1>6, <1>9
<1>11. a = u
  BY <1>1, <1>9, <1>10, SeqEqual
<1>12. b = <<>>
  BY <1>9, EmptySeq
<1> QED BY <1>11, <1>12

(* Traces that begin with everything begin with the traces. *)
LEMMA TracesBegin ==
  ASSUME NEW u \in Seq(Trace), NEW a \in Seq(Trace), Begins(a, Append(u, StopMsg))
  PROVE  Begins(a, u)
<1>1. StopMsg \in Message /\ u \in Seq(Message)
  BY SeqMonotonic DEF Message
<1>2. /\ Len(Append(u, StopMsg)) = Len(u) + 1 /\ Append(u, StopMsg)[Len(u) + 1] = StopMsg
      /\ \A i \in 1..Len(u) : Append(u, StopMsg)[i] = u[i]
  BY <1>1, AppendProperties
<1>3. Len(a) \in Nat /\ Len(u) \in Nat /\ \A i \in 1..Len(a) : a[i] # StopMsg
  BY LenProperties, ElementOfSeq, RacerAssumption
<1>4. Len(a) <= Len(u)
  BY <1>2, <1>3 DEF Begins
<1> QED BY <1>2, <1>3, <1>4 DEF Begins

(* What begins a sequence of traces is one. *)
LEMMA BeginningsAreTraces ==
  ASSUME NEW s \in Seq(Message), NEW t \in Seq(Trace), Begins(s, t)
  PROVE  s \in Seq(Trace)
<1>1. Len(s) \in Nat /\ Len(t) \in Nat /\ s = [i \in 1..Len(s) |-> s[i]]
  BY LenProperties, SeqDef
<1>2. \A i \in 1..Len(s) : s[i] \in Trace
  <2>1. \A i \in 1..Len(t) : t[i] \in Trace
    BY ElementOfSeq
  <2> QED BY <1>1, <2>1 DEF Begins
<1>3. s \in [1..Len(s) -> Trace]
  BY <1>1, <1>2, Zenon
<1> QED BY <1>1, <1>3, SeqDef

(* Before anything else comes, there is a trace left. *)
LEMMA TraceGoesOn ==
  ASSUME NEW u \in Seq(Trace), NEW a \in Seq(Message), NEW m \in Trace,
         Begins(Append(a, m), Append(u, StopMsg))
  PROVE  Len(Append(a, m)) <= Len(u)
<1>1. StopMsg \in Message /\ m \in Message /\ u \in Seq(Message)
  BY SeqMonotonic DEF Message
<1>2. /\ Len(Append(a, m)) = Len(a) + 1 /\ Append(a, m)[Len(a) + 1] = m
      /\ Len(Append(u, StopMsg)) = Len(u) + 1 /\ Append(u, StopMsg)[Len(u) + 1] = StopMsg
  BY <1>1, AppendProperties
<1>3. Len(a) \in Nat /\ Len(u) \in Nat
  BY LenProperties
<1>4. Len(a) + 1 <= Len(u) + 1 /\ Append(u, StopMsg)[Len(a) + 1] = m
  BY <1>2, <1>3 DEF Begins
<1> QED BY <1>2, <1>3, <1>4, RacerAssumption

------------------------------------------------------------------------------
(* Connections *)

LEMMA ConnParts ==
  ASSUME NEW c \in Conns
  PROVE  c[1] \in Procs /\ c[2] \in 1..MaxConns /\ c[2] \in Nat \ {0} /\ c = <<c[1], c[2]>>
  BY ClientAssumption

LEMMA CurrentConn ==
  ASSUME TypeOK, NEW p \in Procs, epoch[p] >= 1
  PROVE  Current(p) \in Conns /\ Current(p)[1] = p /\ Current(p)[2] = epoch[p]
  BY ClientAssumption DEF Current, TypeOK, ClientTypeOK

LEMMA NotCurrent ==
  ASSUME NEW c \in Conns, NEW p \in Procs, c # Current(p)
  PROVE  c[1] # p \/ c[2] # epoch[p]
  BY ConnParts DEF Current

(* What a connection carries depends on what has been seen of it, on what    *)
(* was pushed for it and on whether a send failed on it.                     *)
LEMMA CarriesOn ==
  ASSUME NEW c \in Conns, NEW u, Carries(c, u),
         pushed'[c] = pushed[c], c \notin broken' => c \notin broken,
         Seen(c)' = Seen(c), Finished(c) => Finished(c)'
  PROVE  Carries(c, u)'
BY DEF Carries

(* What is seen is a sequence of messages. *)
LEMMA SeenType ==
  ASSUME TypeOK, NEW c \in Conns
  PROVE  /\ Taken(c) \in Seq(Message) /\ parsed[c] \in Seq(Message) /\ stream[c] \in Seq(Message)
         /\ parsed[c] \o Taken(c) \in Seq(Message) /\ Seen(c) \in Seq(Message)
         /\ pushed[c] \in Seq(Trace) /\ pushed[c] \in Seq(Message)
         /\ Everything(c) \in Seq(Message) /\ Len(Everything(c)) = Len(pushed[c]) + 1
         /\ StopMsg \in Message
<1>1. StopMsg \in Message /\ Trace \subseteq Message
  BY DEF Message
<1>2. Taken(c) \in Seq(Message)
  BY <1>1 DEF Taken, TypeOK
<1>3. parsed[c] \in Seq(Message) /\ pushed[c] \in Seq(Trace) /\ pushed[c] \in Seq(Message)
  BY <1>1, SeqMonotonic DEF TypeOK, ClientTypeOK
<1>4. parsed[c] \o Taken(c) \in Seq(Message) /\ stream[c] \in Seq(Message)
  BY <1>2, <1>3, ConcatProperties DEF TypeOK
<1>5. Seen(c) \in Seq(Message)
  BY <1>4, ConcatProperties DEF Seen
<1>6. Everything(c) \in Seq(Message) /\ Len(Everything(c)) = Len(pushed[c]) + 1
  BY <1>1, <1>3, AppendProperties DEF Everything
<1> QED BY <1>1, <1>2, <1>3, <1>4, <1>5, <1>6

LEMMA SendingType ==
  ASSUME TypeOK, NEW p \in Procs
  PROVE  /\ Sending(p) \in Seq(Message) /\ Owed(p) \in Seq(Message)
         /\ queue[p] \in Seq(Message) /\ hand[p] \in Message
<1>1. queue[p] \in Seq(Message) /\ hand[p] \in Message /\ StopMsg \in Message
  BY DEF TypeOK, ClientTypeOK, Message
<1>2. Sending(p) \in Seq(Message)
  <2> DEFINE h == IF worker[p] = "send" THEN <<hand[p]>> ELSE <<>>
  <2>1. h \in Seq(Message)
    BY <1>1
  <2> QED BY <1>1, <2>1, ConcatProperties DEF Sending
<1>3. Append(Sending(p), StopMsg) \in Seq(Message)
  BY <1>1, <1>2, AppendProperties
<1> QED BY <1>1, <1>2, <1>3 DEF Owed

(* The connection a worker, a flush or a push is about. *)
LEMMA OpenConnection ==
  ASSUME TypeOK, DeliveryInv, NEW p \in Procs, sock[p] = "open"
  PROVE  /\ Current(p) \in Conns /\ Current(p)[1] = p /\ Current(p)[2] = epoch[p]
         /\ Local(Current(p))
<1>1. epoch[p] >= 1
  BY DEF DeliveryInv, WorkerOK
<1>2. Current(p) \in Conns /\ Current(p)[1] = p /\ Current(p)[2] = epoch[p]
  BY <1>1, CurrentConn
<1> QED BY <1>2 DEF DeliveryInv, Local

LEMMA WorkingConnection ==
  ASSUME TypeOK, LifeInv, DeliveryInv, NEW p \in Procs, worker[p] # "none"
  PROVE  /\ sock[p] = "open" /\ flushing[p] \in {"no", "join"} /\ Began(p)
         /\ Current(p) \in Conns /\ Current(p)[1] = p /\ Current(p)[2] = epoch[p]
         /\ Local(Current(p))
<1>1. sock[p] = "open" /\ flushing[p] \in {"no", "join"} /\ Began(p)
  BY DEF LifeInv, LifeTypes, Consistent
<1> QED BY <1>1, OpenConnection

(* A connection that no step touches, and that is not the current one of the *)
(* process p that moves, stays as it is.                                     *)
LEMMA OtherConnection ==
  ASSUME TypeOK, NEW p \in Procs, NEW c \in Conns, c # Current(p), Local(c),
         epoch' = epoch,
         conn'[c] = conn[c], stream'[c] = stream[c], pushed'[c] = pushed[c],
         reader'[c] = reader[c], inbox'[c] = inbox[c], parsed'[c] = parsed[c],
         c \in broken' <=> c \in broken,
         \A q \in Procs \ {p} :
           /\ life'[q] = life[q] /\ sock'[q] = sock[q] /\ flushing'[q] = flushing[q]
           /\ worker'[q] = worker[q] /\ hand'[q] = hand[q] /\ queue'[q] = queue[q],
         life'[p] # "crashed" => life[p] # "crashed"
  PROVE  Local(c)'
<1>1. Seen(c)' = Seen(c) /\ Everything(c)' = Everything(c) /\ Alive(c)' = Alive(c)
  BY DEF Seen, Taken, Everything, Alive
<1>2. c[1] \in Procs /\ (c[1] = p => c[2] # epoch[p])
  BY NotCurrent, ConnParts
<1>3. c[1] # p => Owed(c[1])' = Owed(c[1])
  BY <1>2 DEF Owed, Sending
<1>4. Unused(c)'
  BY DEF Local, Unused
<1>5. Finished(c)' = Finished(c)
  BY <1>2 DEF Finished
<1>6. Ordered(c)'
  BY <1>1, <1>5, CarriesOn DEF Local, Ordered
<1>7. Complete(c)'
  BY <1>1, <1>2, <1>3 DEF Local, Complete
<1> QED BY <1>4, <1>6, <1>7 DEF Local

(* A step of a process p keeps the invariant if it does so for p itself and  *)
(* its current connection.                                                   *)
LEMMA ProcessStep ==
  ASSUME TypeOK, LifeInv, DeliveryInv, NEW p \in Procs,
         epoch' = epoch, conn' = conn, UNCHANGED <<reader, inbox, parsed>>,
         \A c \in Conns \ {Current(p)} : /\ stream'[c] = stream[c] /\ pushed'[c] = pushed[c]
                                         /\ c \in broken' <=> c \in broken,
         \A q \in Procs \ {p} :
           /\ life'[q] = life[q] /\ sock'[q] = sock[q] /\ flushing'[q] = flushing[q]
           /\ worker'[q] = worker[q] /\ hand'[q] = hand[q] /\ queue'[q] = queue[q],
         life'[p] # "crashed" => life[p] # "crashed",
         WorkerOK(p)', \A c \in Conns : c = Current(p) => Local(c)'
  PROVE  DeliveryInv'
<1>1. ASSUME NEW q \in Procs PROVE WorkerOK(q)'
  <2>1. CASE q # p /\ worker[q] # "none"
    <3>1. Current(q) \in Conns /\ Current(q) # Current(p)
      BY <2>1, WorkingConnection DEF Current
    <3> QED BY <2>1, <3>1 DEF DeliveryInv, WorkerOK, Current, Alive
  <2>2. CASE q # p /\ worker[q] = "none"
    BY <2>2 DEF DeliveryInv, WorkerOK
  <2> QED BY <2>1, <2>2
<1>2. ASSUME NEW c \in Conns PROVE Local(c)'
  <2>1. CASE c = Current(p)
    BY <2>1
  <2>2. CASE c # Current(p)
    BY <2>2, OtherConnection DEF DeliveryInv, Local
  <2> QED BY <2>1, <2>2
<1> QED BY <1>1, <1>2 DEF DeliveryInv, Local

(* A step that only stops and resumes trace points, tries to connect in      *)
(* vain, waits, forks or ends a process leaves delivery alone.               *)
LEMMA QuietStep ==
  ASSUME TypeOK, DeliveryInv,
         UNCHANGED <<conn, stream, epoch, flushing, queue, worker, hand, broken, pushed,
                     reader, inbox, parsed>>,
         \A p \in Procs :
           /\ sock'[p] = "open" <=> sock[p] = "open"
           /\ life'[p] = "crashed" <=> life[p] = "crashed"
           /\ life'[p] \in {"unborn", "polling"} => life[p] \in {"unborn", "polling"}
  PROVE  DeliveryInv'
<1>1. ASSUME NEW p \in Procs PROVE WorkerOK(p)'
  BY <1>1 DEF DeliveryInv, WorkerOK, Current, Alive
<1>2. ASSUME NEW c \in Conns PROVE Local(c)'
  <2>1. Seen(c)' = Seen(c) /\ Everything(c)' = Everything(c) /\ Alive(c)' = Alive(c)
    BY DEF Seen, Taken, Everything, Alive
  <2>2. c[1] \in Procs
    BY ConnParts
  <2>3. Owed(c[1])' = Owed(c[1])
    BY <2>2 DEF Owed, Sending
  <2>4. Finished(c)' = Finished(c)
    BY <2>2 DEF Finished
  <2>5. Unused(c) /\ Ordered(c) /\ Complete(c)
    BY DEF DeliveryInv
  <2>6. Unused(c)'
    BY <2>5 DEF Unused
  <2>7. Ordered(c)'
    BY <2>1, <2>4, <2>5, CarriesOn DEF Ordered
  <2>8. Complete(c)'
    BY <2>1, <2>2, <2>3, <2>5 DEF Complete
  <2> QED BY <2>6, <2>7, <2>8 DEF Local
<1> QED BY <1>1, <1>2 DEF DeliveryInv, Local

------------------------------------------------------------------------------
(* The steps of a process *)

LEMMA DeliveryInit == Init => DeliveryInv
<1> SUFFICES ASSUME Init PROVE DeliveryInv
  OBVIOUS
<1> USE DEF Init, KernelInit, ClientInit, AgentInit
<1>1. ASSUME NEW p \in Procs PROVE WorkerOK(p)
  BY DEF WorkerOK
<1>2. ASSUME NEW c \in Conns PROVE Local(c)
  <2>1. c[1] \in Procs /\ c[2] \in Nat \ {0}
    BY ConnParts
  <2>2. Unused(c)
    BY DEF Unused
  <2>3. Seen(c) = <<>> /\ Len(Seen(c)) = 0
    <3>1. parsed[c] = <<>> /\ Taken(c) = <<>> /\ stream[c] = <<>>
      BY DEF Taken
    <3> QED BY <3>1, EmptySeq, ConcatEmptySeq DEF Seen
  <2>4. Len(pushed[c]) = 0
    BY EmptySeq
  <2>5. Begins(Seen(c), Everything(c))
    <3>1. Len(Everything(c)) = 1
      BY TypeInit, SeenType, <2>4
    <3> QED BY <2>3, <3>1 DEF Begins
  <2>6. Ordered(c)
    <3>1. pushed[c] \in Seq(Trace)
      BY EmptySeq
    <3>2. Begins(pushed[c], pushed[c])
      BY <3>1, BeginsSelf
    <3>3. ~(Len(Seen(c)) > Len(pushed[c]))
      BY <2>3, <2>4
    <3>4. Carries(c, pushed[c])
      BY ONLY <2>5, <3>2, <3>3 DEF Carries, Everything
    <3> QED BY <3>1, <3>4 DEF Ordered
  <2>7. Complete(c)
    BY DEF Complete, Alive
  <2> QED BY <2>2, <2>6, <2>7 DEF Local
<1> QED BY <1>1, <1>2 DEF DeliveryInv, Local

LEMMA SendStep ==
  ASSUME TypeOK, LifeInv, DeliveryInv, UNCHANGED agentVars, NEW p \in Procs, WorkerSend(p)
  PROVE  DeliveryInv'
<1> DEFINE c == Current(p)
           h == hand[p]
<1> USE DEF Put
<1>1. /\ worker[p] = "send" /\ Writable(c)
      /\ stream' = [stream EXCEPT ![c] = Append(stream[c], h)]
      /\ worker' = [worker EXCEPT ![p] = "pop"] /\ hand' = [hand EXCEPT ![p] = StopMsg]
      /\ UNCHANGED <<conn, life, sock, epoch, flushing, queue, broken, pushed>>
  BY DEF WorkerSend, Send
<1>2. life[p] # "crashed" /\ sock[p] = "open" /\ flushing[p] \in {"no", "join"}
  BY <1>1, WorkingConnection DEF Began
<1>3. c \in Conns /\ c[1] = p /\ c[2] = epoch[p] /\ Local(c) /\ c \notin broken
  BY <1>1, WorkingConnection DEF DeliveryInv, WorkerOK
<1>4. h \in Trace /\ h \in Message
  BY <1>1, SendingType DEF DeliveryInv, WorkerOK
<1>5. worker'[p] = "pop" /\ Sending(p) = <<h>> \o queue[p] /\ Sending(p)' = <<>> \o queue[p]
  BY <1>1 DEF Sending, TypeOK, ClientTypeOK
<1>6. Owed(p)' \in Seq(Message) /\ Owed(p) = <<h>> \o Owed(p)'
  <2>1. queue[p] \in Seq(Message) /\ <<h>> \in Seq(Message) /\ StopMsg \in Message
    BY <1>4, SendingType DEF Message
  <2>2. Sending(p)' = queue[p]
    BY <1>5, <2>1, ConcatEmptySeq
  <2>3. CASE flushing[p] = "no"
    <3>1. Owed(p)' = Append(queue[p], StopMsg) /\ Owed(p) = Append(<<h>> \o queue[p], StopMsg)
      BY <1>1, <1>2, <1>5, <2>2, <2>3 DEF Owed
    <3> QED BY <2>1, <3>1, AppendRight, AppendProperties
  <2>4. CASE flushing[p] = "join"
    <3>1. Owed(p)' = queue[p] /\ Owed(p) = <<h>> \o queue[p]
      BY <1>1, <1>2, <1>5, <2>2, <2>4 DEF Owed
    <3> QED BY <2>1, <3>1
  <2> QED BY <1>2, <2>3, <2>4
<1>7. ASSUME NEW d \in Conns, d = c PROVE Local(d)'
  <2>1. Seen(d)' = Append(Seen(d), h)
    <3>1. Seen(d)' = (parsed[d] \o Taken(d)) \o Append(stream[d], h)
      BY <1>1, <1>3, <1>7 DEF Seen, Taken, TypeOK, agentVars
    <3> DEFINE x == parsed[d] \o Taken(d)
    <3>2. x \in Seq(Message) /\ stream[d] \in Seq(Message)
      BY SeenType
    <3> HIDE DEF x, h
    <3>3. x \o Append(stream[d], h) = Append(x \o stream[d], h)
      BY <1>4, <3>2, AppendRight
    <3> QED BY <3>1, <3>3 DEF Seen, x
  <2>2. Everything(d)' = Everything(d) /\ pushed'[d] = pushed[d] /\ Alive(d) /\ d[1] = p
    BY <1>1, <1>3, <1>7 DEF Everything, Writable
  <2>3. ASSUME reader[d] # "failed" PROVE Seen(d)' \o Owed(p)' = Everything(d)
    <3>1. Seen(d) \o Owed(p) = Everything(d)
      BY <1>2, <1>3, <1>7, <2>2, <2>3 DEF Local, Complete
    <3>2. Seen(d) \in Seq(Message)
      BY SeenType
    <3>3. Append(Seen(d), h) \o Owed(p)' = Seen(d) \o (<<h>> \o Owed(p)')
      BY <1>4, <1>6, <3>2, AppendLeft
    <3> QED BY <1>6, <2>1, <3>1, <3>3
  <2>4. Unused(d)'
    BY <1>1, <1>3, <1>7, ConnParts DEF Unused
  <2>5. Ordered(d)'
    <3>1. CASE reader[d] = "failed"
      BY <1>3, <1>7, <2>2, <3>1 DEF Local, Ordered, agentVars
    <3>2. CASE reader[d] # "failed"
      <4>1. Seen(d) \in Seq(Message) /\ Append(Seen(d), h) \in Seq(Message)
        BY <1>4, SeenType, AppendProperties
      <4>2. Begins(Seen(d)', Everything(d))
        BY <1>6, <2>1, <2>3, <3>2, <4>1, BeginsConcat
      <4>3. Len(Seen(d)') <= Len(pushed[d])
        BY <1>4, <2>1, <4>1, <4>2, SeenType, TraceGoesOn DEF Everything
      <4>4. Len(Seen(d)') \in Nat /\ Len(pushed[d]) \in Nat
        BY <2>1, <4>1, SeenType, LenProperties
      <4>5. Begins(pushed[d], pushed[d]) /\ pushed[d] \in Seq(Trace)
        BY SeenType, BeginsSelf
      <4>6. Carries(d, pushed[d])'
        BY <2>2, <4>2, <4>3, <4>4, <4>5 DEF Carries, Everything
      <4> QED BY <1>3, <1>7, <2>2, <3>2, <4>5, <4>6 DEF Local, Ordered, agentVars
    <3> QED BY <3>1, <3>2
  <2>6. Complete(d)'
    <3>1. ~(d[2] < epoch'[d[1]]) /\ worker'[d[1]] # "done"
      BY <1>1, <1>3, <1>5, <1>7, <2>2, ConnParts
    <3> QED BY <2>2, <2>3, <3>1 DEF Complete, agentVars
  <2> QED BY <2>4, <2>5, <2>6 DEF Local
<1>8. WorkerOK(p)'
  BY <1>1, <1>3, <1>5 DEF DeliveryInv, WorkerOK, Current, c
<1>9. \A d \in Conns \ {c} : stream'[d] = stream[d] /\ pushed'[d] = pushed[d]
  BY <1>1 DEF TypeOK
<1>10. \A q \in Procs \ {p} : worker'[q] = worker[q] /\ hand'[q] = hand[q]
  BY <1>1 DEF TypeOK, ClientTypeOK
<1> HIDE DEF c, h
<1> QED BY <1>1, <1>7, <1>8, <1>9, <1>10, ProcessStep DEF agentVars, c

(* A step of a process that neither sends nor pushes a trace may move what   *)
(* it owes, but not change it.                                               *)
LEMMA InnerStep ==
  ASSUME TypeOK, LifeInv, DeliveryInv, NEW p \in Procs,
         UNCHANGED <<epoch, conn, stream, pushed, reader, inbox, parsed>>,
         \A c \in Conns \ {Current(p)} : c \in broken' <=> c \in broken,
         Current(p) \in broken => Current(p) \in broken',
         \A c \in Conns : c = Current(p) /\ c[2] > epoch[p] => c \notin broken',
         \A q \in Procs \ {p} :
           /\ life'[q] = life[q] /\ sock'[q] = sock[q] /\ flushing'[q] = flushing[q]
           /\ worker'[q] = worker[q] /\ hand'[q] = hand[q] /\ queue'[q] = queue[q],
         life'[p] # "crashed" => life[p] # "crashed",
         WorkerOK(p)',
         flushing[p] = "close" \/ sock[p] # "open"
           => flushing'[p] = "close" \/ sock'[p] # "open",
         \A c \in Conns :
           /\ c = Current(p) /\ Alive(c) /\ life'[p] # "crashed" /\ c \notin broken'
           /\ Seen(c) \o Owed(p) = Everything(c) /\ (worker[p] = "done" => queue[p] = <<>>)
           => /\ Seen(c) \o Owed(p)' = Everything(c)
              /\ worker'[p] = "done" => queue'[p] = <<>>
  PROVE  DeliveryInv'
<1>1. ASSUME NEW c \in Conns, c = Current(p) PROVE Local(c)'
  <2>1. Seen(c)' = Seen(c) /\ Everything(c)' = Everything(c) /\ Alive(c)' = Alive(c)
    BY DEF Seen, Taken, Everything, Alive
  <2>2. c[1] = p /\ c[2] = epoch[p] /\ c[2] \in Nat
    BY <1>1, ConnParts DEF Current
  <2>3. Unused(c) /\ Ordered(c) /\ Complete(c)
    BY DEF DeliveryInv
  <2>4. Unused(c)'
    BY <1>1, <2>2, <2>3, ConnParts DEF Unused
  <2>5. Ordered(c)'
    <3>1. Finished(c) => Finished(c)'
      BY <2>2 DEF Finished
    <3> QED BY <1>1, <2>1, <2>3, <3>1, CarriesOn DEF Ordered
  <2>6. Complete(c)'
    BY <1>1, <2>1, <2>2, <2>3 DEF Complete
  <2> QED BY <2>4, <2>5, <2>6 DEF Local
<1> QED BY <1>1, ProcessStep

LEMMA FlushBeginStep ==
  ASSUME TypeOK, LifeInv, DeliveryInv, UNCHANGED agentVars, NEW p \in Procs, FlushBegin(p)
  PROVE  DeliveryInv'
<1> USE DEF Put
<1>1. /\ Began(p) /\ flushing[p] = "no" /\ sock[p] = "open"
      /\ queue' = [queue EXCEPT ![p] = Append(queue[p], StopMsg)]
      /\ flushing' = [flushing EXCEPT ![p] = "join"]
      /\ UNCHANGED <<kernelVars, life, sock, epoch, worker, hand, broken, pushed>>
  BY DEF FlushBegin, Running, Lives, Began
<1>2. worker[p] \in {"pop", "send", "done", "failed"}
  BY <1>1 DEF LifeInv, LifeTypes, Consistent
<1>3. /\ queue'[p] = Append(queue[p], StopMsg) /\ flushing'[p] = "join"
      /\ \A q \in Procs \ {p} : queue'[q] = queue[q] /\ flushing'[q] = flushing[q]
  BY <1>1 DEF TypeOK, ClientTypeOK
<1>4. Sending(p)' = Append(Sending(p), StopMsg)
  <2> DEFINE h == IF worker[p] = "send" THEN <<hand[p]>> ELSE <<>>
  <2>1. h \in Seq(Message) /\ queue[p] \in Seq(Message) /\ StopMsg \in Message
    <3>1. queue[p] \in Seq(Message) /\ hand[p] \in Message /\ StopMsg \in Message
      BY SendingType DEF Message
    <3> QED BY <3>1
  <2>2. Sending(p)' = h \o Append(queue[p], StopMsg) /\ Sending(p) = h \o queue[p]
    BY <1>1, <1>3 DEF Sending
  <2> HIDE DEF h
  <2> QED BY <2>1, <2>2, AppendRight
<1>5. ASSUME NEW c \in Conns, c = Current(p), Alive(c), c \notin broken,
             worker[p] = "done" => queue[p] = <<>>, Seen(c) \o Owed(p) = Everything(c)
      PROVE  Seen(c) \o Owed(p)' = Everything(c) /\ (worker'[p] = "done" => queue'[p] = <<>>)
  <2>1. worker[p] \in {"pop", "send"}
    BY <1>1, <1>2, <1>5 DEF DeliveryInv, WorkerOK
  <2> QED BY <1>1, <1>3, <1>4, <1>5, <2>1 DEF Owed
<1>6. WorkerOK(p)'
  BY <1>1, <1>2, <1>3 DEF DeliveryInv, WorkerOK, Current, Alive, Began, kernelVars
<1>7. \A c \in Conns : c = Current(p) /\ c[2] > epoch[p] => c \notin broken'
  BY <1>1 DEF DeliveryInv, Unused, Current
<1> QED BY <1>1, <1>3, <1>5, <1>6, <1>7, InnerStep DEF kernelVars, agentVars

LEMMA FlushJoinStep ==
  ASSUME TypeOK, LifeInv, DeliveryInv, UNCHANGED agentVars, NEW p \in Procs, FlushJoin(p)
  PROVE  DeliveryInv'
<1> USE DEF Put
<1>1. /\ Began(p) /\ flushing[p] = "join" /\ worker[p] \in {"done", "failed"}
      /\ worker' = [worker EXCEPT ![p] = "none"] /\ queue' = [queue EXCEPT ![p] = <<>>]
      /\ flushing' = [flushing EXCEPT ![p] = "stop"]
      /\ UNCHANGED <<kernelVars, life, sock, epoch, hand, broken, pushed>>
  BY DEF FlushJoin, Lives, Began
<1>2. sock[p] = "open"
  BY <1>1 DEF LifeInv, Consistent
<1>3. /\ worker'[p] = "none" /\ queue'[p] = <<>> /\ flushing'[p] = "stop"
      /\ \A q \in Procs \ {p} :
           worker'[q] = worker[q] /\ queue'[q] = queue[q] /\ flushing'[q] = flushing[q]
  BY <1>1 DEF TypeOK, ClientTypeOK
<1>4. Owed(p)' = <<StopMsg>> /\ Owed(p) = <<StopMsg>>
  BY <1>1, <1>2, <1>3 DEF Owed
<1>5. WorkerOK(p)'
  BY <1>1, <1>3 DEF DeliveryInv, WorkerOK, Current, Began, kernelVars
<1>6. \A c \in Conns : c = Current(p) /\ c[2] > epoch[p] => c \notin broken'
  BY <1>1 DEF DeliveryInv, Unused, Current
<1> QED BY <1>1, <1>3, <1>4, <1>5, <1>6, InnerStep DEF kernelVars, agentVars

LEMMA FlushCloseStep ==
  ASSUME TypeOK, LifeInv, DeliveryInv, UNCHANGED agentVars, NEW p \in Procs, FlushClose(p)
  PROVE  DeliveryInv'
<1> USE DEF Put
<1>1. /\ Began(p) /\ flushing[p] = "close"
      /\ sock' = [sock EXCEPT ![p] = "closed"] /\ flushing' = [flushing EXCEPT ![p] = "no"]
      /\ UNCHANGED <<conn, stream, life, epoch, worker, queue, hand, broken, pushed>>
  BY DEF FlushClose, Lives, Began
<1>2. sock[p] = "open" /\ worker[p] = "none"
  BY <1>1 DEF LifeInv, Consistent
<1>3. /\ sock'[p] = "closed" /\ flushing'[p] = "no"
      /\ \A q \in Procs \ {p} : sock'[q] = sock[q] /\ flushing'[q] = flushing[q]
  BY <1>1 DEF TypeOK, ClientTypeOK
<1>4. Owed(p)' = <<>> /\ Owed(p) = <<>>
  BY <1>1, <1>2, <1>3 DEF Owed
<1>5. WorkerOK(p)'
  BY <1>1, <1>2, <1>3, EmptySeq DEF DeliveryInv, WorkerOK, Current, Began
<1>6. \A c \in Conns : c = Current(p) /\ c[2] > epoch[p] => c \notin broken'
  BY <1>1 DEF DeliveryInv, Unused, Current
<1> QED BY <1>1, <1>3, <1>4, <1>5, <1>6, InnerStep DEF agentVars

LEMMA CrashStep ==
  ASSUME TypeOK, LifeInv, DeliveryInv, UNCHANGED agentVars, NEW p \in Procs, Crash(p)
  PROVE  DeliveryInv'
<1> USE DEF Put
<1>1. /\ life' = [life EXCEPT ![p] = "crashed"] /\ worker' = [worker EXCEPT ![p] = "none"]
      /\ UNCHANGED <<conn, stream, sock, flushing, epoch, queue, hand, broken, pushed>>
  BY DEF Crash
<1>2. /\ life'[p] = "crashed" /\ worker'[p] = "none"
      /\ \A q \in Procs \ {p} : life'[q] = life[q] /\ worker'[q] = worker[q]
  BY <1>1 DEF TypeOK, ClientTypeOK
<1>3. WorkerOK(p)'
  BY <1>1, <1>2 DEF DeliveryInv, WorkerOK, Current
<1>4. \A c \in Conns : c = Current(p) /\ c[2] > epoch[p] => c \notin broken'
  BY <1>1 DEF DeliveryInv, Unused, Current
<1> QED BY <1>1, <1>2, <1>3, <1>4, InnerStep DEF agentVars

(* A send that fails is remembered, or its connection is gone anyway. *)
LEMMA BreaksStep ==
  ASSUME TypeOK, NEW p \in Procs, epoch[p] >= 1, Breaks(Current(p))
  PROVE  /\ ~Alive(Current(p)) \/ Current(p) \in broken'
         /\ \A c \in Conns \ {Current(p)} : c \in broken' <=> c \in broken
         /\ Current(p) \in broken => Current(p) \in broken'
         /\ \A c \in Conns : c = Current(p) /\ c[2] > epoch[p] => c \notin broken'
<1>1. Current(p) \in Conns /\ ~(Current(p)[2] > epoch[p])
  BY CurrentConn DEF TypeOK, ClientTypeOK
<1> QED BY <1>1 DEF Breaks

LEMMA WorkerFailsStep ==
  ASSUME TypeOK, LifeInv, DeliveryInv, UNCHANGED agentVars, NEW p \in Procs, WorkerFails(p)
  PROVE  DeliveryInv'
<1> USE DEF Put
<1>1. /\ worker[p] = "send" /\ Breaks(Current(p))
      /\ hand' = [hand EXCEPT ![p] = StopMsg] /\ worker' = [worker EXCEPT ![p] = "failed"]
      /\ UNCHANGED <<conn, stream, life, sock, flushing, epoch, queue, pushed>>
  BY DEF WorkerFails, kernelVars
<1>2. /\ worker'[p] = "failed"
      /\ \A q \in Procs \ {p} : hand'[q] = hand[q] /\ worker'[q] = worker[q]
  BY <1>1 DEF TypeOK, ClientTypeOK
<1>3. epoch[p] >= 1
  BY <1>1, WorkingConnection DEF DeliveryInv, WorkerOK
<1>4. /\ Current(p)' = Current(p) /\ Alive(Current(p))' = Alive(Current(p))
      /\ ~Alive(Current(p)) \/ Current(p) \in broken'
      /\ \A c \in Conns \ {Current(p)} : c \in broken' <=> c \in broken
      /\ Current(p) \in broken => Current(p) \in broken'
      /\ \A c \in Conns : c = Current(p) /\ c[2] > epoch[p] => c \notin broken'
  BY <1>1, <1>3, BreaksStep DEF Alive, Current
<1>5. WorkerOK(p)'
  BY <1>1, <1>2, <1>4 DEF DeliveryInv, WorkerOK
<1> QED BY <1>1, <1>2, <1>4, <1>5, InnerStep DEF agentVars

LEMMA FlushSendFailsStep ==
  ASSUME TypeOK, LifeInv, DeliveryInv, UNCHANGED agentVars, NEW p \in Procs,
         FlushSendFails(p)
  PROVE  DeliveryInv'
<1> USE DEF Put
<1>1. /\ Began(p) /\ flushing[p] = "stop" /\ Breaks(Current(p))
      /\ flushing' = [flushing EXCEPT ![p] = "close"]
      /\ UNCHANGED <<conn, stream, life, sock, worker, hand, epoch, queue, pushed>>
  BY DEF FlushSendFails, Lives, Began, kernelVars
<1>2. sock[p] = "open" /\ worker[p] = "none"
  BY <1>1 DEF LifeInv, Consistent
<1>3. flushing'[p] = "close" /\ \A q \in Procs \ {p} : flushing'[q] = flushing[q]
  BY <1>1 DEF TypeOK, ClientTypeOK
<1>4. epoch[p] >= 1
  BY <1>2 DEF DeliveryInv, WorkerOK
<1>5. /\ ~Alive(Current(p)) \/ Current(p) \in broken'
      /\ \A c \in Conns \ {Current(p)} : c \in broken' <=> c \in broken
      /\ Current(p) \in broken => Current(p) \in broken'
      /\ \A c \in Conns : c = Current(p) /\ c[2] > epoch[p] => c \notin broken'
  BY <1>1, <1>4, BreaksStep
<1>6. WorkerOK(p)'
  BY <1>1, <1>2, <1>3 DEF DeliveryInv, WorkerOK, Began
<1> QED BY <1>1, <1>2, <1>3, <1>5, <1>6, InnerStep DEF agentVars

LEMMA WorkerPopStep ==
  ASSUME TypeOK, LifeInv, DeliveryInv, UNCHANGED agentVars, NEW p \in Procs, WorkerPop(p)
  PROVE  DeliveryInv'
<1> USE DEF Put
<1>1. /\ worker[p] = "pop" /\ queue[p] # <<>>
      /\ queue' = [queue EXCEPT ![p] = Tail(queue[p])]
      /\ UNCHANGED <<conn, stream, life, sock, flushing, epoch, broken, pushed>>
  BY DEF WorkerPop, kernelVars
<1>2. Began(p) /\ sock[p] = "open" /\ flushing[p] \in {"no", "join"}
  BY <1>1, WorkingConnection
<1>3. /\ queue'[p] = Tail(queue[p])
      /\ \A q \in Procs \ {p} : queue'[q] = queue[q]
  BY <1>1 DEF TypeOK, ClientTypeOK
<1>4. /\ queue[p] \in Seq(Message) /\ Head(queue[p]) \in Message /\ Tail(queue[p]) \in Seq(Message)
      /\ <<Head(queue[p])>> \o Tail(queue[p]) = queue[p]
  BY <1>1, SendingType, HeadTailProperties, HeadFirst
<1>5. flushing[p] = "no" => Head(queue[p]) \in Trace /\ Tail(queue[p]) \in Seq(Trace)
  BY <1>1, HeadTailProperties DEF DeliveryInv, WorkerOK
<1>6. Sending(p) = queue[p]
  BY <1>1, <1>4, ConcatEmptySeq DEF Sending
<1>0. \A c \in Conns : c = Current(p) /\ c[2] > epoch[p] => c \notin broken'
  BY <1>1 DEF DeliveryInv, Unused, Current
<1>7. CASE Head(queue[p]) = StopMsg
  <2>1. /\ worker' = [worker EXCEPT ![p] = "done"] /\ hand' = hand
        /\ worker'[p] = "done" /\ \A q \in Procs \ {p} : worker'[q] = worker[q]
    BY <1>1, <1>7 DEF WorkerPop, TypeOK, ClientTypeOK
  <2>2. flushing[p] = "join"
    BY <1>2, <1>5, <1>7, RacerAssumption
  <2>3. Owed(p)' = <<StopMsg>> /\ Owed(p) = <<StopMsg>> \o Tail(queue[p])
    BY <1>1, <1>2, <1>4, <1>6, <1>7, <2>1, <2>2 DEF Owed
  <2>4. ASSUME NEW c \in Conns, Seen(c) \o Owed(p) = Everything(c)
        PROVE  Seen(c) \o Owed(p)' = Everything(c) /\ queue'[p] = <<>>
    <3>1. Seen(c) \in Seq(Message) /\ pushed[c] \in Seq(Trace) /\ StopMsg \in Message
          /\ pushed[c] \in Seq(Message)
      BY SeenType
    <3> DEFINE rest == Tail(queue[p])
               seen == Seen(c)
    <3>2. rest \in Seq(Message) /\ seen \o (<<StopMsg>> \o rest) = Everything(c)
      BY <1>4, <2>3, <2>4
    <3> HIDE DEF rest, seen
    <3>3. Append(seen, StopMsg) \o rest = seen \o (<<StopMsg>> \o rest)
      BY <3>1, <3>2, AppendLeft DEF seen
    <3>4. Begins(Append(seen, StopMsg) \o rest, Append(pushed[c], StopMsg))
      <4>1. Append(seen, StopMsg) \o rest = Append(pushed[c], StopMsg)
        BY <3>2, <3>3 DEF Everything
      <4>2. Append(pushed[c], StopMsg) \in Seq(Message)
        BY <3>1, AppendProperties
      <4> QED BY <4>1, <4>2, BeginsSelf
    <3>5. seen = pushed[c] /\ rest = <<>>
      BY <3>1, <3>2, <3>4, StopEnds DEF seen
    <3> QED BY <1>3, <2>3, <3>1, <3>5, AppendIsConcat DEF Everything, rest, seen
  <2>5. WorkerOK(p)'
    BY <1>1, <1>2, <1>3, <2>1, <2>2 DEF DeliveryInv, WorkerOK, Current, Began
  <2> QED BY <1>0, <1>1, <1>2, <1>3, <2>1, <2>4, <2>5, InnerStep DEF agentVars
<1>8. CASE Head(queue[p]) # StopMsg
  <2>1. /\ worker' = [worker EXCEPT ![p] = "send"] /\ hand' = [hand EXCEPT ![p] = Head(queue[p])]
        /\ worker'[p] = "send" /\ hand'[p] = Head(queue[p])
        /\ \A q \in Procs \ {p} : worker'[q] = worker[q] /\ hand'[q] = hand[q]
    BY <1>1, <1>8 DEF WorkerPop, TypeOK, ClientTypeOK
  <2>2. Sending(p)' = Sending(p)
    BY <1>3, <1>4, <1>6, <2>1 DEF Sending
  <2>3. Owed(p)' = Owed(p)
    BY <1>1, <2>1, <2>2 DEF Owed
  <2>4. WorkerOK(p)'
    <3>1. Head(queue[p]) \in Trace
      BY <1>4, <1>8 DEF Message
    <3> QED BY <1>1, <1>2, <1>3, <1>5, <2>1, <3>1 DEF DeliveryInv, WorkerOK, Current, Began
  <2> QED BY <1>0, <1>1, <1>2, <1>3, <2>1, <2>3, <2>4, InnerStep DEF agentVars
<1> QED BY <1>7, <1>8

LEMMA FlushSendStopStep ==
  ASSUME TypeOK, LifeInv, DeliveryInv, UNCHANGED agentVars, NEW p \in Procs, FlushSendStop(p)
  PROVE  DeliveryInv'
<1> USE DEF Put
<1>1. /\ Began(p) /\ flushing[p] = "stop"
      /\ flushing' = [flushing EXCEPT ![p] = "close"]
      /\ UNCHANGED <<conn, life, sock, epoch, worker, queue, hand, broken, pushed>>
      /\ Writable(Current(p)) /\ Send(Current(p), StopMsg)
  BY DEF FlushSendStop, Lives, Began
<1>2. sock[p] = "open" /\ worker[p] = "none"
  BY <1>1 DEF LifeInv, Consistent
<1>3. flushing'[p] = "close" /\ \A q \in Procs \ {p} : flushing'[q] = flushing[q]
  BY <1>1 DEF TypeOK, ClientTypeOK
<1>4. Owed(p)' = <<>> /\ Owed(p) = <<StopMsg>>
  BY <1>1, <1>2, <1>3 DEF Owed
<1>5. WorkerOK(p)'
  BY <1>1, <1>2, <1>3 DEF DeliveryInv, WorkerOK, Current, Began
<1>6. Current(p) \in Conns /\ Current(p)[1] = p /\ Current(p)[2] = epoch[p] /\ Local(Current(p))
  BY <1>2, OpenConnection
<1>7. ASSUME NEW d \in Conns, d = Current(p) PROVE Local(d)'
  <2>1. d[1] = p /\ d[2] = epoch[p] /\ Alive(d) /\ Local(d) /\ stream'[d] = Append(stream[d], StopMsg)
    BY <1>1, <1>6, <1>7 DEF Writable, Send, TypeOK
  <2>2. Seen(d)' = Append(Seen(d), StopMsg)
    <3> DEFINE x == parsed[d] \o Taken(d)
    <3>1. Seen(d)' = x \o Append(stream[d], StopMsg)
      BY <2>1 DEF Seen, Taken, agentVars
    <3>2. x \in Seq(Message) /\ stream[d] \in Seq(Message) /\ StopMsg \in Message
      BY SeenType
    <3> HIDE DEF x
    <3>3. x \o Append(stream[d], StopMsg) = Append(x \o stream[d], StopMsg)
      BY <3>2, AppendRight
    <3> QED BY <3>1, <3>3 DEF Seen, x
  <2>3. Everything(d)' = Everything(d) /\ pushed'[d] = pushed[d] /\ Finished(d)' /\ ~Finished(d)
    BY <1>1, <1>2, <1>3, <2>1, ConnParts DEF Everything, Finished, TypeOK, ClientTypeOK
  <2>4. ASSUME reader[d] # "failed", d \notin broken PROVE Seen(d)' = Everything(d) /\ Seen(d) = pushed[d]
    <3>1. Seen(d) \o <<StopMsg>> = Everything(d)
      BY <1>1, <1>4, <2>1, <2>4 DEF Local, Complete, Began
    <3>2. Append(Seen(d), StopMsg) = Append(pushed[d], StopMsg)
      BY <3>1, SeenType, AppendIsConcat DEF Everything
    <3> DEFINE x == Seen(d)
    <3> DEFINE w == pushed[d]
    <3>3. x \in Seq(Message) /\ w \in Seq(Message) /\ StopMsg \in Message
      BY SeenType
    <3>4. Append(x, StopMsg) = Append(w, StopMsg)
      BY <3>2
    <3>5. x = w
      <4> HIDE DEF x, w
      <4> QED BY <3>3, <3>4, AppendInjective, SMTT(40)
    <3> QED BY <2>2, <3>2, <3>5 DEF Everything
  <2>5. Unused(d)'
    BY <1>1, <2>1, ConnParts DEF Unused
  <2>6. Ordered(d)'
    <3>1. CASE reader[d] = "failed"
      BY <2>1, <2>3, <3>1 DEF Local, Ordered, agentVars
    <3>2. CASE reader[d] # "failed"
      <4>1. PICK u \in Seq(Trace) : Carries(d, u)
        BY <2>1, <3>2 DEF Local, Ordered
      <4>2. Begins(Seen(d), u) /\ Seen(d) \in Seq(Message)
        <5>1. /\ u \in Seq(Message) /\ StopMsg \in Message /\ Seen(d) \in Seq(Message)
              /\ Len(Seen(d)) \in Nat /\ Len(u) \in Nat /\ ~(Len(Seen(d)) > Len(u))
          BY <2>3, <4>1, SeenType, LenProperties, SeqMonotonic DEF Carries, Message
        <5> DEFINE v == Append(u, StopMsg)
                   a == Seen(d)
        <5>2. Begins(u, v) /\ v \in Seq(Message)
          BY <5>1, BeginsAppend, AppendProperties
        <5>3. Begins(a, v) /\ a \in Seq(Message) /\ Len(a) <= Len(u)
          BY <4>1, <5>1 DEF Carries
        <5> HIDE DEF v, a
        <5>4. Begins(a, u)
          BY <5>1, <5>2, <5>3, BeginsShorter
        <5> QED BY <5>1, <5>4 DEF a
      <4>3. Seen(d) \in Seq(Trace) /\ Begins(Seen(d), pushed[d])
        <5>1. Seen(d) \in Seq(Trace)
          BY <4>2, BeginningsAreTraces
        <5>2. Begins(u, pushed[d])
          BY <4>1 DEF Carries
        <5> QED BY <4>2, <5>1, <5>2, BeginsTransitive
      <4>4. Begins(Append(Seen(d), StopMsg), Append(Seen(d), StopMsg))
        <5>1. Append(Seen(d), StopMsg) \in Seq(Message)
          BY SeenType, AppendProperties
        <5> QED BY <5>1, BeginsSelf
      <4> DEFINE a == Seen(d)
      <4>5. /\ a \in Seq(Trace) /\ Begins(a, pushed'[d])
            /\ d \notin broken' => a = pushed'[d]
            /\ Begins(Seen(d)', Append(a, StopMsg)) /\ Finished(d)'
        BY <1>1, <2>2, <2>3, <2>4, <3>2, <4>3, <4>4
      <4> HIDE DEF a
      <4>6. \E w \in Seq(Trace) : Carries(d, w)'
        BY <4>5 DEF Carries
      <4> QED BY <2>1, <3>2, <4>6 DEF Local, Ordered, agentVars
    <3> QED BY <3>1, <3>2
  <2>7. Complete(d)'
    <3>1. Seen(d)' \in Seq(Message)
      BY <2>2, SeenType, AppendProperties
    <3>2. reader[d] # "failed" /\ d \notin broken => Seen(d)' \o Owed(p)' = Everything(d)
      BY <1>4, <2>4, <3>1, ConcatEmptySeq
    <3>3. ~(d[2] < epoch'[d[1]]) /\ worker'[d[1]] # "done"
      BY <1>1, <1>2, <2>1, ConnParts
    <3> QED BY <1>1, <2>1, <2>3, <3>2, <3>3 DEF Complete, agentVars
  <2> QED BY <2>5, <2>6, <2>7 DEF Local
<1>8. \A d \in Conns \ {Current(p)} : stream'[d] = stream[d] /\ pushed'[d] = pushed[d]
  BY <1>1 DEF Send, TypeOK
<1> QED BY <1>1, <1>3, <1>5, <1>7, <1>8, ProcessStep DEF agentVars

LEMMA ReturnStep ==
  ASSUME TypeOK, LifeInv, DeliveryInv, UNCHANGED agentVars, NEW p \in Procs,
         NEW o \in Owners, Return(p, o)
  PROVE  DeliveryInv'
<1> DEFINE t == [owner |-> o, updates |-> pending[p], early |-> o \in exploring[p]]
<1> USE DEF Put
<1>1. /\ Began(p) /\ flushing[p] = "no" /\ tp[p] = "on" /\ t \in Trace
      /\ queue' = [queue EXCEPT ![p] = Append(queue[p], t)]
      /\ pushed' = [pushed EXCEPT ![Current(p)] = Append(pushed[Current(p)], t)]
      /\ UNCHANGED <<conn, stream, life, sock, flushing, epoch, worker, hand, broken>>
  BY DEF Return, Running, Lives, Began, kernelVars, Trace, TypeOK, ClientTypeOK
<1> HIDE DEF t
<1>2. sock[p] = "open" /\ worker[p] # "none"
  BY <1>1 DEF LifeInv, Consistent
<1>3. /\ queue'[p] = Append(queue[p], t) /\ \A q \in Procs \ {p} : queue'[q] = queue[q]
  BY <1>1 DEF TypeOK, ClientTypeOK
<1>4. Current(p) \in Conns /\ Current(p)[1] = p /\ Current(p)[2] = epoch[p] /\ Local(Current(p))
  BY <1>2, OpenConnection
<1>5. Sending(p) \in Seq(Message) /\ Sending(p)' = Append(Sending(p), t) /\ t \in Message
  <2> DEFINE h == IF worker[p] = "send" THEN <<hand[p]>> ELSE <<>>
  <2>1. h \in Seq(Message) /\ queue[p] \in Seq(Message) /\ t \in Message
    <3>1. queue[p] \in Seq(Message) /\ hand[p] \in Message /\ t \in Message
      BY <1>1, SendingType DEF Message
    <3> QED BY <3>1
  <2>2. Sending(p)' = h \o Append(queue[p], t) /\ Sending(p) = h \o queue[p]
    BY <1>1, <1>3 DEF Sending
  <2> HIDE DEF h
  <2> QED BY <2>1, <2>2, AppendRight, SendingType
<1>6. Owed(p) = Append(Sending(p), StopMsg) /\ Owed(p)' = Append(Append(Sending(p), t), StopMsg)
  BY <1>1, <1>2, <1>5 DEF Owed
<1>7. WorkerOK(p)'
  <2>1. Append(queue[p], t) \in Seq(Trace)
    BY <1>1, AppendProperties DEF DeliveryInv, WorkerOK
  <2> QED BY <1>1, <1>2, <1>3, <2>1 DEF DeliveryInv, WorkerOK, Current, Alive, Began
<1>8. ASSUME NEW d \in Conns, d = Current(p) PROVE Local(d)'
  <2>1. /\ d[1] = p /\ d[2] = epoch[p] /\ Local(d) /\ ~Finished(d)
        /\ Seen(d)' = Seen(d) /\ Alive(d)' = Alive(d)
        /\ pushed'[d] = Append(pushed[d], t)
    BY <1>1, <1>2, <1>4, <1>8, ConnParts
    DEF Seen, Taken, Alive, Finished, agentVars, TypeOK, ClientTypeOK
  <2>2. /\ Seen(d) \in Seq(Message) /\ pushed[d] \in Seq(Message) /\ StopMsg \in Message
        /\ t \in Message /\ Append(pushed[d], t) \in Seq(Message)
        /\ Len(Append(pushed[d], t)) = Len(pushed[d]) + 1
        /\ Append(pushed[d], StopMsg) \in Seq(Message)
        /\ Len(pushed[d]) \in Nat /\ Len(Seen(d)) \in Nat
    BY <1>5, SeenType, AppendProperties, LenProperties
  <2>3. Everything(d)' = Append(Append(pushed[d], t), StopMsg)
    BY <2>1 DEF Everything
  <2>4. Unused(d)'
    BY <1>1, <2>1, ConnParts DEF Unused
  <2>5. Ordered(d)'
    <3> DEFINE w == pushed[d]
               x == Append(w, t)
               y == Append(x, StopMsg)
    <3>1. w \in Seq(Message) /\ x \in Seq(Message)
      BY <2>2
    <3>2. Begins(w, x) /\ Begins(x, y)
      BY <2>2, BeginsAppend
    <3>3. CASE reader[d] = "failed"
      <4>1. Begins(parsed[d], w) /\ parsed[d] \in Seq(Message)
        BY <2>1, <3>3, SeenType DEF Local, Ordered
      <4> HIDE DEF w, x
      <4>2. Begins(parsed[d], x)
        BY <3>1, <3>2, <4>1, BeginsTransitive
      <4> QED BY <2>1, <3>3, <4>2 DEF Local, Ordered, agentVars, w, x
    <3>4. CASE reader[d] # "failed"
      <4>1. PICK u \in Seq(Trace) : Carries(d, u)
        BY <2>1, <3>4 DEF Local, Ordered
      <4>2. /\ u \in Seq(Message) /\ Len(u) \in Nat /\ ~(Len(Seen(d)) > Len(u))
            /\ Begins(u, w) /\ (d \notin broken => u = w)
            /\ Begins(Seen(d), Append(u, StopMsg))
        BY <2>1, <4>1, SeqMonotonic, LenProperties DEF Carries, Message
      <4>3. CASE d \in broken
        <5>1. Begins(u, x)
          <6> HIDE DEF w, x
          <6> QED BY <3>1, <3>2, <4>2, BeginsTransitive
        <5>2. Carries(d, u)'
          BY <1>1, <2>1, <4>2, <4>3, <5>1 DEF Carries
        <5> QED BY <2>1, <3>4, <5>2 DEF Local, Ordered, agentVars
      <4>4. CASE d \notin broken
        <5>1. u = w /\ Begins(w, Append(w, StopMsg)) /\ Append(w, StopMsg) \in Seq(Message)
          BY <2>2, <4>2, <4>4, BeginsAppend
        <5>2. Begins(Seen(d), w)
          <6> DEFINE v == Append(w, StopMsg)
          <6> HIDE DEF v, w
          <6>1. Begins(Seen(d), v) /\ Begins(w, v) /\ v \in Seq(Message)
            BY <4>2, <5>1 DEF v
          <6>2. Len(Seen(d)) <= Len(w)
            BY <2>2, <4>2, <5>1
          <6> QED BY <2>2, <3>1, <6>1, <6>2, BeginsShorter
        <5>3. Begins(Seen(d), y)
          <6> HIDE DEF w, x, y
          <6>1. Begins(Seen(d), x)
            BY <2>2, <3>1, <3>2, <5>2, BeginsTransitive
          <6> QED BY <2>2, <3>1, <3>2, <6>1, BeginsTransitive
        <5>4. ~(Len(Seen(d)) > Len(x))
          BY <2>2, <4>2, <5>1
        <5>5. x \in Seq(Trace) /\ Begins(x, x)
          <6>1. x \in Seq(Trace)
            BY <1>1, SeenType, AppendProperties
          <6> HIDE DEF x
          <6> QED BY <6>1, BeginsSelf
        <5> HIDE DEF y
        <5>6. /\ Begins(x, pushed'[d]) /\ x = pushed'[d]
              /\ Begins(Seen(d)', Append(x, StopMsg)) /\ ~(Len(Seen(d)') > Len(x))
          BY <2>1, <5>3, <5>4, <5>5 DEF y
        <5> HIDE DEF x
        <5>7. \E v \in Seq(Trace) : Carries(d, v)'
          BY <5>5, <5>6 DEF Carries
        <5> QED BY <2>1, <3>4, <5>7 DEF Local, Ordered, agentVars
      <4> QED BY <4>3, <4>4
    <3> QED BY <3>3, <3>4
  <2>6. Complete(d)'
    <3>1. ASSUME Alive(d), life[p] # "crashed", reader[d] # "failed", d \notin broken
          PROVE  Seen(d) \o Owed(p)' = Everything(d)'
      <4> DEFINE a == Seen(d)
                 b == Sending(p)
                 w == pushed[d]
      <4>1. a \in Seq(Message) /\ b \in Seq(Message) /\ w \in Seq(Message)
        BY <1>5, <2>2
      <4>2. a \o Append(b, StopMsg) = Append(w, StopMsg)
        BY <1>6, <2>1, <3>1 DEF Local, Complete, Everything
      <4> HIDE DEF a, b, w
      <4> DEFINE x == a \o b
      <4>3. a \o Append(b, StopMsg) = Append(x, StopMsg) /\ x \in Seq(Message)
        BY <2>2, <4>1, AppendRight
      <4> HIDE DEF x
      <4>4. x = w
        <5>1. StopMsg \in Message /\ Append(x, StopMsg) = Append(w, StopMsg)
          BY <2>2, <4>2, <4>3
        <5> QED BY <4>1, <4>3, <5>1, AppendInjective
      <4> DEFINE e == Append(b, t)
      <4>5. e \in Seq(Message) /\ a \o e = Append(w, t)
        BY <2>2, <4>1, <4>4, AppendRight, AppendProperties DEF x
      <4> HIDE DEF e
      <4>6. a \o Append(e, StopMsg) = Append(a \o e, StopMsg)
        <5>1. StopMsg \in Message
          BY <2>2
        <5> QED BY <4>1, <4>5, <5>1, AppendRight, SMTT(40)
      <4> QED BY <1>6, <2>3, <4>5, <4>6 DEF a, b, w, e
    <3>2. worker[p] # "done" /\ ~(d[2] < epoch'[d[1]])
      BY <1>1, <2>1, ConnParts DEF DeliveryInv, WorkerOK
    <3> QED BY <1>1, <2>1, <3>1, <3>2 DEF Complete, agentVars
  <2> QED BY <2>4, <2>5, <2>6 DEF Local
<1>9. \A d \in Conns \ {Current(p)} : stream'[d] = stream[d] /\ pushed'[d] = pushed[d]
  BY <1>1 DEF TypeOK, ClientTypeOK
<1> QED BY <1>1, <1>3, <1>7, <1>8, <1>9, ProcessStep DEF agentVars

(* A new connection begins with nothing seen; the one before it is over.     *)
LEMMA StartStep ==
  ASSUME TypeOK, LifeInv, DeliveryInv, UNCHANGED agentVars, NEW p \in Procs, Start(p)
  PROVE  DeliveryInv'
<1> DEFINE n == <<p, epoch[p] + 1>>
<1> USE DEF Put
<1>1. /\ Began(p) /\ flushing[p] = "no" /\ tp[p] = "nil" /\ epoch[p] < MaxConns
      /\ epoch' = [epoch EXCEPT ![p] = epoch[p] + 1]
      /\ conn' = [conn EXCEPT ![n] = "backlog"]
      /\ sock' = [sock EXCEPT ![p] = "open"] /\ queue' = [queue EXCEPT ![p] = <<>>]
      /\ worker' = [worker EXCEPT ![p] = "pop"]
      /\ UNCHANGED <<stream, life, flushing, hand, broken, pushed>>
  BY DEF Start, Running, Lives, Began
<1>2. sock[p] # "open"
  BY <1>1 DEF LifeInv, Consistent
<1>3. epoch[p] \in Nat /\ MaxConns \in Nat
  BY ClientAssumption DEF TypeOK, ClientTypeOK
<1>4. n \in Conns /\ n[1] = p /\ n[2] = epoch[p] + 1
  BY <1>1, <1>3, ClientAssumption
<1>5. /\ epoch'[p] = epoch[p] + 1 /\ conn'[n] = "backlog" /\ sock'[p] = "open"
      /\ queue'[p] = <<>> /\ worker'[p] = "pop"
      /\ \A q \in Procs \ {p} : /\ epoch'[q] = epoch[q] /\ sock'[q] = sock[q]
                                 /\ queue'[q] = queue[q] /\ worker'[q] = worker[q]
      /\ \A d \in Conns \ {n} : conn'[d] = conn[d]
  BY <1>1, <1>4 DEF TypeOK, ClientTypeOK, KernelTypeOK
<1> HIDE DEF n
<1>6. ASSUME NEW q \in Procs PROVE WorkerOK(q)'
  <2>1. WorkerOK(p)'
    <3>1. <<>> \in Seq(Trace) /\ epoch'[p] >= 1
      BY <1>3, <1>5
    <3>2. Current(p)' = n /\ n \notin broken
      BY <1>3, <1>4, <1>5 DEF Current, n, DeliveryInv, Unused
    <3> QED BY <1>1, <1>5, <3>1, <3>2 DEF WorkerOK, Began
  <2>2. CASE q # p /\ worker[q] # "none"
    <3>1. Current(q) \in Conns /\ Current(q) # n /\ Current(q)' = Current(q)
      BY <1>4, <1>5, <2>2, WorkingConnection DEF Current
    <3>2. Alive(Current(q))' = Alive(Current(q))
      BY <1>5, <3>1 DEF Alive
    <3> QED BY <1>1, <1>5, <2>2, <3>1, <3>2 DEF DeliveryInv, WorkerOK
  <2>3. CASE q # p /\ worker[q] = "none"
    BY <1>1, <1>5, <2>3 DEF DeliveryInv, WorkerOK
  <2> QED BY <2>1, <2>2, <2>3
<1>7. ASSUME NEW d \in Conns, d = n PROVE Local(d)'
  <2>1. /\ stream[d] = <<>> /\ inbox[d] = <<>> /\ parsed[d] = <<>> /\ pushed[d] = <<>>
        /\ reader[d] = "none" /\ conn'[d] = "backlog"
        /\ d[1] = p /\ d[2] = epoch[p] + 1 /\ d[2] = epoch'[p]
    BY <1>3, <1>4, <1>5, <1>7 DEF DeliveryInv, Unused
  <2>2. Seen(d)' = <<>>
    <3>1. Seen(d)' = (<<>> \o <<>>) \o <<>>
      BY <1>1, <2>1 DEF Seen, Taken, agentVars
    <3>2. <<>> \in Seq(Message)
      OBVIOUS
    <3> QED BY <3>1, <3>2, ConcatEmptySeq
  <2>3. Everything(d)' = <<StopMsg>>
    <3>1. Everything(d)' = Append(<<>>, StopMsg)
      BY <1>1, <2>1 DEF Everything
    <3> QED BY <3>1
  <2>4. Owed(p)' = <<StopMsg>>
    <3>1. Sending(p)' = <<>> \o <<>>
      BY <1>5 DEF Sending
    <3>2. Sending(p)' = <<>>
      BY <3>1, ConcatEmptySeq, EmptySeq
    <3> QED BY <1>1, <1>5, <3>2 DEF Owed
  <2>5. Len(<<>>) = 0 /\ Len(<<StopMsg>>) = 1
    BY EmptySeq
  <2>6. Unused(d)'
    BY <1>3, <2>1 DEF Unused
  <2>7. Ordered(d)'
    <3>1. Begins(Seen(d)', Everything(d)')
      BY <2>2, <2>3, <2>5 DEF Begins
    <3>2. ~(Len(Seen(d)') > Len(pushed'[d]))
      BY <1>1, <2>1, <2>2, <2>5
    <3>3. pushed'[d] \in Seq(Trace) /\ Begins(pushed'[d], pushed'[d])
      BY <1>1, <2>1, SeenType, BeginsSelf
    <3>4. Carries(d, pushed[d])'
      BY <3>1, <3>2, <3>3 DEF Carries, Everything
    <3>5. \E u \in Seq(Trace) : Carries(d, u)'
      BY <1>1, <3>3, <3>4
    <3> QED BY <2>1, <3>5 DEF Ordered, agentVars
  <2>8. Complete(d)'
    <3>1. Seen(d)' \o Owed(p)' = Everything(d)'
      <4>1. <<>> \o <<StopMsg>> = <<StopMsg>>
        OBVIOUS
      <4> QED BY <2>2, <2>3, <2>4, <4>1
    <3>2. worker'[d[1]] # "done" /\ ~(d[2] < epoch'[d[1]])
      BY <1>3, <1>5, <2>1
    <3> QED BY <2>1, <3>1, <3>2 DEF Complete
  <2> QED BY <2>6, <2>7, <2>8 DEF Local
<1>8. ASSUME NEW d \in Conns, d # n PROVE Local(d)'
  <2>1. d[1] \in Procs /\ d[2] \in Nat /\ (d[1] = p => d[2] # epoch[p] + 1)
    BY <1>8, ConnParts DEF n
  <2>2. Seen(d)' = Seen(d) /\ Everything(d)' = Everything(d) /\ Alive(d)' = Alive(d)
    BY <1>1, <1>5, <1>8 DEF Seen, Taken, Everything, Alive, agentVars
  <2>3. d[1] # p => Owed(d[1])' = Owed(d[1])
    BY <1>1, <1>5, <2>1 DEF Owed, Sending
  <2>4. Owed(p) = <<>>
    BY <1>2 DEF Owed
  <2>5. Unused(d) /\ Ordered(d) /\ Complete(d)
    BY DEF DeliveryInv
  <2>6. Unused(d)'
    BY <1>1, <1>3, <1>5, <1>8, <2>1, <2>5 DEF Unused, agentVars
  <2>7. Finished(d) => Finished(d)'
    BY <1>1, <1>3, <1>5, <2>1 DEF Finished
  <2>8. Ordered(d)'
    BY <1>1, <2>2, <2>5, <2>7, CarriesOn DEF Ordered, agentVars
  <2>9. Complete(d)'
    <3>1. CASE d[1] = p
      <4>1. CASE d[2] = epoch[p]
        <5>1. Seen(d) \o <<>> = Seen(d)
          BY SeenType, ConcatEmptySeq
        <5>2. Alive(d) /\ life[p] # "crashed" /\ reader[d] # "failed" /\ d \notin broken
              => Seen(d) = Everything(d)
          BY <2>4, <2>5, <3>1, <4>1, <5>1 DEF Complete
        <5>3. d[2] < epoch'[p]
          BY <1>3, <1>5, <4>1
        <5> QED BY <1>1, <1>3, <2>1, <2>2, <3>1, <5>2, <5>3 DEF Complete, agentVars
      <4>2. CASE d[2] # epoch[p]
        BY <1>1, <1>3, <1>5, <2>1, <2>2, <2>5, <3>1, <4>2 DEF Complete, agentVars
      <4> QED BY <4>1, <4>2
    <3>2. CASE d[1] # p
      BY <1>1, <1>5, <2>1, <2>2, <2>3, <2>5, <3>2 DEF Complete, agentVars
    <3> QED BY <3>1, <3>2
  <2> QED BY <2>6, <2>8, <2>9 DEF Local
<1> QED BY <1>4, <1>6, <1>7, <1>8 DEF DeliveryInv, Local

(* Every step of a process keeps the invariant. *)
LEMMA DeliveryClientStep ==
  ASSUME TypeOK, LifeInv, DeliveryInv, ClientNext, UNCHANGED agentVars
  PROVE  DeliveryInv'
<1> USE DEF Put
<1>0. Leader \in Procs
  BY ClientAssumption
<1> DEFINE Still == UNCHANGED <<conn, stream, epoch, flushing, queue, worker, hand, broken,
                                pushed, reader, inbox, parsed>>
<1>1. CASE PollFile
  <2>1. Still /\ sock' = sock /\ life' = [life EXCEPT ![Leader] = "run"] /\ life[Leader] = "polling"
    BY <1>1 DEF PollFile, kernelVars, agentVars
  <2> QED BY <2>1, QuietStep DEF LifeInv, LifeTypes
<1>2. CASE StopAgent
  <2>1. Still /\ sock' = sock /\ life' = [life EXCEPT ![Leader] = "waiting"] /\ life[Leader] = "run"
    BY <1>2 DEF StopAgent, Running, Lives, agentVars
  <2> QED BY <2>1, QuietStep DEF LifeInv, LifeTypes
<1>3. CASE WaitAgent
  <2>1. Still /\ sock' = sock /\ life' = [life EXCEPT ![Leader] = "exited"] /\ life[Leader] = "waiting"
    BY <1>3 DEF WaitAgent, kernelVars, agentVars
  <2> QED BY <2>1, QuietStep DEF LifeInv, LifeTypes
<1>4. ASSUME NEW p \in Procs, Fork(p) PROVE DeliveryInv'
  <2>1. /\ Still /\ sock' = [sock EXCEPT ![p] = sock[Leader]]
        /\ life' = [life EXCEPT ![p] = "run"] /\ life[p] = "unborn"
    BY <1>4 DEF Fork, kernelVars, agentVars
  <2>2. sock[Leader] # "open" /\ sock[p] # "open"
    BY <1>0, <1>4, <2>1 DEF Fork, Running, Lives, Began, LifeInv, Consistent
  <2> QED BY <1>4, <2>1, <2>2, QuietStep DEF LifeInv, LifeTypes
<1>5. ASSUME NEW p \in Procs, Exit(p) PROVE DeliveryInv'
  <2>1. Still /\ sock' = sock /\ life' = [life EXCEPT ![p] = "exited"] /\ Began(p)
    BY <1>5 DEF Exit, Running, Lives, Began, kernelVars, agentVars
  <2> QED BY <1>5, <2>1, QuietStep DEF LifeInv, LifeTypes, Began
<1>6. ASSUME NEW p \in Procs,
             \/ Resume(p) \/ Stop(p)
             \/ \E o \in Owners : Explore(p, o) \/ Announce(p, o) \/ Call(p, o)
      PROVE  DeliveryInv'
  <2>1. Still /\ sock' = sock /\ life' = life
    BY <1>6 DEF Resume, Stop, Explore, Announce, Call, kernelVars, agentVars
  <2> QED BY <2>1, QuietStep
<1>7. ASSUME NEW p \in Procs, StartFails(p) \/ SocketFails(p) PROVE DeliveryInv'
  <2>1. /\ Still /\ life' = life
        /\ sock' = [sock EXCEPT ![p] = "none"] \/ sock' = [sock EXCEPT ![p] = "closed"]
    BY <1>7 DEF StartFails, SocketFails, kernelVars, agentVars
  <2>2. sock[p] # "open"
    BY <1>7 DEF StartFails, SocketFails, Running, Lives, Began, LifeInv, Consistent
  <2> QED BY <1>7, <2>1, <2>2, QuietStep DEF LifeInv, LifeTypes
<1> QED
  BY <1>1, <1>2, <1>3, <1>4, <1>5, <1>6, <1>7, CrashStep, StartStep, FlushBeginStep,
     FlushJoinStep, FlushSendStopStep, FlushSendFailsStep, FlushCloseStep, ReturnStep,
     WorkerPopStep, SendStep, WorkerFailsStep
  DEF ClientNext, FlushStep, WorkerStep

------------------------------------------------------------------------------
(* The steps of the agent *)

(* A step that moves what has been seen of connection c closer to the        *)
(* collector, without adding to it.                                          *)
LEMMA SameSeen ==
  ASSUME TypeOK, LifeInv, DeliveryInv, UNCHANGED clientVars, NEW c \in Conns,
         conn[c] # "none" \/ reader[c] # "none",
         Alive(c)' = Alive(c),
         Seen(c)' = Seen(c),
         \/ reader[c] # "failed" /\ reader'[c] # "failed"
         \/ reader'[c] = reader[c] /\ parsed'[c] = parsed[c],
         reader'[c] = "stopped" => inbox'[c] = <<>>,
         \A d \in Conns \ {c} :
           /\ conn'[d] = conn[d] /\ stream'[d] = stream[d]
           /\ reader'[d] = reader[d] /\ inbox'[d] = inbox[d] /\ parsed'[d] = parsed[d]
  PROVE  DeliveryInv'
<1> USE DEF clientVars
<1>1. ASSUME NEW p \in Procs PROVE WorkerOK(p)'
  <2>1. CASE worker[p] # "none"
    <3>1. Current(p) \in Conns /\ Current(p)' = Current(p)
      BY <2>1, WorkingConnection DEF Current
    <3>2. Alive(Current(p))' = Alive(Current(p))
      BY <3>1 DEF Alive
    <3> QED BY <3>1, <3>2 DEF DeliveryInv, WorkerOK
  <2>2. CASE worker[p] = "none"
    BY <2>2 DEF DeliveryInv, WorkerOK
  <2> QED BY <2>1, <2>2
<1>2. ASSUME NEW d \in Conns PROVE Local(d)'
  <2>1. Everything(d)' = Everything(d) /\ Owed(d[1])' = Owed(d[1]) /\ Finished(d)' = Finished(d)
    BY DEF Everything, Owed, Sending, Finished
  <2>2. Unused(d) /\ Ordered(d) /\ Complete(d)
    BY DEF DeliveryInv
  <2>3. CASE d = c
    <3>1. Unused(d)'
      BY <2>2, <2>3 DEF Unused
    <3>2. Ordered(d)'
      BY <2>1, <2>2, <2>3, CarriesOn DEF Ordered
    <3>3. Complete(d)'
      BY <2>1, <2>2, <2>3 DEF Complete
    <3> QED BY <3>1, <3>2, <3>3 DEF Local
  <2>4. CASE d # c
    <3>1. Seen(d)' = Seen(d) /\ Alive(d)' = Alive(d)
      BY <2>4 DEF Seen, Taken, Alive
    <3>2. Unused(d)'
      BY <2>2, <2>4 DEF Unused
    <3>3. Ordered(d)'
      BY <2>1, <2>2, <2>4, <3>1, CarriesOn DEF Ordered
    <3>4. Complete(d)'
      BY <2>1, <2>2, <2>4, <3>1 DEF Complete
    <3> QED BY <3>2, <3>3, <3>4 DEF Local
  <2> QED BY <2>3, <2>4
<1> QED BY <1>1, <1>2 DEF DeliveryInv, Local

LEMMA AcceptNextStep ==
  ASSUME TypeOK, LifeInv, DeliveryInv, UNCHANGED clientVars, NEW c \in Conns, Accept(c)
  PROVE  DeliveryInv'
<1>1. /\ conn[c] = "backlog" /\ conn' = [conn EXCEPT ![c] = "open"]
      /\ UNCHANGED <<stream, reader, inbox, parsed>>
  BY DEF Accept
<1>2. conn'[c] = "open" /\ \A d \in Conns \ {c} : conn'[d] = conn[d]
  BY <1>1 DEF TypeOK, KernelTypeOK
<1>3. Seen(c)' = Seen(c) /\ Alive(c)' = Alive(c)
  BY <1>1, <1>2 DEF Seen, Taken, Alive
<1>4. reader[c] = "stopped" => inbox[c] = <<>>
  BY DEF DeliveryInv, Ordered
<1> QED BY <1>1, <1>2, <1>3, <1>4, SameSeen

LEMMA SpawnStep ==
  ASSUME TypeOK, LifeInv, DeliveryInv, UNCHANGED clientVars, NEW c \in Conns, Spawn(c)
  PROVE  DeliveryInv'
<1>1. /\ conn[c] = "open" /\ reader[c] = "none" /\ reader' = [reader EXCEPT ![c] = "reading"]
      /\ UNCHANGED <<conn, stream, inbox, parsed>>
  BY DEF Spawn, kernelVars
<1>2. reader'[c] = "reading" /\ \A d \in Conns \ {c} : reader'[d] = reader[d]
  BY <1>1 DEF TypeOK, AgentTypeOK
<1>3. Seen(c)' = Seen(c) /\ Alive(c)' = Alive(c)
  BY <1>1, <1>2 DEF Seen, Taken, Alive
<1> QED BY <1>1, <1>2, <1>3, SameSeen

LEMMA ReadStep ==
  ASSUME TypeOK, LifeInv, DeliveryInv, UNCHANGED clientVars, NEW c \in Conns, Read(c)
  PROVE  DeliveryInv'
<1>1. /\ reader[c] = "reading" /\ inbox[c] = <<>>
      /\ UNCHANGED <<conn, reader, parsed>>
  BY DEF Read
<1>2. PICK k \in 1..Len(stream[c]) :
        /\ inbox' = [inbox EXCEPT ![c] = SubSeq(stream[c], 1, k)]
        /\ stream' = [stream EXCEPT ![c] = SubSeq(stream[c], k + 1, Len(stream[c]))]
  BY DEF Read
<1> DEFINE a == SubSeq(stream[c], 1, k)
           b == SubSeq(stream[c], k + 1, Len(stream[c]))
           w == parsed[c]
<1>3. w \in Seq(Message) /\ a \in Seq(Message) /\ b \in Seq(Message) /\ a \o b = stream[c]
  BY SeenType, Split
<1>4. /\ inbox'[c] = a /\ stream'[c] = b
      /\ \A d \in Conns \ {c} : inbox'[d] = inbox[d] /\ stream'[d] = stream[d]
  BY <1>2 DEF TypeOK
<1> HIDE DEF a, b, w
<1>5. Seen(c)' = Seen(c)
  <2>1. Seen(c) = w \o (a \o b)
    BY <1>1, <1>3, ConcatEmptySeq DEF Seen, Taken, w
  <2>2. Seen(c)' = (w \o a) \o b
    BY <1>1, <1>4 DEF Seen, Taken, w
  <2>3. w \o (a \o b) = (w \o a) \o b
    <3>1. w \in Seq(Message) /\ a \in Seq(Message) /\ b \in Seq(Message)
      BY <1>3
    <3> HIDE DEF a, b, w
    <3> QED BY <3>1, ConcatAssociative, SMTT(40)
  <2> QED BY <2>1, <2>2, <2>3
<1>6. Alive(c)' = Alive(c)
  BY <1>1 DEF Alive
<1> QED BY <1>1, <1>4, <1>5, <1>6, SameSeen

LEMMA ParseStep ==
  ASSUME TypeOK, LifeInv, DeliveryInv, UNCHANGED clientVars, NEW c \in Conns, Parse(c)
  PROVE  DeliveryInv'
<1>1. /\ reader[c] = "reading" /\ inbox[c] # <<>> /\ Head(inbox[c]) # StopMsg
      /\ inbox' = [inbox EXCEPT ![c] = Tail(inbox[c])]
      /\ parsed' = [parsed EXCEPT ![c] = Append(parsed[c], Head(inbox[c]))]
      /\ UNCHANGED <<conn, stream, reader>>
  BY DEF Parse, kernelVars
<1>2. /\ inbox'[c] = Tail(inbox[c]) /\ parsed'[c] = Append(parsed[c], Head(inbox[c]))
      /\ \A d \in Conns \ {c} : inbox'[d] = inbox[d] /\ parsed'[d] = parsed[d]
  BY <1>1 DEF TypeOK
<1>3. Append(parsed[c], Head(inbox[c])) \o Tail(inbox[c]) = parsed[c] \o inbox[c]
  <2>1. parsed[c] \in Seq(Message) /\ inbox[c] \in Seq(Message)
    BY SeenType DEF TypeOK
  <2> QED BY <1>1, <2>1, MoveHead
<1>4. Seen(c)' = Seen(c) /\ Alive(c)' = Alive(c)
  BY <1>1, <1>2, <1>3 DEF Seen, Taken, Alive
<1> QED BY <1>1, <1>2, <1>4, SameSeen

(* "stop" is the end of what there is to see. *)
LEMMA ReadStopStep ==
  ASSUME TypeOK, LifeInv, DeliveryInv, UNCHANGED clientVars, NEW c \in Conns, ReadStop(c)
  PROVE  DeliveryInv'
<1>1. /\ reader[c] = "reading" /\ inbox[c] # <<>> /\ Head(inbox[c]) = StopMsg
      /\ inbox' = [inbox EXCEPT ![c] = <<>>] /\ reader' = [reader EXCEPT ![c] = "stopped"]
      /\ UNCHANGED <<conn, stream, parsed>>
  BY DEF ReadStop, kernelVars
<1>2. /\ inbox'[c] = <<>> /\ reader'[c] = "stopped"
      /\ \A d \in Conns \ {c} : inbox'[d] = inbox[d] /\ reader'[d] = reader[d]
  BY <1>1 DEF TypeOK, AgentTypeOK
<1> DEFINE w == parsed[c]
           r == Tail(inbox[c])
           z == stream[c]
<1>3. w \in Seq(Message) /\ z \in Seq(Message) /\ r \in Seq(Message) /\ StopMsg \in Message
      /\ inbox[c] \in Seq(Message) /\ <<StopMsg>> \o r = inbox[c]
  BY <1>1, SeenType, HeadTailProperties, HeadFirst DEF TypeOK
<1> HIDE DEF w, r, z
<1>4. Seen(c) = Append(w, StopMsg) \o (r \o z)
  <2>1. Seen(c) = (w \o (<<StopMsg>> \o r)) \o z
    BY <1>1, <1>3 DEF Seen, Taken, w, z
  <2>2. w \o (<<StopMsg>> \o r) = Append(w, StopMsg) \o r
    BY <1>3, AppendLeft
  <2> DEFINE v == Append(w, StopMsg)
  <2>3. v \in Seq(Message)
    BY <1>3, AppendProperties
  <2> HIDE DEF v
  <2>4. (v \o r) \o z = v \o (r \o z)
    BY <1>3, <2>3, ConcatAssociative
  <2> QED BY <2>1, <2>2, <2>4 DEF v
<1>5. r \o z = <<>>
  <2> DEFINE b == r \o z
  <2>1. b \in Seq(Message)
    BY <1>3, ConcatProperties
  <2>2. PICK u \in Seq(Trace) : Begins(Append(w, StopMsg) \o b, Append(u, StopMsg))
    BY <1>1, <1>4 DEF DeliveryInv, Ordered, Carries
  <2> HIDE DEF b
  <2>3. u \in Seq(Trace)
    OBVIOUS
  <2>4. b = <<>>
    BY <1>3, <2>1, <2>2, <2>3, StopEnds
  <2> QED BY <2>4 DEF b
<1>6. r = <<>> /\ z = <<>>
  <2>1. Len(r) \in Nat /\ Len(z) \in Nat /\ Len(r \o z) = Len(r) + Len(z)
    BY <1>3, LenProperties, ConcatProperties
  <2>2. Len(r) = 0 /\ Len(z) = 0
    BY <1>5, <2>1, EmptySeq
  <2> QED BY <1>3, <2>2, EmptySeq
<1>7. inbox[c] = <<StopMsg>>
  <2>1. <<StopMsg>> \in Seq(Message)
    BY <1>3
  <2> QED BY <1>3, <1>6, <2>1, ConcatEmptySeq
<1>8. Seen(c)' = Seen(c) /\ Alive(c)' = Alive(c)
  BY <1>1, <1>2, <1>7 DEF Seen, Taken, Alive
<1> QED BY <1>1, <1>2, <1>8, SameSeen

(* What the agent has parsed is a beginning of what was pushed. *)
LEMMA ParsedBegins ==
  ASSUME TypeOK, NEW c \in Conns, Ordered(c)
  PROVE  Begins(parsed[c], pushed[c])
<1>1. CASE reader[c] = "failed"
  BY <1>1 DEF Ordered
<1>2. CASE reader[c] # "failed"
  <2>0. PICK u \in Seq(Trace) : Carries(c, u)
    BY <1>2 DEF Ordered
  <2> DEFINE w == parsed[c]
             x == Taken(c)
             y == w \o x
             e == Append(u, StopMsg)
  <2>1. w \in Seq(Trace) /\ w \in Seq(Message) /\ x \in Seq(Message) /\ y \in Seq(Message)
        /\ stream[c] \in Seq(Message) /\ Seen(c) = y \o stream[c]
        /\ Seen(c) \in Seq(Message) /\ pushed[c] \in Seq(Trace)
    BY SeenType DEF TypeOK, Seen
  <2>2. Begins(w, y)
    <3> HIDE DEF w, x
    <3> QED BY <2>1, BeginsConcat
  <2> HIDE DEF w, x, y
  <2>3. Begins(y, Seen(c))
    BY <2>1, BeginsConcat
  <2>4. Begins(Seen(c), e)
    BY <2>0 DEF Carries
  <2> HIDE DEF e
  <2>5. Begins(w, Seen(c))
    BY <2>1, <2>2, <2>3, BeginsTransitive
  <2>6. Begins(w, e)
    BY <2>1, <2>4, <2>5, BeginsTransitive
  <2>7. Begins(w, u) /\ Begins(u, pushed[c])
    BY <2>0, <2>1, <2>6, TracesBegin DEF e, Carries
  <2>8. Begins(w, pushed[c])
    BY <2>0, <2>1, <2>7, BeginsTransitive
  <2> QED BY <2>8 DEF w
<1> QED BY <1>1, <1>2

LEMMA ParseFailsStep ==
  ASSUME TypeOK, DeliveryInv, UNCHANGED clientVars, NEW c \in Conns, ParseFails(c)
  PROVE  DeliveryInv'
<1> USE DEF clientVars
<1>1. /\ reader[c] = "reading"
      /\ inbox' = [inbox EXCEPT ![c] = <<>>] /\ reader' = [reader EXCEPT ![c] = "failed"]
      /\ UNCHANGED <<conn, stream, parsed>>
  BY DEF ParseFails, kernelVars
<1>2. /\ inbox'[c] = <<>> /\ reader'[c] = "failed"
      /\ \A d \in Conns \ {c} : inbox'[d] = inbox[d] /\ reader'[d] = reader[d]
  BY <1>1 DEF TypeOK, AgentTypeOK
<1>3. ASSUME NEW p \in Procs PROVE WorkerOK(p)'
  BY <1>1 DEF DeliveryInv, WorkerOK, Current, Alive
<1>4. ASSUME NEW d \in Conns PROVE Local(d)'
  <2>1. Unused(d) /\ Ordered(d) /\ Complete(d)
    BY DEF DeliveryInv
  <2>2. CASE d = c
    BY <1>1, <1>2, <2>1, <2>2, ParsedBegins DEF Local, Unused, Ordered, Complete
  <2>3. CASE d # c
    <3>1. Seen(d)' = Seen(d) /\ Everything(d)' = Everything(d) /\ Alive(d)' = Alive(d)
          /\ Owed(d[1])' = Owed(d[1]) /\ Finished(d)' = Finished(d)
      BY <1>1, <1>2, <2>3 DEF Seen, Taken, Everything, Alive, Owed, Sending, Finished
    <3>2. Unused(d)'
      BY <1>1, <1>2, <2>1, <2>3 DEF Unused
    <3>3. Ordered(d)'
      BY <1>1, <1>2, <2>1, <2>3, <3>1, CarriesOn DEF Ordered
    <3>4. Complete(d)'
      BY <1>1, <1>2, <2>1, <2>3, <3>1 DEF Complete
    <3> QED BY <3>2, <3>3, <3>4 DEF Local
  <2> QED BY <2>2, <2>3
<1> QED BY <1>3, <1>4 DEF DeliveryInv, Local

(* A connection that is reset loses what is in its socket, and no more.      *)
LEMMA ResetStep ==
  ASSUME TypeOK, LifeInv, DeliveryInv, UNCHANGED clientVars,
         NEW C, \A c \in C \cap Conns : conn[c] # "none", ResetAll(C),
         UNCHANGED <<reader, inbox, parsed>>
  PROVE  DeliveryInv'
<1> USE DEF clientVars
<1>1. \A c \in Conns : /\ c \in C => conn'[c] = "reset" /\ stream'[c] = <<>>
                       /\ c \notin C => conn'[c] = conn[c] /\ stream'[c] = stream[c]
  BY DEF ResetAll
<1>2. ASSUME NEW p \in Procs PROVE WorkerOK(p)'
  <2>1. CASE worker[p] # "none"
    <3>1. Current(p) \in Conns /\ Current(p)' = Current(p)
      BY <2>1, WorkingConnection DEF Current
    <3>2. Alive(Current(p))' => Alive(Current(p))
      BY <1>1, <3>1 DEF Alive
    <3> QED BY <3>1, <3>2 DEF DeliveryInv, WorkerOK
  <2>2. CASE worker[p] = "none"
    BY <2>2 DEF DeliveryInv, WorkerOK
  <2> QED BY <2>1, <2>2
<1>3. ASSUME NEW d \in Conns PROVE Local(d)'
  <2>1. Unused(d) /\ Ordered(d) /\ Complete(d)
    BY DEF DeliveryInv
  <2>2. /\ Everything(d)' = Everything(d) /\ Owed(d[1])' = Owed(d[1])
        /\ Finished(d)' = Finished(d) /\ Taken(d)' = Taken(d)
    BY DEF Everything, Owed, Sending, Finished, Taken
  <2>3. Unused(d)'
    BY <1>1, <2>1 DEF Unused
  <2>4. CASE d \in C
    <3>1. ~Alive(d)'
      BY <1>1, <2>4 DEF Alive
    <3> DEFINE a == parsed[d] \o Taken(d)
               z == stream[d]
    <3>2. a \in Seq(Message) /\ z \in Seq(Message) /\ Seen(d) = a \o z
      BY SeenType DEF Seen
    <3>3. Seen(d)' = a
      <4>1. Seen(d)' = a \o <<>>
        BY <1>1, <2>2, <2>4 DEF Seen
      <4> HIDE DEF a
      <4> QED BY <3>2, <4>1, ConcatEmptySeq
    <3> HIDE DEF a, z
    <3>4. Begins(a, Seen(d)) /\ Len(a) \in Nat /\ Len(Seen(d)) \in Nat /\ Len(pushed[d]) \in Nat
      BY <3>2, SeenType, BeginsConcat, LenProperties
    <3>5. Len(a) <= Len(Seen(d))
      BY <3>4 DEF Begins
    <3>6. ASSUME NEW u \in Seq(Trace), Carries(d, u) PROVE Carries(d, u)'
      <4>1. Begins(a, Append(u, StopMsg))
        BY <3>2, <3>4, <3>6, SeenType, BeginsTransitive DEF Carries
      <4>2. Len(a) > Len(u) => Finished(d)
        BY <3>4, <3>5, <3>6, LenProperties DEF Carries
      <4> QED BY <2>2, <3>3, <3>6, <4>1, <4>2 DEF Carries
    <3>7. Ordered(d)'
      BY <2>1, <3>6 DEF Ordered
    <3>8. Complete(d)'
      BY <3>1 DEF Complete
    <3> QED BY <2>3, <3>7, <3>8 DEF Local
  <2>5. CASE d \notin C
    <3>1. Seen(d)' = Seen(d) /\ Alive(d)' = Alive(d)
      BY <1>1, <2>2, <2>5 DEF Seen, Alive
    <3>2. Ordered(d)'
      BY <2>1, <2>2, <3>1, CarriesOn DEF Ordered
    <3>3. Complete(d)'
      BY <2>1, <2>2, <3>1 DEF Complete
    <3> QED BY <2>3, <3>2, <3>3 DEF Local
  <2> QED BY <2>4, <2>5
<1> QED BY <1>2, <1>3 DEF DeliveryInv, Local

(* Every step of the agent keeps the invariant. *)
LEMMA DeliveryAgentStep ==
  ASSUME TypeOK, LifeInv, DeliveryInv, AgentNext, UNCHANGED clientVars
  PROVE  DeliveryInv'
<1>1. CASE UNCHANGED <<conn, stream, reader, inbox, parsed>>
  BY <1>1, QuietStep DEF clientVars
<1>2. CASE Bind \/ Listen \/ Trap \/ Serve \/ Note
  BY <1>1, <1>2 DEF Bind, Listen, Trap, Serve, Note, kernelVars
<1>3. CASE CollectorStep
  BY <1>1, <1>3 DEF CollectorStep, CollectorPop, Collect, Write, kernelVars
<1>4. CASE HandleHup \/ CloseQueue \/ Unlink
  BY <1>1, <1>4 DEF HandleHup, CloseQueue, Unlink, kernelVars
<1>5. CASE BindFails \/ Killed \/ JoinCollector
  <2> DEFINE C == {c \in Conns : conn[c] # "none"}
  <2>1. ResetAll(C) /\ UNCHANGED <<reader, inbox, parsed>>
    BY <1>5 DEF BindFails, Killed, JoinCollector, Die
  <2>2. \A c \in C \cap Conns : conn[c] # "none"
    OBVIOUS
  <2> HIDE DEF C
  <2> QED BY <2>1, <2>2, ResetStep
<1>6. CASE JoinReaders
  <2> DEFINE C == {c \in Conns : conn[c] = "backlog"}
  <2>1. ResetAll(C) /\ UNCHANGED <<reader, inbox, parsed>>
    BY <1>6 DEF JoinReaders
  <2>2. \A c \in C \cap Conns : conn[c] # "none"
    OBVIOUS
  <2> HIDE DEF C
  <2> QED BY <2>1, <2>2, ResetStep
<1> QED
  BY <1>2, <1>3, <1>4, <1>5, <1>6, AcceptNextStep, SpawnStep, ReadStep, ParseStep,
     ParseFailsStep, ReadStopStep
  DEF AgentNext, BootStep, AcceptStep, ReaderStep, ExitStep

(* What is seen and owed is everything, in every reachable state. *)
LEMMA DeliveryInvariant == Spec => []DeliveryInv
<1>1. TypeOK /\ LifeInv /\ DeliveryInv /\ [Next]_vars => DeliveryInv'
  <2>1. CASE UNCHANGED vars
    <3>1. TypeOK /\ DeliveryInv => DeliveryInv'
      BY <2>1, QuietStep DEF vars, kernelVars, clientVars, agentVars
    <3> QED BY <3>1
  <2> QED BY <2>1, DeliveryClientStep, DeliveryAgentStep DEF Next
<1> QED BY <1>1, DeliveryInit, DeliveryTypes, LifeInvariant, PTL DEF Spec

(* On each connection the agent sees the traces in the order they were       *)
(* pushed, none twice and none skipped, whatever fails or crashes, and a     *)
(* reader that saw "stop" has seen all of them unless a send failed.         *)
THEOREM DeliveryInOrder == Spec => []InOrder
<1>1. TypeOK /\ DeliveryInv => InOrder
  <2> SUFFICES ASSUME TypeOK, DeliveryInv, NEW c \in Conns
               PROVE  /\ IsPrefix(parsed[c], pushed[c])
                      /\ reader[c] = "stopped" =>
                           stream[c] = <<>> /\ (parsed[c] = pushed[c] \/ c \in broken)
    BY DEF InOrder, StopIsLast
  <2>1. Ordered(c)
    BY DEF DeliveryInv
  <2>2. IsPrefix(parsed[c], pushed[c])
    <3> DEFINE w == parsed[c]
               u == pushed[c]
    <3>1. Begins(w, u) /\ w \in Seq(Trace) /\ u \in Seq(Trace)
      BY <2>1, ParsedBegins DEF TypeOK, ClientTypeOK
    <3> HIDE DEF w, u
    <3>2. Len(w) \in Nat /\ Len(u) \in Nat /\ Len(w) <= Len(u) /\ \A i \in 1..Len(w) : w[i] = u[i]
      BY <3>1, LenProperties DEF Begins
    <3>3. SubSeq(w, 1, Len(w)) = w
      BY <3>1, SubSeqFull
    <3> DEFINE v == SubSeq(u, 1, Len(w))
    <3>4. v \in Seq(Trace) /\ Len(v) = Len(w) /\ \A i \in 1..Len(w) : v[i] = u[i]
      <4>1. \A i \in 1..Len(w) : u[i] \in Trace
        BY <3>1, <3>2, ElementOfSeq
      <4> DEFINE n == Len(w)
      <4>2. n \in Nat /\ \A i \in 1..n : u[i] \in Trace
        BY <3>2, <4>1
      <4> HIDE DEF n
      <4>3. /\ SubSeq(u, 1, n) \in Seq(Trace)
            /\ Len(SubSeq(u, 1, n)) = IF 1 <= n THEN n - 1 + 1 ELSE 0
            /\ \A i \in 1..(n - 1 + 1) : SubSeq(u, 1, n)[i] = u[1 + i - 1]
        BY <4>2, SubSeqProperties
      <4>4. Len(SubSeq(u, 1, n)) = n /\ \A i \in 1..n : SubSeq(u, 1, n)[i] = u[i]
        BY <4>2, <4>3
      <4> QED BY <4>3, <4>4 DEF n
    <3> HIDE DEF v
    <3>5. v = w
      BY <3>1, <3>2, <3>4, SeqEqual
    <3> QED BY <3>2, <3>3, <3>5 DEF IsPrefix, v, w, u
  <2>3. ASSUME reader[c] = "stopped"
        PROVE  stream[c] = <<>> /\ (parsed[c] = pushed[c] \/ c \in broken)
    <3>1. parsed[c] \in Seq(Message) /\ stream[c] \in Seq(Message) /\ StopMsg \in Message
      BY SeenType
    <3>2. Seen(c) = Append(parsed[c], StopMsg) \o stream[c]
      BY <2>3, <3>1, AppendIsConcat DEF Seen, Taken
    <3>3. PICK u \in Seq(Trace) : Carries(c, u)
      BY <2>1, <2>3 DEF Ordered
    <3>4. Begins(Append(parsed[c], StopMsg) \o stream[c], Append(u, StopMsg))
      BY <3>2, <3>3 DEF Carries
    <3>5. parsed[c] = u /\ stream[c] = <<>>
      BY <3>1, <3>4, StopEnds
    <3> QED BY <3>3, <3>5 DEF Carries
  <2> QED BY <2>2, <2>3
<1> QED BY <1>1, DeliveryTypes, DeliveryInvariant, PTL

(* While the agent, the process and the reader live and no send fails, every *)
(* trace that was pushed is parsed or on its way, and at most "stop" comes   *)
(* after them.                                                               *)
THEOREM NothingIsLost == Spec => []NothingLost
<1>1. TypeOK /\ LifeInv /\ DeliveryInv => NothingLost
  <2> SUFFICES ASSUME TypeOK, LifeInv, DeliveryInv, NEW c \in Conns,
                      Alive(c), life[c[1]] # "crashed", reader[c] # "failed", c \notin broken
               PROVE  parsed[c] \o OnTheWay(c) \in {pushed[c], Append(pushed[c], StopMsg)}
    BY DEF NothingLost
  <2> DEFINE p == c[1]
             w == parsed[c]
             x == inbox[c]
             z == stream[c]
             y == IF c = Current(p) THEN Sending(p) ELSE <<>>
  <2>1. p \in Procs /\ c[2] \in Nat /\ epoch[p] \in Nat /\ (c = Current(p) <=> c[2] = epoch[p])
    BY ConnParts, ClientAssumption DEF Current, TypeOK, ClientTypeOK
  <2>2. Ordered(c) /\ Complete(c) /\ Unused(c) /\ WorkerOK(p) /\ Consistent(p)
    BY <2>1 DEF DeliveryInv, LifeInv
  <2>3. c[2] <= epoch[p]
    BY <2>1, <2>2 DEF Unused, Alive
  <2>4. w \in Seq(Message) /\ x \in Seq(Message) /\ z \in Seq(Message) /\ y \in Seq(Message)
        /\ Seen(c) \in Seq(Message) /\ pushed[c] \in Seq(Message) /\ StopMsg \in Message
    <3>1. <<>> \in Seq(Message) /\ inbox[c] \in Seq(Message)
      BY DEF TypeOK
    <3> QED BY <2>1, <3>1, SeenType, SendingType
  <2>5. worker[p] \notin {"pop", "send"} /\ queue[p] = <<>> => Sending(p) = <<>>
    BY ConcatEmptySeq, EmptySeq DEF Sending
  <2>6. sock[p] # "open" \/ flushing[p] = "close" => Sending(p) = <<>>
    <3>1. worker[p] = "none" \/ (sock[p] = "open" /\ flushing[p] # "close")
      BY <2>2 DEF Consistent
    <3> QED BY <2>2, <2>5, <3>1 DEF WorkerOK
  <2>7. parsed[c] \o OnTheWay(c) = ((w \o x) \o z) \o y
    <3>1. OnTheWay(c) = (x \o z) \o y
      BY DEF OnTheWay
    <3>0. w \in Seq(Message) /\ x \in Seq(Message) /\ z \in Seq(Message) /\ y \in Seq(Message)
      BY <2>4
    <3> HIDE DEF w, x, y, z
    <3>2. w \o ((x \o z) \o y) = (w \o (x \o z)) \o y
      <4>1. x \o z \in Seq(Message)
        BY <3>0, ConcatProperties
      <4> QED BY <3>0, <4>1, ConcatAssociative, SMTT(40)
    <3>3. w \o (x \o z) = (w \o x) \o z
      BY <3>0, ConcatAssociative, SMTT(40)
    <3> QED BY <3>1, <3>2, <3>3 DEF w
  <2>8. CASE reader[c] = "stopped"
    <3>1. x = <<>>
      BY <2>2, <2>8 DEF Ordered
    <3>2. Seen(c) = Append(w, StopMsg) \o z
      BY <2>4, <2>8, AppendIsConcat DEF Seen, Taken
    <3>3. /\ Begins(Append(w, StopMsg) \o z, Append(pushed[c], StopMsg))
          /\ Len(Seen(c)) > Len(pushed[c]) => Finished(c)
      BY <2>2, <2>8, <3>2 DEF Ordered, Carries
    <3>4. w = pushed[c] /\ z = <<>>
      BY <2>4, <3>3, StopEnds, SeenType
    <3>5. y = <<>>
      <4>1. Len(Append(w, StopMsg)) = Len(w) + 1 /\ Len(w) \in Nat /\ Append(w, StopMsg) \in Seq(Message)
        BY <2>4, AppendProperties, LenProperties
      <4>2. Seen(c) = Append(w, StopMsg)
        BY <3>2, <3>4, <4>1, ConcatEmptySeq
      <4>3. Len(Seen(c)) > Len(pushed[c])
        BY <3>4, <4>1, <4>2
      <4>4. Finished(c)
        BY <3>3, <4>3
      <4> QED BY <2>1, <2>6, <4>4 DEF Finished
    <3>6. ((w \o x) \o z) \o y = w
      BY <2>4, <3>1, <3>4, <3>5, ConcatEmptySeq
    <3> QED BY <2>7, <3>4, <3>6
  <2>9. CASE reader[c] # "stopped"
    <3>1. parsed[c] \o OnTheWay(c) = Seen(c) \o y
      BY <2>7, <2>9 DEF Seen, Taken
    <3>2. CASE c[2] < epoch[p]
      <4>1. Seen(c) = Everything(c) /\ y = <<>>
        BY <2>1, <2>2, <3>2 DEF Complete
      <4>2. Seen(c) \o y = Everything(c)
        BY <2>4, <4>1, ConcatEmptySeq
      <4> QED BY <3>1, <4>2 DEF Everything
    <3>3. CASE c[2] = epoch[p]
      <4>1. y = Sending(p) /\ Seen(c) \o Owed(p) = Everything(c) /\ (worker[p] = "done" => queue[p] = <<>>)
        BY <2>1, <2>2, <3>3 DEF Complete
      <4>2. CASE sock[p] # "open" \/ flushing[p] = "close"
        BY <2>6, <3>1, <4>1, <4>2 DEF Owed, Everything
      <4>3. CASE sock[p] = "open" /\ flushing[p] = "no"
        <5> DEFINE a == Seen(c)
                   u == pushed[c]
                   v == a \o y
        <5>1. a \o Append(y, StopMsg) = Append(u, StopMsg)
          BY <4>1, <4>3 DEF Owed, Everything
        <5>2. a \in Seq(Message) /\ u \in Seq(Message) /\ v \in Seq(Message)
          <6>1. a \in Seq(Message) /\ u \in Seq(Message)
            BY <2>4
          <6> HIDE DEF a, y
          <6> QED BY <2>4, <6>1, ConcatProperties
        <5> HIDE DEF a, y, u
        <5>3. Append(v, StopMsg) = Append(u, StopMsg)
          <6>1. y \in Seq(Message) /\ StopMsg \in Message
            BY <2>4
          <6>2. a \o Append(y, StopMsg) = Append(a \o y, StopMsg)
            BY <5>2, <6>1, AppendRight
          <6> QED BY <5>1, <6>2
        <5> HIDE DEF v
        <5>4. v = u
          BY <2>4, <5>2, <5>3, AppendInjective
        <5> QED BY <3>1, <5>4 DEF v, a, u
      <4>4. CASE sock[p] = "open" /\ flushing[p] = "join" /\ worker[p] \in {"pop", "send"}
        BY <3>1, <4>1, <4>4 DEF Owed, Everything
      <4>5. CASE /\ sock[p] = "open" /\ flushing[p] \in {"join", "stop"}
                 /\ ~(flushing[p] = "join" /\ worker[p] \in {"pop", "send"})
        <5>1. Owed(p) = <<StopMsg>>
          BY <4>5 DEF Owed
        <5>2. worker[p] \in {"none", "done", "failed"}
          BY <2>1, <2>2, <4>5 DEF LifeInv, LifeTypes, Consistent
        <5>3. worker[p] # "failed"
          BY <2>1, <2>2, <3>3 DEF WorkerOK
        <5>4. Sending(p) = <<>>
          BY <2>2, <2>5, <4>1, <5>2, <5>3 DEF WorkerOK
        <5>5. Seen(c) \o y = Seen(c)
          BY <2>4, <4>1, <5>4, ConcatEmptySeq
        <5>6. Append(Seen(c), StopMsg) = Append(pushed[c], StopMsg)
          BY <2>4, <4>1, <5>1, AppendIsConcat DEF Everything
        <5>7. Seen(c) = pushed[c]
          BY <2>4, <5>6, AppendInjective
        <5> QED BY <3>1, <5>5, <5>7
      <4>6. flushing[p] \in {"no", "join", "stop", "close"}
        BY <2>1 DEF LifeInv, LifeTypes
      <4> QED BY <4>2, <4>3, <4>4, <4>5, <4>6
    <3>4. c[2] < epoch[p] \/ c[2] = epoch[p]
      <4> HIDE DEF p
      <4> QED BY <2>1, <2>3
    <3> QED BY <3>2, <3>3, <3>4
  <2> QED BY <2>8, <2>9
<1> QED BY <1>1, DeliveryTypes, LifeInvariant, DeliveryInvariant, PTL
==============================================================================
