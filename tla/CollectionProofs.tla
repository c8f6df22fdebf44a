--------------------------- MODULE CollectionProofs ---------------------------
(***************************************************************************)
(* Proofs about the collector: what the written output contains, and which *)
(* traces alone can make the collector's thread fail, for any number of    *)
(* processes, connections, constants and traces.                           *)
(***************************************************************************)
EXTENDS DeliveryProofs

------------------------------------------------------------------------------
(* Winding down *)

(* The queue is closed once the noted readers have ended, and only a closed  *)
(* queue can make a reader fail or the collector write.                      *)
WindingDown ==
  /\ closed => phase \in {"closed", "unlinked", "gone"}
  /\ closed => \A c \in noted : reader[c] = "stopped"
  /\ phase = "closing" => \A c \in noted : reader[c] # "reading"
  /\ \A c \in Conns : reader[c] = "failed" => closed
  /\ collector = "written" => closed /\ traces = <<>> /\ task = Idle

(* Every step of the agent keeps it; those of the processes do not touch it. *)
LEMMA WindingDownStep ==
  ASSUME TypeOK, WindingDown, [Next]_vars
  PROVE  WindingDown'
<1> USE DEF WindingDown, TypeOK, AgentTypeOK
<1>1. CASE UNCHANGED agentVars
  BY <1>1 DEF agentVars
<1>2. CASE BootStep
  BY <1>2 DEF BootStep, Bind, BindFails, Listen, Trap, Serve, Killed, Die
<1>3. CASE Note
  BY <1>3 DEF Note
<1>4. ASSUME NEW c \in Conns, Accept(c) PROVE WindingDown'
  BY <1>4 DEF Accept
<1>5. ASSUME NEW c \in Conns, Spawn(c) PROVE WindingDown'
  BY <1>5 DEF Spawn
<1>6. ASSUME NEW c \in Conns, ReaderStep(c) PROVE WindingDown'
  <2>1. CASE Read(c)
    BY <2>1 DEF Read
  <2>2. CASE Parse(c)
    BY <2>2 DEF Parse
  <2>3. CASE ParseFails(c)
    BY <1>6, <2>3 DEF ParseFails
  <2>4. CASE ReadStop(c)
    BY <1>6, <2>4 DEF ReadStop
  <2> QED BY <1>6, <2>1, <2>2, <2>3, <2>4 DEF ReaderStep
<1>7. CASE CollectorStep
  BY <1>7 DEF CollectorStep, CollectorPop, Collect, Write
<1>8. CASE ExitStep
  <2>1. CASE HandleHup
    BY <2>1 DEF HandleHup
  <2>2. CASE JoinReaders
    BY <2>2 DEF JoinReaders
  <2>3. CASE CloseQueue
    BY <2>3 DEF CloseQueue
  <2>4. CASE Unlink
    BY <2>4 DEF Unlink
  <2>5. CASE JoinCollector
    BY <2>5 DEF JoinCollector, Die
  <2> QED BY <1>8, <2>1, <2>2, <2>3, <2>4, <2>5 DEF ExitStep
<1> QED
  BY <1>1, <1>2, <1>3, <1>4, <1>5, <1>6, <1>7, <1>8
  DEF Next, AgentNext, AcceptStep, vars

------------------------------------------------------------------------------
(* From the readers to the collector *)

(* An entry of the queue is the trace its number says, and still to be       *)
(* collected.                                                                *)
Waits(e) ==
  /\ Len(collected[e.from]) < e.nr /\ e.nr <= Len(parsed[e.from])
  /\ e.trace = parsed[e.from][e.nr]

InQueue(c, n) == \E i \in 1..Len(traces) : traces[i].from = c /\ traces[i].nr = n

(* As long as the collector lives, what it has collected of a connection is  *)
(* a beginning of what was parsed; what follows is the trace it holds and    *)
(* those in the queue, all of them and in their order.                       *)
Collecting ==
  /\ \A c \in Conns : Begins(collected[c], parsed[c])
  /\ \A i \in 1..Len(traces) : Waits(traces[i])
  /\ \A i, j \in 1..Len(traces) :
       i < j /\ traces[i].from = traces[j].from => traces[i].nr < traces[j].nr
  /\ task # Idle =>
       /\ Waits(task) /\ task.nr = Len(collected[task.from]) + 1
       /\ \A i \in 1..Len(traces) : traces[i].from = task.from => task.nr < traces[i].nr
  /\ \A c \in Conns : \A n \in (Len(collected[c]) + 1)..Len(parsed[c]) :
       (task # Idle /\ task.from = c /\ task.nr = n) \/ InQueue(c, n)

CollectInv == WindingDown /\ (collector # "dead" => Collecting)

(* The queue's entries, and the lengths they are about. *)
LEMMA EntryParts ==
  ASSUME TypeOK
  PROVE  /\ \A c \in Conns : /\ Len(parsed[c]) \in Nat /\ Len(collected[c]) \in Nat
                             /\ Len(pushed[c]) \in Nat
         /\ Len(traces) \in Nat
         /\ \A i \in 1..Len(traces) : traces[i] \in Entry
         /\ \A e \in Entry : e.from \in Conns /\ e.nr \in Nat /\ e.trace \in Trace /\ e # Idle
<1>1. \A c \in Conns : Len(parsed[c]) \in Nat /\ Len(collected[c]) \in Nat
                       /\ Len(pushed[c]) \in Nat
  BY LenProperties DEF TypeOK, ClientTypeOK
<1>2. Len(traces) \in Nat /\ \A i \in 1..Len(traces) : traces[i] \in Entry
  BY LenProperties, ElementOfSeq DEF TypeOK
<1> QED BY <1>1, <1>2, RacerAssumption DEF Entry

LEMMA CollectParse ==
  ASSUME TypeOK, Collecting, NEW c \in Conns, Parse(c)
  PROVE  Collecting'
<1> DEFINE e == [from |-> c, nr |-> Len(parsed[c]) + 1, trace |-> Head(inbox[c])]
           l == Len(traces)
<1>1. /\ traces' = Append(traces, e)
      /\ parsed' = [parsed EXCEPT ![c] = Append(parsed[c], Head(inbox[c]))]
      /\ UNCHANGED <<collected, task>>
  BY DEF Parse
<1>2. Head(inbox[c]) \in Trace
  BY TailAt DEF Parse, TypeOK, Message
<1>3. /\ parsed'[c] = Append(parsed[c], e.trace) /\ Len(parsed'[c]) = Len(parsed[c]) + 1
      /\ parsed'[c][Len(parsed[c]) + 1] = e.trace
      /\ \A i \in 1..Len(parsed[c]) : parsed'[c][i] = parsed[c][i]
      /\ \A d \in Conns \ {c} : parsed'[d] = parsed[d]
  BY <1>1, <1>2, AppendProperties DEF TypeOK
<1>4. /\ l \in Nat /\ Len(traces') = l + 1 /\ traces'[l + 1] = e
      /\ \A i \in 1..l : traces'[i] = traces[i] /\ traces[i] \in Entry
  <2>1. e \in Entry
    BY <1>2, EntryParts DEF Entry
  <2>2. traces \in Seq(Entry) /\ l \in Nat /\ \A i \in 1..l : traces[i] \in Entry
    BY EntryParts DEF TypeOK
  <2> HIDE DEF e
  <2> QED BY <1>1, <2>1, <2>2, AppendProperties
<1>5. e.from = c /\ e.nr = Len(parsed[c]) + 1
  OBVIOUS
<1> HIDE DEF e, l
<1>6. \A d \in Conns : /\ Len(parsed[d]) \in Nat /\ Len(collected[d]) \in Nat
                       /\ Len(collected[d]) <= Len(parsed[d])
  BY EntryParts DEF Collecting, Begins
<1>7. \A d \in Conns : Begins(collected'[d], parsed'[d])
  <2> SUFFICES ASSUME NEW d \in Conns PROVE Begins(collected'[d], parsed'[d])
    OBVIOUS
  <2>1. Begins(collected[d], parsed[d]) /\ collected' = collected
    BY <1>1 DEF Collecting
  <2>2. CASE d # c
    BY <1>3, <2>1, <2>2
  <2>3. CASE d = c
    <3>1. /\ Len(collected[c]) <= Len(parsed'[c])
          /\ \A i \in 1..Len(collected[c]) : i \in 1..Len(parsed[c])
      BY <1>3, <1>6
    <3>2. \A i \in 1..Len(collected[c]) : collected[c][i] = parsed'[c][i]
      BY <1>3, <2>1, <2>3, <3>1 DEF Begins
    <3> QED BY <2>1, <2>3, <3>1, <3>2 DEF Begins
  <2> QED BY <2>2, <2>3
<1>8. \A f \in Entry : Waits(f) => Waits(f)'
  <2> SUFFICES ASSUME NEW f \in Entry, Waits(f) PROVE Waits(f)'
    OBVIOUS
  <2>1. f.from \in Conns /\ f.nr \in Nat
    BY EntryParts
  <2> QED BY <1>1, <1>3, <1>6, <2>1 DEF Waits
<1>9. ASSUME NEW f, f = e PROVE Waits(f)'
  BY <1>1, <1>3, <1>5, <1>6, <1>9 DEF Waits
<1>10. \A i \in 1..Len(traces') : Waits(traces[i])'
  <2> SUFFICES ASSUME NEW i \in 1..Len(traces') PROVE Waits(traces[i])'
    OBVIOUS
  <2>1. CASE i = l + 1
    BY <1>4, <1>9, <2>1 DEF Waits
  <2>2. CASE i \in 1..l
    BY <1>4, <1>8, <2>2 DEF Collecting, l
  <2> QED BY <1>4, <2>1, <2>2
<1>11. \A i, j \in 1..Len(traces') :
         i < j /\ traces'[i].from = traces'[j].from => traces'[i].nr < traces'[j].nr
  <2> SUFFICES ASSUME NEW i \in 1..Len(traces'), NEW j \in 1..Len(traces'), i < j,
                      traces'[i].from = traces'[j].from
               PROVE  traces'[i].nr < traces'[j].nr
    OBVIOUS
  <2>1. i \in 1..l /\ traces'[i] = traces[i] /\ traces[i] \in Entry
    BY <1>4
  <2>2. CASE j \in 1..l
    BY <1>4, <2>1, <2>2 DEF Collecting, l
  <2>3. CASE j = l + 1
    <3>1. traces[i].from = c /\ traces[i].nr \in Nat /\ traces[i].nr <= Len(parsed[c])
      BY <1>4, <1>5, <2>1, <2>3, EntryParts DEF Collecting, Waits, l
    <3> QED BY <1>4, <1>5, <1>6, <2>1, <2>3, <3>1
  <2> QED BY <1>4, <2>2, <2>3
<1>12. task # Idle =>
         /\ Waits(task)' /\ task.nr = Len(collected[task.from]) + 1
         /\ \A i \in 1..Len(traces') : traces'[i].from = task.from => task.nr < traces'[i].nr
  <2> SUFFICES ASSUME task # Idle
               PROVE  /\ Waits(task)' /\ task.nr = Len(collected[task.from]) + 1
                      /\ \A i \in 1..Len(traces') :
                           traces'[i].from = task.from => task.nr < traces'[i].nr
    OBVIOUS
  <2>1. task \in Entry /\ task' = task
    BY <1>1 DEF TypeOK
  <2>2. task.nr \in Nat /\ task.from \in Conns /\ Waits(task) /\ task.nr <= Len(parsed[task.from])
    BY <2>1, EntryParts DEF Collecting, Waits
  <2>3. Waits(task)'
    BY <1>1, <1>3, <1>6, <2>2 DEF Waits
  <2>4. \A i \in 1..Len(traces') : traces'[i].from = task.from => task.nr < traces'[i].nr
    BY <1>4, <1>5, <1>6, <2>2 DEF Collecting, l
  <2> QED BY <2>3, <2>4 DEF Collecting
<1>13. ASSUME NEW d \in Conns, NEW n \in (Len(collected[d]) + 1)..Len(parsed'[d])
       PROVE  (task # Idle /\ task.from = d /\ task.nr = n) \/ InQueue(d, n)'
  <2>1. CASE n \in (Len(collected[d]) + 1)..Len(parsed[d])
    <3>1. (task # Idle /\ task.from = d /\ task.nr = n) \/ InQueue(d, n)
      BY <2>1 DEF Collecting
    <3>2. InQueue(d, n) => InQueue(d, n)'
      BY <1>4 DEF InQueue, l
    <3> QED BY <3>1, <3>2
  <2>2. CASE n \notin (Len(collected[d]) + 1)..Len(parsed[d])
    <3>1. d = c /\ n = Len(parsed[c]) + 1
      BY <1>3, <1>6, <1>13, <2>2
    <3>2. l + 1 \in 1..Len(traces') /\ traces'[l + 1].from = d /\ traces'[l + 1].nr = n
      BY <1>4, <1>5, <3>1
    <3> QED BY <3>2 DEF InQueue
  <2> QED BY <2>1, <2>2
<1>14. (\A d \in Conns : \A n \in (Len(collected[d]) + 1)..Len(parsed[d]) :
         (task # Idle /\ task.from = d /\ task.nr = n) \/ InQueue(d, n))'
  BY <1>1, <1>13
<1> QED BY <1>1, <1>7, <1>10, <1>11, <1>12, <1>14 DEF Collecting

(* The collector takes the next trace of a connection, never a later one.    *)
LEMMA CollectPop ==
  ASSUME TypeOK, Collecting, CollectorPop
  PROVE  Collecting'
<1> DEFINE l == Len(traces)
           h == traces[1]
<1>1. /\ task = Idle /\ traces # <<>> /\ task' = Head(traces) /\ traces' = Tail(traces)
      /\ UNCHANGED <<parsed, collected>>
  BY DEF CollectorPop
<1>2. /\ l \in Nat \ {0} /\ task' = h /\ h \in Entry /\ Len(traces') = l - 1
      /\ \A i \in 1..(l - 1) : traces'[i] = traces[i + 1]
  <2>1. traces \in Seq(Entry) /\ l \in Nat /\ l # 0
    BY <1>1, EntryParts, EmptySeq DEF TypeOK
  <2>2. traces[1] \in Entry
    BY <2>1, EntryParts
  <2> QED BY <1>1, <2>1, <2>2, HeadTailProperties
<1> HIDE DEF l, h
<1>3. \A d \in Conns : Len(parsed[d]) \in Nat /\ Len(collected[d]) \in Nat
  BY EntryParts
<1>4. h.from \in Conns /\ h.nr \in Nat /\ h # Idle
  BY <1>2, EntryParts
<1>5. \A i \in 2..l : traces[1].from = traces[i].from => traces[1].nr < traces[i].nr
  BY <1>2 DEF Collecting, l
<1>6. Waits(h) /\ h.nr = Len(collected[h.from]) + 1
  <2> DEFINE c == h.from
             m == Len(collected[c]) + 1
  <2>1. Waits(h)
    BY <1>2 DEF Collecting, h, l
  <2>2. m \in (Len(collected[c]) + 1)..Len(parsed[c])
    BY <1>3, <1>4, <2>1 DEF Waits
  <2>3. InQueue(c, m)
    BY <1>1, <1>4, <2>2 DEF Collecting
  <2>4. PICK i \in 1..l : traces[i].from = c /\ traces[i].nr = m
    BY <2>3 DEF InQueue, l
  <2>5. h.nr <= m
    <3>1. CASE i = 1
      BY <1>4, <2>4, <3>1 DEF h
    <3>2. CASE i # 1
      <4>1. i \in 2..l
        BY <1>2, <3>2
      <4>2. traces[1].nr < traces[i].nr
        BY <1>5, <2>4, <4>1 DEF h
      <4> QED BY <1>3, <1>4, <2>4, <4>2 DEF h
    <3> QED BY <3>1, <3>2
  <2> QED BY <1>3, <1>4, <2>1, <2>5 DEF Waits
<1>7. \A i \in 1..Len(traces') : Waits(traces[i])'
  <2> SUFFICES ASSUME NEW i \in 1..Len(traces') PROVE Waits(traces[i])'
    OBVIOUS
  <2>1. i + 1 \in 1..l /\ traces'[i] = traces[i + 1]
    BY <1>2
  <2>2. Waits(traces[i + 1])
    BY <2>1 DEF Collecting, l
  <2> QED BY <1>1, <2>1, <2>2 DEF Waits
<1>8. \A i, j \in 1..Len(traces') :
        i < j /\ traces'[i].from = traces'[j].from => traces'[i].nr < traces'[j].nr
  <2> SUFFICES ASSUME NEW i \in 1..Len(traces'), NEW j \in 1..Len(traces'), i < j,
                      traces'[i].from = traces'[j].from
               PROVE  traces'[i].nr < traces'[j].nr
    OBVIOUS
  <2>1. /\ i + 1 \in 1..l /\ j + 1 \in 1..l /\ i + 1 < j + 1
        /\ traces'[i] = traces[i + 1] /\ traces'[j] = traces[j + 1]
    BY <1>2
  <2> QED BY <2>1 DEF Collecting, l
<1>9. \A i \in 1..Len(traces') : traces'[i].from = h.from => h.nr < traces'[i].nr
  BY <1>2, <1>5 DEF h
<1>10. ASSUME NEW d \in Conns, NEW n \in (Len(collected[d]) + 1)..Len(parsed[d])
       PROVE  (h.from = d /\ h.nr = n) \/ InQueue(d, n)'
  <2>1. InQueue(d, n)
    BY <1>1 DEF Collecting
  <2>2. PICK i \in 1..l : traces[i].from = d /\ traces[i].nr = n
    BY <2>1 DEF InQueue, l
  <2>3. CASE i = 1
    BY <2>2, <2>3 DEF h
  <2>4. CASE i # 1
    <3>1. i - 1 \in 1..Len(traces') /\ traces'[i - 1] = traces[i]
      BY <1>2, <2>4
    <3> QED BY <2>2, <3>1 DEF InQueue
  <2> QED BY <2>3, <2>4
<1>11. (task # Idle =>
         /\ Waits(task) /\ task.nr = Len(collected[task.from]) + 1
         /\ \A i \in 1..Len(traces) : traces[i].from = task.from => task.nr < traces[i].nr)'
  BY <1>1, <1>2, <1>6, <1>9 DEF Waits
<1>12. (\A d \in Conns : \A n \in (Len(collected[d]) + 1)..Len(parsed[d]) :
         (task # Idle /\ task.from = d /\ task.nr = n) \/ InQueue(d, n))'
  BY <1>1, <1>2, <1>4, <1>10
<1>13. (\A c \in Conns : Begins(collected[c], parsed[c]))'
  BY <1>1 DEF Collecting
<1> QED BY <1>7, <1>8, <1>11, <1>12, <1>13 DEF Collecting

(* A trace that is collected continues what was collected of its connection. *)
LEMMA CollectAdds ==
  ASSUME TypeOK, Collecting, Collect, collector' # "dead"
  PROVE  Collecting'
<1> DEFINE c == task.from
           t == task.trace
<1>1. /\ task # Idle /\ task' = Idle
      /\ collected' = [collected EXCEPT ![c] = Append(collected[c], t)]
      /\ UNCHANGED <<traces, parsed>>
  BY DEF Collect, Add
<1>2. task \in Entry /\ c \in Conns /\ t \in Trace /\ task.nr \in Nat
  BY <1>1, EntryParts DEF TypeOK
<1>3. \A d \in Conns : Len(parsed[d]) \in Nat /\ Len(collected[d]) \in Nat
  BY EntryParts
<1>4. task.nr = Len(collected[c]) + 1 /\ task.nr <= Len(parsed[c]) /\ t = parsed[c][task.nr]
  BY <1>1 DEF Collecting, Waits
<1> HIDE DEF c, t
<1>5. /\ Len(collected'[c]) = task.nr /\ collected'[c][task.nr] = t
      /\ \A i \in 1..Len(collected[c]) : collected'[c][i] = collected[c][i]
      /\ \A d \in Conns \ {c} : collected'[d] = collected[d]
  <2>1. collected[c] \in Seq(Trace) /\ collected'[c] = Append(collected[c], t)
    BY <1>1, <1>2 DEF TypeOK
  <2>2. \A d \in Conns \ {c} : collected'[d] = collected[d]
    BY <1>1 DEF TypeOK
  <2> QED BY <1>2, <1>4, <2>1, <2>2, AppendProperties
<1>6. \A d \in Conns : Begins(collected'[d], parsed[d])
  <2> SUFFICES ASSUME NEW d \in Conns PROVE Begins(collected'[d], parsed[d])
    OBVIOUS
  <2>1. Begins(collected[d], parsed[d])
    BY DEF Collecting
  <2>2. CASE d = c
    BY <1>2, <1>3, <1>4, <1>5, <2>1, <2>2 DEF Begins
  <2>3. CASE d # c
    BY <1>5, <2>1, <2>3
  <2> QED BY <2>2, <2>3
<1>7. \A i \in 1..Len(traces) : Waits(traces[i])'
  <2> SUFFICES ASSUME NEW i \in 1..Len(traces) PROVE Waits(traces[i])'
    OBVIOUS
  <2>1. Waits(traces[i]) /\ traces[i].from \in Conns /\ traces[i].nr \in Nat
    BY EntryParts DEF Collecting
  <2>2. traces[i].from = c => task.nr < traces[i].nr
    BY <1>1 DEF Collecting, c
  <2> QED BY <1>1, <1>5, <2>1, <2>2 DEF Waits
<1>8. ASSUME NEW d \in Conns, NEW n \in (Len(collected'[d]) + 1)..Len(parsed[d])
      PROVE  InQueue(d, n)
  <2>1. n \in (Len(collected[d]) + 1)..Len(parsed[d]) /\ (d = c => n # task.nr)
    BY <1>2, <1>3, <1>4, <1>5, <1>8
  <2> QED BY <2>1 DEF Collecting, c
<1>9. (\A d \in Conns : \A n \in (Len(collected[d]) + 1)..Len(parsed[d]) : InQueue(d, n))'
  BY <1>1, <1>8 DEF InQueue
<1>10. (\A d \in Conns : Begins(collected[d], parsed[d]))'
  BY <1>1, <1>6
<1>11. (\A i \in 1..Len(traces) : Waits(traces[i]))'
  BY <1>1, <1>7
<1> QED BY <1>1, <1>9, <1>10, <1>11 DEF Collecting

LEMMA CollectInit == Init => CollectInv
<1> SUFFICES ASSUME Init PROVE CollectInv
  OBVIOUS
<1> USE DEF Init, AgentInit
<1>1. WindingDown
  BY DEF WindingDown
<1>2. Len(<<>>) = 0
  BY EmptySeq
<1>3. \A c \in Conns : collected[c] = <<>> /\ parsed[c] = <<>>
  OBVIOUS
<1>4. traces = <<>> /\ task = Idle
  OBVIOUS
<1>5. Collecting
  BY <1>2, <1>3, <1>4 DEF Collecting, Begins
<1> QED BY <1>1, <1>5 DEF CollectInv

(* Every step keeps the order of collection. *)
LEMMA CollectStep ==
  ASSUME TypeOK, CollectInv, [Next]_vars
  PROVE  CollectInv'
<1>1. WindingDown'
  BY WindingDownStep DEF CollectInv
<1>2. ASSUME collector' # "dead" PROVE Collecting'
  <2>1. CASE UNCHANGED <<traces, task, parsed, collected, collector>>
    BY <1>2, <2>1 DEF CollectInv, Collecting, Waits, InQueue
  <2>2. CASE UNCHANGED agentVars
    BY <2>1, <2>2 DEF agentVars
  <2>3. CASE BootStep
    BY <2>1, <2>3 DEF BootStep, Bind, BindFails, Listen, Trap, Serve, Killed
  <2>4. CASE AcceptStep
    BY <2>1, <2>4 DEF AcceptStep, Note, Accept, Spawn
  <2>5. CASE ExitStep
    BY <2>1, <2>5 DEF ExitStep, HandleHup, JoinReaders, CloseQueue, Unlink, JoinCollector
  <2>6. ASSUME NEW c \in Conns, ReaderStep(c) PROVE Collecting'
    <3>1. CASE Read(c) \/ ParseFails(c) \/ ReadStop(c)
      BY <2>1, <3>1 DEF Read, ParseFails, ReadStop
    <3>2. CASE Parse(c)
      <4>1. collector # "dead"
        BY <1>2, <3>2 DEF Parse
      <4> QED BY <3>2, <4>1, CollectParse DEF CollectInv
    <3> QED BY <2>6, <3>1, <3>2 DEF ReaderStep
  <2>7. CASE CollectorPop
    BY <2>7, CollectPop DEF CollectInv, CollectorPop
  <2>8. CASE Collect
    BY <1>2, <2>8, CollectAdds DEF CollectInv, Collect
  <2>9. CASE Write
    BY <2>9 DEF Write, CollectInv, Collecting, Waits, InQueue
  <2> QED
    BY <2>2, <2>3, <2>4, <2>5, <2>6, <2>7, <2>8, <2>9
    DEF Next, AgentNext, CollectorStep, vars
<1> QED BY <1>1, <1>2 DEF CollectInv

LEMMA CollectInvariant == Spec => []CollectInv
  BY CollectInit, CollectStep, DeliveryTypes, PTL DEF Spec

(* When the output is written it holds all that the noted connections ever   *)
(* pushed unless a send failed, and no noted reader is left whose push would *)
(* find the queue closed.                                                    *)
THEOREM WrittenOutputIsComplete == Spec => []WrittenIsComplete
<1>1. TypeOK /\ InOrder /\ CollectInv => WrittenIsComplete
  <2> SUFFICES ASSUME TypeOK, InOrder, CollectInv PROVE WrittenIsComplete
    OBVIOUS
  <2>1. closed => \A c \in noted : reader[c] = "stopped"
    BY DEF CollectInv, WindingDown
  <2>2. ASSUME collector = "written", NEW c \in noted \ broken PROVE collected[c] = pushed[c]
    <3>1. c \in Conns /\ closed /\ traces = <<>> /\ task = Idle /\ Collecting
      BY <2>2 DEF CollectInv, WindingDown, TypeOK, AgentTypeOK
    <3>2. reader[c] = "stopped" /\ parsed[c] = pushed[c]
      BY <2>1, <2>2, <3>1 DEF InOrder, StopIsLast
    <3>3. Begins(collected[c], parsed[c]) /\ collected[c] \in Seq(Trace) /\ parsed[c] \in Seq(Trace)
      BY <3>1 DEF Collecting, TypeOK
    <3>4. Len(collected[c]) \in Nat /\ Len(parsed[c]) \in Nat /\ Len(traces) = 0
      BY <3>1, <3>3, EntryParts, EmptySeq
    <3>5. \A n : ~InQueue(c, n)
      BY <3>4 DEF InQueue
    <3>6. ~(Len(collected[c]) + 1 \in (Len(collected[c]) + 1)..Len(parsed[c]))
      BY <3>1, <3>5 DEF Collecting
    <3>7. Len(collected[c]) >= Len(parsed[c])
      BY <3>4, <3>6
    <3>8. collected[c] = parsed[c]
      BY <3>3, <3>7, BeginsWhole
    <3> QED BY <3>2, <3>8
  <2> QED BY <2>1, <2>2 DEF WrittenIsComplete
<1> QED BY <1>1, DeliveryTypes, DeliveryInOrder, CollectInvariant, PTL
------------------------------------------------------------------------------
(* The constants are announced before they are used *)

Announces(c, i, o) == i \in 1..Len(pushed[c]) /\ o \in pushed[c][i].updates

(* The owner of the i-th trace of c comes with that trace or one before it.  *)
OwnerComes(c, i) == \E j \in 1..i : Announces(c, j, pushed[c][i].owner)

(* It need not if the trace overtook it or another connection brought it.    *)
OwnerMayLack(c, i) ==
  pushed[c][i].early \/ \E d \in Conns \ {c} : AnnouncedOn(d, pushed[c][i].owner)

(* A process calls and explores what it knows.                               *)
Knows(p) ==
  /\ active[p] \subseteq known[p] /\ exploring[p] \subseteq known[p]
  /\ life[p] = "unborn" => active[p] = {} /\ exploring[p] = {}

(* What it knows, has explored and has no more to announce.                  *)
Told(p) == known[p] \ (exploring[p] \union pending[p])

(* What a process need not announce any more somebody has announced: itself  *)
(* or the one it was forked from.  The collector knows what it collected.    *)
Announcing ==
  /\ \A p \in Procs : Knows(p) /\ \A o \in Told(p) : \E c \in Conns : AnnouncedOn(c, o)
  /\ \A c \in Conns : \A i \in 1..Len(pushed[c]) : OwnerComes(c, i) \/ OwnerMayLack(c, i)
  /\ \A c \in Conns : \A i \in 1..Len(collected[c]) :
       collected[c][i].updates \ BadNames \subseteq results

AnnounceInv == Announcing /\ DeathsAreExplained

(* What was pushed stays pushed. *)
LEMMA AnnounceReturn ==
  ASSUME TypeOK, LifeInv, DeliveryInv, InOrder, CollectInv, AnnounceInv, UNCHANGED agentVars,
         NEW p \in Procs, NEW x \in Owners, Return(p, x)
  PROVE  AnnounceInv'
<1> DEFINE t == [owner |-> x, updates |-> pending[p], early |-> x \in exploring[p]]
           c == Current(p)
           n == Len(pushed[c]) + 1
<1> USE DEF Put
<1>1. /\ life[p] # "unborn" /\ Began(p) /\ flushing[p] = "no" /\ tp[p] = "on" /\ x \in active[p]
      /\ pushed' = [pushed EXCEPT ![c] = Append(pushed[c], t)]
      /\ pending' = [pending EXCEPT ![p] = {}]
      /\ active' = [active EXCEPT ![p] = active[p] \ {x}]
      /\ UNCHANGED <<life, known, exploring, collected, results, collector>>
  BY DEF Return, Running, Lives, Began, agentVars
<1>2. sock[p] = "open"
  BY <1>1 DEF LifeInv, Consistent
<1>3. c \in Conns
  BY <1>2, OpenConnection
<1>4. /\ t \in Trace /\ t.owner = x /\ t.updates = pending[p]
      /\ t.early <=> x \in exploring[p]
  <2>1. pending[p] \in SUBSET Owners /\ x \in Owners /\ (x \in exploring[p]) \in BOOLEAN
    BY DEF TypeOK, ClientTypeOK
  <2>2. t \in Trace
    BY <2>1 DEF Trace
  <2> QED BY <2>2
<1> HIDE DEF t, c
<1>5. /\ n \in Nat \ {0} /\ Len(pushed'[c]) = n /\ pushed'[c][n] = t /\ n = Len(pushed[c]) + 1
      /\ \A i \in 1..Len(pushed[c]) : pushed'[c][i] = pushed[c][i]
      /\ \A d \in Conns \ {c} : pushed'[d] = pushed[d]
  <2>1. pushed[c] \in Seq(Trace) /\ Len(pushed[c]) \in Nat /\ pushed'[c] = Append(pushed[c], t)
    BY <1>1, <1>3, EntryParts DEF TypeOK, ClientTypeOK
  <2>2. \A d \in Conns \ {c} : pushed'[d] = pushed[d]
    BY <1>1 DEF TypeOK, ClientTypeOK
  <2> QED BY <1>4, <2>1, <2>2, AppendProperties
<1> HIDE DEF n
<1>6. \A d \in Conns : Len(pushed[d]) \in Nat /\ Len(collected[d]) \in Nat
  BY EntryParts
<1>7. \A d \in Conns : \A i \in 1..Len(pushed[d]) :
        i \in 1..Len(pushed'[d]) /\ pushed'[d][i] = pushed[d][i]
  BY <1>5, <1>6
<1>8. \A d \in Conns : \A i, o : Announces(d, i, o) => Announces(d, i, o)'
  BY <1>7 DEF Announces
<1>9. \A d \in Conns : \A o : AnnouncedOn(d, o) => AnnouncedOn(d, o)'
  BY <1>7 DEF AnnouncedOn
<1>10. ASSUME NEW d \in Conns, d = c, NEW o \in pending[p] PROVE AnnouncedOn(d, o)'
  <2>1. n \in 1..Len(pushed'[d]) /\ o \in pushed'[d][n].updates
    BY <1>4, <1>5, <1>10
  <2> QED BY <2>1 DEF AnnouncedOn
<1>11. ASSUME NEW q \in Procs
       PROVE  Knows(q)' /\ \A o \in Told(q)' : \E d \in Conns : AnnouncedOn(d, o)'
  <2>1. Knows(q) /\ \A o \in Told(q) : \E d \in Conns : AnnouncedOn(d, o)
    BY DEF AnnounceInv, Announcing
  <2>2. active'[q] \subseteq active[q] /\ (q # p => pending'[q] = pending[q])
    BY <1>1 DEF TypeOK, ClientTypeOK
  <2>3. Knows(q)'
    BY <1>1, <2>1, <2>2 DEF Knows
  <2>4. ASSUME NEW o \in Told(q)' PROVE \E d \in Conns : AnnouncedOn(d, o)'
    <3>1. CASE o \in Told(q)
      BY <1>9, <2>1, <3>1
    <3>2. CASE o \notin Told(q)
      <4>1. q = p /\ o \in pending[p]
        <5>1. o \in known[q] /\ o \notin exploring[q] /\ o \notin pending'[q]
          BY <1>1 DEF Told
        <5>2. o \in pending[q]
          BY <3>2, <5>1 DEF Told
        <5> QED BY <2>2, <5>1, <5>2
      <4> QED BY <1>3, <1>10, <4>1
    <3> QED BY <3>1, <3>2
  <2> QED BY <2>3, <2>4
<1>12. ASSUME NEW d \in Conns, NEW i \in 1..Len(pushed'[d])
       PROVE  OwnerComes(d, i)' \/ OwnerMayLack(d, i)'
  <2>1. CASE i \in 1..Len(pushed[d])
    <3>1. pushed'[d][i] = pushed[d][i]
      BY <1>7, <2>1
    <3>2. CASE OwnerMayLack(d, i)
      BY <1>9, <3>1, <3>2 DEF OwnerMayLack
    <3>3. CASE OwnerComes(d, i)
      <4>1. PICK j \in 1..i : Announces(d, j, pushed[d][i].owner)
        BY <3>3 DEF OwnerComes
      <4>2. Announces(d, j, pushed[d][i].owner)'
        BY <1>8, <3>1, <4>1 DEF Announces
      <4> QED BY <3>1, <4>2 DEF OwnerComes, Announces
    <3> QED BY <2>1, <3>2, <3>3 DEF AnnounceInv, Announcing
  <2>2. CASE i \notin 1..Len(pushed[d])
    <3>1. d = c /\ i = n /\ pushed'[d][i] = t
      BY <1>5, <1>6, <1>12, <2>2
    <3>2. x \in known[p]
      BY <1>1 DEF AnnounceInv, Announcing, Knows
    <3>3. CASE x \in exploring[p]
      BY <1>4, <3>1, <3>3 DEF OwnerMayLack
    <3>4. CASE x \in pending[p]
      <4>1. n \in 1..i /\ x \in pushed'[d][n].updates /\ n \in 1..Len(pushed'[d])
        BY <1>4, <1>5, <3>1, <3>4
      <4> QED BY <1>4, <3>1, <4>1 DEF OwnerComes, Announces
    <3>5. CASE x \in Told(p)
      <4>1. PICK e \in Conns : AnnouncedOn(e, x)
        BY <3>5 DEF AnnounceInv, Announcing
      <4>2. PICK j \in 1..Len(pushed[e]) : x \in pushed[e][j].updates
        BY <4>1 DEF AnnouncedOn
      <4>3. CASE e = d
        <5>1. j \in 1..i
          BY <1>5, <1>6, <3>1, <4>2, <4>3
        <5>2. j \in 1..Len(pushed'[d]) /\ x \in pushed'[d][j].updates
          BY <1>7, <4>2, <4>3
        <5> QED BY <1>4, <3>1, <5>1, <5>2 DEF OwnerComes, Announces
      <4>4. CASE e # d
        BY <1>4, <1>9, <3>1, <4>1, <4>4 DEF OwnerMayLack
      <4> QED BY <4>3, <4>4
    <3> QED BY <3>2, <3>3, <3>4, <3>5 DEF Told
  <2> QED BY <2>1, <2>2
<1>13. (\A d \in Conns : \A i \in 1..Len(collected[d]) :
          collected[d][i].updates \ BadNames \subseteq results)'
  BY <1>1 DEF AnnounceInv, Announcing
<1>14. DeathsAreExplained'
  <2> SUFFICES ASSUME collector' = "dead"
               PROVE  \E d \in Conns : /\ Len(collected'[d]) < Len(pushed'[d])
                                       /\ Unknowable(d, pushed[d][Len(collected[d]) + 1])'
    BY DEF DeathsAreExplained
  <2>1. PICK d \in Conns : /\ Len(collected[d]) < Len(pushed[d])
                           /\ Unknowable(d, pushed[d][Len(collected[d]) + 1])
    BY <1>1 DEF AnnounceInv, DeathsAreExplained
  <2>2. Len(collected[d]) + 1 \in 1..Len(pushed[d])
    BY <1>6, <2>1
  <2>3. /\ pushed'[d][Len(collected'[d]) + 1] = pushed[d][Len(collected[d]) + 1]
        /\ Len(collected'[d]) + 1 \in 1..Len(pushed'[d])
    BY <1>1, <1>7, <2>2
  <2>4. Len(collected'[d]) < Len(pushed'[d])
    <3>1. Len(pushed'[d]) \in Nat
      BY <1>5, <1>6
    <3> QED BY <1>1, <1>6, <2>3, <3>1
  <2>5. Unknowable(d, pushed[d][Len(collected[d]) + 1])'
    BY <1>9, <2>1, <2>3 DEF Unknowable
  <2> QED BY <2>4, <2>5
<1>15. (\A q \in Procs : Knows(q) /\ \A o \in Told(q) : \E d \in Conns : AnnouncedOn(d, o))'
  BY <1>11
<1>16. (\A d \in Conns : \A i \in 1..Len(pushed[d]) : OwnerComes(d, i) \/ OwnerMayLack(d, i))'
  BY <1>12
<1> QED BY <1>13, <1>14, <1>15, <1>16 DEF AnnounceInv, Announcing

(* A step that neither pushes nor collects. *)
LEMMA AnnounceQuiet ==
  ASSUME AnnounceInv, UNCHANGED <<pushed, collected, results, collector>>,
         \A p \in Procs : Knows(p)' /\ \A o \in Told(p)' : \E q \in Procs : o \in Told(q)
  PROVE  AnnounceInv'
<1>1. \A c, i, o : Announces(c, i, o)' <=> Announces(c, i, o)
  BY DEF Announces
<1>2. \A c, i : OwnerComes(c, i)' <=> OwnerComes(c, i)
  BY DEF OwnerComes, Announces
<1>3. \A c, o : AnnouncedOn(c, o)' <=> AnnouncedOn(c, o)
  BY DEF AnnouncedOn
<1>4. \A c, i : OwnerMayLack(c, i)' <=> OwnerMayLack(c, i)
  BY <1>3 DEF OwnerMayLack
<1>5. \A p \in Procs : Knows(p)' /\ \A o \in Told(p)' : \E c \in Conns : AnnouncedOn(c, o)'
  BY <1>3 DEF AnnounceInv, Announcing
<1>6. (\A p \in Procs : Knows(p) /\ \A o \in Told(p) : \E c \in Conns : AnnouncedOn(c, o))'
  BY <1>5
<1>7. (\A c \in Conns : \A i \in 1..Len(pushed[c]) : OwnerComes(c, i) \/ OwnerMayLack(c, i))'
  BY <1>2, <1>4 DEF AnnounceInv, Announcing
<1>8. (\A c \in Conns : \A i \in 1..Len(collected[c]) :
         collected[c][i].updates \ BadNames \subseteq results)'
  BY DEF AnnounceInv, Announcing
<1>9. DeathsAreExplained'
  BY DEF AnnounceInv, DeathsAreExplained, Unknowable, AnnouncedOn
<1> QED BY <1>6, <1>7, <1>8, <1>9 DEF AnnounceInv, Announcing

(* The collector's lookup fails only if the owner may lack, or if its name   *)
(* is not the one it was registered under.                                   *)
LEMMA AnnounceCollect ==
  ASSUME TypeOK, InOrder, CollectInv, AnnounceInv, UNCHANGED clientVars, Collect
  PROVE  AnnounceInv'
<1> DEFINE c == task.from
           t == task.trace
           n == task.nr
<1> USE DEF clientVars
<1>1. /\ task # Idle /\ collector = "alive" /\ results' = results \union (t.updates \ BadNames)
      /\ \/ /\ collected' = [collected EXCEPT ![c] = Append(collected[c], t)] /\ collector' = collector
         \/ t.owner \notin results' /\ collected' = collected
  BY DEF Collect, Add
<1>2. task \in Entry /\ c \in Conns /\ t \in Trace /\ n \in Nat
  BY <1>1, EntryParts DEF TypeOK
<1>3. /\ n = Len(collected[c]) + 1 /\ n <= Len(parsed[c]) /\ t = parsed[c][n]
      /\ Begins(collected[c], parsed[c])
  BY <1>1, <1>2 DEF CollectInv, Collecting, Waits
<1>4. Len(parsed[c]) \in Nat /\ Len(collected[c]) \in Nat /\ Len(pushed[c]) \in Nat
  BY <1>2, EntryParts
<1>5. Len(parsed[c]) <= Len(pushed[c]) /\ \A i \in 1..Len(parsed[c]) : pushed[c][i] = parsed[c][i]
  <2> DEFINE w == parsed[c]
             u == pushed[c]
  <2>1. w \in Seq(Trace) /\ u \in Seq(Trace) /\ Len(w) <= Len(u)
        /\ SubSeq(w, 1, Len(w)) = SubSeq(u, 1, Len(w))
    BY <1>2 DEF InOrder, IsPrefix, TypeOK, ClientTypeOK
  <2>2. Len(w) \in Nat /\ Len(u) \in Nat
    BY <1>4
  <2> HIDE DEF w, u
  <2>3. \A i \in 1..Len(w) : SubSeq(u, 1, Len(w))[i] = u[i]
    <3>1. \A i \in 1..Len(w) : u[i] \in Trace
      BY <2>1, <2>2, ElementOfSeq
    <3> DEFINE m == Len(w)
    <3>2. m \in Nat /\ \A i \in 1..m : u[i] \in Trace
      BY <2>2, <3>1
    <3> HIDE DEF m
    <3>3. \A i \in 1..(m - 1 + 1) : SubSeq(u, 1, m)[i] = u[1 + i - 1]
      BY <3>2, SubSeqProperties
    <3> QED BY <3>2, <3>3 DEF m
  <2>4. SubSeq(w, 1, Len(w)) = w
    BY <2>1, SubSeqFull
  <2> QED BY <2>1, <2>3, <2>4 DEF w, u
<1> HIDE DEF c, t, n
<1>6. \A i \in 1..Len(collected[c]) : collected[c][i] = pushed[c][i]
  BY <1>3, <1>4, <1>5 DEF Begins
<1>7. n \in 1..Len(pushed[c]) /\ pushed[c][n] = t
  BY <1>3, <1>4, <1>5
<1>8. OwnerComes(c, n) /\ t.owner \notin BadNames => t.owner \in results'
  <2> SUFFICES ASSUME OwnerComes(c, n), t.owner \notin BadNames PROVE t.owner \in results'
    OBVIOUS
  <2>1. PICK j \in 1..n : t.owner \in pushed[c][j].updates
    BY <1>7 DEF OwnerComes, Announces
  <2>2. CASE j = n
    BY <1>1, <1>7, <2>1, <2>2
  <2>3. CASE j # n
    <3>1. j \in 1..Len(collected[c])
      BY <1>3, <1>4, <2>3
    <3>2. collected[c][j].updates \ BadNames \subseteq results
      BY <1>2, <3>1 DEF AnnounceInv, Announcing
    <3> QED BY <1>1, <1>6, <2>1, <3>1, <3>2
  <2> QED BY <2>2, <2>3
<1>9. DeathsAreExplained'
  <2>1. CASE collector' # "dead"
    BY <2>1 DEF DeathsAreExplained
  <2>2. CASE collector' = "dead"
    <3>1. t.owner \notin results' /\ collected' = collected
      BY <1>1, <2>2
    <3>2. OwnerMayLack(c, n) \/ t.owner \in BadNames
      BY <1>2, <1>7, <1>8, <3>1 DEF AnnounceInv, Announcing
    <3>3. Len(collected[c]) < Len(pushed[c])
      BY <1>3, <1>4, <1>7
    <3>4. Unknowable(c, t)
      BY <1>7, <3>2 DEF Unknowable, OwnerMayLack
    <3>5. pushed[c][Len(collected[c]) + 1] = t
      BY <1>3, <1>7
    <3>6. \E d \in Conns : /\ Len(collected[d]) < Len(pushed[d])
                           /\ Unknowable(d, pushed[d][Len(collected[d]) + 1])
      BY <1>2, <3>3, <3>4, <3>5
    <3>7. UNCHANGED <<collected, pushed>>
      BY <3>1
    <3> QED BY <3>6, <3>7 DEF DeathsAreExplained, Unknowable, AnnouncedOn
  <2> QED BY <2>1, <2>2
<1>10. ASSUME NEW d \in Conns, NEW i \in 1..Len(collected'[d])
       PROVE  collected'[d][i].updates \ BadNames \subseteq results'
  <2>1. CASE collected' = collected
    BY <1>1, <1>10, <2>1 DEF AnnounceInv, Announcing
  <2>2. CASE collected' = [collected EXCEPT ![c] = Append(collected[c], t)]
    <3>1. /\ Len(collected'[c]) = n /\ collected'[c][n] = t
          /\ \A k \in 1..Len(collected[c]) : collected'[c][k] = collected[c][k]
          /\ \A e \in Conns \ {c} : collected'[e] = collected[e]
      <4>1. collected[c] \in Seq(Trace) /\ collected'[c] = Append(collected[c], t)
            /\ \A e \in Conns \ {c} : collected'[e] = collected[e]
        BY <1>2, <2>2 DEF TypeOK
      <4> QED BY <1>2, <1>3, <4>1, AppendProperties
    <3>2. CASE d = c /\ i = n
      BY <1>1, <3>1, <3>2
    <3>3. CASE d = c /\ i # n
      <4>1. i \in 1..Len(collected[c])
        BY <1>3, <1>4, <1>10, <3>1, <3>3
      <4> QED BY <1>1, <1>2, <3>1, <3>3, <4>1 DEF AnnounceInv, Announcing
    <3>4. CASE d # c
      BY <1>1, <1>10, <3>1, <3>4 DEF AnnounceInv, Announcing
    <3> QED BY <3>2, <3>3, <3>4
  <2> QED BY <1>1, <2>1, <2>2
<1>11. (\A d \in Conns : \A i \in 1..Len(collected[d]) :
          collected[d][i].updates \ BadNames \subseteq results)'
  BY <1>10
<1>12. (\A p \in Procs : Knows(p) /\ \A o \in Told(p) : \E d \in Conns : AnnouncedOn(d, o))'
  BY DEF AnnounceInv, Announcing, Knows, Told, AnnouncedOn, calling
<1>13. (\A d \in Conns : \A i \in 1..Len(pushed[d]) : OwnerComes(d, i) \/ OwnerMayLack(d, i))'
  BY DEF AnnounceInv, Announcing, OwnerComes, Announces, OwnerMayLack, AnnouncedOn
<1> QED BY <1>9, <1>11, <1>12, <1>13 DEF AnnounceInv, Announcing

LEMMA AnnounceInit == Init => AnnounceInv
<1> SUFFICES ASSUME Init PROVE AnnounceInv
  OBVIOUS
<1> USE DEF Init, ClientInit, AgentInit
<1>1. \A c \in Conns : Len(pushed[c]) = 0 /\ Len(collected[c]) = 0
  BY EmptySeq
<1>2. \A p \in Procs : Knows(p) /\ Told(p) = {}
  BY DEF Knows, Told
<1>3. Announcing
  BY <1>1, <1>2 DEF Announcing
<1>4. DeathsAreExplained
  BY DEF DeathsAreExplained
<1> QED BY <1>3, <1>4 DEF AnnounceInv

(* A process explores before it calls, and what is forked inherits what is   *)
(* still to be announced.                                                    *)
LEMMA AnnounceStep ==
  ASSUME TypeOK, LifeInv, DeliveryInv, InOrder, CollectInv, AnnounceInv, [Next]_vars
  PROVE  AnnounceInv'
<1> USE DEF Put
<1>0. Leader \in Procs
  BY ClientAssumption
<1> DEFINE Rest == UNCHANGED <<pushed, collected, results, collector>>
<1>1. ASSUME Rest, UNCHANGED calling,
             \A p \in Procs : life'[p] = "unborn" => life[p] = "unborn"
      PROVE  AnnounceInv'
  <2>1. ASSUME NEW p \in Procs PROVE Knows(p)' /\ Told(p)' = Told(p)
    BY <1>1 DEF AnnounceInv, Announcing, Knows, Told, calling
  <2> QED BY <1>1, <2>1, AnnounceQuiet
<1>2. CASE UNCHANGED vars
  BY <1>1, <1>2 DEF vars, clientVars, agentVars
<1>3. CASE AgentNext /\ UNCHANGED clientVars
  <2>1. CASE Collect
    BY <1>3, <2>1, AnnounceCollect
  <2>2. CASE Write
    <3>1. DeathsAreExplained' /\ UNCHANGED <<pushed, collected, results, calling, life>>
      BY <1>3, <2>2 DEF Write, clientVars, DeathsAreExplained
    <3> QED
      BY <3>1 DEF AnnounceInv, Announcing, Knows, Told, OwnerComes, Announces, OwnerMayLack,
         AnnouncedOn, calling
  <2>3. ASSUME UNCHANGED <<collected, results, collector>> PROVE AnnounceInv'
    BY <1>1, <1>3, <2>3 DEF clientVars
  <2>4. CASE BootStep
    BY <2>3, <2>4 DEF BootStep, Bind, BindFails, Listen, Trap, Serve, Killed
  <2>5. CASE AcceptStep
    BY <2>3, <2>5 DEF AcceptStep, Note, Accept, Spawn
  <2>6. CASE ExitStep
    BY <2>3, <2>6 DEF ExitStep, HandleHup, JoinReaders, CloseQueue, Unlink, JoinCollector
  <2>7. ASSUME NEW c \in Conns, ReaderStep(c) PROVE AnnounceInv'
    BY <2>3, <2>7 DEF ReaderStep, Read, Parse, ParseFails, ReadStop
  <2>8. CASE CollectorPop
    BY <2>3, <2>8 DEF CollectorPop
  <2> QED BY <1>3, <2>1, <2>2, <2>4, <2>5, <2>6, <2>7, <2>8 DEF AgentNext, CollectorStep
<1>4. CASE ClientNext /\ UNCHANGED agentVars
  <2> USE <1>4
  <2>1. UNCHANGED <<collected, results, collector>>
    BY DEF agentVars
  <2>2. CASE PollFile \/ StopAgent \/ WaitAgent
    BY <1>0, <1>1, <2>1, <2>2 DEF PollFile, StopAgent, WaitAgent, LifeInv, LifeTypes
  <2>3. ASSUME NEW p \in Procs, Fork(p) PROVE AnnounceInv'
    <3>1. /\ life[p] = "unborn" /\ life' = [life EXCEPT ![p] = "run"] /\ exploring[Leader] = {}
          /\ known' = [known EXCEPT ![p] = known[Leader]]
          /\ pending' = [pending EXCEPT ![p] = pending[Leader]]
          /\ UNCHANGED <<active, exploring, pushed>>
      BY <2>3 DEF Fork
    <3>2. active[p] = {} /\ exploring[p] = {}
      BY <2>3, <3>1 DEF AnnounceInv, Announcing, Knows
    <3>3. ASSUME NEW q \in Procs
          PROVE  Knows(q)' /\ \A o \in Told(q)' : \E r \in Procs : o \in Told(r)
      <4>1. CASE q = p
        <5>1. /\ known'[q] = known[Leader] /\ pending'[q] = pending[Leader] /\ life'[q] = "run"
              /\ active'[q] = {} /\ exploring'[q] = {}
          BY <2>3, <3>1, <3>2, <4>1 DEF TypeOK, ClientTypeOK
        <5>2. Knows(q)'
          BY <5>1 DEF Knows
        <5>3. Told(q)' = Told(Leader)
          BY <3>1, <5>1 DEF Told
        <5> QED BY <1>0, <5>2, <5>3
      <4>2. CASE q # p
        <5>1. /\ known'[q] = known[q] /\ pending'[q] = pending[q] /\ life'[q] = life[q]
              /\ active'[q] = active[q] /\ exploring'[q] = exploring[q]
          BY <3>1, <4>2 DEF TypeOK, ClientTypeOK
        <5>2. Knows(q)' /\ Told(q)' = Told(q)
          BY <5>1 DEF AnnounceInv, Announcing, Knows, Told
        <5> QED BY <5>2
      <4> QED BY <4>1, <4>2
    <3> QED BY <2>1, <3>1, <3>3, AnnounceQuiet
  <2>4. ASSUME NEW p \in Procs, Exit(p) PROVE AnnounceInv'
    BY <1>1, <2>1, <2>4 DEF Exit, LifeInv, LifeTypes
  <2>5. ASSUME NEW p \in Procs, Crash(p) PROVE AnnounceInv'
    BY <1>1, <2>1, <2>5 DEF Crash, LifeInv, LifeTypes
  <2>6. ASSUME NEW p \in Procs, Resume(p) \/ Start(p) \/ StartFails(p) \/ SocketFails(p)
        PROVE  AnnounceInv'
    BY <1>1, <2>1, <2>6 DEF Resume, Start, StartFails, SocketFails
  <2>7. ASSUME NEW p \in Procs, Stop(p) \/ FlushBegin(p) PROVE AnnounceInv'
    <3>1. active' = [active EXCEPT ![p] = {}] /\ UNCHANGED <<life, known, exploring, pending, pushed>>
      BY <2>7 DEF Stop, FlushBegin
    <3>2. ASSUME NEW q \in Procs PROVE Knows(q)' /\ Told(q)' = Told(q)
      <4>1. active'[q] \subseteq active[q]
        BY <3>1 DEF TypeOK, ClientTypeOK
      <4> QED BY <3>1, <4>1 DEF AnnounceInv, Announcing, Knows, Told
    <3> QED BY <2>1, <3>1, <3>2, AnnounceQuiet
  <2>8. ASSUME NEW p \in Procs, FlushStep(p) \/ WorkerStep(p) PROVE AnnounceInv'
    BY <1>1, <2>1, <2>8
    DEF FlushStep, FlushJoin, FlushSendStop, FlushSendFails, FlushClose, WorkerStep, WorkerPop,
        WorkerSend, WorkerFails
  <2>9. ASSUME NEW p \in Procs, NEW o \in Owners, Explore(p, o) \/ Announce(p, o) \/ Call(p, o)
        PROVE  AnnounceInv'
    <3>1. UNCHANGED <<life, pushed>> /\ life[p] # "unborn"
      BY <2>9 DEF Explore, Announce, Call, Running, Lives
    <3>2. ASSUME NEW q \in Procs PROVE Knows(q)' /\ Told(q)' \subseteq Told(q)
      <4>1. Knows(q)
        BY DEF AnnounceInv, Announcing
      <4>2. CASE q # p
        <5>1. /\ known'[q] = known[q] /\ pending'[q] = pending[q]
              /\ active'[q] = active[q] /\ exploring'[q] = exploring[q]
          BY <2>9, <4>2 DEF Explore, Announce, Call, TypeOK, ClientTypeOK
        <5> QED BY <3>1, <4>1, <5>1 DEF Knows, Told
      <4>3. CASE q = p /\ Explore(p, o)
        <5>1. /\ known'[q] = known[q] \union {o} /\ exploring'[q] = exploring[q] \union {o}
              /\ active'[q] = active[q] /\ pending'[q] = pending[q]
          BY <4>3 DEF Explore, TypeOK, ClientTypeOK
        <5> QED BY <3>1, <4>1, <4>3, <5>1 DEF Knows, Told
      <4>4. CASE q = p /\ Announce(p, o)
        <5>1. /\ o \in exploring[q] /\ known'[q] = known[q] /\ exploring'[q] = exploring[q] \ {o}
              /\ active'[q] = active[q] \union {o} /\ pending'[q] = pending[q] \union {o}
          BY <4>4 DEF Announce, TypeOK, ClientTypeOK
        <5> QED BY <3>1, <4>1, <4>4, <5>1 DEF Knows, Told
      <4>5. CASE q = p /\ Call(p, o)
        <5>1. /\ o \in known[q] /\ known'[q] = known[q] /\ exploring'[q] = exploring[q]
              /\ active'[q] = active[q] \union {o} /\ pending'[q] = pending[q]
          BY <4>5 DEF Call, TypeOK, ClientTypeOK
        <5> QED BY <3>1, <4>1, <4>5, <5>1 DEF Knows, Told
      <4> QED BY <2>9, <4>2, <4>3, <4>4, <4>5
    <3> QED BY <2>1, <3>1, <3>2, AnnounceQuiet
  <2>10. ASSUME NEW p \in Procs, NEW o \in Owners, Return(p, o) PROVE AnnounceInv'
    BY <2>10, AnnounceReturn
  <2> QED
    BY <2>2, <2>3, <2>4, <2>5, <2>6, <2>7, <2>8, <2>9, <2>10 DEF ClientNext
<1> QED BY <1>2, <1>3, <1>4 DEF Next

LEMMA AnnounceInvariant == Spec => []AnnounceInv
  BY AnnounceInit, AnnounceStep, DeliveryTypes, LifeInvariant, DeliveryInvariant,
     DeliveryInOrder, CollectInvariant, PTL DEF Spec

(* The collector's thread dies only over a trace whose owner was announced   *)
(* on another connection, or was still being explored by another thread of   *)
(* its own process, or has a name that valid_name changes: everything else   *)
(* is announced in the trace or in one before it on the same connection.     *)
THEOREM EveryDeathIsExplained == Spec => []DeathsAreExplained
<1>1. AnnounceInv => DeathsAreExplained
  BY DEF AnnounceInv
<1> QED BY <1>1, AnnounceInvariant, PTL
==============================================================================
