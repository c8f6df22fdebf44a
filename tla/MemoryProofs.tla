---------------------------- MODULE MemoryProofs ----------------------------
(***************************************************************************)
(* What becomes of traces and trace points, for any number of fibers and   *)
(* blocks and any nesting of them.                                         *)
(*                                                                         *)
(* Trace points: that of a method's block never outlives its trace, which  *)
(* is on a stack or in the call event that made it (InUse), and not with   *)
(* the worker (TracesOK).  So what it points to is in use by nobody else,  *)
(* and no handler touches memory that is freed or that the worker reads    *)
(* but in the ways FaultCauses lists.                                      *)
(*                                                                         *)
(* Traces: each has exactly one owner; none is freed twice, and none leaks *)
(* but what a worker that failed has left (lost).  A trace of a method is  *)
(* in use, in the queue, with the worker or lost (RootsOK).  The trace of  *)
(* a block call is made under a name that no trace and no trace point has  *)
(* (HandlersOK), waits in at most one handler and is then linked from the  *)
(* trace it is named after (LinksOK, HeldOnce), so that what a free        *)
(* reaches is what was linked to from there alone.                         *)
(***************************************************************************)
EXTENDS BlockTracer, SequenceTheorems, FiniteSetTheorems, TLAPS

Frame == [id : Nat, block : Blocks \union {NoBlock}]
Methods == {<<n>> : n \in 1..calls}

(* Traces that a call event holds, and those that call_stacks or one holds.  *)
Entered == {entering[f].trace : f \in {g \in Fibers : entering[g] # None}}
InUse == onStack \union Entered

ProgramOK ==
  /\ calls \in 0..MaxCalls
  /\ frames \in [Fibers -> Seq(Frame)]
  /\ handler = [f \in Fibers |-> handler[f]]
  /\ entering \in [Fibers -> EntryType \union {None}]
  /\ \A f \in Fibers : handler[f] # None \/ vm = f => frames[f] # <<>>

TracesOK ==
  /\ InUse \subseteq Methods
  /\ InUse \subseteq DOMAIN heap
  /\ queue \in Seq(Methods)
  /\ writing \in Methods \union {None}
  /\ lost \subseteq Methods
  /\ writing \notin InUse
  /\ \A i \in DOMAIN queue : queue[i] \notin InUse
  /\ lost \intersect InUse = {}
  /\ onStack \intersect Entered = {}
  /\ \A f, g \in Fibers : entering[f] # None /\ entering[g] # None
                          /\ entering[f].trace = entering[g].trace => f = g

TpsOK == \A tp \in tps : tp.data \in Seq(Nat) /\ Len(tp.data) >= 1

Inv == ProgramOK /\ TracesOK /\ TpsOK /\ MethodTpsAlive

------------------------------------------------------------------------------
LEMMA InitInv == Init => Inv
<1> SUFFICES ASSUME Init PROVE Inv
  OBVIOUS
<1> USE BlockTracerAssumption DEF Init
<1>0. InUse = {} /\ Entered = {}
  BY DEF InUse, Entered
<1>1. ProgramOK
  BY DEF ProgramOK, Frame
<1>2. TracesOK
  BY <1>0 DEF TracesOK, Methods
<1>3. TpsOK /\ MethodTpsAlive
  BY DEF TpsOK, MethodTpsAlive
<1> QED
  BY <1>1, <1>2, <1>3 DEF Inv

(* What a step of each kind leaves as it is. *)
LEMMA NextCases ==
  ASSUME [Next]_vars
  PROVE  \/ \E f \in Fibers, b \in Blocks : MethodCall(f, b)
         \/ \E f \in Fibers : FinishMethodCall(f)
         \/ \E f \in Fibers : MethodReturn(f)
         \/ \E f \in Fibers, c \in Blocks, d \in Blocks \union {NoBlock} : BlockCall(f, c, d)
         \/ \E f \in Fibers : \E tp : HandleBlockCall(f, tp)
         \/ \E f \in Fibers : FinishBlockCall(f)
         \/ \E f \in Fibers : BlockReturn(f)
         \/ Start \/ Stop \/ Flush \/ WorkerTakes \/ WorkerFrees \/ WorkerFails
         \/ UNCHANGED vars
BY DEF Next

LEMMA Grows ==
  ASSUME NEW F \in [Fibers -> Seq(Frame)], NEW f \in Fibers, NEW x \in Frame
  PROVE  /\ [F EXCEPT ![f] = Append(@, x)] \in [Fibers -> Seq(Frame)]
         /\ [F EXCEPT ![f] = Append(@, x)][f] # <<>>
         /\ \A g \in Fibers : F[g] # <<>> => [F EXCEPT ![f] = Append(@, x)][g] # <<>>
<1>1. F[f] \in Seq(Frame)
  OBVIOUS
<1>2. Append(F[f], x) \in Seq(Frame) /\ Append(F[f], x) # <<>>
  BY <1>1
<1> QED
  BY <1>2

LEMMA OneOrMore ==
  ASSUME NEW s \in Seq(Nat), Len(s) >= 1
  PROVE  (Len(s) > 1 /\ Len(s) # 1) \/ (Len(s) = 1 /\ ~(Len(s) > 1))
<1>1. PICK n \in Nat : n = Len(s)
  OBVIOUS
<1>2. n >= 1
  BY <1>1
<1>3. (n > 1 /\ n # 1) \/ (n = 1 /\ ~(n > 1))
  BY <1>2
<1> QED
  BY <1>1, <1>3

LEMMA NewEntry ==
  ASSUME Inv, NEW f
  PROVE  LET e == [trace |-> <<calls + 1>>, found |-> f \in present, stale |-> FALSE]
         IN  e \in EntryType /\ e # None /\ e.trace = <<calls + 1>>
<1> DEFINE e == [trace |-> <<calls + 1>>, found |-> f \in present, stale |-> FALSE]
<1>1. <<calls + 1>> \in Seq(Nat)
  BY DEF Inv, ProgramOK
<1>2. e \in EntryType
  BY <1>1 DEF EntryType
<1>3. e # None
  BY <1>2, BlockTracerAssumption
<1> QED
  BY <1>2, <1>3

LEMMA MarkedEntry ==
  ASSUME NEW e \in EntryType
  PROVE  LET d == [e EXCEPT !.stale = TRUE]
         IN  d \in EntryType /\ d # None /\ d.trace = e.trace /\ e # None
<1>1. [e EXCEPT !.stale = TRUE] \in EntryType /\ [e EXCEPT !.stale = TRUE].trace = e.trace
  BY DEF EntryType
<1> QED
  BY <1>1, BlockTracerAssumption

LEMMA ProgramStep ==
  ASSUME Inv, [Next]_vars
  PROVE  ProgramOK'
<1> USE BlockTracerAssumption DEF Inv, ProgramOK, stacks
<1>1. ASSUME NEW f \in Fibers, NEW b \in Blocks, MethodCall(f, b)
      PROVE  ProgramOK'
  <2>1. [id |-> calls + 1, block |-> NoBlock] \in Frame
    BY DEF Frame
  <2>2. frames' \in [Fibers -> Seq(Frame)] /\ \A g \in Fibers : frames[g] # <<>> => frames'[g] # <<>>
    BY <1>1, <2>1, Grows DEF MethodCall
  <2>3. calls' \in 0..MaxCalls /\ UNCHANGED <<handler, vm>>
    BY <1>1 DEF MethodCall
  <2>4. [trace |-> <<calls + 1>>, found |-> f \in present, stale |-> FALSE] \in EntryType
    <3>1. <<calls + 1>> \in Seq(Nat)
      OBVIOUS
    <3> QED
      BY <3>1 DEF EntryType
  <2>5. entering' \in [Fibers -> EntryType \union {None}]
    BY <1>1, <2>4 DEF MethodCall
  <2> QED
    BY <2>2, <2>3, <2>5
<1>7. ASSUME NEW f \in Fibers, FinishMethodCall(f)
      PROVE  ProgramOK'
  BY <1>7 DEF FinishMethodCall, program
<1>2. ASSUME NEW f \in Fibers, MethodReturn(f) \/ BlockReturn(f)
      PROVE  ProgramOK'
  <2>1. frames' = [frames EXCEPT ![f] = Front(@)] /\ frames[f] # <<>> /\ Running(f)
        /\ UNCHANGED <<calls, handler, vm, entering>>
    BY <1>2 DEF MethodReturn, BlockReturn
  <2>2. Front(frames[f]) \in Seq(Frame)
    BY <2>1 DEF Front
  <2> QED
    BY <2>1, <2>2 DEF Running
<1>3. ASSUME NEW f \in Fibers, NEW c \in Blocks, NEW d \in Blocks \union {NoBlock}, BlockCall(f, c, d)
      PROVE  ProgramOK'
  <2>1. [id |-> calls + 1, block |-> c] \in Frame
    BY DEF Frame
  <2>2. frames' \in [Fibers -> Seq(Frame)] /\ frames'[f] # <<>>
        /\ \A g \in Fibers : frames[g] # <<>> => frames'[g] # <<>>
    BY <1>3, <2>1, Grows DEF BlockCall
  <2>4. \A g \in Fibers \ {f} : handler'[g] = handler[g]
    BY <1>3 DEF BlockCall
  <2>3. handler' = [g \in Fibers |-> handler'[g]] /\ (vm' = f \/ vm' = vm)
    BY <1>3 DEF BlockCall
  <2> QED
    BY <1>3, <2>2, <2>3, <2>4 DEF BlockCall, Running
<1>4. ASSUME NEW f \in Fibers, NEW tp, HandleBlockCall(f, tp)
      PROVE  ProgramOK'
  <2>1. vm = f /\ UNCHANGED <<frames, calls, entering>>
    BY <1>4 DEF HandleBlockCall, program
  <2>2. handler' = [g \in Fibers |-> handler'[g]]
        /\ \A g \in Fibers \ {f} : handler'[g] = handler[g]
    BY <1>4 DEF HandleBlockCall, PushInner, PushTrace, EnableNested, Done
  <2>3. vm' = f \/ vm' = None
    BY <1>4 DEF HandleBlockCall, PushInner, PushTrace, EnableNested, Done
  <2> QED
    BY <2>1, <2>2, <2>3
<1>5. ASSUME NEW f \in Fibers, FinishBlockCall(f)
      PROVE  ProgramOK'
  <2>1. handler[f] # None /\ UNCHANGED <<frames, calls, entering>>
    BY <1>5 DEF FinishBlockCall, program
  <2>2. handler' = [g \in Fibers |-> handler'[g]]
        /\ \A g \in Fibers \ {f} : handler'[g] = handler[g]
    BY <1>5 DEF FinishBlockCall, Done
  <2>3. vm' = f \/ vm' = None
    BY <1>5 DEF FinishBlockCall, Done
  <2> QED
    BY <2>1, <2>2, <2>3
<1>6. CASE Start \/ WorkerTakes \/ WorkerFrees \/ WorkerFails \/ UNCHANGED vars
  BY <1>6 DEF Start, WorkerTakes, WorkerFrees, WorkerFails, vars, program
<1>8. CASE Stop \/ Flush
  <2>1. ClearStacks /\ UNCHANGED <<frames, calls, handler, vm>>
    BY <1>8 DEF Stop, Flush, program
  <2>3. entering' = [f \in Fibers |-> entering'[f]]
    BY <2>1 DEF ClearStacks
  <2>4. ASSUME NEW f \in Fibers PROVE entering'[f] \in EntryType \union {None}
    <3>1. entering'[f] = IF entering[f] = None THEN None ELSE [entering[f] EXCEPT !.stale = TRUE]
      BY <2>1 DEF ClearStacks
    <3>2. entering[f] = None \/ entering[f] \in EntryType
      OBVIOUS
    <3> QED
      BY <3>1, <3>2, MarkedEntry
  <2> QED
    BY <2>1, <2>3, <2>4
<1> QED
  BY <1>1, <1>2, <1>3, <1>4, <1>5, <1>6, <1>7, <1>8, NextCases

------------------------------------------------------------------------------
(* A trace on a stack is not reached from another method's trace. *)
LEMMA ReachesItself ==
  ASSUME NEW m, NEW n, NEW ts, <<n>> \in Reached(ts), \A t \in ts : \E k \in Nat : t = <<k>>, n \in Nat
  PROVE  <<n>> \in ts
<1>1. PICK t \in ts : IsPrefix(t, <<n>>)
  BY DEF Reached
<1>2. PICK k \in Nat : t = <<k>>
  BY <1>1
<1>3. SubSeq(<<k>>, 1, 1) = SubSeq(<<n>>, 1, 1)
  BY <1>1, <1>2 DEF IsPrefix
<1>4. k = n
  BY <1>3
<1> QED
  BY <1>1, <1>2, <1>4

(* What becomes of the traces in call events. *)
LEMMA Enters ==
  ASSUME Inv, NEW f \in Fibers, NEW b, MethodCall(f, b), on
  PROVE  /\ Entered' = Entered \union {<<calls + 1>>}
         /\ InUse' = InUse \union {<<calls + 1>>}
<1> DEFINE new == <<calls + 1>>
           e == [trace |-> new, found |-> f \in present, stale |-> FALSE]
<1>1. entering' = [entering EXCEPT ![f] = e] /\ entering[f] = None /\ onStack' = onStack
  BY DEF MethodCall, Running
<1>2. e # None /\ e.trace = new
  BY NewEntry
<1> HIDE DEF e, new
<1>3. \A g \in Fibers : entering'[g] = IF g = f THEN e ELSE entering[g]
  BY <1>1 DEF Inv, ProgramOK
<1>4. ASSUME NEW t PROVE t \in Entered' <=> t = new \/ t \in Entered
  BY ONLY <1>1, <1>2, <1>3, f \in Fibers DEF Entered
<1>5. Entered' = Entered \union {new}
  BY <1>4
<1> QED
  BY <1>1, <1>5 DEF InUse, new

LEMMA EntersStack ==
  ASSUME Inv, NEW f \in Fibers, FinishMethodCall(f)
  PROVE  InUse' = InUse
<1>1. CASE UNCHANGED stacks
  BY <1>1 DEF stacks, InUse, Entered
<1>2. CASE ~UNCHANGED stacks
  <2> DEFINE t == entering[f].trace
  <2>1. entering[f] # None /\ entering' = [entering EXCEPT ![f] = None] /\ onStack' = onStack \union {t}
    BY <1>2 DEF FinishMethodCall
  <2>2. \A g \in Fibers : entering'[g] = IF g = f THEN None ELSE entering[g]
    BY <2>1 DEF Inv, ProgramOK
  <2>3. ASSUME NEW u PROVE u \in Entered \union {t} <=> u \in Entered' \union {t}
    BY ONLY <2>2 DEF Entered
  <2>4. t \in Entered
    BY <2>1 DEF Entered
  <2> QED
    BY <2>1, <2>3, <2>4 DEF InUse
<1> QED
  BY <1>1, <1>2

LEMMA Marks ==
  ASSUME Inv, ClearStacks, NEW f \in Fibers
  PROVE  /\ (entering'[f] # None) <=> (entering[f] # None)
         /\ entering[f] # None => entering'[f].trace = entering[f].trace
<1>1. entering'[f] = IF entering[f] = None THEN None ELSE [entering[f] EXCEPT !.stale = TRUE]
  BY DEF ClearStacks
<1> QED
  BY <1>1, MarkedEntry DEF Inv, ProgramOK

LEMMA Stopped ==
  ASSUME Inv, Stop \/ Flush
  PROVE  Entered' = Entered /\ InUse' = Entered /\ onStack' = {}
<1>1. onStack' = {} /\ ClearStacks
  BY DEF Stop, Flush
<1>2. \A f \in Fibers : /\ (entering'[f] # None) <=> (entering[f] # None)
                       /\ entering[f] # None => entering'[f].trace = entering[f].trace
  BY <1>1, Marks
<1>3. ASSUME NEW t PROVE t \in Entered' <=> t \in Entered
  <2>1. t \in Entered' <=> \E f \in Fibers : entering'[f] # None /\ entering'[f].trace = t
    BY DEF Entered
  <2>2. t \in Entered <=> \E f \in Fibers : entering[f] # None /\ entering[f].trace = t
    BY DEF Entered
  <2>3. ASSUME NEW f \in Fibers
        PROVE  entering'[f] # None /\ entering'[f].trace = t <=> entering[f] # None /\ entering[f].trace = t
    <3>1. /\ (entering'[f] # None) <=> (entering[f] # None)
          /\ entering[f] # None => entering'[f].trace = entering[f].trace
      BY ONLY <1>1, Inv, Marks, f \in Fibers
    <3> QED
      BY <3>1
  <2> QED
    BY <2>1, <2>2, <2>3
<1>4. Entered' = Entered
  BY <1>3
<1> QED
  BY <1>1, <1>4 DEF InUse

LEMMA NoneIsNoMethod == None \notin Methods
<1>1. \A n \in 1..calls : <<n>> \in Seq(Nat)
  OBVIOUS
<1>2. Methods \subseteq Seq(Nat)
  BY <1>1 DEF Methods
<1> QED
  BY <1>2, BlockTracerAssumption

LEMMA TracesStep ==
  ASSUME Inv, [Next]_vars
  PROVE  TracesOK'
<1> USE BlockTracerAssumption DEF Inv, ProgramOK, TracesOK
<1>0. calls' = calls => Methods' = Methods
  BY DEF Methods
<1>1. ASSUME NEW f \in Fibers, NEW b \in Blocks, MethodCall(f, b)
      PROVE  TracesOK'
  <2> DEFINE new == <<calls + 1>>
  <2>1. calls' = calls + 1 /\ Methods \subseteq Methods' /\ new \in Methods'
    BY <1>1 DEF MethodCall, Methods
  <2>2. new \notin Methods /\ new # None
    <3>1. new \in Seq(Nat)
      OBVIOUS
    <3>2. \A n \in 1..calls : n # calls + 1
      OBVIOUS
    <3>3. new \notin Methods
      BY <3>2 DEF Methods
    <3> QED
      BY <3>1, <3>3
  <2>3. queue \in Seq(Methods') /\ \A i \in DOMAIN queue : queue[i] \in Methods
    BY <2>1
  <2>5. UNCHANGED <<queue, writing, lost, onStack>>
    BY <1>1 DEF MethodCall, worker
  <2>6. CASE on
    <3> DEFINE e == [trace |-> new, found |-> f \in present, stale |-> FALSE]
    <3>1. heap' = With(heap, new, Trace(b, FALSE)) /\ entering' = [entering EXCEPT ![f] = e]
      BY <1>1, <2>6 DEF MethodCall
    <3>2. DOMAIN heap' = DOMAIN heap \union {new}
      BY <3>1 DEF With
    <3>3. entering[f] = None
      BY <1>1 DEF MethodCall, Running
    <3>4. e # None /\ e.trace = new
      BY NewEntry
    <3> HIDE DEF e, new
    <3>5. \A g \in Fibers : entering'[g] = IF g = f THEN e ELSE entering[g]
      BY <3>1
    <3>6. Entered' = Entered \union {new} /\ InUse' = InUse \union {new}
      BY <1>1, <2>6, Enters DEF new
    <3>8. \A g \in Fibers : entering[g] # None => entering[g].trace \in Methods
      BY DEF InUse, Entered
    <3>9. new \notin InUse /\ new \notin onStack
      BY <2>2 DEF InUse
    <3>10. \A g, h \in Fibers : entering'[g] # None /\ entering'[h] # None
                             /\ entering'[g].trace = entering'[h].trace => g = h
      BY <2>2, <3>4, <3>5, <3>8
    <3> QED
      BY <2>1, <2>2, <2>3, <2>5, <3>2, <3>6, <3>9, <3>10
  <2>7. CASE ~on
    <3>1. UNCHANGED <<heap, entering, onStack, writing, queue, lost>>
      BY <1>1, <2>5, <2>7 DEF MethodCall
    <3>2. UNCHANGED <<Entered, InUse>>
      BY <3>1 DEF Entered, InUse
    <3> QED
      BY <2>1, <2>3, <3>1, <3>2
  <2> QED
    BY <2>6, <2>7
<1>2. ASSUME NEW f \in Fibers, MethodReturn(f)
      PROVE  TracesOK'
  <2> DEFINE t == <<Last(frames[f]).id>>
  <2>1. UNCHANGED <<heap, writing, calls, lost, entering, Entered>>
    BY <1>2 DEF MethodReturn, Entered
  <2>2. CASE on /\ t \in onStack
    <3>1. onStack' = onStack \ {t} /\ queue' = Append(queue, t)
      BY <1>2, <2>2 DEF MethodReturn
    <3>4. t \in InUse /\ t \in Methods
      BY <2>2 DEF InUse
    <3> HIDE DEF t
    <3>2. queue' \in Seq(Methods) /\ \A i \in DOMAIN queue' : queue'[i] = t \/ (i \in DOMAIN queue /\ queue'[i] = queue[i])
      BY <2>2, <3>1, <3>4
    <3>3. InUse' = InUse \ {t}
      BY <2>1, <2>2, <3>1 DEF InUse
    <3> QED
      BY <1>0, <2>1, <3>1, <3>2, <3>3
  <2>3. CASE ~(on /\ t \in onStack)
    <3>1. UNCHANGED <<onStack, queue, InUse>>
      BY <1>2, <2>1, <2>3 DEF MethodReturn, InUse
    <3> QED
      BY <1>0, <2>1, <3>1
  <2> QED
    BY <2>2, <2>3
<1>11. ASSUME NEW f \in Fibers, FinishMethodCall(f)
      PROVE  TracesOK'
  <2>1. UNCHANGED <<queue, writing, lost, calls>> /\ DOMAIN heap' = DOMAIN heap
    BY <1>11 DEF FinishMethodCall, worker, program
  <2>2. CASE UNCHANGED stacks
    <3>1. UNCHANGED <<onStack, entering, Entered, InUse>>
      BY <2>2 DEF stacks, Entered, InUse
    <3> QED
      BY <1>0, <2>1, <3>1
  <2>3. CASE ~UNCHANGED stacks
    <3> DEFINE t == entering[f].trace
    <3>1. entering[f] # None /\ entering' = [entering EXCEPT ![f] = None] /\ onStack' = onStack \union {t}
      BY <1>11, <2>3 DEF FinishMethodCall
    <3>2. \A g \in Fibers : entering'[g] = IF g = f THEN None ELSE entering[g]
      BY <3>1
    <3>3. Entered' \subseteq Entered \ {t}
      BY <3>1, <3>2 DEF Entered
    <3>4. InUse' = InUse
      BY <1>11, EntersStack
    <3>5. \A g, h \in Fibers : entering'[g] # None /\ entering'[h] # None
                             /\ entering'[g].trace = entering'[h].trace => g = h
      BY <3>2
    <3> QED
      BY <1>0, <2>1, <3>1, <3>3, <3>4, <3>5
  <2> QED
    BY <2>2, <2>3
<1>3. ASSUME NEW f \in Fibers, NEW c \in Blocks, NEW d \in Blocks \union {NoBlock}, BlockCall(f, c, d)
      PROVE  TracesOK'
  <2>1. Methods \subseteq Methods' /\ UNCHANGED <<heap, queue, writing, lost, onStack, entering>>
    BY <1>3 DEF BlockCall, Methods, worker, stacks
  <2>3. UNCHANGED <<Entered, InUse>>
    BY <2>1 DEF Entered, InUse
  <2>2. queue \in Seq(Methods')
    BY <2>1
  <2> QED
    BY <2>1, <2>2, <2>3
<1>4. ASSUME NEW f \in Fibers, NEW tp, HandleBlockCall(f, tp)
      PROVE  TracesOK'
  <2>1. UNCHANGED <<onStack, entering, queue, writing, lost, calls>>
    BY <1>4 DEF HandleBlockCall, worker, program, stacks
  <2>3. UNCHANGED <<Entered, InUse>>
    BY <2>1 DEF Entered, InUse
  <2>2. DOMAIN heap \subseteq DOMAIN heap'
    <3>1. CASE PushInner(f, tp) \/ UNCHANGED heap
      BY <3>1 DEF PushInner
    <3>2. CASE PushTrace(f, tp)
      <4> DEFINE t == tp.data
                 new == Append(t, Last(frames[f]).id)
                 h == [heap EXCEPT ![t] = Reported([heap[t] EXCEPT !.stack = <<new>>], f)]
      <4>1. heap' = With(h, new, Trace(NoBlock, FALSE))
        BY <3>2 DEF PushTrace
      <4>2. DOMAIN h = DOMAIN heap
        OBVIOUS
      <4> HIDE DEF h, new
      <4>3. DOMAIN heap' = DOMAIN h \union {new}
        BY <4>1 DEF With
      <4> QED
        BY <4>2, <4>3
    <3>3. CASE EnableNested(f, tp)
      <4> DEFINE t == tp.data
                 new == Append(t, Last(frames[f]).id)
                 h == [heap EXCEPT ![t] = Reported(heap[t], f)]
      <4>1. heap' = With(h, new, Trace(handler[f].takes, FALSE))
        BY <3>3 DEF EnableNested
      <4>2. DOMAIN h = DOMAIN heap
        OBVIOUS
      <4> HIDE DEF h, new
      <4>3. DOMAIN heap' = DOMAIN h \union {new}
        BY <4>1 DEF With
      <4> QED
        BY <4>2, <4>3
    <3> QED
      BY <1>4, <3>1, <3>2, <3>3 DEF HandleBlockCall
  <2> QED
    BY <1>0, <2>1, <2>2, <2>3
<1>5. ASSUME NEW f \in Fibers, FinishBlockCall(f) \/ BlockReturn(f)
      PROVE  TracesOK'
  <2>1. UNCHANGED <<onStack, entering, queue, writing, lost, calls>>
    BY <1>5 DEF FinishBlockCall, BlockReturn, worker, program, stacks
  <2>2. DOMAIN heap \subseteq DOMAIN heap'
    BY <1>5 DEF FinishBlockCall, BlockReturn
  <2>3. UNCHANGED <<Entered, InUse>>
    BY <2>1 DEF Entered, InUse
  <2> QED
    BY <1>0, <2>1, <2>2, <2>3
<1>6. CASE Stop \/ Flush
  <2>1. onStack' = {} /\ heap' = Without(heap, Reached(onStack)) /\ UNCHANGED <<writing, calls>>
        /\ ClearStacks
    BY <1>6 DEF Stop, Flush, worker, program
  <2>2. \A f \in Fibers : /\ (entering'[f] # None) <=> (entering[f] # None)
                         /\ entering[f] # None => entering'[f].trace = entering[f].trace
    BY <2>1, Marks
  <2>3. Entered' = Entered /\ InUse' = Entered
    BY <1>6, Stopped
  <2>4. ASSUME NEW t \in Entered PROVE t \notin Reached(onStack)
    <3>1. PICK n \in Nat : t = <<n>>
      BY <2>4 DEF Methods, InUse
    <3>2. \A x \in onStack : \E k \in Nat : x = <<k>>
      BY DEF Methods, InUse
    <3>3. t \in Reached(onStack) => t \in onStack
      BY <3>1, <3>2, ReachesItself
    <3> QED
      BY <2>4, <3>3
  <2>5. Entered \subseteq DOMAIN heap'
    BY <2>1, <2>4 DEF Without, InUse
  <2>6. \A f, g \in Fibers : entering'[f] # None /\ entering'[g] # None
                          /\ entering'[f].trace = entering'[g].trace => f = g
    <3>1. \A f, g \in Fibers : entering[f] # None /\ entering[g] # None
                            /\ entering[f].trace = entering[g].trace => f = g
      BY DEF TracesOK
    <3>2. ASSUME NEW f \in Fibers, NEW g \in Fibers, entering'[f] # None, entering'[g] # None,
                 entering'[f].trace = entering'[g].trace
          PROVE  f = g
      <4>f. /\ (entering'[f] # None) <=> (entering[f] # None)
            /\ entering[f] # None => entering'[f].trace = entering[f].trace
        BY <2>1, Marks
      <4>g. /\ (entering'[g] # None) <=> (entering[g] # None)
            /\ entering[g] # None => entering'[g].trace = entering[g].trace
        BY <2>1, Marks
      <4>1. entering[f] # None /\ entering[g] # None /\ entering[f].trace = entering[g].trace
        BY <4>f, <4>g, <3>2
      <4> QED
        BY <3>1, <4>1
    <3> QED
      BY <3>2
  <2>7. Entered \subseteq InUse
    BY DEF InUse
  <2>8. CASE Stop
    <3>1. UNCHANGED <<queue, lost>>
      BY <2>8 DEF Stop, worker
    <3> QED
      BY <1>0, <2>1, <2>3, <2>5, <2>6, <2>7, <3>1
  <2>9. CASE Flush
    <3>1. queue' = <<>> /\ lost' = lost \union Range(queue)
      BY <2>9 DEF Flush
    <3>2. \A x \in Range(queue) : x \in Methods /\ x \notin InUse
      BY DEF Range
    <3> QED
      BY <1>0, <2>1, <2>3, <2>5, <2>6, <2>7, <3>1, <3>2
  <2> QED
    BY <1>6, <2>8, <2>9
<1>7. CASE WorkerTakes
  <2>1. Head(queue) \in Methods /\ Head(queue) \notin InUse /\ Tail(queue) \in Seq(Methods)
    BY <1>7 DEF WorkerTakes
  <2>2. \A i \in DOMAIN Tail(queue) : Tail(queue)[i] \notin InUse
    BY <1>7 DEF WorkerTakes
  <2>3. UNCHANGED <<onStack, entering, Entered, InUse, heap, lost, calls>>
    BY <1>7 DEF WorkerTakes, stacks, Entered, InUse, program
  <2> QED
    BY <1>0, <1>7, <2>1, <2>2, <2>3 DEF WorkerTakes
<1>8. CASE WorkerFrees
  <2>1. writing \in Methods /\ writing \notin InUse
    BY <1>8 DEF WorkerFrees
  <2>2. ASSUME NEW t \in InUse PROVE t \notin Reached({writing})
    <3>1. PICK n \in Nat : t = <<n>>
      BY <2>2 DEF Methods
    <3>2. \A x \in {writing} : \E k \in Nat : x = <<k>>
      BY <2>1 DEF Methods
    <3>3. t \in Reached({writing}) => t \in {writing}
      BY <3>1, <3>2, ReachesItself
    <3> QED
      BY <2>1, <2>2, <3>3
  <2>3. InUse \subseteq DOMAIN heap'
    BY <1>8, <2>2 DEF WorkerFrees, Without
  <2>4. None \notin InUse
    BY NoneIsNoMethod
  <2>5. UNCHANGED <<onStack, entering, Entered, InUse, queue, lost, calls>> /\ writing' = None
    BY <1>8 DEF WorkerFrees, program, stacks, Entered, InUse
  <2> QED
    BY <1>0, <2>3, <2>4, <2>5
<1>10. CASE WorkerFails
  <2>1. writing \in Methods /\ writing \notin InUse
    BY <1>10 DEF WorkerFails
  <2>2. UNCHANGED <<onStack, entering, Entered, InUse, queue, heap, calls>> /\ writing' = None
        /\ lost' = lost \union {writing}
    BY <1>10 DEF WorkerFails, program, stacks, Entered, InUse
  <2>3. None \notin InUse
    BY NoneIsNoMethod
  <2> QED
    BY <1>0, <2>1, <2>2, <2>3
<1>9. CASE Start \/ UNCHANGED vars
  <2>1. UNCHANGED <<onStack, entering, Entered, InUse, queue, heap, writing, lost, calls>>
    BY <1>9 DEF Start, vars, worker, program, stacks, Entered, InUse
  <2> QED
    BY <1>0, <2>1
<1> QED
  BY <1>1, <1>2, <1>3, <1>4, <1>5, <1>6, <1>7, <1>8, <1>9, <1>10, <1>11, NextCases

------------------------------------------------------------------------------
(* The trace points a step may enable: that of a method's block with its     *)
(* trace in a call event, and that of a nested block.                        *)
LEMMA NestedEnabled ==
  ASSUME Inv, NEW f \in Fibers, NEW tp \in tps, vm = f, EnableNested(f, tp)
  PROVE  /\ handler' = [handler EXCEPT ![f].new = Append(tp.data, Last(frames[f]).id)]
         /\ Append(tp.data, Last(frames[f]).id) \in Seq(Nat)
         /\ \/ UNCHANGED tps
            \/ \E x : /\ tps' = tps \union {x}
                      /\ x.data \in Seq(Nat) /\ Len(x.data) >= 1 /\ Len(x.data) > 1
<1> DEFINE i == Last(frames[f]).id
           new == Append(tp.data, i)
           x == [data |-> new, target |-> handler[f].takes]
<1>1. tp.data \in Seq(Nat) /\ Len(tp.data) >= 1
  BY DEF Inv, TpsOK
<1>2. i \in Nat
  <2>1. frames[f] \in Seq(Frame) /\ frames[f] # <<>>
    BY DEF Inv, ProgramOK
  <2>2. frames[f][Len(frames[f])] \in Frame
    BY <2>1
  <2> QED
    BY <2>2 DEF Last, Frame
<1>3. UNCHANGED tps \/ tps' = tps \union {x}
  BY DEF EnableNested
<1>6. handler' = [handler EXCEPT ![f].new = new]
  BY DEF EnableNested
<1> HIDE DEF i
<1>4. new \in Seq(Nat) /\ Len(new) >= 1 /\ Len(new) > 1
  BY <1>1, <1>2
<1>5. x.data = new
  OBVIOUS
<1> HIDE DEF x
<1>7. UNCHANGED tps
      \/ \E y : /\ tps' = tps \union {y}
               /\ y.data \in Seq(Nat) /\ Len(y.data) >= 1 /\ Len(y.data) > 1
  <2> HIDE DEF new
  <2> QED
    BY <1>3, <1>4, <1>5
<1> QED
  BY <1>4, <1>6, <1>7 DEF i

LEMMA HandlerTps ==
  ASSUME Inv, NEW f \in Fibers, NEW tp, HandleBlockCall(f, tp)
  PROVE  \/ UNCHANGED tps
         \/ \E x : /\ tps' = tps \union {x}
                   /\ x.data \in Seq(Nat) /\ Len(x.data) >= 1 /\ Len(x.data) > 1
<1>1. CASE EnableNested(f, tp) /\ tp \in tps
  BY <1>1, NestedEnabled DEF HandleBlockCall
<1>2. CASE ~(EnableNested(f, tp) /\ tp \in tps)
  BY <1>2 DEF HandleBlockCall, PushInner, PushTrace
<1> QED
  BY <1>1, <1>2

(* The trace point of a method's block has its trace in use. *)
LEMMA AliveInUse == MethodTpsAlive <=> \A tp \in tps : Len(tp.data) = 1 => tp.data \in InUse
BY DEF MethodTpsAlive, InUse, Entered

LEMMA AliveInUseNext == MethodTpsAlive' <=> \A tp \in tps' : Len(tp.data) = 1 => tp.data \in InUse'
BY DEF MethodTpsAlive, InUse, Entered

LEMMA TpsStep ==
  ASSUME Inv, [Next]_vars
  PROVE  TpsOK' /\ MethodTpsAlive'
<1> SUFFICES TpsOK' /\ \A tp \in tps' : Len(tp.data) = 1 => tp.data \in InUse'
  BY AliveInUseNext
<1> DEFINE Alive == \A tp \in tps' : Len(tp.data) = 1 => tp.data \in InUse'
<1>0. \A tp \in tps : Len(tp.data) = 1 => tp.data \in InUse
  BY AliveInUse DEF Inv
<1> USE BlockTracerAssumption DEF Inv, TpsOK
<1>1. ASSUME NEW f \in Fibers, NEW b \in Blocks, MethodCall(f, b)
      PROVE  TpsOK' /\ Alive
  <2>1. <<calls + 1>> \in Seq(Nat) /\ Len(<<calls + 1>>) = 1
    BY DEF ProgramOK
  <2>3. CASE on
    <3> DEFINE new == <<calls + 1>>
               x == [data |-> new, target |-> b]
    <3>1. tps' = tps \union {x} /\ x.data = new
      BY <1>1, <2>3 DEF MethodCall
    <3>4. InUse \subseteq InUse' /\ new \in InUse'
      BY <1>1, <2>3, Enters
    <3> HIDE DEF x, new
    <3>5. x.data \in Seq(Nat) /\ Len(x.data) >= 1 /\ x.data \in InUse'
      BY <2>1, <3>1, <3>4 DEF new
    <3> QED
      BY <1>0, <3>1, <3>4, <3>5
  <2>4. CASE ~on
    <3>1. UNCHANGED <<tps, onStack, entering>>
      BY <1>1, <2>4 DEF MethodCall
    <3> QED
      BY <1>0, <3>1 DEF InUse, Entered
  <2> QED
    BY <2>3, <2>4
<1>2. ASSUME NEW f \in Fibers, MethodReturn(f)
      PROVE  TpsOK' /\ Alive
  <2>1. UNCHANGED Entered
    BY <1>2 DEF MethodReturn, Entered
  <2> QED
    BY <1>0, <1>2, <2>1 DEF MethodReturn, Of, InUse
<1>3. CASE Stop \/ Flush
  <2>1. tps' = tps \ Of(onStack)
    BY <1>3 DEF Stop, Flush
  <2> QED
    BY <1>0, <1>3, <2>1, Stopped DEF InUse, Of
<1>6. ASSUME NEW f \in Fibers, FinishMethodCall(f)
      PROVE  TpsOK' /\ Alive
  <2>1. tps' = tps
    BY <1>6 DEF FinishMethodCall
  <2> QED
    BY <1>0, <1>6, <2>1, EntersStack
<1>4. ASSUME NEW f \in Fibers, NEW tp, HandleBlockCall(f, tp)
      PROVE  TpsOK' /\ Alive
  <2>1. InUse' = InUse
    BY <1>4 DEF HandleBlockCall, stacks, InUse, Entered
  <2>2. CASE UNCHANGED tps
    BY <1>0, <2>1, <2>2
  <2>3. ASSUME NEW x, tps' = tps \union {x}, x.data \in Seq(Nat), Len(x.data) >= 1, Len(x.data) > 1
        PROVE  TpsOK' /\ Alive
    <3>1. Len(x.data) >= 1 /\ Len(x.data) # 1
      BY <2>3, OneOrMore
    <3> QED
      BY <1>0, <2>1, <2>3, <3>1
  <2> QED
    BY <1>4, <2>2, <2>3, HandlerTps
<1>5. ASSUME UNCHANGED <<tps, stacks>>
      PROVE  TpsOK' /\ Alive
  BY <1>0, <1>5 DEF stacks, InUse, Entered
<1> QED
  BY <1>1, <1>2, <1>3, <1>4, <1>5, <1>6, NextCases
     DEF BlockCall, FinishBlockCall, BlockReturn, Start, WorkerTakes, WorkerFrees, WorkerFails, vars

------------------------------------------------------------------------------
(* A trace in use is allocated, and the worker has nothing to do with it.    *)
LEMMA InUseIsValid ==
  ASSUME Inv, NEW t \in InUse
  PROVE  Valid(t)
<1>1. PICK n \in 1..calls : t = <<n>>
  BY DEF Inv, TracesOK, Methods
<1>2. Root(t) = t
  BY <1>1 DEF Root
<1> QED
  BY <1>2 DEF Inv, TracesOK, Valid

LEMMA StackIsValid ==
  ASSUME Inv, NEW t \in onStack
  PROVE  Valid(t)
BY InUseIsValid DEF InUse

(* So only a nested trace point can point to other memory. *)
LEMMA InvalidIsNested ==
  ASSUME Inv, NEW tp \in tps, ~Valid(tp.data)
  PROVE  Len(tp.data) > 1
<1>1. Len(tp.data) # 1
  BY AliveInUse, InUseIsValid DEF Inv
<1> QED
  BY <1>1, OneOrMore DEF Inv, TpsOK

------------------------------------------------------------------------------
LEMMA InvInductive == Spec => []Inv
<1>1. Inv /\ [Next]_vars => Inv'
  BY ProgramStep, TracesStep, TpsStep DEF Inv
<1> QED
  BY InitInv, <1>1, PTL DEF Spec

(* Return and stop disable the trace point of a method's block before its    *)
(* trace is given away or freed (racer.cc:689, 923); while the trace is on   *)
(* no stack, the call event that made it holds it (racer.cc:474 to 641).     *)
THEOREM MethodTpsStayAlive == Spec => []MethodTpsAlive
<1>1. Inv => MethodTpsAlive
  BY DEF Inv
<1> QED
  BY <1>1, InvInductive, PTL

------------------------------------------------------------------------------
(* Traces, and what frees them *)

(* Names of traces: sequences of calls, the last one at most the latest.     *)
IsName(t) == t \in Seq(Nat) /\ t # <<>> /\ Call(t) \in 1..calls

IsTrace(r) ==
  /\ r = [block |-> r.block, has |-> r.has, stack |-> r.stack, traces |-> r.traces,
          ret |-> r.ret, first |-> r.first, by |-> r.by]
  /\ r.stack \in Seq(Seq(Nat)) /\ r.traces \in Seq(Seq(Nat)) /\ Len(r.traces) <= 1
  /\ r.by \subseteq Fibers

HeapOK ==
  /\ heap = [t \in DOMAIN heap |-> heap[t]]
  /\ \A t \in DOMAIN heap : IsName(t) /\ IsTrace(heap[t])

TpsTyped ==
  /\ tps \subseteq TracePoint
  /\ \A tp \in tps : IsName(tp.data)
  /\ \A tp, tq \in tps : tp.data = tq.data => tp = tq

(* A handler works on the trace points that fired, each with a trace of its  *)
(* own.  The call it handles has a trace only where it has put one.          *)
Busy(f) == handler[f] # None
Id(f) == Last(frames[f]).id
Used == DOMAIN heap \union {tp.data : tp \in tps}
Called(f, tp) == Append(tp.data, Id(f))

HandlerOK(f) ==
  /\ Id(f) \in 1..calls
  /\ \A tp \in handler[f].todo : tp.data # <<>>
  /\ \A tp, tq \in handler[f].todo : tp.data = tq.data => tp = tq
  /\ handler[f].new # None => /\ handler[f].new \in DOMAIN heap
                              /\ \E tp \in handler[f].todo : handler[f].new = Called(f, tp)
  /\ \A tp \in handler[f].todo : Called(f, tp) \in Used => handler[f].new = Called(f, tp)

HandlersOK ==
  /\ handler \in [Fibers -> HandlerType \union {None}]
  /\ vm = None \/ (vm \in Fibers /\ Busy(vm))
  /\ \A f \in Fibers : Busy(f) /\ handler[f].new = None => vm = f
  /\ \A f \in Fibers : Busy(f) => HandlerOK(f)
  /\ \A f, g \in Fibers : Busy(f) /\ Busy(g) /\ f # g => Id(f) # Id(g)

(* The traces of methods: each is in use, queued, with the worker or lost.   *)
RootsOK ==
  /\ \A t \in DOMAIN heap : Len(t) = 1 => \/ t \in InUse \/ t = writing \/ t \in lost
                                          \/ \E i \in DOMAIN queue : queue[i] = t
  /\ writing \in DOMAIN heap \union {None}
  /\ lost \subseteq DOMAIN heap /\ writing \notin lost
  /\ \A i \in DOMAIN queue : queue[i] \notin lost
  /\ \A i \in DOMAIN queue : queue[i] \in DOMAIN heap /\ queue[i] # writing
  /\ \A i, j \in DOMAIN queue : queue[i] = queue[j] => i = j

(* The traces of block calls: each is waiting in a handler, or linked from   *)
(* the trace it belongs to, once.                                            *)
Waits(hd, f, t) == f \in Fibers /\ hd[f] # None /\ hd[f].new = t
OnCalls(h, x, i, t) == x \in DOMAIN h /\ i \in DOMAIN h[x].stack /\ h[x].stack[i] = t
Recorded(h, x, i, t) == x \in DOMAIN h /\ i \in DOMAIN h[x].traces /\ h[x].traces[i] = t

(* No link to u has come or gone. *)
SameLinks(k, h, u) ==
  /\ \A x, i : OnCalls(k, x, i, u) <=> OnCalls(h, x, i, u)
  /\ \A x, i : Recorded(k, x, i, u) <=> Recorded(h, x, i, u)

Holders(h, hd, t) ==
  {<<"handler", f>> : f \in {g \in Fibers : hd[g] # None /\ hd[g].new = t}}
    \union (UNION {{<<"called", x, i>> : i \in {j \in DOMAIN h[x].stack : h[x].stack[j] = t}}
                   : x \in DOMAIN h})
    \union (UNION {{<<"recorded", x, i>> : i \in {j \in DOMAIN h[x].traces : h[x].traces[j] = t}}
                   : x \in DOMAIN h})

LinksOK == \A x \in DOMAIN heap : \A y \in Links(x) : y \in DOMAIN heap /\ y = Append(x, Call(y))
Held(h, hd, t) == \E w : Holders(h, hd, t) = {w}
HeldOnce == \A t \in DOMAIN heap : Len(t) # 1 => Held(heap, handler, t)

Memory == HeapOK /\ TpsTyped /\ HandlersOK /\ RootsOK /\ LinksOK /\ HeldOnce

------------------------------------------------------------------------------
(* Holders *)

LEMMA HoldersAre ==
  ASSUME NEW h, NEW hd, NEW t, NEW w
  PROVE  w \in Holders(h, hd, t) <=>
           \/ \E f : Waits(hd, f, t) /\ w = <<"handler", f>>
           \/ \E x, i : OnCalls(h, x, i, t) /\ w = <<"called", x, i>>
           \/ \E x, i : Recorded(h, x, i, t) /\ w = <<"recorded", x, i>>
<1> USE DEF Waits, OnCalls, Recorded
<1> DEFINE A == {<<"handler", f>> : f \in {g \in Fibers : hd[g] # None /\ hd[g].new = t}}
           B == UNION {{<<"called", x, i>> : i \in {j \in DOMAIN h[x].stack : h[x].stack[j] = t}}
                       : x \in DOMAIN h}
           C == UNION {{<<"recorded", x, i>> : i \in {j \in DOMAIN h[x].traces : h[x].traces[j] = t}}
                       : x \in DOMAIN h}
<1>1. w \in A <=> \E f : Waits(hd, f, t) /\ w = <<"handler", f>>
  OBVIOUS
<1>2. w \in B <=> \E x, i : OnCalls(h, x, i, t) /\ w = <<"called", x, i>>
  OBVIOUS
<1>3. w \in C <=> \E x, i : Recorded(h, x, i, t) /\ w = <<"recorded", x, i>>
  OBVIOUS
<1>4. Holders(h, hd, t) = A \union B \union C
  BY DEF Holders
<1> HIDE DEF A, B, C
<1> QED BY <1>1, <1>2, <1>3, <1>4

(* Whoever holds a trace still does, and nobody else. *)
LEMMA SameHolders ==
  ASSUME NEW h, NEW hd, NEW k, NEW kd, NEW t,
         \A f : Waits(hd, f, t) <=> Waits(kd, f, t),
         \A x, i : OnCalls(h, x, i, t) <=> OnCalls(k, x, i, t),
         \A x, i : Recorded(h, x, i, t) <=> Recorded(k, x, i, t)
  PROVE  Holders(h, hd, t) = Holders(k, kd, t)
<1>1. ASSUME NEW w PROVE w \in Holders(h, hd, t) <=> w \in Holders(k, kd, t)
  BY HoldersAre
<1> QED BY <1>1

LEMMA OnlyCalled ==
  ASSUME NEW h, NEW hd, NEW t, NEW y, NEW n, OnCalls(h, y, n, t),
         \A f : ~Waits(hd, f, t),
         \A x, i : OnCalls(h, x, i, t) => x = y /\ i = n,
         \A x, i : ~Recorded(h, x, i, t)
  PROVE  Holders(h, hd, t) = {<<"called", y, n>>}
<1>1. ASSUME NEW w PROVE w \in Holders(h, hd, t) <=> w = <<"called", y, n>>
  BY HoldersAre
<1> QED BY <1>1

LEMMA OnlyRecorded ==
  ASSUME NEW h, NEW hd, NEW t, NEW y, NEW n, Recorded(h, y, n, t),
         \A f : ~Waits(hd, f, t),
         \A x, i : ~OnCalls(h, x, i, t),
         \A x, i : Recorded(h, x, i, t) => x = y /\ i = n
  PROVE  Holders(h, hd, t) = {<<"recorded", y, n>>}
<1>1. ASSUME NEW w PROVE w \in Holders(h, hd, t) <=> w = <<"recorded", y, n>>
  BY HoldersAre
<1> QED BY <1>1

LEMMA OnlyWaits ==
  ASSUME NEW h, NEW hd, NEW t, NEW f, Waits(hd, f, t),
         \A g : Waits(hd, g, t) => g = f,
         \A x, i : ~OnCalls(h, x, i, t),
         \A x, i : ~Recorded(h, x, i, t)
  PROVE  Holders(h, hd, t) = {<<"handler", f>>}
<1>1. ASSUME NEW w PROVE w \in Holders(h, hd, t) <=> w = <<"handler", f>>
  BY HoldersAre
<1> QED BY <1>1

(* Names *)
LEMMA NameExtends ==
  ASSUME NEW s \in Seq(Nat), s # <<>>, NEW n \in Nat
  PROVE  /\ Append(s, n) \in Seq(Nat) /\ Append(s, n) # <<>> /\ Len(Append(s, n)) # 1
         /\ Len(Append(s, n)) = Len(s) + 1
         /\ Call(Append(s, n)) = n /\ Front(Append(s, n)) = s
         /\ \A m \in 0..Len(s) : SubSeq(Append(s, n), 1, m) = SubSeq(s, 1, m)
         /\ SubSeq(Append(s, n), 1, Len(s)) = s
<1> DEFINE t == Append(s, n)
<1>1. /\ t \in Seq(Nat) /\ t # <<>> /\ Len(t) = Len(s) + 1
      /\ \A i \in 1..Len(s) : t[i] = s[i]
      /\ t[Len(s) + 1] = n
  BY AppendProperties
<1>2. Len(s) \in Nat /\ Len(s) # 0 /\ Len(t) # 1
  BY <1>1
<1> HIDE DEF t
<1>3. Call(t) = n
  BY <1>1 DEF Call, Last
<1>4. ASSUME NEW m \in 0..Len(s) PROVE SubSeq(t, 1, m) = SubSeq(s, 1, m)
  <2>1. SubSeq(t, 1, m) = [i \in 1..m |-> t[i]] /\ SubSeq(s, 1, m) = [i \in 1..m |-> s[i]]
    BY <1>1, <1>2
  <2> QED BY <1>1, <1>2, <2>1
<1>5. SubSeq(s, 1, Len(s)) = s
  BY SubSeqFull
<1>6. Front(t) = s /\ SubSeq(t, 1, Len(s)) = s
  <2>1. Len(t) - 1 = Len(s) /\ Len(s) \in 0..Len(s)
    BY <1>1, <1>2
  <2> QED BY <1>4, <1>5, <2>1 DEF Front
<1> QED BY <1>1, <1>2, <1>3, <1>4, <1>6 DEF t

LEMMA NamesDiffer ==
  ASSUME NEW s \in Seq(Nat), NEW m \in Nat, NEW t \in Seq(Nat), NEW n \in Nat, Append(s, m) = Append(t, n)
  PROVE  s = t /\ m = n
BY AppendInjective

LEMMA MemoryInit == Init => Memory
<1> SUFFICES ASSUME Init PROVE Memory
  OBVIOUS
<1> USE BlockTracerAssumption DEF Init
<1>1. DOMAIN heap = {} /\ heap = [t \in DOMAIN heap |-> heap[t]]
  OBVIOUS
<1>2. HeapOK /\ TpsTyped
  BY <1>1 DEF HeapOK, TpsTyped
<1>3. HandlersOK
  BY DEF HandlersOK, Busy
<1>4. RootsOK /\ LinksOK /\ HeldOnce
  BY <1>1 DEF RootsOK, LinksOK, HeldOnce
<1> QED BY <1>2, <1>3, <1>4 DEF Memory

------------------------------------------------------------------------------
(* Handlers *)

(* No handler begins, goes on or ends, and no trace of a call they handle    *)
(* appears.                                                                  *)
LEMMA HandlersStay ==
  ASSUME Memory, UNCHANGED <<handler, vm>>, calls \in Nat, calls' \in Nat, calls <= calls',
         \A f \in Fibers : Busy(f) => frames'[f] = frames[f],
         \A f \in Fibers : Busy(f) /\ handler[f].new # None => handler[f].new \in DOMAIN heap',
         \A f \in Fibers : \A tp \in handler[f].todo :
           Busy(f) /\ Called(f, tp) \in Used' => Called(f, tp) \in Used
  PROVE  HandlersOK'
<1> USE DEF Memory, HandlersOK
<1>1. \A f \in Fibers : Busy(f)' <=> Busy(f)
  BY DEF Busy
<1>2. \A f \in Fibers : Busy(f) => Id(f)' = Id(f)
  BY DEF Id
<1>3. \A f \in Fibers : \A tp : Busy(f) => Called(f, tp)' = Called(f, tp)
  BY <1>2 DEF Called
<1>4. ASSUME NEW f \in Fibers, Busy(f) PROVE HandlerOK(f)'
  <2>1. HandlerOK(f)
    BY <1>4
  <2>2. Id(f)' \in 1..calls'
    BY <1>2, <1>4, <2>1 DEF HandlerOK
  <2>3. \A tp : Called(f, tp)' = Called(f, tp)
    BY <1>3, <1>4
  <2> QED BY <1>4, <2>1, <2>2, <2>3 DEF HandlerOK
<1>5. vm' = None \/ (vm' \in Fibers /\ Busy(vm)')
  BY <1>1 DEF Busy
<1> QED BY <1>1, <1>2, <1>4, <1>5

(* The handler of f is done with one trace point; the call it handles may    *)
(* have got a trace there, and nowhere else.                                 *)
LEMMA HandlerDone ==
  ASSUME Memory, NEW f \in Fibers, Busy(f), NEW tp \in handler[f].todo, Done(f, tp),
         vm \in {f, None}, UNCHANGED <<frames, calls>>, calls \in Nat,
         DOMAIN heap \subseteq DOMAIN heap',
         Used' \subseteq Used \union {Called(f, tp)},
         handler[f].new # None => handler[f].new = Called(f, tp)
  PROVE  /\ HandlersOK'
         /\ \A g : \A t \in Seq(Nat) : Waits(handler', g, t) <=> Waits(handler, g, t) /\ g # f
<1> USE DEF Memory, HandlersOK
<1> DEFINE left == handler[f].todo \ {tp}
<1>1. handler[f] \in HandlerType /\ HandlerOK(f) /\ handler[f].todo \subseteq TracePoint
  BY DEF Busy, HandlerType
<1>2. /\ handler' = [handler EXCEPT ![f] = handler'[f]]
      /\ left = {} => handler'[f] = None /\ vm' = None
      /\ left # {} => /\ handler'[f] \in HandlerType /\ handler'[f].todo = left /\ handler'[f].new = None
                      /\ vm' = f
  <2>1. handler' = [handler EXCEPT ![f] = IF left = {} THEN None ELSE [@ EXCEPT !.todo = left, !.new = None]]
        /\ vm' = IF left = {} THEN None ELSE f
    BY DEF Done
  <2>2. [handler[f] EXCEPT !.todo = left, !.new = None] \in HandlerType
        /\ [handler[f] EXCEPT !.todo = left, !.new = None].todo = left
        /\ [handler[f] EXCEPT !.todo = left, !.new = None].new = None
    BY <1>1 DEF HandlerType
  <2> HIDE DEF left
  <2> QED BY <2>1, <2>2
<1>3. handler' \in [Fibers -> HandlerType \union {None}]
  BY <1>2
<1>4. \A g \in Fibers \ {f} : handler'[g] = handler[g]
  BY <1>2
<1>5. \A g \in Fibers : Id(g)' = Id(g)
  BY DEF Id
<1>6. \A g \in Fibers : \A tq : Called(g, tq)' = Called(g, tq)
  BY <1>5 DEF Called
<1>7. \A g \in Fibers : Busy(g)' => Busy(g)
  BY <1>4 DEF Busy
<1>8. ASSUME NEW g \in Fibers, g # f, Busy(g) PROVE HandlerOK(g)'
  <2>1. HandlerOK(g) /\ handler'[g] = handler[g]
    BY <1>4, <1>8
  <2>2. handler[g] \in HandlerType
    BY <1>8 DEF Busy
  <2>3. ASSUME NEW tq \in handler[g].todo PROVE Called(g, tq) # Called(f, tp)
    <3>1. tq.data \in Seq(Nat) /\ tp.data \in Seq(Nat)
      BY <1>1, <2>2 DEF HandlerType, TracePoint
    <3>2. Id(g) \in Nat /\ Id(f) \in Nat /\ Id(g) # Id(f)
      BY <1>1, <1>8, <2>1 DEF HandlerOK
    <3> QED BY <3>1, <3>2, NamesDiffer DEF Called
  <2> QED BY <1>5, <1>6, <1>8, <2>1, <2>3 DEF HandlerOK
<1>9. ASSUME left # {} PROVE HandlerOK(f)'
  <2>1. ASSUME NEW tq \in left PROVE Called(f, tq) \notin Used'
    <3>1. tq \in handler[f].todo /\ tq # tp
      OBVIOUS
    <3>2. tq.data \in Seq(Nat) /\ tp.data \in Seq(Nat) /\ tq.data # tp.data
      BY <1>1, <3>1 DEF HandlerType, TracePoint, HandlerOK
    <3>3. Id(f) \in Nat
      BY <1>1 DEF HandlerOK
    <3>4. Called(f, tq) # Called(f, tp) /\ Called(f, tq) \in Seq(Nat)
      <4>1. Called(f, tq) # Called(f, tp)
        BY <3>2, <3>3, NamesDiffer DEF Called
      <4> QED BY <3>2, <3>3, <4>1 DEF Called
    <3>5. Called(f, tq) # None
      BY <3>4, BlockTracerAssumption
    <3>6. Called(f, tq) \notin Used
      BY <1>1, <3>1, <3>4, <3>5 DEF HandlerOK
    <3> QED BY <3>4, <3>6
  <2> QED BY <1>1, <1>2, <1>5, <1>6, <1>9, <2>1 DEF HandlerOK
<1>10. \A g \in Fibers : Busy(g)' => HandlerOK(g)'
  <2>1. Busy(f)' => left # {}
    BY <1>2 DEF Busy
  <2> QED BY <1>7, <1>8, <1>9, <2>1
<1>11. vm' = None \/ (vm' \in Fibers /\ Busy(vm)')
  BY <1>2, BlockTracerAssumption DEF Busy
<1>12. ASSUME NEW g \in Fibers, Busy(g)', handler'[g].new = None PROVE vm' = g
  <2>1. CASE g = f
    BY <1>2, <1>12, <2>1 DEF Busy
  <2>2. CASE g # f
    <3>1. Busy(g) /\ handler[g].new = None
      BY <1>4, <1>7, <1>12, <2>2
    <3>2. vm = g
      BY <3>1
    <3> QED BY <2>2, <3>2, BlockTracerAssumption
  <2> QED BY <2>1, <2>2
<1>13. HandlersOK'
  BY <1>3, <1>5, <1>7, <1>10, <1>11, <1>12
<1>14. ASSUME NEW g, NEW t \in Seq(Nat) PROVE Waits(handler', g, t) <=> Waits(handler, g, t) /\ g # f
  <2>1. ~Waits(handler', f, t)
    BY <1>2, BlockTracerAssumption DEF Waits
  <2> QED BY <1>4, <2>1 DEF Waits
<1> QED BY <1>13, <1>14

(* A block call event begins: the call has no trace yet. *)
LEMMA HandlerBegins ==
  ASSUME Memory, NEW f \in Fibers, NEW c \in Blocks, NEW d \in Blocks \union {NoBlock},
         BlockCall(f, c, d), Inv
  PROVE  /\ HandlersOK'
         /\ \A g : \A t \in Seq(Nat) : Waits(handler', g, t) <=> Waits(handler, g, t)
<1> USE BlockTracerAssumption DEF Memory, HandlersOK
<1>1. /\ handler[f] = None /\ vm = None /\ calls \in Nat /\ calls' = calls + 1
      /\ UNCHANGED <<heap, tps>>
      /\ \A g \in Fibers \ {f} : frames'[g] = frames[g]
  BY DEF BlockCall, Running, Inv, ProgramOK
<1>2. Id(f)' = calls + 1
  <2> DEFINE r == [id |-> calls + 1, block |-> c]
  <2>1. frames[f] \in Seq(Frame) /\ frames'[f] = Append(frames[f], r)
    BY DEF BlockCall, Inv, ProgramOK
  <2>2. r \in Frame /\ r.id = calls + 1
    BY <1>1 DEF Frame
  <2> HIDE DEF r
  <2>3. Last(Append(frames[f], r)) = r
    BY <2>1, <2>2, AppendProperties DEF Last
  <2> QED BY <2>1, <2>2, <2>3 DEF Id
<1>3. /\ Hits(c) \subseteq tps
      /\ \/ handler' = handler /\ vm' = vm
         \/ handler' = [handler EXCEPT ![f] = [todo |-> Hits(c), takes |-> d, new |-> None]] /\ vm' = f
  BY DEF BlockCall, Hits
<1>4. [todo |-> Hits(c), takes |-> d, new |-> None] \in HandlerType
  BY <1>3 DEF TpsTyped, HandlerType
<1>5. handler' \in [Fibers -> HandlerType \union {None}] /\ \A g \in Fibers \ {f} : handler'[g] = handler[g]
  BY <1>3, <1>4
<1>6. \A g \in Fibers \ {f} : Id(g)' = Id(g) /\ (Busy(g)' <=> Busy(g))
  BY <1>1, <1>5 DEF Id, Busy
<1>7. \A g \in Fibers \ {f} : \A tp : Called(g, tp)' = Called(g, tp)
  BY <1>6 DEF Called
<1>8. Used' = Used
  BY <1>1 DEF Used
<1>9. ASSUME NEW g \in Fibers, g # f, Busy(g)' PROVE HandlerOK(g)'
  <2>1. HandlerOK(g) /\ handler'[g] = handler[g]
    BY <1>5, <1>6, <1>9
  <2>2. Id(g)' \in 1..calls'
    BY <1>1, <1>6, <1>9, <2>1 DEF HandlerOK
  <2> QED BY <1>1, <1>7, <1>8, <1>9, <2>1, <2>2 DEF HandlerOK
<1>10. ASSUME Busy(f)' PROVE HandlerOK(f)'
  <2>1. handler'[f] = [todo |-> Hits(c), takes |-> d, new |-> None]
    BY <1>1, <1>3, <1>10 DEF Busy
  <2>2. Id(f)' \in 1..calls'
    BY <1>1, <1>2
  <2>3. ASSUME NEW tp \in Hits(c) PROVE tp.data # <<>> /\ Called(f, tp)' \notin Used
    <3>1. tp.data \in Seq(Nat) /\ tp.data # <<>>
      BY <1>3 DEF TpsTyped, IsName
    <3>2. Called(f, tp)' = Append(tp.data, calls + 1)
      BY <1>2 DEF Called
    <3>3. Call(Append(tp.data, calls + 1)) = calls + 1
      BY <1>1, <3>1, NameExtends
    <3>4. \A t \in Used : Call(t) \in 1..calls
      BY DEF Used, HeapOK, TpsTyped, IsName
    <3> QED BY <1>1, <3>1, <3>2, <3>3, <3>4
  <2>4. \A tp, tq \in Hits(c) : tp.data = tq.data => tp = tq
    BY <1>3 DEF TpsTyped
  <2> QED BY <1>8, <2>1, <2>2, <2>3, <2>4 DEF HandlerOK
<1>11. \A g, h \in Fibers : Busy(g)' /\ Busy(h)' /\ g # h => Id(g)' # Id(h)'
  <2>1. \A g \in Fibers \ {f} : Busy(g)' => Id(g)' # calls + 1
    BY <1>1, <1>6 DEF HandlerOK
  <2> QED BY <1>2, <1>6, <2>1
<1>12. vm' = None \/ (vm' \in Fibers /\ Busy(vm)')
  BY <1>1, <1>3, <1>4 DEF Busy
<1>13. ASSUME NEW g, NEW t \in Seq(Nat) PROVE Waits(handler', g, t) <=> Waits(handler, g, t)
  <2>1. ~Waits(handler', f, t) /\ ~Waits(handler, f, t)
    BY <1>1, <1>3 DEF Waits
  <2> QED BY <1>5, <2>1 DEF Waits
<1>14. ASSUME NEW g \in Fibers, Busy(g)', handler'[g].new = None PROVE vm' = g
  <2>1. CASE g = f
    BY <1>1, <1>3, <1>14, <2>1 DEF Busy
  <2>2. CASE g # f
    <3>1. Busy(g) /\ handler[g].new = None
      BY <1>5, <1>6, <1>14, <2>2
    <3> QED BY <1>1, <3>1, BlockTracerAssumption
  <2> QED BY <2>1, <2>2
<1>15. HandlersOK'
  BY <1>5, <1>9, <1>10, <1>11, <1>12, <1>14
<1> QED BY <1>13, <1>15

(* A trace point is enabled for a block given to a block: its trace waits in *)
(* the handler, which is the only one to make a trace for that call.         *)
LEMMA HandlerWaits ==
  ASSUME Memory, NEW f \in Fibers, Busy(f), NEW tp \in handler[f].todo, handler[f].new = None,
         handler' = [handler EXCEPT ![f].new = Called(f, tp)], vm = f, vm' = None,
         UNCHANGED <<frames, calls>>,
         DOMAIN heap \subseteq DOMAIN heap', Called(f, tp) \in DOMAIN heap',
         Used' \subseteq Used \union {Called(f, tp)}
  PROVE  /\ HandlersOK' /\ Waits(handler', f, Called(f, tp))
         /\ \A g : \A t \in Seq(Nat) : Waits(handler', g, t) =>
              Waits(handler, g, t) \/ (g = f /\ t = Called(f, tp))
         /\ \A g : \A t \in Seq(Nat) : Waits(handler, g, t) => Waits(handler', g, t)
<1> USE DEF Memory, HandlersOK
<1>1. handler[f] \in HandlerType /\ HandlerOK(f) /\ handler[f].todo \subseteq TracePoint
  BY DEF Busy, HandlerType
<1>2. Id(f) \in Nat /\ \A tq \in handler[f].todo : tq.data \in Seq(Nat)
  BY <1>1 DEF HandlerOK, TracePoint
<1>3. Called(f, tp) \in Seq(Nat)
  BY <1>2 DEF Called
<1>4. /\ handler'[f] \in HandlerType /\ handler'[f].todo = handler[f].todo
      /\ handler'[f].new = Called(f, tp)
      /\ \A g \in Fibers \ {f} : handler'[g] = handler[g]
      /\ handler' \in [Fibers -> HandlerType \union {None}]
  <2> DEFINE r == [handler[f] EXCEPT !.new = Called(f, tp)]
  <2>1. r \in HandlerType /\ r.todo = handler[f].todo /\ r.new = Called(f, tp)
    BY <1>1, <1>3 DEF HandlerType
  <2>2. handler' = [handler EXCEPT ![f] = r]
    OBVIOUS
  <2> HIDE DEF r
  <2> QED BY <2>1, <2>2
<1>5. \A g \in Fibers : Id(g)' = Id(g) /\ (Busy(g)' <=> Busy(g))
  BY <1>4, BlockTracerAssumption DEF Id, Busy
<1>6. \A g \in Fibers : \A tq : Called(g, tq)' = Called(g, tq)
  BY <1>5 DEF Called
<1>7. ASSUME NEW g \in Fibers, g # f, Busy(g) PROVE HandlerOK(g)'
  <2>1. HandlerOK(g) /\ handler'[g] = handler[g]
    BY <1>4, <1>7
  <2>2. handler[g] \in HandlerType
    BY <1>7 DEF Busy
  <2>3. ASSUME NEW tq \in handler[g].todo PROVE Called(g, tq) # Called(f, tp)
    <3>1. tq.data \in Seq(Nat) /\ tp.data \in Seq(Nat)
      BY <1>2, <2>2 DEF HandlerType, TracePoint
    <3>2. Id(g) \in Nat /\ Id(f) \in Nat /\ Id(g) # Id(f)
      BY <1>1, <1>7, <2>1 DEF HandlerOK
    <3> QED BY <3>1, <3>2, NamesDiffer DEF Called
  <2> QED BY <1>5, <1>6, <1>7, <2>1, <2>3 DEF HandlerOK
<1>8. HandlerOK(f)'
  <2>1. ASSUME NEW tq \in handler[f].todo, tq # tp PROVE Called(f, tq) \notin Used'
    <3>1. tq.data \in Seq(Nat) /\ tp.data \in Seq(Nat) /\ tq.data # tp.data
      BY <1>1, <1>2, <2>1 DEF HandlerOK
    <3>2. Called(f, tq) # Called(f, tp)
      BY <1>2, <3>1, NamesDiffer DEF Called
    <3>3. Called(f, tq) # None
      <4>1. Called(f, tq) \in Seq(Nat)
        BY <1>2, <3>1 DEF Called
      <4> QED BY <4>1, BlockTracerAssumption
    <3>4. Called(f, tq) \notin Used
      BY <1>1, <3>3 DEF HandlerOK
    <3> QED BY <3>2, <3>4
  <2>2. Id(f)' \in 1..calls'
    BY <1>1, <1>5 DEF HandlerOK
  <2>3. \A tq \in handler[f].todo : Called(f, tq) \in Used' => Called(f, tq) = Called(f, tp)
    BY <2>1
  <2> QED BY <1>1, <1>4, <1>6, <2>2, <2>3 DEF HandlerOK
<1>9. ASSUME NEW g \in Fibers, Busy(g)' PROVE handler'[g].new # None
  <2>1. CASE g = f
    BY <1>3, <1>4, <2>1, BlockTracerAssumption
  <2>2. CASE g # f
    <3>1. Busy(g) /\ handler'[g] = handler[g]
      BY <1>4, <1>5, <1>9, <2>2
    <3> QED BY <2>2, <3>1
  <2> QED BY <2>1, <2>2
<1>10. HandlersOK'
  BY <1>4, <1>5, <1>7, <1>8, <1>9
<1>11. Waits(handler', f, Called(f, tp))
  BY <1>4, BlockTracerAssumption DEF Waits
<1>12. ASSUME NEW g, NEW t \in Seq(Nat)
       PROVE  /\ Waits(handler', g, t) => Waits(handler, g, t) \/ (g = f /\ t = Called(f, tp))
              /\ Waits(handler, g, t) => Waits(handler', g, t)
  <2>1. CASE g = f
    BY <1>4, <2>1, BlockTracerAssumption DEF Waits
  <2>2. CASE g # f
    BY <1>4, <2>2 DEF Waits
  <2> QED BY <2>1, <2>2
<1> QED BY <1>10, <1>11, <1>12

------------------------------------------------------------------------------
(* Records of traces *)

Rec(r) == [block |-> r.block, has |-> r.has, stack |-> r.stack, traces |-> r.traces,
           ret |-> r.ret, first |-> r.first, by |-> r.by]

LEMMA NewTrace ==
  ASSUME NEW b
  PROVE  IsTrace(Trace(b, FALSE)) /\ Trace(b, FALSE).stack = <<>> /\ Trace(b, FALSE).traces = <<>>
         /\ IsTrace(Trace(b, TRUE)) /\ Trace(b, TRUE).stack = <<>> /\ Trace(b, TRUE).traces = <<>>
BY EmptySeq DEF Trace, IsTrace

LEMMA TraceNotes ==
  ASSUME NEW r, IsTrace(r), NEW b, b \subseteq Fibers, NEW v
  PROVE  /\ IsTrace([r EXCEPT !.by = b, !.first = v])
         /\ [r EXCEPT !.by = b, !.first = v].stack = r.stack
         /\ [r EXCEPT !.by = b, !.first = v].traces = r.traces
<1>1. PICK q : q = [r EXCEPT !.by = b, !.first = v]
  OBVIOUS
<1>2. q = Rec(q) /\ q.by = b /\ q.stack = r.stack /\ q.traces = r.traces
  BY <1>1 DEF IsTrace, Rec
<1>3. IsTrace(q)
  BY <1>2 DEF IsTrace, Rec
<1> QED BY <1>1, <1>2, <1>3

LEMMA TraceReports ==
  ASSUME NEW r, IsTrace(r), NEW f \in Fibers
  PROVE  /\ IsTrace(Reported(r, f))
         /\ Reported(r, f).stack = r.stack /\ Reported(r, f).traces = r.traces
<1> DEFINE fst == IF r.first.call = 0
                    THEN [r.first EXCEPT !.call = Last(frames[f]).id, !.block = Last(frames[f]).block]
                    ELSE r.first
           b == r.by \union {f}
<1>1. PICK c, v : c = b /\ v = fst
  OBVIOUS
<1>2. Reported(r, f) = [r EXCEPT !.by = c, !.first = v]
  BY <1>1 DEF Reported
<1>3. c \subseteq Fibers
  BY <1>1 DEF IsTrace
<1> HIDE <1>1
<1>4. /\ IsTrace([r EXCEPT !.by = c, !.first = v])
      /\ [r EXCEPT !.by = c, !.first = v].stack = r.stack
      /\ [r EXCEPT !.by = c, !.first = v].traces = r.traces
  BY <1>3, TraceNotes
<1> QED BY <1>2, <1>4

LEMMA TraceStacks ==
  ASSUME NEW r, IsTrace(r), NEW s \in Seq(Seq(Nat))
  PROVE  /\ IsTrace([r EXCEPT !.stack = s])
         /\ [r EXCEPT !.stack = s].stack = s /\ [r EXCEPT !.stack = s].traces = r.traces
<1> DEFINE q == [r EXCEPT !.stack = s]
<1>1. q = Rec(q) /\ q.by = r.by /\ q.stack = s /\ q.traces = r.traces
  BY DEF IsTrace, Rec
<1> HIDE DEF q
<1>2. IsTrace(q)
  BY <1>1 DEF IsTrace, Rec
<1> QED BY <1>1, <1>2 DEF q

LEMMA TraceReady ==
  ASSUME NEW r, IsTrace(r), NEW v
  PROVE  /\ IsTrace([r EXCEPT !.has = v])
         /\ [r EXCEPT !.has = v].stack = r.stack /\ [r EXCEPT !.has = v].traces = r.traces
<1> DEFINE q == [r EXCEPT !.has = v]
<1>1. q = Rec(q) /\ q.by = r.by /\ q.stack = r.stack /\ q.traces = r.traces
  BY DEF IsTrace, Rec
<1> HIDE DEF q
<1>2. IsTrace(q)
  BY <1>1 DEF IsTrace, Rec
<1> QED BY <1>1, <1>2 DEF q

Ended(r, b, o, s, ts, n) == [r EXCEPT !.by = b, !.first.over = o, !.stack = s, !.traces = ts, !.ret = n]

LEMMA TraceEnds ==
  ASSUME NEW r, IsTrace(r), NEW b \in SUBSET Fibers, NEW o, NEW s \in Seq(Seq(Nat)), NEW ts \in Seq(Seq(Nat)),
         Len(ts) <= 1, NEW n
  PROVE  /\ IsTrace(Ended(r, b, o, s, ts, n))
         /\ Ended(r, b, o, s, ts, n).stack = s /\ Ended(r, b, o, s, ts, n).traces = ts
<1> DEFINE fst == [r.first EXCEPT !.over = o]
<1>1. PICK q : q = Ended(r, b, o, s, ts, n)
  OBVIOUS
<1>2. q = [r EXCEPT !.by = b, !.first = fst, !.stack = s, !.traces = ts, !.ret = n]
  BY <1>1 DEF IsTrace, Ended
<1> HIDE DEF fst
<1>3. q = Rec(q) /\ q.by = b /\ q.stack = s /\ q.traces = ts
  BY <1>2 DEF IsTrace, Rec
<1>4. IsTrace(q)
  BY <1>3 DEF IsTrace, Rec
<1> QED BY <1>1, <1>3, <1>4

------------------------------------------------------------------------------
(* Links *)

LEMMA LinksAre ==
  ASSUME NEW x \in DOMAIN heap, NEW y
  PROVE  y \in Links(x) <=> /\ y # Null
                            /\ \E i : OnCalls(heap, x, i, y) \/ Recorded(heap, x, i, y)
BY DEF Links, Range, OnCalls, Recorded

LEMMA LinkIsAllocated ==
  ASSUME Memory, NEW x, NEW i, NEW y, OnCalls(heap, x, i, y) \/ Recorded(heap, x, i, y), y # Null
  PROVE  /\ x \in DOMAIN heap /\ y \in DOMAIN heap /\ y = Append(x, Call(y))
         /\ y \in Links(x) /\ Len(y) # 1 /\ x \in Seq(Nat) /\ x # <<>> /\ Call(y) \in Nat
<1>1. x \in DOMAIN heap /\ y \in Links(x)
  BY LinksAre DEF OnCalls, Recorded
<1>2. y \in DOMAIN heap /\ y = Append(x, Call(y))
  BY <1>1 DEF Memory, LinksOK
<1>3. x \in Seq(Nat) /\ x # <<>> /\ Call(y) \in 1..calls
  BY <1>1, <1>2 DEF Memory, HeapOK, IsName
<1>4. Len(Append(x, Call(y))) # 1
  BY <1>3, NameExtends
<1> QED BY <1>1, <1>2, <1>3, <1>4

LEMMA NotHeld ==
  ASSUME Memory, NEW t, t \in Seq(Nat), t # Null, t \notin DOMAIN heap
  PROVE  /\ \A f : ~Waits(handler, f, t)
         /\ \A x, i : ~OnCalls(heap, x, i, t) /\ ~Recorded(heap, x, i, t)
<1>1. \A x, i : ~OnCalls(heap, x, i, t) /\ ~Recorded(heap, x, i, t)
  BY LinkIsAllocated
<1>2. ASSUME NEW f, Waits(handler, f, t) PROVE FALSE
  BY <1>2, BlockTracerAssumption DEF Waits, Memory, HandlersOK, HandlerOK, Busy
<1> QED BY <1>1, <1>2

(* A trace of a method is not held by another one, nor by a handler. *)
LEMMA RootNotHeld ==
  ASSUME Memory, NEW t \in DOMAIN heap, Len(t) = 1
  PROVE  /\ \A f : ~Waits(handler, f, t)
         /\ \A x, i : ~OnCalls(heap, x, i, t) /\ ~Recorded(heap, x, i, t)
<1>1. t # Null /\ t \in Seq(Nat)
  BY DEF Memory, HeapOK, IsName, Null
<1>2. \A x, i : ~OnCalls(heap, x, i, t) /\ ~Recorded(heap, x, i, t)
  BY <1>1, LinkIsAllocated
<1>3. ASSUME NEW f, Waits(handler, f, t) PROVE FALSE
  <2>1. Busy(f) /\ HandlerOK(f) /\ t # None /\ handler[f] \in HandlerType
    BY <1>1, <1>3, BlockTracerAssumption DEF Waits, Memory, HandlersOK, Busy
  <2>2. PICK tp \in handler[f].todo : t = Called(f, tp)
    BY <1>3, <2>1 DEF HandlerOK, Waits
  <2>3. tp.data \in Seq(Nat) /\ tp.data # <<>> /\ Id(f) \in Nat
    BY <2>1, <2>2 DEF HandlerOK, HandlerType, TracePoint
  <2> QED BY <2>2, <2>3, NameExtends DEF Called
<1> QED BY <1>2, <1>3

(* One more trace appears, and may be pushed on an empty stack. *)
Adds(h, k, t, new) ==
  /\ t \in DOMAIN h /\ new \notin DOMAIN h /\ DOMAIN k = DOMAIN h \union {new}
  /\ \A x \in DOMAIN h \ {t} : k[x] = h[x]
  /\ k[t].traces = h[t].traces
  /\ k[t].stack = h[t].stack \/ (h[t].stack = <<>> /\ k[t].stack = <<new>>)
  /\ k[new].stack = <<>> /\ k[new].traces = <<>>

LEMMA LinksGrow ==
  ASSUME NEW h, NEW k, NEW t, NEW new, Adds(h, k, t, new)
  PROVE  \A x, i, u :
           /\ Recorded(k, x, i, u) <=> Recorded(h, x, i, u)
           /\ OnCalls(k, x, i, u) <=>
                \/ OnCalls(h, x, i, u)
                \/ k[t].stack # h[t].stack /\ x = t /\ i = 1 /\ u = new
<1> USE DEF Adds
<1>1. ASSUME NEW x, NEW i, NEW u PROVE Recorded(k, x, i, u) <=> Recorded(h, x, i, u)
  <2>1. CASE x = t
    BY <2>1 DEF Recorded
  <2>2. CASE x = new
    BY <2>2 DEF Recorded
  <2>3. CASE x # t /\ x # new
    BY <2>3 DEF Recorded
  <2> QED BY <2>1, <2>2, <2>3
<1>2. ASSUME NEW x, NEW i, NEW u
      PROVE  OnCalls(k, x, i, u) <=>
               \/ OnCalls(h, x, i, u)
               \/ k[t].stack # h[t].stack /\ x = t /\ i = 1 /\ u = new
  <2>1. CASE x = t /\ k[t].stack = h[t].stack
    BY <2>1 DEF OnCalls
  <2>2. CASE x = t /\ k[t].stack # h[t].stack
    <3>1. h[t].stack = <<>> /\ k[t].stack = <<new>>
      BY <2>2
    <3>2. ~OnCalls(h, x, i, u)
      BY <2>2, <3>1 DEF OnCalls
    <3>3. OnCalls(k, x, i, u) <=> i = 1 /\ new = u
      BY <2>2, <3>1 DEF OnCalls
    <3> QED BY <2>2, <3>2, <3>3
  <2>3. CASE x = new
    BY <2>3 DEF OnCalls
  <2>4. CASE x # t /\ x # new
    BY <2>4 DEF OnCalls
  <2> QED BY <2>1, <2>2, <2>3, <2>4
<1> QED BY <1>1, <1>2

(* The trace of a first call is made: one more trace, and r instead of the   *)
(* trace of the block's owner.                                               *)
Makes(t, n, new, r, z) ==
  /\ t \in DOMAIN heap /\ n \in 1..calls /\ new = Append(t, n) /\ new \notin DOMAIN heap
  /\ IsTrace(r) /\ r.traces = heap[t].traces
  /\ r.stack = heap[t].stack \/ (heap[t].stack = <<>> /\ r.stack = <<new>>)
  /\ IsTrace(z) /\ z.stack = <<>> /\ z.traces = <<>>
  /\ heap' = With([heap EXCEPT ![t] = r], new, z)

Made(t, new, r) ==
  /\ HeapOK' /\ LinksOK' /\ DOMAIN heap' = DOMAIN heap \union {new}
  /\ new \in Seq(Nat) /\ new # Null /\ Len(new) # 1
  /\ \A u : u # new => SameLinks(heap', heap, u)
  /\ \A x, i : ~Recorded(heap', x, i, new)
  /\ \A x, i : OnCalls(heap', x, i, new) <=> r.stack # heap[t].stack /\ x = t /\ i = 1

LEMMA HeapGrows ==
  ASSUME Memory, calls \in Nat, calls' = calls, NEW t, NEW n, NEW new, NEW r, NEW z,
         Makes(t, n, new, r, z)
  PROVE  Made(t, new, r)
<1> USE DEF Memory, HeapOK, Makes
<1>1. t \in Seq(Nat) /\ t # <<>> /\ n \in Nat
  BY DEF IsName
<1>2. /\ new \in Seq(Nat) /\ new # Null /\ Len(new) # 1 /\ Call(new) = n /\ IsName(new)
      /\ new = Append(t, Call(new))
  BY <1>1, NameExtends DEF Null, IsName
<1> DEFINE changed == [heap EXCEPT ![t] = r]
<1>3. changed[t] = r /\ DOMAIN changed = DOMAIN heap /\ \A x \in DOMAIN heap \ {t} : changed[x] = heap[x]
  OBVIOUS
<1> HIDE DEF changed
<1>4. /\ DOMAIN heap' = DOMAIN heap \union {new} /\ heap'[new] = z /\ heap'[t] = r
      /\ \A x \in DOMAIN heap \ {t} : heap'[x] = heap[x]
      /\ heap' = [x \in DOMAIN heap' |-> heap'[x]]
  <2>1. heap' = [x \in DOMAIN changed \union {new} |-> IF x = new THEN z ELSE changed[x]]
    BY DEF With, changed
  <2> QED BY <1>3, <2>1
<1>5. \A x \in DOMAIN heap : IsName(x)' <=> IsName(x)
  BY DEF IsName
<1>6. HeapOK'
  <2>1. IsName(new)'
    BY <1>2 DEF IsName
  <2>3. \A x \in DOMAIN heap' : IsTrace(heap'[x])
    BY <1>4
  <2> QED BY <1>4, <1>5, <2>1, <2>3
<1>7. /\ heap'[t].traces = heap[t].traces /\ heap'[new].stack = <<>> /\ heap'[new].traces = <<>>
      /\ heap'[t].stack = r.stack
  BY <1>4
<1>8. \A x, i, u :
        /\ Recorded(heap', x, i, u) <=> Recorded(heap, x, i, u)
        /\ OnCalls(heap', x, i, u) <=>
             \/ OnCalls(heap, x, i, u)
             \/ heap'[t].stack # heap[t].stack /\ x = t /\ i = 1 /\ u = new
  <2>1. PICK h, k : h = heap /\ k = heap'
    OBVIOUS
  <2>2. Adds(h, k, t, new)
    BY <1>4, <1>7, <2>1 DEF Adds
  <2>3. \A x, i, u :
          /\ Recorded(k, x, i, u) <=> Recorded(h, x, i, u)
          /\ OnCalls(k, x, i, u) <=>
               \/ OnCalls(h, x, i, u)
               \/ k[t].stack # h[t].stack /\ x = t /\ i = 1 /\ u = new
    BY ONLY <2>2, LinksGrow
  <2> QED BY <2>1, <2>3
<1>9. \A x, i : ~Recorded(heap, x, i, new) /\ ~OnCalls(heap, x, i, new)
  BY <1>2, NotHeld
<1>10. LinksOK'
  <2> SUFFICES ASSUME NEW x \in DOMAIN heap', NEW y \in Links(x)'
               PROVE  y \in DOMAIN heap' /\ y = Append(x, Call(y))
    BY DEF LinksOK, Call
  <2>1. y # Null /\ \E i : OnCalls(heap', x, i, y) \/ Recorded(heap', x, i, y)
    BY DEF Links, Range, OnCalls, Recorded
  <2>2. CASE \E i : OnCalls(heap, x, i, y) \/ Recorded(heap, x, i, y)
    BY <1>4, <2>1, <2>2, LinkIsAllocated
  <2>3. CASE x = t /\ y = new
    BY <1>2, <1>4, <2>3
  <2>4. (\E i : OnCalls(heap, x, i, y) \/ Recorded(heap, x, i, y)) \/ (x = t /\ y = new)
    BY <1>8, <2>1
  <2> QED BY <2>2, <2>3, <2>4
<1>11. \A u : u # new => SameLinks(heap', heap, u)
  BY <1>8 DEF SameLinks
<1>12. \A x, i : OnCalls(heap', x, i, new) <=> r.stack # heap[t].stack /\ x = t /\ i = 1
  BY <1>7, <1>8, <1>9
<1>13. \A x, i : ~Recorded(heap', x, i, new)
  BY <1>8, <1>9
<1> QED BY <1>2, <1>4, <1>6, <1>10, <1>11, <1>12, <1>13 DEF Made

(* A call is pushed on the stack of t. *)
Pushes(h, k, t, y) ==
  /\ t \in DOMAIN h /\ y \in Seq(Nat) /\ h[t].stack \in Seq(Seq(Nat)) /\ DOMAIN k = DOMAIN h
  /\ \A x \in DOMAIN h : k[x].traces = h[x].traces
  /\ \A x \in DOMAIN h \ {t} : k[x].stack = h[x].stack
  /\ k[t].stack = Append(h[t].stack, y)

LEMMA LinksPush ==
  ASSUME NEW h, NEW k, NEW t, NEW y, Pushes(h, k, t, y)
  PROVE  \A x, i, u :
           /\ Recorded(k, x, i, u) <=> Recorded(h, x, i, u)
           /\ OnCalls(k, x, i, u) <=>
                \/ OnCalls(h, x, i, u)
                \/ x = t /\ i = Len(h[t].stack) + 1 /\ u = y
<1> USE DEF Pushes
<1>1. ASSUME NEW x, NEW i, NEW u PROVE Recorded(k, x, i, u) <=> Recorded(h, x, i, u)
  BY DEF Recorded
<1>2. PICK s, n : s = h[t].stack /\ n = Len(s)
  OBVIOUS
<1>3. /\ n \in Nat /\ DOMAIN s = 1..n
      /\ DOMAIN Append(s, y) = 1..(n + 1)
      /\ \A i \in 1..n : Append(s, y)[i] = s[i]
      /\ Append(s, y)[n + 1] = y
  <2>1. s \in Seq(Seq(Nat)) /\ n \in Nat /\ DOMAIN s = 1..n
    BY <1>2
  <2>2. /\ Append(s, y) \in Seq(Seq(Nat)) /\ Len(Append(s, y)) = n + 1
        /\ \A i \in 1..n : Append(s, y)[i] = s[i]
        /\ Append(s, y)[n + 1] = y
    BY <1>2, <2>1, AppendProperties
  <2> QED BY <2>1, <2>2, LenProperties
<1>4. ASSUME NEW x, NEW i, NEW u
      PROVE  OnCalls(k, x, i, u) <=>
               \/ OnCalls(h, x, i, u)
               \/ x = t /\ i = n + 1 /\ u = y
  <2>1. CASE x = t
    <3>1. i \in 1..(n + 1) <=> i \in 1..n \/ i = n + 1
      BY <1>3
    <3>2. n + 1 \notin 1..n
      BY <1>3
    <3>3. OnCalls(k, x, i, u) <=> i \in 1..(n + 1) /\ Append(s, y)[i] = u
      BY <1>2, <1>3, <2>1 DEF OnCalls
    <3>4. OnCalls(h, x, i, u) <=> i \in 1..n /\ s[i] = u
      BY <1>2, <1>3, <2>1 DEF OnCalls
    <3> QED BY <1>3, <2>1, <3>1, <3>2, <3>3, <3>4
  <2>2. CASE x # t
    BY <2>2 DEF OnCalls
  <2> QED BY <2>1, <2>2
<1> QED BY <1>1, <1>2, <1>4

(* The innermost calls of some traces end, and some of them are recorded. *)
Ends(h, k, acc, rec) ==
  /\ rec \subseteq acc /\ acc \subseteq DOMAIN h /\ DOMAIN k = DOMAIN h
  /\ \A x \in DOMAIN h : h[x].stack \in Seq(Seq(Nat))
  /\ \A x \in acc : h[x].traces = <<>> /\ h[x].stack # <<>> /\ k[x].stack = Front(h[x].stack)
  /\ \A x \in DOMAIN h \ acc : k[x].stack = h[x].stack
  /\ \A x \in rec : k[x].traces = <<Last(h[x].stack)>>
  /\ \A x \in DOMAIN h \ rec : k[x].traces = h[x].traces

LEMMA LinksEnd ==
  ASSUME NEW h, NEW k, NEW acc, NEW rec, Ends(h, k, acc, rec)
  PROVE  \A x, i, u :
           /\ OnCalls(k, x, i, u) <=> OnCalls(h, x, i, u) /\ ~(x \in acc /\ i = Len(h[x].stack))
           /\ Recorded(k, x, i, u) <=>
                \/ Recorded(h, x, i, u)
                \/ x \in rec /\ i = 1 /\ OnCalls(h, x, Len(h[x].stack), u)
<1> USE DEF Ends
<1>1. ASSUME NEW x \in acc
      PROVE  \E n \in Nat : /\ n > 0 /\ Len(h[x].stack) = n /\ DOMAIN h[x].stack = 1..n
                            /\ DOMAIN Front(h[x].stack) = 1..(n - 1)
                            /\ \A i \in 1..(n - 1) : Front(h[x].stack)[i] = h[x].stack[i]
  <2>1. PICK s, n : s = h[x].stack /\ n = Len(s)
    OBVIOUS
  <2>2. s \in Seq(Seq(Nat)) /\ s # <<>> /\ n \in Nat /\ DOMAIN s = 1..n /\ n > 0
    BY <2>1
  <2>3. Front(s) = [i \in 1..(n - 1) |-> s[i]]
    BY <2>1, <2>2 DEF Front
  <2> QED BY <2>1, <2>2, <2>3
<1>2. ASSUME NEW x, NEW i, NEW u
      PROVE  OnCalls(k, x, i, u) <=> OnCalls(h, x, i, u) /\ ~(x \in acc /\ i = Len(h[x].stack))
  <2>1. CASE x \in acc
    <3>1. PICK n \in Nat : /\ n > 0 /\ Len(h[x].stack) = n /\ DOMAIN h[x].stack = 1..n
                           /\ DOMAIN Front(h[x].stack) = 1..(n - 1)
                           /\ \A j \in 1..(n - 1) : Front(h[x].stack)[j] = h[x].stack[j]
      BY <1>1, <2>1
    <3>2. i \in 1..(n - 1) <=> i \in 1..n /\ i # n
      BY <3>1
    <3>3. OnCalls(k, x, i, u) <=> i \in 1..(n - 1) /\ h[x].stack[i] = u
      BY <2>1, <3>1 DEF OnCalls
    <3>4. OnCalls(h, x, i, u) <=> i \in 1..n /\ h[x].stack[i] = u
      BY <2>1, <3>1 DEF OnCalls
    <3> QED BY <2>1, <3>1, <3>2, <3>3, <3>4
  <2>2. CASE x \notin acc
    BY <2>2 DEF OnCalls
  <2> QED BY <2>1, <2>2
<1>3. ASSUME NEW x, NEW i, NEW u
      PROVE  Recorded(k, x, i, u) <=>
               \/ Recorded(h, x, i, u)
               \/ x \in rec /\ i = 1 /\ OnCalls(h, x, Len(h[x].stack), u)
  <2>1. CASE x \in rec
    <3>1. PICK n \in Nat : n > 0 /\ Len(h[x].stack) = n /\ DOMAIN h[x].stack = 1..n
      BY <1>1, <2>1
    <3>2. OnCalls(h, x, Len(h[x].stack), u) <=> Last(h[x].stack) = u
      BY <2>1, <3>1 DEF OnCalls, Last
    <3>3. k[x].traces = <<Last(h[x].stack)>> /\ h[x].traces = <<>>
      BY <2>1
    <3>4. ~Recorded(h, x, i, u)
      BY <3>3 DEF Recorded
    <3>5. Recorded(k, x, i, u) <=> i = 1 /\ Last(h[x].stack) = u
      BY <2>1, <3>3 DEF Recorded
    <3> QED BY <2>1, <3>2, <3>4, <3>5
  <2>2. CASE x \notin rec
    BY <2>2 DEF Recorded
  <2> QED BY <2>1, <2>2
<1> QED BY <1>2, <1>3

(* A call that ended moves from the calls to the records of its trace. *)
Moves(h, k, t, acc, rec) ==
  /\ rec \subseteq acc
  /\ \A x, i : OnCalls(k, x, i, t) <=> OnCalls(h, x, i, t) /\ ~(x \in acc /\ i = Len(h[x].stack))
  /\ \A x, i : Recorded(k, x, i, t) <=>
                 \/ Recorded(h, x, i, t)
                 \/ x \in rec /\ i = 1 /\ OnCalls(h, x, Len(h[x].stack), t)
  /\ \A x \in acc \ rec : ~OnCalls(h, x, Len(h[x].stack), t)

LEMMA HolderMoves ==
  ASSUME NEW h, NEW k, NEW hd, NEW t, NEW acc, NEW rec, Moves(h, k, t, acc, rec), Held(h, hd, t)
  PROVE  Held(k, hd, t)
<1> USE DEF Moves
<1> PICK w : Holders(h, hd, t) = {w}
  BY DEF Held
<1>1. CASE \E x \in rec : OnCalls(h, x, Len(h[x].stack), t)
  <2>1. PICK x \in rec : OnCalls(h, x, Len(h[x].stack), t)
    BY <1>1
  <2>2. w = <<"called", x, Len(h[x].stack)>>
    BY <2>1, HoldersAre
  <2>3. \A f : ~Waits(hd, f, t)
    <3> SUFFICES ASSUME NEW f, Waits(hd, f, t) PROVE FALSE
      OBVIOUS
    <3>1. w = <<"handler", f>>
      BY HoldersAre
    <3> QED BY <2>2, <3>1
  <2>4. \A y, i : ~Recorded(h, y, i, t)
    <3> SUFFICES ASSUME NEW y, NEW i, Recorded(h, y, i, t) PROVE FALSE
      OBVIOUS
    <3>1. w = <<"recorded", y, i>>
      BY HoldersAre
    <3> QED BY <2>2, <3>1
  <2>5. \A y, i : OnCalls(h, y, i, t) => y = x /\ i = Len(h[x].stack)
    <3> SUFFICES ASSUME NEW y, NEW i, OnCalls(h, y, i, t) PROVE y = x /\ i = Len(h[x].stack)
      OBVIOUS
    <3>1. w = <<"called", y, i>>
      BY HoldersAre
    <3> QED BY <2>2, <3>1
  <2>6. Recorded(k, x, 1, t)
    BY <2>1
  <2>7. \A y, i : ~OnCalls(k, y, i, t)
    BY <2>1, <2>5
  <2>8. \A y, i : Recorded(k, y, i, t) => y = x /\ i = 1
    BY <2>4, <2>5
  <2>9. Holders(k, hd, t) = {<<"recorded", x, 1>>}
    BY <2>3, <2>6, <2>7, <2>8, OnlyRecorded
  <2> QED BY <2>9 DEF Held
<1>2. CASE \A x \in rec : ~OnCalls(h, x, Len(h[x].stack), t)
  <2>1. \A x, i : OnCalls(h, x, i, t) <=> OnCalls(k, x, i, t)
    BY <1>2
  <2>2. \A x, i : Recorded(h, x, i, t) <=> Recorded(k, x, i, t)
    BY <1>2
  <2>3. Holders(h, hd, t) = Holders(k, hd, t)
    BY <2>1, <2>2, SameHolders
  <2> QED BY <2>3 DEF Held
<1> QED BY <1>1, <1>2

------------------------------------------------------------------------------
(* What a free reaches is closed: what a reached trace links to is reached,  *)
(* and all that is reached, other than where it began, is linked from there. *)
LEMMA ReachesLinks ==
  ASSUME Memory, NEW S, NEW x \in Reached(S), \A t \in S : t \in Seq(Nat) /\ Len(t) = 1,
         NEW y \in Links(x)
  PROVE  y \in Reached(S)
<1>1. x \in DOMAIN heap /\ y \in DOMAIN heap /\ y = Append(x, Call(y))
  BY DEF Reached, Memory, LinksOK
<1>2. PICK t \in S : /\ IsPrefix(t, x)
                    /\ \A n \in Len(t)..(Len(x) - 1) :
                         /\ SubSeq(x, 1, n) \in DOMAIN heap
                         /\ SubSeq(x, 1, n + 1) \in Links(SubSeq(x, 1, n))
  BY DEF Reached
<1>3. x \in Seq(Nat) /\ x # <<>> /\ Call(y) \in Nat /\ Len(t) = 1 /\ Len(x) \in Nat
  BY <1>1 DEF Memory, HeapOK, IsName
<1>4. /\ Len(y) = Len(x) + 1 /\ SubSeq(y, 1, Len(x)) = x
      /\ \A m \in 0..Len(x) : SubSeq(y, 1, m) = SubSeq(x, 1, m)
  <2>1. PICK c : c = Call(y)
    OBVIOUS
  <2>2. /\ Len(Append(x, c)) = Len(x) + 1 /\ SubSeq(Append(x, c), 1, Len(x)) = x
        /\ \A m \in 0..Len(x) : SubSeq(Append(x, c), 1, m) = SubSeq(x, 1, m)
    BY <1>3, <2>1, NameExtends
  <2>3. Append(x, c) = y
    BY <1>1, <2>1
  <2> QED BY <2>2, <2>3
<1>5. IsPrefix(t, y)
  <2>1. Len(t) <= Len(x) /\ SubSeq(t, 1, Len(t)) = SubSeq(x, 1, Len(t))
    BY <1>2 DEF IsPrefix
  <2>2. Len(t) \in 0..Len(x) /\ Len(t) <= Len(y)
    BY <1>3, <1>4, <2>1
  <2> QED BY <1>4, <2>1, <2>2 DEF IsPrefix
<1>6. SubSeq(y, 1, Len(y)) = y
  <2>1. y \in Seq(Nat)
    BY <1>1 DEF Memory, HeapOK, IsName
  <2> QED BY <2>1, SubSeqFull
<1>7. ASSUME NEW n \in Len(t)..(Len(y) - 1)
      PROVE  /\ SubSeq(y, 1, n) \in DOMAIN heap
             /\ SubSeq(y, 1, n + 1) \in Links(SubSeq(y, 1, n))
  <2>1. n \in Nat /\ n >= 1 /\ n <= Len(x)
    BY <1>3, <1>4
  <2>2. CASE n = Len(x)
    BY <1>1, <1>4, <1>6, <2>2
  <2>3. CASE n # Len(x)
    <3>1. n \in Len(t)..(Len(x) - 1) /\ n \in 0..Len(x) /\ n + 1 \in 0..Len(x)
      BY <1>3, <2>1, <2>3
    <3>2. SubSeq(y, 1, n) = SubSeq(x, 1, n) /\ SubSeq(y, 1, n + 1) = SubSeq(x, 1, n + 1)
      BY <1>4, <3>1
    <3> QED BY <1>2, <3>1, <3>2
  <2> QED BY <2>2, <2>3
<1> QED BY <1>1, <1>5, <1>7 DEF Reached

LEMMA ReachedIsLinked ==
  ASSUME Memory, NEW S, \A t \in S : t \in Seq(Nat) /\ Len(t) = 1, NEW x \in Reached(S), x \notin S
  PROVE  Front(x) \in Reached(S) /\ x \in Links(Front(x)) /\ Len(x) # 1
<1>1. PICK t \in S : /\ IsPrefix(t, x)
                    /\ \A n \in Len(t)..(Len(x) - 1) :
                         /\ SubSeq(x, 1, n) \in DOMAIN heap
                         /\ SubSeq(x, 1, n + 1) \in Links(SubSeq(x, 1, n))
  BY DEF Reached
<1>2. x \in DOMAIN heap
  BY DEF Reached
<1>3. x \in Seq(Nat) /\ x # <<>> /\ Len(t) = 1 /\ Len(x) \in Nat /\ Len(x) >= 1 /\ t \in Seq(Nat)
  BY <1>2 DEF Memory, HeapOK, IsName
<1>4. SubSeq(x, 1, Len(x)) = x /\ SubSeq(t, 1, Len(t)) = t
  BY <1>3, SubSeqFull
<1>5. Len(x) # 1
  BY <1>1, <1>3, <1>4 DEF IsPrefix
<1>6. PICK m : m = Len(x) - 1
  OBVIOUS
<1>7. m \in Len(t)..(Len(x) - 1) /\ m + 1 = Len(x) /\ m \in Nat /\ m >= 1
  BY <1>3, <1>5, <1>6
<1>8. Front(x) = SubSeq(x, 1, m)
  BY <1>6 DEF Front
<1>9. Front(x) \in DOMAIN heap /\ x \in Links(Front(x))
  BY <1>1, <1>4, <1>7, <1>8
<1>10. Len(Front(x)) = m /\ \A n \in 1..m : SubSeq(Front(x), 1, n) = SubSeq(x, 1, n)
  <2>1. Front(x) = [i \in 1..m |-> x[i]]
    BY <1>3, <1>7, <1>8
  <2>2. Front(x) \in Seq(Nat) /\ Len(Front(x)) = m
    BY <1>3, <1>7, <1>8
  <2>3. ASSUME NEW n \in 1..m PROVE SubSeq(Front(x), 1, n) = SubSeq(x, 1, n)
    <3>1. SubSeq(Front(x), 1, n) = [i \in 1..n |-> Front(x)[i]] /\ SubSeq(x, 1, n) = [i \in 1..n |-> x[i]]
      BY <1>3, <1>7, <2>2
    <3>2. \A i \in 1..n : Front(x)[i] = x[i]
      BY <1>7, <2>1
    <3> QED BY <3>1, <3>2
  <2> QED BY <2>2, <2>3
<1>11. IsPrefix(t, Front(x))
  <2>1. Len(t) \in 1..m
    BY <1>3, <1>7
  <2> QED BY <1>1, <1>10, <2>1 DEF IsPrefix
<1>12. ASSUME NEW n \in Len(t)..(Len(Front(x)) - 1)
       PROVE  /\ SubSeq(Front(x), 1, n) \in DOMAIN heap
              /\ SubSeq(Front(x), 1, n + 1) \in Links(SubSeq(Front(x), 1, n))
  <2>1. n \in 1..m /\ n + 1 \in 1..m /\ n \in Len(t)..(Len(x) - 1)
    BY <1>3, <1>7, <1>10
  <2> QED BY <1>1, <1>10, <2>1
<1> QED BY <1>5, <1>9, <1>11, <1>12 DEF Reached

LEMMA ReachesStart ==
  ASSUME NEW S, NEW t \in S, t \in DOMAIN heap, t \in Seq(Nat)
  PROVE  t \in Reached(S)
<1>1. Len(t) \in Nat /\ Len(t)..(Len(t) - 1) = {}
  OBVIOUS
<1>2. IsPrefix(t, t)
  BY <1>1 DEF IsPrefix
<1> QED BY <1>1, <1>2 DEF Reached

(* What is freed was held only by what is freed with it, or by nobody. *)
LEMMA FreeKeeps ==
  ASSUME Memory, NEW S, \A t \in S : t \in Seq(Nat) /\ Len(t) = 1, calls' = calls,
         heap' = Without(heap, Reached(S)), UNCHANGED handler
  PROVE  /\ HeapOK' /\ LinksOK' /\ HeldOnce' /\ DOMAIN heap' \subseteq DOMAIN heap
         /\ \A t \in DOMAIN heap : Len(t) = 1 => (t \in DOMAIN heap' <=> t \notin S)
         /\ \A f \in Fibers : Busy(f) /\ handler[f].new # None => handler[f].new \in DOMAIN heap'
<1>1. /\ DOMAIN heap' = DOMAIN heap \ Reached(S) /\ heap' = [x \in DOMAIN heap' |-> heap'[x]]
      /\ \A x \in DOMAIN heap' : heap'[x] = heap[x]
  BY DEF Without
<1>2. HeapOK'
  BY <1>1 DEF Memory, HeapOK, IsName
<1>3. \A x, i, y : /\ OnCalls(heap', x, i, y) <=> OnCalls(heap, x, i, y) /\ x \notin Reached(S)
                   /\ Recorded(heap', x, i, y) <=> Recorded(heap, x, i, y) /\ x \notin Reached(S)
  BY <1>1 DEF OnCalls, Recorded
<1>4. ASSUME NEW x, x \notin Reached(S), NEW y \in Links(x), x \in DOMAIN heap
      PROVE  y \in DOMAIN heap'
  <2>1. y \in DOMAIN heap /\ y = Append(x, Call(y))
    BY <1>4 DEF Memory, LinksOK
  <2>2. x \in Seq(Nat) /\ x # <<>> /\ Call(y) \in Nat
    BY <1>4, <2>1 DEF Memory, HeapOK, IsName
  <2>3. Front(y) = x /\ Len(y) # 1
    BY <2>1, <2>2, NameExtends
  <2>4. y \notin S
    BY <2>3
  <2>5. y \notin Reached(S)
    BY <1>4, <2>3, <2>4, ReachedIsLinked
  <2> QED BY <1>1, <2>1, <2>5
<1>5. LinksOK'
  <2> SUFFICES ASSUME NEW x \in DOMAIN heap', NEW y \in Links(x)' PROVE y \in DOMAIN heap' /\ y = Append(x, Call(y))
    BY DEF LinksOK, Call
  <2>1. y \in Links(x)
    BY <1>1 DEF Links
  <2>2. x \in DOMAIN heap /\ x \notin Reached(S)
    BY <1>1
  <2> QED BY <1>4, <2>1, <2>2 DEF Memory, LinksOK
<1>6. ASSUME NEW t \in DOMAIN heap' PROVE Holders(heap', handler', t) = Holders(heap, handler, t)
  <2>1. t \in DOMAIN heap /\ t \notin Reached(S) /\ t # Null
    BY <1>1 DEF Memory, HeapOK, IsName, Null
  <2>2. \A x, i : OnCalls(heap, x, i, t) \/ Recorded(heap, x, i, t) => x \notin Reached(S)
    <3> SUFFICES ASSUME NEW x, NEW i, OnCalls(heap, x, i, t) \/ Recorded(heap, x, i, t), x \in Reached(S)
                 PROVE  FALSE
      OBVIOUS
    <3>1. t \in Links(x)
      BY <2>1, LinkIsAllocated
    <3> QED BY <2>1, <3>1, ReachesLinks
  <2>3. /\ \A x, i : OnCalls(heap', x, i, t) <=> OnCalls(heap, x, i, t)
        /\ \A x, i : Recorded(heap', x, i, t) <=> Recorded(heap, x, i, t)
    BY <1>3, <2>2
  <2>4. PICK k : k = heap'
    OBVIOUS
  <2>5. Holders(k, handler, t) = Holders(heap, handler, t)
    BY <2>3, <2>4, SameHolders
  <2> QED BY <2>4, <2>5
<1>7. HeldOnce'
  BY <1>1, <1>6 DEF Memory, HeldOnce, Held
<1>8. ASSUME NEW t \in DOMAIN heap, Len(t) = 1 PROVE t \in DOMAIN heap' <=> t \notin S
  <2>1. t \in Seq(Nat)
    BY DEF Memory, HeapOK, IsName
  <2>2. t \in S => t \in Reached(S)
    BY <2>1, ReachesStart
  <2>3. t \in Reached(S) => t \in S
    BY <1>8, ReachedIsLinked
  <2> QED BY <1>1, <2>2, <2>3
<1>9. ASSUME NEW f \in Fibers, Busy(f), handler[f].new # None PROVE handler[f].new \in DOMAIN heap'
  <2>1. handler[f].new \in DOMAIN heap
    BY <1>9 DEF Memory, HandlersOK, HandlerOK
  <2>2. PICK t : t = handler[f].new
    OBVIOUS
  <2>3. Waits(handler, f, t)
    BY <1>9, <2>2 DEF Waits, Busy
  <2>4. Len(t) # 1 /\ t \notin S
    <3>1. Len(t) # 1
      BY <2>1, <2>2, <2>3, RootNotHeld
    <3> QED BY <3>1
  <2>5. t \notin Reached(S)
    <3> SUFFICES ASSUME t \in Reached(S) PROVE FALSE
      OBVIOUS
    <3>1. t \in Links(Front(t)) /\ Front(t) \in DOMAIN heap
      BY <2>4, ReachedIsLinked DEF Reached
    <3>2. PICK i : OnCalls(heap, Front(t), i, t) \/ Recorded(heap, Front(t), i, t)
      BY <3>1, LinksAre
    <3>3. PICK w : Holders(heap, handler, t) = {w}
      BY <2>1, <2>2, <2>4 DEF Memory, HeldOnce, Held
    <3>4. w = <<"handler", f>>
      BY <2>3, <3>3, HoldersAre
    <3>5. w = <<"called", Front(t), i>> \/ w = <<"recorded", Front(t), i>>
      BY <3>2, <3>3, HoldersAre
    <3> QED BY <3>4, <3>5
  <2> QED BY <1>1, <2>1, <2>2, <2>5
<1> QED BY <1>1, <1>2, <1>5, <1>7, <1>8, <1>9
------------------------------------------------------------------------------
(* Steps of the program and the worker *)

LEMMA HoldStays ==
  ASSUME Memory, NEW t \in DOMAIN heap, Len(t) # 1,
         \A f : Waits(handler', f, t) <=> Waits(handler, f, t), SameLinks(heap', heap, t)
  PROVE  Held(heap', handler', t)
<1>1. PICK k, kd : k = heap' /\ kd = handler'
  OBVIOUS
<1>2. Holders(k, kd, t) = Holders(heap, handler, t)
  BY <1>1, SameHolders DEF SameLinks
<1> QED BY <1>1, <1>2 DEF Memory, HeldOnce, Held

LEMMA NamesStay ==
  ASSUME calls \in Nat, calls' \in Nat, calls <= calls'
  PROVE  \A t : IsName(t) => IsName(t)'
BY DEF IsName, Call

LEMMA SameMemory ==
  ASSUME Memory, UNCHANGED <<heap, tps, InUse, queue, writing, lost>>,
         calls \in Nat, calls' \in Nat, calls <= calls', HandlersOK',
         \A g : \A t \in Seq(Nat) : Waits(handler', g, t) <=> Waits(handler, g, t)
  PROVE  Memory'
<1> USE DEF Memory
<1>1. HeapOK'
  BY NamesStay DEF HeapOK
<1>2. TpsTyped'
  BY NamesStay DEF TpsTyped
<1>3. RootsOK'
  BY DEF RootsOK
<1>4. LinksOK'
  BY DEF LinksOK, Links, Call
<1>5. HeldOnce'
  <2> SUFFICES ASSUME NEW t \in DOMAIN heap, Len(t) # 1
               PROVE  Held(heap', handler', t)
    BY DEF HeldOnce, Held
  <2>1. t \in Seq(Nat) /\ SameLinks(heap', heap, t)
    BY DEF HeapOK, IsName, SameLinks
  <2> QED BY <2>1, HoldStays
<1> QED BY <1>1, <1>2, <1>3, <1>4, <1>5

LEMMA CallsGrow ==
  ASSUME Inv, [Next]_vars
  PROVE  calls \in Nat /\ calls' \in Nat /\ calls <= calls'
<1>1. calls' = calls \/ calls' = calls + 1
  BY NextCases DEF MethodCall, MethodReturn, BlockCall, HandleBlockCall, FinishBlockCall,
     BlockReturn, FinishMethodCall, Start, Stop, Flush, WorkerTakes, WorkerFrees, WorkerFails,
     vars, program
<1>2. calls \in Nat
  BY BlockTracerAssumption DEF Inv, ProgramOK
<1> QED BY <1>1, <1>2

LEMMA CalledIsName ==
  ASSUME Memory, NEW f \in Fibers, Busy(f), NEW tp \in handler[f].todo
  PROVE  /\ tp.data \in Seq(Nat) /\ tp.data # <<>> /\ Id(f) \in 1..calls /\ Id(f) \in Nat
         /\ Called(f, tp) \in Seq(Nat) /\ Called(f, tp) # Null /\ Len(Called(f, tp)) # 1
         /\ Call(Called(f, tp)) = Id(f) /\ Front(Called(f, tp)) = tp.data
<1>1. handler[f] \in HandlerType /\ HandlerOK(f)
  BY DEF Memory, HandlersOK, Busy
<1>2. tp.data \in Seq(Nat) /\ tp.data # <<>> /\ Id(f) \in 1..calls /\ Id(f) \in Nat
  BY <1>1 DEF HandlerOK, HandlerType, TracePoint
<1> QED BY <1>2, NameExtends DEF Called, Null

(* Links that are left, or that a trace has got to one of its calls.         *)
LEMMA LinksStay ==
  ASSUME Memory, DOMAIN heap \subseteq DOMAIN heap',
         \A x, i, u : u # Null /\ (OnCalls(heap', x, i, u) \/ Recorded(heap', x, i, u)) =>
           \/ \E j : OnCalls(heap, x, j, u) \/ Recorded(heap, x, j, u)
           \/ u \in DOMAIN heap /\ u = Append(x, Call(u))
  PROVE  LinksOK'
<1> SUFFICES ASSUME NEW x \in DOMAIN heap', NEW y \in Links(x)'
             PROVE  y \in DOMAIN heap' /\ y = Append(x, Call(y))
  BY DEF LinksOK, Call
<1>1. y # Null /\ \E i : OnCalls(heap', x, i, y) \/ Recorded(heap', x, i, y)
  BY DEF Links, Range, OnCalls, Recorded
<1>2. \/ \E j : OnCalls(heap, x, j, y) \/ Recorded(heap, x, j, y)
      \/ y \in DOMAIN heap /\ y = Append(x, Call(y))
  BY <1>1
<1> QED BY <1>1, <1>2, LinkIsAllocated

LEMMA MethodCallKeeps ==
  ASSUME Inv, Memory, NEW f \in Fibers, NEW b \in Blocks, MethodCall(f, b)
  PROVE  Memory'
<1>1. calls \in Nat /\ calls' = calls + 1 /\ handler[f] = None
      /\ UNCHANGED <<handler, vm, queue, writing, lost>>
      /\ \A g \in Fibers \ {f} : frames'[g] = frames[g]
  BY DEF MethodCall, Running, worker, Inv, ProgramOK
<1>2. PICK new, z : new = <<calls + 1>> /\ z = Trace(b, FALSE)
  OBVIOUS
<1>3. new \in Seq(Nat) /\ new # <<>> /\ Len(new) = 1 /\ Call(new) = calls + 1
  BY <1>1, <1>2 DEF Call, Last
<1>4. CASE on
  <2>1. /\ heap' = With(heap, new, z) /\ InUse' = InUse \union {new}
        /\ tps' = tps \union {[data |-> new, target |-> b]}
    BY <1>2, <1>4, Enters DEF MethodCall
  <2>2. /\ DOMAIN heap' = DOMAIN heap \union {new} /\ heap' = [x \in DOMAIN heap' |-> heap'[x]]
        /\ heap'[new] = z /\ \A x \in DOMAIN heap \ {new} : heap'[x] = heap[x]
    BY <2>1 DEF With
  <2>3. IsTrace(z) /\ z.stack = <<>> /\ z.traces = <<>>
    BY <1>2, NewTrace
  <2>4. new \notin Used
    <3>1. \A t \in Used : Call(t) \in 1..calls
      BY DEF Memory, Used, HeapOK, TpsTyped, IsName
    <3> QED BY <1>1, <1>3, <3>1
  <2>5. HeapOK'
    <3>1. IsName(new)'
      BY <1>1, <1>3 DEF IsName, Call
    <3>2. \A t \in DOMAIN heap : IsName(t)'
      BY <1>1, NamesStay DEF Memory, HeapOK
    <3> QED BY <2>2, <2>3, <3>1, <3>2 DEF Memory, HeapOK
  <2>6. TpsTyped'
    <3>1. PICK x : x = [data |-> new, target |-> b]
      OBVIOUS
    <3>2. x \in TracePoint /\ x.data = new /\ IsName(new)'
      BY <1>1, <1>3, <3>1 DEF IsName, Call, TracePoint
    <3>3. \A tp \in tps : tp.data # new /\ IsName(tp.data)'
      BY <1>1, <2>4, NamesStay DEF Memory, TpsTyped, Used
    <3>4. tps' = tps \union {x}
      BY <2>1, <3>1
    <3> QED BY <3>2, <3>3, <3>4 DEF Memory, TpsTyped
  <2>7. HandlersOK'
    <3>1. \A g \in Fibers : Busy(g) => frames'[g] = frames[g]
      BY <1>1 DEF Busy
    <3>2. \A g \in Fibers : Busy(g) /\ handler[g].new # None => handler[g].new \in DOMAIN heap'
      BY <2>2 DEF Memory, HandlersOK, HandlerOK
    <3>3. ASSUME NEW g \in Fibers, NEW tp \in handler[g].todo, Busy(g), Called(g, tp) \in Used'
          PROVE  Called(g, tp) \in Used
      <4>1. Called(g, tp) # new
        BY <1>3, <3>3, CalledIsName
      <4>2. Used' = Used \union {new}
        BY <2>1, <2>2 DEF Used
      <4> QED BY <3>3, <4>1, <4>2
    <3> QED BY <1>1, <3>1, <3>2, <3>3, HandlersStay
  <2>8. RootsOK'
    BY <1>1, <2>1, <2>2, <2>4 DEF Memory, RootsOK, Used
  <2>9. \A x, i, u : /\ OnCalls(heap', x, i, u) <=> OnCalls(heap, x, i, u)
                     /\ Recorded(heap', x, i, u) <=> Recorded(heap, x, i, u)
    <3>1. \A i, u : ~OnCalls(heap', new, i, u) /\ ~Recorded(heap', new, i, u)
      BY <2>2, <2>3 DEF OnCalls, Recorded
    <3>2. \A i, u : ~OnCalls(heap, new, i, u) /\ ~Recorded(heap, new, i, u)
      BY <2>4 DEF OnCalls, Recorded, Used
    <3> SUFFICES ASSUME NEW x, NEW i, NEW u
                 PROVE  /\ OnCalls(heap', x, i, u) <=> OnCalls(heap, x, i, u)
                        /\ Recorded(heap', x, i, u) <=> Recorded(heap, x, i, u)
      OBVIOUS
    <3>4. CASE x = new
      BY <3>1, <3>2, <3>4
    <3>5. CASE x # new
      BY <2>2, <3>5 DEF OnCalls, Recorded
    <3> QED BY <3>4, <3>5
  <2>10. LinksOK'
    <3> SUFFICES ASSUME NEW x \in DOMAIN heap', NEW y \in Links(x)'
                 PROVE  y \in DOMAIN heap' /\ y = Append(x, Call(y))
      BY DEF LinksOK, Call
    <3>1. y # Null /\ \E i : OnCalls(heap', x, i, y) \/ Recorded(heap', x, i, y)
      BY DEF Links, Range, OnCalls, Recorded
    <3> QED BY <2>2, <2>9, <3>1, LinkIsAllocated
  <2>11. HeldOnce'
    <3> SUFFICES ASSUME NEW t \in DOMAIN heap', Len(t) # 1
                 PROVE  Held(heap', handler', t)
      BY DEF HeldOnce, Held
    <3>1. t \in DOMAIN heap
      BY <1>3, <2>2
    <3> QED BY <1>1, <2>9, <3>1, HoldStays DEF SameLinks
  <2> QED BY <2>5, <2>6, <2>7, <2>8, <2>10, <2>11 DEF Memory
<1>5. CASE ~on
  <2>1. UNCHANGED <<heap, tps, InUse>>
    BY <1>5 DEF MethodCall, InUse, Entered
  <2>2. \A g \in Fibers : Busy(g) => frames'[g] = frames[g]
    BY <1>1 DEF Busy
  <2>3. Used' = Used
    BY <2>1 DEF Used
  <2>4. HandlersOK'
    BY <1>1, <2>1, <2>2, <2>3, HandlersStay DEF Memory, HandlersOK, HandlerOK
  <2> QED BY <1>1, <2>1, <2>4, SameMemory
<1> QED BY <1>4, <1>5

(* The trace of a call event gets onto the stack. *)
LEMMA FinishMethodCallKeeps ==
  ASSUME Inv, Memory, NEW f \in Fibers, FinishMethodCall(f)
  PROVE  Memory'
<1>1. /\ UNCHANGED <<tps, InUse, queue, writing, lost, handler, vm, frames, calls>> /\ calls \in Nat
      /\ entering[f] # None
  <2>1. UNCHANGED <<tps, queue, writing, lost, handler, vm, frames, calls>> /\ entering[f] # None
    BY DEF FinishMethodCall, worker, program
  <2>2. calls \in Nat
    BY BlockTracerAssumption DEF Inv, ProgramOK
  <2> QED BY <2>1, <2>2, EntersStack
<1>2. PICK t, r : t = entering[f].trace /\ r = [heap[t] EXCEPT !.has = TRUE]
  OBVIOUS
<1>3. t \in DOMAIN heap
  BY <1>1, <1>2 DEF Inv, TracesOK, InUse, Entered
<1>4. CASE UNCHANGED heap
  <2>1. Used' = Used
    BY <1>1, <1>4 DEF Used
  <2>2. HandlersOK'
    BY <1>1, <1>4, <2>1, HandlersStay DEF Memory, HandlersOK, HandlerOK
  <2> QED BY <1>1, <1>4, <2>2, SameMemory
<1>5. CASE heap' = [heap EXCEPT ![t].has = TRUE]
  <2>1. /\ DOMAIN heap' = DOMAIN heap /\ heap'[t] = r
        /\ \A x \in DOMAIN heap \ {t} : heap'[x] = heap[x]
        /\ heap' = [x \in DOMAIN heap' |-> heap'[x]]
    BY <1>2, <1>3, <1>5
  <2>2. IsTrace(r) /\ r.stack = heap[t].stack /\ r.traces = heap[t].traces
    BY <1>2, <1>3, TraceReady DEF Memory, HeapOK
  <2>3. HeapOK'
    BY <1>1, <2>1, <2>2, NamesStay DEF Memory, HeapOK, IsName
  <2>4. TpsTyped'
    BY <1>1 DEF Memory, TpsTyped, IsName
  <2>5. HandlersOK'
    <3>1. Used' = Used
      BY <1>1, <2>1 DEF Used
    <3> QED BY <1>1, <2>1, <3>1, HandlersStay DEF Memory, HandlersOK, HandlerOK
  <2>6. RootsOK'
    BY <1>1, <2>1 DEF Memory, RootsOK
  <2>7. \A x, i, u : /\ OnCalls(heap', x, i, u) <=> OnCalls(heap, x, i, u)
                     /\ Recorded(heap', x, i, u) <=> Recorded(heap, x, i, u)
    <3>1. \A x \in DOMAIN heap : heap'[x].stack = heap[x].stack /\ heap'[x].traces = heap[x].traces
      BY <2>1, <2>2
    <3> QED BY <2>1, <3>1 DEF OnCalls, Recorded
  <2>8. LinksOK'
    BY <2>1, <2>7, LinksStay
  <2>9. HeldOnce'
    <3> SUFFICES ASSUME NEW u \in DOMAIN heap, Len(u) # 1
                 PROVE  Held(heap', handler', u)
      BY <2>1 DEF HeldOnce, Held
    <3>1. SameLinks(heap', heap, u)
      BY <2>7 DEF SameLinks
    <3> QED BY <1>1, <3>1, HoldStays
  <2> QED BY <2>3, <2>4, <2>5, <2>6, <2>8, <2>9 DEF Memory
<1> QED BY <1>2, <1>4, <1>5 DEF FinishMethodCall

LEMMA MethodReturnKeeps ==
  ASSUME Inv, Memory, NEW f \in Fibers, MethodReturn(f)
  PROVE  Memory'
<1>1. handler[f] = None /\ UNCHANGED <<heap, handler, vm, writing, lost, Entered, calls>> /\ calls \in Nat
      /\ \A g \in Fibers \ {f} : frames'[g] = frames[g]
  BY DEF MethodReturn, Running, Inv, ProgramOK, Entered
<1>2. PICK t : t = <<Last(frames[f]).id>>
  OBVIOUS
<1>3. \/ UNCHANGED <<InUse, tps, queue>>
      \/ /\ t \in InUse /\ InUse' = InUse \ {t} /\ queue' = Append(queue, t)
         /\ tps' \subseteq tps
  <2>1. \/ UNCHANGED <<onStack, tps, queue>>
        \/ /\ t \in onStack /\ onStack' = onStack \ {t} /\ queue' = Append(queue, t)
           /\ tps' \subseteq tps
    BY <1>2 DEF MethodReturn
  <2> QED BY <1>1, <2>1 DEF InUse, Inv, TracesOK
<1>4. HeapOK'
  BY <1>1 DEF Memory, HeapOK, IsName
<1>5. tps' \subseteq tps /\ TpsTyped'
  BY <1>1, <1>3 DEF Memory, TpsTyped, IsName
<1>6. HandlersOK'
  <2>1. \A g \in Fibers : Busy(g) => frames'[g] = frames[g]
    BY <1>1 DEF Busy
  <2>2. Used' \subseteq Used
    BY <1>1, <1>5 DEF Used
  <2> QED BY <1>1, <2>1, <2>2, HandlersStay DEF Memory, HandlersOK, HandlerOK
<1>7. RootsOK'
  <2>1. CASE UNCHANGED <<InUse, tps, queue>>
    BY <1>1, <2>1 DEF Memory, RootsOK
  <2>2. CASE /\ t \in InUse /\ InUse' = InUse \ {t} /\ queue' = Append(queue, t)
    <3>1. PICK n \in Nat : /\ DOMAIN queue = 1..n /\ DOMAIN queue' = 1..(n + 1)
                           /\ \A i \in 1..n : queue'[i] = queue[i]
                           /\ queue'[n + 1] = t
      <4>1. queue \in Seq(Methods) /\ t \in Methods
        BY <2>2 DEF Inv, TracesOK
      <4>2. Len(queue) \in Nat /\ DOMAIN queue = 1..Len(queue)
        BY <4>1
      <4>3. queue' \in Seq(Methods) /\ Len(queue') = Len(queue) + 1 /\ queue'[Len(queue) + 1] = t
            /\ \A i \in 1..Len(queue) : queue'[i] = queue[i]
        BY <2>2, <4>1, AppendProperties
      <4>4. DOMAIN queue' = 1..(Len(queue) + 1)
        BY <4>3, LenProperties
      <4> QED BY <4>2, <4>3, <4>4
    <3>2. 1..(n + 1) = 1..n \union {n + 1} /\ n + 1 \notin 1..n
      OBVIOUS
    <3>3. \A i \in 1..n : queue[i] # t /\ queue[i] \in DOMAIN heap /\ queue[i] # writing
      BY <2>2, <3>1 DEF Inv, TracesOK, Memory, RootsOK
    <3>4. t \in DOMAIN heap /\ t # writing /\ t \notin lost
      BY <2>2 DEF Inv, TracesOK
    <3>5. \A i, j \in DOMAIN queue' : queue'[i] = queue'[j] => i = j
      BY <3>1, <3>2, <3>3 DEF Memory, RootsOK
    <3>6. \A i \in DOMAIN queue' : queue'[i] \in DOMAIN heap' /\ queue'[i] # writing'
      BY <1>1, <3>1, <3>2, <3>3, <3>4
    <3>8. \A i \in DOMAIN queue' : queue'[i] \notin lost'
      BY <1>1, <3>1, <3>2, <3>4 DEF Memory, RootsOK
    <3>7. ASSUME NEW u \in DOMAIN heap', Len(u) = 1
          PROVE  u \in InUse' \/ u = writing' \/ u \in lost' \/ \E i \in DOMAIN queue' : queue'[i] = u
      <4>1. CASE u = t
        BY <3>1, <3>2, <4>1
      <4>2. CASE u # t
        <5>1. u \in InUse \/ u = writing \/ u \in lost \/ \E i \in DOMAIN queue : queue[i] = u
          BY <1>1, <3>7 DEF Memory, RootsOK
        <5> QED BY <1>1, <2>2, <3>1, <3>2, <4>2, <5>1
      <4> QED BY <4>1, <4>2
    <3> QED BY <1>1, <3>5, <3>6, <3>7, <3>8 DEF Memory, RootsOK
  <2> QED BY <1>3, <2>1, <2>2
<1>8. LinksOK'
  BY <1>1 DEF Memory, LinksOK, Links, Call
<1>9. HeldOnce'
  BY <1>1 DEF Memory, HeldOnce, Held
<1> QED BY <1>4, <1>5, <1>6, <1>7, <1>8, <1>9 DEF Memory

(* The worker, stop and flush free what belongs to a method's trace. *)
LEMMA StopKeeps ==
  ASSUME Inv, Memory, Stop \/ Flush
  PROVE  Memory'
<1>1. /\ tps' \subseteq tps /\ heap' = Without(heap, Reached(onStack))
      /\ UNCHANGED <<handler, vm, writing, frames, calls>> /\ calls \in Nat
  BY DEF Stop, Flush, Of, worker, program, Inv, ProgramOK
<1>2. \A t \in onStack : t \in Seq(Nat) /\ Len(t) = 1 /\ t \in DOMAIN heap
  BY DEF Inv, TracesOK, InUse, Methods, Memory, HeapOK, IsName
<1>3. /\ HeapOK' /\ LinksOK' /\ HeldOnce' /\ DOMAIN heap' \subseteq DOMAIN heap
      /\ \A t \in DOMAIN heap : Len(t) = 1 => (t \in DOMAIN heap' <=> t \notin onStack)
      /\ \A f \in Fibers : Busy(f) /\ handler[f].new # None => handler[f].new \in DOMAIN heap'
  BY <1>1, <1>2, FreeKeeps
<1>4. TpsTyped'
  BY <1>1 DEF Memory, TpsTyped, IsName
<1>5. HandlersOK'
  <2>1. Used' \subseteq Used
    BY <1>1, <1>3 DEF Used
  <2> QED BY <1>1, <1>3, <2>1, HandlersStay
<1>6. RootsOK'
  <2>1. \A t \in Methods : Len(t) = 1
    BY DEF Methods
  <2>2. \A t \in DOMAIN heap : t \in Methods /\ t \notin InUse => t \in DOMAIN heap'
    BY <1>3, <2>1 DEF InUse
  <2>3. writing' \in DOMAIN heap' \union {None} /\ writing' = writing
    BY <1>1, <2>2 DEF Inv, TracesOK, Memory, RootsOK
  <2>4. lost \subseteq DOMAIN heap'
    BY <2>2 DEF Inv, TracesOK, Memory, RootsOK
  <2>5. \A i \in DOMAIN queue : queue[i] \in DOMAIN heap'
    BY <2>2 DEF Inv, TracesOK, Memory, RootsOK
  <2>6. InUse' = InUse \ onStack
    BY Stopped DEF Inv, TracesOK, InUse
  <2>7. \A t \in DOMAIN heap' : t \in DOMAIN heap /\ (Len(t) = 1 => t \notin onStack)
    BY <1>3
  <2>8. CASE Stop
    <3>1. UNCHANGED <<queue, lost>>
      BY <2>8 DEF Stop, worker
    <3> QED BY <2>3, <2>4, <2>5, <2>6, <2>7, <3>1 DEF Memory, RootsOK
  <2>9. CASE Flush
    <3>1. queue' = <<>> /\ lost' = lost \union {queue[i] : i \in DOMAIN queue}
      BY <2>9 DEF Flush, Range
    <3>2. \A i \in DOMAIN queue : queue[i] # writing
      BY DEF Memory, RootsOK
    <3>3. writing \notin lost' /\ lost' \subseteq DOMAIN heap'
      BY <2>4, <2>5, <3>1, <3>2 DEF Memory, RootsOK
    <3>4. \A t \in DOMAIN heap : Len(t) = 1 => t \in InUse \/ t = writing \/ t \in lost'
      BY <3>1 DEF Memory, RootsOK
    <3>5. DOMAIN queue' = {}
      BY <3>1
    <3> QED BY <2>3, <2>6, <2>7, <3>3, <3>4, <3>5 DEF RootsOK
  <2> QED BY <2>8, <2>9
<1> QED BY <1>3, <1>4, <1>5, <1>6 DEF Memory

LEMMA WorkerFreesKeeps ==
  ASSUME Inv, Memory, WorkerFrees
  PROVE  Memory'
<1>1. /\ writing # None /\ writing' = None /\ heap' = Without(heap, Reached({writing}))
      /\ UNCHANGED <<InUse, tps, handler, vm, queue, lost, frames, calls>> /\ calls \in Nat
  BY DEF WorkerFrees, program, Inv, ProgramOK, stacks, InUse, Entered
<1>2. \A t \in {writing} : t \in Seq(Nat) /\ Len(t) = 1 /\ t \in DOMAIN heap
  <2>1. PICK n \in 1..calls : writing = <<n>>
    BY <1>1 DEF Inv, TracesOK, Methods
  <2>2. n \in Nat
    BY <1>1
  <2>3. writing \in DOMAIN heap
    BY <1>1 DEF Memory, RootsOK
  <2>4. <<n>> \in Seq(Nat) /\ Len(<<n>>) = 1
    BY <2>2
  <2>5. writing \in Seq(Nat) /\ Len(writing) = 1
    BY <2>1, <2>4
  <2> QED BY <2>3, <2>5
<1>3. /\ HeapOK' /\ LinksOK' /\ HeldOnce' /\ DOMAIN heap' \subseteq DOMAIN heap
      /\ \A t \in DOMAIN heap : Len(t) = 1 => (t \in DOMAIN heap' <=> t \notin {writing})
      /\ \A f \in Fibers : Busy(f) /\ handler[f].new # None => handler[f].new \in DOMAIN heap'
  <2>1. PICK S : S = {writing}
    OBVIOUS
  <2>2. \A t \in S : t \in Seq(Nat) /\ Len(t) = 1
    BY <1>2, <2>1
  <2>3. heap' = Without(heap, Reached(S)) /\ UNCHANGED <<calls, handler>>
    BY <1>1, <2>1
  <2>4. /\ HeapOK' /\ LinksOK' /\ HeldOnce' /\ DOMAIN heap' \subseteq DOMAIN heap
        /\ \A t \in DOMAIN heap : Len(t) = 1 => (t \in DOMAIN heap' <=> t \notin S)
        /\ \A f \in Fibers : Busy(f) /\ handler[f].new # None => handler[f].new \in DOMAIN heap'
    BY <2>2, <2>3, FreeKeeps
  <2> QED BY <2>1, <2>4
<1>4. TpsTyped'
  BY <1>1 DEF Memory, TpsTyped, IsName
<1>5. HandlersOK'
  <2>1. Used' \subseteq Used
    BY <1>1, <1>3 DEF Used
  <2>2. \A f \in Fibers : Busy(f) /\ handler[f].new # None => handler[f].new \in DOMAIN heap'
    BY <1>3
  <2>3. UNCHANGED <<handler, vm, frames, calls>> /\ calls \in Nat
    BY <1>1
  <2> HIDE <1>1, <1>2, <1>3
  <2> QED BY <2>1, <2>2, <2>3, HandlersStay
<1>6. RootsOK'
  <2>1. \A i \in DOMAIN queue : Len(queue[i]) = 1 /\ queue[i] # writing /\ queue[i] \in DOMAIN heap
    BY DEF Inv, TracesOK, Methods, Memory, RootsOK
  <2>2. \A i \in DOMAIN queue : queue[i] \in DOMAIN heap' /\ queue[i] # writing'
    <3>1. \A i \in DOMAIN queue : queue[i] \in Seq(Nat)
      BY <2>1 DEF Memory, HeapOK, IsName
    <3> QED BY <1>1, <1>3, <2>1, <3>1, BlockTracerAssumption
  <2>3. ASSUME NEW t \in DOMAIN heap', Len(t) = 1
        PROVE  t \in InUse \/ t \in lost \/ \E i \in DOMAIN queue : queue[i] = t
    BY <1>3, <2>3 DEF Memory, RootsOK
  <2>4. \A t \in Methods : Len(t) = 1
    BY DEF Methods
  <2>5. lost \subseteq DOMAIN heap' /\ None \notin lost
    BY <1>3, <2>4, NoneIsNoMethod DEF Inv, TracesOK, Memory, RootsOK
  <2> QED BY <1>1, <2>2, <2>3, <2>5 DEF Memory, RootsOK
<1> QED BY <1>3, <1>4, <1>5, <1>6 DEF Memory

(* What the worker has is lost. *)
LEMMA WorkerFailsKeeps ==
  ASSUME Inv, Memory, WorkerFails
  PROVE  Memory'
<1>1. /\ writing # None /\ writing' = None /\ lost' = lost \union {writing}
      /\ UNCHANGED <<heap, InUse, tps, handler, vm, queue, frames, calls>> /\ calls \in Nat
  BY DEF WorkerFails, program, Inv, ProgramOK, stacks, InUse, Entered
<1>2. RootsOK'
  <2>1. None \notin lost' /\ \A i \in DOMAIN queue : queue[i] # None
    BY <1>1, NoneIsNoMethod DEF Inv, TracesOK
  <2> QED BY <1>1, <2>1 DEF Memory, RootsOK
<1>3. HandlersOK'
  <2>1. Used' = Used
    BY <1>1 DEF Used
  <2> QED BY <1>1, <2>1, HandlersStay DEF Memory, HandlersOK, HandlerOK
<1>4. HeapOK' /\ TpsTyped' /\ LinksOK' /\ HeldOnce'
  BY <1>1 DEF Memory, HeapOK, IsName, TpsTyped, LinksOK, Links, Call, HeldOnce
<1> QED BY <1>2, <1>3, <1>4 DEF Memory

LEMMA WorkerTakesKeeps ==
  ASSUME Inv, Memory, WorkerTakes
  PROVE  Memory'
<1>1. /\ writing = None /\ queue # <<>> /\ writing' = Head(queue) /\ queue' = Tail(queue)
      /\ UNCHANGED <<heap, InUse, tps, handler, vm, lost, frames, calls>> /\ calls \in Nat
  BY DEF WorkerTakes, program, Inv, ProgramOK, stacks, InUse, Entered
<1>2. PICK n \in Nat : /\ n > 0 /\ DOMAIN queue = 1..n /\ DOMAIN queue' = 1..(n - 1)
                       /\ writing' = queue[1] /\ \A i \in 1..(n - 1) : queue'[i] = queue[i + 1]
  <2>1. queue \in Seq(Methods)
    BY DEF Inv, TracesOK
  <2> QED BY <1>1, <2>1, HeadTailProperties
<1>3. RootsOK'
  <2>1. \A i \in 1..(n - 1) : i + 1 \in 1..n /\ i + 1 # 1
    OBVIOUS
  <2>2. \A i \in 1..n : i = 1 \/ (i - 1 \in 1..(n - 1) /\ (i - 1) + 1 = i)
    OBVIOUS
  <2>3. 1 \in 1..n
    BY <1>2
  <2>4. \A i \in DOMAIN queue' : queue'[i] \in DOMAIN heap /\ queue'[i] # writing'
    BY <1>2, <2>1, <2>3 DEF Memory, RootsOK
  <2>5. \A i, j \in DOMAIN queue' : queue'[i] = queue'[j] => i = j
    <3> SUFFICES ASSUME NEW i \in 1..(n - 1), NEW j \in 1..(n - 1), queue'[i] = queue'[j] PROVE i = j
      BY <1>2
    <3>1. i + 1 = j + 1
      <4>1. \A a, b \in 1..n : queue[a] = queue[b] => a = b
        BY <1>2 DEF Memory, RootsOK
      <4>2. queue[i + 1] = queue[j + 1]
        BY <1>2
      <4> QED BY <2>1, <4>1, <4>2
    <3> QED BY <3>1
  <2>6. ASSUME NEW t \in DOMAIN heap, Len(t) = 1
        PROVE  t \in InUse \/ t = writing' \/ t \in lost \/ \E i \in DOMAIN queue' : queue'[i] = t
    <3>1. CASE \E i \in DOMAIN queue : queue[i] = t
      <4>1. PICK i \in 1..n : queue[i] = t
        BY <1>2, <3>1
      <4>2. CASE i = 1
        BY <1>2, <4>1, <4>2
      <4>3. CASE i # 1
        BY <1>2, <2>2, <4>1, <4>3
      <4> QED BY <4>2, <4>3
    <3>2. CASE t \in InUse \union lost
      BY <3>2
    <3>3. t # writing
      <4>1. t \in Seq(Nat)
        BY DEF Memory, HeapOK, IsName
      <4> QED BY <1>1, <4>1, BlockTracerAssumption
    <3> QED BY <2>6, <3>1, <3>2, <3>3 DEF Memory, RootsOK
  <2>7. writing' \in DOMAIN heap /\ writing' \notin lost
    BY <1>2, <2>3 DEF Memory, RootsOK
  <2>8. \A i \in DOMAIN queue' : queue'[i] \notin lost
    BY <1>2, <2>1 DEF Memory, RootsOK
  <2>9. lost \subseteq DOMAIN heap
    BY DEF Memory, RootsOK
  <2> QED BY <1>1, <2>4, <2>5, <2>6, <2>7, <2>8, <2>9 DEF RootsOK
<1>4. HandlersOK'
  <2>1. Used' = Used
    BY <1>1 DEF Used
  <2> QED BY <1>1, <2>1, HandlersStay DEF Memory, HandlersOK, HandlerOK
<1>5. HeapOK' /\ TpsTyped' /\ LinksOK' /\ HeldOnce'
  BY <1>1 DEF Memory, HeapOK, IsName, TpsTyped, LinksOK, Links, Call, HeldOnce
<1> QED BY <1>3, <1>4, <1>5 DEF Memory

(* What the handler of f works with. *)
LEMMA Handling ==
  ASSUME Inv, Memory, NEW f \in Fibers, NEW tp, vm = f, handler[f].new = None, tp \in handler[f].todo
  PROVE  /\ Busy(f) /\ calls \in Nat /\ Called(f, tp) \notin Used
         /\ \A t \in Seq(Nat) : ~Waits(handler, f, t)
<1>1. Busy(f) /\ HandlerOK(f)
  BY BlockTracerAssumption DEF Memory, HandlersOK
<1>2. Called(f, tp) \in Seq(Nat)
  BY <1>1, CalledIsName
<1>3. Called(f, tp) \notin Used
  BY <1>1, <1>2, BlockTracerAssumption DEF HandlerOK
<1>4. calls \in Nat
  BY BlockTracerAssumption DEF Inv, ProgramOK
<1> QED BY <1>1, <1>3, <1>4, BlockTracerAssumption DEF Waits

LEMMA PushInnerKeeps ==
  ASSUME Inv, Memory, NEW f \in Fibers, NEW tp \in tps, vm = f, handler[f].new = None,
         tp \in handler[f].todo, Valid(tp.data), PushInner(f, tp),
         UNCHANGED <<on, stacks, worker, program>>
  PROVE  Memory'
<1>1. Busy(f) /\ calls \in Nat /\ \A t \in Seq(Nat) : ~Waits(handler, f, t)
  BY Handling
<1>2. PICK t, r : t = tp.data /\ r = Reported([heap[t] EXCEPT !.stack = Append(@, Null)], f)
  OBVIOUS
<1>3. /\ t \in DOMAIN heap /\ heap' = [heap EXCEPT ![t] = r] /\ Done(f, tp)
      /\ UNCHANGED <<tps, InUse, queue, writing, lost, frames, calls>>
  BY <1>2 DEF PushInner, Valid, worker, program, stacks, InUse, Entered
<1>4. IsTrace(r) /\ r.stack = Append(heap[t].stack, Null) /\ r.traces = heap[t].traces
  <2>1. PICK s : s = Append(heap[t].stack, Null)
    OBVIOUS
  <2>2. IsTrace(heap[t]) /\ s \in Seq(Seq(Nat))
    BY <1>3, <2>1, EmptySeq DEF Memory, HeapOK, IsTrace, Null
  <2>3. PICK q : q = [heap[t] EXCEPT !.stack = s]
    OBVIOUS
  <2>4. IsTrace(q) /\ q.stack = s /\ q.traces = heap[t].traces
    BY <2>2, <2>3, TraceStacks
  <2>5. r = Reported(q, f)
    BY <1>2, <2>1, <2>3
  <2> QED BY <2>1, <2>4, <2>5, TraceReports
<1>5. /\ DOMAIN heap' = DOMAIN heap /\ heap'[t] = r /\ \A x \in DOMAIN heap \ {t} : heap'[x] = heap[x]
      /\ heap' = [x \in DOMAIN heap' |-> heap'[x]]
  BY <1>3
<1>6. HeapOK'
  BY <1>3, <1>4, <1>5, NamesStay DEF Memory, HeapOK, IsName
<1>7. TpsTyped'
  BY <1>3 DEF Memory, TpsTyped, IsName
<1>8. /\ HandlersOK'
      /\ \A g : \A u \in Seq(Nat) : Waits(handler', g, u) <=> Waits(handler, g, u)
  <2>1. Used' = Used
    BY <1>3, <1>5 DEF Used
  <2>2. /\ HandlersOK'
        /\ \A g : \A u \in Seq(Nat) : Waits(handler', g, u) <=> Waits(handler, g, u) /\ g # f
    BY <1>1, <1>3, <1>5, <2>1, HandlerDone
  <2> QED BY <1>1, <2>2
<1>9. RootsOK'
  BY <1>3, <1>5 DEF Memory, RootsOK
<1>10. \A x, i, u : /\ Recorded(heap', x, i, u) <=> Recorded(heap, x, i, u)
                    /\ u # Null => (OnCalls(heap', x, i, u) <=> OnCalls(heap, x, i, u))
  <2>1. PICK h, k, y : h = heap /\ k = heap' /\ y = Null
    OBVIOUS
  <2>2. Pushes(h, k, t, y)
    BY <1>3, <1>4, <1>5, <2>1, EmptySeq DEF Memory, HeapOK, IsTrace, Null, Pushes
  <2>3. \A x, i, u : /\ Recorded(k, x, i, u) <=> Recorded(h, x, i, u)
                     /\ u # y => (OnCalls(k, x, i, u) <=> OnCalls(h, x, i, u))
    BY ONLY <2>2, LinksPush
  <2> QED BY <2>1, <2>3
<1>11. LinksOK'
  BY <1>5, <1>10, LinksStay
<1>12. HeldOnce'
  <2> SUFFICES ASSUME NEW u \in DOMAIN heap, Len(u) # 1
               PROVE  Held(heap', handler', u)
    BY <1>5 DEF HeldOnce, Held
  <2>1. u \in Seq(Nat) /\ u # Null
    BY DEF Memory, HeapOK, IsName, Null
  <2>2. \A g : Waits(handler', g, u) <=> Waits(handler, g, u)
    BY <1>8, <2>1
  <2>3. SameLinks(heap', heap, u)
    BY <1>10, <2>1 DEF SameLinks
  <2> QED BY <2>2, <2>3, HoldStays
<1> QED BY <1>6, <1>7, <1>8, <1>9, <1>11, <1>12 DEF Memory

LEMMA PushTraceKeeps ==
  ASSUME Inv, Memory, NEW f \in Fibers, NEW tp \in tps, vm = f, handler[f].new = None,
         tp \in handler[f].todo, Valid(tp.data), PushTrace(f, tp),
         UNCHANGED <<on, stacks, worker, program>>
  PROVE  Memory'
<1>1. Busy(f) /\ calls \in Nat /\ Called(f, tp) \notin Used /\ \A t \in Seq(Nat) : ~Waits(handler, f, t)
  BY Handling
<1>2. PICK t, new, r, z : /\ t = tp.data /\ new = Called(f, tp)
                          /\ r = Reported([heap[t] EXCEPT !.stack = <<new>>], f)
                          /\ z = Trace(NoBlock, FALSE)
  OBVIOUS
<1>3. /\ t \in DOMAIN heap /\ heap[t].stack = <<>> /\ Done(f, tp)
      /\ heap' = With([heap EXCEPT ![t] = r], new, z)
      /\ UNCHANGED <<tps, InUse, queue, writing, lost, frames, calls>>
  BY <1>2 DEF PushTrace, Valid, worker, program, Called, Id, stacks, InUse, Entered
<1>4. IsTrace(r) /\ r.stack = <<new>> /\ r.traces = heap[t].traces
  <2>1. PICK s : s = <<new>>
    OBVIOUS
  <2>2. IsTrace(heap[t]) /\ s \in Seq(Seq(Nat))
    <3>1. new \in Seq(Nat)
      BY <1>1, <1>2, CalledIsName
    <3> QED BY <1>3, <2>1, <3>1 DEF Memory, HeapOK
  <2>3. PICK q : q = [heap[t] EXCEPT !.stack = s]
    OBVIOUS
  <2>4. IsTrace(q) /\ q.stack = s /\ q.traces = heap[t].traces
    BY <2>2, <2>3, TraceStacks
  <2>5. r = Reported(q, f)
    BY <1>2, <2>1, <2>3
  <2> QED BY <2>1, <2>4, <2>5, TraceReports
<1>5. IsTrace(z) /\ z.stack = <<>> /\ z.traces = <<>>
  BY <1>2, NewTrace
<1>6. new \notin DOMAIN heap /\ Id(f) \in 1..calls
  BY <1>1, <1>2, CalledIsName DEF Used
<1>7. Made(t, new, r)
  <2>1. PICK n : n = Id(f)
    OBVIOUS
  <2>2. Makes(t, n, new, r, z)
    BY <1>1, <1>2, <1>3, <1>4, <1>5, <1>6, <2>1 DEF Called, Makes
  <2> QED BY <1>1, <1>3, <2>2, HeapGrows
<1>8. TpsTyped'
  BY <1>3 DEF Memory, TpsTyped, IsName
<1>9. /\ HandlersOK'
      /\ \A g : \A u \in Seq(Nat) : Waits(handler', g, u) <=> Waits(handler, g, u)
  <2>1. Used' \subseteq Used \union {Called(f, tp)}
    BY <1>2, <1>3, <1>7 DEF Used, Made
  <2>2. /\ HandlersOK'
        /\ \A g : \A u \in Seq(Nat) : Waits(handler', g, u) <=> Waits(handler, g, u) /\ g # f
    BY <1>1, <1>3, <1>7, <2>1, HandlerDone DEF Made
  <2> QED BY <1>1, <2>2
<1>10. RootsOK'
  BY <1>3, <1>7 DEF Memory, RootsOK, Made
<1>11. HeldOnce'
  <2> SUFFICES ASSUME NEW u \in DOMAIN heap', Len(u) # 1
               PROVE  Held(heap', handler', u)
    BY DEF HeldOnce, Held
  <2>1. CASE u = new
    <3>1. \A g : ~Waits(handler', g, new)
      BY <1>6, <1>7, <1>9, NotHeld DEF Made
    <3>2. r.stack # heap[t].stack
      BY <1>3, <1>4
    <3>3. PICK k, kd : k = heap' /\ kd = handler'
      OBVIOUS
    <3>4. /\ OnCalls(k, t, 1, new) /\ \A g : ~Waits(kd, g, new)
          /\ \A x, i : OnCalls(k, x, i, new) => x = t /\ i = 1
          /\ \A x, i : ~Recorded(k, x, i, new)
      BY <1>7, <3>1, <3>2, <3>3 DEF Made
    <3>5. Holders(k, kd, new) = {<<"called", t, 1>>}
      BY ONLY <3>4, OnlyCalled
    <3> QED BY <2>1, <3>3, <3>5 DEF Held
  <2>2. CASE u # new
    <3>1. u \in DOMAIN heap /\ u \in Seq(Nat)
      BY <1>7, <2>2 DEF Memory, HeapOK, IsName, Made
    <3>2. \A g : Waits(handler', g, u) <=> Waits(handler, g, u)
      BY <1>9, <3>1
    <3>3. SameLinks(heap', heap, u)
      BY <1>7, <2>2 DEF Made
    <3> QED BY <3>1, <3>2, <3>3, HoldStays
  <2> QED BY <2>1, <2>2
<1> QED BY <1>7, <1>8, <1>9, <1>10, <1>11 DEF Memory, Made

(* A block given to the call of a block: the trace waits in the handler.     *)
LEMMA EnableNestedKeeps ==
  ASSUME Inv, Memory, NEW f \in Fibers, NEW tp \in tps, vm = f, handler[f].new = None,
         tp \in handler[f].todo, Valid(tp.data), EnableNested(f, tp),
         UNCHANGED <<on, stacks, worker, program>>
  PROVE  Memory'
<1>1. Busy(f) /\ calls \in Nat /\ Called(f, tp) \notin Used /\ \A t \in Seq(Nat) : ~Waits(handler, f, t)
  BY Handling
<1>2. PICK t, new, r, z, p : /\ t = tp.data /\ new = Called(f, tp)
                             /\ r = Reported(heap[t], f)
                             /\ z = Trace(handler[f].takes, FALSE)
                             /\ p = [data |-> new, target |-> handler[f].takes]
  OBVIOUS
<1>3. /\ t \in DOMAIN heap
      /\ heap' = With([heap EXCEPT ![t] = r], new, z)
      /\ handler' = [handler EXCEPT ![f].new = new] /\ vm' = None
      /\ tps' = tps \/ (handler[f].takes # NoBlock /\ tps' = tps \union {p})
      /\ UNCHANGED <<InUse, queue, writing, lost, frames, calls>>
  BY <1>2 DEF EnableNested, Valid, worker, program, Called, Id, stacks, InUse, Entered
<1>4. IsTrace(r) /\ r.stack = heap[t].stack /\ r.traces = heap[t].traces
  <2>1. IsTrace(heap[t])
    BY <1>3 DEF Memory, HeapOK
  <2> QED BY <1>2, <2>1, TraceReports
<1>5. IsTrace(z) /\ z.stack = <<>> /\ z.traces = <<>>
  BY <1>2, NewTrace
<1>6. new \notin DOMAIN heap /\ Id(f) \in 1..calls
  BY <1>1, <1>2, CalledIsName DEF Used
<1>7. Made(t, new, r)
  <2>1. PICK n : n = Id(f)
    OBVIOUS
  <2>2. Makes(t, n, new, r, z)
    BY <1>1, <1>2, <1>3, <1>4, <1>5, <1>6, <2>1 DEF Called, Makes
  <2> QED BY <1>1, <1>3, <2>2, HeapGrows
<1>8. TpsTyped'
  <2>1. handler[f] \in HandlerType
    BY <1>1 DEF Memory, HandlersOK, Busy
  <2>2. new \in Seq(Nat) /\ handler[f].takes \in Blocks \union {NoBlock}
    BY <1>3, <1>7, <2>1 DEF HandlerType, Made
  <2>3. handler[f].takes # NoBlock => p \in TracePoint /\ p.data = new
    BY <1>2, <2>2 DEF TracePoint
  <2>4. IsName(new)'
    BY <1>7 DEF Made, HeapOK
  <2>5. \A q \in tps : q.data # new /\ IsName(q.data)'
    BY <1>1, <1>2, <1>3 DEF Memory, TpsTyped, Used, IsName
  <2> QED BY <1>3, <2>3, <2>4, <2>5 DEF Memory, TpsTyped
<1>9. /\ HandlersOK' /\ Waits(handler', f, new)
      /\ \A g : \A u \in Seq(Nat) : Waits(handler', g, u) => Waits(handler, g, u) \/ (g = f /\ u = new)
      /\ \A g : \A u \in Seq(Nat) : Waits(handler, g, u) => Waits(handler', g, u)
  <2>1. p.data = new
    BY <1>2
  <2>2. Used' \subseteq Used \union {Called(f, tp)}
    BY <1>2, <1>3, <1>7, <2>1 DEF Used, Made
  <2>3. DOMAIN heap \subseteq DOMAIN heap' /\ Called(f, tp) \in DOMAIN heap'
    BY <1>2, <1>7 DEF Made
  <2> QED BY <1>1, <1>2, <1>3, <2>2, <2>3, HandlerWaits
<1>10. RootsOK'
  BY <1>3, <1>7 DEF Memory, RootsOK, Made
<1>11. HeldOnce'
  <2> SUFFICES ASSUME NEW u \in DOMAIN heap', Len(u) # 1
               PROVE  Held(heap', handler', u)
    BY DEF HeldOnce, Held
  <2>1. CASE u = new
    <3>1. \A g : Waits(handler', g, new) => g = f
      BY <1>6, <1>7, <1>9, NotHeld DEF Made
    <3>2. PICK k, kd : k = heap' /\ kd = handler'
      OBVIOUS
    <3>3. /\ Waits(kd, f, new) /\ \A g : Waits(kd, g, new) => g = f
          /\ \A x, i : ~OnCalls(k, x, i, new)
          /\ \A x, i : ~Recorded(k, x, i, new)
      BY <1>4, <1>7, <1>9, <3>1, <3>2 DEF Made
    <3>4. Holders(k, kd, new) = {<<"handler", f>>}
      BY ONLY <3>3, OnlyWaits
    <3> QED BY <2>1, <3>2, <3>4 DEF Held
  <2>2. CASE u # new
    <3>1. u \in DOMAIN heap /\ u \in Seq(Nat)
      BY <1>7, <2>2 DEF Memory, HeapOK, IsName, Made
    <3>2. \A g : Waits(handler', g, u) <=> Waits(handler, g, u)
      BY <1>9, <2>2, <3>1
    <3>3. SameLinks(heap', heap, u)
      BY <1>7, <2>2 DEF Made
    <3> QED BY <3>1, <3>2, <3>3, HoldStays
  <2> QED BY <2>1, <2>2
<1> QED BY <1>7, <1>8, <1>9, <1>10, <1>11 DEF Memory, Made

LEMMA HandleBlockCallKeeps ==
  ASSUME Inv, Memory, NEW f \in Fibers, NEW tp, HandleBlockCall(f, tp)
  PROVE  Memory'
<1>1. /\ vm = f /\ handler[f].new = None /\ tp \in handler[f].todo
      /\ UNCHANGED <<on, stacks, worker, program>>
      /\ UNCHANGED <<InUse, queue, writing, lost, frames, calls>>
  BY DEF HandleBlockCall, worker, program, stacks, InUse, Entered
<1>2. /\ Busy(f) /\ calls \in Nat /\ \A t \in Seq(Nat) : ~Waits(handler, f, t)
  BY <1>1, Handling
<1>3. CASE Done(f, tp) /\ UNCHANGED <<heap, tps>>
  <2>1. Used' = Used
    BY <1>3 DEF Used
  <2>2. /\ HandlersOK'
        /\ \A g : \A u \in Seq(Nat) : Waits(handler', g, u) <=> Waits(handler, g, u) /\ g # f
    BY <1>1, <1>2, <1>3, <2>1, HandlerDone
  <2>3. \A g : \A u \in Seq(Nat) : Waits(handler', g, u) <=> Waits(handler, g, u)
    BY <1>2, <2>2
  <2> QED BY <1>1, <1>2, <1>3, <2>2, <2>3, SameMemory
<1>4. CASE UNCHANGED <<heap, tps, vm, handler>>
  <2>1. Used' = Used
    BY <1>4 DEF Used
  <2>2. HandlersOK'
    BY <1>1, <1>2, <1>4, <2>1, HandlersStay DEF Memory, HandlersOK, HandlerOK
  <2> QED BY <1>1, <1>2, <1>4, <2>2, SameMemory
<1>5. CASE tp \in tps /\ Valid(tp.data) /\ PushInner(f, tp)
  BY <1>1, <1>5, PushInnerKeeps
<1>6. CASE tp \in tps /\ Valid(tp.data) /\ PushTrace(f, tp)
  BY <1>1, <1>6, PushTraceKeeps
<1>7. CASE tp \in tps /\ Valid(tp.data) /\ EnableNested(f, tp)
  BY <1>1, <1>7, EnableNestedKeeps
<1> QED BY <1>3, <1>4, <1>5, <1>6, <1>7 DEF HandleBlockCall

(* The trace that waited in the handler is pushed. *)
LEMMA FinishBlockCallKeeps ==
  ASSUME Inv, Memory, NEW f \in Fibers, FinishBlockCall(f)
  PROVE  Memory'
<1>1. /\ vm = None /\ Busy(f) /\ calls \in Nat /\ UNCHANGED <<InUse, tps, queue, writing, lost, frames, calls>>
  BY BlockTracerAssumption DEF FinishBlockCall, Busy, worker, program, Inv, ProgramOK, stacks, InUse, Entered
<1>2. HandlerOK(f) /\ handler[f].new # None
  BY <1>1, BlockTracerAssumption DEF Memory, HandlersOK
<1>3. PICK new : new = handler[f].new
  OBVIOUS
<1>4. PICK tp \in handler[f].todo : new = Called(f, tp)
  BY <1>2, <1>3 DEF HandlerOK
<1>5. PICK owner : owner = tp.data
  OBVIOUS
<1>6. /\ new \in DOMAIN heap /\ new \in Seq(Nat) /\ new # Null /\ Len(new) # 1
      /\ Front(new) = owner /\ new = Append(owner, Call(new)) /\ new # owner
  <2>1. /\ tp.data \in Seq(Nat) /\ new \in Seq(Nat) /\ new # Null /\ Len(new) # 1
        /\ Call(new) = Id(f) /\ Front(new) = tp.data
    BY <1>1, <1>4, CalledIsName
  <2>2. Len(new) = Len(owner) + 1 /\ Len(owner) \in Nat
    BY <1>4, <1>5, <2>1, AppendProperties, <1>1, CalledIsName DEF Called
  <2>3. new # owner
    BY <2>2
  <2> QED BY <1>2, <1>3, <1>4, <1>5, <2>1, <2>3 DEF HandlerOK, Called
<1>7. tp = CHOOSE x \in handler[f].todo : x.data = owner
  BY <1>2, <1>5 DEF HandlerOK
<1>8. Waits(handler, f, new) /\ \A u : Waits(handler, f, u) => u = new
  BY <1>1, <1>3 DEF Waits, Busy
<1>9. CASE UNCHANGED <<heap, vm, handler>>
  <2>1. Used' = Used
    BY <1>1, <1>9 DEF Used
  <2>2. HandlersOK'
    BY <1>1, <1>9, <2>1, HandlersStay DEF Memory, HandlersOK, HandlerOK
  <2> QED BY <1>1, <1>9, <2>2, SameMemory
<1>10. CASE /\ owner \in DOMAIN heap /\ Done(f, tp)
            /\ heap' = [heap EXCEPT ![new].has = @ \/ heap[new].block # NoBlock, ![owner].stack = Append(@, new)]
  <2>1. PICK r, s, q : /\ r = [heap[new] EXCEPT !.has = @ \/ heap[new].block # NoBlock]
                       /\ s = Append(heap[owner].stack, new)
                       /\ q = [heap[owner] EXCEPT !.stack = s]
    OBVIOUS
  <2>2. /\ DOMAIN heap' = DOMAIN heap /\ heap'[new] = r /\ heap'[owner] = q
        /\ \A x \in DOMAIN heap \ {new, owner} : heap'[x] = heap[x]
        /\ heap' = [x \in DOMAIN heap' |-> heap'[x]]
    BY <1>6, <1>10, <2>1 DEF Memory, HeapOK
  <2>3. IsTrace(r) /\ r.stack = heap[new].stack /\ r.traces = heap[new].traces
    BY <1>6, <2>1, TraceReady DEF Memory, HeapOK
  <2>4. heap[owner].stack \in Seq(Seq(Nat)) /\ s \in Seq(Seq(Nat))
    BY <1>6, <1>10, <2>1 DEF Memory, HeapOK, IsTrace
  <2>5. IsTrace(q) /\ q.stack = s /\ q.traces = heap[owner].traces
    BY <1>10, <2>1, <2>4, TraceStacks DEF Memory, HeapOK
  <2>6. HeapOK'
    BY <1>1, <2>2, <2>3, <2>5, NamesStay DEF Memory, HeapOK, IsName
  <2>7. TpsTyped'
    BY <1>1 DEF Memory, TpsTyped, IsName
  <2>8. /\ HandlersOK'
        /\ \A g : \A u \in Seq(Nat) : Waits(handler', g, u) <=> Waits(handler, g, u) /\ g # f
    <3>1. Used' = Used
      BY <1>1, <2>2 DEF Used
    <3> QED BY <1>1, <1>3, <1>4, <1>10, <2>2, <3>1, HandlerDone
  <2>9. RootsOK'
    BY <1>1, <2>2 DEF Memory, RootsOK
  <2>10. \A x, i, u :
           /\ Recorded(heap', x, i, u) <=> Recorded(heap, x, i, u)
           /\ OnCalls(heap', x, i, u) <=>
                \/ OnCalls(heap, x, i, u)
                \/ x = owner /\ i = Len(heap[owner].stack) + 1 /\ u = new
    <3>1. PICK h, k : h = heap /\ k = heap'
      OBVIOUS
    <3>2. Pushes(h, k, owner, new)
      BY <1>6, <1>10, <2>1, <2>2, <2>3, <2>4, <2>5, <3>1 DEF Pushes
    <3> QED BY <3>1, <3>2, LinksPush
  <2>11. LinksOK'
    BY <1>6, <2>2, <2>10, LinksStay
  <2>12. HeldOnce'
    <3> SUFFICES ASSUME NEW u \in DOMAIN heap, Len(u) # 1
                 PROVE  Held(heap', handler', u)
      BY <2>2 DEF HeldOnce, Held
    <3>1. u \in Seq(Nat)
      BY DEF Memory, HeapOK, IsName
    <3>2. CASE u # new
      <4>1. \A g : Waits(handler', g, u) <=> Waits(handler, g, u)
        BY <1>8, <2>8, <3>1, <3>2
      <4>2. SameLinks(heap', heap, u)
        BY <2>10, <3>2 DEF SameLinks
      <4> QED BY <4>1, <4>2, HoldStays
    <3>3. CASE u = new
      <4>1. PICK w : Holders(heap, handler, new) = {w}
        BY <3>3 DEF Memory, HeldOnce, Held
      <4>2. w = <<"handler", f>>
        BY <1>8, <4>1, HoldersAre
      <4>3. \A g : Waits(handler, g, new) => g = f
        <5> SUFFICES ASSUME NEW g, Waits(handler, g, new) PROVE g = f
          OBVIOUS
        <5>1. w = <<"handler", g>>
          BY <4>1, HoldersAre
        <5> QED BY <4>2, <5>1
      <4>4. \A x, i : ~OnCalls(heap, x, i, new) /\ ~Recorded(heap, x, i, new)
        <5> SUFFICES ASSUME NEW x, NEW i, OnCalls(heap, x, i, new) \/ Recorded(heap, x, i, new) PROVE FALSE
          OBVIOUS
        <5>1. w = <<"called", x, i>> \/ w = <<"recorded", x, i>>
          BY <4>1, HoldersAre
        <5> QED BY <4>2, <5>1
      <4>5. PICK k, kd, n : k = heap' /\ kd = handler' /\ n = Len(heap[owner].stack) + 1
        OBVIOUS
      <4>6. /\ OnCalls(k, owner, n, new) /\ \A g : ~Waits(kd, g, new)
            /\ \A x, i : OnCalls(k, x, i, new) => x = owner /\ i = n
            /\ \A x, i : ~Recorded(k, x, i, new)
        BY <1>6, <2>8, <2>10, <4>3, <4>4, <4>5
      <4>7. Holders(k, kd, new) = {<<"called", owner, n>>}
        BY ONLY <4>6, OnlyCalled
      <4> QED BY <3>3, <4>5, <4>7 DEF Held
    <3> QED BY <3>2, <3>3
  <2> QED BY <2>6, <2>7, <2>8, <2>9, <2>11, <2>12 DEF Memory
<1>11. \/ UNCHANGED <<heap, vm, handler>>
       \/ /\ owner \in DOMAIN heap /\ Done(f, tp)
          /\ heap' = [heap EXCEPT ![new].has = @ \/ heap[new].block # NoBlock, ![owner].stack = Append(@, new)]
  BY <1>3, <1>6, <1>7 DEF FinishBlockCall, Valid
<1> QED BY <1>9, <1>10, <1>11

(* The innermost calls of some traces end. *)
LEMMA BlockReturnKeeps ==
  ASSUME Inv, Memory, NEW f \in Fibers, BlockReturn(f)
  PROVE  Memory'
<1>1. /\ handler[f] = None /\ calls \in Nat /\ \A g \in Fibers \ {f} : frames'[g] = frames[g]
      /\ UNCHANGED <<InUse, tps, queue, writing, lost, vm, handler, calls>>
  <2>1. /\ Running(f) /\ frames' = [frames EXCEPT ![f] = Front(@)]
        /\ UNCHANGED <<stacks, worker, tps, vm, handler, calls>>
    BY DEF BlockReturn
  <2> QED BY <2>1 DEF Running, worker, stacks, InUse, Entered, Inv, ProgramOK
<1>2. PICK hit, acc, rec, recorded :
        /\ hit = {tp.data : tp \in Hits(Last(frames[f]).block)}
        /\ acc = Accepting(hit)
        /\ rec = {t \in acc : Last(heap[t].stack) # Null}
        /\ recorded = {Last(heap[t].stack) : t \in rec}
  OBVIOUS
<1>3. ASSUME DOMAIN heap' = DOMAIN heap PROVE HandlersOK'
  <2>1. \A g \in Fibers : Busy(g) => frames'[g] = frames[g]
    BY <1>1 DEF Busy
  <2>2. Used' = Used
    BY <1>1, <1>3 DEF Used
  <2> QED BY <1>1, <1>3, <2>1, <2>2, HandlersStay DEF Memory, HandlersOK, HandlerOK
<1>4. CASE UNCHANGED heap
  BY <1>1, <1>3, <1>4, SameMemory
<1>5. CASE /\ hit \subseteq DOMAIN heap
           /\ heap' = [x \in DOMAIN heap |->
                [heap[x] EXCEPT
                   !.by = IF x \in hit /\ heap[x].has THEN @ \union {f} ELSE @,
                   !.first.over = @ \/ (x \in hit /\ heap[x].first.call = Last(frames[f]).id),
                   !.stack = IF x \in acc THEN Front(@) ELSE @,
                   !.traces = IF x \in rec THEN <<Last(heap[x].stack)>> ELSE @,
                   !.ret = IF x \in recorded THEN Last(frames[f]).id ELSE @]]
  <2>1. DOMAIN heap' = DOMAIN heap /\ heap' = [x \in DOMAIN heap' |-> heap'[x]]
    BY <1>5
  <2>2. /\ rec \subseteq acc /\ acc \subseteq DOMAIN heap
        /\ \A x \in acc : heap[x].traces = <<>> /\ heap[x].stack # <<>>
        /\ \A x \in acc \ rec : Last(heap[x].stack) = Null
    BY <1>2, <1>5 DEF Accepting, Ignores
  <2>3. ASSUME NEW x \in DOMAIN heap
        PROVE  /\ IsTrace(heap'[x])
               /\ heap'[x].stack = IF x \in acc THEN Front(heap[x].stack) ELSE heap[x].stack
               /\ heap'[x].traces = IF x \in rec THEN <<Last(heap[x].stack)>> ELSE heap[x].traces
    <3>1. PICK r, q, b, o, s, ts, n :
            /\ r = heap[x] /\ q = heap'[x]
            /\ b = IF x \in hit /\ heap[x].has THEN heap[x].by \union {f} ELSE heap[x].by
            /\ o = (heap[x].first.over \/ (x \in hit /\ heap[x].first.call = Last(frames[f]).id))
            /\ s = IF x \in acc THEN Front(heap[x].stack) ELSE heap[x].stack
            /\ ts = IF x \in rec THEN <<Last(heap[x].stack)>> ELSE heap[x].traces
            /\ n = IF x \in recorded THEN Last(frames[f]).id ELSE heap[x].ret
      OBVIOUS
    <3>2. IsTrace(r)
      BY <3>1 DEF Memory, HeapOK
    <3>3. q = Ended(r, b, o, s, ts, n)
      BY <1>5, <3>1 DEF Ended
    <3>4. b \in SUBSET Fibers
      BY <3>1, <3>2 DEF IsTrace
    <3>5. s \in Seq(Seq(Nat)) /\ ts \in Seq(Seq(Nat)) /\ Len(ts) <= 1
      <4>1. r.stack \in Seq(Seq(Nat)) /\ r.traces \in Seq(Seq(Nat)) /\ Len(r.traces) <= 1
        BY <3>2 DEF IsTrace
      <4>2. x \in acc => Front(r.stack) \in Seq(Seq(Nat)) /\ Last(r.stack) \in Seq(Nat)
        BY <2>2, <3>1, <4>1 DEF Front, Last
      <4> QED BY <2>2, <3>1, <4>1, <4>2
    <3>6. IsTrace(q) /\ q.stack = s /\ q.traces = ts
      BY ONLY <3>2, <3>3, <3>4, <3>5, TraceEnds
    <3> QED BY <3>1, <3>6
  <2>4. HeapOK'
    BY <1>1, <2>1, <2>3, NamesStay DEF Memory, HeapOK, IsName
  <2>5. TpsTyped'
    BY <1>1 DEF Memory, TpsTyped, IsName
  <2>6. RootsOK'
    BY <1>1, <2>1 DEF Memory, RootsOK
  <2>7. \A x, i, u :
          /\ OnCalls(heap', x, i, u) <=> OnCalls(heap, x, i, u) /\ ~(x \in acc /\ i = Len(heap[x].stack))
          /\ Recorded(heap', x, i, u) <=>
               \/ Recorded(heap, x, i, u)
               \/ x \in rec /\ i = 1 /\ OnCalls(heap, x, Len(heap[x].stack), u)
    <3>1. PICK h, k : h = heap /\ k = heap'
      OBVIOUS
    <3>2. \A x \in DOMAIN heap : heap[x].stack \in Seq(Seq(Nat))
      BY DEF Memory, HeapOK, IsTrace
    <3>3. Ends(h, k, acc, rec)
      BY <2>1, <2>2, <2>3, <3>1, <3>2 DEF Ends
    <3> QED BY <3>1, <3>3, LinksEnd
  <2>8. LinksOK'
    BY <2>1, <2>7, LinksStay
  <2>9. HeldOnce'
    <3> SUFFICES ASSUME NEW t \in DOMAIN heap, Len(t) # 1
                 PROVE  Held(heap', handler', t)
      BY <2>1 DEF HeldOnce, Held
    <3>1. t # Null
      BY DEF Memory, HeapOK, IsName, Null
    <3>2. \A x \in acc \ rec : ~OnCalls(heap, x, Len(heap[x].stack), t)
      BY <2>2, <3>1 DEF OnCalls, Last
    <3>3. Held(heap, handler, t)
      BY DEF Memory, HeldOnce
    <3>4. PICK h, k : h = heap /\ k = heap'
      OBVIOUS
    <3>5. Moves(h, k, t, acc, rec)
      BY <2>2, <2>7, <3>2, <3>4 DEF Moves
    <3>6. Held(k, handler, t)
      BY <3>3, <3>4, <3>5, HolderMoves
    <3> QED BY <1>1, <3>4, <3>6 DEF Held
  <2> QED BY <1>3, <2>1, <2>4, <2>5, <2>6, <2>8, <2>9 DEF Memory
<1>6. UNCHANGED heap \/ ~(\E t \in hit : ~Valid(t))
  BY <1>2 DEF BlockReturn
<1>7. CASE ~(\E t \in hit : ~Valid(t))
  BY <1>2, <1>5, <1>7 DEF BlockReturn, Valid
<1> QED BY <1>4, <1>6, <1>7

LEMMA BlockCallKeeps ==
  ASSUME Inv, Memory, NEW f \in Fibers, NEW c \in Blocks, NEW d \in Blocks \union {NoBlock},
         BlockCall(f, c, d)
  PROVE  Memory'
<1>1. /\ HandlersOK'
      /\ \A g : \A t \in Seq(Nat) : Waits(handler', g, t) <=> Waits(handler, g, t)
  BY HandlerBegins
<1>2. UNCHANGED <<heap, tps, InUse, queue, writing, lost>> /\ calls' = calls + 1 /\ calls \in Nat
  BY DEF BlockCall, worker, Inv, ProgramOK, stacks, InUse, Entered
<1> QED BY <1>1, <1>2, SameMemory

LEMMA MemoryStep ==
  ASSUME Inv, Memory, [Next]_vars
  PROVE  Memory'
<1>1. CASE Start \/ UNCHANGED vars
  <2>1. UNCHANGED <<heap, tps, InUse, queue, writing, lost, handler, vm, frames, calls>> /\ calls \in Nat
    BY <1>1 DEF Start, vars, worker, program, Inv, ProgramOK, stacks, InUse, Entered
  <2>2. Used' = Used
    BY <2>1 DEF Used
  <2>3. HandlersOK'
    BY <2>1, <2>2, HandlersStay DEF Memory, HandlersOK, HandlerOK
  <2> QED BY <2>1, <2>3, SameMemory
<1> QED
  BY <1>1, NextCases, MethodCallKeeps, MethodReturnKeeps, BlockCallKeeps, HandleBlockCallKeeps,
     FinishMethodCallKeeps, FinishBlockCallKeeps, BlockReturnKeeps, StopKeeps, WorkerTakesKeeps,
     WorkerFreesKeeps, WorkerFailsKeeps

LEMMA MemoryInvariant == Spec => [](Inv /\ Memory)
<1>1. Inv /\ Memory /\ [Next]_vars => Memory'
  BY MemoryStep
<1> QED
  BY InvInductive, MemoryInit, <1>1, PTL DEF Spec

------------------------------------------------------------------------------
(* The memory a step touches is that of a trace point which fired, or that a *)
(* handler goes on with.                                                     *)
LEMMA FaultStep ==
  ASSUME Inv, Memory, FaultCauses, [Next]_vars
  PROVE  FaultCauses'
<1> SUFFICES ASSUME fault' PROVE FaultCauses'
  BY DEF FaultCauses
<1> USE DEF Inv
<1>1. ASSUME fault PROVE FaultCauses'
  <2>1. UNCHANGED vars
    BY <1>1, NextCases
       DEF MethodCall, FinishMethodCall, MethodReturn, BlockCall, HandleBlockCall, FinishBlockCall,
           BlockReturn, Start, Stop, Flush, WorkerTakes, WorkerFrees, WorkerFails, Running
  <2>2. UNCHANGED <<tps, entering, handler, heap, writing>>
    BY <2>1 DEF vars, stacks, worker
  <2> QED
    BY <1>1, <2>2 DEF FaultCauses, Valid
<1>2. ASSUME NEW tp \in tps, ~Valid(tp.data), UNCHANGED <<tps, heap, writing>>
      PROVE  FaultCauses'
  <2>1. Len(tp.data) > 1
    BY <1>2, InvalidIsNested
  <2> QED
    BY <1>2, <2>1 DEF FaultCauses, Valid
<1>3. ASSUME NEW f \in Fibers, NEW tp, HandleBlockCall(f, tp), ~fault
      PROVE  FaultCauses'
  <2>1. tp \in tps /\ ~Valid(tp.data) /\ UNCHANGED <<heap, tps, writing>>
    BY <1>3 DEF HandleBlockCall, worker
  <2> QED
    BY <1>2, <2>1
<1>4. ASSUME NEW f \in Fibers, BlockReturn(f), ~fault
      PROVE  FaultCauses'
  <2>1. PICK t \in {tp.data : tp \in Hits(Last(frames[f]).block)} : ~Valid(t)
    BY <1>4 DEF BlockReturn
  <2>2. UNCHANGED <<heap, tps, writing>>
    BY <1>4, <2>1 DEF BlockReturn, worker
  <2>3. PICK tp \in tps : t = tp.data
    BY <2>1 DEF Hits
  <2> QED
    BY <1>2, <2>1, <2>2, <2>3
<1>5. ASSUME NEW f \in Fibers, FinishBlockCall(f), ~fault
      PROVE  FaultCauses'
  <2>1. ~Valid(Front(handler[f].new)) /\ UNCHANGED <<heap, handler, writing>>
    BY <1>5 DEF FinishBlockCall, worker
  <2>2. handler[f] # None /\ handler[f].new # None
    BY <1>5, BlockTracerAssumption DEF FinishBlockCall, Memory, HandlersOK, Busy
  <2> QED
    BY <2>1, <2>2 DEF FaultCauses, Valid
<1>6. ASSUME NEW f \in Fibers, FinishMethodCall(f), ~fault
      PROVE  FaultCauses'
  <2>1. entering[f] # None /\ entering[f].found /\ entering[f].stale /\ UNCHANGED entering
    BY <1>6 DEF FinishMethodCall, stacks
  <2> QED
    BY <2>1 DEF FaultCauses
<1> QED
  BY <1>1, <1>3, <1>4, <1>5, <1>6, NextCases
     DEF MethodCall, MethodReturn, BlockCall, Start, Stop, Flush,
         WorkerTakes, WorkerFrees, WorkerFails, vars

(* A handler touches freed memory, or memory that the worker reads, only by  *)
(* the trace point of a nested block (racer.cc:791), by an iterator that     *)
(* stop made stale (racer.cc:639), or when it was interrupted (racer.cc:796).*)
THEOREM OnlyTheseFaults == Spec => []FaultCauses
<1>1. Init => FaultCauses
  BY DEF Init, FaultCauses
<1> QED
  BY <1>1, FaultStep, MemoryInvariant, PTL DEF Spec

------------------------------------------------------------------------------
(* The owners of a method's trace. *)
RootOwners(t) ==
  {<<"stack", t>> : x \in onStack \intersect {t}}
    \union {<<"worker", t>> : x \in {writing} \intersect {t}}
    \union {<<"lost", t>> : x \in lost \intersect {t}}
    \union {<<"queue", i>> : i \in {j \in DOMAIN queue : queue[j] = t}}
    \union {<<"entering", f>> : f \in {g \in Fibers : entering[g] # None /\ entering[g].trace = t}}

LEMMA OwnersAre ==
  ASSUME NEW t
  PROVE  OwnersOf(t) = RootOwners(t) \union Holders(heap, handler, t)
BY DEF OwnersOf, RootOwners, Holders

LEMMA RootsAreOwned ==
  ASSUME Inv, Memory, NEW t \in DOMAIN heap, Len(t) = 1
  PROVE  \E w : RootOwners(t) = {w}
<1>1. t \in Seq(Nat)
  BY DEF Memory, HeapOK, IsName
<1>2. t # None
  BY <1>1, BlockTracerAssumption
<1> DEFINE E == {g \in Fibers : entering[g] # None /\ entering[g].trace = t}
           Q == {j \in DOMAIN queue : queue[j] = t}
<1>0. E # {} <=> t \in Entered
  BY DEF Entered
<1>8. /\ t \in onStack => t \notin lost /\ t # writing /\ Q = {} /\ E = {}
      /\ t \in Entered => t \notin lost /\ t # writing /\ Q = {} /\ t \notin onStack
  BY <1>0 DEF Inv, TracesOK, InUse
<1>9. /\ t = writing => t \notin lost /\ Q = {}
      /\ t \in lost => Q = {}
  BY DEF Memory, RootsOK
<1>10. RootOwners(t) = {<<"stack", t>> : x \in onStack \intersect {t}}
                         \union {<<"worker", t>> : x \in {writing} \intersect {t}}
                         \union {<<"lost", t>> : x \in lost \intersect {t}}
                         \union {<<"queue", i>> : i \in Q}
                         \union {<<"entering", f>> : f \in E}
  BY DEF RootOwners
<1>11. \A i, j \in Q : i = j
  BY DEF Memory, RootsOK
<1>12. \A f, g \in E : f = g
  BY DEF Inv, TracesOK
<1>13. t \in onStack \/ t = writing \/ t \in lost \/ t \in Entered \/ Q # {}
  BY DEF Memory, RootsOK, InUse
<1> HIDE DEF E, Q
<1>3. CASE t \in onStack
  <2>1. RootOwners(t) = {<<"stack", t>>}
    BY <1>3, <1>8, <1>10
  <2> QED BY <2>1
<1>4. CASE t = writing
  <2>1. t \notin onStack /\ E = {}
    BY <1>0, <1>4, <1>8
  <2>2. RootOwners(t) = {<<"worker", t>>}
    BY <1>4, <1>9, <1>10, <2>1
  <2> QED BY <2>2
<1>5. CASE t \in lost
  <2>1. t \notin onStack /\ t # writing /\ E = {}
    BY <1>0, <1>5, <1>8, <1>9
  <2>2. RootOwners(t) = {<<"lost", t>>}
    BY <1>5, <1>9, <1>10, <2>1
  <2> QED BY <2>2
<1>6. CASE t \in Entered
  <2>1. PICK f \in E : TRUE
    BY <1>0, <1>6
  <2>2. E = {f}
    BY <1>12, <2>1
  <2>3. RootOwners(t) = {<<"entering", f>>}
    BY <1>6, <1>8, <1>10, <2>2
  <2> QED BY <2>3
<1>7. CASE Q # {}
  <2>1. PICK i \in Q : TRUE
    BY <1>7
  <2>2. Q = {i}
    BY <1>11, <2>1
  <2>3. t \notin onStack /\ t # writing /\ t \notin lost /\ E = {}
    BY <1>0, <1>7, <1>8, <1>9
  <2>4. RootOwners(t) = {<<"queue", i>>}
    BY <1>10, <2>2, <2>3
  <2> QED BY <2>4
<1> QED BY <1>3, <1>4, <1>5, <1>6, <1>7, <1>13

LEMMA OthersAreNoRoots ==
  ASSUME Inv, NEW t, Len(t) # 1, t # None
  PROVE  RootOwners(t) = {}
<1>1. t \notin Methods
  BY DEF Methods
<1>2. t \notin onStack /\ t # writing /\ t \notin lost
  BY <1>1 DEF Inv, TracesOK, InUse
<1>3. \A i \in DOMAIN queue : queue[i] # t
  BY <1>1 DEF Inv, TracesOK
<1>4. \A g \in Fibers : entering[g] # None => entering[g].trace # t
  BY <1>1 DEF Inv, TracesOK, InUse, Entered
<1> QED BY <1>2, <1>3, <1>4 DEF RootOwners

(* Every allocated trace is owned exactly once, and what is owned is         *)
(* allocated: whatever a handler, return, stop, flush and the worker do, none *)
(* is freed twice, and none leaks but those which a worker that failed to    *)
(* send has left (racer.cc:639, 796, worker.cc:176, 181, traces.cc:25).      *)
THEOREM TracesAreOwnedOnce == Spec => []OwnedOnce
<1>1. ASSUME Inv, Memory, NEW t \in DOMAIN heap
      PROVE  Cardinality(OwnersOf(t)) = 1
  <2>1. t \in Seq(Nat) /\ t # None
    BY <1>1, BlockTracerAssumption DEF Memory, HeapOK, IsName
  <2>2. CASE Len(t) = 1
    <3>1. PICK w : RootOwners(t) = {w}
      BY <1>1, <2>2, RootsAreOwned
    <3>2. Holders(heap, handler, t) = {}
      BY <1>1, <2>2, RootNotHeld, HoldersAre
    <3>3. OwnersOf(t) = {w}
      BY <3>1, <3>2, OwnersAre
    <3> QED BY <3>3, FS_Singleton
  <2>3. CASE Len(t) # 1
    <3>1. PICK w : Holders(heap, handler, t) = {w}
      BY <1>1, <2>3 DEF Memory, HeldOnce, Held
    <3>2. RootOwners(t) = {}
      BY <1>1, <2>1, <2>3, OthersAreNoRoots
    <3>3. OwnersOf(t) = {w}
      BY <3>1, <3>2, OwnersAre
    <3> QED BY <3>3, FS_Singleton
  <2> QED BY <2>2, <2>3
<1>2. Inv /\ Memory => \A t \in DOMAIN heap : Links(t) \subseteq DOMAIN heap
  BY DEF Memory, LinksOK
<1>3. Inv /\ Memory => onStack \union Range(queue) \union lost \subseteq DOMAIN heap
  BY DEF Inv, TracesOK, InUse, Memory, RootsOK, Range
<1>4. Inv /\ Memory => OwnedOnce
  BY <1>1, <1>2, <1>3 DEF OwnedOnce
<1> QED BY <1>4, MemoryInvariant, PTL

(* Flags *)
Flags == on \in BOOLEAN /\ fault \in BOOLEAN /\ failed \in BOOLEAN /\ present \subseteq Fibers

LEMMA FlagsStep ==
  ASSUME Flags, [Next]_vars
  PROVE  Flags'
<1> USE DEF Flags, stacks, worker
<1>1. on' \in BOOLEAN
  BY NextCases DEF MethodCall, FinishMethodCall, MethodReturn, BlockCall, HandleBlockCall,
     FinishBlockCall, BlockReturn, Start, Stop, Flush, WorkerTakes, WorkerFrees, WorkerFails, vars
<1>2. fault' \in BOOLEAN
  BY NextCases DEF MethodCall, FinishMethodCall, MethodReturn, BlockCall, HandleBlockCall,
     FinishBlockCall, BlockReturn, Start, Stop, Flush, WorkerTakes, WorkerFrees, WorkerFails, vars
<1>3. failed' \in BOOLEAN
  BY NextCases DEF MethodCall, FinishMethodCall, MethodReturn, BlockCall, HandleBlockCall,
     FinishBlockCall, BlockReturn, Start, Stop, Flush, WorkerTakes, WorkerFrees, WorkerFails, vars
<1>4. present' \subseteq Fibers
  BY NextCases DEF MethodCall, FinishMethodCall, MethodReturn, BlockCall, HandleBlockCall,
     FinishBlockCall, BlockReturn, Start, Stop, Flush, ClearStacks, WorkerTakes, WorkerFrees,
     WorkerFails, vars
<1> QED BY <1>1, <1>2, <1>3, <1>4

(* Trace points watch blocks and are numbered by calls, a block's trace has  *)
(* at most one record, events come from fibers, and whoever holds the VM     *)
(* lock is in a handler (racer.cc:413, 640, 791).                            *)
THEOREM BlockTracerTypes == Spec => []TypeOK
<1>1. Init => Flags
  BY DEF Init, Flags
<1>2. Flags /\ [Next]_vars => Flags'
  BY FlagsStep
<1>3. Inv /\ Memory /\ Flags => TypeOK
  <2> SUFFICES ASSUME Inv, Memory, Flags PROVE TypeOK
    OBVIOUS
  <2>1. \A tp \in tps : tp.target \in Blocks /\ Call(tp.data) \in 1..MaxCalls
    BY BlockTracerAssumption DEF Memory, TpsTyped, TracePoint, IsName, Inv, ProgramOK
  <2>2. \A t \in DOMAIN heap : Len(heap[t].traces) <= 1 /\ heap[t].by \subseteq Fibers
    BY DEF Memory, HeapOK, IsTrace
  <2>3. vm # None => handler[vm] # None
    BY DEF Memory, HandlersOK, Busy
  <2>4. onStack \union lost \subseteq DOMAIN heap
    BY DEF Inv, TracesOK, InUse, Memory, RootsOK
  <2>5. \A f \in Fibers : entering[f] # None => entering[f].trace \in DOMAIN heap
    BY DEF Inv, TracesOK, InUse, Entered
  <2> QED BY <2>1, <2>2, <2>3, <2>4, <2>5 DEF TypeOK, Flags
<1> QED BY <1>1, <1>2, <1>3, MemoryInvariant, PTL DEF Spec

==============================================================================
