--------------------------- MODULE TinyQueueProofs ---------------------------
(***************************************************************************)
(* Proofs about TinyQueue, for every number of threads, messages and       *)
(* nodes.  IInv is inductive; each named part of it is preserved by a      *)
(* lemma of its own, with one step per action.                             *)
(***************************************************************************)
EXTENDS TinyQueue, SequenceTheorems, FiniteSetTheorems, TLAPS

(* A nonempty sequence has at least one element. *)
LEMMA NonemptyLen ==
  ASSUME NEW S, NEW s \in Seq(S), s # <<>>
  PROVE  Len(s) \in Nat /\ Len(s) >= 1 /\ (Len(s) = 1 \/ Len(s) >= 2)
<1>1. Len(s) \in Nat /\ Len(s) >= 1
  BY EmptySeq
<1>2. \A n \in Nat : n >= 1 => n = 1 \/ n >= 2
  OBVIOUS
<1> QED
  BY <1>1, <1>2

(* The types are preserved. *)
LEMMA TypeOKStep ==
  ASSUME IInv, [Next]_vars
  PROVE  TypeOK'
<1> USE ConstantsAssumption DEF IInv, TypeOK, Threads, InPush, InPop, Goto, heapVars
<1>1. ASSUME NEW p \in Producers, NEW m \in Messages, NEW n \in Nodes, PushAlloc(p, m, n)
      PROVE  TypeOK'
  BY <1>1 DEF PushAlloc
<1>2. ASSUME NEW p \in Producers, NEW m \in Messages, PushFails(p, m)
      PROVE  TypeOK'
  BY <1>2 DEF PushFails
<1>3. ASSUME NEW p \in Producers, PushLock(p)
      PROVE  TypeOK'
  BY <1>3 DEF PushLock
<1>4. ASSUME NEW p \in Producers, PushLinkFirst(p)
      PROVE  TypeOK'
  <2>1. node[p] \in Nodes
    BY <1>4 DEF PushLinkFirst, Ownership, Held
  <2> QED
    BY <1>4, <2>1 DEF PushLinkFirst
<1>5. ASSUME NEW p \in Producers, PushLinkNext(p)
      PROVE  TypeOK'
  BY <1>5 DEF PushLinkNext
<1>6. ASSUME NEW p \in Producers, PushAdvance(p)
      PROVE  TypeOK'
  <2>1. node[p] \in Nodes
    BY <1>6 DEF PushAdvance, Ownership, Held
  <2> QED
    BY <1>6, <2>1 DEF PushAdvance
<1>7. ASSUME NEW p \in Producers, PushUnlock(p)
      PROVE  TypeOK'
  BY <1>7 DEF PushUnlock
<1>8. ASSUME NEW p \in Producers, PushSignal(p)
      PROVE  TypeOK'
  BY <1>8 DEF PushSignal
<1>9. ASSUME NEW c \in Consumers, PopCall(c)
      PROVE  TypeOK'
  BY <1>9 DEF PopCall
<1>10. ASSUME NEW c \in Consumers, PopLock(c)
      PROVE  TypeOK'
  BY <1>10 DEF PopLock
<1>11. ASSUME NEW c \in Consumers, PopWait(c)
      PROVE  TypeOK'
  BY <1>11 DEF PopWait
<1>12. ASSUME NEW c \in Consumers, PopSpurious(c)
      PROVE  TypeOK'
  BY <1>12 DEF PopSpurious
<1>13. ASSUME NEW c \in Consumers, PopTake(c)
      PROVE  TypeOK'
  <2>1. chain # <<>> /\ Tail(chain) \in Seq(Nodes)
    BY <1>13 DEF PopTake, ListShape
  <2> QED
    BY <1>13, <2>1 DEF PopTake
<1>14. ASSUME NEW c \in Consumers, PopFree(c)
      PROVE  TypeOK'
  BY <1>14 DEF PopFree
<1>15. ASSUME NEW c \in Consumers, PopUnlock(c)
      PROVE  TypeOK'
  BY <1>15 DEF PopUnlock
<1>16. ASSUME NEW c \in Consumers, Quit(c)
      PROVE  TypeOK'
  BY <1>16 DEF Quit
<1>17. CASE Destroy
  BY <1>17 DEF Destroy
<1>18. CASE UNCHANGED vars
  BY <1>18 DEF vars
<1> QED
  BY <1>1, <1>2, <1>3, <1>4, <1>5, <1>6, <1>7, <1>8, <1>9, <1>10, <1>11,
     <1>12, <1>13, <1>14, <1>15, <1>16, <1>17, <1>18
  DEF Next, PushStep, PopStep

(* The mutex is held by the one thread that is past lock and before unlock. *)
LEMMA MutexOKStep ==
  ASSUME IInv, [Next]_vars
  PROVE  MutexOK'
<1> USE ConstantsAssumption DEF IInv, TypeOK, Threads, InPush, InPop, Goto, heapVars, MutexOK, Critical
<1>1. ASSUME NEW p \in Producers, NEW m \in Messages, NEW n \in Nodes, PushAlloc(p, m, n)
      PROVE  MutexOK'
  BY <1>1 DEF PushAlloc
<1>2. ASSUME NEW p \in Producers, NEW m \in Messages, PushFails(p, m)
      PROVE  MutexOK'
  BY <1>2 DEF PushFails
<1>3. ASSUME NEW p \in Producers, PushLock(p)
      PROVE  MutexOK'
  BY <1>3 DEF PushLock
<1>4. ASSUME NEW p \in Producers, PushLinkFirst(p)
      PROVE  MutexOK'
  BY <1>4 DEF PushLinkFirst
<1>5. ASSUME NEW p \in Producers, PushLinkNext(p)
      PROVE  MutexOK'
  BY <1>5 DEF PushLinkNext
<1>6. ASSUME NEW p \in Producers, PushAdvance(p)
      PROVE  MutexOK'
  BY <1>6 DEF PushAdvance
<1>7. ASSUME NEW p \in Producers, PushUnlock(p)
      PROVE  MutexOK'
  BY <1>7 DEF PushUnlock
<1>8. ASSUME NEW p \in Producers, PushSignal(p)
      PROVE  MutexOK'
  BY <1>8 DEF PushSignal
<1>9. ASSUME NEW c \in Consumers, PopCall(c)
      PROVE  MutexOK'
  BY <1>9 DEF PopCall
<1>10. ASSUME NEW c \in Consumers, PopLock(c)
      PROVE  MutexOK'
  BY <1>10 DEF PopLock
<1>11. ASSUME NEW c \in Consumers, PopWait(c)
      PROVE  MutexOK'
  BY <1>11 DEF PopWait
<1>12. ASSUME NEW c \in Consumers, PopSpurious(c)
      PROVE  MutexOK'
  BY <1>12 DEF PopSpurious
<1>13. ASSUME NEW c \in Consumers, PopTake(c)
      PROVE  MutexOK'
  BY <1>13 DEF PopTake
<1>14. ASSUME NEW c \in Consumers, PopFree(c)
      PROVE  MutexOK'
  BY <1>14 DEF PopFree
<1>15. ASSUME NEW c \in Consumers, PopUnlock(c)
      PROVE  MutexOK'
  BY <1>15 DEF PopUnlock
<1>16. ASSUME NEW c \in Consumers, Quit(c)
      PROVE  MutexOK'
  BY <1>16 DEF Quit
<1>17. CASE Destroy
  BY <1>17 DEF Destroy, Quiet
<1>18. CASE UNCHANGED vars
  BY <1>18 DEF vars
<1> QED
  BY <1>1, <1>2, <1>3, <1>4, <1>5, <1>6, <1>7, <1>8, <1>9,
     <1>10, <1>11, <1>12, <1>13, <1>14, <1>15, <1>16, <1>17, <1>18
  DEF Next, PushStep, PopStep

(* The pointers go on spelling the chain. *)
LEMMA ListShapeStep ==
  ASSUME IInv, [Next]_vars
  PROVE  ListShape'
<1> USE ConstantsAssumption DEF IInv, TypeOK, Threads, InPush, InPop, Goto, heapVars, MutexOK, Critical, ListShape
<1>1. ASSUME NEW p \in Producers, NEW m \in Messages, NEW n \in Nodes, PushAlloc(p, m, n)
      PROVE  ListShape'
  BY <1>1 DEF PushAlloc, Ownership, Linked
<1>2. ASSUME NEW p \in Producers, NEW m \in Messages, PushFails(p, m)
      PROVE  ListShape'
  BY <1>2 DEF PushFails
<1>3. ASSUME NEW p \in Producers, PushLock(p)
      PROVE  ListShape'
  BY <1>3 DEF PushLock
<1>4. ASSUME NEW p \in Producers, PushLinkFirst(p)
      PROVE  ListShape'
  <2>1. chain = <<>> /\ chain' = <<node[p]>>
    BY <1>4 DEF PushLinkFirst
  <2>2. node[p] \in Nodes /\ next[node[p]] = NULL
    BY <1>4 DEF PushLinkFirst, Ownership, Held, Carried, InFlight
  <2>3. \A q \in Producers : pc'[q] # "advance"
    BY <1>4 DEF PushLinkFirst
  <2> QED
    BY <1>4, <2>1, <2>2, <2>3 DEF PushLinkFirst
<1>5. ASSUME NEW p \in Producers, PushLinkNext(p)
      PROVE  ListShape'
  BY <1>5 DEF PushLinkNext
<1>6. ASSUME NEW p \in Producers, PushAdvance(p)
      PROVE  ListShape'
  <2>1. node[p] \in Nodes /\ next[node[p]] = NULL
    BY <1>6 DEF PushAdvance, Ownership, Held, Carried, InFlight
  <2>2. \A q \in Producers : pc'[q] # "advance"
    BY <1>6 DEF PushAdvance
  <2>3. chain # <<>> /\ chain[Len(chain)] = tail /\ next[tail] = node[p]
    BY <1>6 DEF PushAdvance
  <2>4. /\ Len(chain') = Len(chain) + 1 /\ chain' # <<>>
        /\ chain'[Len(chain')] = node[p]
        /\ \A i \in 1..Len(chain) : chain'[i] = chain[i]
    BY <1>6, <2>1 DEF PushAdvance
  <2>5. \A i \in 1..(Len(chain') - 1) : next'[chain'[i]] = chain'[i + 1]
    BY <1>6, <2>3, <2>4 DEF PushAdvance
  <2> QED
    BY <1>6, <2>1, <2>2, <2>3, <2>4, <2>5 DEF PushAdvance
<1>7. ASSUME NEW p \in Producers, PushUnlock(p)
      PROVE  ListShape'
  BY <1>7 DEF PushUnlock
<1>8. ASSUME NEW p \in Producers, PushSignal(p)
      PROVE  ListShape'
  BY <1>8 DEF PushSignal
<1>9. ASSUME NEW c \in Consumers, PopCall(c)
      PROVE  ListShape'
  BY <1>9 DEF PopCall
<1>10. ASSUME NEW c \in Consumers, PopLock(c)
      PROVE  ListShape'
  BY <1>10 DEF PopLock
<1>11. ASSUME NEW c \in Consumers, PopWait(c)
      PROVE  ListShape'
  BY <1>11 DEF PopWait
<1>12. ASSUME NEW c \in Consumers, PopSpurious(c)
      PROVE  ListShape'
  BY <1>12 DEF PopSpurious
<1>13. ASSUME NEW c \in Consumers, PopTake(c)
      PROVE  ListShape'
  <2>1. chain # <<>> /\ head = chain[1] /\ tail = chain[Len(chain)]
    BY <1>13 DEF PopTake
  <2>2. /\ chain' = Tail(chain) /\ Len(chain') = Len(chain) - 1
        /\ \A i \in 1..Len(chain') : chain'[i] = chain[i + 1]
    BY <1>13, <2>1 DEF PopTake
  <2>3. \A q \in Producers : pc[q] # "advance" /\ pc'[q] # "advance"
    BY <1>13 DEF PopTake
  <2>4. Len(chain) \in Nat /\ (Len(chain) = 1 \/ Len(chain) >= 2)
    BY <2>1, NonemptyLen
  <2>5. CASE Len(chain) = 1
    BY <1>13, <2>1, <2>2, <2>3, <2>5 DEF PopTake
  <2>6. CASE Len(chain) >= 2
    <3>1. head # tail
      BY <2>1, <2>4, <2>6 DEF Ownership
    <3>2. next[head] = chain[2]
      BY <2>1, <2>4, <2>6
    <3>3. Len(chain') >= 1
      BY <2>2, <2>4, <2>6
    <3>4. chain' # <<>>
      BY <3>3, Len(<<>>) = 0
    <3>5. 1 \in 1..Len(chain') /\ chain'[1] = chain[2]
      BY <2>2, <2>4, <2>6
    <3> QED
      BY <1>13, <2>1, <2>2, <2>3, <2>4, <2>6, <3>1, <3>2, <3>4, <3>5 DEF PopTake
  <2> QED
    BY <2>4, <2>5, <2>6
<1>14. ASSUME NEW c \in Consumers, PopFree(c)
      PROVE  ListShape'
  BY <1>14 DEF PopFree
<1>15. ASSUME NEW c \in Consumers, PopUnlock(c)
      PROVE  ListShape'
  BY <1>15 DEF PopUnlock
<1>16. ASSUME NEW c \in Consumers, Quit(c)
      PROVE  ListShape'
  BY <1>16 DEF Quit
<1>17. CASE Destroy
  BY <1>17 DEF Destroy, Quiet
<1>18. CASE UNCHANGED vars
  BY <1>18 DEF vars
<1> QED
  BY <1>1, <1>2, <1>3, <1>4, <1>5, <1>6, <1>7, <1>8, <1>9,
     <1>10, <1>11, <1>12, <1>13, <1>14, <1>15, <1>16, <1>17, <1>18
  DEF Next, PushStep, PopStep

(* What taking the head does to the chain: it drops its first node. *)
LEMMA TakeFacts ==
  ASSUME IInv, NEW c \in Consumers, PopTake(c)
  PROVE  /\ chain # <<>> /\ head = chain[1] /\ head \in Linked
         /\ Len(chain') = Len(chain) - 1
         /\ \A i \in 1..Len(chain') : chain'[i] = chain[i + 1] /\ i + 1 \in 1..Len(chain)
         /\ Linked' = Linked \ {head}
         /\ node'[c] = head
<1> USE DEF IInv, TypeOK
<1>1. chain # <<>> /\ head = chain[1] /\ chain \in Seq(Nodes)
  BY DEF PopTake, ListShape
<1>2. Len(chain) \in Nat /\ Len(chain) >= 1
  BY <1>1, NonemptyLen
<1>3. Len(chain') = Len(chain) - 1
  BY <1>1, <1>2 DEF PopTake
<1>4. \A i \in 1..Len(chain') : chain'[i] = chain[i + 1] /\ i + 1 \in 1..Len(chain)
  BY <1>1, <1>2, <1>3 DEF PopTake
<1>5. \A i \in 1..Len(chain) : i # 1 => i - 1 \in 1..Len(chain') /\ chain'[i - 1] = chain[i]
  BY <1>1, <1>2, <1>3 DEF PopTake
<1>6. \A i \in 1..Len(chain) : i # 1 => chain[i] # head
  BY <1>1, <1>2 DEF Ownership
<1>7. Linked' \subseteq Linked \ {head}
  BY <1>3, <1>4, <1>6 DEF Linked
<1>8. Linked \ {head} \subseteq Linked'
  BY <1>1, <1>5 DEF Linked
<1>9. head \in Linked /\ node'[c] = head
  BY <1>1, <1>2 DEF Linked, PopTake, Threads
<1> QED
  BY <1>1, <1>3, <1>4, <1>7, <1>8, <1>9

(* Every node keeps one owner. *)
LEMMA OwnershipStep ==
  ASSUME IInv, [Next]_vars
  PROVE  Ownership'
<1> USE ConstantsAssumption DEF IInv, TypeOK, Threads, InPush, InPop, Goto, heapVars, MutexOK, Critical, Ownership, Held, Linked
<1>1. ASSUME NEW p \in Producers, NEW m \in Messages, NEW n \in Nodes, PushAlloc(p, m, n)
      PROVE  Ownership'
  BY <1>1 DEF PushAlloc
<1>2. ASSUME NEW p \in Producers, NEW m \in Messages, PushFails(p, m)
      PROVE  Ownership'
  BY <1>2 DEF PushFails
<1>3. ASSUME NEW p \in Producers, PushLock(p)
      PROVE  Ownership'
  BY <1>3 DEF PushLock
<1>4. ASSUME NEW p \in Producers, PushLinkFirst(p)
      PROVE  Ownership'
  BY <1>4 DEF PushLinkFirst
<1>5. ASSUME NEW p \in Producers, PushLinkNext(p)
      PROVE  Ownership'
  BY <1>5 DEF PushLinkNext
<1>6. ASSUME NEW p \in Producers, PushAdvance(p)
      PROVE  Ownership'
  BY <1>6 DEF PushAdvance
<1>7. ASSUME NEW p \in Producers, PushUnlock(p)
      PROVE  Ownership'
  BY <1>7 DEF PushUnlock
<1>8. ASSUME NEW p \in Producers, PushSignal(p)
      PROVE  Ownership'
  BY <1>8 DEF PushSignal
<1>9. ASSUME NEW c \in Consumers, PopCall(c)
      PROVE  Ownership'
  BY <1>9 DEF PopCall
<1>10. ASSUME NEW c \in Consumers, PopLock(c)
      PROVE  Ownership'
  BY <1>10 DEF PopLock
<1>11. ASSUME NEW c \in Consumers, PopWait(c)
      PROVE  Ownership'
  BY <1>11 DEF PopWait
<1>12. ASSUME NEW c \in Consumers, PopSpurious(c)
      PROVE  Ownership'
  BY <1>12 DEF PopSpurious
<1>13. ASSUME NEW c \in Consumers, PopTake(c)
      PROVE  Ownership'
  <2>1. \A t \in Threads : t # c => Held(t)' = Held(t)
    BY <1>13 DEF PopTake
  <2>2. Held(c)' = {head} /\ Held(c) = {}
    BY <1>13, TakeFacts DEF PopTake
  <2>3. head \in alloc /\ \A t \in Threads : t # c => head \notin Held(t)
    BY <1>13, TakeFacts
  <2>4. \A i, j \in 1..Len(chain') : i # j => chain'[i] # chain'[j]
    <3>1. \A i \in 1..Len(chain') : chain'[i] = chain[i + 1] /\ i + 1 \in 1..Len(chain)
      BY <1>13, TakeFacts
    <3> QED
      BY <3>1
  <2>5. Linked' = Linked \ {head} /\ alloc' = alloc
    BY <1>13, TakeFacts DEF PopTake
  <2> HIDE DEF Held, Linked
  <2> QED
    BY <2>1, <2>2, <2>3, <2>4, <2>5
<1>14. ASSUME NEW c \in Consumers, PopFree(c)
      PROVE  Ownership'
  BY <1>14 DEF PopFree
<1>15. ASSUME NEW c \in Consumers, PopUnlock(c)
      PROVE  Ownership'
  BY <1>15 DEF PopUnlock
<1>16. ASSUME NEW c \in Consumers, Quit(c)
      PROVE  Ownership'
  BY <1>16 DEF Quit
<1>17. CASE Destroy
  <2>1. \A t \in Threads : Held(t)' = {}
    BY <1>17 DEF Destroy, Quiet
  <2>2. chain' = <<>> /\ Linked' = {}
    BY <1>17 DEF Destroy
  <2> HIDE DEF Held, Linked
  <2> QED
    BY <2>1, <2>2
<1>18. CASE UNCHANGED vars
  BY <1>18 DEF vars
<1> QED
  BY <1>1, <1>2, <1>3, <1>4, <1>5, <1>6, <1>7, <1>8, <1>9,
     <1>10, <1>11, <1>12, <1>13, <1>14, <1>15, <1>16, <1>17, <1>18
  DEF Next, PushStep, PopStep

(* No node is left without an owner. *)
LEMMA NoLeakStep ==
  ASSUME IInv, [Next]_vars
  PROVE  NoLeak'
<1> USE ConstantsAssumption DEF IInv, TypeOK, Threads, InPush, InPop, Goto, heapVars, MutexOK, Critical, Ownership, NoLeak, Held, Linked
<1>1. ASSUME NEW p \in Producers, NEW m \in Messages, NEW n \in Nodes, PushAlloc(p, m, n)
      PROVE  NoLeak'
  BY <1>1 DEF PushAlloc
<1>2. ASSUME NEW p \in Producers, NEW m \in Messages, PushFails(p, m)
      PROVE  NoLeak'
  BY <1>2 DEF PushFails
<1>3. ASSUME NEW p \in Producers, PushLock(p)
      PROVE  NoLeak'
  BY <1>3 DEF PushLock
<1>4. ASSUME NEW p \in Producers, PushLinkFirst(p)
      PROVE  NoLeak'
  BY <1>4 DEF PushLinkFirst
<1>5. ASSUME NEW p \in Producers, PushLinkNext(p)
      PROVE  NoLeak'
  BY <1>5 DEF PushLinkNext
<1>6. ASSUME NEW p \in Producers, PushAdvance(p)
      PROVE  NoLeak'
  BY <1>6 DEF PushAdvance
<1>7. ASSUME NEW p \in Producers, PushUnlock(p)
      PROVE  NoLeak'
  BY <1>7 DEF PushUnlock
<1>8. ASSUME NEW p \in Producers, PushSignal(p)
      PROVE  NoLeak'
  BY <1>8 DEF PushSignal
<1>9. ASSUME NEW c \in Consumers, PopCall(c)
      PROVE  NoLeak'
  BY <1>9 DEF PopCall
<1>10. ASSUME NEW c \in Consumers, PopLock(c)
      PROVE  NoLeak'
  BY <1>10 DEF PopLock
<1>11. ASSUME NEW c \in Consumers, PopWait(c)
      PROVE  NoLeak'
  BY <1>11 DEF PopWait
<1>12. ASSUME NEW c \in Consumers, PopSpurious(c)
      PROVE  NoLeak'
  BY <1>12 DEF PopSpurious
<1>13. ASSUME NEW c \in Consumers, PopTake(c)
      PROVE  NoLeak'
  <2>1. \A t \in Threads : t # c => Held(t)' = Held(t)
    BY <1>13 DEF PopTake
  <2>2. Held(c)' = {head} /\ Held(c) = {}
    BY <1>13, TakeFacts DEF PopTake
  <2>3. Linked' = Linked \ {head} /\ alloc' = alloc /\ destroyed' = destroyed
    BY <1>13, TakeFacts DEF PopTake
  <2> HIDE DEF Held, Linked
  <2> QED
    BY <2>1, <2>2, <2>3
<1>14. ASSUME NEW c \in Consumers, PopFree(c)
      PROVE  NoLeak'
  BY <1>14 DEF PopFree
<1>15. ASSUME NEW c \in Consumers, PopUnlock(c)
      PROVE  NoLeak'
  BY <1>15 DEF PopUnlock
<1>16. ASSUME NEW c \in Consumers, Quit(c)
      PROVE  NoLeak'
  BY <1>16 DEF Quit
<1>17. CASE Destroy
  BY <1>17 DEF Destroy
<1>18. CASE UNCHANGED vars
  BY <1>18 DEF vars
<1> QED
  BY <1>1, <1>2, <1>3, <1>4, <1>5, <1>6, <1>7, <1>8, <1>9,
     <1>10, <1>11, <1>12, <1>13, <1>14, <1>15, <1>16, <1>17, <1>18
  DEF Next, PushStep, PopStep

(* Messages in flight stay distinct, new nodes stay list ends. *)
LEMMA CarriedStep ==
  ASSUME IInv, [Next]_vars
  PROVE  Carried'
<1> USE ConstantsAssumption DEF IInv, TypeOK, Threads, InPush, InPop, Goto, heapVars, MutexOK, Critical, Ownership, Held, Linked, InFlight, Carried
<1>1. ASSUME NEW p \in Producers, NEW m \in Messages, NEW n \in Nodes, PushAlloc(p, m, n)
      PROVE  Carried'
  BY <1>1 DEF PushAlloc
<1>2. ASSUME NEW p \in Producers, NEW m \in Messages, PushFails(p, m)
      PROVE  Carried'
  BY <1>2 DEF PushFails
<1>3. ASSUME NEW p \in Producers, PushLock(p)
      PROVE  Carried'
  BY <1>3 DEF PushLock
<1>4. ASSUME NEW p \in Producers, PushLinkFirst(p)
      PROVE  Carried'
  BY <1>4 DEF PushLinkFirst
<1>5. ASSUME NEW p \in Producers, PushLinkNext(p)
      PROVE  Carried'
  <2>1. tail \in Linked /\ p \in InFlight /\ InFlight' = InFlight
    <3>1. chain # <<>> /\ tail = chain[Len(chain)]
      BY <1>5 DEF PushLinkNext, ListShape
    <3>2. Len(chain) \in 1..Len(chain)
      BY <3>1, NonemptyLen
    <3> QED
      BY <1>5, <3>1, <3>2 DEF PushLinkNext
  <2>2. \A q \in InFlight : node[q] # tail
    BY <2>1
  <2>3. \A q \in InFlight : next'[node[q]] = NULL
    BY <1>5, <2>2 DEF PushLinkNext
  <2> QED
    BY <1>5, <2>1, <2>3 DEF PushLinkNext
<1>6. ASSUME NEW p \in Producers, PushAdvance(p)
      PROVE  Carried'
  BY <1>6 DEF PushAdvance
<1>7. ASSUME NEW p \in Producers, PushUnlock(p)
      PROVE  Carried'
  BY <1>7 DEF PushUnlock
<1>8. ASSUME NEW p \in Producers, PushSignal(p)
      PROVE  Carried'
  BY <1>8 DEF PushSignal
<1>9. ASSUME NEW c \in Consumers, PopCall(c)
      PROVE  Carried'
  BY <1>9 DEF PopCall
<1>10. ASSUME NEW c \in Consumers, PopLock(c)
      PROVE  Carried'
  BY <1>10 DEF PopLock
<1>11. ASSUME NEW c \in Consumers, PopWait(c)
      PROVE  Carried'
  BY <1>11 DEF PopWait
<1>12. ASSUME NEW c \in Consumers, PopSpurious(c)
      PROVE  Carried'
  BY <1>12 DEF PopSpurious
<1>13. ASSUME NEW c \in Consumers, PopTake(c)
      PROVE  Carried'
  BY <1>13 DEF PopTake
<1>14. ASSUME NEW c \in Consumers, PopFree(c)
      PROVE  Carried'
  BY <1>14 DEF PopFree
<1>15. ASSUME NEW c \in Consumers, PopUnlock(c)
      PROVE  Carried'
  BY <1>15 DEF PopUnlock
<1>16. ASSUME NEW c \in Consumers, Quit(c)
      PROVE  Carried'
  BY <1>16 DEF Quit
<1>17. CASE Destroy
  BY <1>17 DEF Destroy
<1>18. CASE UNCHANGED vars
  BY <1>18 DEF vars
<1> QED
  BY <1>1, <1>2, <1>3, <1>4, <1>5, <1>6, <1>7, <1>8, <1>9,
     <1>10, <1>11, <1>12, <1>13, <1>14, <1>15, <1>16, <1>17, <1>18
  DEF Next, PushStep, PopStep

(* Counting: the two sets of the invariant are finite, and how their sizes    *)
(* change when one thread enters or leaves them.                             *)
LEMMA CountFacts ==
  /\ IsFiniteSet(Awake) /\ IsFiniteSet(Signalling)
  /\ IsFiniteSet(Awake') /\ IsFiniteSet(Signalling')
<1>1. Awake \subseteq Consumers /\ Awake' \subseteq Consumers
  BY DEF Awake
<1>2. Signalling \subseteq Producers /\ Signalling' \subseteq Producers
  BY DEF Signalling
<1> QED
  BY <1>1, <1>2, FS_Subset, ConstantsAssumption

(* A new thread adds one to the count. *)
LEMMA CardAdd ==
  ASSUME NEW S, IsFiniteSet(S), NEW x, x \notin S
  PROVE  Cardinality(S) \in Nat /\ Cardinality(S \union {x}) = Cardinality(S) + 1
BY FS_AddElement, FS_CardinalityType

(* A thread that leaves takes one off. *)
LEMMA CardRemove ==
  ASSUME NEW S, IsFiniteSet(S), NEW x \in S
  PROVE  Cardinality(S) \in Nat /\ Cardinality(S \ {x}) = Cardinality(S) - 1
BY FS_RemoveElement, FS_CardinalityType

(* The count of messages never overtakes the count of threads that will see to them. *)
LEMMA NoLostWakeupStep ==
  ASSUME IInv, NoLostWakeup, [Next]_vars
  PROVE  NoLostWakeup'
<1> USE ConstantsAssumption DEF IInv, TypeOK, Threads, InPush, InPop, Goto, heapVars, MutexOK, Critical, NoLostWakeup
<1>1. ASSUME NEW p \in Producers, NEW m \in Messages, NEW n \in Nodes, PushAlloc(p, m, n)
      PROVE  NoLostWakeup'
  <2>1. Awake' = Awake /\ Signalling' = Signalling
    BY <1>1 DEF PushAlloc, Awake, Signalling
  <2> QED
    BY <1>1, <2>1 DEF PushAlloc
<1>2. ASSUME NEW p \in Producers, NEW m \in Messages, PushFails(p, m)
      PROVE  NoLostWakeup'
  <2>1. Awake' = Awake /\ Signalling' = Signalling
    BY <1>2 DEF PushFails, Awake, Signalling
  <2> QED
    BY <1>2, <2>1 DEF PushFails
<1>3. ASSUME NEW p \in Producers, PushLock(p)
      PROVE  NoLostWakeup'
  <2>1. Awake' = Awake /\ Signalling' = Signalling
    BY <1>3 DEF PushLock, Awake, Signalling
  <2> QED
    BY <1>3, <2>1 DEF PushLock
<1>4. ASSUME NEW p \in Producers, PushLinkFirst(p)
      PROVE  NoLostWakeup'
  <2>1. Awake' = Awake /\ Signalling' = Signalling \union {p} /\ p \notin Signalling
    BY <1>4 DEF PushLinkFirst, Awake, Signalling
  <2>2. Len(chain') = Len(chain) + 1 /\ Len(chain) \in Nat /\ waiting' = waiting
    BY <1>4 DEF PushLinkFirst
  <2> QED
    BY <2>1, <2>2, CountFacts, CardAdd, FS_CardinalityType
<1>5. ASSUME NEW p \in Producers, PushLinkNext(p)
      PROVE  NoLostWakeup'
  <2>1. Awake' = Awake /\ Signalling' = Signalling
    BY <1>5 DEF PushLinkNext, Awake, Signalling
  <2> QED
    BY <1>5, <2>1 DEF PushLinkNext
<1>6. ASSUME NEW p \in Producers, PushAdvance(p)
      PROVE  NoLostWakeup'
  <2>1. Awake' = Awake /\ Signalling' = Signalling \union {p} /\ p \notin Signalling
    BY <1>6 DEF PushAdvance, Awake, Signalling
  <2>2. Len(chain') = Len(chain) + 1 /\ Len(chain) \in Nat /\ waiting' = waiting
    BY <1>6 DEF PushAdvance
  <2> QED
    BY <2>1, <2>2, CountFacts, CardAdd, FS_CardinalityType
<1>7. ASSUME NEW p \in Producers, PushUnlock(p)
      PROVE  NoLostWakeup'
  <2>1. Awake' = Awake /\ Signalling' = Signalling
    BY <1>7 DEF PushUnlock, Awake, Signalling
  <2> QED
    BY <1>7, <2>1 DEF PushUnlock
<1>8. ASSUME NEW p \in Producers, PushSignal(p)
      PROVE  NoLostWakeup'
  <2>1. Signalling' = Signalling \ {p} /\ p \in Signalling /\ chain' = chain
    BY <1>8 DEF PushSignal, Signalling
  <2>2. CASE waiting = {}
    BY <1>8, <2>2 DEF PushSignal
  <2>3. ASSUME NEW c \in waiting, waiting' = waiting \ {c}
        PROVE  NoLostWakeup'
    <3>1. Awake' = Awake \union {c} /\ c \notin Awake
      BY <1>8, <2>3 DEF PushSignal, Awake
    <3> QED
      BY <2>1, <3>1, CountFacts, CardAdd, CardRemove, FS_CardinalityType
  <2> QED
    BY <1>8, <2>2, <2>3 DEF PushSignal
<1>9. ASSUME NEW c \in Consumers, PopCall(c)
      PROVE  NoLostWakeup'
  <2>1. Signalling' = Signalling /\ chain' = chain /\ waiting' \subseteq waiting
    BY <1>9 DEF PopCall, Signalling
  <2>2. Awake' = Awake \union {c} /\ c \notin Awake
    BY <1>9 DEF PopCall, Awake
  <2> QED
    BY <2>1, <2>2, CountFacts, CardAdd, FS_CardinalityType
<1>10. ASSUME NEW c \in Consumers, PopLock(c)
      PROVE  NoLostWakeup'
  <2>1. Awake' = Awake /\ Signalling' = Signalling
    BY <1>10 DEF PopLock, Awake, Signalling
  <2> QED
    BY <1>10, <2>1 DEF PopLock
<1>11. ASSUME NEW c \in Consumers, PopWait(c)
      PROVE  NoLostWakeup'
  <2>1. Len(chain') = 0
    BY <1>11 DEF PopWait, ListShape
  <2> QED
    BY <2>1, CountFacts, FS_CardinalityType
<1>12. ASSUME NEW c \in Consumers, PopSpurious(c)
      PROVE  NoLostWakeup'
  <2>1. Signalling' = Signalling /\ chain' = chain /\ waiting' \subseteq waiting
    BY <1>12 DEF PopSpurious, Signalling
  <2>2. Awake' = Awake \union {c} /\ c \notin Awake
    BY <1>12 DEF PopSpurious, Awake
  <2> QED
    BY <2>1, <2>2, CountFacts, CardAdd, FS_CardinalityType
<1>13. ASSUME NEW c \in Consumers, PopTake(c)
      PROVE  NoLostWakeup'
  <2>1. Signalling' = Signalling /\ waiting' = waiting
    BY <1>13 DEF PopTake, Signalling
  <2>2. Awake' = Awake \ {c} /\ c \in Awake
    BY <1>13 DEF PopTake, Awake
  <2>3. Len(chain') = Len(chain) - 1 /\ Len(chain) \in Nat
    BY <1>13, TakeFacts
  <2> QED
    BY <2>1, <2>2, <2>3, CountFacts, CardRemove, FS_CardinalityType
<1>14. ASSUME NEW c \in Consumers, PopFree(c)
      PROVE  NoLostWakeup'
  <2>1. Awake' = Awake /\ Signalling' = Signalling
    BY <1>14 DEF PopFree, Awake, Signalling
  <2> QED
    BY <1>14, <2>1 DEF PopFree
<1>15. ASSUME NEW c \in Consumers, PopUnlock(c)
      PROVE  NoLostWakeup'
  <2>1. Awake' = Awake /\ Signalling' = Signalling
    BY <1>15 DEF PopUnlock, Awake, Signalling
  <2> QED
    BY <1>15, <2>1 DEF PopUnlock
<1>16. ASSUME NEW c \in Consumers, Quit(c)
      PROVE  NoLostWakeup'
  <2>1. Awake' = Awake /\ Signalling' = Signalling
    BY <1>16 DEF Quit, Awake, Signalling
  <2> QED
    BY <1>16, <2>1 DEF Quit
<1>17. CASE Destroy
  <2>1. Len(chain') = 0
    BY <1>17 DEF Destroy
  <2> QED
    BY <2>1, CountFacts, FS_CardinalityType
<1>18. CASE UNCHANGED vars
  <2>1. Awake' = Awake /\ Signalling' = Signalling
    BY <1>18 DEF vars, Awake, Signalling
  <2> QED
    BY <1>18, <2>1 DEF vars
<1> QED
  BY <1>1, <1>2, <1>3, <1>4, <1>5, <1>6, <1>7, <1>8, <1>9,
     <1>10, <1>11, <1>12, <1>13, <1>14, <1>15, <1>16, <1>17, <1>18
  DEF Next, PushStep, PopStep

(***************************************************************************)
(* Theorems.                                                               *)
(***************************************************************************)

(* The queue starts right: empty, with every thread idle. *)
LEMMA IInvInit == Init => IInv
<1> SUFFICES ASSUME Init PROVE IInv
  OBVIOUS
<1> USE ConstantsAssumption DEF Init, Threads
<1>1. TypeOK
  BY EmptySeq DEF TypeOK
<1>2. MutexOK
  BY DEF MutexOK, Critical
<1>3. ListShape
  BY DEF ListShape
<1>4. Linked = {} /\ \A t \in Threads : Held(t) = {}
  BY DEF Linked, Held
<1>5. Ownership /\ NoLeak
  BY <1>4 DEF Ownership, NoLeak
<1>6. Carried
  BY DEF Carried, InFlight
<1> QED
  BY <1>1, <1>2, <1>3, <1>5, <1>6 DEF IInv

(* Every behaviour keeps the inductive invariant. *)
LEMMA IInvInductive == Spec => []IInv
<1>1. Init => IInv
  BY IInvInit
<1>2. IInv /\ [Next]_vars => IInv'
  BY TypeOKStep, MutexOKStep, ListShapeStep, OwnershipStep, NoLeakStep,
     CarriedStep
  DEF IInv
<1> QED
  BY <1>1, <1>2, PTL DEF Spec

(* Every state of the queue is well typed, for all constants. *)
THEOREM TypeCorrect == Spec => []TypeOK
<1>1. IInv => TypeOK
  BY DEF IInv
<1> QED
  BY <1>1, IInvInductive, PTL

(* The pointers written by tiny_queue_push and tiny_queue_pop always spell   *)
(* the list of messages pushed and not yet popped.                           *)
THEOREM ListCorrect == Spec => []ListShape
<1>1. IInv => ListShape
  BY DEF IInv
<1> QED
  BY <1>1, IInvInductive, PTL

(* No node is used after free, freed twice or owned by two threads, and none *)
(* leaks before tiny_queue_destroy.                                          *)
THEOREM MemorySafe == Spec => []MemoryOK
<1>1. IInv => MemoryOK
  BY DEF IInv, MemoryOK
<1> QED
  BY <1>1, IInvInductive, PTL

(* A consumer never sleeps on a message nobody will wake a consumer for,     *)
(* although the signal is sent after the mutex is released.                  *)
THEOREM WakeupsAreKept == Spec => []NoLostWakeup
<1>1. Init => NoLostWakeup
  BY DEF Init, NoLostWakeup
<1>2. IInv /\ NoLostWakeup /\ [Next]_vars => NoLostWakeup'
  BY NoLostWakeupStep
<1> QED
  BY <1>1, <1>2, IInvInductive, PTL DEF Spec

(***************************************************************************)
(* TinyQueue implements FifoQueue.                                         *)
(***************************************************************************)

(* The abstract queue: as long as the chain, holding what its nodes carry.   *)
LEMMA ContentsFacts ==
  ASSUME IInv
  PROVE  /\ Contents \in Seq(Messages)
         /\ Len(Contents) = Len(chain) /\ Len(chain) \in Nat
         /\ \A i \in 1..Len(chain) : Contents[i] = data[chain[i]]
<1>1. Len(chain) \in Nat /\ \A i \in 1..Len(chain) : data[chain[i]] \in Messages
  BY DEF IInv, TypeOK, Carried
<1> QED
  BY <1>1 DEF Contents

(* A step that leaves the chain and the data of its nodes alone leaves the   *)
(* abstract queue alone.                                                     *)
LEMMA ContentsSame ==
  ASSUME chain' = chain, \A i \in 1..Len(chain) : data'[chain[i]] = data[chain[i]]
  PROVE  Contents' = Contents
BY DEF Contents

(* Linking a node appends its message. *)
LEMMA ContentsAppend ==
  ASSUME IInv, IInv', NEW p \in Producers, p \in InFlight, data' = data,
         chain' = Append(chain, node[p])
  PROVE  Contents' = Append(Contents, data[node[p]])
<1>1. node[p] \in Nodes /\ data[node[p]] \in Messages /\ chain \in Seq(Nodes)
  BY DEF IInv, TypeOK, Ownership, Held, Carried, InFlight, Threads
<1>2. /\ Len(chain') = Len(chain) + 1
      /\ \A i \in 1..Len(chain) : chain'[i] = chain[i]
      /\ chain'[Len(chain) + 1] = node[p]
  BY <1>1, AppendProperties
<1>3. /\ Contents \in Seq(Messages) /\ Contents' \in Seq(Messages)
      /\ Len(Contents) = Len(chain) /\ Len(Contents') = Len(chain')
      /\ Len(chain) \in Nat
      /\ \A i \in 1..Len(chain) : Contents[i] = data[chain[i]]
      /\ \A i \in 1..Len(chain') : Contents'[i] = data[chain'[i]]
  <2>1. /\ Contents' \in Seq(Messages) /\ Len(Contents') = Len(chain')
        /\ \A i \in 1..Len(chain') : Contents'[i] = data'[chain'[i]]
    <3>1. Len(chain') \in Nat /\ \A i \in 1..Len(chain') : data'[chain'[i]] \in Messages
      BY DEF IInv, TypeOK, Carried
    <3> QED
      BY <3>1 DEF Contents
  <2> QED
    BY <2>1, ContentsFacts
<1>4. DEFINE A == Append(Contents, data[node[p]])
<1>5. /\ A \in Seq(Messages) /\ Len(A) = Len(chain) + 1
      /\ \A i \in 1..Len(chain) : A[i] = data[chain[i]]
      /\ A[Len(chain) + 1] = data[node[p]]
  BY <1>1, <1>3, AppendProperties
<1> HIDE DEF A
<1>6. ASSUME NEW i \in 1..(Len(chain) + 1) PROVE Contents'[i] = A[i]
  <2>1. CASE i = Len(chain) + 1
    <3>1. i \in 1..Len(chain')
      BY <1>2, <1>3
    <3>2. Contents'[i] = data[chain'[i]]
      BY <1>3, <3>1
    <3>3. chain'[i] = node[p] /\ A[i] = data[node[p]]
      BY <1>2, <1>5, <2>1
    <3> QED
      BY <3>2, <3>3
  <2>2. CASE i \in 1..Len(chain)
    BY <2>2, <1>2, <1>3, <1>5
  <2> QED
    BY <1>3, <2>1, <2>2
<1>7. Contents' = A
  BY <1>2, <1>3, <1>5, <1>6, SeqEqual
<1> QED
  BY <1>7 DEF A

(* Taking the head takes the first message. *)
LEMMA ContentsTail ==
  ASSUME IInv, NEW c \in Consumers, PopTake(c)
  PROVE  /\ Contents # <<>> /\ Contents' = Tail(Contents)
         /\ Head(Contents) = data[head] /\ data[head] \in Messages
<1>1. /\ Contents \in Seq(Messages) /\ Len(Contents) = Len(chain)
      /\ Len(chain) \in Nat
      /\ \A i \in 1..Len(chain) : Contents[i] = data[chain[i]]
  BY ContentsFacts
<1>2. /\ chain # <<>> /\ head = chain[1] /\ Len(chain') = Len(chain) - 1
      /\ \A i \in 1..Len(chain') : chain'[i] = chain[i + 1] /\ i + 1 \in 1..Len(chain)
  BY TakeFacts
<1>3. Len(chain) >= 1 /\ data' = data
  BY <1>2, NonemptyLen DEF IInv, TypeOK, PopTake, heapVars
<1>4. Contents # <<>> /\ Head(Contents) = data[head] /\ data[head] \in Messages
  <2>1. 1 \in 1..Len(Contents) /\ Contents # <<>>
    BY <1>1, <1>3, Len(<<>>) = 0
  <2>2. Head(Contents) = Contents[1] /\ Contents[1] \in Messages
    BY <1>1, <2>1
  <2> QED
    BY <1>1, <1>2, <1>3, <2>1, <2>2
<1> DEFINE T == Tail(Contents)
<1>5. /\ T \in Seq(Messages) /\ Len(T) = Len(chain) - 1
      /\ \A i \in 1..(Len(chain) - 1) : T[i] = Contents[i + 1]
  BY <1>1, <1>4, HeadTailProperties
<1>6. \A i \in 1..Len(chain') : data'[chain'[i]] = T[i]
  BY <1>1, <1>2, <1>3, <1>5
<1>7. Contents' = [i \in 1..Len(chain') |-> T[i]]
  BY <1>6 DEF Contents
<1> HIDE DEF T
<1>8. T = [i \in 1..(Len(chain) - 1) |-> T[i]]
  <2>1. T \in [1..Len(T) -> Messages]
    BY <1>5, LenProperties
  <2> QED
    BY <1>5, <2>1
<1>9. Contents' = T
  BY <1>2, <1>7, <1>8
<1> QED
  BY <1>4, <1>9 DEF T

(* Every step of the queue is a step of FifoQueue or leaves it alone. *)
LEMMA FifoStep ==
  ASSUME IInv, IInv', [Next]_vars
  PROVE  (Fifo!Next \/ UNCHANGED <<NotPut, Contents, hand>>)
<1> USE ConstantsAssumption DEF IInv, TypeOK, Threads, InPush, InPop, Goto, heapVars, MutexOK, Critical
<1>1. ASSUME NEW p \in Producers, NEW m \in Messages, NEW n \in Nodes, PushAlloc(p, m, n)
      PROVE  (Fifo!Next \/ UNCHANGED <<NotPut, Contents, hand>>)
  <2>1. \A q \in InFlight : node[q] # n
    BY <1>1 DEF PushAlloc, InFlight, Ownership, Held
  <2>2. \A i \in 1..Len(chain) : chain[i] # n
    BY <1>1 DEF PushAlloc, Ownership, Linked
  <2>3. Contents' = Contents
    BY <1>1, <2>2, ContentsSame DEF PushAlloc
  <2>4. InFlight' = InFlight \union {p} /\ p \notin InFlight
    BY <1>1 DEF PushAlloc, InFlight
  <2>5. /\ node'[p] = n /\ data'[n] = m
        /\ \A q \in InFlight : node'[q] = node[q] /\ data'[node[q]] = data[node[q]]
    BY <1>1, <2>1, <2>4 DEF PushAlloc, InFlight, Ownership, Held
  <2>6. NotPut' = NotPut
    BY <1>1, <2>4, <2>5 DEF PushAlloc, NotPut
  <2> QED
    BY <1>1, <2>3, <2>6 DEF PushAlloc
<1>2. ASSUME NEW p \in Producers, NEW m \in Messages, PushFails(p, m)
      PROVE  (Fifo!Next \/ UNCHANGED <<NotPut, Contents, hand>>)
  <2>1. Contents' = Contents /\ hand' = hand
    BY <1>2, ContentsSame DEF PushFails
  <2>2. \A q \in InFlight : data[node[q]] # m
    BY <1>2 DEF PushFails, Carried
  <2>3. m \in NotPut /\ NotPut' = NotPut \ {m}
    BY <1>2, <2>2 DEF PushFails, NotPut, InFlight
  <2>4. Fifo!Lose(m)
    BY <2>1, <2>3 DEF Fifo!Lose
  <2> QED
    BY <2>4 DEF Fifo!Next
<1>3. ASSUME NEW p \in Producers, PushLock(p)
      PROVE  (Fifo!Next \/ UNCHANGED <<NotPut, Contents, hand>>)
  <2>1. Contents' = Contents
    BY <1>3, ContentsSame DEF PushLock
  <2>2. NotPut' = NotPut /\ hand' = hand
    BY <1>3 DEF PushLock, NotPut, InFlight
  <2> QED
    BY <2>1, <2>2
<1>4. ASSUME NEW p \in Producers, PushLinkFirst(p)
      PROVE  (Fifo!Next \/ UNCHANGED <<NotPut, Contents, hand>>)
  <2> DEFINE m == data[node[p]]
  <2>1. /\ p \in InFlight /\ m \in Messages
        /\ InFlight' = InFlight \ {p} /\ data' = data /\ node' = node
        /\ fresh' = fresh /\ hand' = hand /\ chain' = Append(chain, node[p])
    BY <1>4 DEF PushLinkFirst, InFlight, Carried
  <2>2. Contents' = Append(Contents, m)
    BY <2>1, ContentsAppend
  <2>3. m \notin fresh /\ \A q \in InFlight' : data[node[q]] # m
    BY <2>1 DEF Carried
  <2>4. m \in NotPut /\ NotPut' = NotPut \ {m}
    BY <2>1, <2>3 DEF NotPut
  <2> HIDE DEF m
  <2>5. Fifo!Put(m)
    BY <2>1, <2>2, <2>4 DEF Fifo!Put
  <2> QED
    BY <2>1, <2>5 DEF Fifo!Next
<1>5. ASSUME NEW p \in Producers, PushLinkNext(p)
      PROVE  (Fifo!Next \/ UNCHANGED <<NotPut, Contents, hand>>)
  <2>1. Contents' = Contents
    BY <1>5, ContentsSame DEF PushLinkNext
  <2>2. NotPut' = NotPut /\ hand' = hand
    BY <1>5 DEF PushLinkNext, NotPut, InFlight
  <2> QED
    BY <2>1, <2>2
<1>6. ASSUME NEW p \in Producers, PushAdvance(p)
      PROVE  (Fifo!Next \/ UNCHANGED <<NotPut, Contents, hand>>)
  <2> DEFINE m == data[node[p]]
  <2>1. /\ p \in InFlight /\ m \in Messages
        /\ InFlight' = InFlight \ {p} /\ data' = data /\ node' = node
        /\ fresh' = fresh /\ hand' = hand /\ chain' = Append(chain, node[p])
    BY <1>6 DEF PushAdvance, InFlight, Carried
  <2>2. Contents' = Append(Contents, m)
    BY <2>1, ContentsAppend
  <2>3. m \notin fresh /\ \A q \in InFlight' : data[node[q]] # m
    BY <2>1 DEF Carried
  <2>4. m \in NotPut /\ NotPut' = NotPut \ {m}
    BY <2>1, <2>3 DEF NotPut
  <2> HIDE DEF m
  <2>5. Fifo!Put(m)
    BY <2>1, <2>2, <2>4 DEF Fifo!Put
  <2> QED
    BY <2>1, <2>5 DEF Fifo!Next
<1>7. ASSUME NEW p \in Producers, PushUnlock(p)
      PROVE  (Fifo!Next \/ UNCHANGED <<NotPut, Contents, hand>>)
  <2>1. Contents' = Contents
    BY <1>7, ContentsSame DEF PushUnlock
  <2>2. NotPut' = NotPut /\ hand' = hand
    BY <1>7 DEF PushUnlock, NotPut, InFlight
  <2> QED
    BY <2>1, <2>2
<1>8. ASSUME NEW p \in Producers, PushSignal(p)
      PROVE  (Fifo!Next \/ UNCHANGED <<NotPut, Contents, hand>>)
  <2>1. Contents' = Contents
    BY <1>8, ContentsSame DEF PushSignal
  <2>2. NotPut' = NotPut /\ hand' = hand
    BY <1>8 DEF PushSignal, NotPut, InFlight
  <2> QED
    BY <2>1, <2>2
<1>9. ASSUME NEW c \in Consumers, PopCall(c)
      PROVE  (Fifo!Next \/ UNCHANGED <<NotPut, Contents, hand>>)
  <2>1. Contents' = Contents
    BY <1>9, ContentsSame DEF PopCall
  <2>2. NotPut' = NotPut
    BY <1>9 DEF PopCall, NotPut, InFlight
  <2>3. CASE hand[c] = NoMsg
    BY <1>9, <2>1, <2>2, <2>3 DEF PopCall
  <2>4. CASE hand[c] # NoMsg
    <3>1. Fifo!Release(c)
      BY <1>9, <2>1, <2>2, <2>4 DEF PopCall, Fifo!Release
    <3> QED
      BY <3>1 DEF Fifo!Next
  <2> QED
    BY <2>3, <2>4
<1>10. ASSUME NEW c \in Consumers, PopLock(c)
      PROVE  (Fifo!Next \/ UNCHANGED <<NotPut, Contents, hand>>)
  <2>1. Contents' = Contents
    BY <1>10, ContentsSame DEF PopLock
  <2>2. NotPut' = NotPut /\ hand' = hand
    BY <1>10 DEF PopLock, NotPut, InFlight
  <2> QED
    BY <2>1, <2>2
<1>11. ASSUME NEW c \in Consumers, PopWait(c)
      PROVE  (Fifo!Next \/ UNCHANGED <<NotPut, Contents, hand>>)
  <2>1. Contents' = Contents
    BY <1>11, ContentsSame DEF PopWait
  <2>2. NotPut' = NotPut /\ hand' = hand
    BY <1>11 DEF PopWait, NotPut, InFlight
  <2> QED
    BY <2>1, <2>2
<1>12. ASSUME NEW c \in Consumers, PopSpurious(c)
      PROVE  (Fifo!Next \/ UNCHANGED <<NotPut, Contents, hand>>)
  <2>1. Contents' = Contents
    BY <1>12, ContentsSame DEF PopSpurious
  <2>2. NotPut' = NotPut /\ hand' = hand
    BY <1>12 DEF PopSpurious, NotPut, InFlight
  <2> QED
    BY <2>1, <2>2
<1>13. ASSUME NEW c \in Consumers, PopTake(c)
      PROVE  (Fifo!Next \/ UNCHANGED <<NotPut, Contents, hand>>)
  <2>1. NotPut' = NotPut
    BY <1>13 DEF PopTake, NotPut, InFlight
  <2>2. hand[c] = NoMsg /\ hand' = [hand EXCEPT ![c] = data[head]]
    BY <1>13 DEF PopTake, Carried
  <2>3. /\ Contents # <<>> /\ Contents' = Tail(Contents)
        /\ Head(Contents) = data[head]
    BY <1>13, ContentsTail
  <2>4. Fifo!Take(c)
    BY <2>1, <2>2, <2>3 DEF Fifo!Take
  <2> QED
    BY <2>4 DEF Fifo!Next
<1>14. ASSUME NEW c \in Consumers, PopFree(c)
      PROVE  (Fifo!Next \/ UNCHANGED <<NotPut, Contents, hand>>)
  <2>1. Contents' = Contents
    BY <1>14, ContentsSame DEF PopFree
  <2>2. NotPut' = NotPut /\ hand' = hand
    BY <1>14 DEF PopFree, NotPut, InFlight
  <2> QED
    BY <2>1, <2>2
<1>15. ASSUME NEW c \in Consumers, PopUnlock(c)
      PROVE  (Fifo!Next \/ UNCHANGED <<NotPut, Contents, hand>>)
  <2>1. Contents' = Contents
    BY <1>15, ContentsSame DEF PopUnlock
  <2>2. NotPut' = NotPut /\ hand' = hand
    BY <1>15 DEF PopUnlock, NotPut, InFlight
  <2> QED
    BY <2>1, <2>2
<1>16. ASSUME NEW c \in Consumers, Quit(c)
      PROVE  (Fifo!Next \/ UNCHANGED <<NotPut, Contents, hand>>)
  <2>1. Contents' = Contents
    BY <1>16, ContentsSame DEF Quit
  <2>2. NotPut' = NotPut /\ hand' = hand
    BY <1>16 DEF Quit, NotPut, InFlight
  <2> QED
    BY <2>1, <2>2
<1>17. CASE Destroy
  <2>1. Contents' = <<>>
    <3>1. Len(chain') = 0
      BY <1>17 DEF Destroy
    <3> QED
      BY <3>1 DEF Contents
  <2>2. NotPut' = NotPut /\ hand' = hand
    BY <1>17 DEF Destroy, NotPut, InFlight
  <2>3. Fifo!Destroy
    BY <2>1, <2>2 DEF Fifo!Destroy
  <2> QED
    BY <2>3 DEF Fifo!Next
<1>18. CASE UNCHANGED vars
  <2>1. Contents' = Contents
    BY <1>18, ContentsSame DEF vars
  <2>2. NotPut' = NotPut /\ hand' = hand
    BY <1>18 DEF vars, NotPut, InFlight
  <2> QED
    BY <2>1, <2>2
<1> QED
  BY <1>1, <1>2, <1>3, <1>4, <1>5, <1>6, <1>7, <1>8, <1>9,
     <1>10, <1>11, <1>12, <1>13, <1>14, <1>15, <1>16, <1>17, <1>18
  DEF Next, PushStep, PopStep

(* tiny_queue.cc implements FifoQueue: messages come out once each, in the   *)
(* order they went in, whatever the interleaving and the reuse of nodes.     *)
THEOREM Refinement == Spec => IsFifo
<1>1. Init => Fifo!Init
  <2> SUFFICES ASSUME Init PROVE Fifo!Init
    OBVIOUS
  <2>1. InFlight = {}
    BY DEF Init, InFlight, Threads
  <2>2. NotPut = Messages
    BY <2>1 DEF Init, NotPut
  <2>3. Contents = <<>>
    <3>1. Len(chain) = 0
      BY DEF Init
    <3> QED
      BY <3>1 DEF Contents
  <2> QED
    BY <2>2, <2>3 DEF Fifo!Init, Init
<1>2. IInv /\ IInv' /\ [Next]_vars => [Fifo!Next]_(Fifo!fifoVars)
  BY FifoStep DEF Fifo!fifoVars
<1> QED
  BY <1>1, <1>2, IInvInductive, PTL DEF Spec, IsFifo, Fifo!Spec
==============================================================================
