------------------------------ MODULE TinyQueue ------------------------------
(***************************************************************************)
(* The queue of ext/racer/tiny_queue.cc: a singly linked list under a      *)
(* mutex, with a condition variable for the consumers that found it empty. *)
(* Every step below is one stretch of code between two points at which     *)
(* another thread can be seen: a mutex or condition-variable call, malloc  *)
(* or free, or one of the pointer writes that leave the list half linked.  *)
(*                                                                         *)
(* In racer the producers are Ruby threads and there is one consumer, the  *)
(* worker; the module is parameterised by both sets.                       *)
(***************************************************************************)
EXTENDS Naturals, Sequences, FiniteSets

CONSTANTS
  Producers,   \* threads that call tiny_queue_push
  Consumers,   \* threads that call tiny_queue_pop
  Messages,    \* messages that are ever pushed, each at most once
  Nodes,       \* addresses malloc may return for a list node
  NULL,        \* nullptr, also "mutex not held"
  NoMsg        \* "no message"

(* The threads of one process: finitely many. *)
ASSUME ConstantsAssumption ==
  /\ IsFiniteSet(Producers) /\ IsFiniteSet(Consumers)
  /\ Producers \intersect Consumers = {}
  /\ NULL \notin Nodes \union Producers \union Consumers
  /\ NoMsg \notin Messages

VARIABLES
  head, tail,  \* queue->head, queue->tail
  next, data,  \* the fields of each node
  alloc,       \* nodes malloc has handed out and free has not taken back
  mutex,       \* the thread that holds queue->mutex, or NULL
  waiting,     \* consumers blocked in pthread_cond_wait
  pc,          \* where each thread is
  node,        \* new_node of a producer, current_head of a consumer
  hand,        \* the message a consumer's last pop returned
  fresh,       \* messages no thread has tried to push yet
  destroyed,   \* tiny_queue_destroy has run
  chain        \* history: the linked nodes in order, oldest first

heapVars == <<next, data, alloc>>
vars == <<head, tail, next, data, alloc, mutex, waiting, pc, node, hand,
          fresh, destroyed, chain>>

Threads == Producers \union Consumers

InPush == {"lock", "link", "advance", "unlock", "signal"}
InPop == {"poplock", "take", "free", "popunlock"}
Critical == {"link", "advance", "unlock", "take", "free", "popunlock"}

Init ==
  /\ head = NULL /\ tail = NULL
  /\ next = [n \in Nodes |-> NULL]
  /\ data = [n \in Nodes |-> NoMsg]
  /\ alloc = {}
  /\ mutex = NULL
  /\ waiting = {}
  /\ pc = [t \in Threads |-> "idle"]
  /\ node = [t \in Threads |-> NULL]
  /\ hand = [c \in Consumers |-> NoMsg]
  /\ fresh = Messages
  /\ destroyed = FALSE
  /\ chain = <<>>

Goto(t, l) == pc' = [pc EXCEPT ![t] = l]

------------------------------------------------------------------------------
(* tiny_queue_push *)

(* Mutation: the new node is not kept. *)
PushAllocForgets(p, m, n) ==
  /\ pc[p] = "idle" /\ ~destroyed
  /\ m \in fresh /\ n \in Nodes \ alloc
  /\ fresh' = fresh \ {m}
  /\ alloc' = alloc \union {n}
  /\ data' = [data EXCEPT ![n] = m]
  /\ Goto(p, "lock")
  /\ UNCHANGED <<head, tail, next, mutex, waiting, node, hand, destroyed, chain>>

(* malloc gave a node; its fields are filled in before the lock is taken.    *)
PushAlloc(p, m, n) ==
  /\ pc[p] = "idle" /\ ~destroyed
  /\ m \in fresh /\ n \in Nodes \ alloc
  /\ fresh' = fresh \ {m}
  /\ alloc' = alloc \union {n}
  /\ data' = [data EXCEPT ![n] = m]
  /\ next' = [next EXCEPT ![n] = NULL]
  /\ node' = [node EXCEPT ![p] = n]
  /\ Goto(p, "lock")
  /\ UNCHANGED <<head, tail, mutex, waiting, hand, destroyed, chain>>

(* malloc returned nullptr: -1, which no caller in racer.cc looks at.        *)
PushFails(p, m) ==
  /\ pc[p] = "idle" /\ ~destroyed
  /\ m \in fresh
  /\ fresh' = fresh \ {m}
  /\ UNCHANGED <<head, tail, heapVars, mutex, waiting, pc, node, hand,
                 destroyed, chain>>

PushLock(p) ==
  /\ pc[p] = "lock" /\ mutex = NULL
  /\ mutex' = p
  /\ Goto(p, "link")
  /\ UNCHANGED <<head, tail, heapVars, waiting, node, hand, fresh, destroyed,
                 chain>>

PushLinkFirst(p) ==
  /\ pc[p] = "link"
  /\ head = NULL /\ tail = NULL
  /\ head' = node[p] /\ tail' = node[p]
  /\ chain' = Append(chain, node[p])
  /\ Goto(p, "unlock")
  /\ UNCHANGED <<heapVars, mutex, waiting, node, hand, fresh, destroyed>>

(* tail->next is written first, tail afterwards. *)
PushLinkNext(p) ==
  /\ pc[p] = "link"
  /\ ~(head = NULL /\ tail = NULL)
  /\ next' = [next EXCEPT ![tail] = node[p]]
  /\ Goto(p, "advance")
  /\ UNCHANGED <<head, tail, data, alloc, mutex, waiting, node, hand, fresh,
                 destroyed, chain>>

(* Mutation: tail stays behind. *)
PushAdvanceSkipsTail(p) ==
  /\ pc[p] = "advance"
  /\ chain' = Append(chain, node[p])
  /\ Goto(p, "unlock")
  /\ UNCHANGED <<head, tail, heapVars, mutex, waiting, node, hand, fresh,
                 destroyed>>

PushAdvance(p) ==
  /\ pc[p] = "advance"
  /\ tail' = node[p]
  /\ chain' = Append(chain, node[p])
  /\ Goto(p, "unlock")
  /\ UNCHANGED <<head, heapVars, mutex, waiting, node, hand, fresh, destroyed>>

(* Mutation: signal only if the queue was empty before the push. *)
PushUnlockSignalsFirst(p) ==
  /\ pc[p] = "unlock"
  /\ mutex' = NULL
  /\ node' = [node EXCEPT ![p] = NULL]
  /\ Goto(p, IF head = tail THEN "signal" ELSE "idle")
  /\ UNCHANGED <<head, tail, heapVars, waiting, hand, fresh, destroyed, chain>>

PushUnlock(p) ==
  /\ pc[p] = "unlock"
  /\ mutex' = NULL
  /\ node' = [node EXCEPT ![p] = NULL]
  /\ Goto(p, "signal")
  /\ UNCHANGED <<head, tail, heapVars, waiting, hand, fresh, destroyed, chain>>

(* pthread_cond_signal, after the mutex was released: it wakes one waiting   *)
(* consumer if there is one, and otherwise it is lost.                       *)
PushSignal(p) ==
  /\ pc[p] = "signal"
  /\ IF waiting = {}
       THEN UNCHANGED waiting
       ELSE \E c \in waiting : waiting' = waiting \ {c}
  /\ Goto(p, "idle")
  /\ UNCHANGED <<head, tail, heapVars, mutex, node, hand, fresh, destroyed,
                 chain>>

------------------------------------------------------------------------------
(* tiny_queue_pop *)

PopCall(c) ==
  /\ pc[c] = "idle"
  /\ hand' = [hand EXCEPT ![c] = NoMsg]
  /\ Goto(c, "poplock")
  /\ UNCHANGED <<head, tail, heapVars, mutex, waiting, node, fresh, destroyed,
                 chain>>

(* Taking the mutex, the first time or on the way out of pthread_cond_wait.  *)
PopLock(c) ==
  /\ pc[c] = "poplock" /\ c \notin waiting /\ mutex = NULL
  /\ mutex' = c
  /\ Goto(c, "take")
  /\ UNCHANGED <<head, tail, heapVars, waiting, node, hand, fresh, destroyed,
                 chain>>

(* Mutation: wait without giving the mutex up. *)
PopWaitHoldsMutex(c) ==
  /\ pc[c] = "take" /\ head = NULL
  /\ waiting' = waiting \union {c}
  /\ Goto(c, "poplock")
  /\ UNCHANGED <<head, tail, heapVars, mutex, node, hand, fresh, destroyed,
                 chain>>

(* The queue is empty: give the mutex up and wait, as one atomic step. *)
PopWait(c) ==
  /\ pc[c] = "take" /\ head = NULL
  /\ waiting' = waiting \union {c}
  /\ mutex' = NULL
  /\ Goto(c, "poplock")
  /\ UNCHANGED <<head, tail, heapVars, node, hand, fresh, destroyed, chain>>

(* pthread_cond_wait may return without a signal. *)
PopSpurious(c) ==
  /\ c \in waiting
  /\ waiting' = waiting \ {c}
  /\ UNCHANGED <<head, tail, heapVars, mutex, pc, node, hand, fresh, destroyed,
                 chain>>

(* Mutation: the message of the wrong end. *)
PopTakeNewest(c) ==
  /\ pc[c] = "take" /\ head # NULL
  /\ node' = [node EXCEPT ![c] = head]
  /\ hand' = [hand EXCEPT ![c] = data[tail]]
  /\ IF head = tail
       THEN head' = NULL /\ tail' = NULL
       ELSE head' = next[head] /\ UNCHANGED tail
  /\ chain' = Tail(chain)
  /\ Goto(c, "free")
  /\ UNCHANGED <<heapVars, mutex, waiting, fresh, destroyed>>

PopTake(c) ==
  /\ pc[c] = "take" /\ head # NULL
  /\ node' = [node EXCEPT ![c] = head]
  /\ hand' = [hand EXCEPT ![c] = data[head]]
  /\ IF head = tail
       THEN head' = NULL /\ tail' = NULL
       ELSE head' = next[head] /\ UNCHANGED tail
  /\ chain' = Tail(chain)
  /\ Goto(c, "free")
  /\ UNCHANGED <<heapVars, mutex, waiting, fresh, destroyed>>

(* Mutation: free the new head instead of the old one. *)
PopFreeHead(c) ==
  /\ pc[c] = "free"
  /\ alloc' = alloc \ {head}
  /\ node' = [node EXCEPT ![c] = NULL]
  /\ Goto(c, "popunlock")
  /\ UNCHANGED <<head, tail, next, data, mutex, waiting, hand, fresh,
                 destroyed, chain>>

PopFree(c) ==
  /\ pc[c] = "free"
  /\ alloc' = alloc \ {node[c]}
  /\ node' = [node EXCEPT ![c] = NULL]
  /\ Goto(c, "popunlock")
  /\ UNCHANGED <<head, tail, next, data, mutex, waiting, hand, fresh,
                 destroyed, chain>>

PopUnlock(c) ==
  /\ pc[c] = "popunlock"
  /\ mutex' = NULL
  /\ Goto(c, "idle")
  /\ UNCHANGED <<head, tail, heapVars, waiting, node, hand, fresh, destroyed,
                 chain>>

(* The consumer leaves its loop with the message in its hand: it was the     *)
(* stop message, or sending it failed (worker.cc).                           *)
Quit(c) ==
  /\ pc[c] = "idle" /\ hand[c] # NoMsg
  /\ Goto(c, "done")
  /\ UNCHANGED <<head, tail, heapVars, mutex, waiting, node, hand, fresh,
                 destroyed, chain>>

------------------------------------------------------------------------------
(* tiny_queue_destroy, called once nobody uses the queue any more: it frees  *)
(* nodes from the head on for as long as the node has a successor.           *)
Quiet ==
  /\ \A p \in Producers : pc[p] = "idle"
  /\ \A c \in Consumers : pc[c] = "done"

Destroy ==
  /\ ~destroyed /\ Quiet
  /\ destroyed' = TRUE
  /\ alloc' = alloc \ {n \in alloc : next[n] # NULL}
  /\ head' = NULL /\ tail' = NULL
  /\ chain' = <<>>
  /\ UNCHANGED <<next, data, mutex, waiting, pc, node, hand, fresh>>

PushStep(p) ==
  \/ PushLock(p) \/ PushLinkFirst(p) \/ PushLinkNext(p) \/ PushAdvance(p)
  \/ PushUnlock(p) \/ PushSignal(p)

PopStep(c) ==
  \/ PopWait(c) \/ PopTake(c) \/ PopFree(c) \/ PopUnlock(c)

Next ==
  \/ \E p \in Producers, m \in Messages, n \in Nodes : PushAlloc(p, m, n)
  \/ \E p \in Producers, m \in Messages : PushFails(p, m)
  \/ \E p \in Producers : PushStep(p)
  \/ \E c \in Consumers :
       PopCall(c) \/ PopLock(c) \/ PopStep(c) \/ PopSpurious(c) \/ Quit(c)
  \/ Destroy

Spec == Init /\ [][Next]_vars

(* Threads run: a step inside push or pop that can be taken is taken.  The   *)
(* mutex is granted to a thread that finds it free again and again (strong), *)
(* and a consumer calls pop again unless it leaves its loop.                 *)
Fairness ==
  /\ \A p \in Producers : WF_vars(PushStep(p)) /\ SF_vars(PushLock(p))
  /\ \A c \in Consumers :
       WF_vars(PopStep(c)) /\ SF_vars(PopLock(c)) /\ WF_vars(PopCall(c) \/ Quit(c))

FairSpec == Spec /\ Fairness

------------------------------------------------------------------------------
(* Properties *)

TypeOK ==
  /\ head \in Nodes \union {NULL} /\ tail \in Nodes \union {NULL}
  /\ next \in [Nodes -> Nodes \union {NULL}]
  /\ data \in [Nodes -> Messages \union {NoMsg}]
  /\ alloc \subseteq Nodes
  /\ mutex \in Threads \union {NULL}
  /\ waiting \subseteq Consumers
  /\ pc \in [Threads -> {"idle", "done"} \union InPush \union InPop]
  /\ \A p \in Producers : pc[p] \in {"idle"} \union InPush
  /\ \A c \in Consumers : pc[c] \in {"idle", "done"} \union InPop
  /\ node \in [Threads -> Nodes \union {NULL}]
  /\ hand \in [Consumers -> Messages \union {NoMsg}]
  /\ fresh \subseteq Messages
  /\ destroyed \in BOOLEAN
  /\ chain \in Seq(Nodes)

(* One thread at a time is between lock and unlock, and a waiting consumer   *)
(* is not.                                                                   *)
MutexOK ==
  /\ \A t \in Threads : pc[t] \in Critical <=> mutex = t
  /\ \A c \in waiting : pc[c] = "poplock"

Linked == {chain[i] : i \in 1..Len(chain)}

(* The pointers spell the chain: head and tail are its ends, next leads from *)
(* each node to the following one, and the last one ends the list - except   *)
(* while a producer stands between writing tail->next and writing tail.      *)
ListShape ==
  /\ chain = <<>> <=> head = NULL
  /\ chain = <<>> <=> tail = NULL
  /\ chain # <<>> => head = chain[1] /\ tail = chain[Len(chain)]
  /\ \A i \in 1..(Len(chain) - 1) : next[chain[i]] = chain[i + 1]
  /\ \A p \in Producers : pc[p] = "advance" => chain # <<>> /\ next[tail] = node[p]
  /\ chain # <<>> /\ (\A p \in Producers : pc[p] # "advance") => next[tail] = NULL

(* Memory is used while it is allocated and by one owner: a node is in the   *)
(* list once, or in the hands of the one thread that fills or frees it.      *)
Held(t) == IF pc[t] \in {"lock", "link", "advance", "free"} THEN {node[t]} ELSE {}

Ownership ==
  /\ \A i, j \in 1..Len(chain) : i # j => chain[i] # chain[j]
  /\ \A t \in Threads : Held(t) \subseteq alloc \ Linked
  /\ \A s, t \in Threads : s # t => Held(s) \intersect Held(t) = {}
  /\ Linked \subseteq alloc

(* Until the queue is destroyed a node is not leaked either. *)
NoLeak == ~destroyed => alloc \subseteq Linked \union UNION {Held(t) : t \in Threads}

(* Nothing is used after it is freed, freed twice, or never freed. *)
MemoryOK == Ownership /\ NoLeak

(* A producer's new node ends the list it will be linked into and carries a  *)
(* message nobody else carries; a consumer inside pop has no message yet.    *)
InFlight == {p \in Producers : pc[p] \in {"lock", "link", "advance"}}

Carried ==
  /\ \A p \in InFlight :
       next[node[p]] = NULL /\ data[node[p]] \in Messages \ fresh
  /\ \A p, q \in InFlight : p # q => data[node[p]] # data[node[q]]
  /\ \A i \in 1..Len(chain) : data[chain[i]] \in Messages \ fresh
  /\ \A i \in 1..Len(chain) :
       \A p \in InFlight : data[node[p]] # data[chain[i]]
  /\ \A c \in Consumers : pc[c] \in {"poplock", "take"} => hand[c] = NoMsg

(* No lost wakeup: while a consumer sleeps, every message in the list has a  *)
(* signal on its way or a consumer awake in pop to take it, although push    *)
(* signals only after it has released the mutex.                             *)
Awake == {c \in Consumers : pc[c] \in {"poplock", "take"} /\ c \notin waiting}
Signalling == {p \in Producers : pc[p] \in {"unlock", "signal"}}
NoLostWakeup ==
  waiting # {} => Len(chain) <= Cardinality(Awake) + Cardinality(Signalling)

(* The queue implements the abstract FIFO.  A message is put when its node   *)
(* becomes reachable from tail, and taken when head moves past it.           *)
NotPut == fresh \union {data[node[p]] : p \in InFlight}
Contents == [i \in 1..Len(chain) |-> data[chain[i]]]

Fifo == INSTANCE FifoQueue WITH
  fresh <- NotPut, queue <- Contents, hand <- hand

IsFifo == Fifo!Spec

(* What the steps preserve: the inductive invariant behind the proofs.       *)
IInv == TypeOK /\ MutexOK /\ ListShape /\ Ownership /\ NoLeak /\ Carried

(* Liveness: a linked message is taken, unless every consumer has left.      *)
LinkedIsTaken ==
  \A m \in Messages :
    (\E i \in 1..Len(chain) : data[chain[i]] = m) ~>
      \/ \A i \in 1..Len(chain) : data[chain[i]] # m
      \/ \A c \in Consumers : pc[c] = "done"

(* Liveness: push never blocks its caller for good. *)
PushReturns ==
  \A p \in Producers : pc[p] \in InPush ~> pc[p] = "idle"
==============================================================================
