----------------------------- MODULE BlockTracer -----------------------------
(***************************************************************************)
(* The trace points of blocks in ext/racer/racer.cc, and the memory of the *)
(* traces they fill.  A method that takes a block gets a trace whose       *)
(* block_param holds a trace point of its own, targeted at the block and   *)
(* enabled until the method returns or Racer.stop is called.  A trace      *)
(* point fires for the block's code and for all blocks nested in it,       *)
(* whoever calls them.  The worker frees a trace once it is written.       *)
(*                                                                         *)
(* A block that takes a block gets a trace point too, which nothing ever   *)
(* disables.  Enabling a trace point, or exploring an argument's class,    *)
(* runs Ruby code in the middle of the handler of a call, so that another  *)
(* thread may run there (entering, handler); no Ruby code runs in that of  *)
(* a return.  Touching freed memory ends the model (fault): nothing can be *)
(* said about the process after it.  A worker that cannot send ends, and   *)
(* leaves what it has not freed to nobody (lost).                          *)
(*                                                                         *)
(* Method calls and returns are matched by Tracer.tla; here every method   *)
(* is given a block and has a name of its own, so that a return finds its  *)
(* trace.                                                                  *)
(***************************************************************************)
EXTENDS Naturals, SequencesExt, FiniteSets

CONSTANTS
  Fibers,      \* fibers of the program, each on a thread of its own
  Blocks,      \* the code of blocks (ISeqs)
  Inner,       \* Inner[b]: the blocks written directly inside b
  Within,      \* Within[b]: b and everything nested in it
  NoBlock,     \* no block is passed
  None,        \* no fiber, no trace, no handler
  MaxCalls     \* bound on the calls of methods and blocks

(* A trace point of a block, and what its handler keeps between two events.  *)
TracePoint == [data : Seq(Nat), target : Blocks]
HandlerType == [todo : SUBSET TracePoint, takes : Blocks \union {NoBlock},
                new : Seq(Nat) \union {None}]

(* A method's trace between the search for the fiber's stack and the push. *)
EntryType == [trace : Seq(Nat), found : BOOLEAN, stale : BOOLEAN]

ASSUME BlockTracerAssumption ==
  /\ Inner \in [Blocks -> SUBSET Blocks]
  /\ Within \in [Blocks -> SUBSET Blocks]
  /\ \A b \in Blocks : b \in Within[b] /\ Inner[b] \subseteq Within[b]
  /\ NoBlock \notin Blocks
  /\ None \notin Fibers \union Seq(Nat) \union HandlerType \union EntryType
  /\ MaxCalls \in Nat

VARIABLES
  on,          \* tpCall is enabled
  onStack,     \* method traces on call_stacks
  present,     \* fibers with an entry in call_stacks
  entering,    \* entering[f]: what process_call_event holds across the switch
  heap,        \* allocated traces, see Trace
  queue,       \* traces handed to the worker
  writing,     \* the trace the worker works on
  failed,      \* the worker has ended, because a send failed
  lost,        \* history: traces handed to a worker that had ended
  tps,         \* enabled trace points of blocks: [data, target]
  vm,          \* the fiber whose handler holds the VM lock
  handler,     \* handler[f]: the block call event f is in
  fault,       \* freed memory, or memory the worker reads, was touched
  frames,      \* the program: frames[f], innermost last: [id, block]
  made,        \* the program: blocks that some code holds a closure of
  calls        \* the program: calls so far; numbers the frames

stacks == <<onStack, present, entering>>
worker == <<queue, writing, failed, lost>>
program == <<frames, made, calls>>
vars == <<on, stacks, heap, worker, tps, vm, handler, fault, program>>

(* A trace is named by the calls it describes: <<m>> is the trace of method  *)
(* call m, <<m, c>> that of block call c in it, <<m, c, d>> that of d, a     *)
(* call of the block passed to c.                                            *)
Null == <<>>   \* nullptr on a current_block_call_stack: a call of an inner block
Root(t) == <<Head(t)>>
Call(t) == Last(t)

(* The part of a ReturnTrace that concerns blocks.  first and by are history:*)
(* the first call the trace point reported, and whether it reported its end, *)
(* and the fibers its events came from.                                      *)
Trace(block, ready) ==
  [block |-> block,         \* the block it was given
   has |-> ready,           \* block_param.has_value()
   stack |-> <<>>,          \* current_block_call_stack
   traces |-> <<>>,         \* block_traces
   ret |-> 0,               \* return_type: the call that returned the value
   first |-> [call |-> 0, block |-> NoBlock, over |-> FALSE],
   by |-> {}]

With(h, t, r) == [x \in DOMAIN h \union {t} |-> IF x = t THEN r ELSE h[x]]
Without(h, ts) == [x \in DOMAIN h \ ts |-> h[x]]

Init ==
  /\ on = FALSE /\ onStack = {} /\ present = {}
  /\ entering = [f \in Fibers |-> None]
  /\ heap = [t \in {} |-> Trace(NoBlock, FALSE)]
  /\ queue = <<>> /\ writing = None /\ failed = FALSE /\ lost = {}
  /\ tps = {}
  /\ vm = None
  /\ handler = [f \in Fibers |-> None]
  /\ fault = FALSE
  /\ frames = [f \in Fibers |-> <<>>]
  /\ made = Blocks \ UNION {Inner[b] : b \in Blocks}
  /\ calls = 0

(* What free_trace frees along with a trace. *)
Links(t) == (Range(heap[t].traces) \union Range(heap[t].stack)) \ {Null}

Reached(ts) ==
  {x \in DOMAIN heap : \E t \in ts :
     /\ IsPrefix(t, x)
     /\ \A n \in Len(t)..(Len(x) - 1) :
          /\ SubSeq(x, 1, n) \in DOMAIN heap
          /\ SubSeq(x, 1, n + 1) \in Links(SubSeq(x, 1, n))}

(* The memory of t may be used: it is not freed, nor read by the worker. *)
Valid(t) == t \in DOMAIN heap /\ Root(t) # writing

(* Ruby code of f runs. *)
Running(f) == ~fault /\ vm = None /\ handler[f] = None /\ entering[f] = None

(* The trace points that fire for block c. *)
Hits(c) == {tp \in tps : c \in Within[tp.target]}
Of(ts) == {tp \in tps : tp.data \in ts}

------------------------------------------------------------------------------
(* Methods and sessions *)

(* process_call_event: the fiber's stack is looked up and the block's trace  *)
(* point enabled, which lets others run.                                     *)
MethodCall(f, b) ==
  /\ Running(f) /\ b \in made /\ calls < MaxCalls
  /\ calls' = calls + 1
  /\ frames' = [frames EXCEPT ![f] = Append(@, [id |-> calls + 1, block |-> NoBlock])]
  /\ IF on
       THEN /\ heap' = With(heap, <<calls + 1>>, Trace(b, FALSE))
            /\ tps' = tps \union {[data |-> <<calls + 1>>, target |-> b]}
            /\ entering' = [entering EXCEPT ![f] =
                 [trace |-> <<calls + 1>>, found |-> f \in present, stale |-> FALSE]]
       ELSE UNCHANGED <<heap, tps, entering>>
  /\ UNCHANGED <<on, onStack, present, worker, vm, handler, fault, made>>

(* The rest of the handler: block_param is assigned and the trace pushed,    *)
(* through the iterator that was found unless there was none.                *)
FinishMethodCall(f) ==
  /\ ~fault /\ vm = None /\ entering[f] # None
  /\ LET e == entering[f]
     IN  IF e.found /\ e.stale
           THEN fault' = TRUE /\ UNCHANGED <<stacks, heap>>
           ELSE /\ heap' = [heap EXCEPT ![e.trace].has = TRUE]
                /\ onStack' = onStack \union {e.trace}
                /\ present' = present \union {f}
                /\ entering' = [entering EXCEPT ![f] = None]
                /\ UNCHANGED fault
  /\ UNCHANGED <<on, worker, tps, vm, handler, program>>

(* process_return_event: the trace leaves the stack, its trace point goes,   *)
(* and the worker gets it.                                                   *)
MethodReturnKeepsTp(f) ==   \* mutation: the trace point stays enabled
  /\ Running(f) /\ frames[f] # <<>> /\ Last(frames[f]).block = NoBlock
  /\ frames' = [frames EXCEPT ![f] = Front(@)]
  /\ LET t == <<Last(frames[f]).id>>
     IN  IF on /\ t \in onStack
           THEN onStack' = onStack \ {t} /\ queue' = Append(queue, t)
           ELSE UNCHANGED <<onStack, queue>>
  /\ UNCHANGED <<on, present, entering, tps, heap, writing, failed, lost, vm, handler, fault, made, calls>>

MethodReturn(f) ==
  /\ Running(f) /\ frames[f] # <<>> /\ Last(frames[f]).block = NoBlock
  /\ frames' = [frames EXCEPT ![f] = Front(@)]
  /\ LET t == <<Last(frames[f]).id>>
     IN  IF on /\ t \in onStack
           THEN /\ onStack' = onStack \ {t}
                /\ tps' = tps \ Of({t})
                /\ queue' = Append(queue, t)
           ELSE UNCHANGED <<onStack, tps, queue>>
  /\ UNCHANGED <<on, present, entering, heap, writing, failed, lost, vm, handler, fault, made, calls>>

Start ==
  /\ \E f \in Fibers : Running(f)
  /\ ~on /\ on' = TRUE
  /\ UNCHANGED <<stacks, heap, worker, tps, vm, handler, fault, program>>

(* stop frees every trace on a stack, after it has disabled its trace point, *)
(* and clears call_stacks, so that no iterator into it may be used.          *)
ClearStacks ==
  /\ present' = {}
  /\ entering' = [f \in Fibers |->
       IF entering[f] = None THEN None ELSE [entering[f] EXCEPT !.stale = TRUE]]

StopKeepsStacks ==   \* mutation: call_stacks keeps what was freed
  /\ \E f \in Fibers : Running(f)
  /\ on' = FALSE
  /\ tps' = tps \ Of(onStack)
  /\ heap' = Without(heap, Reached(onStack))
  /\ UNCHANGED <<stacks, worker, vm, handler, fault, program>>

StopKeepsTps ==   \* mutation: trace points outlive the traces
  /\ \E f \in Fibers : Running(f)
  /\ on' = FALSE
  /\ onStack' = {} /\ ClearStacks
  /\ heap' = Without(heap, Reached(onStack))
  /\ UNCHANGED <<tps, worker, vm, handler, fault, program>>

Stop ==
  /\ \E f \in Fibers : Running(f)
  /\ on' = FALSE
  /\ onStack' = {} /\ ClearStacks
  /\ tps' = tps \ Of(onStack)
  /\ heap' = Without(heap, Reached(onStack))
  /\ UNCHANGED <<worker, vm, handler, fault, program>>

(* flush of a session whose worker has ended: stop, and tiny_queue_destroy   *)
(* frees the nodes of the queue but not their traces.  (If the worker has    *)
(* not ended, flush is a stop after which the queue runs empty.)             *)
Flush ==
  /\ failed /\ failed' = FALSE
  /\ \E f \in Fibers : Running(f)
  /\ on' = FALSE
  /\ onStack' = {} /\ ClearStacks
  /\ tps' = tps \ Of(onStack)
  /\ heap' = Without(heap, Reached(onStack))
  /\ lost' = lost \union Range(queue) /\ queue' = <<>>
  /\ UNCHANGED <<writing, vm, handler, fault, program>>

------------------------------------------------------------------------------
(* Blocks *)

(* Some code that holds a closure of c calls it, and may pass it a block in  *)
(* turn.  c's own blocks become closures that others may keep.               *)
BlockCall(f, c, d) ==
  /\ Running(f) /\ c \in made /\ d \in made \union {NoBlock} /\ calls < MaxCalls
  /\ calls' = calls + 1
  /\ frames' = [frames EXCEPT ![f] = Append(@, [id |-> calls + 1, block |-> c])]
  /\ made' = made \union Inner[c]
  /\ IF Hits(c) = {}
       THEN UNCHANGED <<vm, handler>>
       ELSE /\ vm' = f
            /\ handler' = [handler EXCEPT ![f] = [todo |-> Hits(c), takes |-> d, new |-> None]]
  /\ UNCHANGED <<on, stacks, heap, worker, tps, fault>>

(* The handler of one trace point is done; the next one follows. *)
Done(f, tp) ==
  LET todo == handler[f].todo \ {tp}
  IN  /\ handler' = [handler EXCEPT ![f] =
            IF todo = {} THEN None ELSE [@ EXCEPT !.todo = todo, !.new = None]]
      /\ vm' = IF todo = {} THEN None ELSE f

(* History: the trace point of t reported an event of fiber f to it. *)
Reported(r, f) ==
  LET fr == Last(frames[f])
  IN  [r EXCEPT !.by = @ \union {f},
                !.first = IF @.call = 0 THEN [@ EXCEPT !.call = fr.id, !.block = fr.block] ELSE @]

(* process_block_call_event.  The first call gets a trace; a call inside it  *)
(* gets a nullptr; after the first call has returned nothing is recorded.    *)
Ignores(t) == ~heap[t].has \/ heap[t].traces # <<>>

PushInnerSkips(f, tp) ==   \* mutation: a call inside the first one is skipped
  /\ ~Ignores(tp.data) /\ heap[tp.data].stack # <<>>
  /\ Done(f, tp)
  /\ UNCHANGED <<heap, tps>>

PushInner(f, tp) ==
  LET t == tp.data
  IN  /\ ~Ignores(t) /\ heap[t].stack # <<>>
      /\ heap' = [heap EXCEPT ![t] = Reported([heap[t] EXCEPT !.stack = Append(@, Null)], f)]
      /\ Done(f, tp)
      /\ UNCHANGED tps

PushTrace(f, tp) ==
  LET t == tp.data
      new == Append(t, Last(frames[f]).id)
  IN  /\ ~Ignores(t) /\ heap[t].stack = <<>>
      /\ handler[f].takes = NoBlock
      /\ heap' = With([heap EXCEPT ![t] = Reported([heap[t] EXCEPT !.stack = <<new>>], f)],
                      new, Trace(NoBlock, FALSE))
      /\ Done(f, tp)
      /\ UNCHANGED tps

(* Enabling the trace point of the block's own block lets others run, after  *)
(* the check for an empty stack and before the push; so may exploring the    *)
(* classes of arguments.                                                     *)
EnableNested(f, tp) ==
  LET t == tp.data
      new == Append(t, Last(frames[f]).id)
  IN  /\ ~Ignores(t) /\ heap[t].stack = <<>>
      /\ heap' = With([heap EXCEPT ![t] = Reported(@, f)], new,
                      Trace(handler[f].takes, FALSE))
      /\ tps' = IF handler[f].takes = NoBlock THEN tps
                ELSE tps \union {[data |-> new, target |-> handler[f].takes]}
      /\ handler' = [handler EXCEPT ![f].new = new]
      /\ vm' = None

HandleBlockCall(f, tp) ==
  /\ ~fault /\ vm = f /\ handler[f].new = None /\ tp \in handler[f].todo
  /\ \/ /\ tp \notin tps \/ (Valid(tp.data) /\ Ignores(tp.data))
        /\ Done(f, tp)
        /\ UNCHANGED <<heap, tps, fault>>
     \/ /\ tp \in tps /\ ~Valid(tp.data)
        /\ fault' = TRUE
        /\ UNCHANGED <<heap, tps, vm, handler>>
     \/ /\ tp \in tps /\ Valid(tp.data)
        /\ PushInner(f, tp) \/ PushTrace(f, tp) \/ EnableNested(f, tp)
        /\ UNCHANGED fault
  /\ UNCHANGED <<on, stacks, worker, program>>

(* The rest of the handler after EnableNested: block_param is assigned and   *)
(* the trace pushed, through a reference into the owner's memory.            *)
FinishBlockCall(f) ==
  /\ ~fault /\ vm = None /\ handler[f] # None
  /\ LET new == handler[f].new
         owner == Front(new)
         tp == CHOOSE x \in handler[f].todo : x.data = owner
     IN  IF Valid(owner)
           THEN /\ heap' = [heap EXCEPT ![new].has = @ \/ heap[new].block # NoBlock,
                                        ![owner].stack = Append(@, new)]
                /\ Done(f, tp)
                /\ UNCHANGED fault
           ELSE fault' = TRUE /\ UNCHANGED <<heap, vm, handler>>
  /\ UNCHANGED <<on, stacks, worker, tps, program>>

(* process_block_return_event, for every trace point the block's end fires:  *)
(* the innermost call is over, and if it was the first one, its trace is     *)
(* recorded with the value that was returned.                                *)
Accepting(ts) == {t \in ts : ~Ignores(t) /\ heap[t].stack # <<>>}

BlockReturnKeepsStack(f) ==   \* mutation: no pop_back
  /\ Running(f) /\ frames[f] # <<>> /\ Last(frames[f]).block # NoBlock
  /\ LET hit == {tp.data : tp \in Hits(Last(frames[f]).block)}
         acc == Accepting(hit)
         recording == {t \in acc : Last(heap[t].stack) # Null}
         recorded == {Last(heap[t].stack) : t \in recording}
     IN  IF \E t \in hit : ~Valid(t)
           THEN fault' = TRUE /\ UNCHANGED heap
           ELSE /\ heap' = [x \in DOMAIN heap |->
                     [heap[x] EXCEPT
                        !.by = IF x \in hit /\ heap[x].has THEN @ \union {f} ELSE @,
                        !.first.over = @ \/ (x \in hit /\ heap[x].first.call = Last(frames[f]).id),
                        !.traces = IF x \in recording THEN <<Last(heap[x].stack)>> ELSE @,
                        !.ret = IF x \in recorded THEN Last(frames[f]).id ELSE @]]
                /\ UNCHANGED fault
  /\ frames' = [frames EXCEPT ![f] = Front(@)]
  /\ UNCHANGED <<on, stacks, worker, tps, vm, handler, made, calls>>

BlockReturn(f) ==
  /\ Running(f) /\ frames[f] # <<>> /\ Last(frames[f]).block # NoBlock
  /\ LET hit == {tp.data : tp \in Hits(Last(frames[f]).block)}
         acc == Accepting(hit)
         recording == {t \in acc : Last(heap[t].stack) # Null}
         recorded == {Last(heap[t].stack) : t \in recording}
     IN  IF \E t \in hit : ~Valid(t)
           THEN fault' = TRUE /\ UNCHANGED heap
           ELSE /\ heap' = [x \in DOMAIN heap |->
                     [heap[x] EXCEPT
                        !.by = IF x \in hit /\ heap[x].has THEN @ \union {f} ELSE @,
                        !.first.over = @ \/ (x \in hit /\ heap[x].first.call = Last(frames[f]).id),
                        !.stack = IF x \in acc THEN Front(@) ELSE @,
                        !.traces = IF x \in recording THEN <<Last(heap[x].stack)>> ELSE @,
                        !.ret = IF x \in recorded THEN Last(frames[f]).id ELSE @]]
                /\ UNCHANGED fault
  /\ frames' = [frames EXCEPT ![f] = Front(@)]
  /\ UNCHANGED <<on, stacks, worker, tps, vm, handler, made, calls>>

------------------------------------------------------------------------------
(* The worker: a trace is written from its memory, then freed. *)

WorkerTakes ==
  /\ ~fault /\ ~failed /\ writing = None /\ queue # <<>>
  /\ writing' = Head(queue)
  /\ queue' = Tail(queue)
  /\ UNCHANGED <<on, stacks, heap, failed, lost, tps, vm, handler, fault, program>>

WorkerFrees ==
  /\ ~fault /\ writing # None
  /\ heap' = Without(heap, Reached({writing}))
  /\ writing' = None
  /\ UNCHANGED <<on, stacks, queue, failed, lost, tps, vm, handler, fault, program>>

(* The send fails: the worker returns without freeing the trace. *)
WorkerFails ==
  /\ ~fault /\ writing # None
  /\ failed' = TRUE
  /\ lost' = lost \union {writing}
  /\ writing' = None
  /\ UNCHANGED <<on, stacks, heap, queue, tps, vm, handler, fault, program>>

Next ==
  \/ \E f \in Fibers :
       \/ \E b \in Blocks : MethodCall(f, b)
       \/ FinishMethodCall(f)
       \/ MethodReturn(f)
       \/ \E c \in Blocks, d \in Blocks \union {NoBlock} : BlockCall(f, c, d)
       \/ \E tp \in tps \union (IF handler[f] = None THEN {} ELSE handler[f].todo) :
            HandleBlockCall(f, tp)
       \/ FinishBlockCall(f)
       \/ BlockReturn(f)
  \/ Start \/ Stop \/ Flush
  \/ WorkerTakes \/ WorkerFrees \/ WorkerFails

Spec == Init /\ [][Next]_vars

------------------------------------------------------------------------------
(* Properties *)

TypeOK ==
  /\ on \in BOOLEAN /\ fault \in BOOLEAN /\ failed \in BOOLEAN
  /\ \A tp \in tps : tp.target \in Blocks /\ Call(tp.data) \in 1..MaxCalls
  /\ onStack \union lost \subseteq DOMAIN heap
  /\ \A t \in DOMAIN heap : Len(heap[t].traces) <= 1 /\ heap[t].by \subseteq Fibers
  /\ vm # None => handler[vm] # None
  /\ present \subseteq Fibers
  /\ \A f \in Fibers : entering[f] # None => entering[f].trace \in DOMAIN heap

(* Every allocated trace is owned exactly once - by a stack, the queue, the  *)
(* worker, the handler that is about to push it or the trace it belongs to - *)
(* and what is owned is allocated: nothing is freed twice, and nothing leaks *)
(* but what a worker that could not send has left (worker.cc:176), once.     *)
OwnersOf(t) ==
  {<<"stack", t>> : x \in onStack \intersect {t}}
    \union {<<"worker", t>> : x \in {writing} \intersect {t}}
    \union {<<"lost", t>> : x \in lost \intersect {t}}
    \union {<<"queue", i>> : i \in {j \in DOMAIN queue : queue[j] = t}}
    \union {<<"entering", f>> : f \in {g \in Fibers : entering[g] # None /\ entering[g].trace = t}}
    \union {<<"handler", f>> : f \in {g \in Fibers : handler[g] # None /\ handler[g].new = t}}
    \union (UNION {{<<"called", x, i>> : i \in {j \in DOMAIN heap[x].stack : heap[x].stack[j] = t}}
                  : x \in DOMAIN heap})
    \union (UNION {{<<"recorded", x, i>> : i \in {j \in DOMAIN heap[x].traces : heap[x].traces[j] = t}}
                  : x \in DOMAIN heap})

OwnedOnce ==
  ~fault => /\ \A t \in DOMAIN heap : Cardinality(OwnersOf(t)) = 1
            /\ \A t \in DOMAIN heap : Links(t) \subseteq DOMAIN heap
            /\ onStack \union Range(queue) \union lost \subseteq DOMAIN heap

(* The trace point of a method's block never outlives its trace: it is       *)
(* enabled only while the trace is on a stack, or its call event has enabled *)
(* it and not yet pushed the trace.  stop disables it only in the first case.*)
MethodTpsAlive ==
  \A tp \in tps : Len(tp.data) = 1 =>
    \/ tp.data \in onStack
    \/ \E f \in Fibers : entering[f] # None /\ entering[f].trace = tp.data

(* Freed memory, or memory the worker reads, is touched only in three ways:  *)
(* by the trace point of a block that a block was given, which is never      *)
(* disabled; by a method call that found its fiber's stack and was           *)
(* interrupted by stop (racer.cc:639); by a block call that was interrupted  *)
(* until its method's trace was handed over or freed (racer.cc:796).         *)
FaultCauses ==
  fault => \/ \E tp \in tps : Len(tp.data) > 1 /\ ~Valid(tp.data)
           \/ \E f \in Fibers : entering[f] # None /\ entering[f].found /\ entering[f].stale
           \/ \E f \in Fibers : /\ handler[f] # None /\ handler[f].new # None
                               /\ ~Valid(Front(handler[f].new))

(* If the calls of a method's block come from one fiber, the first of them   *)
(* is recorded once it is over, with the value which that very call returned.*)
(* (The first may be the call of an inner block, made by an earlier run of   *)
(* the block: the trace point cannot tell them apart.)                       *)
FirstCallIsRecorded ==
  ~fault => \A t \in DOMAIN heap :
    LET first == heap[t].first.call
    IN  Cardinality(heap[t].by) = 1 /\ heap[t].first.over =>
          /\ heap[t].traces = <<Append(t, first)>>
          /\ heap[Append(t, first)].ret = first
==============================================================================
