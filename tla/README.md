# Racer in TLA+

Racer traces the method calls of a Ruby program while its tests run and writes
RBS signatures for them. This directory models it: TLA+ modules for its parts,
TLC configurations that check them on small instances, and TLAPS proofs about
the queue, the life cycle of a traced process, delivery from a method's return to
the collector, the stacks of the trace point, the trace points of blocks and the
memory of traces, the exploration of constants and the framing of messages. Paths below are relative to the repository (`src/`).

## The system

    traced process (one or several)                 agent process
    ------------------------------                  -------------------------------
    Ruby program --events--> trace point            main thread: accept loop, HUP,
      call_stacks, constant_map,  |                   at_exit handler
      constant_updates            | push              |  one reader thread per connection
                                  v                   v       |
                             tiny_queue --pop--> worker --socket--> reader --> Queue
                                                                               |
                       Racer.start / stop / flush                              v
                       start_agent / stop_agent                     collector thread --> files

| component | source | state | operations |
|---|---|---|---|
| tiny_queue | `ext/racer/tiny_queue.cc` | list, mutex, condition variable | create, push, pop, destroy |
| tracer | `ext/racer/racer.cc` | `call_stacks`, `constant_map`, `constant_updates`, `matched_paths`, `pathMatcher` | call, return, rescue events; exploration of constants; types of values and parameters |
| block tracer | `ext/racer/racer.cc` | a trace point per block, `current_block_call_stack`, `block_traces` | enable, block call, block return, disable |
| trace memory | `ext/racer/traces.cc` | the tree of traces of one method call | free |
| client life cycle | `ext/racer/racer.cc`, `lib/racer.rb` | `tpCall`, `socketFd`, `tiny_queue`, `pthread` | `start`, `stop`, `flush`, `start_agent`, `stop_agent` |
| worker | `ext/racer/worker.cc` | the trace in hand | pop, encode, send, free |
| agent | `lib/racer/agent.rb` | `@queue`, `@agent_threads`, `@server`, one pending message per reader | boot, accept, read and split, parse, HUP and `at_exit` |
| collector | `lib/racer/collectors/rbs_collector.rb` | `@results`, `@existing_types` | `collect` with duplicate removal; `stop`: overloads, parameters, RBS types, files |
| plugins | `lib/racer/*plugin.rb`, `lib/racer/rails/railtie.rb` | the agent's pid | when to start, stop and flush |

The parts meet at three places: the C queue between the threads that run Ruby
and the worker; the unix socket between processes; the Ruby `Queue` between the
readers and the collector. What is hard about them:

* threads: the program, the worker, the readers, the collector and the agent's
  main thread, which a signal interrupts anywhere;
* processes: test frameworks fork, test processes are killed, the agent may not
  come up (a stale socket file) or not listen yet;
* memory: a trace is filled by handlers, handed to the worker and freed there,
  while trace points of blocks still hold pointers to it;
* order: a constant has to reach the collector no later than the first trace
  that names it, although all fibers share one list of announcements;
* exploring a constant or an argument, and enabling a trace point, runs Ruby code
  in the middle of a handler, which may hand the VM lock to another thread;
* failing sends: the worker ends, and leaves its queue to nobody;
* winding down: flush, the end of a reader, the closing of the queue and the
  writing of the output must not overtake each other;
* long sequences of legal calls: `start`, `stop`, `flush` in any order;
* conventions: some twenty array elements that writer and reader must count
  alike, types cut off at a depth, calls merged into overloads.

What makes each part correct: the queue is a FIFO that frees every node once and
loses no wakeup; the tracer's stacks follow the program; announcements are in
time; the lists of a constant name what exists and lose no mixin; every trace
has one owner, and nobody touches it after it is freed; the life cycle keeps its
four globals in agreement; delivery keeps the order and loses nothing while both
ends live and sends succeed; winding down ends, and what it writes is complete; the agent gets the
trace that was recorded, and the signature made of it accepts the calls that
were seen. `PROJECT.json` lists every hazard at its line together with the
properties that watch it.

## The modules

| module | models | how |
|---|---|---|
| `FifoQueue` | what racer.cc and worker.cc expect of the queue | abstract: put, lose, take, release |
| `TinyQueue` | `tiny_queue.cc` | pointers, nodes and the heap; one action per stretch of code between two points where another thread can look |
| `TinyQueueProofs` | | the proofs about `TinyQueue` |
| `Kernel` | the socket, connections, HUP, the agent as a process | external, from the calls the code makes |
| `Client` | `start`, `stop`, `flush_end`, the worker loop, `racer.rb`, fork and crash | `flush_end` is four steps and a failing send, the worker two and another; a call on any thread may be interrupted while it explores; the queue is a `FifoQueue` |
| `Agent` | `agent.rb`, and of `collect` the part that decides whether the collector's thread survives | every statement of the `at_exit` handler is a step |
| `Racer` | `Kernel`, `Client` and `Agent` together, fairness, the end-to-end properties | composition by interleaving |
| `DeliveryProofs` | | the proofs about the life cycle of processes, types and delivery in `Racer`: processes, connections, readers |
| `CollectionProofs` | | the proofs about the agent's queue, winding down and what can end the collector's thread in `Racer` |
| `Tracer` | the trace point: call, return and rescue events, path cache, `start`, `stop` | the traced program is part of the model: frames of fibers; a call event has two halves |
| `TracerProofs` | | the proofs about `Tracer`: cache, stacks and frames, what `stop` leaves |
| `BlockTracer` | the trace points of blocks, block events, the memory of traces, also those a failed worker leaves | the program calls methods with blocks and passes blocks on; the heap is a function from the live traces; touching a freed one is a fault |
| `MemoryProofs` | | the proofs about trace points, faults and the ownership of traces in `BlockTracer` |
| `FirstCallProofs` | | the proof that `BlockTracer` records the first call of a block |
| `ConstantExplorer` | `explore_constant` and `resolve_namespace`: namespaces, superclass, mixins, `constant_updates` | the recursion is a stack of tasks per fiber; another fiber may run where a lookup runs Ruby code |
| `ExplorerProofs` | | the proofs about constants, their announcements and their names in `ConstantExplorer`, and about what `Declarations` makes of them |
| `Declarations` | `push_constant_to_results` and `find_self_types` of `rbs_collector.rb` | what the collector knows is a function of the announcements in `ConstantExplorer`'s log; `stop` may follow any trace |
| `Values` | values and parameters to `ConstantInstance`s and `Parameter`s | recursive operators; `Admits` and `Exact` say what a type means |
| `Wire` | the arrays of `worker.cc` and their decoding in `agent.rb` | an array is a sequence of elements; `Then` chains the `shift`s |
| `Collector` | duplicates, overloads, parameters, blocks and types in `rbs_collector.rb` | functions; `Accepts` says which calls an overload accepts |
| `Framing` | `worker_loop` of `agent.rb`, from bytes to messages | one reader, one step per chunk; `Agent` takes its result for granted |
| `FramingProofs` | | the proofs about `Framing` |
| `TraceStream` | `Values`, `Wire`, `Framing` and `Collector` in a row: from a call to its signature | the elements of the arrays are the bytes of `Framing` |
| `MCTinyQueue`, `MCRacer`, `MCTracer`, `MCBlockTracer`, `MCConstantExplorer`, `MCTraceStream` | | constants, programs and symmetry for TLC |

State variables keep the names of the code or say in a comment which global they
stand for (`tp` is `tpCall`, `sock` is `socketFd`, `known` is `constant_map`,
`pending` is `constant_updates`, `cache` is `matched_paths`, `traces` is the
agent's `@queue`, `noted` is `@agent_threads`, `results` is `@results`).
Variables marked "history" exist for the properties only. An operator that a
comment calls a mutation is a plausible bug of the definition after it; nothing
uses it but the checks that the properties notice such a bug.

Granularity. Ruby code runs under the VM lock, so an event handler is one step -
except where it runs Ruby code itself, which may hand the lock to another thread.
Each module splits the handlers where that matters to its state:

* `Tracer` and `BlockTracer` split `process_call_event` between the search for
  the fiber's stack and the push (`Call` and `FinishCall`, `MethodCall` and
  `FinishMethodCall`): a block's trace point is enabled there, and the classes of
  the arguments are explored. `BlockTracer` splits the handler of a block's call
  in the same way (`EnableNested`, `FinishBlockCall`).
* `ConstantExplorer` and `Client` split the exploration of a constant:
  `constant_map` has it at once (racer.cc:111), `constant_updates` only at the
  end (221), and other threads run in between. `ConstantExplorer` does so at
  each lookup of a namespace, `Client` once per constant (`Explore`, `Announce`).

A handler of a return also explores, the class of the returned value, and so does
a call event before it looks for its stack. In `ConstantExplorer` any of these may be
interrupted; `Tracer`, `BlockTracer` and `Client` take a return for one step
(see "Not modelled").

`flush_end` never gives the lock up, so while it waits for the worker no Ruby
code of that process runs (`Running`); `Process.wait` in `stop_agent` does give
it up. The worker is a plain pthread. In the agent each reader, the
collector and the main thread interleave at every use of shared state.

`Client` reduces a method call to what delivery depends on (which constant it
needs, which constants its trace announces, whether the constant was still being
explored) and has any number of threads make calls: `active` is the set of owners on
`call_stacks`. It uses the abstract queue, which `TinyQueue` is shown to
implement. `Tracer` treats what the handlers do to the stacks in full, and knows
one trace point per method with a block; `BlockTracer` opens the blocks up and
needs only as much of the method events as reaches them: every method is given a
block, and a return finds its trace. The tables of constants are
`ConstantExplorer`'s.

A block in `BlockTracer` is a piece of code. Whoever holds a closure of it may
call it, on any fiber and at any time, also long after the method it was given
to has returned, and may pass it a block. Its trace point fires for the code of
the block and of all blocks written inside it, as Ruby's targeted trace points
do. `Tracer` and `BlockTracer` end with the first touch of freed memory (`fault`),
because nothing is known about the process after it.

## The runs

| run | expects | shows |
|---|---|---|
| `TinyQueue` | pass | `ListShape`, `MemoryOK` (one owner per node, used only while allocated, no leak), `NoLostWakeup`; `IsFifo`: the refinement of `FifoQueue`; `LinkedIsTaken`, `PushReturns` |
| `RacerSession` | pass | `InOrder` (with "stop" last), `NothingLost`, `HookHasQueue`, `DeathsAreExplained` (over which traces alone the collector's thread dies): one process over two sessions, with a crash, failing sends and a HUP at any time |
| `RacerParallel` | pass | `WrittenIsComplete`, `FlushReturns`, `StopAgentReturns`, `ClosedIsWritten`: leader and forked process, which may be killed; sends may fail |
| `HupWrites` | violation | the agent may end without writing |
| `FlushedIsWritten` | violation | a flushed connection may be missing from the output |
| `CrashedClient` | violation | `StopAgentAlwaysReturns` fails if a client dies before its flush |
| `ForkedOwner` | violation | `CollectorSurvives` fails with a forked process |
| `TracerStacks` | pass | `CacheIsFresh`, `StacksMirrorFrames`, `ReturnsArePaired`, `StopLeavesCutCalls` (of a fiber that was in no handler nothing, and no block trace point outlives its trace) |
| `TracerRetry` | violation | `Paired`: recursion from a rescue clause is taken for a retry |
| `BlockTracer` | pass | `OwnedOnce` (one owner per trace; only a failed worker leaks), `MethodTpsAlive`, `FaultCauses` (the three ways to touch freed memory), `FirstCallIsRecorded` |
| `ConstantExplorer` | pass | `ConstantsAccounted`, `AnnouncedInTime`, `NamesResolve`, `MixinsComplete` (no mixin lost, none repeated); `StopFinishes`, `SelfTypesFit`: what the collector makes of it |
| `TraceStream` | pass | `WholeInOrder` (with no byte lost), `TracesArrive`, `TypesDescribeValues`, `EveryCallIsAccepted` |

Each passing run also checks the `TypeOK` of its module. Deadlock is checked in
the explorer only, where somebody can always act. The other systems stop when
every message has been handled, every process has ended, the calls are used up,
or freed memory was touched.

Several properties hold only with an excuse, and say so:

* `InOrder`, `NothingLost`, `WrittenIsComplete`, `FlushedIsWritten`: not on a
  connection in `broken`, where a send failed although the agent was there;
* `StopAgentReturns`, `HupWrites`: if every process ends properly
  (`EndsProperly`): it flushes what it started, is not killed, and its sends
  succeed; `StopAgentAlwaysReturns` drops only "is not killed" (`Settles`);
* `FlushReturns`: unless the agent joins a reader for ever, which is what
  `CrashedClient` shows;
* `DeathsAreExplained`: a trace that overtook its constant (`early`), a constant
  announced on another connection, or a name in `BadNames`;
  `CollectorSurvives` excludes the first and the last;
* `StacksMirrorFrames`, `ReturnsArePaired`, `StopLeavesCutCalls`: not, until
  the next stop, for a fiber whose recursion was taken for a retry, whose frames
  live through a change of the regex, whose call event was cut in two by a stop,
  or whose identity was reused;
* `OwnedOnce`, `FirstCallIsRecorded`: up to the first fault, and the latter for
  calls from one fiber; what leads to a fault is the subject of `FaultCauses`;
* `AnnouncedInTime`: not for a constant that a fiber is still exploring;
* `NamesResolve`: not after a late rename; `MixinsComplete`: not where include
  and extend are mixed up, nor for what is prepended to an included module;
* `StopFinishes`: not for the modules named below; `SelfTypesFit`: not below
  other mixins of Object; `EveryCallIsAccepted`: not for the methods below.

Each excuse describes a behaviour of the code that a run without it shows;
"What the checks found" lists them.

**Bounds.** Two producers and two consumers are needed for a signal that wakes
the wrong thread and for two sleepers; three messages over two nodes let freed
nodes be reused, and allocation fail, while others are in flight. Racer itself
has a single consumer, so the instance is more general than the use. For
delivery, three traces of one process with "stop" against `Capacity` 2 make the
socket fill up, the worker block and the queue grow behind it; two connections
cover everything one session can leave behind for the next. In `RacerParallel`
the leader pushes one trace and the forked process none, against `Capacity` 1:
there it is the "stop" of `flush_end` that waits for room behind the trace, while
the forked process, its reader and its connection come and go; `WrittenIsComplete`
and the liveness properties compare connections with and without a trace. One owner
is enough: a second call of it finds it known, announced or not. `BadNames` is
empty in all runs, because one call with such a name always ends the collector;
only the theorems have them. `MaxCalls` 3 for two fibers of `Tracer` gives a call, its
super call and a third call that interleaves with them, while the path regex
changes and stops cut in.

`BlockTracer` has a block `b` with a block `c` written inside it, two fibers and
four calls. That is enough for a method, its block, the inner block and a second
method or fiber to overlap, for a block given to a block, for a closure that is
called after its method returned, for a stop in the middle of a call of a fiber
that has a stack or has none, and for the worker, its failure and a flush between any two
of these. `ConstantExplorer` explores eleven constants: cyclic mixins, a
module prepended to a class and one prepended to an included module, a subclass, an anonymous class, an anonymous namespace that
is noticed late, modules with a declaration and one with self types, with two
fibers that mention any three of them in any order and may explore at the same
time where a lookup runs Ruby code.

`TraceStream` has eleven calls: plain and nested collections beyond
`MaxGenericDepth` 2 (the default of `Racer.start`), unions, booleans, singleton classes, every kind of parameter, a block
that takes a block, announced constants, and calls of one method with and
without a block. A client sends up to two of them and "stop", so every pair
meets in the collector in either order; chunks hold 3, 7 or 20 elements (1024
bytes in the code), so that every place of a chunk's end relative to a NUL
occurs, and the stream may end anywhere.

Every bound only limits how much the environment does (calls, connections,
messages), never how the code reacts; `Capacity` is a property of the socket.

**Fairness.** `FairSpec` of `TinyQueue`: a thread inside push or pop runs on; a
thread that finds the mutex free again and again gets it (strong fairness, the
scheduler's, as pthread mutexes promise no queueing); a consumer that has handled a
message calls pop again or leaves its loop, as init_worker does. `FairSpec` of
`Racer` has one weak fairness condition per thread: the leader's, which polls in
`start_agent` and waits in `stop_agent`, each worker, each flush that has begun,
the agent's main thread (booting, accepting, leaving), each reader and the
collector. Nothing makes a send fail, except that one to a reset connection is
sure to (`SureWorkerStep`, `SureFlushStep`): a property that needs sends to succeed
says so. There is no fairness for what
the test suite does: it may stop calling anything at any time. A read
is only sure to return at the end of the stream or with enough bytes in the
buffer, because `IO#read(1024)` waits for all of them.

## The proofs

`TinyQueueProofs` proves for any finite sets of producers and consumers and any
sets of messages and nodes (`ConstantsAssumption`):

* `TypeCorrect`, `ListCorrect`, `MemorySafe`, `WakeupsAreKept`: the invariants
  `TypeOK`, `ListShape`, `MemoryOK` (`Ownership` and `NoLeak`), and `NoLostWakeup`;
* `Refinement`: `Spec => Fifo!Spec`, the queue is a FIFO.

The inductive invariant `IInv` adds two parts. `MutexOK` says that exactly
the holder of the mutex is between lock and unlock, and that sleepers are outside; without
it two threads could be about to write `tail`. `Carried` says that a new node
ends whatever list it will join and carries a message nobody else carries, which
is what makes `ListShape` and the mapping to the FIFO stable. Each part has a
lemma for its step (`ListShapeStep`, `OwnershipStep`, ...) with one case per
action. `NoLostWakeup` counts threads and nodes: it is not part of `IInv` but
inductive relative to it, by lemmas on the cardinality of a set that gains or
loses one thread. The refinement maps the linked nodes to the messages they
carry; linking a node is a put, moving `head` a take, everything else a stutter.

`DeliveryProofs` begins with the life cycle, for any processes and connections
(`ClientAssumption`)

* `HookIsSafe`: `HookHasQueue`, an enabled trace point has a queue, a socket and
  a worker behind it.

`LifeInv` says for each process which combinations of `tp`, `sock`, `worker` and
`flushing` exist: outside a flush socket, worker and trace point come and go
together; a flush takes them down in the order trace point, worker, socket.
`HookHasQueue` alone is not inductive: it says nothing about a flush under way,
after which `start` begins again. A step changes one process, so the step lemma
looks at that one (`OneProcess`).

It goes on to prove for any processes, connections and traces and any
capacity of the socket (`RacerAssumption`: "stop" is not a trace, and the
collector's `nil` is not an entry of its queue)

* `DeliveryTypes`: `TypeOK`, with the types of every queue and buffer and the
  bound on what a socket holds;
* `DeliveryInOrder`: `InOrder`;
* `NothingIsLost`: `NothingLost`.

Nothing here needs `SelectSeq` or induction over the messages. `Seen(c)` is what
the agent's end of a connection has got so far, from the traces parsed to the
bytes in the socket, `Everything(c)` what was pushed and a final "stop", and
`Owed(p)` what process `p` has yet to send on its current connection, in each
phase of a flush. A failed send cuts off what a connection carries: `Carries(c, u)`
says that this is `u`, a beginning of what was pushed, and all of it if no send
failed; that what is seen begins `u` and a "stop"; and that "stop" is seen only
when the client is done with the connection (`Finished`). `Ordered` says that
there is such a `u`.
`Complete` says that while both ends live and no send has failed,
`Seen(c) \o Owed(p) = Everything(c)`.
Almost every step moves a message along this concatenation and changes neither
side; a push adds to both, a crash or a reset only takes from the left.
`WorkerOK` ties the worker to the flush: it is done only while a flush waits for
it, and has failed only on a connection that was reset or is broken. `Unused`
keeps the next connection clean for the next session. The step lemmas look at the one process
that moves and its current connection (`ProcessStep`, `OtherConnection`:
a connection that no step touches stays as it is).

`CollectionProofs` goes on from there to the collector:

* `WrittenOutputIsComplete`: `WrittenIsComplete`;
* `EveryDeathIsExplained`: `DeathsAreExplained`.

For the first, `Collecting` gives each entry of the agent's queue its connection
and its number there (the history `nr`): what is collected of a connection
begins what was parsed, and every number between the two is in the collector's
hand or in the queue, once, in order. `WindingDown` says when the queue may be
closed: all noted readers have ended, and before that no push can fail. A
written output means an empty queue, so collected and parsed agree, and a reader
that stopped has parsed all that was pushed (`InOrder`). For the second,
`Announcing` follows the constants. Whatever a process knows it is exploring, has
pending, or somebody has announced (`Told`): itself, or the process it was forked
from. So the owner of a trace was announced on its own connection, with the trace or
before it (`OwnerComes`), unless the trace overtook it or another connection
brought it (`OwnerMayLack`); and the collector has registered
everything the traces it collected announced, except for names it changes. The step in
which the collector's thread dies meets a trace whose owner is missing, and only
these three cases are left.

`TracerProofs` proves for any fibers, methods, paths and constants
(`TracerAssumption`)

* `CacheNeverStale`: `CacheIsFresh`, over any sequence of starts.

About the stacks it proves, under the same assumption,

* `TracerTypes`: `TypeOK`;
* `StacksFollowProgram`: `StacksMirrorFrames`;
* `PairedReturns`: the action property `ReturnsArePaired`;
* `OnlyCutCallsAreLeft`: `StopLeavesCutCalls`.

`StackInv` holds for each fiber that is not excused (`Follows`): its stack and
its first `Height` frames mirror each other (`Mirror`), frames are `Numbered` in
the order of their calls, and a handler that waits for its block's trace point
holds the trace of the innermost frame. What makes it inductive is `Watched`: a
frame was seen only if its path, or its caller's, matches; and one that matches
but was not seen - its call came before the session - has no seen frame below
it. Without it a return could be handled whose call was not, and would take
somebody else's trace. Rescues and retries need that a rescued frame has a
rescued trace (`Belongs`). From this the pairing of returns follows, because the
trace on top belongs to the innermost frame. `LeftInv` follows memory instead of
frames: each enabled trace point of a block is held by a trace on a stack or by a
handler (`Held`), and with no session a fiber keeps at most the call that the
last stop cut in two (`Cut`): while the handler goes on its stack is empty, and
when it has pushed there is that one trace.

`ExplorerProofs` proves for any constants, names, mixins and fibers
(`ExplorerAssumption`)

* `ConstantsAreAccounted`: `ConstantsAccounted`, whatever the cycles;
* `AnnouncementsInTime`: `AnnouncedInTime`;
* `ExplorerTypes`: `TypeOK`;
* `NamesStayTrue`: `NamesResolve`, also while explorations are under way;
* `DeclarationsFinish`: `StopFinishes`, with any signatures (`DeclarationsAssumption`).

`ExplorerInv` is that the stacks hold calls about known constants (`TasksOK`),
that a trace names a known constant (`LogOK`), and that a known constant has
exactly one of the places a constant can have, an unknown one none (`Placed`).
A call that enters, returns or is handed over with a trace moves one constant
from one place to the next, and all other steps, the lookups and the walk
through the mixins, only change what a call has still to visit (`CallsGoOn`); so
no fact about the mixins is needed. A trace that is emitted takes all waiting
constants along: what it names is then announced, or is on a stack.

`NameInv` is inductive relative to that. Names are copied, so a name must stay
right: `RightNames` are those that no rename can falsify. A constant whose
outermost namespace is missing gets its new name in the very next step, and its
fiber has the VM lock until then (`Renaming`); so nobody else copies the first
name (`SettledUnless`, `NewName`). This needs to know what a call may still
visit: a missing namespace only if the name of its constant has one
(`Visitable`), and something in every call but the innermost (`IsCallStack`).
That the scan of the ancestors ends, and finds only constants, is
`AncestorsTyped`.

`DeclarationsFinish` rests on both and on `ListedInTime`: whatever an announced
constant lists was announced too, or was being explored when some trace was
handed over. A list grows only in the call that explores its constant
(`ListedByCaller`), and that constant has its one place on a stack, so it is not
announced yet (`NotYetAnnounced`): the lists of announced constants are final. When a
trace takes the waiting constants along, each module they list is known, so it
has a place: it goes along, went before, or is on a stack and in the trace's
`open` (`KnownIsSomewhere`, `ListedByEmit`). `find_self_types` only ever looks up
what stands in the list of a collected constant (`VisitedFrom`); `Visited`
follows the modules in rounds, one more than there are constants, which is why
these are assumed to be finite. A name it finds is right (`RightNames`), so the
lookup succeeds.

`MemoryProofs` proves for any fibers, any blocks in any nesting and any
number of calls (`BlockTracerAssumption`)

* `MethodTpsStayAlive`: `MethodTpsAlive`, the trace point of a method's block is
  enabled only while its trace is on `call_stacks` or in the call event that made
  it;
* `OnlyTheseFaults`: `FaultCauses`, freed memory, or memory the worker reads, is
  touched only through a nested trace point, a stale iterator, or by a block's
  call event that was interrupted.

The second follows from the first: an enabled trace point of a method's block
points to a trace in use, on a stack or in a call event (`InUse`), which is neither freed nor the
worker's (`TracesOK`, `InUseIsValid`); so a block event that meets an invalid
trace came from a nested trace point (`InvalidIsNested`). The other two faults are those
of the second half of a call event, and their causes are still there in the state
that follows (`FaultStep`).

It goes on, under the same assumption (`None` is no fiber, no name of
a trace and no handler):

* `TracesAreOwnedOnce`: `OwnedOnce`, nothing is freed twice, and nothing leaks but
  what a worker that could not send has left;
* `BlockTracerTypes`: `TypeOK`.

`Memory` is inductive relative to the invariant above. A trace of a method is in
a call event, on a stack, in the queue, with the worker or lost (`RootsOK`). The trace of a block call
has the name of its owner with the number of the call at the end. A handler makes
it under a name that no trace and no enabled trace point has, and each handler
works on a call of its own (`HandlersOK`); until it is pushed it waits in that handler
alone, then it is linked from its owner alone, first as a call, then as a record
(`LinksOK`, `HeldOnce`). So what a free reaches from a method's trace is closed
under links, and linked from nowhere else (`ReachesLinks`, `ReachedIsLinked`):
freeing it leaves no link to freed memory (`FreeKeeps`), and a trace that waits in a
handler is not freed with its owner.

`FirstCallProofs` proves, under the same assumption,

* `FirstCallsAreRecorded`: `FirstCallIsRecorded`. What a block trace point records
  when the calls of its block come from one fiber is the first call, complete
  with what that call returned.

`FirstInv` is inductive relative to `Memory`, up to the first fault. Its heart is
`FollowsIn`: while the first call is under way, `current_block_call_stack` holds
the trace of that call and a nullptr for each call inside it that the trace point
saw too, so its length is the number of watched frames from the first call up
(`Depth`; other frames may lie between them). The trace is therefore on top
exactly when the innermost frame is the first call, and the return that empties
the stack is that call's (`EndingFirst`); every other return takes a nullptr away
(`EndingInner`). A handler that stops to enable a trace point has noted its fiber
in the trace before it pushes: if its fiber is still the only one, nothing was
pushed meanwhile (`WaitingOK`), and `Pending` says that its frame is one ahead of
the stack. The return value stays because a recorded trace is linked from its
owner alone (`HeldOnce`) and so on no stack a later return could take it from.

`FramingProofs` proves for any messages, of any bytes and lengths, chunks of any
size and a connection that ends at any byte (`FramingAssumption`: messages are
not empty and hold no NUL, "stop" is none of them)

* `FramingTypes`: `TypeOK`;
* `FramingWhole`: `WholeInOrder`, so also `NoByteLost`.

The invariant, `At`, says where the reader is on the wire: it has handed on the
first n messages, the pending text begins message n + 1, and what is still to
come follows that text on the wire. A round keeps it by the arithmetic of the
positions at which messages end (`Till`). The NULs of a chunk are the ends of
the messages n + 1 to m that it completes (`NulsAre`, `ChunkSplits`), so
`String#split` returns what is missing of message n + 1, then whole messages,
and then the beginning of message m + 1 (`FirstPart`, `WholePart`, `LastPart`);
joined with the pending text, the messages are those from n + 1 to m
(`Yields`). Two cases are easy to miss: a chunk that is one NUL splits
into nothing and still completes the pending message, and the empty last part of a chunk
that ends with a NUL is dropped by `split`, while an empty first part in front of
another one is not. The wire is a recursive function of the messages; the facts
about it are proved by induction over 0..n on a set (`StepByStep`), which needs
no operator as a parameter.

Model-checked only: liveness (it needs fairness); that the mixins in the
explorer's lists are complete (`MixinsComplete`), which compares a closure of what Ruby
says with one of what is listed, and `SelfTypesFit`, which rests on that. `Values`, `Wire` and
`Collector` are recursive over data, which the prover cannot handle, and
`TraceStream` extends them: the path from a value to its signature stays with
TLC.

## What the checks found

The violation runs each show one place where the code does something else than
its text says; `PROJECT.json` quotes both. In short: HUP while the collector is behind ends the agent without output; a
connection not yet accepted or noted at HUP is dropped; a client that dies
before its flush keeps `stop_agent` waiting for ever; a forked process relies on
announcements its parent made; a recursive call from a rescue clause is taken
for a retry.

What follows has no run of its own. Mostly no text of the repository says
otherwise; two comments do (racer.cc:775 and rbs_collector.rb:81, quoted below).
The properties exclude these cases by name.

* Queue: `tiny_queue_destroy` leaves the last node of a queue that is not empty,
  as `Destroy` of `TinyQueue` shows (tiny_queue.cc:92); racer destroys only
  queues its worker has emptied or given up.
* Stop in the middle of a call: a stop on another thread, while a call event
  enables a block's trace point or explores an argument, clears `call_stacks`. The
  event then pushes through an iterator to a freed entry (racer.cc:639); if the
  fiber had no entry, its trace is pushed after the stop, and the block's trace
  point stays enabled until the method returns in a session or the next stop.
* Failed sends: the worker ends (worker.cc:176) with a trace in hand and the rest of the
  queue unfreed, while the program goes on filling the queue until it flushes.
* Blocks: the trace point of a block that was given to a block is never
  disabled (racer.cc:791) and keeps a pointer to memory the worker frees. The
  first call a trace point reports need not be the block's: a closure of an
  inner block, made by an earlier run of the block, may be called first;
  racer.cc:775 says "The only thing we can say for sure is that the first call to
  the block will be the one we actually want to trace". Calls of one block from two fibers share
  a stack and may record each other's return values.
* Constants: a module that is included, and that another mixin met earlier
  extends, is dropped from the included modules, as the filter does not tell
  including from extending (the same for extended modules below included ones);
  which modules are listed depends on what was known before; a module prepended to
  an included one precedes it among the ancestors and is listed for both; modules prepended
  to a superclass are listed as included in the subclass; a name copied before
  a late rename stays wrong; and a trace may overtake the announcement of a
  constant that another fiber is still exploring, which ends the collector's
  thread even with a single process (`DeathsAreExplained`).
* Names: `collect` registers constants under valid names (rbs_collector.rb:88),
  whose fragments begin with a capital letter, and looks the owner of a method up
  under the name in its trace (107): a class with another name ends the
  collector's thread.
* Declarations: a module that includes one whose declaration has self types
  (`Comparable`, `Enumerable`) ends `stop` of the collector with a `NameError`,
  for `find_self_types` says `existing_types` for `existing_type`
  (rbs_collector.rb:213). So does, with a `NoMethodError`, a module that lists
  one the collector has not got: one that another fiber is still exploring when
  the session ends, or that was listed under a name that changed later
  (rbs_collector.rb:210). As `stop` has removed the old output by then, neither
  is left. A module that Object includes only through another one does not get
  the self type BasicObject, although rbs_collector.rb:81 says "Modules that are
  included or prepended to the Object class need to have a self type that is not
  Object (for example BasicObject)".
* Signatures: a required parameter behind an optional one, `def foo(a = 1, b)`,
  is put in front of it. A call without a block, and one with a block that takes
  no arguments, share an overload that demands a block. A class with type
  parameters that is itself a value (`Array`) disappears from a union next to an
  instance with arguments, and the deletion during `each` skips elements. A
  destructured parameter is an `Array` whatever was passed.

## Not modelled

What the collector takes from the methods, interfaces and superclasses of
existing signatures, the order of declarations and the files: they are calls into
the RBS library and file I/O, and `stop` of the collector is one step of `Agent`. The
spelling of JSON, of names and of types; warnings. The `size_of_*` functions of
the worker, which only size buffers. The plugins appear as the calls they make,
in any order instead of theirs. Memory exhaustion is modelled in `TinyQueue`
only. A process forked in the middle of a session is left out: the railtie
flushes before tests fork. `Fork` also assumes that no call event of the leader is
being handled, as a test framework forks from its main loop.

The handler of a return is one step in `Tracer`, `BlockTracer` and `Client`. It
explores the class of the returned value after it has taken the trace off the
stack (racer.cc:686); if an autoload hands the VM lock to a thread that flushes
there, the push at 706 goes to a queue that was destroyed. In `Client` the names that
the collector changes (`BadNames`) are assumed to be no other constant's, and
methods to have legal names (rbs_collector.rb:93 skips the others, whatever their
owner). A send is whole or fails: one that a signal cuts short is left out. HUP before the
trap is the default action, which ends the agent at once (`Killed`).

## Plan

1. Done: `FifoQueue`, `TinyQueue` and its proofs; `Kernel`, `Client`, `Agent`,
   `Racer` and the proof of `HookHasQueue`; `Tracer` and the proof of its
   cache; `BlockTracer` and its proofs; `ConstantExplorer`, `Declarations`; `Values`, `Wire`,
   `Framing`, `Collector` and their composition `TraceStream`.
2. Done: the proofs of delivery and collection in `Racer` and of the stacks in
   `Tracer`. The accounting of constants in
   `ConstantExplorer` and the ownership of traces in `BlockTracer` are proved
   too, and so is what a block trace point records, which names
   the explorer hands out, that the collector has what its declarations name, and
   how `Framing` cuts bytes. Left: that the explorer's lists are complete.
3. `Delivery`: an abstract channel per connection that `Racer` implements.
4. A process forked while its parent traces, as a variant of `Fork`; a return
   that is interrupted while it explores; methods of existing signatures in
   `Collector`.
