------------------------------- MODULE Tracer -------------------------------
(***************************************************************************)
(* The trace point of ext/racer/racer.cc: what the call, return and rescue *)
(* events of a Ruby program do to call_stacks and the path cache, and what *)
(* Racer.start and Racer.stop do to them in between.                       *)
(*                                                                         *)
(* The program is any number of fibers on threads of their own, calling    *)
(* methods, rescuing, retrying and returning.  The VM lock makes an event  *)
(* handler atomic, except where it runs Ruby code, which may hand the lock *)
(* to another thread.  Here process_call_event does so between finding the *)
(* fiber's stack and pushing to it (hook): it enables a block's trace point*)
(* and explores the classes of the arguments.  Exploring before that, or   *)
(* when a method returns, runs no Ruby code in this module: what exploring *)
(* does to the constant tables, and what may run in between, is the subject*)
(* of ConstantExplorer.  Trace points inside blocks are BlockTracer's.     *)
(* Touching freed memory ends the model (fault).                           *)
(***************************************************************************)
EXTENDS Naturals, Sequences

CONSTANTS
  Fibers,      \* keys of call_stacks
  Methods,     \* records [name, owner, path]
  Paths,       \* source files
  Owners,      \* constants that own methods
  Matchers,    \* sets of paths: what the regexes given to start match
  NoMatcher,   \* start without a path_regex
  Unknown,     \* the path is not in matched_paths
  NoHook,      \* the fiber is not inside process_call_event
  MaxCalls     \* bound on the number of call events

ASSUME TracerAssumption ==
  /\ \A m \in Methods : m.owner \in Owners /\ m.path \in Paths
  /\ Matchers \subseteq SUBSET Paths /\ NoMatcher \notin Matchers
  /\ Unknown \notin BOOLEAN
  /\ NoHook \notin [trace : [id : Nat, frame : Nat, method : Methods, rescued : BOOLEAN],
                     found : BOOLEAN, stale : BOOLEAN]
  /\ MaxCalls \in Nat

VARIABLES
  on,          \* tpCall is enabled
  matcher,     \* pathMatcher
  cache,       \* matched_paths
  stacks,      \* call_stacks[f], <<>> if there is no entry
  present,     \* fibers with an entry in call_stacks
  hook,        \* hook[f]: what process_call_event holds across the switch
  blockTps,    \* traces whose block's trace point is enabled
  fault,       \* freed memory was touched
  frames,      \* the program: frames[f], innermost last
               \* [id, method, rescued, seen]; seen: its call event was handled
               \* since the last stop (history)
  calls,       \* the program: call events so far; numbers frames and traces
  log,         \* history: what was pushed to the queue, in order
  excused      \* history: fibers whose stack was disturbed, see below

program == <<frames, calls>>
vars == <<on, matcher, cache, stacks, present, hook, blockTps, fault, program,
          log, excused>>

Init ==
  /\ on = FALSE
  /\ matcher = NoMatcher
  /\ cache = [p \in Paths |-> Unknown]
  /\ stacks = [f \in Fibers |-> <<>>]
  /\ present = {}
  /\ hook = [f \in Fibers |-> NoHook]
  /\ blockTps = {}
  /\ fault = FALSE
  /\ frames = [f \in Fibers |-> <<>>]
  /\ calls = 0
  /\ log = <<>>
  /\ excused = {}

Top(s) == s[Len(s)]
Pop(s) == SubSeq(s, 1, Len(s) - 1)
Push(s, x) == Append(s, x)
SetTop(s, x) == [s EXCEPT ![Len(s)] = x]

(* Ruby code of the fiber runs. *)
Free(f) == hook[f] = NoHook

------------------------------------------------------------------------------
(* should_process_event: the path of the method or that of its caller has to *)
(* match; every answer of the regex is remembered.                           *)
Matches(p) == IF cache[p] # Unknown THEN cache[p] ELSE p \in matcher

(* The paths that an event of the innermost frame of fs asks about. *)
Asked(fs) ==
  LET own == Top(fs).method.path
  IN  IF matcher = NoMatcher THEN {}
      ELSE IF Matches(own) \/ Len(fs) = 1 THEN {own}
      ELSE {own, fs[Len(fs) - 1].method.path}

ShouldProcess(fs) ==
  matcher = NoMatcher \/ \E p \in Asked(fs) : Matches(p)

(* The event of the innermost frame of fs reaches the switch of              *)
(* process_tracepoint, or it does not; the cache learns either way.          *)
Event(fs, handled) ==
  /\ handled = (on /\ ShouldProcess(fs))
  /\ cache' = IF on THEN [p \in Paths |-> IF p \in Asked(fs) THEN Matches(p) ELSE cache[p]]
              ELSE cache

------------------------------------------------------------------------------
(* process_call_event *)

(* A call whose name and owner are those of a rescued trace on top of the    *)
(* stack is taken for a retry.                                               *)
LooksLikeRetry(f, m) ==
  /\ stacks[f] # <<>>
  /\ Top(stacks[f]).rescued
  /\ Top(stacks[f]).method.name = m.name /\ Top(stacks[f]).method.owner = m.owner

NewTrace(fr) == [id |-> calls', frame |-> fr.id, method |-> fr.method, rescued |-> FALSE]

(* What the handler does for the innermost frame of frames'[f]: it drops the *)
(* trace of a retry, pushes the trace at once, or is interrupted before.     *)
HandleCall(f, block) ==
  LET fr == Top(frames'[f])
  IN  \/ /\ LooksLikeRetry(f, fr.method)
         /\ UNCHANGED <<stacks, present, hook, blockTps>>
      \/ /\ ~LooksLikeRetry(f, fr.method) /\ ~block
         /\ stacks' = [stacks EXCEPT ![f] = Push(@, NewTrace(fr))]
         /\ present' = present \union {f}
         /\ UNCHANGED <<hook, blockTps>>
      \/ /\ ~LooksLikeRetry(f, fr.method)
         /\ hook' = [hook EXCEPT ![f] =
              [trace |-> NewTrace(fr), found |-> f \in present, stale |-> FALSE]]
         /\ blockTps' = IF block THEN blockTps \union {calls'} ELSE blockTps
         /\ UNCHANGED <<stacks, present>>

Call(f, m, block) ==
  /\ Free(f) /\ calls < MaxCalls
  /\ calls' = calls + 1
  /\ \E handled \in BOOLEAN :
       /\ frames' = [frames EXCEPT ![f] =
            Push(@, [id |-> calls + 1, method |-> m, rescued |-> FALSE, seen |-> handled])]
       /\ Event(frames'[f], handled)
       /\ IF handled THEN HandleCall(f, block)
                     ELSE UNCHANGED <<stacks, present, hook, blockTps>>
       /\ excused' = IF handled /\ LooksLikeRetry(f, m) THEN excused \union {f} ELSE excused
  /\ UNCHANGED <<on, matcher, fault, log>>

(* Mutation: a fiber's first stack is filled but not entered in call_stacks. *)
FinishCallNoEntry(f) ==
  /\ hook[f] # NoHook
  /\ IF hook[f].found /\ hook[f].stale
       THEN fault' = TRUE /\ UNCHANGED <<stacks, hook>>
       ELSE /\ stacks' = [stacks EXCEPT ![f] = Push(@, hook[f].trace)]
            /\ hook' = [hook EXCEPT ![f] = NoHook]
            /\ UNCHANGED fault
  /\ UNCHANGED <<on, matcher, cache, present, blockTps, program, log, excused>>

(* The rest of process_call_event, after Ruby code has run.  If stop cleared *)
(* call_stacks meanwhile, an iterator that was found points to freed memory. *)
FinishCall(f) ==
  /\ hook[f] # NoHook
  /\ IF hook[f].found /\ hook[f].stale
       THEN /\ fault' = TRUE
            /\ UNCHANGED <<stacks, present, hook>>
       ELSE /\ stacks' = [stacks EXCEPT ![f] = Push(@, hook[f].trace)]
            /\ present' = present \union {f}
            /\ hook' = [hook EXCEPT ![f] = NoHook]
            /\ UNCHANGED fault
  /\ UNCHANGED <<on, matcher, cache, blockTps, program, log, excused>>

(* retry runs the body again, and its call event fires again.                *)
Retry(f, block) ==
  /\ Free(f) /\ frames[f] # <<>> /\ Top(frames[f]).rescued /\ calls < MaxCalls
  /\ calls' = calls + 1
  /\ \E handled \in BOOLEAN :
       /\ frames' = [frames EXCEPT ![f] =
            SetTop(@, [Top(frames[f]) EXCEPT !.rescued = FALSE, !.seen = @ \/ handled])]
       /\ Event(frames'[f], handled)
       /\ IF handled THEN HandleCall(f, block)
                     ELSE UNCHANGED <<stacks, present, hook, blockTps>>
  /\ UNCHANGED <<on, matcher, fault, log, excused>>

(* process_rescued_event: only the name is compared. *)
Rescue(f) ==
  /\ Free(f) /\ frames[f] # <<>> /\ ~Top(frames[f]).rescued
  /\ frames' = [frames EXCEPT ![f] = SetTop(@, [Top(@) EXCEPT !.rescued = TRUE])]
  /\ \E handled \in BOOLEAN :
       /\ Event(frames[f], handled)
       /\ IF /\ handled /\ stacks[f] # <<>>
             /\ Top(stacks[f]).method.name = Top(frames[f]).method.name
            THEN stacks' = [stacks EXCEPT ![f] = SetTop(@, [Top(@) EXCEPT !.rescued = TRUE])]
            ELSE UNCHANGED stacks
  /\ UNCHANGED <<on, matcher, present, hook, blockTps, fault, calls, log, excused>>

Logged(f) == Append(log, [call |-> Top(stacks[f]).frame, return |-> Top(frames[f]).id])

EmitNoPop(f) ==   \* mutation: no pop_back
  /\ UNCHANGED stacks
  /\ blockTps' = blockTps \ {Top(stacks[f]).id}
  /\ log' = Logged(f)

(* process_return_event: the trace on top is completed with the returned     *)
(* value and goes to the queue.  It is left alone if there is none, or if    *)
(* its name is not the method's.                                             *)
Emit(f) ==
  /\ stacks' = [stacks EXCEPT ![f] = Pop(@)]
  /\ blockTps' = blockTps \ {Top(stacks[f]).id}
  /\ log' = Logged(f)

Return(f) ==
  /\ Free(f) /\ frames[f] # <<>>
  /\ frames' = [frames EXCEPT ![f] = Pop(@)]
  /\ \E handled \in BOOLEAN :
       /\ Event(frames[f], handled)
       /\ IF /\ handled /\ stacks[f] # <<>>
             /\ Top(stacks[f]).method.name = Top(frames[f]).method.name
            THEN Emit(f)
            ELSE UNCHANGED <<stacks, blockTps, log>>
  /\ UNCHANGED <<on, matcher, present, hook, fault, calls, excused>>

(* A fiber is dropped with its frames, and a new one gets its identity.      *)
Abandon(f) ==
  /\ Free(f) /\ frames[f] # <<>>
  /\ frames' = [frames EXCEPT ![f] = <<>>]
  /\ excused' = IF stacks[f] # <<>> THEN excused \union {f} ELSE excused
  /\ UNCHANGED <<on, matcher, cache, stacks, present, hook, blockTps, fault,
                 calls, log>>

------------------------------------------------------------------------------
(* Racer.start and Racer.stop *)

(* Mutation: the cache outlives its regex. *)
StartKeepsCache(r) ==
  /\ matcher' = r
  /\ on' = TRUE
  /\ excused' = IF on /\ r # matcher
                  THEN excused \union {f \in Fibers : frames[f] # <<>>} ELSE excused
  /\ UNCHANGED <<cache, stacks, present, hook, blockTps, fault, program, log>>

Start(r) ==
  /\ matcher' = r
  /\ cache' = IF r = matcher THEN cache ELSE [p \in Paths |-> Unknown]
  /\ on' = TRUE
  /\ excused' = IF on /\ r # matcher
                  THEN excused \union {f \in Fibers : frames[f] # <<>>} ELSE excused
  /\ UNCHANGED <<stacks, present, hook, blockTps, fault, program, log>>

OnStacks == UNION {{stacks[f][i].id : i \in 1..Len(stacks[f])} : f \in Fibers}

HooksStale ==
  [f \in Fibers |-> IF hook[f] = NoHook THEN NoHook ELSE [hook[f] EXCEPT !.stale = TRUE]]
FramesUnseen ==
  [f \in Fibers |-> [i \in 1..Len(frames[f]) |-> [frames[f][i] EXCEPT !.seen = FALSE]]]

(* Mutation: block trace points stay enabled.                                *)
StopKeepsBlockTps ==
  /\ on' = FALSE
  /\ stacks' = [f \in Fibers |-> <<>>]
  /\ present' = {}
  /\ hook' = HooksStale
  /\ frames' = FramesUnseen
  /\ excused' = {f \in Fibers : hook[f] # NoHook}
  /\ UNCHANGED <<matcher, cache, blockTps, fault, calls, log>>

Stop ==
  /\ on' = FALSE
  /\ blockTps' = blockTps \ OnStacks
  /\ stacks' = [f \in Fibers |-> <<>>]
  /\ present' = {}
  /\ hook' = HooksStale
  /\ frames' = FramesUnseen
  /\ excused' = {f \in Fibers : hook[f] # NoHook}
  /\ UNCHANGED <<matcher, cache, fault, calls, log>>

(* Some thread has to run to call them. *)
SomeoneRuns == \E f \in Fibers : Free(f)

Next ==
  /\ ~fault
  /\ \/ \E f \in Fibers :
          \/ \E m \in Methods, block \in BOOLEAN : Call(f, m, block)
          \/ \E block \in BOOLEAN : Retry(f, block)
          \/ FinishCall(f) \/ Rescue(f) \/ Return(f) \/ Abandon(f)
     \/ SomeoneRuns /\ Stop
     \/ SomeoneRuns /\ \E r \in Matchers \union {NoMatcher} : Start(r)

Spec == Init /\ [][Next]_vars

------------------------------------------------------------------------------
(* Properties.  A fiber is excused from the ones about its stack, until the  *)
(* next stop, after one of: a recursive call from a rescue clause that was   *)
(* taken for a retry; another regex while its frames were live; a stop       *)
(* between the two halves of its process_call_event; the reuse of its        *)
(* identity for a new fiber.                                                 *)

TypeOK ==
  /\ on \in BOOLEAN
  /\ matcher \in Matchers \union {NoMatcher}
  /\ cache \in [Paths -> BOOLEAN \union {Unknown}]
  /\ present \subseteq Fibers
  /\ \A f \in Fibers : stacks[f] # <<>> => f \in present
  /\ blockTps \subseteq 1..MaxCalls /\ calls \in 0..MaxCalls
  /\ fault \in BOOLEAN

(* call_stacks mirrors the program: the traces on a fiber's stack are those  *)
(* of its frames whose call was seen, all of them - but for the innermost    *)
(* one while its handler has not finished - and the outermost call is first  *)
(* (frames are numbered in the order of their calls).                        *)
SeenFrames(f) ==
  {k \in 1..Len(frames[f]) :
     frames[f][k].seen /\ (hook[f] = NoHook \/ k < Len(frames[f]))}

StacksMirrorFrames ==
  \A f \in Fibers \ excused :
    /\ {<<stacks[f][i].frame, stacks[f][i].method>> : i \in 1..Len(stacks[f])}
         = {<<frames[f][k].id, frames[f][k].method>> : k \in SeenFrames(f)}
    /\ \A i, j \in 1..Len(stacks[f]) : i < j => stacks[f][i].frame < stacks[f][j].frame

(* A trace leaves with the return value of its own call. *)
Paired == \A i \in 1..Len(log) : log[i].call = log[i].return

(* As an action: the next return of a fiber that is not excused is paired.   *)
ReturnsArePaired ==
  [][\A f \in Fibers \ excused :
       log' # log /\ frames'[f] # frames[f] => Top(log').call = Top(log').return]_vars

(* The cache answers what the regex of the latest start would. *)
CacheIsFresh ==
  \A p \in Paths : cache[p] # Unknown => matcher # NoMatcher /\ cache[p] = (p \in matcher)

(* A block's trace point, which points to its trace, is enabled only while   *)
(* the trace is on a stack or held by the handler that is about to push it.  *)
BlockTpsAlive ==
  blockTps \subseteq OnStacks
    \union {hook[f].trace.id : f \in {g \in Fibers : hook[g] # NoHook}}

(* Until the next start, stop leaves of each fiber no more than the call that*)
(* it cut in two: one trace, in its handler or pushed since by its second    *)
(* half, whose block's trace point may be enabled.  A fiber that was in no   *)
(* handler keeps nothing, and no trace point outlives its trace, during a    *)
(* session or after.                                                         *)
StopLeavesCutCalls ==
  /\ BlockTpsAlive
  /\ ~on => \A f \in Fibers :
       IF f \in excused
         THEN stacks[f] = <<>> \/ (Len(stacks[f]) = 1 /\ hook[f] = NoHook)
         ELSE stacks[f] = <<>> /\ hook[f] = NoHook /\ f \notin present
==============================================================================
