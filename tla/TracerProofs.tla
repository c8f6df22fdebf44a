---------------------------- MODULE TracerProofs ----------------------------
(***************************************************************************)
(* Proofs about the trace point: for any number of fibers, methods, calls  *)
(* and sessions the path cache is never stale; the stacks mirror the frames*)
(* of the program; a return completes the trace of its own call; and stop  *)
(* leaves no more than the calls it cuts in two.                           *)
(***************************************************************************)
EXTENDS Tracer, SequenceTheorems, TLAPS

(* The cache is a function, and fresh. *)
CacheInv == cache \in [Paths -> BOOLEAN \union {Unknown}] /\ CacheIsFresh

(* An event asks only about paths whose answers it computes with the current *)
(* regex.                                                                    *)
LEMMA EventKeepsCache ==
  ASSUME CacheInv, NEW fs, NEW h \in BOOLEAN, Event(fs, h), UNCHANGED matcher
  PROVE  CacheInv'
<1>1. CASE ~on
  BY <1>1 DEF CacheInv, CacheIsFresh, Event
<1>2. CASE on
  <2>1. cache' = [p \in Paths |-> IF p \in Asked(fs) THEN Matches(p) ELSE cache[p]]
    BY <1>2 DEF Event
  <2>2. ASSUME NEW p \in Paths, p \in Asked(fs)
        PROVE  matcher # NoMatcher /\ Matches(p) = (p \in matcher)
    BY <2>2 DEF Asked, Matches, CacheInv, CacheIsFresh
  <2>3. \A p \in Paths : Matches(p) \in BOOLEAN
    <3> TAKE p \in Paths
    <3>1. CASE cache[p] # Unknown
      BY <3>1 DEF Matches, CacheInv
    <3>2. CASE cache[p] = Unknown
      <4>1. Matches(p) = (p \in matcher)
        BY <3>2 DEF Matches
      <4>2. (p \in matcher) \in BOOLEAN
        OBVIOUS
      <4> QED BY <4>1, <4>2, Zenon
    <3> QED BY <3>1, <3>2
  <2> QED
    BY <2>1, <2>2, <2>3 DEF CacheInv, CacheIsFresh
<1> QED BY <1>1, <1>2

(* Every step keeps the cache fresh. *)
LEMMA CacheStep ==
  ASSUME CacheInv, [Next]_vars
  PROVE  CacheInv'
<1>1. CASE UNCHANGED <<cache, matcher>>
  BY <1>1 DEF CacheInv, CacheIsFresh
<1>2. ASSUME NEW fs, NEW h \in BOOLEAN, Event(fs, h), UNCHANGED matcher
      PROVE  CacheInv'
  BY <1>2, EventKeepsCache
<1>3. ASSUME NEW f \in Fibers, NEW m \in Methods, NEW b \in BOOLEAN, Call(f, m, b)
      PROVE  CacheInv'
  BY <1>2, <1>3 DEF Call
<1>4. ASSUME NEW f \in Fibers, NEW b \in BOOLEAN, Retry(f, b) PROVE CacheInv'
  BY <1>2, <1>4 DEF Retry
<1>5. ASSUME NEW f \in Fibers, Rescue(f) PROVE CacheInv'
  BY <1>2, <1>5 DEF Rescue
<1>6. ASSUME NEW f \in Fibers, Return(f) PROVE CacheInv'
  BY <1>2, <1>6 DEF Return
<1>7. ASSUME NEW r \in Matchers \union {NoMatcher}, Start(r) PROVE CacheInv'
  BY <1>7, TracerAssumption DEF Start, CacheInv, CacheIsFresh
<1>8. ASSUME NEW f \in Fibers, FinishCall(f) \/ Abandon(f)
      PROVE  UNCHANGED <<cache, matcher>>
  BY <1>8 DEF FinishCall, Abandon
<1>9. Stop \/ UNCHANGED vars => UNCHANGED <<cache, matcher>>
  BY DEF Stop, vars
<1> QED
  BY <1>1, <1>3, <1>4, <1>5, <1>6, <1>7, <1>8, <1>9 DEF Next

(* Every behaviour keeps the cache fresh. *)
LEMMA CacheInvariant == Spec => []CacheInv
<1>1. Init => CacheInv
  BY TracerAssumption DEF Init, CacheInv, CacheIsFresh
<1> QED BY <1>1, CacheStep, PTL DEF Spec

(* The cache answers what the regex of the latest start would, whatever      *)
(* sessions with other regexes came before.                                  *)
THEOREM CacheNeverStale == Spec => []CacheIsFresh
<1>1. CacheInv => CacheIsFresh
  BY DEF CacheInv
<1> QED BY <1>1, CacheInvariant, PTL

------------------------------------------------------------------------------
(* Traces, frames and what a handler holds are records of their kinds. *)

FrameRecord == [id : Nat, method : Methods, rescued : BOOLEAN, seen : BOOLEAN]
LogRecord == [call : Nat, return : Nat]
TraceRecord == [id : Nat, frame : Nat, method : Methods, rescued : BOOLEAN]
HookType == [trace : TraceRecord, found : BOOLEAN, stale : BOOLEAN]

StacksOK == stacks \in [Fibers -> Seq(TraceRecord)]
HooksOK == hook \in [Fibers -> HookType \union {NoHook}]
ProgramOK == frames \in [Fibers -> Seq(FrameRecord)] /\ calls \in Nat
LogOK == log \in Seq(LogRecord)

ShapeInv == StacksOK /\ HooksOK /\ ProgramOK /\ LogOK

(* Operations on the end of a sequence. *)
LEMMA EndOfSeq ==
  ASSUME NEW S, NEW q \in Seq(S)
  PROVE  /\ \A x \in S : Push(q, x) \in Seq(S)
         /\ \A x \in S : Top(Push(q, x)) = x
         /\ q # <<>> => Top(q) \in S
         /\ q # <<>> => Pop(q) \in Seq(S)
         /\ q # <<>> => \A x \in S : SetTop(q, x) \in Seq(S)
         /\ q # <<>> => \A x \in S : Top(SetTop(q, x)) = x
<1>1. \A x \in S : Push(q, x) \in Seq(S) /\ Top(Push(q, x)) = x
  BY DEF Push, Top
<1>2. ASSUME q # <<>> PROVE Len(q) \in Nat \ {0} /\ Top(q) \in S
  BY <1>2 DEF Top
<1>3. ASSUME q # <<>> PROVE Pop(q) \in Seq(S)
  <2>1. \A i \in 1..(Len(q) - 1) : q[i] \in S
    BY <1>2, <1>3
  <2>2. Len(q) - 1 \in Int
    BY <1>2, <1>3
  <2> QED BY <2>1, <2>2, SubSeqProperties DEF Pop
<1>4. ASSUME q # <<>>, NEW x \in S
      PROVE  SetTop(q, x) \in Seq(S) /\ Top(SetTop(q, x)) = x
  BY <1>2, <1>4 DEF SetTop, Top
<1> QED BY <1>1, <1>2, <1>3, <1>4

(* What process_call_event does for a frame makes records of a trace. *)
LEMMA HandleCallKeeps ==
  ASSUME ShapeInv, NEW f \in Fibers, NEW b \in BOOLEAN, ProgramOK',
         Top(frames'[f]) \in FrameRecord, HandleCall(f, b), UNCHANGED log
  PROVE  ShapeInv'
<1>0. PICK fr, t, found : /\ fr = Top(frames'[f]) /\ t = NewTrace(fr)
                          /\ found = (f \in present)
  OBVIOUS
<1>1. t \in TraceRecord /\ found \in BOOLEAN
  <2>1. t \in TraceRecord
    BY <1>0 DEF NewTrace, TraceRecord, FrameRecord, ProgramOK
  <2>2. (f \in present) \in BOOLEAN
    OBVIOUS
  <2> QED BY <1>0, <2>1, <2>2, Zenon
<1>2. CASE UNCHANGED <<stacks, hook>>
  BY <1>2 DEF ShapeInv, HooksOK, StacksOK, LogOK
<1>3. CASE stacks' = [stacks EXCEPT ![f] = Push(@, t)] /\ UNCHANGED hook
  <2>1. Push(stacks[f], t) \in Seq(TraceRecord)
    BY <1>1, EndOfSeq DEF ShapeInv, StacksOK
  <2> QED BY <1>3, <2>1 DEF ShapeInv, HooksOK, StacksOK, LogOK
<1>4. CASE /\ hook' = [hook EXCEPT ![f] =
                [trace |-> t, found |-> f \in present, stale |-> FALSE]]
           /\ UNCHANGED stacks
  <2>1. [trace |-> t, found |-> found, stale |-> FALSE] \in HookType
    BY <1>1 DEF HookType
  <2>2. hook' = [hook EXCEPT ![f] = [trace |-> t, found |-> found, stale |-> FALSE]]
    BY <1>0, <1>4
  <2> QED BY <1>4, <2>1, <2>2 DEF ShapeInv, HooksOK, StacksOK, LogOK
<1> QED BY <1>0, <1>2, <1>3, <1>4 DEF HandleCall

(* A return takes the trace on top off and logs it. *)
LEMMA EmitKeeps ==
  ASSUME ShapeInv, NEW f \in Fibers, ProgramOK',
         frames[f] # <<>>, stacks[f] # <<>>, Emit(f), UNCHANGED hook
  PROVE  ShapeInv'
<1>1. Top(stacks[f]) \in TraceRecord /\ Pop(stacks[f]) \in Seq(TraceRecord)
  BY EndOfSeq DEF ShapeInv, StacksOK
<1>2. Top(frames[f]) \in FrameRecord
  BY EndOfSeq DEF ShapeInv, ProgramOK
<1>3. PICK e : e = [call |-> Top(stacks[f]).frame, return |-> Top(frames[f]).id]
  OBVIOUS
<1>4. e \in LogRecord
  <2>1. Top(stacks[f]).frame \in Nat
    BY <1>1 DEF TraceRecord
  <2>2. Top(frames[f]).id \in Nat
    BY <1>2 DEF FrameRecord
  <2> QED BY <1>3, <2>1, <2>2 DEF LogRecord
<1>5. log' = Append(log, e) /\ stacks' = [stacks EXCEPT ![f] = Pop(@)]
  BY <1>3 DEF Emit, Logged
<1>6. LogOK'
  BY <1>4, <1>5 DEF ShapeInv, LogOK
<1>7. StacksOK'
  BY <1>1, <1>5 DEF ShapeInv, StacksOK
<1> QED BY <1>6, <1>7 DEF ShapeInv, HooksOK

(* Marking the trace on top of a stack as rescued leaves it a trace.         *)
LEMMA RescuedKeeps ==
  ASSUME ShapeInv, NEW f \in Fibers, stacks[f] # <<>>, ProgramOK',
         stacks' = [stacks EXCEPT ![f] = SetTop(@, [Top(@) EXCEPT !.rescued = TRUE])],
         UNCHANGED <<hook, log>>
  PROVE  ShapeInv'
<1> DEFINE t == [Top(stacks[f]) EXCEPT !.rescued = TRUE]
<1>1. Top(stacks[f]) \in TraceRecord
  BY EndOfSeq DEF ShapeInv, StacksOK
<1>2. t \in TraceRecord
  BY <1>1 DEF TraceRecord
<1>3. SetTop(stacks[f], t) \in Seq(TraceRecord)
  <2> HIDE DEF t
  <2> QED BY <1>2, EndOfSeq DEF ShapeInv, StacksOK
<1> QED BY <1>3 DEF ShapeInv, StacksOK, HooksOK, LogOK

(* Nothing but the program moves. *)
LEMMA ProgramOnly ==
  ASSUME ShapeInv, ProgramOK', UNCHANGED <<stacks, hook, log>>
  PROVE  ShapeInv'
BY DEF ShapeInv, StacksOK, HooksOK, LogOK

(* The steps of a fiber. *)
LEMMA FiberStep ==
  ASSUME ShapeInv, NEW f \in Fibers
  PROVE  /\ \A m \in Methods, b \in BOOLEAN : Call(f, m, b) => ShapeInv'
         /\ \A b \in BOOLEAN : Retry(f, b) => ShapeInv'
         /\ Rescue(f) => ShapeInv'
         /\ FinishCall(f) => ShapeInv'
         /\ Abandon(f) => ShapeInv'
         /\ Return(f) => ShapeInv'
<1>0. ProgramOK /\ frames[f] \in Seq(FrameRecord)
      /\ (frames[f] # <<>> => Top(frames[f]) \in FrameRecord)
  BY EndOfSeq DEF ShapeInv, ProgramOK
<1>1. ASSUME NEW m \in Methods, NEW b \in BOOLEAN, Call(f, m, b) PROVE ShapeInv'
  <2>1. PICK h \in BOOLEAN :
          /\ frames' = [frames EXCEPT ![f] =
               Push(@, [id |-> calls + 1, method |-> m, rescued |-> FALSE, seen |-> h])]
          /\ IF h THEN HandleCall(f, b)
                  ELSE UNCHANGED <<stacks, present, hook, blockTps>>
    BY <1>1 DEF Call
  <2> DEFINE fr == [id |-> calls + 1, method |-> m, rescued |-> FALSE, seen |-> h]
  <2>2. fr \in FrameRecord
    BY <1>0 DEF FrameRecord, ProgramOK
  <2>3. Push(frames[f], fr) \in Seq(FrameRecord) /\ Top(Push(frames[f], fr)) = fr
    <3> HIDE DEF fr
    <3> QED BY <1>0, <2>2, EndOfSeq
  <2>4. ProgramOK' /\ Top(frames'[f]) \in FrameRecord
    <3> HIDE DEF fr
    <3>1. frames' = [frames EXCEPT ![f] = Push(@, fr)]
      BY <2>1 DEF fr
    <3>2. calls' = calls + 1
      BY <1>1 DEF Call
    <3> QED BY <1>0, <2>2, <2>3, <3>1, <3>2 DEF ProgramOK
  <2> QED BY <1>1, <2>1, <2>4, HandleCallKeeps, ProgramOnly DEF Call
<1>2. ASSUME NEW b \in BOOLEAN, Retry(f, b) PROVE ShapeInv'
  <2>1. PICK h \in BOOLEAN :
          /\ frames' = [frames EXCEPT ![f] =
               SetTop(@, [Top(frames[f]) EXCEPT !.rescued = FALSE, !.seen = @ \/ h])]
          /\ IF h THEN HandleCall(f, b)
                  ELSE UNCHANGED <<stacks, present, hook, blockTps>>
    BY <1>2 DEF Retry
  <2> DEFINE fr == [Top(frames[f]) EXCEPT !.rescued = FALSE, !.seen = @ \/ h]
  <2>2. fr \in FrameRecord
    BY <1>0, <1>2 DEF FrameRecord, Retry
  <2>3. SetTop(frames[f], fr) \in Seq(FrameRecord) /\ Top(SetTop(frames[f], fr)) = fr
    <3> HIDE DEF fr
    <3> QED BY <1>0, <1>2, <2>2, EndOfSeq DEF Retry
  <2>4. ProgramOK' /\ Top(frames'[f]) \in FrameRecord
    <3> HIDE DEF fr
    <3>1. frames' = [frames EXCEPT ![f] = SetTop(@, fr)]
      BY <2>1 DEF fr
    <3>2. calls' = calls + 1
      BY <1>2 DEF Retry
    <3> QED BY <1>0, <2>2, <2>3, <3>1, <3>2 DEF ProgramOK
  <2> QED BY <1>2, <2>1, <2>4, HandleCallKeeps, ProgramOnly DEF Retry
<1>3. ASSUME Rescue(f) PROVE ShapeInv'
  <2> DEFINE fr == [Top(frames[f]) EXCEPT !.rescued = TRUE]
  <2>1. fr \in FrameRecord
    BY <1>0, <1>3 DEF FrameRecord, Rescue
  <2>2. SetTop(frames[f], fr) \in Seq(FrameRecord)
    <3> HIDE DEF fr
    <3> QED BY <1>0, <1>3, <2>1, EndOfSeq DEF Rescue
  <2>3. ProgramOK'
    <3> HIDE DEF fr
    <3>1. frames' = [frames EXCEPT ![f] = SetTop(@, fr)] /\ calls' = calls
      BY <1>3 DEF Rescue, fr
    <3> QED BY <1>0, <2>2, <3>1 DEF ProgramOK
  <2> QED BY <1>3, <2>3, RescuedKeeps, ProgramOnly DEF Rescue
<1>4. ASSUME FinishCall(f) PROVE ShapeInv'
  <2>1. hook[f].trace \in TraceRecord
    BY <1>4 DEF FinishCall, ShapeInv, HooksOK, HookType
  <2>2. HooksOK'
    BY <1>4 DEF FinishCall, ShapeInv, HooksOK
  <2>3. StacksOK'
    <3>1. Push(stacks[f], hook[f].trace) \in Seq(TraceRecord)
      BY <2>1, EndOfSeq DEF ShapeInv, StacksOK
    <3> QED BY <1>4, <3>1 DEF FinishCall, ShapeInv, StacksOK
  <2> QED BY <1>4, <2>2, <2>3
          DEF FinishCall, ShapeInv, LogOK, ProgramOK, program
<1>5. ASSUME Abandon(f) PROVE ShapeInv'
  <2>1. ProgramOK'
    BY <1>0, <1>5 DEF Abandon, ProgramOK
  <2> QED BY <1>5, <2>1, ProgramOnly DEF Abandon
<1>6. ASSUME Return(f) PROVE ShapeInv'
  <2>1. Pop(frames[f]) \in Seq(FrameRecord)
    BY <1>0, <1>6, EndOfSeq DEF Return
  <2>2. ProgramOK'
    BY <1>0, <1>6, <2>1 DEF Return, ProgramOK
  <2> QED BY <1>6, <2>2, EmitKeeps, ProgramOnly DEF Return
<1> QED BY <1>1, <1>2, <1>3, <1>4, <1>5, <1>6

(* Stop clears the stacks and forgets what was seen. *)
LEMMA StopKeepsShape ==
  ASSUME ShapeInv, Stop
  PROVE  ShapeInv'
<1>1. StacksOK'
  BY DEF Stop, StacksOK
<1>2. HooksOK'
  <2>1. \A f \in Fibers : HooksStale[f] \in HookType \union {NoHook}
    BY DEF HooksStale, HookType, ShapeInv, HooksOK
  <2> QED BY <2>1 DEF Stop, HooksStale, HooksOK
<1>3. ProgramOK'
  <2>1. \A f \in Fibers : FramesUnseen[f] \in Seq(FrameRecord)
    <3> TAKE f \in Fibers
    <3>1. frames[f] \in Seq(FrameRecord) /\ Len(frames[f]) \in Nat
      BY DEF ShapeInv, ProgramOK
    <3>2. \A i \in 1..Len(frames[f]) :
            [frames[f][i] EXCEPT !.seen = FALSE] \in FrameRecord
      <4> TAKE i \in 1..Len(frames[f])
      <4>1. frames[f][i] \in FrameRecord
        BY <3>1
      <4> QED BY <4>1 DEF FrameRecord
    <3>3. FramesUnseen[f] \in [1..Len(frames[f]) -> FrameRecord]
      BY <3>2 DEF FramesUnseen
    <3> QED BY <3>1, <3>3, SeqDef
  <2> QED BY <2>1 DEF Stop, FramesUnseen, ShapeInv, ProgramOK
<1> QED BY <1>1, <1>2, <1>3 DEF Stop, ShapeInv, LogOK

(* Every behaviour keeps the records what they are. *)
LEMMA ShapeInvariant == Spec => []ShapeInv
<1>1. Init => ShapeInv
  BY DEF Init, ShapeInv, StacksOK, HooksOK, ProgramOK, LogOK
<1>2. ShapeInv /\ [Next]_vars => ShapeInv'
  <2> SUFFICES ASSUME ShapeInv, [Next]_vars PROVE ShapeInv'
    OBVIOUS
  <2>1. ASSUME NEW r, Start(r) PROVE ShapeInv'
    BY <2>1, ProgramOnly DEF Start, ShapeInv, ProgramOK, program
  <2>2. CASE UNCHANGED vars
    BY <2>2, ProgramOnly DEF vars, ShapeInv, ProgramOK, program
  <2> QED BY <2>1, <2>2, FiberStep, StopKeepsShape DEF Next
<1> QED BY <1>1, <1>2, PTL DEF Spec

------------------------------------------------------------------------------
(* Stacks and frames *)

(* The trace t was made for the frame fr. *)
Belongs(t, fr) ==
  /\ fr.seen /\ t.frame = fr.id /\ t.method = fr.method
  /\ fr.rescued => t.rescued

(* The stack s mirrors the first n frames of fs. *)
Mirror(s, fs, n) ==
  /\ \A i \in 1..Len(s) : \E k \in 1..n : Belongs(s[i], fs[k])
  /\ \A k \in 1..n : fs[k].seen => \E i \in 1..Len(s) : s[i].frame = fs[k].id
  /\ \A i, j \in 1..Len(s) : i < j => s[i].frame < s[j].frame

(* What a handler holds is told from NoHook. *)
LEMMA HookRecord ==
  ASSUME NEW t \in TraceRecord, NEW a \in BOOLEAN, NEW b \in BOOLEAN
  PROVE  [trace |-> t, found |-> a, stale |-> b] # NoHook
<1>1. [trace |-> t, found |-> a, stale |-> b]
        \in [trace : TraceRecord, found : BOOLEAN, stale : BOOLEAN]
  OBVIOUS
<1> QED BY <1>1, TracerAssumption DEF TraceRecord

(* The frames are numbered in the order of their calls. *)
Numbered(fs, m) ==
  /\ \A k \in 1..Len(fs) : fs[k].id <= m
  /\ \A k, l \in 1..Len(fs) : k < l => fs[k].id < fs[l].id

(* A frame that was not seen is invisible. *)
LEMMA MirrorCut ==
  ASSUME NEW s, NEW fs, NEW n \in Nat \ {0}, ~fs[n].seen
  PROVE  Mirror(s, fs, n) <=> Mirror(s, fs, n - 1)
<1>1. \A k : k \in 1..n <=> k \in 1..(n - 1) \/ k = n
  OBVIOUS
<1>2. \A t : ~Belongs(t, fs[n])
  BY DEF Belongs
<1> QED BY <1>1, <1>2 DEF Mirror

(* Only the parts of a frame that a trace repeats matter. *)
LEMMA MirrorLike ==
  ASSUME NEW s, NEW fs, NEW gs, NEW n, Mirror(s, fs, n),
         \A k \in 1..n : /\ gs[k].id = fs[k].id /\ gs[k].method = fs[k].method
                         /\ gs[k].seen = fs[k].seen /\ (gs[k].rescued => fs[k].rescued)
  PROVE  Mirror(s, gs, n)
<1>1. \A t : \A k \in 1..n : Belongs(t, fs[k]) => Belongs(t, gs[k])
  BY DEF Belongs
<1>2. \A i \in 1..Len(s) : \E k \in 1..n : Belongs(s[i], gs[k])
  BY <1>1 DEF Mirror
<1> QED BY <1>2 DEF Mirror

(* A stack is empty just if no frame was seen. *)
LEMMA MirrorEmpty ==
  ASSUME NEW n \in Nat, NEW fs, \A k \in 1..n : ~fs[k].seen
  PROVE  /\ \A s \in Seq(TraceRecord) : Mirror(s, fs, n) => s = <<>>
         /\ Mirror(<<>>, fs, n)
<1>1. ASSUME NEW s \in Seq(TraceRecord), Mirror(s, fs, n) PROVE s = <<>>
  <2>1. \A i : i \notin 1..Len(s)
    BY <1>1 DEF Mirror, Belongs
  <2>2. Len(s) \in Nat /\ ~(1 \in 1..Len(s))
    BY <2>1
  <2> QED BY <2>2, EmptySeq
<1>2. Len(<<>>) = 0
  BY EmptySeq
<1> QED BY <1>1, <1>2 DEF Mirror

(* A trace for the next frame goes on top. *)
LEMMA MirrorPush ==
  ASSUME NEW s \in Seq(TraceRecord), NEW t \in TraceRecord, NEW fs, NEW n \in Nat \ {0},
         Mirror(s, fs, n - 1), Belongs(t, fs[n]),
         \A k \in 1..(n - 1) : fs[k].id < fs[n].id
  PROVE  Mirror(Push(s, t), fs, n)
<1> DEFINE u == Push(s, t)
           l == Len(s)
<1>1. /\ l \in Nat /\ Len(u) = l + 1 /\ u[l + 1] = t
      /\ \A i \in 1..l : u[i] = s[i]
  BY AppendProperties DEF Push
<1>2. n \in 1..n /\ \A k \in 1..(n - 1) : k \in 1..n
  OBVIOUS
<1> HIDE DEF u
<1>3. \A i \in 1..Len(u) : i \in 1..l \/ i = l + 1
  BY <1>1
<1>4. ASSUME NEW i \in 1..Len(u) PROVE \E k \in 1..n : Belongs(u[i], fs[k])
  <2>1. CASE i = l + 1
    BY <1>1, <1>2, <2>1
  <2>2. CASE i \in 1..l
    BY <1>1, <1>2, <2>2 DEF Mirror
  <2> QED BY <1>3, <2>1, <2>2
<1>5. ASSUME NEW k \in 1..n, fs[k].seen PROVE \E i \in 1..Len(u) : u[i].frame = fs[k].id
  <2>1. CASE k = n
    BY <1>1, <2>1 DEF Belongs
  <2>2. CASE k # n
    <3>1. k \in 1..(n - 1)
      BY <2>2
    <3>2. PICK i \in 1..l : s[i].frame = fs[k].id
      BY <1>5, <3>1 DEF Mirror
    <3> QED BY <1>1, <3>2
  <2> QED BY <2>1, <2>2
<1>6. ASSUME NEW i \in 1..Len(u), NEW j \in 1..Len(u), i < j PROVE u[i].frame < u[j].frame
  <2>1. i \in 1..l /\ u[i] = s[i]
    BY <1>1, <1>6
  <2>2. CASE j \in 1..l
    BY <1>1, <1>6, <2>1, <2>2 DEF Mirror
  <2>3. CASE j = l + 1
    <3>1. PICK k \in 1..(n - 1) : s[i].frame = fs[k].id
      BY <2>1 DEF Mirror, Belongs
    <3> QED BY <1>1, <2>1, <2>3, <3>1 DEF Belongs
  <2> QED BY <1>3, <2>2, <2>3
<1> QED BY <1>4, <1>5, <1>6 DEF Mirror, u

(* The trace of the innermost frame is on top. *)
LEMMA MirrorTop ==
  ASSUME NEW s \in Seq(TraceRecord), NEW fs, NEW n \in Nat \ {0},
         Mirror(s, fs, n), fs[n].seen, \A k \in 1..n : fs[k].id \in Nat,
         \A k \in 1..(n - 1) : fs[k].id < fs[n].id
  PROVE  /\ s # <<>> /\ Belongs(Top(s), fs[n])
         /\ Mirror(Pop(s), fs, n - 1)
<1> DEFINE l == Len(s)
<1>0. l \in Nat /\ \A i \in 1..l : s[i] \in TraceRecord /\ s[i].frame \in Nat
  <2>1. l \in Nat /\ \A i \in 1..l : s[i] \in TraceRecord
    BY ElementOfSeq
  <2> QED BY <2>1 DEF TraceRecord
<1>1. PICK i \in 1..l : s[i].frame = fs[n].id
  BY DEF Mirror
<1>2. \A j \in 1..l : s[j].frame <= fs[n].id
  <2> TAKE j \in 1..l
  <2>1. PICK k \in 1..n : s[j].frame = fs[k].id
    BY DEF Mirror, Belongs
  <2> QED BY <2>1
<1>3. i = l
  <2> SUFFICES ASSUME i # l PROVE FALSE
    OBVIOUS
  <2>1. i < l /\ l \in 1..l
    BY <1>0
  <2>2. s[i].frame < s[l].frame /\ s[l].frame <= fs[n].id
    BY <1>2, <2>1 DEF Mirror
  <2> QED BY <1>0, <1>1, <2>1, <2>2
<1>4. Belongs(s[l], fs[n])
  <2>1. PICK k \in 1..n : Belongs(s[l], fs[k])
    BY <1>3 DEF Mirror
  <2>2. k = n
    BY <1>1, <1>3, <2>1 DEF Belongs
  <2> QED BY <2>1, <2>2
<1>5. s # <<>>
  BY <1>1, EmptySeq
<1>6. Mirror(Pop(s), fs, n - 1)
  <2> DEFINE u == Pop(s)
  <2>1. Len(u) = l - 1 /\ \A j \in 1..(l - 1) : u[j] = s[j]
    <3>1. l - 1 \in Nat /\ \A j \in 1..(l - 1) : s[j] \in TraceRecord
      BY <1>0, <1>1
    <3> DEFINE m == l - 1
    <3>2. m \in Nat /\ \A j \in 1..m : s[j] \in TraceRecord
      BY <3>1
    <3> HIDE DEF m
    <3>3. Len(SubSeq(s, 1, m)) = m /\ \A j \in 1..m : SubSeq(s, 1, m)[j] = s[j]
      BY <3>2, SubSeqProperties
    <3> QED BY <3>3 DEF Pop, m
  <2> HIDE DEF u
  <2>2. \A j \in 1..(l - 1) : s[j].frame < fs[n].id
    BY <1>0, <1>1, <1>3 DEF Mirror
  <2>3. ASSUME NEW j \in 1..Len(u) PROVE \E k \in 1..(n - 1) : Belongs(u[j], fs[k])
    <3>1. j \in 1..l /\ u[j] = s[j] /\ s[j].frame < fs[n].id
      BY <1>0, <2>1, <2>2
    <3>2. PICK k \in 1..n : Belongs(s[j], fs[k])
      BY <3>1 DEF Mirror
    <3>3. k \in 1..(n - 1)
      BY <3>1, <3>2 DEF Belongs
    <3> QED BY <3>1, <3>2, <3>3
  <2>4. ASSUME NEW k \in 1..(n - 1), fs[k].seen
        PROVE  \E j \in 1..Len(u) : u[j].frame = fs[k].id
    <3>1. PICK j \in 1..l : s[j].frame = fs[k].id
      BY <2>4 DEF Mirror
    <3>2. j \in 1..(l - 1)
      BY <1>0, <1>1, <1>3, <3>1
    <3> QED BY <2>1, <3>1, <3>2
  <2>5. \A j, k \in 1..Len(u) : j < k => u[j].frame < u[k].frame
    <3>1. \A j \in 1..Len(u) : j \in 1..l /\ u[j] = s[j]
      BY <1>0, <2>1
    <3> QED BY <3>1 DEF Mirror
  <2> QED BY <2>3, <2>4, <2>5 DEF Mirror, u
<1> QED BY <1>4, <1>5, <1>6 DEF Top

------------------------------------------------------------------------------
(* The invariant *)

(* The path of the k-th frame, or that of its caller, matches. *)
Relevant(fs, k) ==
  \/ matcher = NoMatcher \/ fs[k].method.path \in matcher
  \/ k > 1 /\ fs[k - 1].method.path \in matcher

(* Frames that were called in this session are seen if they are relevant.    *)
(* The others, which stop has made forget, have no seen frame below them.    *)
Watched(fs) ==
  \A k \in 1..Len(fs) :
    IF fs[k].seen THEN Relevant(fs, k)
                  ELSE Relevant(fs, k) => \A j \in 1..(k - 1) : ~fs[j].seen

(* The frames of f whose traces are on its stack. *)
Height(f) == IF hook[f] = NoHook THEN Len(frames[f]) ELSE Len(frames[f]) - 1

Follows(f) ==
  /\ Mirror(stacks[f], frames[f], Height(f))
  /\ Watched(frames[f])
  /\ hook[f] # NoHook =>
       ~hook[f].stale /\ frames[f] # <<>> /\ Belongs(hook[f].trace, Top(frames[f]))

FiberInv(f) ==
  /\ Numbered(frames[f], calls)
  /\ f \notin excused => Follows(f)
  /\ ~on => /\ \A k \in 1..Len(frames[f]) : ~frames[f][k].seen
            /\ hook[f] # NoHook => f \in excused

StackInv ==
  /\ on \in BOOLEAN /\ matcher \in Matchers \union {NoMatcher}
  /\ \A f \in Fibers : FiberInv(f)

(* The event of a frame reaches the handlers just if it is relevant. *)
LEMMA HandledIsRelevant ==
  ASSUME CacheInv, matcher \in Matchers \union {NoMatcher}, NEW h \in BOOLEAN,
         NEW fs \in Seq(FrameRecord), fs # <<>>, Event(fs, h)
  PROVE  h <=> on /\ Relevant(fs, Len(fs))
<1> DEFINE n == Len(fs)
<1>1. /\ n \in Nat \ {0}
      /\ \A k \in 1..n : fs[k] \in FrameRecord /\ fs[k].method.path \in Paths
  <2>1. n \in Nat \ {0} /\ \A k \in 1..n : fs[k] \in FrameRecord
    BY EmptySeq, ElementOfSeq
  <2> QED BY <2>1, TracerAssumption DEF FrameRecord
<1>2. h <=> on /\ ShouldProcess(fs)
  BY DEF Event
<1> HIDE DEF n
<1>3. ASSUME matcher # NoMatcher, NEW p \in Paths PROVE Matches(p) <=> p \in matcher
  BY <1>3 DEF Matches, CacheInv, CacheIsFresh
<1>4. ASSUME matcher # NoMatcher PROVE ShouldProcess(fs) <=> Relevant(fs, n)
  <2> DEFINE own == fs[n].method.path
             caller == fs[n - 1].method.path
  <2>1. n \in 1..n /\ (n # 1 => n > 1 /\ n - 1 \in 1..n)
    BY <1>1
  <2>2. Matches(own) <=> own \in matcher
    BY <1>1, <1>3, <1>4, <2>1
  <2>3. n # 1 => (Matches(caller) <=> caller \in matcher)
    BY <1>1, <1>3, <1>4, <2>1
  <2>4. Asked(fs) = IF Matches(own) \/ n = 1 THEN {own} ELSE {own, caller}
    BY <1>4 DEF Asked, Top, n
  <2>5. Relevant(fs, n) <=> own \in matcher \/ (n > 1 /\ caller \in matcher)
    BY <1>4 DEF Relevant
  <2> HIDE DEF own, caller
  <2>6. ShouldProcess(fs) <=> \E p \in Asked(fs) : Matches(p)
    BY <1>4 DEF ShouldProcess
  <2>7. CASE n = 1
    BY <2>2, <2>4, <2>5, <2>6, <2>7
  <2>8. CASE n # 1
    BY <2>1, <2>2, <2>3, <2>4, <2>5, <2>6, <2>8
  <2> QED BY <2>7, <2>8
<1> QED BY <1>2, <1>4 DEF Relevant, ShouldProcess, n

(* What the kinds say about the traces and frames of a fiber. *)
LEMMA Types ==
  ASSUME ShapeInv
  PROVE  /\ \A f \in Fibers : /\ stacks[f] \in Seq(TraceRecord)
                              /\ frames[f] \in Seq(FrameRecord) /\ Len(frames[f]) \in Nat
                              /\ \A k \in 1..Len(frames[f]) : frames[f][k] \in FrameRecord
                              /\ hook[f] # NoHook => hook[f].trace \in TraceRecord
         /\ calls \in Nat
<1>2. ASSUME NEW f \in Fibers
      PROVE  /\ stacks[f] \in Seq(TraceRecord) /\ frames[f] \in Seq(FrameRecord)
             /\ hook[f] # NoHook => hook[f].trace \in TraceRecord
  BY DEF ShapeInv, StacksOK, HooksOK, HookType, ProgramOK
<1> QED BY <1>2, LenProperties, ElementOfSeq DEF ShapeInv, ProgramOK

(* A step of one fiber leaves the others' stacks alone. *)
LEMMA OneFiber ==
  ASSUME StackInv, ShapeInv, NEW f \in Fibers, UNCHANGED <<on, matcher>>,
         calls' \in Nat, calls <= calls', excused \subseteq excused',
         \A g \in Fibers \ {f} : /\ stacks'[g] = stacks[g] /\ frames'[g] = frames[g]
                                  /\ hook'[g] = hook[g],
         FiberInv(f)'
  PROVE  StackInv'
<1>1. ASSUME NEW g \in Fibers \ {f} PROVE FiberInv(g)'
  <2>1. FiberInv(g)
    BY DEF StackInv
  <2>2. Numbered(frames[g], calls')
    <3>1. \A k \in 1..Len(frames[g]) : frames[g][k] \in FrameRecord
      BY Types
    <3>2. \A k \in 1..Len(frames[g]) : frames[g][k].id \in Nat
      BY <3>1 DEF FrameRecord
    <3>3. calls \in Nat
      BY Types
    <3> QED BY <2>1, <3>2, <3>3 DEF FiberInv, Numbered
  <2>3. Follows(g) => Follows(g)'
    BY <1>1 DEF Follows, Height, Watched, Relevant
  <2> QED BY <1>1, <2>1, <2>2, <2>3 DEF FiberInv
<1> QED BY <1>1 DEF StackInv

(* Frames that differ only in what happened to them are watched alike. *)
LEMMA WatchedLike ==
  ASSUME NEW fs, NEW gs, Watched(fs), UNCHANGED matcher, Len(gs) \in Nat, Len(gs) <= Len(fs),
         Len(fs) \in Nat,
         \A k \in 1..Len(gs) : gs[k].method = fs[k].method /\ gs[k].seen = fs[k].seen
  PROVE  Watched(gs)'
<1>1. \A k \in 1..Len(gs) : /\ k \in 1..Len(fs)
                            /\ k > 1 => k - 1 \in 1..Len(gs)
                            /\ \A j \in 1..(k - 1) : j \in 1..Len(gs)
  OBVIOUS
<1>2. \A k \in 1..Len(gs) : Relevant(gs, k)' <=> Relevant(fs, k)
  BY <1>1 DEF Relevant
<1>3. ASSUME NEW k \in 1..Len(gs)
      PROVE  IF gs[k].seen THEN Relevant(gs, k)'
                           ELSE Relevant(gs, k)' => \A j \in 1..(k - 1) : ~gs[j].seen
  <2>1. IF fs[k].seen THEN Relevant(fs, k)
                      ELSE Relevant(fs, k) => \A j \in 1..(k - 1) : ~fs[j].seen
    BY <1>1 DEF Watched
  <2> QED BY <1>1, <1>2, <2>1
<1> QED BY <1>3 DEF Watched

(* The elements of a sequence whose end is changed. *)
LEMMA PushElements ==
  ASSUME NEW S, NEW q \in Seq(S), NEW x \in S
  PROVE  /\ Len(q) \in Nat
         /\ Len(Push(q, x)) = Len(q) + 1 /\ Push(q, x)[Len(q) + 1] = x
         /\ \A k \in 1..Len(q) : Push(q, x)[k] = q[k]
         /\ Top(Push(q, x)) = x
  BY AppendProperties, LenProperties DEF Push, Top

LEMMA PopElements ==
  ASSUME NEW S, NEW q \in Seq(S), q # <<>>
  PROVE  /\ Len(q) \in Nat \ {0} /\ Top(q) = q[Len(q)]
         /\ Pop(q) \in Seq(S) /\ Len(Pop(q)) = Len(q) - 1
         /\ \A k \in 1..(Len(q) - 1) : Pop(q)[k] = q[k]
<1>1. Len(q) \in Nat \ {0} /\ Top(q) = q[Len(q)]
  BY EmptySeq, LenProperties DEF Top
<1>2. PICK m \in Nat : m = Len(q) - 1
  BY <1>1
<1>3. \A k \in 1..m : q[k] \in S
  BY <1>1, <1>2, ElementOfSeq
<1>4. Pop(q) = SubSeq(q, 1, m)
  BY <1>2 DEF Pop
<1>5. Len(SubSeq(q, 1, m)) = m /\ \A k \in 1..m : SubSeq(q, 1, m)[k] = q[k]
  BY <1>3, SubSeqProperties
<1> QED BY <1>1, <1>2, <1>4, <1>5, EndOfSeq

LEMMA SetTopElements ==
  ASSUME NEW S, NEW q \in Seq(S), q # <<>>, NEW x \in S
  PROVE  /\ Len(SetTop(q, x)) = Len(q) /\ SetTop(q, x)[Len(q)] = x
         /\ \A k \in 1..(Len(q) - 1) : SetTop(q, x)[k] = q[k]
         /\ Push(Pop(q), x) = SetTop(q, x)
         /\ SetTop(q, x) \in Seq(S) /\ Top(SetTop(q, x)) = x
<1>0. PICK n : n = Len(q)
  OBVIOUS
<1>1. n \in Nat /\ n # 0 /\ Pop(q) \in Seq(S) /\ Len(Pop(q)) = n - 1
      /\ \A k \in 1..(n - 1) : Pop(q)[k] = q[k]
  BY <1>0, PopElements
<1>2. /\ Len(SetTop(q, x)) = n /\ SetTop(q, x)[n] = x
      /\ \A k \in 1..(n - 1) : SetTop(q, x)[k] = q[k]
  BY <1>0, <1>1 DEF SetTop
<1>3. PICK u, v : u = Push(Pop(q), x) /\ v = SetTop(q, x)
  OBVIOUS
<1>4. u \in Seq(S) /\ v \in Seq(S)
  BY <1>1, <1>3, EndOfSeq
<1>5. Len(u) = n /\ u[n] = x /\ \A k \in 1..(n - 1) : u[k] = q[k]
  <2>1. /\ Len(u) = Len(Pop(q)) + 1 /\ u[Len(Pop(q)) + 1] = x
        /\ \A k \in 1..Len(Pop(q)) : u[k] = Pop(q)[k]
    BY <1>1, <1>3, AppendProperties DEF Push
  <2> QED BY <1>1, <2>1
<1>6. \A k \in 1..n : u[k] = v[k]
  BY <1>1, <1>2, <1>3, <1>5
<1>7. u = v
  BY <1>2, <1>3, <1>4, <1>5, <1>6, SeqEqual
<1> QED BY <1>0, <1>2, <1>3, <1>4, <1>7 DEF Top

------------------------------------------------------------------------------
(* The steps *)

(* A call that is seen gets a trace on top, at once or after its block's     *)
(* trace point was enabled - unless it looks like a retry.                   *)
LEMMA CallFollows ==
  ASSUME CacheInv, ShapeInv, StackInv, NEW f \in Fibers, NEW m \in Methods,
         NEW b \in BOOLEAN, Call(f, m, b)
  PROVE  StackInv'
<1>0. PICK s, fs, n : s = stacks[f] /\ fs = frames[f] /\ n = Len(fs)
  OBVIOUS
<1>1. PICK h \in BOOLEAN :
        /\ frames' = [frames EXCEPT ![f] =
             Push(@, [id |-> calls + 1, method |-> m, rescued |-> FALSE, seen |-> h])]
        /\ Event(frames'[f], h)
        /\ IF h THEN HandleCall(f, b)
                ELSE UNCHANGED <<stacks, present, hook, blockTps>>
        /\ excused' = IF h /\ LooksLikeRetry(f, m) THEN excused \union {f} ELSE excused
  BY DEF Call
<1>3. PICK fr : fr = [id |-> calls + 1, method |-> m, rescued |-> FALSE, seen |-> h]
  OBVIOUS
<1>14. PICK gs : gs = Push(fs, fr)
  OBVIOUS
<1>2. /\ hook[f] = NoHook /\ calls' = calls + 1 /\ UNCHANGED <<on, matcher>>
      /\ frames' = [frames EXCEPT ![f] = gs] /\ frames'[f] = gs
  BY <1>0, <1>1, <1>3, <1>14 DEF Call, Free, ShapeInv, ProgramOK
<1>4. /\ s \in Seq(TraceRecord) /\ fs \in Seq(FrameRecord) /\ calls \in Nat
      /\ fr \in FrameRecord
      /\ fr.id = calls + 1 /\ fr.method = m /\ ~fr.rescued /\ (fr.seen <=> h)
  <2>1. s \in Seq(TraceRecord) /\ fs \in Seq(FrameRecord) /\ calls \in Nat
    BY <1>0, Types
  <2> QED BY <1>3, <2>1 DEF FrameRecord
<1>5. /\ gs \in Seq(FrameRecord) /\ gs # <<>> /\ Top(gs) = fr /\ n \in Nat
      /\ Len(gs) = n + 1 /\ gs[n + 1] = fr /\ \A k \in 1..n : gs[k] = fs[k]
  <2>3. fs \in Seq(FrameRecord) /\ fr \in FrameRecord
    BY <1>4
  <2>1. gs \in Seq(FrameRecord) /\ Top(gs) = fr
    <3>1. Push(fs, fr) \in Seq(FrameRecord) /\ Top(Push(fs, fr)) = fr
      BY <2>3 DEF Push, Top
    <3> QED BY <1>14, <3>1
  <2>2. n \in Nat /\ Len(gs) = n + 1 /\ gs[n + 1] = fr /\ \A k \in 1..n : gs[k] = fs[k]
    BY <1>0, <1>14, <2>3, PushElements
  <2> QED BY <2>1, <2>2, EmptySeq
<1>6. h <=> on /\ Relevant(gs, n + 1)
  BY <1>1, <1>2, <1>5, HandledIsRelevant DEF StackInv
<1>7. Numbered(gs, calls') /\ \A k \in 1..n : gs[k].id < gs[n + 1].id
  <2>1. Numbered(fs, calls)
    BY <1>0 DEF StackInv, FiberInv
  <2>2. \A k \in 1..n : gs[k].id \in Nat
    <3>1. \A k \in 1..n : gs[k] \in FrameRecord
      BY <1>0, <1>5, Types
    <3> QED BY <3>1 DEF FrameRecord
  <2>3. \A k \in 1..n : gs[k].id <= calls
    BY <1>0, <1>5, <2>1 DEF Numbered
  <2>4. \A k, l \in 1..n : k < l => gs[k].id < gs[l].id
    BY <1>0, <1>5, <2>1 DEF Numbered
  <2>5. \A k \in 1..(n + 1) : k \in 1..n \/ k = n + 1
    BY <1>5
  <2>6. gs[n + 1].id = calls + 1
    BY <1>4, <1>5
  <2>7. \A k \in 1..(n + 1) : gs[k].id <= calls + 1
    BY <1>4, <2>2, <2>3, <2>5, <2>6
  <2>8. \A k \in 1..n : gs[k].id < gs[n + 1].id
    BY <1>4, <2>2, <2>3, <2>6
  <2>9. \A k, l \in 1..(n + 1) : k < l => gs[k].id < gs[l].id
    BY <1>5, <2>4, <2>5, <2>8
  <2> QED BY <1>2, <1>5, <2>7, <2>8, <2>9 DEF Numbered
<1>8. \A g \in Fibers \ {f} : /\ stacks'[g] = stacks[g] /\ frames'[g] = frames[g]
                              /\ hook'[g] = hook[g]
  BY <1>1, <1>2 DEF HandleCall, ShapeInv, StacksOK, HooksOK, ProgramOK
<1>9. excused \subseteq excused'
  BY <1>1
<1>10. ASSUME f \notin excused' PROVE Follows(f)'
  <2>1. Follows(f) /\ Height(f) = n /\ ~(h /\ LooksLikeRetry(f, m))
    BY <1>0, <1>1, <1>2, <1>10 DEF StackInv, FiberInv, Height
  <2>2. Mirror(s, gs, n)
    BY <1>0, <1>5, <2>1, MirrorLike DEF Follows
  <2>3. Watched(gs)'
    <3>1. ~on => \A k \in 1..n : ~fs[k].seen
      BY <1>0 DEF StackInv, FiberInv
    <3>2. \A k \in 1..(n + 1) : k \in 1..n \/ k = n + 1
      BY <1>5
    <3>3. \A k \in 1..n : /\ Relevant(gs, k)' <=> Relevant(fs, k)
                          /\ \A j \in 1..(k - 1) : gs[j] = fs[j]
      BY <1>2, <1>5 DEF Relevant
    <3>4. Relevant(gs, n + 1)' <=> Relevant(gs, n + 1)
      BY <1>2 DEF Relevant
    <3>5. ASSUME NEW k \in 1..n
          PROVE  IF gs[k].seen THEN Relevant(gs, k)'
                               ELSE Relevant(gs, k)' => \A j \in 1..(k - 1) : ~gs[j].seen
      BY <1>0, <1>5, <2>1, <3>3 DEF Follows, Watched
    <3>6. IF gs[n + 1].seen THEN Relevant(gs, n + 1)'
                            ELSE Relevant(gs, n + 1)' => \A j \in 1..n : ~gs[j].seen
      BY <1>4, <1>5, <1>6, <3>1, <3>4
    <3> QED BY <1>5, <3>2, <3>5, <3>6 DEF Watched
  <2>4. CASE ~h
    <3>1. stacks'[f] = s /\ hook'[f] = NoHook
      BY <1>0, <1>1, <1>2, <2>4
    <3>2. Mirror(s, gs, n + 1)
      <4>1. PICK l \in Nat \ {0} : l = n + 1 /\ l - 1 = n
        BY <1>5
      <4> QED BY <1>4, <1>5, <2>2, <2>4, <4>1, MirrorCut
    <3> QED BY <1>2, <1>5, <2>3, <3>1, <3>2 DEF Follows, Height
  <2>9. PICK t : t = NewTrace(fr)
    OBVIOUS
  <2>5. t \in TraceRecord /\ (h => Belongs(t, gs[n + 1]))
    BY <1>2, <1>4, <1>5, <2>9 DEF NewTrace, TraceRecord, FrameRecord, Belongs
  <2>6. h => \/ stacks' = [stacks EXCEPT ![f] = Push(@, t)] /\ UNCHANGED hook
             \/ /\ hook' = [hook EXCEPT ![f] =
                     [trace |-> t, found |-> f \in present, stale |-> FALSE]]
                /\ UNCHANGED stacks
    BY <1>1, <1>2, <1>4, <1>5, <2>1, <2>9 DEF HandleCall
  <2>7. CASE h /\ stacks' = [stacks EXCEPT ![f] = Push(@, t)] /\ UNCHANGED hook
    <3>1. stacks'[f] = Push(s, t) /\ hook'[f] = NoHook
      BY <1>0, <1>2, <2>7 DEF ShapeInv, StacksOK
    <3>2. Mirror(Push(s, t), gs, n + 1)
      <4>1. PICK l \in Nat \ {0} : l = n + 1 /\ l - 1 = n
        BY <1>5
      <4>2. /\ s \in Seq(TraceRecord) /\ t \in TraceRecord /\ Mirror(s, gs, l - 1)
            /\ Belongs(t, gs[l]) /\ \A k \in 1..(l - 1) : gs[k].id < gs[l].id
        BY <1>4, <1>7, <2>2, <2>5, <2>7, <4>1
      <4> QED BY <4>1, <4>2, MirrorPush
    <3> QED BY <1>2, <1>5, <2>3, <3>1, <3>2 DEF Follows, Height
  <2>8. CASE /\ h /\ UNCHANGED stacks
             /\ hook' = [hook EXCEPT ![f] =
                  [trace |-> t, found |-> f \in present, stale |-> FALSE]]
    <3>1. /\ stacks'[f] = s
          /\ hook'[f] = [trace |-> t, found |-> f \in present, stale |-> FALSE]
      BY <1>0, <2>8 DEF ShapeInv, HooksOK
    <3>2. hook'[f] # NoHook
      <4>1. (f \in present) \in BOOLEAN
        OBVIOUS
      <4> QED BY <2>5, <3>1, <4>1, HookRecord
    <3> QED BY <1>2, <1>5, <2>2, <2>3, <2>5, <2>8, <3>1, <3>2 DEF Follows, Height
  <2> QED BY <2>4, <2>6, <2>7, <2>8
<1>11. ASSUME ~on PROVE (\A k \in 1..(n + 1) : ~gs[k].seen) /\ hook'[f] = NoHook
  <2>1. ~h /\ \A k \in 1..n : ~fs[k].seen
    BY <1>0, <1>6, <1>11 DEF StackInv, FiberInv
  <2>2. hook'[f] = NoHook
    BY <1>1, <1>2, <2>1
  <2>3. ~gs[n + 1].seen
    BY <1>4, <1>5, <2>1
  <2>4. ASSUME NEW k \in 1..(n + 1) PROVE ~gs[k].seen
    <3>1. CASE k \in 1..n
      BY <1>5, <2>1, <3>1
    <3>2. CASE k \notin 1..n
      <4>1. k = n + 1
        BY <1>5, <3>2
      <4> QED BY <2>3, <4>1
    <3> QED BY <3>1, <3>2
  <2> QED BY <2>2, <2>4
<1>12. FiberInv(f)'
  BY <1>2, <1>5, <1>7, <1>10, <1>11 DEF FiberInv
<1>13. calls' \in Nat /\ calls <= calls'
  BY <1>2, <1>4
<1> QED BY <1>2, <1>8, <1>9, <1>12, <1>13, OneFiber
(* An innermost frame that was seen is relevant and has its trace on top; if *)
(* one that was not seen is relevant, nothing is on the stack.               *)
LEMMA InnermostFrame ==
  ASSUME ShapeInv, StackInv, NEW f \in Fibers, hook[f] = NoHook, frames[f] # <<>>,
         NEW s, NEW fs, NEW n, s = stacks[f], fs = frames[f], n = Len(fs)
  PROVE  /\ s \in Seq(TraceRecord) /\ fs \in Seq(FrameRecord) /\ n \in Nat \ {0}
         /\ Top(fs) = fs[n] /\ \A k \in 1..n : fs[k] \in FrameRecord
         /\ Numbered(fs, calls) /\ \A k \in 1..(n - 1) : fs[k].id < fs[n].id
         /\ fs[n].seen => on
         /\ f \notin excused =>
              /\ fs[n].seen => /\ Relevant(fs, n)
                               /\ s # <<>> /\ Belongs(Top(s), fs[n])
                               /\ Mirror(Pop(s), fs, n - 1)
              /\ ~fs[n].seen => /\ Mirror(s, fs, n - 1)
                                /\ on /\ Relevant(fs, n) => s = <<>>
<1>1. /\ s \in Seq(TraceRecord) /\ fs \in Seq(FrameRecord)
      /\ n \in Nat \ {0} /\ Top(fs) = fs[n] /\ \A k \in 1..n : fs[k] \in FrameRecord
  <2>1. s \in Seq(TraceRecord) /\ fs \in Seq(FrameRecord)
    BY Types
  <2> QED BY <2>1, PopElements, ElementOfSeq
<1>2. Numbered(fs, calls) /\ \A k \in 1..(n - 1) : fs[k].id < fs[n].id
  <2>1. Numbered(fs, calls)
    BY DEF StackInv, FiberInv
  <2> QED BY <1>1, <2>1 DEF Numbered
<1>3. fs[n].seen => on
  BY <1>1 DEF StackInv, FiberInv
<1>4. f \notin excused => Mirror(s, fs, n) /\ Watched(fs)
  BY DEF StackInv, FiberInv, Follows, Height
<1>5. ASSUME f \notin excused, fs[n].seen
      PROVE  /\ Relevant(fs, n) /\ s # <<>> /\ Belongs(Top(s), fs[n])
             /\ Mirror(Pop(s), fs, n - 1)
  <2>1. Relevant(fs, n)
    BY <1>1, <1>4, <1>5 DEF Watched
  <2>2. \A k \in 1..n : fs[k].id \in Nat
    BY <1>1 DEF FrameRecord
  <2> QED BY <1>1, <1>2, <1>4, <1>5, <2>1, <2>2, MirrorTop
<1>6. ASSUME f \notin excused, ~fs[n].seen
      PROVE  Mirror(s, fs, n - 1) /\ (on /\ Relevant(fs, n) => s = <<>>)
  <2>1. Mirror(s, fs, n - 1)
    BY <1>1, <1>4, <1>6, MirrorCut
  <2>2. ASSUME Relevant(fs, n) PROVE s = <<>>
    <3>1. \A j \in 1..(n - 1) : ~fs[j].seen
      BY <1>1, <1>4, <1>6, <2>2 DEF Watched
    <3>2. n - 1 \in Nat
      BY <1>1
    <3> QED BY <1>1, <2>1, <3>1, <3>2, MirrorEmpty
  <2> QED BY <2>1, <2>2
<1> QED BY <1>1, <1>2, <1>3, <1>5, <1>6

(* A rescue marks the trace of its own frame, if there is one. *)
LEMMA RescueFollows ==
  ASSUME CacheInv, ShapeInv, StackInv, NEW f \in Fibers, Rescue(f)
  PROVE  StackInv'
<1>0. PICK s, fs, n : s = stacks[f] /\ fs = frames[f] /\ n = Len(fs)
  OBVIOUS
<1>1. PICK h \in BOOLEAN :
        /\ Event(fs, h)
        /\ IF h /\ s # <<>> /\ Top(s).method.name = Top(fs).method.name
             THEN stacks' = [stacks EXCEPT ![f] = SetTop(s, [Top(s) EXCEPT !.rescued = TRUE])]
             ELSE UNCHANGED stacks
  BY <1>0 DEF Rescue
<1>2. PICK fr : fr = [Top(fs) EXCEPT !.rescued = TRUE]
  OBVIOUS
<1>3. PICK gs : gs = SetTop(fs, fr)
  OBVIOUS
<1>4. /\ hook[f] = NoHook /\ fs # <<>> /\ UNCHANGED <<on, matcher, hook, calls, excused>>
      /\ frames' = [frames EXCEPT ![f] = gs] /\ frames'[f] = gs
  BY <1>0, <1>2, <1>3 DEF Rescue, Free, ShapeInv, ProgramOK
<1>5. /\ s \in Seq(TraceRecord) /\ fs \in Seq(FrameRecord) /\ n \in Nat \ {0}
      /\ Top(fs) = fs[n] /\ \A k \in 1..n : fs[k] \in FrameRecord
      /\ Numbered(fs, calls) /\ \A k \in 1..(n - 1) : fs[k].id < fs[n].id
      /\ fs[n].seen => on
  BY <1>0, <1>4, InnermostFrame
<1>6. /\ fr \in FrameRecord /\ fr.id = fs[n].id /\ fr.method = fs[n].method
      /\ fr.seen = fs[n].seen
  <2>1. fs[n] \in FrameRecord
    BY <1>5
  <2> QED BY <1>2, <1>5, <2>1 DEF FrameRecord
<1>7. Len(gs) = n /\ gs[n] = fr /\ \A k \in 1..(n - 1) : gs[k] = fs[k]
  <2>1. fs \in Seq(FrameRecord) /\ fs # <<>> /\ fr \in FrameRecord /\ n = Len(fs)
    BY <1>0, <1>4, <1>5, <1>6
  <2>2. /\ Len(SetTop(fs, fr)) = Len(fs) /\ SetTop(fs, fr)[Len(fs)] = fr
      /\ \A k \in 1..(Len(fs) - 1) : SetTop(fs, fr)[k] = fs[k]
    BY <2>1, SetTopElements
  <2> QED BY <1>3, <2>1, <2>2
<1>8. \A k \in 1..n : /\ gs[k].id = fs[k].id /\ gs[k].method = fs[k].method
                      /\ gs[k].seen = fs[k].seen
  BY <1>5, <1>6, <1>7
<1>9. Numbered(gs, calls)
  BY <1>0, <1>5, <1>7, <1>8 DEF Numbered
<1>10. h <=> on /\ Relevant(fs, n)
  BY <1>0, <1>1, <1>4, <1>5, HandledIsRelevant DEF StackInv
<1>11. \A g \in Fibers \ {f} : /\ stacks'[g] = stacks[g] /\ frames'[g] = frames[g]
                               /\ hook'[g] = hook[g]
  BY <1>1, <1>4 DEF ShapeInv, StacksOK, ProgramOK
<1>12. ASSUME f \notin excused PROVE Follows(f)'
  <2>1. Watched(gs)'
    <3>1. Watched(fs)
      BY <1>0, <1>12 DEF StackInv, FiberInv, Follows
    <3> QED BY <1>0, <1>4, <1>5, <1>7, <1>8, <3>1, WatchedLike
  <2>2. Mirror(stacks'[f], gs, n)
    <3>1. CASE fs[n].seen
      <4>1. h /\ s # <<>> /\ Belongs(Top(s), fs[n]) /\ Mirror(Pop(s), fs, n - 1)
        BY <1>0, <1>4, <1>5, <1>10, <1>12, <3>1, InnermostFrame
      <4>2. PICK t : t = [Top(s) EXCEPT !.rescued = TRUE]
        OBVIOUS
      <4>3. Top(s) \in TraceRecord
        BY <1>5, <4>1, EndOfSeq
      <4>4. t \in TraceRecord /\ Belongs(t, gs[n])
        BY <1>6, <1>7, <4>1, <4>2, <4>3 DEF TraceRecord, Belongs
      <4>5. Top(s).method.name = Top(fs).method.name
        BY <1>5, <4>1 DEF Belongs
      <4>6. stacks'[f] = SetTop(s, t)
        BY <1>1, <4>1, <4>2, <4>5 DEF ShapeInv, StacksOK
      <4>7. stacks'[f] = Push(Pop(s), t) /\ Pop(s) \in Seq(TraceRecord)
        <5>1. s \in Seq(TraceRecord) /\ s # <<>> /\ t \in TraceRecord
          BY <1>5, <4>1, <4>4
        <5>2. Push(Pop(s), t) = SetTop(s, t)
          BY <5>1, SetTopElements
        <5> QED BY <4>6, <5>1, <5>2, EndOfSeq
      <4>8. Mirror(Pop(s), gs, n - 1)
        BY <1>7, <4>1, MirrorLike
      <4>9. \A k \in 1..(n - 1) : gs[k].id < gs[n].id
        BY <1>5, <1>6, <1>7
      <4> QED BY <1>5, <4>4, <4>7, <4>8, <4>9, MirrorPush
    <3>2. CASE ~fs[n].seen
      <4>1. Mirror(s, fs, n - 1) /\ (h => s = <<>>)
        BY <1>0, <1>4, <1>10, <1>12, <3>2, InnermostFrame
      <4>2. stacks'[f] = s
        BY <1>0, <1>1, <4>1
      <4>3. Mirror(s, gs, n - 1)
        BY <1>7, <4>1, MirrorLike
      <4> QED BY <1>5, <1>6, <1>7, <3>2, <4>2, <4>3, MirrorCut
    <3> QED BY <3>1, <3>2
  <2> QED BY <1>4, <1>7, <2>1, <2>2 DEF Follows, Height
<1>13. FiberInv(f)'
  <2>1. ~on => \A k \in 1..n : ~gs[k].seen
    BY <1>0, <1>8 DEF StackInv, FiberInv
  <2> QED BY <1>4, <1>7, <1>9, <1>12, <2>1 DEF FiberInv
<1>14. calls \in Nat
  BY Types
<1> QED BY <1>4, <1>11, <1>13, <1>14, OneFiber

(* A retry of a frame that was seen finds its rescued trace on top; one that *)
(* was not gets its first trace, on an empty stack.                          *)
LEMMA RetryFollows ==
  ASSUME CacheInv, ShapeInv, StackInv, NEW f \in Fibers, NEW b \in BOOLEAN, Retry(f, b)
  PROVE  StackInv'
<1>0. PICK s, fs, n : s = stacks[f] /\ fs = frames[f] /\ n = Len(fs)
  OBVIOUS
<1>1. PICK h \in BOOLEAN :
        /\ frames' = [frames EXCEPT ![f] =
             SetTop(@, [Top(fs) EXCEPT !.rescued = FALSE, !.seen = @ \/ h])]
        /\ Event(frames'[f], h)
        /\ IF h THEN HandleCall(f, b)
                ELSE UNCHANGED <<stacks, present, hook, blockTps>>
  BY <1>0 DEF Retry
<1>2. PICK fr : fr = [Top(fs) EXCEPT !.rescued = FALSE, !.seen = @ \/ h]
  OBVIOUS
<1>3. PICK gs : gs = SetTop(fs, fr)
  OBVIOUS
<1>4. /\ hook[f] = NoHook /\ fs # <<>> /\ Top(fs).rescued
      /\ UNCHANGED <<on, matcher, excused>> /\ calls' = calls + 1
      /\ frames' = [frames EXCEPT ![f] = gs] /\ frames'[f] = gs
  BY <1>0, <1>1, <1>2, <1>3 DEF Retry, Free, ShapeInv, ProgramOK
<1>5. /\ s \in Seq(TraceRecord) /\ fs \in Seq(FrameRecord) /\ n \in Nat \ {0}
      /\ Top(fs) = fs[n] /\ \A k \in 1..n : fs[k] \in FrameRecord
      /\ Numbered(fs, calls) /\ \A k \in 1..(n - 1) : fs[k].id < fs[n].id
      /\ fs[n].seen => on
  BY <1>0, <1>4, InnermostFrame
<1>6. /\ fr \in FrameRecord /\ fr.id = fs[n].id /\ fr.method = fs[n].method
      /\ ~fr.rescued /\ (fr.seen <=> fs[n].seen \/ h)
  <2>1. fs[n] \in FrameRecord
    BY <1>5
  <2> QED BY <1>2, <1>5, <2>1 DEF FrameRecord
<1>7. /\ Len(gs) = n /\ gs[n] = fr /\ \A k \in 1..(n - 1) : gs[k] = fs[k]
      /\ gs \in Seq(FrameRecord) /\ gs # <<>> /\ Top(gs) = fr
  <2>1. fs \in Seq(FrameRecord) /\ fs # <<>> /\ fr \in FrameRecord /\ n = Len(fs)
    BY <1>0, <1>4, <1>5, <1>6
  <2>2. Len(gs) = n /\ gs[n] = fr /\ \A k \in 1..(n - 1) : gs[k] = fs[k]
    <3>1. /\ Len(SetTop(fs, fr)) = Len(fs) /\ SetTop(fs, fr)[Len(fs)] = fr
          /\ \A k \in 1..(Len(fs) - 1) : SetTop(fs, fr)[k] = fs[k]
      BY <2>1, SetTopElements
    <3> QED BY <1>3, <2>1, <3>1
  <2>3. fs \in Seq(FrameRecord) /\ fs # <<>> /\ fr \in FrameRecord
    BY <2>1
  <2>4. SetTop(fs, fr) \in Seq(FrameRecord) /\ Top(SetTop(fs, fr)) = fr
    BY <2>3, SetTopElements
  <2> QED BY <1>3, <1>5, <2>2, <2>4, EmptySeq
<1>8. \A k \in 1..n : gs[k].id = fs[k].id /\ gs[k].method = fs[k].method
  BY <1>5, <1>6, <1>7
<1>9. Numbered(gs, calls') /\ \A k \in 1..(n - 1) : gs[k].id < gs[n].id
  <2>1. /\ calls \in Nat /\ calls' = calls + 1 /\ n \in Nat \ {0}
        /\ \A k \in 1..n : gs[k].id \in Nat /\ gs[k].id = fs[k].id
    BY <1>4, <1>5, <1>8, Types DEF FrameRecord
  <2>2. /\ \A k \in 1..n : fs[k].id <= calls
        /\ \A k, l \in 1..n : k < l => fs[k].id < fs[l].id
    BY ONLY <1>0, <1>5 DEF Numbered
  <2>3. \A k \in 1..n : gs[k].id <= calls'
    BY ONLY <2>1, <2>2
  <2>4. \A k, l \in 1..n : k < l => gs[k].id < gs[l].id
    BY ONLY <2>1, <2>2
  <2>5. \A k \in 1..(n - 1) : gs[k].id < gs[n].id
    BY ONLY <2>1, <2>4
  <2>6. Len(gs) = n
    BY <1>7
  <2> QED BY ONLY <2>3, <2>4, <2>5, <2>6 DEF Numbered
<1>10. \A k \in 1..n : Relevant(gs, k) <=> Relevant(fs, k)
  <2>1. \A k \in 1..n : k > 1 => k - 1 \in 1..n
    BY <1>5
  <2> QED BY <1>8, <2>1 DEF Relevant
<1>11. h <=> on /\ Relevant(fs, n)
  BY <1>1, <1>4, <1>5, <1>7, <1>10, HandledIsRelevant DEF StackInv
<1>12. \A g \in Fibers \ {f} : /\ stacks'[g] = stacks[g] /\ frames'[g] = frames[g]
                               /\ hook'[g] = hook[g]
  BY <1>1, <1>4 DEF HandleCall, ShapeInv, StacksOK, HooksOK, ProgramOK
<1>13. PICK t : t = NewTrace(fr)
  OBVIOUS
<1>17. t \in TraceRecord /\ (h => Belongs(t, gs[n]))
  BY <1>4, <1>6, <1>7, <1>13, Types DEF NewTrace, TraceRecord, FrameRecord, Belongs
<1>18. \/ UNCHANGED <<stacks, hook>> /\ (h => LooksLikeRetry(f, fr.method))
       \/ h /\ stacks' = [stacks EXCEPT ![f] = Push(@, t)] /\ UNCHANGED hook
       \/ /\ h /\ UNCHANGED stacks
          /\ hook' = [hook EXCEPT ![f] =
               [trace |-> t, found |-> f \in present, stale |-> FALSE]]
  BY <1>1, <1>4, <1>7, <1>13 DEF HandleCall
<1>14. ASSUME f \notin excused PROVE Follows(f)'
  <2>1. Watched(gs)'
    <3>1. Watched(fs)
      BY <1>0, <1>14 DEF StackInv, FiberInv, Follows
    <3>2. \A k \in 1..n : Relevant(gs, k)' <=> Relevant(fs, k)
      BY <1>4, <1>10 DEF Relevant
    <3>3. ASSUME NEW k \in 1..n
          PROVE  IF gs[k].seen THEN Relevant(gs, k)'
                               ELSE Relevant(gs, k)' => \A j \in 1..(k - 1) : ~gs[j].seen
      <4>1. IF fs[k].seen THEN Relevant(fs, k)
                          ELSE Relevant(fs, k) => \A j \in 1..(k - 1) : ~fs[j].seen
        BY <1>0, <3>1 DEF Watched
      <4>2. \A j \in 1..(k - 1) : gs[j] = fs[j]
        BY <1>5, <1>7
      <4>3. CASE k = n
        BY <1>6, <1>7, <1>11, <3>2, <4>1, <4>2, <4>3
      <4>4. CASE k # n
        <5>1. gs[k] = fs[k]
          BY <1>5, <1>7, <4>4
        <5> QED BY <3>2, <4>1, <4>2, <5>1
      <4> QED BY <4>3, <4>4
    <3> QED BY <1>7, <3>3 DEF Watched
  <2>2. CASE ~h
    <3>1. hook'[f] = NoHook /\ stacks'[f] = s /\ Mirror(s, fs, n)
      BY <1>0, <1>1, <1>4, <1>14, <2>2 DEF StackInv, FiberInv, Follows, Height
    <3>2. \A k \in 1..n : /\ gs[k].id = fs[k].id /\ gs[k].method = fs[k].method
                          /\ gs[k].seen = fs[k].seen /\ (gs[k].rescued => fs[k].rescued)
      <4>1. gs[n].seen = fs[n].seen /\ ~gs[n].rescued
        <5>1. fr.seen \in BOOLEAN /\ fs[n].seen \in BOOLEAN
          BY <1>5, <1>6 DEF FrameRecord
        <5> QED BY <1>6, <1>7, <2>2, <5>1
      <4>2. \A k \in 1..n : k # n => gs[k] = fs[k]
        BY <1>5, <1>7
      <4>3. \A k \in 1..n : k # n => gs[k].seen = fs[k].seen /\ (gs[k].rescued => fs[k].rescued)
        BY <4>2
      <4> QED BY <1>8, <4>1, <4>3
    <3>3. Mirror(s, gs, n)
      BY <3>1, <3>2, MirrorLike
    <3> QED BY <1>4, <1>7, <2>1, <3>1, <3>3 DEF Follows, Height
  <2>3. CASE h /\ fs[n].seen
    <3>1. s # <<>> /\ Belongs(Top(s), fs[n]) /\ Mirror(s, fs, n)
      BY <1>0, <1>4, <1>14, <2>3, InnermostFrame DEF StackInv, FiberInv, Follows, Height
    <3>2. LooksLikeRetry(f, fr.method)
      BY <1>0, <1>4, <1>5, <1>6, <3>1 DEF LooksLikeRetry, Belongs
    <3>3. hook'[f] = NoHook /\ stacks'[f] = s
      BY <1>0, <1>1, <1>4, <1>7, <2>3, <3>2 DEF HandleCall
    <3>4. \A k \in 1..n : /\ gs[k].id = fs[k].id /\ gs[k].method = fs[k].method
                          /\ gs[k].seen = fs[k].seen /\ (gs[k].rescued => fs[k].rescued)
      <4>1. gs[n].seen = fs[n].seen /\ ~gs[n].rescued
        <5>1. fr.seen \in BOOLEAN /\ fs[n].seen \in BOOLEAN
          BY <1>5, <1>6 DEF FrameRecord
        <5> QED BY <1>6, <1>7, <2>3, <5>1
      <4> QED BY <1>5, <1>7, <1>8, <4>1
    <3>5. Mirror(s, gs, n)
      BY <3>1, <3>4, MirrorLike
    <3> QED BY <1>4, <1>7, <2>1, <3>3, <3>5 DEF Follows, Height
  <2>4. CASE h /\ ~fs[n].seen
    <3>1. Mirror(s, fs, n - 1) /\ s = <<>>
      BY <1>0, <1>4, <1>11, <1>14, <2>4, InnermostFrame
    <3>2. ~LooksLikeRetry(f, fr.method)
      BY <1>0, <3>1 DEF LooksLikeRetry
    <3>3. Mirror(s, gs, n - 1)
      BY <1>7, <3>1, MirrorLike
    <3>4. CASE stacks' = [stacks EXCEPT ![f] = Push(@, t)] /\ UNCHANGED hook
      <4>1. stacks'[f] = Push(s, t) /\ hook'[f] = NoHook
        BY <1>0, <1>4, <3>4 DEF ShapeInv, StacksOK
      <4>2. Mirror(Push(s, t), gs, n)
        BY <1>5, <1>9, <1>17, <2>4, <3>3, MirrorPush
      <4> QED BY <1>4, <1>7, <2>1, <4>1, <4>2 DEF Follows, Height
    <3>5. CASE /\ hook' = [hook EXCEPT ![f] =
                    [trace |-> t, found |-> f \in present, stale |-> FALSE]]
               /\ UNCHANGED stacks
      <4>1. /\ stacks'[f] = s
            /\ hook'[f] = [trace |-> t, found |-> f \in present, stale |-> FALSE]
        BY <1>0, <3>5 DEF ShapeInv, HooksOK
      <4>2. hook'[f] # NoHook
        <5>1. (f \in present) \in BOOLEAN
          OBVIOUS
        <5> QED BY <1>17, <4>1, <5>1, HookRecord
      <4> QED BY <1>4, <1>5, <1>7, <1>17, <2>1, <2>4, <3>3, <4>1, <4>2 DEF Follows, Height
    <3> QED BY <1>18, <2>4, <3>2, <3>4, <3>5
  <2> QED BY <2>2, <2>3, <2>4
<1>15. FiberInv(f)'
  <2>1. ~on => \A k \in 1..n : ~gs[k].seen
    <3>1. ~on => ~h /\ \A k \in 1..n : ~fs[k].seen
      BY <1>0, <1>11 DEF StackInv, FiberInv
    <3>2. ~on => ~gs[n].seen
      BY <1>5, <1>6, <1>7, <3>1
    <3> QED BY <1>5, <1>7, <3>1, <3>2
  <2>2. ~on => hook'[f] = NoHook
    <3>1. ~on => ~h
      BY <1>11
    <3> QED BY <1>4, <1>18, <3>1
  <2> QED BY <1>4, <1>7, <1>9, <1>14, <2>1, <2>2 DEF FiberInv
<1>16. calls' \in Nat /\ calls <= calls'
  BY <1>4, Types
<1> QED BY <1>4, <1>12, <1>15, <1>16, OneFiber

(* A return of a fiber that is not excused completes the trace of its own    *)
(* call.                                                                     *)
LEMMA ReturnPairs ==
  ASSUME CacheInv, ShapeInv, StackInv, NEW f \in Fibers, f \notin excused,
         Return(f), NEW s, NEW fs, NEW n,
         s = stacks[f], fs = frames[f], n = Len(fs)
  PROVE  \/ /\ fs[n].seen /\ Emit(f) /\ Belongs(Top(s), fs[n]) /\ Top(fs) = fs[n]
            /\ s # <<>> /\ Mirror(Pop(s), fs, n - 1)
         \/ Mirror(s, fs, n - 1) /\ UNCHANGED <<stacks, log>>
<1>1. PICK h \in BOOLEAN :
        /\ Event(fs, h)
        /\ IF h /\ s # <<>> /\ Top(s).method.name = Top(fs).method.name
             THEN Emit(f)
             ELSE UNCHANGED <<stacks, blockTps, log>>
  BY DEF Return
<1>2. hook[f] = NoHook /\ fs # <<>>
  BY DEF Return, Free
<1>3. /\ fs \in Seq(FrameRecord) /\ Top(fs) = fs[n] /\ (fs[n].seen => on)
      /\ fs[n].seen => /\ Relevant(fs, n) /\ s # <<>> /\ Belongs(Top(s), fs[n])
                       /\ Mirror(Pop(s), fs, n - 1)
      /\ ~fs[n].seen => Mirror(s, fs, n - 1) /\ (on /\ Relevant(fs, n) => s = <<>>)
  BY <1>2, InnermostFrame
<1>4. h <=> on /\ Relevant(fs, n)
  BY <1>1, <1>2, <1>3, HandledIsRelevant DEF StackInv
<1>5. CASE fs[n].seen
  BY <1>1, <1>3, <1>4, <1>5 DEF Belongs
<1>6. CASE ~fs[n].seen
  BY <1>1, <1>3, <1>4, <1>6
<1> QED BY <1>5, <1>6

LEMMA ReturnFollows ==
  ASSUME CacheInv, ShapeInv, StackInv, NEW f \in Fibers,
         Return(f)
  PROVE  StackInv'
<1>0. PICK s, fs, n : s = stacks[f] /\ fs = frames[f] /\ n = Len(fs)
  OBVIOUS
<1>1. PICK gs : gs = Pop(fs)
  OBVIOUS
<1>2. /\ hook[f] = NoHook /\ fs # <<>>
      /\ UNCHANGED <<on, matcher, hook, calls, excused>>
      /\ frames' = [frames EXCEPT ![f] = gs] /\ frames'[f] = gs
  BY <1>0, <1>1 DEF Return, Free, ShapeInv, ProgramOK
<1>3. stacks' = [stacks EXCEPT ![f] = Pop(s)] \/ stacks' = stacks
  BY <1>0 DEF Return, Emit
<1>4. /\ s \in Seq(TraceRecord) /\ fs \in Seq(FrameRecord) /\ n \in Nat \ {0}
      /\ \A k \in 1..n : fs[k] \in FrameRecord /\ Numbered(fs, calls)
  BY <1>0, <1>2, InnermostFrame
<1>5. Len(gs) = n - 1 /\ \A k \in 1..(n - 1) : gs[k] = fs[k]
  BY <1>0, <1>1, <1>2, <1>4, PopElements
<1>6. Numbered(gs, calls)
  <2>1. Numbered(fs, calls) /\ \A k \in 1..(n - 1) : k \in 1..n
    BY <1>4
  <2> QED BY <1>0, <1>5, <2>1 DEF Numbered
<1>7. \A g \in Fibers \ {f} : /\ stacks'[g] = stacks[g] /\ frames'[g] = frames[g]
                              /\ hook'[g] = hook[g]
  BY <1>2, <1>3 DEF ShapeInv, StacksOK, ProgramOK
<1>8. ASSUME f \notin excused PROVE Follows(f)'
  <2>1. Watched(gs)'
    <3>1. Watched(fs)
      BY <1>0, <1>8 DEF StackInv, FiberInv, Follows
    <3>2. Len(gs) \in Nat /\ Len(gs) <= Len(fs) /\ Len(fs) \in Nat
      BY <1>0, <1>4, <1>5
    <3>3. \A k \in 1..Len(gs) : gs[k] = fs[k]
      BY <1>5
    <3> QED BY <1>2, <3>1, <3>2, <3>3, WatchedLike
  <2>2. Mirror(stacks'[f], fs, n - 1)
    <3>1. CASE Emit(f) /\ Mirror(Pop(s), fs, n - 1)
      <4>1. stacks'[f] = Pop(s)
        BY <1>0, <3>1 DEF Emit, ShapeInv, StacksOK
      <4> QED BY <3>1, <4>1
    <3>2. CASE UNCHANGED stacks /\ Mirror(s, fs, n - 1)
      BY <1>0, <3>2
    <3> QED BY <1>0, <1>8, <3>1, <3>2, ReturnPairs
  <2>3. Mirror(stacks'[f], gs, n - 1)
    BY <1>5, <2>2, MirrorLike
  <2> QED BY <1>2, <1>5, <2>1, <2>3 DEF Follows, Height
<1>9. FiberInv(f)'
  <2>1. ~on => \A k \in 1..(n - 1) : ~gs[k].seen
    <3>1. ~on => \A k \in 1..n : ~fs[k].seen
      BY <1>0 DEF StackInv, FiberInv
    <3> QED BY <1>4, <1>5, <3>1
  <2> QED BY <1>2, <1>5, <1>6, <1>8, <2>1 DEF FiberInv
<1>10. calls \in Nat
  BY Types
<1> QED BY <1>2, <1>7, <1>9, <1>10, OneFiber
LEMMA FinishCallFollows ==
  ASSUME ShapeInv, StackInv, NEW f \in Fibers, FinishCall(f)
  PROVE  StackInv'
<1>0. PICK s, fs, n, t : s = stacks[f] /\ fs = frames[f] /\ n = Len(fs) /\ t = hook[f].trace
  OBVIOUS
<1>1. /\ hook[f] # NoHook
      /\ UNCHANGED <<on, matcher, frames, calls, excused>>
      /\ IF hook[f].found /\ hook[f].stale
           THEN UNCHANGED <<stacks, hook>>
           ELSE /\ stacks' = [stacks EXCEPT ![f] = Push(s, t)]
                /\ hook' = [hook EXCEPT ![f] = NoHook] /\ hook'[f] = NoHook
  BY <1>0 DEF FinishCall, program, ShapeInv, HooksOK
<1>2. \A g \in Fibers \ {f} : /\ stacks'[g] = stacks[g] /\ frames'[g] = frames[g]
                              /\ hook'[g] = hook[g]
  BY <1>1 DEF ShapeInv, StacksOK, HooksOK
<1>3. /\ s \in Seq(TraceRecord) /\ fs \in Seq(FrameRecord) /\ t \in TraceRecord
      /\ \A k \in 1..n : fs[k] \in FrameRecord
  BY <1>0, <1>1, Types
<1>4. ASSUME f \notin excused PROVE Follows(f)'
  <2>1. /\ ~hook[f].stale /\ fs # <<>> /\ Belongs(t, Top(fs)) /\ Mirror(s, fs, n - 1)
        /\ Watched(fs)
    BY <1>0, <1>1, <1>4 DEF StackInv, FiberInv, Follows, Height
  <2>2. n \in Nat \ {0} /\ Top(fs) = fs[n]
    BY <1>0, <1>3, <2>1, PopElements
  <2>3. \A k \in 1..(n - 1) : fs[k].id < fs[n].id
    <3>1. Numbered(fs, calls)
      BY <1>0 DEF StackInv, FiberInv
    <3>2. \A k \in 1..(n - 1) : k \in 1..n /\ n \in 1..n /\ k < n
      BY <2>2
    <3> QED BY <1>0, <3>1, <3>2 DEF Numbered
  <2>4. stacks'[f] = Push(s, t) /\ hook'[f] = NoHook
    BY <1>1, <2>1 DEF ShapeInv, StacksOK
  <2>5. Mirror(stacks'[f], fs, n)
    BY <1>3, <2>1, <2>2, <2>3, <2>4, MirrorPush
  <2>6. Watched(fs)'
    <3>1. Len(fs) \in Nat /\ Len(fs) <= Len(fs)
      BY <1>0, <2>2
    <3> QED BY <1>1, <2>1, <3>1, WatchedLike
  <2> QED BY <1>0, <1>1, <2>4, <2>5, <2>6 DEF Follows, Height
<1>5. FiberInv(f)'
  BY <1>1, <1>4 DEF StackInv, FiberInv
<1>6. calls \in Nat
  BY Types
<1> QED BY <1>1, <1>2, <1>5, <1>6, OneFiber

LEMMA AbandonFollows ==
  ASSUME ShapeInv, StackInv, NEW f \in Fibers, Abandon(f)
  PROVE  StackInv'
<1>1. /\ hook[f] = NoHook /\ frames' = [frames EXCEPT ![f] = <<>>] /\ frames'[f] = <<>>
      /\ UNCHANGED <<on, matcher, hook, stacks, calls>>
      /\ excused' = IF stacks[f] # <<>> THEN excused \union {f} ELSE excused
  BY DEF Abandon, Free, ShapeInv, ProgramOK
<1>2. \A g \in Fibers \ {f} : /\ stacks'[g] = stacks[g] /\ frames'[g] = frames[g]
                              /\ hook'[g] = hook[g]
  BY <1>1 DEF ShapeInv, ProgramOK
<1>3. Len(<<>>) = 0
  BY EmptySeq
<1>4. ASSUME f \notin excused' PROVE Follows(f)'
  <2>1. stacks'[f] = <<>>
    BY <1>1, <1>4
  <2>2. Mirror(<<>>, <<>>, 0)
    BY MirrorEmpty
  <2> QED BY <1>1, <1>3, <2>1, <2>2 DEF Follows, Height, Watched
<1>5. FiberInv(f)'
  BY <1>1, <1>3, <1>4 DEF FiberInv, Numbered
<1>6. calls \in Nat
  BY Types
<1> QED BY <1>1, <1>2, <1>5, <1>6, OneFiber

(* Another regex excuses whoever has frames; a first start finds none seen.  *)
LEMMA StartFollows ==
  ASSUME ShapeInv, StackInv, NEW r \in Matchers \union {NoMatcher}, Start(r)
  PROVE  StackInv'
<1>1. /\ matcher' = r /\ on' = TRUE /\ UNCHANGED <<stacks, hook, frames, calls>>
      /\ excused' = IF on /\ r # matcher
                      THEN excused \union {f \in Fibers : frames[f] # <<>>} ELSE excused
  BY DEF Start, program
<1>2. ASSUME NEW f \in Fibers, f \notin excused' PROVE Follows(f)'
  <2>1. Follows(f) /\ f \notin excused
    BY <1>1, <1>2 DEF StackInv, FiberInv
  <2>2. Watched(frames[f])'
    <3>1. CASE on /\ r = matcher
      BY <1>1, <2>1, <3>1 DEF Follows, Watched, Relevant
    <3>2. CASE on /\ r # matcher
      <4>1. frames'[f] = <<>> /\ Len(<<>>) = 0
        BY <1>1, <1>2, <3>2, EmptySeq
      <4> QED BY <4>1 DEF Watched
    <3>3. CASE ~on
      <4>1. \A k \in 1..Len(frames[f]) : ~frames[f][k].seen
        BY <3>3 DEF StackInv, FiberInv
      <4>2. \A k \in 1..Len(frames[f]) : \A j \in 1..(k - 1) : j \in 1..Len(frames[f])
        BY Types
      <4> QED BY <1>1, <4>1, <4>2 DEF Watched
    <3> QED BY <3>1, <3>2, <3>3
  <2> QED BY <1>1, <2>1, <2>2 DEF Follows, Height
<1> QED BY <1>1, <1>2 DEF StackInv, FiberInv

(* Stop empties the stacks, and nothing has been seen since. *)
LEMMA StopFollows ==
  ASSUME ShapeInv, StackInv, Stop
  PROVE  StackInv'
<1>1. /\ on' = FALSE /\ stacks' = [f \in Fibers |-> <<>>] /\ hook' = HooksStale
      /\ frames' = FramesUnseen /\ excused' = {f \in Fibers : hook[f] # NoHook}
      /\ UNCHANGED <<matcher, calls>>
  BY DEF Stop
<1>2. ASSUME NEW f \in Fibers PROVE FiberInv(f)'
  <2>1. PICK fs, gs, n : fs = frames[f] /\ gs = frames'[f] /\ n = Len(fs)
    OBVIOUS
  <2>2. /\ n \in Nat /\ Len(gs) = n /\ \A k \in 1..n : fs[k] \in FrameRecord
        /\ gs = [k \in 1..n |-> [fs[k] EXCEPT !.seen = FALSE]]
    <3>1. n \in Nat /\ \A k \in 1..n : fs[k] \in FrameRecord
      BY <2>1, Types
    <3>2. gs = [k \in 1..n |-> [fs[k] EXCEPT !.seen = FALSE]]
      BY <1>1, <2>1 DEF FramesUnseen
    <3> QED BY <3>1, <3>2
  <2>3. \A k \in 1..n : gs[k].id = fs[k].id /\ ~gs[k].seen
    BY <2>2 DEF FrameRecord
  <2>4. Numbered(gs, calls)
    <3>1. Numbered(fs, calls)
      BY <2>1 DEF StackInv, FiberInv
    <3> QED BY <2>1, <2>2, <2>3, <3>1 DEF Numbered
  <2>5. ASSUME f \notin excused' PROVE Follows(f)'
    <3>1. hook'[f] = NoHook
      BY <1>1, <2>5 DEF HooksStale
    <3>2. Mirror(<<>>, gs, n)
      BY <2>2, <2>3, MirrorEmpty
    <3>3. Watched(gs)'
      <4>1. \A k \in 1..n : \A j \in 1..(k - 1) : j \in 1..n
        BY <2>2
      <4> QED BY <2>2, <2>3, <4>1 DEF Watched
    <3> QED BY <1>1, <2>1, <2>2, <3>1, <3>2, <3>3 DEF Follows, Height
  <2>6. hook'[f] # NoHook => f \in excused'
    BY <1>1 DEF HooksStale
  <2> QED BY <1>1, <2>1, <2>2, <2>3, <2>4, <2>5, <2>6 DEF FiberInv
<1> QED BY <1>1, <1>2 DEF StackInv

LEMMA StackInit == Init => StackInv
<1> SUFFICES ASSUME Init PROVE StackInv
  OBVIOUS
<1>1. Len(<<>>) = 0
  BY EmptySeq
<1>2. Mirror(<<>>, <<>>, 0)
  BY MirrorEmpty
<1>3. ASSUME NEW f \in Fibers PROVE FiberInv(f)
  <2>1. stacks[f] = <<>> /\ frames[f] = <<>> /\ hook[f] = NoHook
    BY DEF Init
  <2> QED BY <1>1, <1>2, <2>1 DEF FiberInv, Follows, Height, Watched, Numbered
<1> QED BY <1>3 DEF StackInv, Init

LEMMA StackStep ==
  ASSUME CacheInv, ShapeInv, StackInv, [Next]_vars
  PROVE  StackInv'
<1>1. CASE UNCHANGED vars
  BY <1>1 DEF vars, program, StackInv, FiberInv, Follows, Height, Watched, Relevant
<1>2. CASE Next
  BY <1>2, CallFollows, RescueFollows, RetryFollows, ReturnFollows, FinishCallFollows,
     AbandonFollows, StartFollows, StopFollows DEF Next
<1> QED BY <1>1, <1>2

LEMMA StackInvariant == Spec => []StackInv
  BY StackInit, StackStep, CacheInvariant, ShapeInvariant, PTL DEF Spec

(* The traces on the stack of a fiber that is not excused are those of its   *)
(* frames whose call was seen, all of them, in the order of the calls.       *)
THEOREM StacksFollowProgram == Spec => []StacksMirrorFrames
<1>1. ShapeInv /\ StackInv => StacksMirrorFrames
  <2> SUFFICES ASSUME ShapeInv, StackInv, NEW f \in Fibers, f \notin excused
               PROVE  /\ {<<stacks[f][i].frame, stacks[f][i].method>> : i \in 1..Len(stacks[f])}
                           = {<<frames[f][k].id, frames[f][k].method>> : k \in SeenFrames(f)}
                      /\ \A i, j \in 1..Len(stacks[f]) :
                           i < j => stacks[f][i].frame < stacks[f][j].frame
    BY DEF StacksMirrorFrames
  <2>1. PICK s, fs, n : s = stacks[f] /\ fs = frames[f] /\ n = Height(f)
    OBVIOUS
  <2>2. Mirror(s, fs, n) /\ Numbered(fs, calls) /\ Len(fs) \in Nat
        /\ \A k \in 1..Len(fs) : fs[k] \in FrameRecord
    BY <2>1, Types DEF StackInv, FiberInv, Follows
  <2>3. \A k : k \in SeenFrames(f) <=> k \in 1..n /\ fs[k].seen
    BY <2>1, <2>2 DEF SeenFrames, Height
  <2>4. n <= Len(fs) /\ n \in Int
    BY <2>1, <2>2 DEF Height
  <2>5. ASSUME NEW i \in 1..Len(s)
        PROVE  \E k \in SeenFrames(f) : <<s[i].frame, s[i].method>> = <<fs[k].id, fs[k].method>>
    BY <2>2, <2>3 DEF Mirror, Belongs
  <2>6. ASSUME NEW k \in SeenFrames(f)
        PROVE  \E i \in 1..Len(s) : <<s[i].frame, s[i].method>> = <<fs[k].id, fs[k].method>>
    <3>1. PICK i \in 1..Len(s) : s[i].frame = fs[k].id
      BY <2>2, <2>3 DEF Mirror
    <3>2. PICK l \in 1..n : Belongs(s[i], fs[l])
      BY <2>2 DEF Mirror
    <3>3. l = k
      <4>1. k \in 1..Len(fs) /\ l \in 1..Len(fs) /\ fs[k].id = fs[l].id
        BY <2>2, <2>3, <2>4, <3>1, <3>2 DEF Belongs
      <4>2. fs[k].id \in Nat
        BY <2>2, <4>1 DEF FrameRecord
      <4> QED BY <2>2, <4>1, <4>2 DEF Numbered
    <3> QED BY <3>1, <3>2, <3>3 DEF Belongs
  <2>7. {<<s[i].frame, s[i].method>> : i \in 1..Len(s)}
          = {<<fs[k].id, fs[k].method>> : k \in SeenFrames(f)}
    <3> SUFFICES ASSUME NEW x
                 PROVE  (\E i \in 1..Len(s) : x = <<s[i].frame, s[i].method>>)
                          <=> \E k \in SeenFrames(f) : x = <<fs[k].id, fs[k].method>>
      OBVIOUS
    <3> QED BY <2>5, <2>6
  <2> QED BY <2>1, <2>2, <2>7 DEF Mirror
<1> QED BY <1>1, ShapeInvariant, StackInvariant, PTL
(* A return of a fiber that is not excused pushes the trace of its own call, *)
(* whatever other fibers, rescues and sessions came before.                  *)
THEOREM PairedReturns == Spec => ReturnsArePaired
<1> DEFINE Paired1 == \A f \in Fibers \ excused :
             log' # log /\ frames'[f] # frames[f] => Top(log').call = Top(log').return
<1>1. ASSUME CacheInv, ShapeInv, StackInv, [Next]_vars PROVE Paired1 \/ UNCHANGED vars
  <2> SUFFICES ASSUME Next, NEW f \in Fibers, f \notin excused, log' # log,
                      frames'[f] # frames[f]
               PROVE  Top(log').call = Top(log').return
    BY <1>1
  <2>1. PICK g \in Fibers : Return(g)
    BY DEF Next, Call, FinishCall, Retry, Rescue, Abandon, Start, Stop
  <2>2. g = f
    BY <2>1 DEF Return, ShapeInv, ProgramOK
  <2>3. PICK s, fs, n : s = stacks[f] /\ fs = frames[f] /\ n = Len(fs)
    OBVIOUS
  <2>4. Emit(f) /\ Belongs(Top(s), fs[n]) /\ Top(fs) = fs[n]
    BY <1>1, <2>1, <2>2, <2>3, ReturnPairs
  <2>5. PICK e : e = [call |-> Top(s).frame, return |-> Top(fs).id]
    OBVIOUS
  <2>6. log' = Append(log, e) /\ e.call = e.return
    BY <2>3, <2>4, <2>5 DEF Emit, Logged, Belongs
  <2>7. log \in Seq(LogRecord)
    BY <1>1 DEF ShapeInv, LogOK
  <2>8. Top(log') = e
    BY <2>6, <2>7 DEF Top
  <2> QED BY <2>6, <2>8
<1>2. CacheInv /\ ShapeInv /\ StackInv /\ [Next]_vars => [Paired1]_vars
  BY <1>1
<1> QED BY <1>2, CacheInvariant, ShapeInvariant, StackInvariant, PTL DEF Spec, ReturnsArePaired

------------------------------------------------------------------------------
(* What stop leaves behind *)

(* The trace x is on a stack, or a handler is about to push it. *)
Held(x) ==
  \/ \E f \in Fibers : \E i \in 1..Len(stacks[f]) : x = stacks[f][i].id
  \/ \E f \in Fibers : hook[f] # NoHook /\ x = hook[f].trace.id

(* Fiber f keeps nothing but a call that stop cut in two. *)
Cut(f) ==
  IF f \in excused
    THEN stacks[f] = <<>> \/ (Len(stacks[f]) = 1 /\ hook[f] = NoHook)
    ELSE stacks[f] = <<>> /\ hook[f] = NoHook /\ f \notin present

LeftInv ==
  /\ present \subseteq Fibers /\ \A f \in Fibers : stacks[f] # <<>> => f \in present
  /\ calls \in 0..MaxCalls /\ blockTps \subseteq 1..MaxCalls /\ fault \in BOOLEAN
  /\ \A x \in blockTps : Held(x)
  /\ ~on => \A f \in Fibers : Cut(f)

LEMMA HeldIsAlive == BlockTpsAlive <=> \A x \in blockTps : Held(x)
  BY DEF BlockTpsAlive, Held, OnStacks

(* A call that is seen puts a trace on the stack or into the hook. *)
LEMMA LeftCall ==
  ASSUME ShapeInv, LeftInv, NEW f \in Fibers, NEW b \in BOOLEAN, hook[f] = NoHook,
         on, UNCHANGED <<on, fault>>, calls < MaxCalls, calls' = calls + 1,
         HandleCall(f, b), Top(frames'[f]) \in FrameRecord
  PROVE  LeftInv'
<1>1. PICK s, fr, t : s = stacks[f] /\ fr = Top(frames'[f]) /\ t = NewTrace(fr)
  OBVIOUS
<1>2. s \in Seq(TraceRecord) /\ t \in TraceRecord /\ t.id = calls'
  <2>1. s \in Seq(TraceRecord) /\ calls' \in Nat
    BY <1>1, Types
  <2> QED BY <1>1, <2>1 DEF NewTrace, TraceRecord, FrameRecord
<1>3. calls' \in 0..MaxCalls /\ calls' \in 1..MaxCalls
  BY TracerAssumption DEF LeftInv
<1>4. CASE UNCHANGED <<stacks, present, hook, blockTps>>
  BY <1>3, <1>4 DEF LeftInv, Held
<1>5. CASE /\ stacks' = [stacks EXCEPT ![f] = Push(s, t)] /\ present' = present \union {f}
           /\ UNCHANGED <<hook, blockTps>>
  <2>1. /\ stacks'[f] = Push(s, t) /\ \A g \in Fibers \ {f} : stacks'[g] = stacks[g]
    BY <1>5 DEF ShapeInv, StacksOK
  <2>2. \A i \in 1..Len(s) : i \in 1..Len(stacks'[f]) /\ stacks'[f][i] = s[i]
    BY <1>2, <2>1, PushElements
  <2>3. \A x : Held(x) => Held(x)'
    BY <1>1, <1>5, <2>1, <2>2 DEF Held
  <2>4. present' \subseteq Fibers /\ \A g \in Fibers : stacks'[g] # <<>> => g \in present'
    BY <1>5, <2>1 DEF LeftInv
  <2> QED BY <1>3, <1>5, <2>3, <2>4 DEF LeftInv
<1>6. CASE /\ hook' = [hook EXCEPT ![f] =
                [trace |-> t, found |-> f \in present, stale |-> FALSE]]
           /\ blockTps' \subseteq blockTps \union {calls'}
           /\ UNCHANGED <<stacks, present>>
  <2>1. /\ hook'[f] = [trace |-> t, found |-> f \in present, stale |-> FALSE]
        /\ \A g \in Fibers \ {f} : hook'[g] = hook[g]
    BY <1>6 DEF ShapeInv, HooksOK
  <2>2. hook'[f].trace = t /\ hook'[f] # NoHook
    <3>1. PICK a \in BOOLEAN : a = (f \in present)
      <4>1. (f \in present) \in BOOLEAN
        OBVIOUS
      <4> QED BY <4>1, Zenon
    <3>2. hook'[f] = [trace |-> t, found |-> a, stale |-> FALSE]
      BY <2>1, <3>1
    <3>3. [trace |-> t, found |-> a, stale |-> FALSE] # NoHook
      BY <1>2, HookRecord
    <3> QED BY <3>2, <3>3
  <2>3. \A x : Held(x) => Held(x)'
    BY <1>6, <2>1 DEF Held
  <2>4. \A x \in {t.id} : Held(x)'
    BY <2>2 DEF Held
  <2>5. blockTps' \subseteq 1..MaxCalls /\ \A x \in blockTps' : Held(x)'
    BY <1>2, <1>3, <1>6, <2>3, <2>4 DEF LeftInv
  <2> QED BY <1>3, <1>6, <2>5 DEF LeftInv
<1> QED BY <1>1, <1>4, <1>5, <1>6 DEF HandleCall

(* A step of fiber f that changes its stack, if at all, and enables no block *)
(* trace point.                                                              *)
LEMMA LeftQuiet ==
  ASSUME ShapeInv, LeftInv, NEW f \in Fibers, NEW u \in Seq(TraceRecord),
         stacks' = [stacks EXCEPT ![f] = u], u # <<>> => stacks[f] # <<>>, on \/ u = stacks[f],
         UNCHANGED <<on, present, hook, fault, excused>>, calls' \in 0..MaxCalls,
         blockTps' \subseteq blockTps,
         \A i \in 1..Len(stacks[f]) :
           \/ stacks[f][i].id \notin blockTps'
           \/ \E j \in 1..Len(u) : u[j].id = stacks[f][i].id
  PROVE  LeftInv'
<1>1. stacks'[f] = u /\ \A g \in Fibers \ {f} : stacks'[g] = stacks[g]
  BY DEF ShapeInv, StacksOK
<1>2. ASSUME NEW x \in blockTps' PROVE Held(x)'
  <2>1. Held(x)
    BY DEF LeftInv
  <2>2. CASE \E g \in Fibers : \E i \in 1..Len(stacks[g]) : x = stacks[g][i].id
    <3>1. PICK g \in Fibers : \E i \in 1..Len(stacks[g]) : x = stacks[g][i].id
      BY <2>2
    <3>2. CASE g = f
      <4>1. \E j \in 1..Len(u) : x = u[j].id
        BY <3>1, <3>2
      <4> QED BY <1>1, <4>1 DEF Held
    <3>3. CASE g # f
      BY <1>1, <3>1, <3>3 DEF Held
    <3> QED BY <3>2, <3>3
  <2>3. CASE \E g \in Fibers : hook[g] # NoHook /\ x = hook[g].trace.id
    BY <2>3 DEF Held
  <2> QED BY <2>1, <2>2, <2>3 DEF Held
<1>3. \A g \in Fibers : stacks'[g] # <<>> => g \in present'
  BY <1>1 DEF LeftInv
<1>4. ~on' => \A g \in Fibers : Cut(g)'
  BY <1>1 DEF LeftInv, Cut
<1> QED BY <1>2, <1>3, <1>4 DEF LeftInv

(* The end of an event's step: the trace that leaves takes its trace point   *)
(* along.                                                                    *)
LEMMA LeftReturn ==
  ASSUME ShapeInv, LeftInv, NEW f \in Fibers, Return(f)
  PROVE  LeftInv'
<1>1. PICK s : s = stacks[f]
  OBVIOUS
<1>2. s \in Seq(TraceRecord) /\ calls' \in 0..MaxCalls /\ stacks = [stacks EXCEPT ![f] = s]
  BY <1>1, Types DEF Return, LeftInv, ShapeInv, StacksOK
<1>3. CASE on /\ s # <<>> /\ Emit(f)
  <2>1. /\ Len(s) \in Nat \ {0} /\ Top(s) = s[Len(s)] /\ Pop(s) \in Seq(TraceRecord)
        /\ Len(Pop(s)) = Len(s) - 1 /\ \A k \in 1..(Len(s) - 1) : Pop(s)[k] = s[k]
    BY <1>2, <1>3, PopElements
  <2>2. PICK u : u = Pop(s)
    OBVIOUS
  <2>3. ASSUME NEW i \in 1..Len(s), s[i].id \in blockTps'
        PROVE  \E j \in 1..Len(u) : u[j].id = s[i].id
    <3>1. i # Len(s)
      BY <1>1, <1>3, <2>1, <2>3 DEF Emit
    <3>2. i \in 1..Len(u) /\ u[i] = s[i]
      BY <2>1, <2>2, <3>1
    <3> QED BY <3>2
  <2>4. /\ stacks' = [stacks EXCEPT ![f] = u] /\ blockTps' \subseteq blockTps
        /\ UNCHANGED <<on, present, hook, fault, excused>>
    BY <1>1, <1>3, <2>2 DEF Emit, Return
  <2>5. u \in Seq(TraceRecord) /\ (u # <<>> => stacks[f] # <<>>)
    BY <1>1, <1>3, <2>1, <2>2
  <2>6. \A i \in 1..Len(stacks[f]) :
          \/ stacks[f][i].id \notin blockTps'
          \/ \E j \in 1..Len(u) : u[j].id = stacks[f][i].id
    BY <1>1, <2>3
  <2> QED BY <1>2, <1>3, <2>4, <2>5, <2>6, LeftQuiet
<1>4. CASE UNCHANGED <<stacks, blockTps>>
  <2>1. UNCHANGED <<on, present, hook, fault, excused>>
    BY DEF Return
  <2> QED BY <1>1, <1>2, <1>4, <2>1, LeftQuiet
<1> QED BY <1>1, <1>3, <1>4 DEF Return, Event

LEMMA LeftRescue ==
  ASSUME ShapeInv, LeftInv, NEW f \in Fibers, Rescue(f)
  PROVE  LeftInv'
<1>1. PICK s, t : s = stacks[f] /\ t = [Top(s) EXCEPT !.rescued = TRUE]
  OBVIOUS
<1>2. s \in Seq(TraceRecord) /\ calls' \in 0..MaxCalls /\ stacks = [stacks EXCEPT ![f] = s]
  BY <1>1, Types DEF Rescue, LeftInv, ShapeInv, StacksOK
<1>3. UNCHANGED <<on, present, hook, blockTps, fault, excused>>
  BY DEF Rescue
<1>4. CASE on /\ s # <<>> /\ stacks' = [stacks EXCEPT ![f] = SetTop(s, t)]
  <2>1. Len(s) \in Nat \ {0} /\ Top(s) = s[Len(s)] /\ Top(s) \in TraceRecord
    BY <1>2, <1>4, PopElements, EndOfSeq
  <2>2. t \in TraceRecord /\ t.id = s[Len(s)].id
    BY <1>1, <2>1 DEF TraceRecord
  <2>3. /\ SetTop(s, t) \in Seq(TraceRecord) /\ Len(SetTop(s, t)) = Len(s)
        /\ SetTop(s, t)[Len(s)] = t /\ \A k \in 1..(Len(s) - 1) : SetTop(s, t)[k] = s[k]
    BY <1>2, <1>4, <2>2, SetTopElements
  <2>4. PICK u : u = SetTop(s, t)
    OBVIOUS
  <2>5. \A i \in 1..Len(stacks[f]) : i \in 1..Len(u) /\ u[i].id = stacks[f][i].id
    <3>1. PICK n \in Nat \ {0} : n = Len(s)
      BY <2>1
    <3>2. \A i \in 1..n : i = n \/ i \in 1..(n - 1)
      OBVIOUS
    <3>3. Len(u) = n /\ u[n].id = s[n].id /\ \A i \in 1..(n - 1) : u[i] = s[i]
      BY <2>2, <2>3, <2>4, <3>1
    <3> QED BY <1>1, <3>1, <3>2, <3>3
  <2>6. /\ u \in Seq(TraceRecord) /\ stacks' = [stacks EXCEPT ![f] = u]
        /\ u # <<>> => stacks[f] # <<>>
        /\ blockTps' \subseteq blockTps
    BY <1>1, <1>3, <1>4, <2>3, <2>4
  <2> QED BY <1>2, <1>3, <1>4, <2>5, <2>6, LeftQuiet
<1>5. CASE UNCHANGED stacks
  BY <1>1, <1>2, <1>3, <1>5, LeftQuiet
<1> QED BY <1>1, <1>4, <1>5 DEF Rescue, Event

(* What process_call_event held goes on the stack, unless that is gone. *)
LEMMA LeftFinishCall ==
  ASSUME ShapeInv, LeftInv, NEW f \in Fibers, FinishCall(f)
  PROVE  LeftInv'
<1>1. PICK s, t : s = stacks[f] /\ t = hook[f].trace
  OBVIOUS
<1>2. CASE UNCHANGED <<stacks, present, hook>>
  <2>1. UNCHANGED <<on, blockTps, calls, excused>> /\ fault' \in BOOLEAN
    BY DEF FinishCall, program, LeftInv
  <2> QED BY <1>2, <2>1 DEF LeftInv, Held, Cut
<1>3. CASE ~UNCHANGED <<stacks, present, hook>>
  <2>1. /\ hook[f] # NoHook /\ UNCHANGED <<on, blockTps, calls, excused, fault>>
        /\ hook'[f] = NoHook /\ \A g \in Fibers \ {f} : hook'[g] = hook[g] /\ stacks'[g] = stacks[g]
        /\ stacks'[f] = Push(s, t) /\ present' = present \union {f}
    BY <1>1, <1>3 DEF FinishCall, program, ShapeInv, StacksOK, HooksOK
  <2>2. s \in Seq(TraceRecord) /\ t \in TraceRecord
    BY <1>1, <2>1, Types
  <2>3. \A i \in 1..Len(s) : i \in 1..Len(Push(s, t)) /\ Push(s, t)[i] = s[i]
    BY <2>2, PushElements
  <2>4. \E i \in 1..Len(Push(s, t)) : Push(s, t)[i] = t
    BY <2>2, PushElements
  <2>5. ASSUME NEW x, Held(x) PROVE Held(x)'
    <3>1. CASE \E g \in Fibers : \E i \in 1..Len(stacks[g]) : x = stacks[g][i].id
      BY <1>1, <2>1, <2>3, <3>1 DEF Held
    <3>2. CASE \E g \in Fibers : hook[g] # NoHook /\ x = hook[g].trace.id
      <4>1. PICK g \in Fibers : hook[g] # NoHook /\ x = hook[g].trace.id
        BY <3>2
      <4>2. CASE g = f
        BY <1>1, <2>1, <2>4, <4>1, <4>2 DEF Held
      <4>3. CASE g # f
        BY <2>1, <4>1, <4>3 DEF Held
      <4> QED BY <4>2, <4>3
    <3> QED BY <2>5, <3>1, <3>2 DEF Held
  <2>6. ASSUME ~on PROVE \A g \in Fibers : Cut(g)'
    <3>1. f \in excused /\ s = <<>>
      BY <1>1, <2>1, <2>6 DEF LeftInv, Cut
    <3>2. Len(stacks'[f]) = 1
      <4>1. Len(<<>>) = 0 /\ Len(Push(s, t)) = Len(s) + 1
        BY <2>2, EmptySeq, PushElements
      <4> QED BY <2>1, <3>1, <4>1
    <3>3. ASSUME NEW g \in Fibers \ {f} PROVE Cut(g)'
      <4>1. Cut(g)
        BY <2>6 DEF LeftInv
      <4> QED BY <2>1, <3>3, <4>1 DEF Cut
    <3> QED BY <2>1, <3>1, <3>2, <3>3 DEF Cut
  <2>7. \A g \in Fibers : stacks'[g] # <<>> => g \in present'
    BY <1>1, <2>1 DEF LeftInv
  <2> QED BY <2>1, <2>5, <2>6, <2>7 DEF LeftInv
<1> QED BY <1>2, <1>3

(* Stop disables the trace points of all traces it frees. *)
LEMMA LeftStop ==
  ASSUME ShapeInv, LeftInv, Stop
  PROVE  LeftInv'
<1>1. ASSUME NEW x \in blockTps' PROVE Held(x)'
  <2>1. Held(x) /\ x \notin OnStacks
    BY DEF Stop, LeftInv
  <2>2. \E f \in Fibers : hook[f] # NoHook /\ x = hook[f].trace.id
    BY <2>1 DEF Held, OnStacks
  <2>3. ASSUME NEW f \in Fibers, hook[f] # NoHook
        PROVE  hook'[f] # NoHook /\ hook'[f].trace = hook[f].trace
    <3>1. PICK r : r = hook[f]
      OBVIOUS
    <3>2. r \in HookType /\ hook'[f] = [r EXCEPT !.stale = TRUE]
      BY <2>3, <3>1 DEF ShapeInv, HooksOK, Stop, HooksStale
    <3>3. r.trace \in TraceRecord /\ r.found \in BOOLEAN
      BY <2>3, <3>1, <3>2, Types DEF HookType
    <3>4. [r EXCEPT !.stale = TRUE] = [trace |-> r.trace, found |-> r.found, stale |-> TRUE]
      BY <3>2 DEF HookType
    <3>5. [trace |-> r.trace, found |-> r.found, stale |-> TRUE] # NoHook
      BY <3>3, HookRecord
    <3>6. hook'[f] = [trace |-> r.trace, found |-> r.found, stale |-> TRUE]
      BY <3>2, <3>4
    <3> QED BY <3>1, <3>5, <3>6
  <2> QED BY <2>2, <2>3 DEF Held, Stop
<1>2. \A f \in Fibers : stacks'[f] = <<>>
  BY DEF Stop
<1>3. \A f \in Fibers : Cut(f)'
  <2> TAKE f \in Fibers
  <2>1. CASE hook[f] # NoHook
    BY <1>2, <2>1 DEF Stop, Cut
  <2>2. CASE hook[f] = NoHook
    BY <1>2, <2>2 DEF Stop, HooksStale, Cut
  <2> QED BY <2>1, <2>2
<1> QED BY <1>1, <1>2, <1>3 DEF Stop, LeftInv

LEMMA LeftStep ==
  ASSUME ShapeInv, LeftInv, [Next]_vars
  PROVE  LeftInv'
<1>1. ASSUME UNCHANGED <<stacks, present, hook, blockTps, fault>>, calls' \in 0..MaxCalls,
             on' = on, excused \subseteq excused',
             \A f \in excused' \ excused : on \/ stacks[f] # <<>>
      PROVE  LeftInv'
  <2>1. ASSUME ~on' PROVE \A f \in Fibers : Cut(f)'
    <3>1. \A f \in Fibers : Cut(f)
      BY <1>1, <2>1 DEF LeftInv
    <3> QED BY <1>1, <2>1, <3>1 DEF Cut
  <2> QED BY <1>1, <2>1 DEF LeftInv, Held
<1>2. ASSUME NEW f \in Fibers, NEW m \in Methods, NEW b \in BOOLEAN, Call(f, m, b)
      PROVE  LeftInv'
  <2>1. PICK h \in BOOLEAN :
          /\ frames' = [frames EXCEPT ![f] =
               Push(@, [id |-> calls + 1, method |-> m, rescued |-> FALSE, seen |-> h])]
          /\ Event(frames'[f], h)
          /\ IF h THEN HandleCall(f, b)
                  ELSE UNCHANGED <<stacks, present, hook, blockTps>>
          /\ excused' = IF h /\ LooksLikeRetry(f, m) THEN excused \union {f} ELSE excused
    BY <1>2 DEF Call
  <2>2. /\ hook[f] = NoHook /\ calls < MaxCalls /\ calls' = calls + 1
        /\ UNCHANGED <<on, fault>> /\ calls' \in 0..MaxCalls
    BY <1>2, TracerAssumption DEF Call, Free, LeftInv
  <2>3. PICK fr : fr = [id |-> calls + 1, method |-> m, rescued |-> FALSE, seen |-> h]
    OBVIOUS
  <2>4. fr \in FrameRecord
    <3>1. calls \in Nat
      BY Types
    <3> QED BY <2>3, <3>1 DEF FrameRecord
  <2>5. Top(frames'[f]) = fr
    <3>1. frames[f] \in Seq(FrameRecord) /\ fr \in FrameRecord
      BY <2>4, Types
    <3>2. frames'[f] = Push(frames[f], fr)
      BY <2>1, <2>3 DEF ShapeInv, ProgramOK
    <3>3. Top(Push(frames[f], fr)) = fr
      BY <3>1, PushElements
    <3> QED BY <3>2, <3>3
  <2>6. CASE h
    <3>1. on
      BY <2>1, <2>6 DEF Event
    <3> QED BY <2>1, <2>2, <2>4, <2>5, <2>6, <3>1, LeftCall
  <2>7. CASE ~h
    BY <1>1, <2>1, <2>2, <2>7
  <2> QED BY <2>6, <2>7
<1>3. ASSUME NEW f \in Fibers, NEW b \in BOOLEAN, Retry(f, b) PROVE LeftInv'
  <2>1. PICK fs : fs = frames[f]
    OBVIOUS
  <2>2. PICK h \in BOOLEAN :
          /\ frames' = [frames EXCEPT ![f] =
               SetTop(@, [Top(fs) EXCEPT !.rescued = FALSE, !.seen = @ \/ h])]
          /\ Event(frames'[f], h)
          /\ IF h THEN HandleCall(f, b)
                  ELSE UNCHANGED <<stacks, present, hook, blockTps>>
    BY <1>3, <2>1 DEF Retry
  <2>3. /\ hook[f] = NoHook /\ calls < MaxCalls /\ calls' = calls + 1 /\ fs # <<>>
        /\ UNCHANGED <<on, fault, excused>> /\ calls' \in 0..MaxCalls
    BY <1>3, <2>1, TracerAssumption DEF Retry, Free, LeftInv
  <2>4. PICK fr : fr = [Top(fs) EXCEPT !.rescued = FALSE, !.seen = @ \/ h]
    OBVIOUS
  <2>5. fs \in Seq(FrameRecord) /\ fr \in FrameRecord
    <3>1. fs \in Seq(FrameRecord)
      BY <2>1, Types
    <3>2. Top(fs) \in FrameRecord
      BY <2>3, <3>1, EndOfSeq
    <3> QED BY <2>4, <3>1, <3>2 DEF FrameRecord
  <2>6. Top(frames'[f]) = fr
    <3>1. frames'[f] = SetTop(fs, fr)
      BY <2>1, <2>2, <2>4 DEF ShapeInv, ProgramOK
    <3> QED BY <2>3, <2>5, <3>1, SetTopElements
  <2>7. CASE h
    <3>1. on
      BY <2>2, <2>7 DEF Event
    <3> QED BY <2>2, <2>3, <2>5, <2>6, <2>7, <3>1, LeftCall
  <2>8. CASE ~h
    BY <1>1, <2>2, <2>3, <2>8
  <2> QED BY <2>7, <2>8
<1>4. ASSUME NEW f \in Fibers, Abandon(f) PROVE LeftInv'
  BY <1>1, <1>4 DEF Abandon, LeftInv
<1>5. ASSUME NEW r \in Matchers \union {NoMatcher}, Start(r) PROVE LeftInv'
  <2>1. UNCHANGED <<stacks, present, hook, blockTps, fault, calls>> /\ on'
    BY <1>5 DEF Start, program
  <2> QED BY <2>1 DEF LeftInv, Held
<1>6. CASE UNCHANGED vars
  BY <1>1, <1>6 DEF vars, program, LeftInv
<1> QED BY <1>2, <1>3, <1>4, <1>5, <1>6, LeftReturn, LeftRescue, LeftFinishCall, LeftStop DEF Next

LEMMA LeftInvariant == Spec => []LeftInv
<1>1. Init => LeftInv
  <2> SUFFICES ASSUME Init PROVE LeftInv
    OBVIOUS
  <2>1. \A f \in Fibers : Cut(f)
    BY DEF Init, Cut
  <2>2. calls \in 0..MaxCalls
    BY TracerAssumption DEF Init
  <2> QED BY <2>1, <2>2 DEF Init, LeftInv
<1> QED BY <1>1, LeftStep, ShapeInvariant, PTL DEF Spec

(* After stop, and until the next start, a fiber keeps nothing unless stop   *)
(* cut its call event in two, and then the trace of that one call; and no    *)
(* block's trace point ever outlives its trace.                              *)
THEOREM OnlyCutCallsAreLeft == Spec => []StopLeavesCutCalls
<1>1. LeftInv => StopLeavesCutCalls
  BY HeldIsAlive DEF LeftInv, StopLeavesCutCalls, Cut
<1> QED BY <1>1, LeftInvariant, PTL

(* The variables keep their types. *)
THEOREM TracerTypes == Spec => []TypeOK
<1>1. CacheInv /\ StackInv /\ LeftInv => TypeOK
  BY DEF CacheInv, StackInv, LeftInv, TypeOK
<1> QED BY <1>1, CacheInvariant, StackInvariant, LeftInvariant, PTL
==============================================================================
