--------------------------- MODULE FirstCallProofs ---------------------------
(***************************************************************************)
(* If the calls of a method's block come from one fiber, the first of them *)
(* is recorded, with the value that very call returned - for any number of *)
(* fibers, any nesting of blocks and any calls inside the first one.       *)
(*                                                                         *)
(* The stack of a trace follows the frames of that fiber: it has a trace   *)
(* for the first call and a nullptr for each watched call inside it, so    *)
(* that the frame on top is the first call exactly when the trace is       *)
(* (FollowsIn).  A handler that stops in the middle of the first call has  *)
(* touched the trace by then, so that any other fiber that gets in between *)
(* shows in its history (WaitingOK).                                       *)
(***************************************************************************)
EXTENDS MemoryProofs

------------------------------------------------------------------------------
(* Calls under way *)

(* How many calls that the trace point tp saw are under way in the frames s, *)
(* from the one with number n on: m.                                         *)
Watched(fr, tp) == fr.block \in Within[tp.target]

Nests(s, tp, n, p, d) ==
  /\ p \in 1..Len(s) /\ s[p].id = n /\ Watched(s[p], tp)
  /\ d \in [p..Len(s) -> Nat \ {0}] /\ d[p] = 1
  /\ \A i \in (p + 1)..Len(s) : d[i] = IF Watched(s[i], tp) THEN d[i - 1] + 1 ELSE d[i - 1]

Depth(s, tp, n, m) == \E p, d : Nests(s, tp, n, p, d) /\ d[Len(s)] = m

(* The record r of tp's trace follows the frames s: its stack has a trace    *)
(* for the first call and a nullptr for each one inside it.  pends: the      *)
(* handler of the innermost call has still to push it.                       *)
FollowsIn(r, s, pends, new, tp) ==
  LET first == Append(tp.data, r.first.call)
  IN  /\ r.traces = <<>>
      /\ \A i \in DOMAIN r.stack : r.stack[i] = IF i = 1 THEN first ELSE Null
      /\ pends /\ r.stack = <<>> => new = first
      /\ Depth(s, tp, r.first.call, IF pends THEN Len(r.stack) + 1 ELSE Len(r.stack))

LEMMA DepthIs ==
  ASSUME NEW s \in Seq(Frame), NEW tp, NEW n, NEW m, Depth(s, tp, n, m)
  PROVE  m \in Nat /\ m >= 1 /\ s # <<>>
<1>1. PICK p, d : Nests(s, tp, n, p, d) /\ d[Len(s)] = m
  BY DEF Depth
<1>2. Len(s) \in Nat /\ p \in 1..Len(s) /\ d \in [p..Len(s) -> Nat \ {0}]
  BY <1>1 DEF Nests
<1>3. Len(s) \in p..Len(s)
  BY <1>2
<1>4. m \in Nat \ {0}
  BY <1>1, <1>2, <1>3
<1> QED BY <1>2, <1>4

LEMMA DepthStarts ==
  ASSUME NEW s \in Seq(Frame), s # <<>>, NEW tp, Watched(Last(s), tp)
  PROVE  Depth(s, tp, Last(s).id, 1)
<1>1. PICK n \in Nat : n = Len(s)
  OBVIOUS
<1>2. n >= 1 /\ Last(s) = s[n]
  BY <1>1 DEF Last
<1> DEFINE d == [i \in n..n |-> 1]
<1>3. Nests(s, tp, Last(s).id, n, d) /\ d[n] = 1
  BY <1>1, <1>2 DEF Nests
<1> QED BY <1>1, <1>3 DEF Depth

LEMMA DepthGrows ==
  ASSUME NEW s \in Seq(Frame), NEW fr \in Frame, NEW tp, NEW n, NEW m, Depth(s, tp, n, m)
  PROVE  Depth(Append(s, fr), tp, n, IF Watched(fr, tp) THEN m + 1 ELSE m)
<1>1. PICK p, d : Nests(s, tp, n, p, d) /\ d[Len(s)] = m
  BY DEF Depth
<1>2. PICK l, t : l = Len(s) /\ t = Append(s, fr)
  OBVIOUS
<1>3. /\ l \in Nat /\ Len(t) = l + 1 /\ t[l + 1] = fr
      /\ \A i \in 1..l : t[i] = s[i]
  BY <1>2, AppendProperties
<1>4. /\ p \in 1..l /\ s[p].id = n /\ Watched(s[p], tp)
      /\ d \in [p..l -> Nat \ {0}] /\ d[p] = 1 /\ d[l] = m
      /\ \A i \in (p + 1)..l : d[i] = IF Watched(s[i], tp) THEN d[i - 1] + 1 ELSE d[i - 1]
  BY <1>1, <1>2 DEF Nests
<1>5. PICK k : k = IF Watched(fr, tp) THEN m + 1 ELSE m
  OBVIOUS
<1>6. m \in Nat \ {0} /\ k \in Nat \ {0}
  <2>1. l \in p..l
    BY <1>3, <1>4
  <2> QED BY <1>4, <1>5, <2>1
<1> DEFINE e == [i \in p..(l + 1) |-> IF i = l + 1 THEN k ELSE d[i]]
<1>7. /\ e \in [p..(l + 1) -> Nat \ {0}] /\ e[l + 1] = k
      /\ \A i \in p..l : e[i] = d[i]
  <2>1. \A i \in p..(l + 1) : i # l + 1 => i \in p..l
    BY <1>3, <1>4
  <2>2. l + 1 \in p..(l + 1) /\ \A i \in p..l : i # l + 1 /\ i \in p..(l + 1)
    BY <1>3, <1>4
  <2> QED BY <1>4, <1>6, <2>1, <2>2
<1> HIDE DEF e
<1>8. ASSUME NEW i \in (p + 1)..(l + 1)
      PROVE  e[i] = IF Watched(t[i], tp) THEN e[i - 1] + 1 ELSE e[i - 1]
  <2>1. CASE i = l + 1
    <3>1. i - 1 = l /\ l \in p..l
      BY <1>3, <1>4, <2>1
    <3> QED BY <1>3, <1>4, <1>5, <1>7, <2>1, <3>1
  <2>2. CASE i # l + 1
    <3>1. i \in (p + 1)..l /\ i \in p..l /\ i - 1 \in p..l /\ i \in 1..l
      BY <1>3, <1>4, <2>2
    <3> QED BY <1>3, <1>4, <1>7, <3>1
  <2> QED BY <2>1, <2>2
<1>9. p \in 1..(l + 1) /\ p \in p..l /\ t[p] = s[p]
  BY <1>3, <1>4
<1>10. Nests(t, tp, n, p, e)
  BY <1>3, <1>4, <1>7, <1>8, <1>9 DEF Nests
<1> QED BY <1>2, <1>3, <1>5, <1>7, <1>10 DEF Depth

(* The innermost frame is not the first call. *)
LEMMA DepthShrinks ==
  ASSUME NEW s \in Seq(Frame), s # <<>>, NEW tp, NEW n, NEW m, Depth(s, tp, n, m),
         Last(s).id # n \/ ~Watched(Last(s), tp)
  PROVE  IF Watched(Last(s), tp) THEN m >= 2 /\ Depth(Front(s), tp, n, m - 1)
                                 ELSE Depth(Front(s), tp, n, m)
<1>1. PICK p, d : Nests(s, tp, n, p, d) /\ d[Len(s)] = m
  BY DEF Depth
<1>2. PICK l, t : l = Len(s) /\ t = Front(s)
  OBVIOUS
<1>3. /\ l \in Nat /\ l >= 1 /\ Last(s) = s[l] /\ Len(t) = l - 1
      /\ \A i \in 1..(l - 1) : t[i] = s[i]
  BY <1>2 DEF Last, Front
<1>4. /\ p \in 1..l /\ s[p].id = n /\ Watched(s[p], tp)
      /\ d \in [p..l -> Nat \ {0}] /\ d[p] = 1 /\ d[l] = m
      /\ \A i \in (p + 1)..l : d[i] = IF Watched(s[i], tp) THEN d[i - 1] + 1 ELSE d[i - 1]
  BY <1>1, <1>2 DEF Nests
<1>5. p # l /\ p \in 1..(l - 1) /\ l \in (p + 1)..l /\ l - 1 \in p..l /\ l - 1 \in p..(l - 1)
  BY <1>3, <1>4
<1> DEFINE e == [i \in p..(l - 1) |-> d[i]]
<1>6. e \in [p..(l - 1) -> Nat \ {0}] /\ \A i \in p..(l - 1) : e[i] = d[i]
  <2>1. \A i \in p..(l - 1) : i \in p..l
    BY <1>3, <1>4
  <2> QED BY <1>4, <2>1
<1> HIDE DEF e
<1>7. ASSUME NEW i \in (p + 1)..(l - 1)
      PROVE  e[i] = IF Watched(t[i], tp) THEN e[i - 1] + 1 ELSE e[i - 1]
  <2>1. i \in (p + 1)..l /\ i \in p..(l - 1) /\ i - 1 \in p..(l - 1) /\ i \in 1..(l - 1)
    BY <1>3, <1>4
  <2> QED BY <1>3, <1>4, <1>6, <2>1
<1>8. Nests(t, tp, n, p, e)
  <2>1. p \in p..(l - 1) /\ t[p] = s[p]
    BY <1>3, <1>5
  <2> QED BY <1>3, <1>4, <1>5, <1>6, <1>7, <2>1 DEF Nests
<1>9. m = (IF Watched(Last(s), tp) THEN e[l - 1] + 1 ELSE e[l - 1]) /\ e[l - 1] \in Nat \ {0}
  BY <1>3, <1>4, <1>5, <1>6
<1>10. Depth(t, tp, n, e[l - 1])
  BY <1>3, <1>8 DEF Depth
<1>11. CASE Watched(Last(s), tp)
  <2>1. m - 1 = e[l - 1] /\ m >= 2
    BY <1>9, <1>11
  <2> QED BY <1>2, <1>10, <1>11, <2>1
<1>12. CASE ~Watched(Last(s), tp)
  BY <1>2, <1>9, <1>10, <1>12
<1> QED BY <1>11, <1>12

(* The first call is the innermost frame. *)
LEMMA DepthEnds ==
  ASSUME NEW s \in Seq(Frame), s # <<>>, NEW tp, NEW n, NEW m, Depth(s, tp, n, m),
         Last(s).id = n, \A i, j \in DOMAIN s : s[i].id = s[j].id => i = j
  PROVE  m = 1 /\ Watched(Last(s), tp)
<1>1. PICK p, d : Nests(s, tp, n, p, d) /\ d[Len(s)] = m
  BY DEF Depth
<1>2. Len(s) \in Nat /\ Len(s) >= 1 /\ DOMAIN s = 1..Len(s) /\ Last(s) = s[Len(s)]
  BY DEF Last
<1>3. p \in DOMAIN s /\ Len(s) \in DOMAIN s /\ s[p].id = s[Len(s)].id
  BY <1>1, <1>2 DEF Nests
<1>4. p = Len(s)
  BY <1>3
<1> QED BY <1>1, <1>2, <1>4 DEF Nests

------------------------------------------------------------------------------
(* Records that follow the frames, event by event *)

LEMMA FollowCall ==
  ASSUME NEW s \in Seq(Frame), NEW fr \in Frame, NEW r, IsTrace(r), NEW tp, NEW u, NEW v,
         FollowsIn(r, s, FALSE, u, tp)
  PROVE  FollowsIn(r, Append(s, fr), Watched(fr, tp), v, tp)
<1>1. Depth(s, tp, r.first.call, Len(r.stack))
  BY DEF FollowsIn
<1>2. Len(r.stack) >= 1 /\ Len(r.stack) \in Nat
  BY <1>1, DepthIs
<1>3. r.stack # <<>>
  BY <1>2
<1>4. Depth(Append(s, fr), tp, r.first.call, IF Watched(fr, tp) THEN Len(r.stack) + 1 ELSE Len(r.stack))
  BY <1>1, DepthGrows
<1> QED BY <1>3, <1>4 DEF FollowsIn

LEMMA FollowOtherReturn ==
  ASSUME NEW s \in Seq(Frame), s # <<>>, NEW r, NEW tp, NEW u, NEW v,
         ~Watched(Last(s), tp), FollowsIn(r, s, FALSE, u, tp)
  PROVE  FollowsIn(r, Front(s), FALSE, v, tp)
<1>1. Depth(s, tp, r.first.call, Len(r.stack))
  BY DEF FollowsIn
<1>2. Depth(Front(s), tp, r.first.call, Len(r.stack))
  BY <1>1, DepthShrinks
<1> QED BY <1>2 DEF FollowsIn

LEMMA FollowPushInner ==
  ASSUME NEW s \in Seq(Frame), NEW r, IsTrace(r), NEW q, NEW tp, NEW u, NEW v,
         FollowsIn(r, s, TRUE, u, tp), r.stack # <<>>,
         q.stack = Append(r.stack, Null), q.traces = r.traces, q.first.call = r.first.call
  PROVE  FollowsIn(q, s, FALSE, v, tp)
<1>1. PICK l, st : l = Len(r.stack) /\ st = r.stack
  OBVIOUS
<1>2. st \in Seq(Seq(Nat)) /\ Null \in Seq(Nat) /\ l \in Nat /\ l >= 1 /\ DOMAIN st = 1..l
  BY <1>1, EmptySeq DEF IsTrace, Null
<1>3. /\ Len(q.stack) = l + 1 /\ DOMAIN q.stack = 1..(l + 1) /\ q.stack[l + 1] = Null
      /\ \A i \in 1..l : q.stack[i] = st[i]
  BY <1>1, <1>2, AppendProperties, LenProperties
<1>4. \A i \in 1..(l + 1) : q.stack[i] = IF i = 1 THEN Append(tp.data, q.first.call) ELSE Null
  <2>1. \A i \in 1..(l + 1) : i = l + 1 \/ i \in 1..l
    BY <1>2
  <2>2. \A i \in 1..l : st[i] = IF i = 1 THEN Append(tp.data, r.first.call) ELSE Null
    BY <1>1, <1>2 DEF FollowsIn
  <2>3. l + 1 # 1
    BY <1>2
  <2> QED BY <1>3, <2>1, <2>2, <2>3
<1>5. Depth(s, tp, q.first.call, Len(q.stack))
  BY <1>1, <1>3 DEF FollowsIn
<1> QED BY <1>3, <1>4, <1>5 DEF FollowsIn

LEMMA FollowPushFirst ==
  ASSUME NEW s \in Seq(Frame), s # <<>>, NEW q, NEW tp, NEW v, Watched(Last(s), tp),
         q.stack = <<Append(tp.data, Last(s).id)>>, q.traces = <<>>, q.first.call = Last(s).id
  PROVE  FollowsIn(q, s, FALSE, v, tp)
<1>1. Depth(s, tp, q.first.call, 1)
  BY DepthStarts
<1>2. Len(q.stack) = 1 /\ DOMAIN q.stack = {1} /\ q.stack[1] = Append(tp.data, q.first.call)
  OBVIOUS
<1> QED BY <1>1, <1>2 DEF FollowsIn

LEMMA FollowWaits ==
  ASSUME NEW s \in Seq(Frame), s # <<>>, NEW q, NEW tp, NEW v, Watched(Last(s), tp),
         q.stack = <<>>, q.traces = <<>>, q.first.call = Last(s).id, v = Append(tp.data, Last(s).id)
  PROVE  FollowsIn(q, s, TRUE, v, tp)
<1>1. Depth(s, tp, q.first.call, 1)
  BY DepthStarts
<1>2. Len(q.stack) + 1 = 1 /\ DOMAIN q.stack = {}
  OBVIOUS
<1> QED BY <1>1, <1>2 DEF FollowsIn

LEMMA FollowEndInner ==
  ASSUME NEW s \in Seq(Frame), s # <<>>, NEW r, IsTrace(r), NEW q, NEW tp, NEW u, NEW v,
         FollowsIn(r, s, FALSE, u, tp), Watched(Last(s), tp), Last(s).id # r.first.call,
         q.stack = Front(r.stack), q.traces = r.traces, q.first.call = r.first.call
  PROVE  r.stack # <<>> /\ Last(r.stack) = Null /\ FollowsIn(q, Front(s), FALSE, v, tp)
<1>1. PICK l, st : l = Len(r.stack) /\ st = r.stack
  OBVIOUS
<1>2. Depth(s, tp, r.first.call, l)
  BY <1>1 DEF FollowsIn
<1>3. l >= 2 /\ Depth(Front(s), tp, r.first.call, l - 1)
  BY <1>2, DepthShrinks
<1>4. st \in Seq(Seq(Nat)) /\ l \in Nat /\ DOMAIN st = 1..l
  BY <1>1 DEF IsTrace
<1>5. /\ Len(q.stack) = l - 1 /\ DOMAIN q.stack = 1..(l - 1)
      /\ \A i \in 1..(l - 1) : q.stack[i] = st[i]
  <2>1. Front(st) = [i \in 1..(l - 1) |-> st[i]]
    BY <1>1, <1>4 DEF Front
  <2>2. l - 1 \in Nat
    BY <1>3, <1>4
  <2> QED BY <1>1, <2>1, <2>2
<1>6. \A i \in 1..l : st[i] = IF i = 1 THEN Append(tp.data, r.first.call) ELSE Null
  BY <1>1, <1>4 DEF FollowsIn
<1>7. Last(st) = Null /\ st # <<>>
  <2>1. Last(st) = st[l]
    BY <1>1 DEF Last
  <2>2. l \in 1..l /\ l # 1
    BY <1>3, <1>4
  <2>3. st # <<>>
    BY <1>1, <1>3
  <2> QED BY <1>6, <2>1, <2>2, <2>3
<1>8. \A i \in 1..(l - 1) : i \in 1..l
  BY <1>4
<1> QED BY <1>1, <1>3, <1>5, <1>6, <1>7, <1>8 DEF FollowsIn

LEMMA FollowEndFirst ==
  ASSUME NEW s \in Seq(Frame), s # <<>>, NEW r, IsTrace(r), NEW tp, NEW u,
         FollowsIn(r, s, FALSE, u, tp), Last(s).id = r.first.call,
         \A i, j \in DOMAIN s : s[i].id = s[j].id => i = j
  PROVE  /\ Watched(Last(s), tp) /\ r.stack # <<>> /\ r.traces = <<>>
         /\ Last(r.stack) = Append(tp.data, r.first.call)
<1>1. Depth(s, tp, r.first.call, Len(r.stack))
  BY DEF FollowsIn
<1>2. Len(r.stack) = 1 /\ Watched(Last(s), tp)
  BY <1>1, DepthEnds
<1>3. PICK st : st = r.stack /\ st \in Seq(Seq(Nat))
  BY DEF IsTrace
<1>4. DOMAIN st = 1..1 /\ st # <<>> /\ Last(st) = st[1]
  BY <1>2, <1>3 DEF Last
<1> QED BY <1>2, <1>3, <1>4 DEF FollowsIn

(* Only the stack, the records and the first call matter. *)
LEMMA FollowSame ==
  ASSUME NEW s, NEW p, NEW r, NEW q, NEW tp, NEW u, NEW v, FollowsIn(r, s, p, u, tp),
         q.stack = r.stack, q.traces = r.traces, q.first.call = r.first.call,
         p /\ r.stack = <<>> => v = u
  PROVE  FollowsIn(q, s, p, v, tp)
BY DEF FollowsIn

------------------------------------------------------------------------------
(* The invariant *)

(* What holds of every record, whoever reported to it.                       *)
RecordOK(r) ==
  /\ r.first = [call |-> r.first.call, block |-> r.first.block, over |-> r.first.over]
  /\ r.first.call \in Nat /\ r.first.over \in BOOLEAN
  /\ IsFiniteSet(r.by)
  /\ r.first.call = 0 => r.stack = <<>> /\ r.traces = <<>> /\ ~r.first.over
  /\ r.by = {} => r.first.call = 0
  /\ ~r.has => r.by = {}

IsRecorded(t) ==
  LET c == Append(t, heap[t].first.call)
  IN  heap[t].traces = <<c>> /\ heap[c].ret = heap[t].first.call

(* The handler of f has still to work on tp. *)
Pending(f, tp) == Busy(f) /\ tp \in handler[f].todo
Following(f, tp) == FollowsIn(heap[tp.data], frames[f], Pending(f, tp), handler[f].new, tp)

(* Only fiber f reported to t: until its first call is over the stack follows*)
(* the frames of f, from then on that call is recorded.                      *)
OfOneFiber(t, f) ==
  heap[t].by = {f} /\ heap[t].first.call # 0 =>
    IF heap[t].first.over THEN IsRecorded(t)
                          ELSE \A tp \in tps : tp.data = t => Following(f, tp)

TraceOK(t) == RecordOK(heap[t]) /\ \A f \in Fibers : OfOneFiber(t, f)

(* The handler of f stopped before the push: nobody else reported to r, or   *)
(* nothing but the beginning of the first call was.                          *)
Untouched(r, f) == r.first.call = Id(f) /\ ~r.first.over /\ r.stack = <<>> /\ r.traces = <<>>

WaitingOK(f) ==
  Busy(f) /\ handler[f].new # None =>
    \A t \in DOMAIN heap : handler[f].new = Append(t, Id(f)) =>
      f \in heap[t].by /\ heap[t].first.call # 0 /\ (heap[t].by = {f} => Untouched(heap[t], f))

TodoOK(f) ==
  Busy(f) => \A tp \in handler[f].todo :
    Watched(Last(frames[f]), tp) /\ IsName(tp.data) /\ (Len(tp.data) # 1 => tp \in tps)

FramesOK(f) ==
  /\ \A i \in DOMAIN frames[f] : frames[f][i].id \in 1..calls
  /\ \A i, j \in DOMAIN frames[f] : frames[f][i].id = frames[f][j].id => i = j

TracesOfOne == \A t \in DOMAIN heap : TraceOK(t)
FiberOK(f) == FramesOK(f) /\ TodoOK(f) /\ WaitingOK(f)
FibersOK == \A f \in Fibers : FiberOK(f)
FirstInv == TracesOfOne /\ FibersOK

LEMMA FirstIsRecorded ==
  ASSUME Memory, FirstInv
  PROVE  FirstCallIsRecorded
<1> SUFFICES ASSUME NEW t \in DOMAIN heap, Cardinality(heap[t].by) = 1, heap[t].first.over
             PROVE  IsRecorded(t)
  BY DEF FirstCallIsRecorded, IsRecorded
<1>1. TraceOK(t) /\ heap[t].by \subseteq Fibers
  BY DEF FirstInv, TracesOfOne, Memory, HeapOK, IsTrace
<1>2. PICK b : b = heap[t].by /\ IsFiniteSet(b) /\ Cardinality(b) = 1
  BY <1>1 DEF TraceOK, RecordOK
<1>3. \E f \in b : b = {f}
  BY <1>2, FS_Singleton
<1>4. PICK f \in Fibers : heap[t].by = {f}
  BY <1>1, <1>2, <1>3
<1>5. heap[t].first.call # 0
  BY <1>1 DEF TraceOK, RecordOK
<1> QED BY <1>1, <1>4, <1>5 DEF TraceOK, OfOneFiber

LEMMA FirstInit == Init => FirstInv
<1> SUFFICES ASSUME Init PROVE FirstInv
  OBVIOUS
<1> USE BlockTracerAssumption DEF Init
<1>1. DOMAIN heap = {}
  OBVIOUS
<1>2. \A f \in Fibers : ~Busy(f) /\ DOMAIN frames[f] = {}
  BY DEF Busy
<1> QED BY <1>1, <1>2 DEF FirstInv, TracesOfOne, FibersOK, FiberOK, FramesOK, TodoOK, WaitingOK

------------------------------------------------------------------------------
(* Traces that stay as they are *)

SameRecord(q, r) ==
  (r.has => q.has) /\ q.stack = r.stack /\ q.traces = r.traces /\ q.first = r.first /\ q.by = r.by

LEMMA RecordStays ==
  ASSUME NEW r, NEW q, SameRecord(q, r), RecordOK(r)
  PROVE  RecordOK(q)
BY DEF SameRecord, RecordOK

(* A trace stays recorded: it keeps its call, and that call its value. *)
LEMMA RecordedStays ==
  ASSUME Memory, LinksOK', NEW t \in DOMAIN heap, t \in DOMAIN heap', IsRecorded(t),
         heap'[t].traces = heap[t].traces, heap'[t].first.call = heap[t].first.call,
         \A x \in DOMAIN heap \intersect DOMAIN heap' : heap'[x].ret = heap[x].ret
  PROVE  IsRecorded(t)'
<1>1. PICK n, c : n = heap[t].first.call /\ c = Append(t, n)
  OBVIOUS
<1>2. heap[t].traces = <<c>> /\ heap[c].ret = n
  BY <1>1 DEF IsRecorded
<1>3. c # Null
  <2>1. t \in Seq(Nat)
    BY DEF Memory, HeapOK, IsName
  <2>2. Len(c) = Len(t) + 1 /\ Len(t) \in Nat
    BY <1>1, <2>1
  <2>3. Len(<<>>) = 0
    OBVIOUS
  <2> QED BY <2>2, <2>3 DEF Null
<1>4. c \in Links(t) /\ c \in Links(t)'
  BY <1>2, <1>3 DEF Links, Range
<1>5. c \in DOMAIN heap /\ c \in DOMAIN heap'
  BY <1>4 DEF Memory, LinksOK
<1> QED BY <1>1, <1>2, <1>5 DEF IsRecorded

LEMMA FollowingStays ==
  ASSUME NEW f, NEW tp, SameRecord(heap'[tp.data], heap[tp.data]),
         frames'[f] = frames[f], handler'[f] = handler[f], Following(f, tp)
  PROVE  Following(f, tp)'
<1>1. PICK s, p, u : s = frames[f] /\ p = Pending(f, tp) /\ u = handler[f].new
  OBVIOUS
<1>2. s = frames'[f] /\ p = Pending(f, tp)' /\ u = handler'[f].new
  BY <1>1 DEF Pending, Busy
<1>3. PICK r, q : r = heap[tp.data] /\ q = heap'[tp.data]
  OBVIOUS
<1>4. FollowsIn(r, s, p, u, tp)
  BY <1>1, <1>3 DEF Following
<1>5. FollowsIn(q, s, p, u, tp)
  BY <1>3, <1>4, FollowSame DEF SameRecord
<1> QED BY <1>2, <1>3, <1>5 DEF Following

(* A trace no event of this step was reported to: of a fiber that goes on    *)
(* with it, the stack has to follow the frames.                              *)
LEMMA TraceStays ==
  ASSUME Memory, LinksOK', NEW t \in DOMAIN heap, t \in DOMAIN heap', TraceOK(t),
         SameRecord(heap'[t], heap[t]),
         \A x \in DOMAIN heap \intersect DOMAIN heap' : heap'[x].ret = heap[x].ret,
         \A tp \in tps' : tp.data = t => tp \in tps,
         \A f \in Fibers, tp \in tps : tp.data = t /\ tp \in tps' /\ f \in heap[t].by /\ Following(f, tp)
           => Following(f, tp)'
  PROVE  TraceOK(t)'
<1>1. RecordOK(heap'[t])
  BY RecordStays DEF TraceOK
<1>2. ASSUME NEW f \in Fibers, heap'[t].by = {f}, heap'[t].first.call # 0
      PROVE  IF heap'[t].first.over THEN IsRecorded(t)'
                                    ELSE \A tp \in tps' : tp.data = t => Following(f, tp)'
  <2>1. /\ heap[t].by = {f} /\ heap[t].first = heap'[t].first /\ heap'[t].traces = heap[t].traces
        /\ heap'[t].first.call = heap[t].first.call
    BY <1>2 DEF SameRecord
  <2>2. IF heap[t].first.over THEN IsRecorded(t)
                              ELSE \A tp \in tps : tp.data = t => Following(f, tp)
    BY <1>2, <2>1 DEF TraceOK, OfOneFiber
  <2>3. CASE heap[t].first.over
    <3>1. IsRecorded(t)'
      BY <2>1, <2>2, <2>3, RecordedStays
    <3> QED BY <2>1, <2>3, <3>1
  <2>4. CASE ~heap[t].first.over
    BY <2>1, <2>2, <2>4
  <2> QED BY <2>3, <2>4
<1> QED BY <1>1, <1>2 DEF TraceOK, OfOneFiber

LEMMA NewRecord ==
  ASSUME NEW b, NEW v \in BOOLEAN
  PROVE  RecordOK(Trace(b, v)) /\ Trace(b, v).by = {}
BY FS_EmptySet DEF Trace, RecordOK

LEMMA NewTraceOK ==
  ASSUME NEW t, NEW b, NEW v \in BOOLEAN, heap'[t] = Trace(b, v)
  PROVE  TraceOK(t)'
BY NewRecord DEF TraceOK, OfOneFiber

------------------------------------------------------------------------------
(* Fibers that do nothing in a step *)

KeepsWaiting(q, r, g) ==
  /\ r.by \subseteq q.by
  /\ r.first.call # 0 => q.first.call = r.first.call
  /\ q.by = {g} => SameRecord(q, r)

LEMMA SameKeepsWaiting ==
  ASSUME NEW q, NEW r, NEW g, SameRecord(q, r)
  PROVE  KeepsWaiting(q, r, g)
BY DEF SameRecord, KeepsWaiting

LEMMA SameIsSame ==
  ASSUME NEW q, NEW r, q = r
  PROVE  SameRecord(q, r)
BY DEF SameRecord

(* What the handler of g waits for, or works on, is there, and other fibers  *)
(* that report to it show.                                                   *)
Undisturbed(g, t) ==
  \/ t \in DOMAIN heap /\ KeepsWaiting(heap'[t], heap[t], g)
  \/ Busy(g) => \A tp \in handler[g].todo : tp.data # t

LEMMA OtherFibers ==
  ASSUME Memory, HeapOK', NEW g \in Fibers, FiberOK(g),
         calls \in Nat, calls' \in Nat, calls <= calls',
         frames'[g] = frames[g], handler'[g] = handler[g],
         \A tp \in tps : Len(tp.data) # 1 => tp \in tps',
         \A t \in DOMAIN heap' : Undisturbed(g, t)
  PROVE  FiberOK(g)'
<1>1. Busy(g)' <=> Busy(g)
  BY DEF Busy
<1>2. Id(g)' = Id(g)
  BY DEF Id
<1>3. FramesOK(g)'
  <2>1. PICK s : s = frames[g] /\ s = frames'[g]
    OBVIOUS
  <2>2. \A i \in DOMAIN s : s[i].id \in 1..calls'
    BY <2>1 DEF FiberOK, FramesOK
  <2> QED BY <2>1, <2>2 DEF FiberOK, FramesOK
<1>4. TodoOK(g)'
  BY <1>1, NamesStay DEF FiberOK, TodoOK, Watched
<1>5. ASSUME Busy(g), handler[g].new # None, NEW t \in DOMAIN heap', handler[g].new = Append(t, Id(g))
      PROVE  /\ g \in heap'[t].by /\ heap'[t].first.call # 0
             /\ heap'[t].by = {g} => Untouched(heap[t], g)'
  <2>1. PICK tp \in handler[g].todo : handler[g].new = Called(g, tp)
    BY <1>5 DEF Memory, HandlersOK, HandlerOK
  <2>2. /\ tp.data \in Seq(Nat) /\ Id(g) \in Nat /\ Front(Called(g, tp)) = tp.data
        /\ tp.data # <<>>
    BY <1>5, CalledIsName
  <2>3. t \in Seq(Nat)
    BY DEF HeapOK, IsName
  <2>4. t = tp.data
    <3>1. Append(tp.data, Id(g)) = Append(t, Id(g))
      BY <1>5, <2>1 DEF Called
    <3> QED BY <2>2, <2>3, <3>1, NamesDiffer
  <2>5. t \in DOMAIN heap /\ KeepsWaiting(heap'[t], heap[t], g)
    BY <1>5, <2>4 DEF Undisturbed
  <2>6. g \in heap[t].by /\ heap[t].first.call # 0 /\ (heap[t].by = {g} => Untouched(heap[t], g))
    BY <1>5, <2>5 DEF FiberOK, WaitingOK
  <2>7. ASSUME heap'[t].by = {g} PROVE Untouched(heap[t], g)'
    <3>1. SameRecord(heap'[t], heap[t])
      BY <2>5, <2>7 DEF KeepsWaiting
    <3>2. Untouched(heap[t], g)
      BY <2>6, <2>7, <3>1 DEF SameRecord
    <3> QED BY <1>2, <3>1, <3>2 DEF Untouched, SameRecord
  <2> QED BY <2>5, <2>6, <2>7 DEF KeepsWaiting
<1>6. WaitingOK(g)'
  BY <1>1, <1>2, <1>5 DEF WaitingOK
<1> QED BY <1>3, <1>4, <1>6 DEF FiberOK

LEMMA FramesShrink ==
  ASSUME NEW f \in Fibers, FramesOK(f), frames[f] \in Seq(Frame), frames[f] # <<>>,
         frames'[f] = Front(frames[f]), calls' = calls
  PROVE  FramesOK(f)'
<1>1. PICK s, t : s = frames[f] /\ t = frames'[f]
  OBVIOUS
<1>2. DOMAIN t \subseteq DOMAIN s /\ \A i \in DOMAIN t : t[i] = s[i]
  BY <1>1 DEF Front
<1>3. \A i \in DOMAIN t : t[i].id \in 1..calls'
  BY <1>1, <1>2 DEF FramesOK
<1>4. \A i, j \in DOMAIN t : t[i].id = t[j].id => i = j
  BY <1>1, <1>2 DEF FramesOK
<1> QED BY <1>1, <1>3, <1>4 DEF FramesOK

LEMMA FramesGrow ==
  ASSUME NEW f \in Fibers, FramesOK(f), frames[f] \in Seq(Frame), NEW fr \in Frame, fr.id = calls + 1,
         frames'[f] = Append(frames[f], fr), calls' = calls + 1, calls \in Nat
  PROVE  FramesOK(f)' /\ Last(frames'[f]) = fr /\ frames'[f] # <<>> /\ Id(f)' = calls + 1
<1>1. PICK s, t, n : s = frames[f] /\ t = frames'[f] /\ n = Len(s)
  OBVIOUS
<1>2. /\ DOMAIN s = 1..n /\ DOMAIN t = 1..(n + 1) /\ t[n + 1] = fr /\ n \in Nat
      /\ \A i \in 1..n : t[i] = s[i]
      /\ Len(t) = n + 1 /\ t # <<>>
  BY <1>1, AppendProperties, LenProperties
<1>3. \A i \in 1..(n + 1) : i \in 1..n \/ i = n + 1
  BY <1>2
<1>4. \A i \in 1..n : s[i].id \in 1..calls
  BY <1>1, <1>2 DEF FramesOK
<1>5. \A i \in 1..(n + 1) : t[i].id \in 1..calls'
  BY <1>2, <1>3, <1>4
<1>6. \A i, j \in 1..(n + 1) : t[i].id = t[j].id => i = j
  <2>1. \A i \in 1..n : t[i].id # calls + 1
    BY <1>2, <1>4
  <2>2. \A i, j \in 1..n : s[i].id = s[j].id => i = j
    BY <1>1, <1>2 DEF FramesOK
  <2> QED BY <1>2, <1>3, <2>1, <2>2
<1>7. Last(t) = fr
  BY <1>2 DEF Last
<1> QED BY <1>1, <1>2, <1>5, <1>6, <1>7 DEF FramesOK, Id

LEMMA IdleIsOK ==
  ASSUME NEW f \in Fibers, FramesOK(f)', handler'[f] = None
  PROVE  FiberOK(f)'
BY DEF FiberOK, TodoOK, WaitingOK, Busy

LEMMA Counts ==
  ASSUME Inv
  PROVE  calls \in Nat /\ frames \in [Fibers -> Seq(Frame)]
BY BlockTracerAssumption DEF Inv, ProgramOK

(* Traces of methods are numbered by the calls so far, those of block calls  *)
(* have no trace point before they are made.                                 *)
LEMMA NewNotAwaited ==
  ASSUME NEW g \in Fibers, TodoOK(g), NEW new, new \notin Used,
         Len(new) # 1 \/ (calls \in Nat /\ Call(new) = calls + 1)
  PROVE  Undisturbed(g, new)
<1> SUFFICES ASSUME Busy(g), NEW tp \in handler[g].todo, tp.data = new PROVE FALSE
  BY DEF Undisturbed
<1>1. IsName(tp.data) /\ (Len(tp.data) # 1 => tp \in tps)
  BY DEF TodoOK
<1>2. Len(new) = 1
  BY <1>1 DEF Used
<1> QED BY <1>1, <1>2 DEF IsName

(* start, stop, flush, the worker and the end of a method's call event *)
LEMMA QuietKeeps ==
  ASSUME Inv, Memory, FirstInv, Memory', DOMAIN heap' \subseteq DOMAIN heap,
         \A t \in DOMAIN heap' : SameRecord(heap'[t], heap[t]) /\ heap'[t].ret = heap[t].ret,
         tps' \subseteq tps, \A tp \in tps : Len(tp.data) # 1 => tp \in tps',
         UNCHANGED <<frames, handler, calls>>
  PROVE  FirstInv'
<1>1. ASSUME NEW g \in Fibers PROVE FiberOK(g)'
  <2>1. FiberOK(g)
    BY DEF FirstInv, FibersOK
  <2>2. \A t \in DOMAIN heap' : Undisturbed(g, t)
    BY SameKeepsWaiting DEF Undisturbed
  <2>3. calls \in Nat /\ calls' \in Nat /\ calls <= calls' /\ HeapOK'
    BY Counts DEF Memory
  <2>4. frames'[g] = frames[g] /\ handler'[g] = handler[g]
    OBVIOUS
  <2> QED BY <2>1, <2>2, <2>3, <2>4, OtherFibers
<1>2. ASSUME NEW t \in DOMAIN heap' PROVE TraceOK(t)'
  <2>1. t \in DOMAIN heap /\ TraceOK(t) /\ SameRecord(heap'[t], heap[t])
    BY <1>2 DEF FirstInv, TracesOfOne
  <2>2. \A f \in Fibers, tp \in tps : tp.data = t /\ Following(f, tp) => Following(f, tp)'
    BY <2>1, FollowingStays
  <2>3. LinksOK'
    BY DEF Memory
  <2> QED BY <2>1, <2>2, <2>3, TraceStays
<1> QED BY <1>1, <1>2 DEF FirstInv, TracesOfOne, FibersOK

------------------------------------------------------------------------------
(* Methods *)

LEMMA FollowingCalls ==
  ASSUME Inv, NEW f \in Fibers, NEW tp, NEW fr \in Frame, handler[f] = None,
         IsTrace(heap[tp.data]), heap'[tp.data] = heap[tp.data],
         frames'[f] = Append(frames[f], fr), Pending(f, tp)' <=> Watched(fr, tp), Following(f, tp)
  PROVE  Following(f, tp)'
<1>1. PICK s, r, u, v, w : /\ s = frames[f] /\ r = heap[tp.data] /\ u = handler[f].new
                           /\ v = handler'[f].new /\ w = Watched(fr, tp)
  OBVIOUS
<1>2. Pending(f, tp) = FALSE
  BY DEF Pending, Busy
<1>3. s \in Seq(Frame) /\ IsTrace(r)
  BY <1>1, Counts
<1>4. FollowsIn(r, s, FALSE, u, tp)
  BY <1>1, <1>2 DEF Following
<1>5. FollowsIn(r, Append(s, fr), w, v, tp)
  BY <1>1, <1>3, <1>4, FollowCall
<1>6. Pending(f, tp)' = w
  BY <1>1 DEF Pending, Watched
<1> QED BY <1>1, <1>5, <1>6 DEF Following

LEMMA FollowingReturns ==
  ASSUME Inv, NEW f \in Fibers, NEW tp, handler[f] = None, handler'[f] = None,
         frames[f] # <<>>, frames'[f] = Front(frames[f]), ~Watched(Last(frames[f]), tp),
         SameRecord(heap'[tp.data], heap[tp.data]), Following(f, tp)
  PROVE  Following(f, tp)'
<1>1. PICK s, r, q, u, v : /\ s = frames[f] /\ r = heap[tp.data] /\ u = handler[f].new
                           /\ q = heap'[tp.data] /\ v = handler'[f].new
  OBVIOUS
<1>2. Pending(f, tp) = FALSE /\ Pending(f, tp)' = FALSE
  BY DEF Pending, Busy
<1>3. s \in Seq(Frame)
  BY <1>1, Counts
<1>4. FollowsIn(r, s, FALSE, u, tp)
  BY <1>1, <1>2 DEF Following
<1>5. FollowsIn(r, Front(s), FALSE, v, tp)
  BY <1>1, <1>3, <1>4, FollowOtherReturn
<1>6. FollowsIn(q, Front(s), FALSE, v, tp)
  <2>1. q.stack = r.stack /\ q.traces = r.traces /\ q.first.call = r.first.call
    BY <1>1 DEF SameRecord
  <2>2. FollowsIn(r, Front(s), FALSE, v, tp) /\ (FALSE /\ r.stack = <<>> => v = v)
    BY <1>5
  <2> QED BY ONLY <2>1, <2>2, FollowSame
<1> QED BY <1>1, <1>2, <1>6 DEF Following

(* No trace point fires for a method. *)
LEMMA MethodsUnwatched ==
  ASSUME Memory, NEW tp \in tps, NEW fr, fr.block = NoBlock
  PROVE  ~Watched(fr, tp)
BY BlockTracerAssumption DEF Memory, TpsTyped, TracePoint, Watched

(* The frames of f change, the records do not: tells the fibers apart. *)
LEMMA OneFiberMoves ==
  ASSUME Memory, LinksOK', FirstInv, NEW f \in Fibers, NEW t \in DOMAIN heap, t \in DOMAIN heap',
         \A x \in DOMAIN heap \intersect DOMAIN heap' : heap'[x] = heap[x],
         \A g \in Fibers \ {f} : frames'[g] = frames[g] /\ handler'[g] = handler[g],
         \A tp \in tps' : tp.data = t => tp \in tps,
         \A tp \in tps : tp.data = t /\ Following(f, tp) => Following(f, tp)'
  PROVE  TraceOK(t)'
<1>1. TraceOK(t) /\ SameRecord(heap'[t], heap[t])
  BY SameIsSame DEF FirstInv, TracesOfOne
<1>2. \A g \in Fibers, tp \in tps : tp.data = t /\ Following(g, tp) => Following(g, tp)'
  <2> SUFFICES ASSUME NEW g \in Fibers, NEW tp \in tps, tp.data = t, Following(g, tp)
               PROVE  Following(g, tp)'
    OBVIOUS
  <2>1. CASE g = f
    BY <2>1
  <2>2. CASE g # f
    BY <1>1, <2>2, FollowingStays
  <2> QED BY <2>1, <2>2
<1> QED BY <1>1, <1>2, TraceStays

LEMMA FirstMethodReturn ==
  ASSUME Inv, Memory, FirstInv, Memory', NEW f \in Fibers, MethodReturn(f)
  PROVE  FirstInv'
<1>1. /\ handler[f] = None /\ frames[f] # <<>> /\ Last(frames[f]).block = NoBlock
      /\ frames' = [frames EXCEPT ![f] = Front(@)] /\ tps' \subseteq tps
      /\ UNCHANGED <<heap, handler, calls>>
  BY DEF MethodReturn, Running
<1>2. /\ frames'[f] = Front(frames[f]) /\ frames[f] \in Seq(Frame) /\ calls \in Nat
      /\ \A g \in Fibers \ {f} : frames'[g] = frames[g]
  BY <1>1, Counts
<1>3. \A tp \in tps : Len(tp.data) # 1 => tp \in tps'
  <2>1. \A n : Len(<<n>>) = 1
    OBVIOUS
  <2> QED BY <2>1 DEF MethodReturn, Of
<1>4. ASSUME NEW g \in Fibers PROVE FiberOK(g)'
  <2>1. CASE g = f
    <3>1. FramesOK(f)'
      BY <1>1, <1>2, FramesShrink DEF FirstInv, FibersOK, FiberOK
    <3> QED BY <1>1, <2>1, <3>1, IdleIsOK
  <2>2. CASE g # f
    <3>1. FiberOK(g) /\ HeapOK'
      BY DEF FirstInv, FibersOK, Memory
    <3>2. \A t \in DOMAIN heap' : Undisturbed(g, t)
      BY <1>1, SameKeepsWaiting, SameIsSame DEF Undisturbed
    <3>3. /\ calls' \in Nat /\ calls <= calls'
          /\ frames'[g] = frames[g] /\ handler'[g] = handler[g]
      BY <1>1, <1>2, <2>2
    <3> QED BY <1>2, <1>3, <3>1, <3>2, <3>3, OtherFibers
  <2> QED BY <2>1, <2>2
<1>5. ASSUME NEW t \in DOMAIN heap' PROVE TraceOK(t)'
  <2>1. \A tp \in tps : tp.data = t /\ Following(f, tp) => Following(f, tp)'
    <3> SUFFICES ASSUME NEW tp \in tps, tp.data = t, Following(f, tp) PROVE Following(f, tp)'
      OBVIOUS
    <3>1. ~Watched(Last(frames[f]), tp)
      BY <1>1, MethodsUnwatched
    <3>2. SameRecord(heap'[tp.data], heap[tp.data])
      BY <1>1, SameIsSame
    <3>3. handler'[f] = None
      BY <1>1
    <3> QED BY <1>1, <1>2, <3>1, <3>2, <3>3, FollowingReturns
  <2>2. LinksOK' /\ t \in DOMAIN heap
    BY <1>1 DEF Memory
  <2> QED BY <1>1, <1>2, <2>1, <2>2, OneFiberMoves
<1> QED BY <1>4, <1>5 DEF FirstInv, TracesOfOne, FibersOK

(* The rest of a method's call event makes its trace ready for reports. *)
LEMMA FirstFinishMethodCall ==
  ASSUME Inv, Memory, FirstInv, Memory', NEW f \in Fibers, FinishMethodCall(f)
  PROVE  FirstInv'
<1>1. UNCHANGED <<tps, frames, handler, calls>>
  BY DEF FinishMethodCall, program
<1>2. PICK x : heap' = heap \/ heap' = [heap EXCEPT ![x].has = TRUE]
  BY DEF FinishMethodCall
<1>3. DOMAIN heap' \subseteq DOMAIN heap
  BY <1>2
<1>4. ASSUME NEW t \in DOMAIN heap' PROVE SameRecord(heap'[t], heap[t]) /\ heap'[t].ret = heap[t].ret
  <2>1. IsTrace(heap[t])
    BY <1>3, <1>4 DEF Memory, HeapOK
  <2>2. PICK r : r = [heap[t] EXCEPT !.has = TRUE]
    OBVIOUS
  <2>3. SameRecord(r, heap[t]) /\ r.ret = heap[t].ret
    BY <2>1, <2>2 DEF IsTrace, SameRecord
  <2>4. heap'[t] = heap[t] \/ heap'[t] = r
    BY <1>2, <1>3, <1>4, <2>2
  <2> QED BY <2>3, <2>4, SameIsSame
<1> QED BY <1>1, <1>3, <1>4, QuietKeeps

LEMMA FirstMethodCall ==
  ASSUME Inv, Memory, FirstInv, Memory', NEW f \in Fibers, NEW b \in Blocks, MethodCall(f, b)
  PROVE  FirstInv'
<1>1. PICK fr, new : fr = [id |-> calls + 1, block |-> NoBlock] /\ new = <<calls + 1>>
  OBVIOUS
<1>2. /\ handler[f] = None /\ calls' = calls + 1 /\ UNCHANGED handler
      /\ frames' = [frames EXCEPT ![f] = Append(@, fr)]
  BY <1>1 DEF MethodCall, Running
<1>3. /\ calls \in Nat /\ calls' \in Nat /\ calls <= calls' /\ fr \in Frame /\ fr.id = calls + 1
      /\ fr.block = NoBlock
  BY <1>1, <1>2, Counts DEF Frame
<1>4. /\ frames'[f] = Append(frames[f], fr) /\ frames[f] \in Seq(Frame)
      /\ \A g \in Fibers \ {f} : frames'[g] = frames[g] /\ handler'[g] = handler[g]
  BY <1>2, Counts
<1>5. new \in Seq(Nat) /\ new # <<>> /\ Call(new) = calls + 1 /\ new \notin Used
  <2>1. new \in Seq(Nat) /\ new # <<>> /\ Call(new) = calls + 1
    BY <1>1, <1>3 DEF Call, Last
  <2>2. \A t \in Used : Call(t) \in 1..calls
    BY DEF Memory, Used, HeapOK, TpsTyped, IsName
  <2> QED BY <1>3, <2>1, <2>2
<1>6. \/ UNCHANGED <<heap, tps>>
      \/ /\ heap' = With(heap, new, Trace(b, FALSE))
         /\ tps' = tps \union {[data |-> new, target |-> b]}
  BY <1>1 DEF MethodCall
<1>7. /\ \A t \in DOMAIN heap : t \in DOMAIN heap' /\ heap'[t] = heap[t]
      /\ \A t \in DOMAIN heap' : t \in DOMAIN heap \/ (t = new /\ heap'[t] = Trace(b, FALSE))
      /\ tps \subseteq tps'
      /\ \A tp \in tps' : tp \in tps \/ tp.data = new
  <2>1. CASE UNCHANGED <<heap, tps>>
    BY <2>1
  <2>2. CASE /\ heap' = With(heap, new, Trace(b, FALSE))
             /\ tps' = tps \union {[data |-> new, target |-> b]}
    <3>1. PICK x : x = [data |-> new, target |-> b]
      OBVIOUS
    <3>2. tps' = tps \union {x} /\ x.data = new
      BY <2>2, <3>1
    <3> QED BY <1>5, <2>2, <3>1, <3>2 DEF With, Used
  <2> QED BY <1>6, <2>1, <2>2
<1>8. ASSUME NEW g \in Fibers PROVE FiberOK(g)'
  <2>1. FiberOK(g) /\ HeapOK'
    BY DEF FirstInv, FibersOK, Memory
  <2>2. CASE g = f
    <3>1. FramesOK(f)'
      BY <1>2, <1>3, <1>4, <2>1, <2>2, FramesGrow DEF FiberOK
    <3> QED BY <1>2, <2>2, <3>1, IdleIsOK
  <2>3. CASE g # f
    <3>1. \A t \in DOMAIN heap' : Undisturbed(g, t)
      <4>1. \A t \in DOMAIN heap : Undisturbed(g, t)
        BY <1>7, SameKeepsWaiting, SameIsSame DEF Undisturbed
      <4>2. Undisturbed(g, new)
        BY <1>3, <1>5, <2>1, NewNotAwaited DEF FiberOK
      <4> QED BY <1>7, <4>1, <4>2
    <3> QED BY <1>3, <1>4, <1>7, <2>1, <2>3, <3>1, OtherFibers
  <2> QED BY <2>2, <2>3
<1>9. ASSUME NEW t \in DOMAIN heap' PROVE TraceOK(t)'
  <2>1. CASE t \in DOMAIN heap
    <3>1. \A tp \in tps : tp.data = t /\ Following(f, tp) => Following(f, tp)'
      <4> SUFFICES ASSUME NEW tp \in tps, tp.data = t, Following(f, tp) PROVE Following(f, tp)'
        OBVIOUS
      <4>1. ~Watched(fr, tp) /\ ~Pending(f, tp)'
        BY <1>2, <1>3, MethodsUnwatched DEF Pending, Busy
      <4>2. IsTrace(heap[tp.data]) /\ heap'[tp.data] = heap[tp.data]
        BY <1>7, <2>1 DEF Memory, HeapOK
      <4> QED BY <1>2, <1>3, <1>4, <4>1, <4>2, FollowingCalls
    <3>2. LinksOK' /\ \A tp \in tps' : tp.data = t => tp \in tps
      BY <1>5, <1>7, <2>1 DEF Memory, Used
    <3>3. \A x \in DOMAIN heap \intersect DOMAIN heap' : heap'[x] = heap[x]
      BY <1>7
    <3> QED BY <1>4, <2>1, <3>1, <3>2, <3>3, OneFiberMoves
  <2>2. CASE t \notin DOMAIN heap
    BY <1>7, <2>2, NewTraceOK
  <2> QED BY <2>1, <2>2
<1> QED BY <1>8, <1>9 DEF FirstInv, TracesOfOne, FibersOK

(* A block call event begins: the call is pending for each trace point that  *)
(* fires, and for these it counts.                                           *)
LEMMA FirstBlockCall ==
  ASSUME Inv, Memory, FirstInv, Memory', NEW f \in Fibers, NEW c \in Blocks,
         NEW d \in Blocks \union {NoBlock}, BlockCall(f, c, d)
  PROVE  FirstInv'
<1>1. PICK fr, hd : /\ fr = [id |-> calls + 1, block |-> c]
                    /\ hd = [todo |-> Hits(c), takes |-> d, new |-> None]
  OBVIOUS
<1>2. /\ handler[f] = None /\ calls' = calls + 1 /\ UNCHANGED <<heap, tps>>
      /\ frames' = [frames EXCEPT ![f] = Append(@, fr)]
      /\ \/ Hits(c) = {} /\ handler' = handler
         \/ Hits(c) # {} /\ handler' = [handler EXCEPT ![f] = hd]
  BY <1>1 DEF BlockCall, Running
<1>3. /\ calls \in Nat /\ calls' \in Nat /\ calls <= calls' /\ fr \in Frame /\ fr.id = calls + 1
      /\ fr.block = c
  BY <1>1, <1>2, Counts DEF Frame
<1>4. handler \in [Fibers -> HandlerType \union {None}]
  BY DEF Memory, HandlersOK
<1>5. /\ frames'[f] = Append(frames[f], fr) /\ frames[f] \in Seq(Frame)
      /\ \A g \in Fibers \ {f} : frames'[g] = frames[g] /\ handler'[g] = handler[g]
      /\ \/ Hits(c) = {} /\ handler'[f] = None
         \/ Hits(c) # {} /\ handler'[f] = hd
  BY <1>2, <1>4, Counts
<1>6. hd # None /\ hd.todo = Hits(c) /\ hd.new = None
  <2>1. hd \in HandlerType
    BY <1>1 DEF HandlerType, Hits, Memory, TpsTyped
  <2> QED BY <1>1, <2>1, BlockTracerAssumption
<1>7. \A tp \in Hits(c) : tp \in tps /\ Watched(fr, tp)
  BY <1>3 DEF Hits, Watched
<1>8. ASSUME NEW g \in Fibers PROVE FiberOK(g)'
  <2>1. FiberOK(g) /\ HeapOK'
    BY DEF FirstInv, FibersOK, Memory
  <2>2. CASE g = f
    <3>1. FramesOK(f)' /\ Last(frames'[f]) = fr
      BY <1>2, <1>3, <1>5, <2>1, <2>2, FramesGrow DEF FiberOK
    <3>2. CASE handler'[f] = None
      BY <2>2, <3>1, <3>2, IdleIsOK
    <3>3. CASE handler'[f] = hd
      <4>1. TodoOK(f)'
        <5>1. \A tp \in tps : IsName(tp.data)'
          BY <1>3, NamesStay DEF Memory, TpsTyped
        <5> QED BY <1>2, <1>6, <1>7, <3>1, <3>3, <5>1 DEF TodoOK, Watched
      <4>2. WaitingOK(f)'
        BY <1>6, <3>3 DEF WaitingOK
      <4> QED BY <2>2, <3>1, <4>1, <4>2 DEF FiberOK
    <3> QED BY <1>5, <3>2, <3>3
  <2>3. CASE g # f
    <3>1. \A t \in DOMAIN heap' : Undisturbed(g, t)
      BY <1>2, SameKeepsWaiting, SameIsSame DEF Undisturbed
    <3> QED BY <1>2, <1>3, <1>5, <2>1, <2>3, <3>1, OtherFibers
  <2> QED BY <2>2, <2>3
<1>9. ASSUME NEW t \in DOMAIN heap' PROVE TraceOK(t)'
  <2>1. \A tp \in tps : tp.data = t /\ Following(f, tp) => Following(f, tp)'
    <3> SUFFICES ASSUME NEW tp \in tps, tp.data = t, Following(f, tp) PROVE Following(f, tp)'
      OBVIOUS
    <3>1. Pending(f, tp)' <=> Watched(fr, tp)
      <4>1. Watched(fr, tp) <=> tp \in Hits(c)
        BY <1>3 DEF Hits, Watched
      <4> QED BY <1>5, <1>6, <4>1 DEF Pending, Busy
    <3>2. IsTrace(heap[tp.data]) /\ heap'[tp.data] = heap[tp.data]
      BY <1>2 DEF Memory, HeapOK
    <3> QED BY <1>2, <1>3, <1>5, <3>1, <3>2, FollowingCalls
  <2>2. LinksOK' /\ t \in DOMAIN heap
    BY <1>2 DEF Memory
  <2> QED BY <1>2, <1>5, <2>1, <2>2, OneFiberMoves
<1> QED BY <1>8, <1>9 DEF FirstInv, TracesOfOne, FibersOK

------------------------------------------------------------------------------
(* Records that a block call was reported to *)

Noted(q, r, f) ==
  /\ q.has = r.has /\ q.ret = r.ret /\ q.traces = r.traces
  /\ q.by = r.by \union {f}
  /\ q.first = [call |-> IF r.first.call = 0 THEN Id(f) ELSE r.first.call,
                block |-> q.first.block, over |-> r.first.over]

Pushed(r, s) == [r EXCEPT !.stack = s]

LEMMA ReportedIsNoted ==
  ASSUME NEW r, IsTrace(r), RecordOK(r), NEW f
  PROVE  Noted(Reported(r, f), r, f) /\ Reported(r, f).stack = r.stack
<1>1. PICK a, o, i : a = r.first /\ o = r.first.over /\ i = Id(f)
  OBVIOUS
<1>2. PICK b, v : /\ b = r.by \union {f}
                  /\ v = IF a.call = 0 THEN [a EXCEPT !.call = i, !.block = Last(frames[f]).block] ELSE a
  OBVIOUS
<1>3. a = [call |-> a.call, block |-> a.block, over |-> a.over] /\ o = a.over
  BY <1>1 DEF RecordOK
<1>4. v = [call |-> IF a.call = 0 THEN i ELSE a.call, block |-> v.block, over |-> o]
  BY <1>2, <1>3
<1>5. Reported(r, f) = [r EXCEPT !.by = b, !.first = v]
  BY <1>1, <1>2 DEF Reported, Id
<1>6. PICK q : q = [r EXCEPT !.by = b, !.first = v]
  OBVIOUS
<1>7. /\ q.has = r.has /\ q.ret = r.ret /\ q.traces = r.traces /\ q.stack = r.stack
      /\ q.by = b /\ q.first = v
  BY <1>6 DEF IsTrace
<1>8. Noted(q, r, f)
  BY <1>1, <1>2, <1>4, <1>7 DEF Noted
<1> QED BY <1>5, <1>6, <1>7, <1>8

LEMMA PushedIsNoted ==
  ASSUME NEW r, IsTrace(r), RecordOK(r), NEW f, NEW s \in Seq(Seq(Nat))
  PROVE  Noted(Reported(Pushed(r, s), f), r, f) /\ Reported(Pushed(r, s), f).stack = s
<1>1. PICK a, o, i : a = r.first /\ o = r.first.over /\ i = Id(f)
  OBVIOUS
<1>2. PICK b, v : /\ b = r.by \union {f}
                  /\ v = IF a.call = 0 THEN [a EXCEPT !.call = i, !.block = Last(frames[f]).block] ELSE a
  OBVIOUS
<1>3. a = [call |-> a.call, block |-> a.block, over |-> a.over] /\ o = a.over
  BY <1>1 DEF RecordOK
<1>4. v = [call |-> IF a.call = 0 THEN i ELSE a.call, block |-> v.block, over |-> o]
  BY <1>2, <1>3
<1>5. PICK z : z = Pushed(r, s)
  OBVIOUS
<1>6. /\ z.has = r.has /\ z.ret = r.ret /\ z.traces = r.traces /\ z.stack = s
      /\ z.by = r.by /\ z.first = r.first /\ z = Rec(z)
  BY <1>5 DEF IsTrace, Pushed, Rec
<1>7. Reported(z, f) = [z EXCEPT !.by = b, !.first = v]
  BY <1>1, <1>2, <1>6 DEF Reported, Id
<1>8. PICK q : q = [z EXCEPT !.by = b, !.first = v]
  OBVIOUS
<1>9. /\ q.has = r.has /\ q.ret = r.ret /\ q.traces = r.traces /\ q.stack = s
      /\ q.by = b /\ q.first = v
  BY <1>6, <1>8 DEF Rec
<1>10. Noted(q, r, f)
  BY <1>1, <1>2, <1>4, <1>9 DEF Noted
<1> QED BY <1>5, <1>7, <1>8, <1>9, <1>10

LEMMA NotedIsOK ==
  ASSUME NEW r, NEW q, NEW f, RecordOK(r), r.has, Noted(q, r, f), Id(f) \in Nat, Id(f) # 0
  PROVE  /\ RecordOK(q) /\ q.first.call # 0 /\ q.first.over = r.first.over
         /\ q.first.call = IF r.first.call = 0 THEN Id(f) ELSE r.first.call
<1>1. PICK a, n : a = q.first /\ n = IF r.first.call = 0 THEN Id(f) ELSE r.first.call
  OBVIOUS
<1>2. a = [call |-> n, block |-> a.block, over |-> r.first.over]
  BY <1>1 DEF Noted
<1>3. a.call = n /\ a.over = r.first.over
  BY <1>2
<1>4. n \in Nat /\ n # 0 /\ r.first.over \in BOOLEAN
  BY <1>1 DEF RecordOK
<1>5. IsFiniteSet(q.by) /\ q.by # {}
  BY FS_AddElement DEF Noted, RecordOK
<1>6. q.has
  BY DEF Noted
<1> QED BY <1>1, <1>2, <1>3, <1>4, <1>5, <1>6 DEF RecordOK

------------------------------------------------------------------------------
(* What one handler does *)

LEMMA NoneIsNoName ==
  ASSUME NEW t \in Seq(Nat), NEW n \in Nat
  PROVE  Append(t, n) # None
BY BlockTracerAssumption

(* The handler goes on; tp is not what it works on. *)
LEMMA FollowingGoesOn ==
  ASSUME NEW f, NEW tp, SameRecord(heap'[tp.data], heap[tp.data]), frames'[f] = frames[f],
         Pending(f, tp)' <=> Pending(f, tp), Following(f, tp),
         Pending(f, tp) => handler[f].new # Append(tp.data, heap[tp.data].first.call)
  PROVE  Following(f, tp)'
<1>1. PICK s, r, q, u, v : /\ s = frames[f] /\ r = heap[tp.data] /\ q = heap'[tp.data]
                           /\ u = handler[f].new /\ v = handler'[f].new
  OBVIOUS
<1>2. q.stack = r.stack /\ q.traces = r.traces /\ q.first.call = r.first.call
  BY <1>1 DEF SameRecord
<1>3. CASE Pending(f, tp)
  <2>1. Pending(f, tp) = TRUE /\ Pending(f, tp)' = TRUE
    BY <1>3 DEF Pending
  <2>2. FollowsIn(r, s, TRUE, u, tp)
    BY <1>1, <2>1 DEF Following
  <2>3. r.stack # <<>>
    BY <1>1, <1>3, <2>2 DEF FollowsIn
  <2>4. FollowsIn(q, s, TRUE, v, tp)
    BY <1>2, <2>2, <2>3, FollowSame
  <2> QED BY <1>1, <2>1, <2>4 DEF Following
<1>4. CASE ~Pending(f, tp)
  <2>1. Pending(f, tp) = FALSE /\ Pending(f, tp)' = FALSE
    BY <1>4 DEF Pending
  <2>2. FollowsIn(r, s, FALSE, u, tp) /\ (FALSE /\ r.stack = <<>> => v = u)
    BY <1>1, <2>1 DEF Following
  <2>3. FollowsIn(q, s, FALSE, v, tp)
    BY ONLY <1>2, <2>2, FollowSame
  <2> QED BY <1>1, <2>1, <2>3 DEF Following
<1> QED BY <1>3, <1>4

LEMMA AfterDone ==
  ASSUME Memory, NEW f \in Fibers, Busy(f), NEW tp, Done(f, tp)
  PROVE  /\ \A g \in Fibers \ {f} : handler'[g] = handler[g]
         /\ \A tq : Pending(f, tq)' <=> Pending(f, tq) /\ tq # tp
         /\ Busy(f)' => handler'[f].new = None
<1> DEFINE left == handler[f].todo \ {tp}
<1>1. handler[f] \in HandlerType /\ handler \in [Fibers -> HandlerType \union {None}]
  BY DEF Memory, HandlersOK, Busy
<1>2. handler' = [handler EXCEPT ![f] = IF left = {} THEN None ELSE [@ EXCEPT !.todo = left, !.new = None]]
  BY DEF Done
<1>3. PICK hd : hd = [handler[f] EXCEPT !.todo = left, !.new = None]
  OBVIOUS
<1>4. hd \in HandlerType /\ hd.todo = left /\ hd.new = None
  BY <1>1, <1>3 DEF HandlerType
<1>5. hd # None
  BY <1>4, BlockTracerAssumption
<1>6. handler'[f] = IF left = {} THEN None ELSE hd
  BY <1>1, <1>2, <1>3
<1>7. \A g \in Fibers \ {f} : handler'[g] = handler[g]
  BY <1>1, <1>2
<1>8. ASSUME NEW tq PROVE Pending(f, tq)' <=> Pending(f, tq) /\ tq # tp
  BY <1>4, <1>5, <1>6 DEF Pending, Busy
<1> QED BY <1>4, <1>6, <1>7, <1>8 DEF Busy

LEMMA DoneIsOK ==
  ASSUME Memory, NEW f \in Fibers, Busy(f), NEW tp, Done(f, tp), FiberOK(f), UNCHANGED <<frames, calls>>,
         \A tq \in tps : Len(tq.data) # 1 => tq \in tps'
  PROVE  FiberOK(f)'
<1>1. FramesOK(f)'
  BY DEF FiberOK, FramesOK
<1>2. TodoOK(f)'
  <2> SUFFICES ASSUME Busy(f)', NEW tq \in handler'[f].todo
               PROVE  Watched(Last(frames[f]), tq) /\ IsName(tq.data) /\ (Len(tq.data) # 1 => tq \in tps')
    BY DEF TodoOK, Watched, IsName
  <2>1. tq \in handler[f].todo
    BY AfterDone DEF Pending
  <2> QED BY <2>1 DEF FiberOK, TodoOK
<1>3. WaitingOK(f)'
  BY AfterDone DEF WaitingOK
<1> QED BY <1>1, <1>2, <1>3 DEF FiberOK

(* The handler of f reported its call to the trace of tp, and made at most   *)
(* the trace of that call.                                                   *)
Handles(f, tp) ==
  /\ Busy(f) /\ handler[f].new = None /\ tp \in handler[f].todo /\ tp \in tps
  /\ tp.data \in DOMAIN heap /\ heap[tp.data].has /\ heap[tp.data].traces = <<>>
  /\ Called(f, tp) \notin Used

Around(f, tp) ==
  /\ UNCHANGED <<frames, calls>>
  /\ \A g \in Fibers \ {f} : handler'[g] = handler[g]
  /\ \A x \in DOMAIN heap : x \in DOMAIN heap'
  /\ \A x \in DOMAIN heap \ {tp.data} : heap'[x] = heap[x]
  /\ \A x \in DOMAIN heap' : x \in DOMAIN heap \/ (x = Called(f, tp) /\ \E b : heap'[x] = Trace(b, FALSE))
  /\ tps \subseteq tps' /\ \A tq \in tps' : tq \in tps \/ tq.data = Called(f, tp)
  /\ \A tq \in tps \ {tp} : Pending(f, tq)' <=> Pending(f, tq)

(* The new record of the trace. *)
LEMMA HandledTrace ==
  ASSUME Memory, FirstInv, NEW f \in Fibers, NEW tp, Handles(f, tp), Around(f, tp),
         Noted(heap'[tp.data], heap[tp.data], f),
         heap[tp.data].by \subseteq {f} => Following(f, tp)'
  PROVE  TraceOK(tp.data)'
<1>1. PICK t, r, q : t = tp.data /\ r = heap[t] /\ q = heap'[t]
  OBVIOUS
<1>2. TraceOK(t) /\ RecordOK(r) /\ r.has /\ r.traces = <<>>
  BY <1>1 DEF FirstInv, TracesOfOne, TraceOK, Handles
<1>3. Id(f) \in Nat /\ Id(f) # 0
  BY CalledIsName DEF Handles
<1>4. RecordOK(q) /\ q.first.over = r.first.over /\ q.by = r.by \union {f}
  <2>1. Noted(q, r, f)
    BY <1>1
  <2>2. RecordOK(q) /\ q.first.over = r.first.over
    BY <1>2, <1>3, <2>1, NotedIsOK
  <2> QED BY <2>1, <2>2 DEF Noted
<1>5. ASSUME NEW g \in Fibers, q.by = {g}
      PROVE  ~q.first.over /\ \A tq \in tps' : tq.data = t => Following(g, tq)'
  <2>1. g = f /\ r.by \subseteq {f}
    BY <1>4, <1>5
  <2>2. ~r.first.over
    <3> SUFFICES ASSUME r.first.over PROVE FALSE
      OBVIOUS
    <3>1. r.first.call # 0 /\ r.by = {f}
      BY <1>2, <2>1 DEF RecordOK
    <3>2. IsRecorded(t)
      BY <1>1, <1>2, <3>1 DEF TraceOK, OfOneFiber
    <3>3. heap[t].traces # <<>>
      BY <3>2 DEF IsRecorded
    <3> QED BY <1>1, <1>2, <3>3
  <2>3. \A tq \in tps' : tq.data = t => tq = tp
    <3>1. \A tq \in tps' : tq.data = t => tq \in tps
      BY <1>1 DEF Around, Handles, Used
    <3> QED BY <1>1, <3>1 DEF Memory, TpsTyped, Handles
  <2> QED BY <1>1, <1>4, <2>1, <2>2, <2>3
<1> QED BY <1>1, <1>4, <1>5 DEF TraceOK, OfOneFiber

LEMMA HandledKeeps ==
  ASSUME Inv, Memory, FirstInv, Memory', NEW f \in Fibers, NEW tp, Handles(f, tp), Around(f, tp),
         Noted(heap'[tp.data], heap[tp.data], f),
         heap[tp.data].by \subseteq {f} => Following(f, tp)',
         FiberOK(f)'
  PROVE  FirstInv'
<1>1. PICK t : t = tp.data
  OBVIOUS
<1>2. \A x \in DOMAIN heap \intersect DOMAIN heap' : heap'[x].ret = heap[x].ret
  BY DEF Around, Noted
<1>3. /\ calls \in Nat /\ calls' \in Nat /\ calls <= calls' /\ HeapOK' /\ LinksOK'
      /\ Called(f, tp) \in Seq(Nat) /\ Len(Called(f, tp)) # 1
  BY Counts, CalledIsName DEF Around, Memory, Handles
<1>4. ASSUME NEW x \in DOMAIN heap' PROVE TraceOK(x)'
  <2>1. CASE x = t
    BY <1>1, <2>1, HandledTrace
  <2>2. CASE x \notin DOMAIN heap
    BY <2>2, NewTraceOK DEF Around
  <2>3. CASE x # t /\ x \in DOMAIN heap
    <3>1. heap'[x] = heap[x] /\ TraceOK(x) /\ x \in Seq(Nat)
      BY <1>1, <2>3 DEF Around, FirstInv, TracesOfOne, Memory, HeapOK, IsName
    <3>2. SameRecord(heap'[x], heap[x])
      BY <3>1, SameIsSame
    <3>3. \A tq \in tps' : tq.data = x => tq \in tps
      BY <2>3 DEF Around, Handles, Used
    <3>4. ASSUME NEW g \in Fibers, NEW tq \in tps, tq.data = x, Following(g, tq)
          PROVE  Following(g, tq)'
      <4>1. frames'[g] = frames[g] /\ SameRecord(heap'[tq.data], heap[tq.data])
        BY <3>2, <3>4 DEF Around
      <4>2. CASE g = f
        <5>1. Pending(f, tq)' <=> Pending(f, tq)
          BY <1>1, <2>3, <3>4 DEF Around
        <5>2. heap[x].first.call \in Nat
          BY <3>1 DEF TraceOK, RecordOK
        <5>3. handler[f].new # Append(tq.data, heap[tq.data].first.call)
          BY <3>1, <3>4, <5>2, NoneIsNoName DEF Handles
        <5> QED BY <3>4, <4>1, <4>2, <5>1, <5>3, FollowingGoesOn
      <4>3. CASE g # f
        <5>1. handler'[g] = handler[g]
          BY <4>3 DEF Around
        <5> QED BY <3>4, <4>1, <5>1, FollowingStays
      <4> QED BY <4>2, <4>3
    <3> QED BY <1>2, <1>3, <2>3, <3>1, <3>2, <3>3, <3>4, TraceStays
  <2> QED BY <2>1, <2>2, <2>3
<1>5. ASSUME NEW g \in Fibers, g # f PROVE FiberOK(g)'
  <2>1. FiberOK(g)
    BY DEF FirstInv, FibersOK
  <2>2. ASSUME NEW x \in DOMAIN heap' PROVE Undisturbed(g, x)
    <3>1. CASE x = t
      <4>1. PICK r, q : r = heap[t] /\ q = heap'[t]
        OBVIOUS
      <4>2. t \in DOMAIN heap /\ RecordOK(r) /\ r.has /\ Id(f) \in Nat /\ Id(f) # 0
        BY <1>1, <4>1, CalledIsName DEF Handles, FirstInv, TracesOfOne, TraceOK
      <4>3. Noted(q, r, f)
        BY <1>1, <4>1
      <4>4. q.by = r.by \union {f} /\ (r.first.call # 0 => q.first.call = r.first.call)
        BY <4>2, <4>3, NotedIsOK DEF Noted
      <4>5. KeepsWaiting(q, r, g)
        BY <1>5, <4>4 DEF KeepsWaiting
      <4> QED BY <3>1, <4>1, <4>2, <4>5 DEF Undisturbed
    <3>2. CASE x \notin DOMAIN heap
      <4>1. x = Called(f, tp)
        BY <3>2 DEF Around
      <4> QED BY <1>3, <2>1, <4>1, NewNotAwaited DEF FiberOK, Handles
    <3>3. CASE x # t /\ x \in DOMAIN heap
      BY <1>1, <3>3, SameKeepsWaiting, SameIsSame DEF Around, Undisturbed
    <3> QED BY <3>1, <3>2, <3>3
  <2>3. frames'[g] = frames[g] /\ handler'[g] = handler[g] /\ tps \subseteq tps'
    BY <1>5 DEF Around
  <2> QED BY <1>3, <2>1, <2>2, <2>3, OtherFibers
<1> QED BY <1>4, <1>5 DEF FirstInv, TracesOfOne, FibersOK

(* The call is pending for tp, so that the trace of a first call that other  *)
(* events of f went by is on the stack.                                      *)
LEMMA PendingHere ==
  ASSUME Inv, Memory, FirstInv, NEW f \in Fibers, NEW tp, Handles(f, tp), heap[tp.data].by \subseteq {f}
  PROVE  /\ frames[f] \in Seq(Frame) /\ frames[f] # <<>> /\ Watched(Last(frames[f]), tp)
         /\ IsTrace(heap[tp.data]) /\ RecordOK(heap[tp.data])
         /\ IF heap[tp.data].stack = <<>>
              THEN heap[tp.data].first.call = 0 /\ ~heap[tp.data].first.over
              ELSE /\ heap[tp.data].first.call # 0
                   /\ FollowsIn(heap[tp.data], frames[f], TRUE, handler[f].new, tp)
<1>1. PICK t, r : t = tp.data /\ r = heap[t]
  OBVIOUS
<1>2. /\ TraceOK(t) /\ IsTrace(r) /\ RecordOK(r) /\ r.traces = <<>> /\ t \in Seq(Nat)
      /\ r.first.call \in Nat
  BY <1>1 DEF Handles, FirstInv, TracesOfOne, TraceOK, Memory, HeapOK, IsName, RecordOK
<1>3. frames[f] \in Seq(Frame) /\ frames[f] # <<>> /\ Watched(Last(frames[f]), tp)
  BY Counts DEF Handles, Busy, Inv, ProgramOK, FirstInv, FibersOK, FiberOK, TodoOK
<1>4. ASSUME r.first.call # 0
      PROVE  r.stack # <<>> /\ FollowsIn(r, frames[f], TRUE, handler[f].new, tp)
  <2>1. r.by = {f}
    BY <1>1, <1>2, <1>4 DEF RecordOK
  <2>2. IF r.first.over THEN IsRecorded(t) ELSE \A tq \in tps : tq.data = t => Following(f, tq)
    BY <1>1, <1>2, <1>4, <2>1 DEF TraceOK, OfOneFiber
  <2>3. ~r.first.over
    BY <1>1, <1>2, <2>2 DEF IsRecorded
  <2>4. Following(f, tp) /\ Pending(f, tp) = TRUE
    BY <1>1, <2>2, <2>3 DEF Handles, Pending
  <2>5. FollowsIn(r, frames[f], TRUE, handler[f].new, tp)
    BY <1>1, <2>4 DEF Following
  <2>6. handler[f].new # Append(tp.data, r.first.call)
    BY <1>1, <1>2, NoneIsNoName DEF Handles
  <2> QED BY <2>5, <2>6 DEF FollowsIn
<1>5. r.first.call = 0 => r.stack = <<>> /\ ~r.first.over
  BY <1>2 DEF RecordOK
<1> QED BY <1>1, <1>2, <1>3, <1>4, <1>5

(* A call inside the first one gets a nullptr. *)
LEMMA FirstPushInner ==
  ASSUME Inv, Memory, FirstInv, Memory', NEW f \in Fibers, NEW tp, Handles(f, tp), PushInner(f, tp),
         UNCHANGED <<frames, calls>>
  PROVE  FirstInv'
<1>1. PICK t, r, s, q : /\ t = tp.data /\ r = heap[t] /\ s = Append(r.stack, Null)
                        /\ q = Reported(Pushed(r, s), f)
  OBVIOUS
<1>2. heap' = [heap EXCEPT ![t] = q] /\ UNCHANGED tps /\ Done(f, tp) /\ r.stack # <<>>
  BY <1>1 DEF PushInner, Pushed
<1>3. /\ t \in DOMAIN heap /\ t \in Seq(Nat) /\ IsTrace(r) /\ RecordOK(r) /\ s \in Seq(Seq(Nat)) /\ Busy(f)
  BY <1>1, EmptySeq DEF Handles, FirstInv, TracesOfOne, TraceOK, Memory, HeapOK, IsName, IsTrace, Null
<1>4. heap'[t] = q /\ DOMAIN heap' = DOMAIN heap /\ \A x \in DOMAIN heap \ {t} : heap'[x] = heap[x]
  BY <1>2, <1>3
<1>5. Noted(q, r, f) /\ q.stack = s
  <2>1. Noted(Reported(Pushed(r, s), f), r, f) /\ Reported(Pushed(r, s), f).stack = s
    BY <1>3, PushedIsNoted
  <2> QED BY <1>1, <2>1
<1>6. Around(f, tp) /\ ~Pending(f, tp)'
  <2>1. \A tq \in tps \ {tp} : Pending(f, tq)' <=> Pending(f, tq)
    BY <1>2, <1>3, AfterDone
  <2>2. ~Pending(f, tp)' /\ \A g \in Fibers \ {f} : handler'[g] = handler[g]
    BY <1>2, <1>3, AfterDone
  <2> QED BY <1>1, <1>2, <1>4, <2>1, <2>2 DEF Around
<1>7. ASSUME r.by \subseteq {f} PROVE Following(f, tp)'
  <2>1. frames[f] \in Seq(Frame) /\ FollowsIn(r, frames[f], TRUE, handler[f].new, tp)
        /\ r.first.call # 0
    BY <1>1, <1>2, <1>7, PendingHere
  <2>2. q.first.call = r.first.call /\ q.traces = r.traces
    BY <1>5, <2>1 DEF Noted
  <2>3. FollowsIn(q, frames[f], FALSE, handler'[f].new, tp)
    BY <1>1, <1>2, <1>3, <1>5, <2>1, <2>2, FollowPushInner
  <2>4. Pending(f, tp)' = FALSE
    BY <1>6 DEF Pending
  <2> QED BY <1>1, <1>4, <2>3, <2>4 DEF Following
<1>8. FiberOK(f)'
  BY <1>2, <1>3, DoneIsOK DEF FirstInv, FibersOK
<1> QED BY <1>1, <1>4, <1>5, <1>6, <1>7, <1>8, HandledKeeps

(* The first call gets a trace. *)
LEMMA FirstPushTrace ==
  ASSUME Inv, Memory, FirstInv, Memory', NEW f \in Fibers, NEW tp, Handles(f, tp), PushTrace(f, tp),
         UNCHANGED <<frames, calls>>
  PROVE  FirstInv'
<1>1. PICK t, r, new, s, q : /\ t = tp.data /\ r = heap[t] /\ new = Called(f, tp) /\ s = <<new>>
                             /\ q = Reported(Pushed(r, s), f)
  OBVIOUS
<1>2. /\ heap' = With([heap EXCEPT ![t] = q], new, Trace(NoBlock, FALSE))
      /\ UNCHANGED tps /\ Done(f, tp) /\ r.stack = <<>>
  BY <1>1 DEF PushTrace, Pushed, Called, Id
<1>3. /\ t \in DOMAIN heap /\ t \in Seq(Nat) /\ IsTrace(r) /\ RecordOK(r) /\ Busy(f) /\ r.traces = <<>>
      /\ new \in Seq(Nat) /\ new \notin DOMAIN heap
  BY <1>1, CalledIsName
     DEF Handles, FirstInv, TracesOfOne, TraceOK, Memory, HeapOK, IsName, Used
<1>4. /\ heap'[t] = q /\ heap'[new] = Trace(NoBlock, FALSE) /\ DOMAIN heap' = DOMAIN heap \union {new}
      /\ \A x \in DOMAIN heap \ {t} : heap'[x] = heap[x]
  BY <1>2, <1>3 DEF With
<1>5. Noted(q, r, f) /\ q.stack = s
  <2>1. s \in Seq(Seq(Nat))
    BY <1>1, <1>3
  <2>2. Noted(Reported(Pushed(r, s), f), r, f) /\ Reported(Pushed(r, s), f).stack = s
    BY <1>3, <2>1, PushedIsNoted
  <2> QED BY <1>1, <2>2
<1>6. Around(f, tp) /\ ~Pending(f, tp)'
  <2>1. \A tq \in tps \ {tp} : Pending(f, tq)' <=> Pending(f, tq)
    BY <1>2, <1>3, AfterDone
  <2>2. ~Pending(f, tp)' /\ \A g \in Fibers \ {f} : handler'[g] = handler[g]
    BY <1>2, <1>3, AfterDone
  <2> QED BY <1>1, <1>2, <1>4, <2>1, <2>2 DEF Around
<1>7. ASSUME r.by \subseteq {f} PROVE Following(f, tp)'
  <2>1. /\ frames[f] \in Seq(Frame) /\ frames[f] # <<>> /\ Watched(Last(frames[f]), tp)
        /\ r.first.call = 0
    BY <1>1, <1>2, <1>7, PendingHere
  <2>2. q.first.call = Last(frames[f]).id /\ q.traces = <<>>
    BY <1>3, <1>5, <2>1 DEF Noted, Id
  <2>3. q.stack = <<Append(tp.data, Last(frames[f]).id)>>
    BY <1>1, <1>5 DEF Called, Id
  <2>4. FollowsIn(q, frames[f], FALSE, handler'[f].new, tp)
    BY <2>1, <2>2, <2>3, FollowPushFirst
  <2>5. Pending(f, tp)' = FALSE
    BY <1>6 DEF Pending
  <2> QED BY <1>1, <1>4, <2>4, <2>5 DEF Following
<1>8. FiberOK(f)'
  BY <1>2, <1>3, DoneIsOK DEF FirstInv, FibersOK
<1> QED BY <1>1, <1>4, <1>5, <1>6, <1>7, <1>8, HandledKeeps

(* The first call gets a trace with a trace point, but waits before the push.*)
LEMMA FirstEnableNested ==
  ASSUME Inv, Memory, FirstInv, Memory', NEW f \in Fibers, NEW tp, Handles(f, tp), EnableNested(f, tp),
         UNCHANGED <<frames, calls>>
  PROVE  FirstInv'
<1>1. PICK t, r, new, q, z : /\ t = tp.data /\ r = heap[t] /\ new = Called(f, tp)
                             /\ q = Reported(r, f) /\ z = Trace(handler[f].takes, FALSE)
  OBVIOUS
<1>2. /\ heap' = With([heap EXCEPT ![t] = q], new, z) /\ r.stack = <<>>
      /\ tps' \in {tps, tps \union {[data |-> new, target |-> handler[f].takes]}}
      /\ handler' = [handler EXCEPT ![f].new = new]
  BY <1>1 DEF EnableNested, Called, Id
<1>3. /\ t \in DOMAIN heap /\ t \in Seq(Nat) /\ IsTrace(r) /\ RecordOK(r) /\ Busy(f) /\ r.traces = <<>>
      /\ new \in Seq(Nat) /\ new \notin DOMAIN heap /\ Id(f) \in Nat /\ Id(f) # 0 /\ r.has
  BY <1>1, CalledIsName
     DEF Handles, FirstInv, TracesOfOne, TraceOK, Memory, HeapOK, IsName, Used
<1>4. /\ heap'[t] = q /\ heap'[new] = z /\ DOMAIN heap' = DOMAIN heap \union {new}
      /\ \A x \in DOMAIN heap \ {t} : heap'[x] = heap[x]
  BY <1>2, <1>3 DEF With
<1>5. Noted(q, r, f) /\ q.stack = <<>>
  BY <1>1, <1>2, <1>3, ReportedIsNoted
<1>6. /\ \A g \in Fibers \ {f} : handler'[g] = handler[g]
      /\ handler'[f].new = new /\ handler'[f].todo = handler[f].todo /\ Busy(f)'
  <2>1. handler[f] \in HandlerType /\ handler \in [Fibers -> HandlerType \union {None}]
    BY <1>3 DEF Memory, HandlersOK, Busy
  <2>2. PICK hd : hd = [handler[f] EXCEPT !.new = new]
    OBVIOUS
  <2>3. hd \in HandlerType /\ hd.new = new /\ hd.todo = handler[f].todo
    BY <1>3, <2>1, <2>2 DEF HandlerType
  <2>4. handler'[f] = hd /\ hd # None
    BY <1>2, <2>1, <2>2, <2>3, BlockTracerAssumption
  <2> QED BY <1>2, <2>1, <2>3, <2>4 DEF Busy
<1>7. \A tq : Pending(f, tq)' <=> Pending(f, tq)
  BY <1>3, <1>6 DEF Pending
<1>8. Around(f, tp)
  <2>1. PICK x : x = [data |-> new, target |-> handler[f].takes]
    OBVIOUS
  <2>2. tps' \in {tps, tps \union {x}} /\ x.data = new
    BY <1>2, <2>1
  <2>3. \E b : z = Trace(b, FALSE)
    BY <1>1
  <2> QED BY <1>1, <1>4, <1>6, <1>7, <2>2, <2>3 DEF Around
<1>9. ASSUME r.by \subseteq {f}
      PROVE  Following(f, tp)' /\ q.first.call = Id(f) /\ ~q.first.over /\ q.traces = <<>>
  <2>1. /\ frames[f] \in Seq(Frame) /\ frames[f] # <<>> /\ Watched(Last(frames[f]), tp)
        /\ r.first.call = 0 /\ ~r.first.over
    BY <1>1, <1>2, <1>9, PendingHere
  <2>2. q.first.call = Id(f) /\ q.first.over = r.first.over
    BY <1>3, <1>5, <2>1, NotedIsOK
  <2>3. q.traces = <<>> /\ new = Append(tp.data, Last(frames[f]).id) /\ q.first.call = Last(frames[f]).id
    BY <1>1, <1>3, <1>5, <2>2 DEF Noted, Called, Id
  <2>4. FollowsIn(q, frames[f], TRUE, new, tp)
    BY <1>5, <2>1, <2>3, FollowWaits
  <2>5. Pending(f, tp)' = TRUE
    BY <1>7, <1>3 DEF Handles, Pending
  <2>6. Following(f, tp)'
    BY <1>1, <1>4, <1>6, <2>4, <2>5 DEF Following
  <2> QED BY <2>1, <2>2, <2>3, <2>6
<1>10. FiberOK(f)'
  <2>1. FiberOK(f)
    BY DEF FirstInv, FibersOK
  <2>2. FramesOK(f)'
    BY <2>1 DEF FiberOK, FramesOK
  <2>3. TodoOK(f)'
    BY <1>2, <1>3, <1>6, <2>1 DEF FiberOK, TodoOK, Watched, IsName
  <2>4. ASSUME NEW x \in DOMAIN heap', new = Append(x, Id(f))
        PROVE  /\ f \in heap'[x].by /\ heap'[x].first.call # 0
               /\ heap'[x].by = {f} => Untouched(heap[x], f)'
    <3>1. x \in Seq(Nat)
      BY DEF Memory, HeapOK, IsName
    <3>2. x = t
      <4>1. Append(t, Id(f)) = Append(x, Id(f))
        BY <1>1, <2>4 DEF Called
      <4> QED BY <1>3, <3>1, <4>1, NamesDiffer
    <3>3. q.first.call # 0
      BY <1>3, <1>5, NotedIsOK
    <3>4. q.by = r.by \union {f}
      BY <1>5 DEF Noted
    <3>5. ASSUME q.by = {f} PROVE Untouched(heap[t], f)'
      <4>1. r.by \subseteq {f}
        BY <3>4, <3>5
      <4>2. q.first.call = Id(f) /\ ~q.first.over /\ q.traces = <<>> /\ q.stack = <<>>
        BY <1>5, <1>9, <4>1
      <4> QED BY <1>4, <4>2 DEF Untouched, Id
    <3> QED BY <1>4, <3>2, <3>3, <3>4, <3>5
  <2>5. Id(f)' = Id(f)
    BY DEF Id
  <2>6. WaitingOK(f)'
    BY <1>6, <2>4, <2>5 DEF WaitingOK
  <2> QED BY <2>2, <2>3, <2>6 DEF FiberOK
<1> QED BY <1>1, <1>4, <1>5, <1>8, <1>9, <1>10, HandledKeeps

(* A trace point that is disabled, or records nothing any more.              *)
LEMMA FirstIgnores ==
  ASSUME Inv, Memory, FirstInv, Memory', NEW f \in Fibers, NEW tp, Busy(f), handler[f].new = None,
         Done(f, tp), tp \notin tps \/ Ignores(tp.data), UNCHANGED <<heap, tps, frames, calls>>
  PROVE  FirstInv'
<1>1. calls \in Nat /\ calls' \in Nat /\ calls <= calls' /\ HeapOK' /\ LinksOK'
  BY Counts DEF Memory
<1>2. /\ \A g \in Fibers \ {f} : handler'[g] = handler[g]
      /\ \A tq : Pending(f, tq)' <=> Pending(f, tq) /\ tq # tp
  BY AfterDone
<1>3. ASSUME NEW g \in Fibers PROVE FiberOK(g)'
  <2>1. FiberOK(g)
    BY DEF FirstInv, FibersOK
  <2>2. CASE g = f
    BY <2>1, <2>2, DoneIsOK
  <2>3. CASE g # f
    <3>1. \A x \in DOMAIN heap' : Undisturbed(g, x)
      BY SameKeepsWaiting, SameIsSame DEF Undisturbed
    <3>2. frames'[g] = frames[g] /\ handler'[g] = handler[g]
      BY <1>2, <2>3
    <3> QED BY <1>1, <2>1, <3>1, <3>2, OtherFibers
  <2> QED BY <2>2, <2>3
<1>4. ASSUME NEW x \in DOMAIN heap' PROVE TraceOK(x)'
  <2>1. x \in DOMAIN heap /\ TraceOK(x) /\ SameRecord(heap'[x], heap[x]) /\ x \in Seq(Nat)
    BY SameIsSame DEF FirstInv, TracesOfOne, Memory, HeapOK, IsName
  <2>2. ASSUME NEW g \in Fibers, NEW tq \in tps, tq.data = x, g \in heap[x].by, Following(g, tq)
        PROVE  Following(g, tq)'
    <3>1. CASE g # f
      BY <1>2, <2>1, <2>2, <3>1, FollowingStays
    <3>2. CASE g = f
      <4>1. tq # tp
        <5> SUFFICES ASSUME tq = tp PROVE FALSE
          OBVIOUS
        <5>1. heap[x].traces = <<>>
          BY <2>2 DEF Following, FollowsIn
        <5>2. heap[x].has
          BY <2>1, <2>2 DEF TraceOK, RecordOK
        <5> QED BY <2>2, <5>1, <5>2 DEF Ignores
      <4>2. Pending(f, tq)' <=> Pending(f, tq)
        BY <1>2, <4>1
      <4>3. handler[f].new # Append(tq.data, heap[tq.data].first.call)
        BY <2>1, <2>2, NoneIsNoName DEF TraceOK, RecordOK
      <4> QED BY <2>1, <2>2, <3>2, <4>2, <4>3, FollowingGoesOn
    <3> QED BY <3>1, <3>2
  <2> QED BY <1>1, <2>1, <2>2, TraceStays
<1> QED BY <1>3, <1>4 DEF FirstInv, TracesOfOne, FibersOK

LEMMA FirstHandleBlockCall ==
  ASSUME Inv, Memory, FirstInv, Memory', NEW f \in Fibers, NEW tp, HandleBlockCall(f, tp)
  PROVE  FirstInv'
<1>1. /\ vm = f /\ handler[f].new = None /\ tp \in handler[f].todo
      /\ UNCHANGED <<frames, calls>>
  BY DEF HandleBlockCall, program
<1>2. Busy(f) /\ Called(f, tp) \notin Used
  BY <1>1, Handling
<1>3. CASE (tp \notin tps \/ Ignores(tp.data)) /\ Done(f, tp) /\ UNCHANGED <<heap, tps>>
  BY <1>1, <1>2, <1>3, FirstIgnores
<1>4. CASE UNCHANGED <<heap, tps, handler>>
  BY <1>1, <1>4, SameIsSame, QuietKeeps
<1>5. CASE /\ tp \in tps /\ Valid(tp.data)
           /\ PushInner(f, tp) \/ PushTrace(f, tp) \/ EnableNested(f, tp)
  <2>1. Handles(f, tp)
    BY <1>1, <1>2, <1>5 DEF Handles, Valid, PushInner, PushTrace, EnableNested, Ignores
  <2> QED BY <1>1, <1>5, <2>1, FirstPushInner, FirstPushTrace, FirstEnableNested
<1> QED BY <1>3, <1>4, <1>5 DEF HandleBlockCall

(* The handler goes on after the wait: if nobody else reported to the trace, *)
(* nothing has happened to it.                                               *)
LEMMA FirstFinishBlockCall ==
  ASSUME Inv, Memory, FirstInv, Memory', NEW f \in Fibers, FinishBlockCall(f)
  PROVE  FirstInv'
<1>1. /\ vm = None /\ Busy(f) /\ UNCHANGED <<tps, frames, calls>>
  BY DEF FinishBlockCall, Busy, program
<1>2. HandlerOK(f) /\ handler[f].new # None /\ FiberOK(f)
  BY <1>1, BlockTracerAssumption DEF Memory, HandlersOK, FirstInv, FibersOK
<1>3. PICK tp \in handler[f].todo : handler[f].new = Called(f, tp)
  BY <1>2 DEF HandlerOK
<1>4. PICK new, t : new = handler[f].new /\ t = tp.data
  OBVIOUS
<1>5. /\ t \in Seq(Nat) /\ t # <<>> /\ new = Append(t, Id(f)) /\ Front(new) = t /\ Id(f) \in Nat /\ Id(f) # 0
      /\ new \in DOMAIN heap /\ new # t /\ calls \in Nat
  <2>1. /\ t \in Seq(Nat) /\ t # <<>> /\ new = Append(t, Id(f)) /\ Front(new) = t /\ Id(f) \in Nat
        /\ Id(f) \in 1..calls
    BY <1>1, <1>3, <1>4, CalledIsName DEF Called
  <2>2. Len(new) = Len(t) + 1 /\ Len(t) \in Nat
    BY <2>1, NameExtends
  <2>3. new # t
    BY <2>2
  <2> QED BY <1>2, <1>4, <2>1, <2>3, Counts DEF HandlerOK
<1>6. tp = CHOOSE x \in handler[f].todo : x.data = t
  BY <1>2, <1>4 DEF HandlerOK
<1>7. CASE UNCHANGED <<heap, handler>>
  BY <1>1, <1>7, SameIsSame, QuietKeeps
<1>8. CASE /\ t \in DOMAIN heap /\ Done(f, tp)
           /\ heap' = [heap EXCEPT ![new].has = @ \/ heap[new].block # NoBlock, ![t].stack = Append(@, new)]
  <2>1. PICK r, q, z, s : /\ r = heap[t] /\ s = Append(r.stack, new) /\ q = Pushed(r, s)
                          /\ z = [heap[new] EXCEPT !.has = @ \/ heap[new].block # NoBlock]
    OBVIOUS
  <2>2. /\ DOMAIN heap' = DOMAIN heap /\ heap'[t] = q /\ heap'[new] = z
        /\ \A x \in DOMAIN heap \ {t, new} : heap'[x] = heap[x]
    BY <1>5, <1>8, <2>1 DEF Pushed
  <2>3. /\ IsTrace(r) /\ TraceOK(t) /\ RecordOK(r) /\ IsTrace(heap[new])
    BY <1>5, <1>8, <2>1 DEF Memory, HeapOK, FirstInv, TracesOfOne, TraceOK
  <2>4. /\ q.stack = s /\ q.traces = r.traces /\ q.first = r.first /\ q.by = r.by /\ q.ret = r.ret
        /\ q.has = r.has
    BY <2>1, <2>3 DEF IsTrace, Pushed
  <2>5. SameRecord(z, heap[new]) /\ z.ret = heap[new].ret
    BY <2>1, <2>3 DEF IsTrace, SameRecord
  <2>6. f \in r.by /\ r.first.call # 0 /\ (r.by = {f} => Untouched(r, f))
    BY <1>1, <1>2, <1>4, <1>5, <1>8, <2>1 DEF FiberOK, WaitingOK
  <2>7. RecordOK(q)
    BY <2>3, <2>4, <2>6 DEF RecordOK
  <2>8. /\ \A g \in Fibers \ {f} : handler'[g] = handler[g]
        /\ \A tq : Pending(f, tq)' <=> Pending(f, tq) /\ tq # tp
    BY <1>1, <1>8, AfterDone
  <2>9. \A x \in DOMAIN heap \ {t} : SameRecord(heap'[x], heap[x]) /\ heap'[x].ret = heap[x].ret
    BY <2>2, <2>5, SameIsSame
  <2>10. calls' \in Nat /\ calls <= calls' /\ HeapOK' /\ LinksOK'
    BY <1>1, <1>5 DEF Memory
  <2>11. ASSUME NEW g \in Fibers PROVE FiberOK(g)'
    <3>1. FiberOK(g)
      BY DEF FirstInv, FibersOK
    <3>2. CASE g = f
      BY <1>1, <1>8, <3>1, <3>2, DoneIsOK
    <3>3. CASE g # f
      <4>1. q.by # {g} /\ KeepsWaiting(q, r, g)
        BY <2>4, <2>6, <3>3 DEF KeepsWaiting
      <4>2. \A x \in DOMAIN heap' : Undisturbed(g, x)
        BY <2>1, <2>2, <2>9, <4>1, SameKeepsWaiting DEF Undisturbed
      <4>3. frames'[g] = frames[g] /\ handler'[g] = handler[g]
        BY <1>1, <2>8, <3>3
      <4> QED BY <1>1, <1>5, <2>10, <3>1, <4>2, <4>3, OtherFibers
    <3> QED BY <3>2, <3>3
  <2>12. TraceOK(t)'
    <3>1. ASSUME NEW g \in Fibers, q.by = {g}
          PROVE  ~q.first.over /\ \A tq \in tps : tq.data = t => Following(g, tq)'
      <4>1. g = f /\ r.by = {f} /\ Untouched(r, f)
        BY <2>4, <2>6, <3>1
      <4>2. ASSUME NEW tq \in tps, tq.data = t PROVE Following(f, tq)'
        <5>1. Following(f, tq)
          BY <2>1, <2>3, <2>6, <4>1, <4>2 DEF TraceOK, OfOneFiber, Untouched
        <5>2. frames[f] \in Seq(Frame) /\ frames[f] # <<>>
          BY <1>1, Counts DEF Busy, Inv, ProgramOK
        <5>3. Pending(f, tq)
          <6> SUFFICES ASSUME ~Pending(f, tq) PROVE FALSE
            OBVIOUS
          <6>1. Depth(frames[f], tq, r.first.call, Len(r.stack)) /\ Len(r.stack) = 0
            BY <2>1, <4>1, <4>2, <5>1 DEF Following, FollowsIn, Untouched
          <6>2. 0 >= 1
            BY <5>2, <6>1, DepthIs
          <6> QED BY <6>2
        <5>4. tq = tp
          BY <1>2, <1>4, <4>2, <5>3 DEF HandlerOK, Pending
        <5>5. Watched(Last(frames[f]), tp)
          BY <1>1, <1>2 DEF FiberOK, TodoOK
        <5>6. q.stack = <<Append(tp.data, Last(frames[f]).id)>>
          BY <1>4, <1>5, <2>1, <2>4, <4>1 DEF Untouched, Id
        <5>7. q.traces = <<>> /\ q.first.call = Last(frames[f]).id
          BY <2>4, <4>1 DEF Untouched, Id
        <5>8. FollowsIn(q, frames[f], FALSE, handler'[f].new, tp)
          BY <5>2, <5>5, <5>6, <5>7, FollowPushFirst
        <5>9. Pending(f, tp)' = FALSE
          BY <2>8 DEF Pending
        <5> QED BY <1>1, <1>4, <2>2, <5>4, <5>8, <5>9 DEF Following
      <4> QED BY <2>4, <4>1, <4>2 DEF Untouched
    <3> QED BY <1>1, <2>2, <2>7, <3>1 DEF TraceOK, OfOneFiber
  <2>13. ASSUME NEW x \in DOMAIN heap \ {t} PROVE TraceOK(x)'
    <3>1. x \in DOMAIN heap' /\ TraceOK(x) /\ SameRecord(heap'[x], heap[x]) /\ x \in Seq(Nat)
      BY <2>2, <2>9 DEF FirstInv, TracesOfOne, Memory, HeapOK, IsName
    <3>2. ASSUME NEW g \in Fibers, NEW tq \in tps, tq.data = x, Following(g, tq)
          PROVE  Following(g, tq)'
      <4>1. CASE g # f
        BY <1>1, <2>8, <3>1, <3>2, <4>1, FollowingStays
      <4>2. CASE g = f
        <5>1. Pending(f, tq)' <=> Pending(f, tq)
          BY <1>4, <2>8, <3>2
        <5>2. handler[f].new # Append(tq.data, heap[tq.data].first.call)
          <6>1. heap[x].first.call \in Nat
            BY <3>1 DEF TraceOK, RecordOK
          <6>2. ASSUME new = Append(x, heap[x].first.call) PROVE FALSE
            <7>1. Append(x, heap[x].first.call) = Append(t, Id(f))
              BY <1>5, <6>2
            <7>2. x = t
              BY <1>5, <3>1, <6>1, <7>1, NamesDiffer
            <7> QED BY <7>2
          <6> QED BY <1>4, <3>2, <6>2
        <5> QED BY <1>1, <3>1, <3>2, <4>2, <5>1, <5>2, FollowingGoesOn
      <4> QED BY <4>1, <4>2
    <3>3. \A y \in DOMAIN heap \intersect DOMAIN heap' : heap'[y].ret = heap[y].ret
      BY <2>1, <2>2, <2>4, <2>9
    <3> QED BY <1>1, <2>10, <3>1, <3>2, <3>3, TraceStays
  <2> QED BY <2>2, <2>11, <2>12, <2>13 DEF FirstInv, TracesOfOne, FibersOK
<1>9. \/ UNCHANGED <<heap, handler>>
      \/ /\ t \in DOMAIN heap /\ Done(f, tp)
         /\ heap' = [heap EXCEPT ![new].has = @ \/ heap[new].block # NoBlock, ![t].stack = Append(@, new)]
  <2>1. new = handler[f].new /\ Front(new) = t /\ tp = CHOOSE x \in handler[f].todo : x.data = t
    BY <1>4, <1>5, <1>6
  <2> QED BY ONLY FinishBlockCall(f), <2>1 DEF FinishBlockCall, Valid
<1> QED BY <1>7, <1>8, <1>9

------------------------------------------------------------------------------
(* The end of a block call *)

LEMMA EndedRecord ==
  ASSUME NEW r, IsTrace(r), RecordOK(r), NEW b, NEW o, NEW s, NEW ts, NEW n,
         NEW q, q = Ended(r, b, o, s, ts, n)
  PROVE  /\ q.has = r.has /\ q.by = b /\ q.stack = s /\ q.traces = ts /\ q.ret = n
         /\ q.first = [call |-> r.first.call, block |-> r.first.block, over |-> o]
         /\ q.first.call = r.first.call /\ q.first.block = r.first.block /\ q.first.over = o
<1>1. PICK a : a = r.first
  OBVIOUS
<1>2. PICK v : v = [a EXCEPT !.over = o]
  OBVIOUS
<1>3. a = [call |-> a.call, block |-> a.block, over |-> a.over]
  BY <1>1 DEF RecordOK
<1>4. v = [call |-> a.call, block |-> a.block, over |-> o]
  BY <1>2, <1>3
<1>5. q = [r EXCEPT !.by = b, !.first = v, !.stack = s, !.traces = ts, !.ret = n]
  BY <1>1, <1>2 DEF IsTrace, Ended
<1>6. q.has = r.has /\ q.by = b /\ q.stack = s /\ q.traces = ts /\ q.ret = n /\ q.first = v
  BY <1>5 DEF IsTrace
<1>7. v.call = a.call /\ v.block = a.block /\ v.over = o
  BY <1>4
<1> QED BY <1>1, <1>4, <1>6, <1>7

(* What is recorded is on no stack any more: it has one owner. *)
LEMMA RecordedIsOffStack ==
  ASSUME Memory, NEW x, NEW i, NEW c, Recorded(heap, x, i, c), c # Null
  PROVE  \A y, j : ~OnCalls(heap, y, j, c)
<1>1. c \in DOMAIN heap /\ Len(c) # 1
  BY LinkIsAllocated
<1>2. PICK w : Holders(heap, handler, c) = {w}
  BY <1>1 DEF Memory, HeldOnce, Held
<1>3. w = <<"recorded", x, i>>
  BY <1>2, HoldersAre
<1>4. ASSUME NEW y, NEW j, OnCalls(heap, y, j, c) PROVE FALSE
  <2>1. w = <<"called", y, j>>
    BY <1>2, <1>4, HoldersAre
  <2> QED BY <1>3, <2>1
<1> QED BY <1>4

(* What the end of a call of f with number m, of a block that the traces hit *)
(* watch, leaves of the record of x.                                         *)
EndsIn(x, f, m, hit, acc, rec) ==
  LET r == heap[x]
      q == heap'[x]
  IN  /\ q.has = r.has
      /\ q.by = IF x \in hit /\ r.has THEN r.by \union {f} ELSE r.by
      /\ q.stack = IF x \in acc THEN Front(r.stack) ELSE r.stack
      /\ q.traces = IF x \in rec THEN <<Last(r.stack)>> ELSE r.traces
      /\ q.ret = IF \E y \in rec : Last(heap[y].stack) = x THEN m ELSE r.ret
      /\ q.first = [call |-> r.first.call, block |-> r.first.block,
                    over |-> r.first.over \/ (x \in hit /\ r.first.call = m)]
      /\ q.first.call = r.first.call /\ q.first.block = r.first.block
      /\ q.first.over = (r.first.over \/ (x \in hit /\ r.first.call = m))

Ending(f, m, hit, acc, rec) ==
  /\ DOMAIN heap' = DOMAIN heap
  /\ \A x \in DOMAIN heap : EndsIn(x, f, m, hit, acc, rec)
  /\ hit \subseteq DOMAIN heap
  /\ acc = {x \in hit : ~Ignores(x) /\ heap[x].stack # <<>>}
  /\ rec = {x \in acc : Last(heap[x].stack) # Null}
  /\ hit = {tp.data : tp \in {tq \in tps : Watched(Last(frames[f]), tq)}}

(* The frame that ends. *)
Leaves(f, m) ==
  /\ handler[f] = None /\ handler'[f] = None /\ frames[f] # <<>> /\ m = Id(f)
  /\ frames'[f] = Front(frames[f]) /\ frames[f] \in Seq(Frame)
  /\ m \in Nat /\ m # 0 /\ UNCHANGED <<calls, tps>>
  /\ \A g \in Fibers \ {f} : frames'[g] = frames[g] /\ handler'[g] = handler[g]

LEMMA EndingRecord ==
  ASSUME NEW f, NEW m, NEW hit, NEW acc, NEW rec, Ending(f, m, hit, acc, rec), Leaves(f, m),
         NEW x \in DOMAIN heap, RecordOK(heap[x])
  PROVE  /\ RecordOK(heap'[x])
         /\ x \notin hit \/ ~heap[x].has => SameRecord(heap'[x], heap[x])
<1>1. PICK r, q : r = heap[x] /\ q = heap'[x]
  OBVIOUS
<1>2. EndsIn(x, f, m, hit, acc, rec) /\ RecordOK(r)
  BY <1>1 DEF Ending
<1>3. PICK o : o = (r.first.over \/ (x \in hit /\ r.first.call = m))
  OBVIOUS
<1>4. o \in BOOLEAN
  BY <1>2, <1>3 DEF RecordOK
<1>5. /\ q.first = [call |-> r.first.call, block |-> r.first.block, over |-> o]
      /\ q.first.call = r.first.call /\ q.first.block = r.first.block /\ q.first.over = o
  BY <1>1, <1>2, <1>3 DEF EndsIn
<1>6. q.has = r.has /\ q.by = IF x \in hit /\ r.has THEN r.by \union {f} ELSE r.by
  BY <1>1, <1>2 DEF EndsIn
<1>7. IsFiniteSet(q.by) /\ (q.by = {} => r.by = {}) /\ (~r.has => q.by = r.by)
  <2>1. IsFiniteSet(r.by) /\ IsFiniteSet(r.by \union {f})
    BY <1>2, FS_AddElement DEF RecordOK
  <2> QED BY <1>6, <2>1
<1>8. x \notin acc => q.stack = r.stack /\ q.traces = r.traces
  BY <1>1, <1>2 DEF EndsIn, Ending
<1>9. x \in acc => x \in hit /\ r.has /\ r.stack # <<>>
  BY <1>1 DEF Ending, Ignores
<1>10. r.first.call = 0 => q.stack = <<>> /\ q.traces = <<>> /\ ~q.first.over
  <2>1. r.first.call = 0 => r.stack = <<>> /\ r.traces = <<>> /\ ~r.first.over
    BY <1>2 DEF RecordOK
  <2>2. m # 0
    BY DEF Leaves
  <2> QED BY <1>3, <1>5, <1>8, <1>9, <2>1, <2>2
<1>11. RecordOK(q)
  BY <1>2, <1>4, <1>5, <1>6, <1>7, <1>10 DEF RecordOK
<1>12. ASSUME x \notin hit \/ ~r.has PROVE SameRecord(q, r)
  <2>1. q.stack = r.stack /\ q.traces = r.traces /\ q.by = r.by
    BY <1>6, <1>8, <1>9, <1>12
  <2>2. o = r.first.over
    <3>1. CASE x \notin hit
      BY <1>2, <1>3, <3>1 DEF RecordOK
    <3>2. CASE ~r.has
      <4>1. r.first.call = 0 /\ m # 0
        BY <1>2, <3>2 DEF RecordOK, Leaves
      <4> QED BY <1>2, <1>3, <4>1 DEF RecordOK
    <3> QED BY <1>12, <3>1, <3>2
  <2>3. q.first = r.first
    BY <1>2, <1>5, <2>2 DEF RecordOK
  <2> QED BY <1>6, <2>1, <2>3 DEF SameRecord
<1> QED BY <1>1, <1>11, <1>12

(* A first call that is over: its trace keeps the value it returned. *)
LEMMA EndingKeeps ==
  ASSUME Memory, NEW f, NEW m, NEW hit, NEW acc, NEW rec, Ending(f, m, hit, acc, rec),
         NEW x \in DOMAIN heap, IsRecorded(x), RecordOK(heap[x])
  PROVE  IsRecorded(x)'
<1>1. PICK n, c : n = heap[x].first.call /\ c = Append(x, n)
  OBVIOUS
<1>2. heap[x].traces = <<c>> /\ heap[c].ret = n /\ n \in Nat /\ x \in Seq(Nat)
  BY <1>1 DEF IsRecorded, RecordOK, Memory, HeapOK, IsName
<1>3. c # Null /\ c \in DOMAIN heap
  <2>1. Len(c) = Len(x) + 1 /\ Len(x) \in Nat
    BY <1>1, <1>2, AppendProperties
  <2>2. c # Null
    BY <2>1 DEF Null
  <2>3. Recorded(heap, x, 1, c)
    BY <1>2 DEF Recorded
  <2> QED BY <2>2, <2>3, LinkIsAllocated
<1>4. Recorded(heap, x, 1, c)
  BY <1>2 DEF Recorded
<1>5. ASSUME NEW y \in rec PROVE Last(heap[y].stack) # c
  <2>1. y \in DOMAIN heap /\ heap[y].stack # <<>>
    BY <1>5 DEF Ending
  <2>2. Len(heap[y].stack) \in DOMAIN heap[y].stack
    <3>1. PICK s : s = heap[y].stack /\ s \in Seq(Seq(Nat)) /\ s # <<>>
      BY <2>1 DEF Memory, HeapOK, IsTrace
    <3>2. PICK k \in Nat : k = Len(s) /\ DOMAIN s = 1..k
      BY <3>1
    <3>3. k >= 1
      BY <3>1, <3>2
    <3> QED BY <3>1, <3>2, <3>3
  <2>3. \A j : ~OnCalls(heap, y, j, c)
    BY <1>3, <1>4, RecordedIsOffStack
  <2> QED BY <2>1, <2>2, <2>3 DEF OnCalls, Last
<1>6. x \notin acc /\ x \notin rec /\ heap'[x].first.call = n
  <2>1. heap[x].traces # <<>>
    BY <1>2
  <2>2. x \notin acc /\ x \notin rec
    BY <2>1 DEF Ending, Ignores
  <2>3. EndsIn(x, f, m, hit, acc, rec)
    BY DEF Ending
  <2> QED BY <1>1, <2>2, <2>3 DEF EndsIn
<1>7. heap'[x].traces = <<c>>
  BY <1>2, <1>6 DEF Ending, EndsIn
<1>8. heap'[c].ret = n
  <2>1. EndsIn(c, f, m, hit, acc, rec)
    BY <1>3 DEF Ending
  <2>2. ~(\E y \in rec : Last(heap[y].stack) = c)
    BY <1>5
  <2> QED BY <1>2, <2>1, <2>2 DEF EndsIn
<1> QED BY <1>1, <1>6, <1>7, <1>8 DEF IsRecorded

(* The first call ends: it is recorded, with the value it returned. *)
LEMMA EndingFirst ==
  ASSUME Memory, NEW f \in Fibers, FramesOK(f), NEW m, NEW hit, NEW acc, NEW rec,
         Ending(f, m, hit, acc, rec), Leaves(f, m),
         NEW tp \in tps, tp.data \in hit, heap[tp.data].has, heap[tp.data].first.call = m, Following(f, tp)
  PROVE  IsRecorded(tp.data)'
<1>1. PICK x, r, s, u : x = tp.data /\ r = heap[x] /\ s = frames[f] /\ u = handler[f].new
  OBVIOUS
<1>2. x \in DOMAIN heap /\ IsTrace(r) /\ s \in Seq(Frame) /\ s # <<>>
  BY <1>1 DEF Ending, Leaves, Memory, HeapOK
<1>3. Pending(f, tp) = FALSE
  BY DEF Pending, Busy, Leaves
<1>4. FollowsIn(r, s, FALSE, u, tp)
  BY <1>1, <1>3 DEF Following
<1>5. Last(s).id = r.first.call /\ \A i, j \in DOMAIN s : s[i].id = s[j].id => i = j
  BY <1>1 DEF Leaves, Id, FramesOK
<1>6. r.stack # <<>> /\ r.traces = <<>> /\ Last(r.stack) = Append(tp.data, r.first.call)
  <2>1. /\ s \in Seq(Frame) /\ s # <<>> /\ IsTrace(r) /\ FollowsIn(r, s, FALSE, u, tp)
        /\ Last(s).id = r.first.call /\ \A i, j \in DOMAIN s : s[i].id = s[j].id => i = j
    BY <1>2, <1>4, <1>5
  <2> QED BY ONLY <2>1, FollowEndFirst
<1>7. PICK c : c = Append(x, m)
  OBVIOUS
<1>8. c # Null /\ c \in DOMAIN heap
  <2>1. x \in Seq(Nat) /\ x # <<>> /\ m \in Nat
    BY <1>2 DEF Memory, HeapOK, IsName, Leaves
  <2>2. c # Null
    BY <1>7, <2>1, NameExtends DEF Null
  <2>3. c \in Links(x)
    <3>1. PICK st : st = r.stack /\ st \in Seq(Seq(Nat)) /\ st # <<>> /\ Last(st) = c
      BY <1>1, <1>2, <1>6, <1>7 DEF IsTrace
    <3>2. PICK k \in Nat : k = Len(st) /\ DOMAIN st = 1..k
      BY <3>1
    <3>3. k >= 1 /\ st[k] = c
      BY <3>1, <3>2 DEF Last
    <3>4. c \in Range(st)
      BY <3>2, <3>3 DEF Range
    <3> QED BY <1>1, <2>2, <3>1, <3>4 DEF Links
  <2> QED BY <1>2, <2>2, <2>3 DEF Memory, LinksOK
<1>9. x \in rec /\ Last(heap[x].stack) = c
  BY <1>1, <1>6, <1>7, <1>8 DEF Ending, Ignores
<1>10. heap'[x].traces = <<c>> /\ heap'[x].first.call = m /\ heap'[c].ret = m
  BY <1>1, <1>2, <1>8, <1>9 DEF Ending, EndsIn
<1> QED BY <1>1, <1>7, <1>10 DEF IsRecorded

(* A call inside the first one ends. *)
LEMMA EndingInner ==
  ASSUME Memory, NEW f \in Fibers, NEW m, NEW hit, NEW acc, NEW rec,
         Ending(f, m, hit, acc, rec), Leaves(f, m),
         NEW tp \in tps, Watched(Last(frames[f]), tp), heap[tp.data].has, heap[tp.data].first.call # m,
         Following(f, tp)
  PROVE  Following(f, tp)'
<1>1. PICK x, r, q, s, u, v : /\ x = tp.data /\ r = heap[x] /\ s = frames[f] /\ u = handler[f].new
                              /\ v = handler'[f].new /\ q = heap'[x]
  OBVIOUS
<1>2. x \in hit /\ x \in DOMAIN heap /\ IsTrace(r) /\ s \in Seq(Frame) /\ s # <<>>
  BY <1>1 DEF Ending, Leaves, Memory, HeapOK
<1>3. Pending(f, tp) = FALSE /\ Pending(f, tp)' = FALSE
  BY DEF Pending, Busy, Leaves
<1>4. FollowsIn(r, s, FALSE, u, tp)
  BY <1>1, <1>3 DEF Following
<1>5. Last(s).id # r.first.call /\ Watched(Last(s), tp)
  BY <1>1 DEF Leaves, Id
<1>6. PICK z : z = [stack |-> Front(r.stack), traces |-> r.traces, first |-> r.first]
  OBVIOUS
<1>7. r.stack # <<>> /\ Last(r.stack) = Null /\ FollowsIn(z, Front(s), FALSE, v, tp)
  <2>1. z.stack = Front(r.stack) /\ z.traces = r.traces /\ z.first.call = r.first.call
    BY <1>6
  <2>2. /\ s \in Seq(Frame) /\ s # <<>> /\ IsTrace(r) /\ FollowsIn(r, s, FALSE, u, tp)
        /\ Watched(Last(s), tp) /\ Last(s).id # r.first.call
    BY <1>2, <1>4, <1>5
  <2> QED BY ONLY <2>1, <2>2, FollowEndInner
<1>8. r.traces = <<>>
  BY <1>4 DEF FollowsIn
<1>9. x \in acc /\ x \notin rec
  BY <1>1, <1>2, <1>7, <1>8 DEF Ending, Ignores
<1>10. q.stack = Front(r.stack) /\ q.traces = r.traces /\ q.first.call = r.first.call
  BY <1>1, <1>2, <1>9 DEF Ending, EndsIn
<1>11. FollowsIn(q, Front(s), FALSE, v, tp)
  <2>1. q.stack = z.stack /\ q.traces = z.traces /\ q.first.call = z.first.call
    BY <1>6, <1>10
  <2>2. FollowsIn(z, Front(s), FALSE, v, tp) /\ (FALSE /\ z.stack = <<>> => v = v)
    BY <1>7
  <2> QED BY ONLY <2>1, <2>2, FollowSame
<1> QED BY <1>1, <1>3, <1>11 DEF Following, Leaves

LEMMA EndingTrace ==
  ASSUME Inv, Memory, LinksOK', FirstInv, NEW f \in Fibers, NEW m, NEW hit, NEW acc, NEW rec,
         Ending(f, m, hit, acc, rec), Leaves(f, m), NEW x \in DOMAIN heap
  PROVE  TraceOK(x)'
<1>1. /\ TraceOK(x) /\ RecordOK(heap[x]) /\ FramesOK(f)
  BY DEF FirstInv, TracesOfOne, FibersOK, FiberOK, TraceOK
<1>2. PICK r, q : r = heap[x] /\ q = heap'[x]
  OBVIOUS
<1>3. /\ RecordOK(q) /\ (x \notin hit \/ ~r.has => SameRecord(q, r))
  BY <1>1, <1>2, EndingRecord
<1>4. /\ q.by = IF x \in hit /\ r.has THEN r.by \union {f} ELSE r.by
      /\ q.first.call = r.first.call
      /\ q.first.over = (r.first.over \/ (x \in hit /\ r.first.call = m))
  BY <1>2 DEF Ending, EndsIn
<1>5. ASSUME NEW g \in Fibers, q.by = {g}, q.first.call # 0
      PROVE  IF q.first.over THEN IsRecorded(x)' ELSE \A tp \in tps : tp.data = x => Following(g, tp)'
  <2>1. r.by = {g} /\ r.has /\ (x \in hit => g = f)
    <3>1. r.by # {} /\ r.has
      BY <1>1, <1>2, <1>4, <1>5 DEF RecordOK
    <3> QED BY <1>4, <1>5, <3>1
  <2>2. IF r.first.over THEN IsRecorded(x) ELSE \A tp \in tps : tp.data = x => Following(g, tp)
    BY <1>1, <1>2, <1>4, <1>5, <2>1 DEF TraceOK, OfOneFiber
  <2>3. CASE r.first.over
    <3>1. IsRecorded(x)'
      BY <1>1, <2>2, <2>3, EndingKeeps
    <3> QED BY <1>4, <2>3, <3>1
  <2>4. CASE ~r.first.over /\ x \notin hit
    <3>1. SameRecord(q, r) /\ ~q.first.over
      BY <1>3, <1>4, <2>4
    <3>2. ASSUME NEW tp \in tps, tp.data = x PROVE Following(g, tp)'
      <4>1. Following(g, tp)
        BY <2>2, <2>4, <3>2
      <4>2. SameRecord(heap'[tp.data], heap[tp.data])
        BY <1>2, <3>1, <3>2
      <4>3. CASE g = f
        <5>1. ~Watched(Last(frames[f]), tp)
          BY <2>4, <3>2 DEF Ending
        <5> QED BY <4>1, <4>2, <4>3, <5>1, FollowingReturns DEF Leaves
      <4>4. CASE g # f
        <5>1. frames'[g] = frames[g] /\ handler'[g] = handler[g]
          BY <4>4 DEF Leaves
        <5> QED BY <4>1, <4>2, <5>1, FollowingStays
      <4> QED BY <4>3, <4>4
    <3> QED BY <3>1, <3>2
  <2>5. CASE ~r.first.over /\ x \in hit
    <3>1. PICK tp \in tps : Watched(Last(frames[f]), tp) /\ tp.data = x
      BY <2>5 DEF Ending
    <3>2. Following(f, tp) /\ heap[tp.data].has /\ tp.data \in hit /\ g = f
      BY <1>2, <2>1, <2>2, <2>5, <3>1
    <3>3. \A tq \in tps : tq.data = x => tq = tp
      BY <3>1 DEF Memory, TpsTyped
    <3>4. CASE r.first.call = m
      <4>1. heap[tp.data].first.call = m
        BY <1>2, <3>1, <3>4
      <4>2. IsRecorded(tp.data)'
        BY <1>1, <3>2, <4>1, EndingFirst
      <4> QED BY <1>4, <2>5, <3>1, <3>4, <4>2
    <3>5. CASE r.first.call # m
      <4>1. heap[tp.data].first.call # m
        BY <1>2, <3>1, <3>5
      <4>2. Following(f, tp)'
        BY <3>1, <3>2, <4>1, EndingInner
      <4> QED BY <1>4, <2>5, <3>2, <3>3, <3>5, <4>2
    <3> QED BY <3>4, <3>5
  <2> QED BY <2>3, <2>4, <2>5
<1>6. tps' = tps
  BY DEF Leaves
<1> QED BY <1>2, <1>3, <1>5, <1>6 DEF TraceOK, OfOneFiber

LEMMA EndingFiber ==
  ASSUME Inv, Memory, HeapOK', FirstInv, NEW f \in Fibers, NEW m, NEW hit, NEW acc, NEW rec,
         Ending(f, m, hit, acc, rec), Leaves(f, m), NEW g \in Fibers
  PROVE  FiberOK(g)'
<1>1. FiberOK(g)
  BY DEF FirstInv, FibersOK
<1>2. CASE g = f
  <2>1. FramesOK(f)'
    BY <1>1, <1>2, FramesShrink DEF FiberOK, Leaves
  <2> QED BY <1>2, <2>1, IdleIsOK DEF Leaves
<1>3. CASE g # f
  <2>1. ASSUME NEW x \in DOMAIN heap' PROVE Undisturbed(g, x)
    <3>1. PICK r, q : r = heap[x] /\ q = heap'[x]
      OBVIOUS
    <3>2. x \in DOMAIN heap /\ RecordOK(r)
      BY <3>1 DEF Ending, FirstInv, TracesOfOne, TraceOK
    <3>3. /\ q.by = IF x \in hit /\ r.has THEN r.by \union {f} ELSE r.by
          /\ q.first.call = r.first.call
      BY <3>1, <3>2 DEF Ending, EndsIn
    <3>4. x \notin hit \/ ~r.has => SameRecord(q, r)
      BY <3>1, <3>2, EndingRecord
    <3>5. KeepsWaiting(q, r, g)
      BY <1>3, <3>3, <3>4 DEF KeepsWaiting
    <3> QED BY <3>1, <3>2, <3>5 DEF Undisturbed
  <2>2. calls \in Nat /\ calls' \in Nat /\ calls <= calls'
    BY Counts DEF Leaves
  <2>3. /\ frames'[g] = frames[g] /\ handler'[g] = handler[g]
        /\ \A tp \in tps : Len(tp.data) # 1 => tp \in tps'
    BY <1>3 DEF Leaves
  <2> QED BY <1>1, <2>1, <2>2, <2>3, OtherFibers
<1> QED BY <1>2, <1>3

LEMMA ReturnLeaves ==
  ASSUME Inv, FirstInv, NEW f \in Fibers, NEW m, m = Last(frames[f]).id,
         Running(f), frames[f] # <<>>, frames' = [frames EXCEPT ![f] = Front(@)],
         UNCHANGED <<tps, handler, calls>>
  PROVE  Leaves(f, m)
<1>1. PICK s : s = frames[f]
  OBVIOUS
<1>2. s \in Seq(Frame) /\ s # <<>>
  BY <1>1, Counts
<1>3. PICK n : n = Len(s)
  OBVIOUS
<1>4. n \in Nat /\ DOMAIN s = 1..n /\ n \in 1..n
  BY ONLY <1>2, <1>3
<1>5. m = s[n].id
  BY ONLY <1>1, <1>3, m = Last(frames[f]).id DEF Last
<1>6. FramesOK(f)
  BY DEF FirstInv, FibersOK, FiberOK
<1>7. m \in 1..calls
  BY ONLY <1>1, <1>4, <1>5, <1>6 DEF FramesOK
<1>8. calls \in Nat
  BY Counts
<1>9. m \in Nat /\ m # 0
  BY ONLY <1>7, <1>8
<1>10. frames'[f] = Front(frames[f]) /\ \A g \in Fibers \ {f} : frames'[g] = frames[g]
  BY Counts
<1> QED BY <1>9, <1>10, Counts DEF Leaves, Running, Id

LEMMA FirstBlockReturn ==
  ASSUME Inv, Memory, FirstInv, Memory', NEW f \in Fibers, BlockReturn(f)
  PROVE  fault' \/ FirstInv'
<1>1. PICK hit, acc, rec, recorded, m :
        /\ hit = {tp.data : tp \in Hits(Last(frames[f]).block)}
        /\ acc = Accepting(hit)
        /\ rec = {t \in acc : Last(heap[t].stack) # Null}
        /\ recorded = {Last(heap[t].stack) : t \in rec}
        /\ m = Last(frames[f]).id
  OBVIOUS
<1>2. /\ Running(f) /\ frames[f] # <<>> /\ frames' = [frames EXCEPT ![f] = Front(@)]
      /\ UNCHANGED <<tps, handler, calls>>
  BY DEF BlockReturn
<1>3. fault' \/ (/\ hit \subseteq DOMAIN heap
                 /\ heap' = [x \in DOMAIN heap |->
                      [heap[x] EXCEPT
                         !.by = IF x \in hit /\ heap[x].has THEN @ \union {f} ELSE @,
                         !.first.over = @ \/ (x \in hit /\ heap[x].first.call = m),
                         !.stack = IF x \in acc THEN Front(@) ELSE @,
                         !.traces = IF x \in rec THEN <<Last(heap[x].stack)>> ELSE @,
                         !.ret = IF x \in recorded THEN m ELSE @]])
  BY <1>1 DEF BlockReturn, Valid
<1> SUFFICES ASSUME /\ hit \subseteq DOMAIN heap
                    /\ heap' = [x \in DOMAIN heap |->
                         [heap[x] EXCEPT
                            !.by = IF x \in hit /\ heap[x].has THEN @ \union {f} ELSE @,
                            !.first.over = @ \/ (x \in hit /\ heap[x].first.call = m),
                            !.stack = IF x \in acc THEN Front(@) ELSE @,
                            !.traces = IF x \in rec THEN <<Last(heap[x].stack)>> ELSE @,
                            !.ret = IF x \in recorded THEN m ELSE @]]
             PROVE  FirstInv'
  BY <1>3
<1>4. Leaves(f, m)
  BY ONLY <1>1, <1>2, ReturnLeaves, Inv, FirstInv, f \in Fibers
<1>5. ASSUME NEW x \in DOMAIN heap PROVE EndsIn(x, f, m, hit, acc, rec)
  <2>1. PICK r, q, b, o, s, ts, n :
          /\ r = heap[x] /\ q = heap'[x]
          /\ b = IF x \in hit /\ heap[x].has THEN heap[x].by \union {f} ELSE heap[x].by
          /\ o = (heap[x].first.over \/ (x \in hit /\ heap[x].first.call = m))
          /\ s = IF x \in acc THEN Front(heap[x].stack) ELSE heap[x].stack
          /\ ts = IF x \in rec THEN <<Last(heap[x].stack)>> ELSE heap[x].traces
          /\ n = IF x \in recorded THEN m ELSE heap[x].ret
    OBVIOUS
  <2>2. IsTrace(r) /\ RecordOK(r)
    BY <2>1 DEF Memory, HeapOK, FirstInv, TracesOfOne, TraceOK
  <2>3. q = Ended(r, b, o, s, ts, n)
    BY <2>1 DEF Ended
  <2>4. /\ q.has = r.has /\ q.by = b /\ q.stack = s /\ q.traces = ts /\ q.ret = n
        /\ q.first = [call |-> r.first.call, block |-> r.first.block, over |-> o]
        /\ q.first.call = r.first.call /\ q.first.block = r.first.block /\ q.first.over = o
    BY ONLY <2>2, <2>3, EndedRecord
  <2>5. x \in recorded <=> \E y \in rec : Last(heap[y].stack) = x
    BY <1>1
  <2> QED BY <2>1, <2>4, <2>5 DEF EndsIn
<1>6. Ending(f, m, hit, acc, rec)
  <2>1. DOMAIN heap' = DOMAIN heap /\ hit \subseteq DOMAIN heap
    OBVIOUS
  <2>2. acc = {x \in hit : ~Ignores(x) /\ heap[x].stack # <<>>}
    BY <1>1 DEF Accepting
  <2>3. hit = {tp.data : tp \in {tq \in tps : Watched(Last(frames[f]), tq)}}
    BY <1>1 DEF Hits, Watched
  <2> HIDE <1>2, <1>3, <1>4
  <2> QED BY <1>1, <1>5, <2>1, <2>2, <2>3 DEF Ending
<1>7. DOMAIN heap' = DOMAIN heap /\ HeapOK' /\ LinksOK'
  BY <1>6 DEF Ending, Memory
<1>8. \A g \in Fibers : FiberOK(g)'
  BY <1>4, <1>6, <1>7, EndingFiber
<1>9. \A x \in DOMAIN heap : TraceOK(x)'
  BY <1>4, <1>6, <1>7, EndingTrace
<1> QED BY <1>7, <1>8, <1>9 DEF FirstInv, TracesOfOne, FibersOK

------------------------------------------------------------------------------
LEMMA FirstStep ==
  ASSUME Inv, Memory, fault \/ FirstInv, Memory', [Next]_vars
  PROVE  fault' \/ FirstInv'
<1>1. CASE fault
  BY <1>1, NextCases
     DEF MethodCall, FinishMethodCall, MethodReturn, BlockCall, HandleBlockCall, FinishBlockCall, BlockReturn,
         Start, Stop, Flush, WorkerTakes, WorkerFrees, WorkerFails, vars, Running
<1>2. CASE FirstInv
  <2>1. CASE Start \/ WorkerTakes \/ WorkerFails \/ UNCHANGED vars
    <3>1. UNCHANGED <<heap, tps, frames, handler, calls>>
      BY <2>1 DEF Start, WorkerTakes, WorkerFails, vars, program
    <3> QED BY <1>2, <3>1, SameIsSame, QuietKeeps
  <2>2. CASE Stop \/ Flush
    <3>1. /\ UNCHANGED <<frames, handler, calls>>
          /\ DOMAIN heap' \subseteq DOMAIN heap /\ \A t \in DOMAIN heap' : heap'[t] = heap[t]
      BY <2>2 DEF Stop, Flush, Without, program
    <3>2. tps' \subseteq tps /\ \A tp \in tps : Len(tp.data) # 1 => tp \in tps'
      <4>1. \A t \in onStack : Len(t) = 1
        BY DEF Inv, TracesOK, Methods, InUse
      <4> QED BY <2>2, <4>1 DEF Stop, Flush, Of
    <3> QED BY <1>2, <3>1, <3>2, SameIsSame, QuietKeeps
  <2>3. CASE WorkerFrees
    <3>1. /\ UNCHANGED <<tps, frames, handler, calls>>
          /\ DOMAIN heap' \subseteq DOMAIN heap /\ \A t \in DOMAIN heap' : heap'[t] = heap[t]
      BY <2>3 DEF WorkerFrees, Without, program
    <3> QED BY <1>2, <3>1, SameIsSame, QuietKeeps
  <2> QED
    BY <1>2, <2>1, <2>2, <2>3, NextCases, FirstMethodCall, FirstFinishMethodCall, FirstMethodReturn,
       FirstBlockCall, FirstHandleBlockCall, FirstFinishBlockCall, FirstBlockReturn
<1> QED BY <1>1, <1>2

(* If the calls of a method's block come from one fiber, the first of them   *)
(* is recorded once it is over, with the value which that very call returned:*)
(* pop_back in process_block_return_event meets the trace of the first call  *)
(* exactly when that call ends (racer.cc:640, 791).                          *)
THEOREM FirstCallsAreRecorded == Spec => []FirstCallIsRecorded
<1>1. Init => FirstInv
  BY FirstInit
<1>2. /\ Inv /\ Memory /\ (fault \/ FirstInv) /\ [Next]_vars /\ Memory' => (fault \/ FirstInv)'
  BY FirstStep
<1>3. Inv /\ Memory /\ (fault \/ FirstInv) => FirstCallIsRecorded
  BY FirstIsRecorded DEF FirstCallIsRecorded
<1> QED BY <1>1, <1>2, <1>3, MemoryInvariant, PTL DEF Spec

==============================================================================
