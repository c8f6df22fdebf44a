---------------------------- MODULE ExplorerProofs ----------------------------
(***************************************************************************)
(* Proofs about the exploration of constants, for any constants with any   *)
(* names and mixins and any number of fibers: each constant is explored    *)
(* and announced once, in time for the traces that name it, and by the     *)
(* name it keeps, and the collector gets what the declarations need.       *)
(***************************************************************************)
EXTENDS Declarations, SequenceTheorems, FiniteSetTheorems, WellFoundedInduction, TLAPS

(* The calls of explore_constant that a fiber is in.  What they have still   *)
(* to visit does not matter here, only which constants they are about.       *)
Record(r) == [const |-> r.const, todo |-> r.todo, inner |-> r.inner, up |-> r.up]
IsStack(s) == \E n \in Nat : s = [i \in 1..n |-> Record(s[i])]
Consts(s) == [i \in DOMAIN s |-> s[i].const]

------------------------------------------------------------------------------
(* Stacks of calls *)

LEMMA StackIsSeq ==
  ASSUME NEW s, IsStack(s)
  PROVE  \E n \in Nat :
           /\ s \in Seq({s[i] : i \in 1..n}) /\ Len(s) = n /\ DOMAIN s = 1..n
           /\ \A i \in 1..n : s[i] = Record(s[i])
<1>1. PICK n \in Nat : s = [i \in 1..n |-> Record(s[i])]
  BY DEF IsStack
<1>2. DOMAIN s = 1..n /\ \A i \in 1..n : s[i] = Record(s[i])
  <2> DEFINE R(i) == Record(s[i])
  <2>1. s = [i \in 1..n |-> R(i)]
    BY <1>1
  <2> HIDE DEF R
  <2>2. DOMAIN s = 1..n /\ \A i \in 1..n : s[i] = R(i)
    BY <2>1
  <2> QED BY <2>2 DEF R
<1>3. s = [i \in 1..n |-> s[i]]
  BY <1>1, <1>2
<1>4. s \in [1..n -> {s[i] : i \in 1..n}]
  BY <1>3
<1> HIDE <1>1
<1>5. s \in Seq({s[i] : i \in 1..n}) /\ Len(s) = n
  BY <1>2, <1>4
<1> QED BY <1>2, <1>5

(* A call whose todo or inner_constants change is still about its constant.  *)
LEMMA CallChanges ==
  ASSUME NEW s, IsStack(s), NEW m, NEW x,
         NEW t, t = [s EXCEPT ![m].todo = x] \/ t = [s EXCEPT ![m].inner = x]
  PROVE  IsStack(t) /\ Consts(t) = Consts(s) /\ DOMAIN t = DOMAIN s
<1>1. PICK n \in Nat : /\ s \in Seq({s[i] : i \in 1..n}) /\ Len(s) = n /\ DOMAIN s = 1..n
                      /\ \A i \in 1..n : s[i] = Record(s[i])
  BY StackIsSeq
<1>2. DOMAIN t = 1..n /\ t = [i \in 1..n |-> t[i]]
  BY <1>1
<1>3. ASSUME NEW i \in 1..n PROVE t[i] = Record(t[i]) /\ t[i].const = s[i].const
  <2>1. CASE i # m
    <3>1. t[i] = s[i]
      BY <1>1, <2>1
    <3> QED BY <3>1, <1>1
  <2>2. CASE i = m
    <3> DEFINE r == s[i]
    <3>1. t[i] = [r EXCEPT !.todo = x] \/ t[i] = [r EXCEPT !.inner = x]
      BY <1>1, <2>2
    <3>2. r = Record(r)
      BY <1>1
    <3> HIDE DEF r
    <3>3. t[i] = [const |-> r.const, todo |-> x, inner |-> r.inner, up |-> r.up]
          \/ t[i] = [const |-> r.const, todo |-> r.todo, inner |-> x, up |-> r.up]
      BY <3>1, <3>2 DEF Record
    <3> QED BY <3>3 DEF Record, r
  <2> QED BY <2>1, <2>2
<1>4. IsStack(t)
  BY <1>2, <1>3 DEF IsStack
<1> QED BY <1>1, <1>2, <1>3, <1>4 DEF Consts

LEMMA HandsUp ==
  ASSUME NEW s, IsStack(s), NEW vs
  PROVE  IsStack(HandUp(s, vs)) /\ Consts(HandUp(s, vs)) = Consts(s) /\ DOMAIN HandUp(s, vs) = DOMAIN s
<1>1. CASE Last(s).up
  <2> DEFINE m == Len(s) - 1
             x == s[m].inner \union vs
             t == [s EXCEPT ![m].inner = x]
  <2>1. HandUp(s, vs) = t
    BY <1>1 DEF HandUp
  <2> HIDE DEF m, x
  <2>2. IsStack(t) /\ Consts(t) = Consts(s) /\ DOMAIN t = DOMAIN s
    BY CallChanges
  <2> QED BY <2>1, <2>2
<1>2. CASE ~Last(s).up
  BY <1>2 DEF HandUp
<1> QED BY <1>1, <1>2

LEMMA ItemGoes ==
  ASSUME NEW s, IsStack(s)
  PROVE  IsStack(NextItem(s)) /\ Consts(NextItem(s)) = Consts(s) /\ DOMAIN NextItem(s) = DOMAIN s
<1> DEFINE m == Len(s)
           x == Tail(s[m].todo)
           t == [s EXCEPT ![m].todo = x]
<1>1. NextItem(s) = t
  BY DEF NextItem
<1> HIDE DEF m, x
<1>2. IsStack(t) /\ Consts(t) = Consts(s) /\ DOMAIN t = DOMAIN s
  BY CallChanges
<1> QED BY <1>1, <1>2

LEMMA ItemIsListed ==
  ASSUME NEW s, IsStack(s), NEW x
  PROVE  IsStack(Listed(s, x)) /\ Consts(Listed(s, x)) = Consts(s) /\ DOMAIN Listed(s, x) = DOMAIN s
<1> DEFINE h == HandUp(s, {x})
<1>1. IsStack(h) /\ Consts(h) = Consts(s) /\ DOMAIN h = DOMAIN s
  BY HandsUp
<1> HIDE DEF h
<1>2. IsStack(NextItem(h)) /\ Consts(NextItem(h)) = Consts(h) /\ DOMAIN NextItem(h) = DOMAIN h
  BY <1>1, ItemGoes
<1>3. Listed(s, x) = NextItem(h) \/ Listed(s, x) = NextItem(s)
  BY DEF Listed, h
<1> QED BY <1>1, <1>2, <1>3, ItemGoes

LEMMA CallBegins ==
  ASSUME NEW s, IsStack(s), NEW r, r = Record(r)
  PROVE  /\ IsStack(Append(s, r))
         /\ DOMAIN Append(s, r) = DOMAIN s \union {Len(s) + 1} /\ Len(s) + 1 \notin DOMAIN s
         /\ \A i \in DOMAIN s : Append(s, r)[i] = s[i]
         /\ Append(s, r)[Len(s) + 1] = r
<1>1. PICK n \in Nat : /\ s \in Seq({s[i] : i \in 1..n}) /\ Len(s) = n /\ DOMAIN s = 1..n
                      /\ \A i \in 1..n : s[i] = Record(s[i])
  BY StackIsSeq
<1> DEFINE t == Append(s, r)
           S == {s[i] : i \in 1..n} \union {r}
<1>2. s \in Seq(S)
  BY <1>1
<1> HIDE DEF S
<1>3. /\ DOMAIN t = 1..(n + 1) /\ t = [i \in 1..(n + 1) |-> t[i]]
      /\ \A i \in 1..n : t[i] = s[i]
      /\ t[n + 1] = r
  <2>1. r \in S
    BY DEF S
  <2>2. t \in Seq(S) /\ Len(t) = n + 1 /\ t[n + 1] = r /\ \A i \in 1..n : t[i] = s[i]
    BY <1>1, <1>2, <2>1, AppendProperties
  <2>3. DOMAIN t = 1..(n + 1)
    BY <2>2, LenProperties
  <2>4. t \in [1..(n + 1) -> S]
    BY <2>2, <2>3, LenProperties
  <2> QED BY <2>2, <2>3, <2>4
<1>4. \A i \in 1..(n + 1) : t[i] = Record(t[i])
  BY <1>1, <1>3
<1> HIDE DEF t
<1>5. IsStack(t)
  BY <1>3, <1>4 DEF IsStack
<1>6. 1..(n + 1) = 1..n \union {n + 1} /\ n + 1 \notin 1..n
  BY <1>1
<1> QED BY <1>1, <1>3, <1>5, <1>6 DEF t

LEMMA CallEnds ==
  ASSUME NEW s, IsStack(s), s # <<>>
  PROVE  /\ IsStack(Front(s)) /\ Len(s) \in DOMAIN s
         /\ DOMAIN Front(s) = DOMAIN s \ {Len(s)}
         /\ \A i \in DOMAIN Front(s) : Front(s)[i] = s[i]
<1>1. PICK n \in Nat : /\ s \in Seq({s[i] : i \in 1..n}) /\ Len(s) = n /\ DOMAIN s = 1..n
                      /\ \A i \in 1..n : s[i] = Record(s[i])
  BY StackIsSeq
<1>2. n >= 1
  BY <1>1
<1>3. /\ DOMAIN Front(s) = 1..(n - 1) /\ Front(s) = [i \in 1..(n - 1) |-> s[i]]
  BY <1>1, <1>2 DEF Front
<1>4. \A i \in 1..(n - 1) : Front(s)[i] = s[i] /\ s[i] = Record(s[i])
  BY <1>1, <1>2, <1>3
<1>5. Front(s) = [i \in 1..(n - 1) |-> Record(Front(s)[i])]
  BY <1>3, <1>4
<1>6. IsStack(Front(s))
  <2> DEFINE m == n - 1
  <2>1. m \in Nat
    BY <1>1, <1>2
  <2>2. Front(s) = [i \in 1..m |-> Record(Front(s)[i])]
    BY <1>5
  <2> HIDE DEF m
  <2> QED BY <2>1, <2>2 DEF IsStack
<1> QED BY <1>1, <1>2, <1>3, <1>4, <1>6

------------------------------------------------------------------------------
(* The invariant *)

Named == [const : known \intersect Constants, id : BOOLEAN]
Handed == [uses : Named, updates : Seq(known), open : SUBSET Constants]

TasksOK ==
  /\ tasks = [f \in Fibers |-> tasks[f]]
  /\ \A f \in Fibers : IsStack(tasks[f])
  /\ \A f \in Fibers : \A i \in DOMAIN tasks[f] : tasks[f][i].const \in known
  /\ \A f \in Fibers : 1 \in DOMAIN tasks[f] => tasks[f][1].const \in Constants
  /\ \A f \in Fibers : vm = f => 1 \in DOMAIN tasks[f]

LogOK ==
  /\ updates \in Seq(known) /\ log \in Seq(Handed)
  /\ uses \in [Fibers -> Named \union {None}]

(* A constant has one place if it is in constant_map, and none if not.       *)
Placed(k) == IF k \in known THEN \E w : Places(k) = {w} ELSE Places(k) = {}

ExplorerInv ==
  /\ TasksOK /\ LogOK /\ AnnouncedInTime
  /\ \A k \in Constants : Placed(k)

------------------------------------------------------------------------------
(* The three kinds of places a constant can have. *)

AtTask(ts, k) ==
  UNION {{<<"task", f, i>> : i \in {j \in DOMAIN ts[f] : ts[f][j].const = k}} : f \in Fibers}
AtUpdates(us, k) == {<<"updates", i>> : i \in {j \in DOMAIN us : us[j] = k}}
AtLog(lg, k) ==
  UNION {{<<"log", n, i>> : i \in {j \in DOMAIN lg[n].updates : lg[n].updates[j] = k}}
         : n \in DOMAIN lg}

LEMMA PlacesAre ==
  ASSUME NEW k
  PROVE  /\ Places(k) = AtUpdates(updates, k) \union AtTask(tasks, k) \union AtLog(log, k)
         /\ Places(k)' = AtUpdates(updates', k) \union AtTask(tasks', k) \union AtLog(log', k)
<1> USE DEF Places, AtTask, AtUpdates, AtLog
<1>1. Places(k) = AtUpdates(updates, k) \union AtTask(tasks, k) \union AtLog(log, k)
  OBVIOUS
<1>2. Places(k)' = AtUpdates(updates', k) \union AtTask(tasks', k) \union AtLog(log', k)
  OBVIOUS
<1> QED BY <1>1, <1>2

About(ts, g, i, k) == i \in DOMAIN ts[g] /\ ts[g][i].const = k

LEMMA TaskPlaces ==
  ASSUME NEW k, NEW ts, NEW w
  PROVE  w \in AtTask(ts, k) <=> \E g \in Fibers : \E i : About(ts, g, i, k) /\ w = <<"task", g, i>>
BY DEF AtTask, About

(* Stacks that are about the same constants. *)
LEMMA TasksAlike ==
  ASSUME NEW k, NEW ts, NEW us, \A g \in Fibers : \A i : About(ts, g, i, k) <=> About(us, g, i, k)
  PROVE  AtTask(ts, k) = AtTask(us, k)
<1>1. ASSUME NEW w PROVE w \in AtTask(ts, k) <=> w \in AtTask(us, k)
  <2>1. (\E g \in Fibers : \E i : About(ts, g, i, k) /\ w = <<"task", g, i>>)
          <=> (\E g \in Fibers : \E i : About(us, g, i, k) /\ w = <<"task", g, i>>)
    OBVIOUS
  <2> QED BY <2>1, TaskPlaces
<1> QED BY <1>1

LEMMA OneTask ==
  ASSUME NEW k, NEW ts, NEW f \in Fibers, NEW n,
         \A g \in Fibers : \A i : About(ts, g, i, k) <=> g = f /\ i = n
  PROVE  AtTask(ts, k) = {<<"task", f, n>>}
<1>1. ASSUME NEW w PROVE w \in AtTask(ts, k) <=> w = <<"task", f, n>>
  <2>1. (\E g \in Fibers : \E i : About(ts, g, i, k) /\ w = <<"task", g, i>>)
          <=> w = <<"task", f, n>>
    OBVIOUS
  <2> QED BY <2>1, TaskPlaces
<1> QED BY <1>1

LEMMA NoTask ==
  ASSUME NEW k, NEW ts, AtTask(ts, k) = {}, NEW g \in Fibers, NEW i
  PROVE  ~About(ts, g, i, k)
BY TaskPlaces

LEMMA OneMore ==
  ASSUME NEW us, NEW vs, NEW m, DOMAIN vs = DOMAIN us \union {m}, m \notin DOMAIN us,
         \A i \in DOMAIN us : vs[i] = us[i], NEW k
  PROVE  {i \in DOMAIN vs : vs[i] = k}
           = {i \in DOMAIN us : us[i] = k} \union (IF vs[m] = k THEN {m} ELSE {})
<1>1. ASSUME NEW i
      PROVE  i \in DOMAIN vs /\ vs[i] = k
               <=> (i \in DOMAIN us /\ us[i] = k) \/ (i = m /\ vs[m] = k)
  OBVIOUS
<1> QED BY <1>1

LEMMA OneMoreUpdate ==
  ASSUME NEW us, NEW vs, NEW m, DOMAIN vs = DOMAIN us \union {m}, m \notin DOMAIN us,
         \A i \in DOMAIN us : vs[i] = us[i], NEW k
  PROVE  /\ vs[m] # k => AtUpdates(vs, k) = AtUpdates(us, k)
         /\ vs[m] = k /\ AtUpdates(us, k) = {} => AtUpdates(vs, k) = {<<"updates", m>>}
<1> DEFINE At(q) == {i \in DOMAIN q : q[i] = k}
<1>1. At(vs) = At(us) \union (IF vs[m] = k THEN {m} ELSE {})
  BY OneMore
<1>2. AtUpdates(us, k) = {<<"updates", i>> : i \in At(us)}
      /\ AtUpdates(vs, k) = {<<"updates", i>> : i \in At(vs)}
  BY DEF AtUpdates
<1> HIDE DEF At
<1>3. AtUpdates(us, k) = {} => At(us) = {}
  <2>1. \A i \in At(us) : <<"updates", i>> \in AtUpdates(us, k)
    BY <1>2
  <2> QED BY <2>1
<1> QED BY <1>1, <1>2, <1>3

LEMMA ExplorerInit == Init => ExplorerInv
<1> SUFFICES ASSUME Init PROVE ExplorerInv
  OBVIOUS
<1>1. \A f \in Fibers : tasks[f] = <<>>
  BY DEF Init
<1>2. IsStack(<<>>)
  <2>1. <<>> = [i \in 1..0 |-> Record(<<>>[i])]
    OBVIOUS
  <2> QED BY <2>1 DEF IsStack
<1>3. TasksOK
  BY <1>1, <1>2, ExplorerAssumption DEF Init, TasksOK
<1>4. LogOK
  BY DEF Init, LogOK
<1>5. \A k \in Constants : Places(k) = {} /\ k \notin known
  BY <1>1 DEF Init, Places
<1>6. AnnouncedInTime
  BY DEF Init, AnnouncedInTime
<1> QED BY <1>3, <1>4, <1>5, <1>6 DEF ExplorerInv, Placed

(* What is in the log stays there, whatever becomes known besides.           *)
LEMMA LogStays ==
  ASSUME LogOK, known \subseteq known', UNCHANGED <<updates, log>>, AnnouncedInTime,
         uses' \in [Fibers -> (Named \union {None})']
  PROVE  LogOK' /\ AnnouncedInTime'
<1>1. Seq(known) \subseteq Seq(known')
  BY SeqMonotonic
<1>2. Handed \subseteq Handed'
  BY <1>1 DEF Handed, Named
<1>3. Seq(Handed) \subseteq Seq(Handed')
  BY <1>2, SeqMonotonic
<1>4. LogOK'
  BY <1>1, <1>3 DEF LogOK
<1>5. \A n : AnnouncedUpTo(n)' = AnnouncedUpTo(n)
  BY DEF AnnouncedUpTo
<1> QED BY <1>4, <1>5 DEF AnnouncedInTime

------------------------------------------------------------------------------
(* The steps *)

(* A step that begins and ends no call of explore_constant. *)
LEMMA CallsGoOn ==
  ASSUME ExplorerInv, NEW f \in Fibers, NEW t, IsStack(t), DOMAIN t = DOMAIN tasks[f],
         Consts(t) = Consts(tasks[f]), tasks' = [tasks EXCEPT ![f] = t],
         UNCHANGED <<known, updates, log>>, vm' \in {vm, None},
         uses' \in [Fibers -> (Named \union {None})']
  PROVE  ExplorerInv'
<1> USE DEF ExplorerInv, TasksOK
<1>1. \A i \in DOMAIN t : t[i].const = tasks[f][i].const
  BY DEF Consts
<1>2. \A g \in Fibers : /\ IsStack(tasks'[g]) /\ DOMAIN tasks'[g] = DOMAIN tasks[g]
                       /\ \A i \in DOMAIN tasks[g] : tasks'[g][i].const = tasks[g][i].const
  BY <1>1
<1>3. TasksOK'
  BY <1>2, ExplorerAssumption
<1>4. ASSUME NEW k PROVE Places(k)' = Places(k)
  <2>1. \A g \in Fibers : \A i : About(tasks', g, i, k) <=> About(tasks, g, i, k)
    BY <1>2 DEF About
  <2>2. AtTask(tasks', k) = AtTask(tasks, k)
    BY <2>1, TasksAlike
  <2> QED BY <2>2, PlacesAre
<1> QED BY <1>3, <1>4, LogStays DEF Placed

(* A call of explore_constant begins for a constant that is not yet known. *)
LEMMA CallEnters ==
  ASSUME ExplorerInv, NEW f \in Fibers, NEW x, x \notin known, NEW up, Enter(f, x, up),
         tasks[f] = <<>> => x \in Constants, vm' = f,
         UNCHANGED <<updates, log, uses>>
  PROVE  ExplorerInv'
<1> USE DEF ExplorerInv, TasksOK
<1> DEFINE s == tasks[f]
           r == [const |-> x, todo |-> Items(x), inner |-> {}, up |-> up]
           n == Len(s)
<1>1. tasks' = [tasks EXCEPT ![f] = Append(s, r)] /\ known' = known \union {x}
  BY DEF Enter
<1>2. IsStack(s) /\ r = Record(r) /\ r.const = x
  BY DEF Record
<1> HIDE DEF r
<1>3. /\ IsStack(Append(s, r)) /\ DOMAIN Append(s, r) = DOMAIN s \union {n + 1} /\ n + 1 \notin DOMAIN s
      /\ \A i \in DOMAIN s : Append(s, r)[i] = s[i]
      /\ Append(s, r)[n + 1] = r
  BY <1>2, CallBegins
<1>4. tasks'[f] = Append(s, r) /\ \A g \in Fibers \ {f} : tasks'[g] = tasks[g]
  BY <1>1
<1>5. 1 \in DOMAIN s \/ (n + 1 = 1 /\ x \in Constants)
  <2>1. PICK m \in Nat : s \in Seq({s[i] : i \in 1..m}) /\ Len(s) = m /\ DOMAIN s = 1..m
    BY <1>2, StackIsSeq
  <2>2. CASE m = 0
    BY <2>1, <2>2
  <2>3. CASE m # 0
    BY <2>1, <2>3
  <2> QED BY <2>2, <2>3
<1>6. TasksOK'
  <2>1. tasks' = [g \in Fibers |-> tasks'[g]]
    BY <1>1
  <2>2. \A g \in Fibers : IsStack(tasks'[g])
    BY <1>3, <1>4
  <2>3. \A g \in Fibers : \A i \in DOMAIN tasks'[g] : tasks'[g][i].const \in known'
    BY <1>1, <1>2, <1>3, <1>4
  <2>4. \A g \in Fibers : 1 \in DOMAIN tasks'[g] => tasks'[g][1].const \in Constants
    <3>1. 1 \in DOMAIN tasks'[f] => tasks'[f][1].const \in Constants
      BY <1>2, <1>3, <1>4, <1>5
    <3> QED BY <1>4, <3>1
  <2>5. \A g \in Fibers : vm' = g => 1 \in DOMAIN tasks'[g]
    BY <1>3, <1>4, <1>5
  <2> QED BY <2>1, <2>2, <2>3, <2>4, <2>5
<1>7. ASSUME NEW k, k # x PROVE Places(k)' = Places(k)
  <2>1. \A g \in Fibers : \A i : About(tasks', g, i, k) <=> About(tasks, g, i, k)
    BY <1>2, <1>3, <1>4, <1>7 DEF About
  <2>2. AtTask(tasks', k) = AtTask(tasks, k)
    BY <2>1, TasksAlike
  <2> QED BY <2>2, PlacesAre
<1>8. ASSUME x \in Constants PROVE Places(x)' = {<<"task", f, n + 1>>}
  <2>1. Places(x) = {}
    BY <1>8 DEF Placed
  <2>2. AtTask(tasks, x) = {} /\ AtUpdates(updates, x) = {} /\ AtLog(log, x) = {}
    BY <2>1, PlacesAre
  <2>3. \A g \in Fibers : \A i : ~About(tasks, g, i, x)
    BY <2>2, NoTask
  <2>4. \A g \in Fibers : \A i : About(tasks', g, i, x) <=> g = f /\ i = n + 1
    BY <1>2, <1>3, <1>4, <2>3 DEF About
  <2>5. AtTask(tasks', x) = {<<"task", f, n + 1>>}
    <3>1. PICK m, ts : m = n + 1 /\ ts = tasks'
      OBVIOUS
    <3>2. \A g \in Fibers : \A i : About(ts, g, i, x) <=> g = f /\ i = m
      BY <2>4, <3>1
    <3>3. AtTask(ts, x) = {<<"task", f, m>>}
      BY ONLY <3>2, OneTask, f \in Fibers
    <3> QED BY <3>1, <3>3
  <2> QED BY <2>2, <2>5, PlacesAre
<1>9. \A k \in Constants : Placed(k)'
  BY <1>1, <1>7, <1>8 DEF Placed
<1>10. LogOK' /\ AnnouncedInTime'
  <2>1. uses' \in [Fibers -> (Named \union {None})']
    BY <1>1 DEF LogOK, Named
  <2> QED BY <1>1, <2>1, LogStays
<1> QED BY <1>6, <1>9, <1>10

------------------------------------------------------------------------------
(* A call returns, and its constant waits for a trace to announce it. *)
LEMMA CallReturns ==
  ASSUME ExplorerInv, NEW f \in Fibers, Finish(f)
  PROVE  ExplorerInv'
<1> USE DEF ExplorerInv, TasksOK
<1>0. PICK s, n, k, h, rest, t :
        /\ s = tasks[f] /\ n = Len(s) /\ k = s[n].const
        /\ h = HandUp(s, Top(f).inner) /\ rest = Front(h) /\ t = tasks'[f]
  OBVIOUS
<1>1. IsStack(s) /\ s # <<>> /\ vm = f
  <2>1. vm = f
    BY DEF Finish, FinishWith
  <2> QED BY <1>0, <2>1
<1>2. IsStack(h) /\ Consts(h) = Consts(s) /\ DOMAIN h = DOMAIN s
  BY <1>0, <1>1, HandsUp
<1>3. n \in Nat \ {0} /\ DOMAIN s = 1..n /\ Len(h) = n /\ h # <<>>
  <2>1. PICK m \in Nat : s \in Seq({s[i] : i \in 1..m}) /\ Len(s) = m /\ DOMAIN s = 1..m
    BY <1>1, StackIsSeq
  <2>2. PICK l \in Nat : h \in Seq({h[i] : i \in 1..l}) /\ Len(h) = l /\ DOMAIN h = 1..l
    BY <1>2, StackIsSeq
  <2>3. m # 0
    BY <1>1, <2>1
  <2>4. l = m
    BY <1>2, <2>1, <2>2
  <2> QED BY <1>0, <2>1, <2>2, <2>3, <2>4
<1>4. IsStack(rest) /\ DOMAIN rest = 1..(n - 1) /\ \A i \in 1..(n - 1) : rest[i].const = s[i].const
  <2>1. IsStack(rest) /\ DOMAIN rest = DOMAIN h \ {n} /\ \A i \in DOMAIN rest : rest[i] = h[i]
    BY <1>0, <1>2, <1>3, CallEnds
  <2>2. \A i \in DOMAIN s : h[i].const = s[i].const
    BY <1>2 DEF Consts
  <2>3. DOMAIN rest = 1..(n - 1)
    BY <1>2, <1>3, <2>1
  <2>4. \A i \in 1..(n - 1) : i \in DOMAIN s
    BY <1>3
  <2> QED BY <2>1, <2>2, <2>3, <2>4
<1>5. /\ updates' = Append(updates, k) /\ UNCHANGED <<known, log>>
      /\ tasks' = [tasks EXCEPT ![f] = t]
      /\ t = rest \/ t = Listed(rest, k)
      /\ IF rest = <<>> THEN uses' = [uses EXCEPT ![f] = Name(k)] /\ vm' = None
                        ELSE UNCHANGED <<uses, vm>>
  BY <1>0 DEF Finish, FinishWith, Top, Last
<1>6. IsStack(t) /\ DOMAIN t = 1..(n - 1) /\ \A i \in 1..(n - 1) : t[i].const = s[i].const
  <2>1. CASE t = rest
    BY <1>4, <2>1
  <2>2. CASE t = Listed(rest, k)
    <3>3. IsStack(t) /\ Consts(t) = Consts(rest) /\ DOMAIN t = DOMAIN rest
      BY <1>4, <2>2, ItemIsListed
    <3>4. DOMAIN t = DOMAIN rest /\ \A i \in DOMAIN rest : t[i].const = rest[i].const
      BY <3>3 DEF Consts
    <3> QED BY <1>4, <3>3, <3>4
  <2> QED BY <1>5, <2>1, <2>2
<1>7. k \in known /\ (rest = <<>> => k \in Constants)
  <2>1. n \in DOMAIN s
    BY <1>3
  <2>2. rest = <<>> => n = 1
    <3>1. rest = <<>> => 1..(n - 1) = {}
      BY <1>4
    <3> QED BY <1>3, <3>1
  <2> QED BY <1>0, <2>1, <2>2
<1>8. TasksOK'
  <2>1. \A g \in Fibers \ {f} : tasks'[g] = tasks[g]
    BY <1>5
  <2>2. \A i \in DOMAIN t : i \in DOMAIN s
    BY <1>3, <1>6
  <2>3. \A i \in DOMAIN t : t[i].const \in known
    BY <1>0, <1>6, <2>2
  <2>4. 1 \in DOMAIN t => t[1].const \in Constants
    BY <1>0, <1>6, <2>2
  <2>5. tasks' = [g \in Fibers |-> tasks'[g]]
    BY <1>5
  <2>6. vm' \in {f, None} /\ (vm' = f => 1 \in DOMAIN t)
    <3>1. CASE rest = <<>>
      BY <1>5, <3>1, ExplorerAssumption
    <3>2. CASE rest # <<>>
      <4>1. PICK m \in Nat : rest \in Seq({rest[i] : i \in 1..m}) /\ Len(rest) = m /\ DOMAIN rest = 1..m
        BY <1>4, StackIsSeq
      <4>2. m # 0
        BY <3>2, <4>1
      <4>3. 1 \in 1..m
        BY <4>2
      <4>4. 1 \in DOMAIN t
        BY <1>4, <1>6, <4>1, <4>3
      <4> QED BY <1>1, <1>5, <3>2, <4>4
    <3> QED BY <3>1, <3>2
  <2>7. \A g \in Fibers : vm' = g => 1 \in DOMAIN tasks'[g]
    BY <1>0, <2>6, ExplorerAssumption
  <2> QED BY <1>0, <1>5, <1>6, <2>1, <2>3, <2>4, <2>5, <2>7
<1>12. /\ updates' \in Seq(known) /\ Len(updates) \in Nat /\ Len(updates') = Len(updates) + 1
       /\ updates'[Len(updates) + 1] = k /\ \A i \in 1..Len(updates) : updates'[i] = updates[i]
       /\ DOMAIN updates = 1..Len(updates) /\ DOMAIN updates' = 1..(Len(updates) + 1)
  <2>1. updates \in Seq(known) /\ Len(updates) \in Nat /\ DOMAIN updates = 1..Len(updates)
    BY LenProperties DEF LogOK
  <2>2. updates' \in Seq(known) /\ Len(updates') = Len(updates) + 1 /\ updates'[Len(updates) + 1] = k
        /\ \A i \in 1..Len(updates) : updates'[i] = updates[i]
    BY <1>5, <1>7, <2>1, AppendProperties
  <2>3. DOMAIN updates' = 1..(Len(updates) + 1)
    BY <2>2, LenProperties
  <2> QED BY <2>1, <2>2, <2>3
<1>13. PICK us, vs, m : us = updates /\ vs = updates' /\ m = Len(updates) + 1
  OBVIOUS
<1>9. /\ DOMAIN vs = DOMAIN us \union {m} /\ m \notin DOMAIN us
      /\ \A i \in DOMAIN us : vs[i] = us[i]
      /\ vs[m] = k
  <2>1. 1..m = 1..(m - 1) \union {m} /\ m \notin 1..(m - 1) /\ Len(updates) = m - 1
    BY <1>12, <1>13
  <2>2. DOMAIN us = 1..(m - 1) /\ DOMAIN vs = 1..m
    BY <1>12, <1>13, <2>1
  <2>3. \A i \in 1..(m - 1) : vs[i] = us[i]
    BY <1>12, <1>13, <2>1
  <2>4. vs[m] = k
    BY <1>12, <1>13
  <2> QED BY ONLY <2>1, <2>2, <2>3, <2>4
<1>10. LogOK' /\ AnnouncedInTime'
  <2>1. uses' \in [Fibers -> (Named \union {None})']
    <3>1. rest = <<>> => Name(k) \in Named
      BY <1>7 DEF Name, Named
    <3> QED BY <1>5, <3>1 DEF LogOK, Named
  <2>2. Handed' = Handed
    BY <1>5 DEF Handed, Named
  <2>3. LogOK'
    BY <1>5, <1>12, <2>1, <2>2 DEF LogOK
  <2>4. \A i : AnnouncedUpTo(i)' = AnnouncedUpTo(i)
    BY <1>5 DEF AnnouncedUpTo
  <2> QED BY <1>5, <2>3, <2>4 DEF AnnouncedInTime
<1>11. ASSUME NEW j \in Constants PROVE Placed(j)'
  <2>1. CASE j # k
    <3>1. \A g \in Fibers : \A i : About(tasks', g, i, j) <=> About(tasks, g, i, j)
      <4>1. \A i : About(tasks', f, i, j) <=> About(tasks, f, i, j)
        BY <1>3, <1>5, <1>6, <2>1, <1>0 DEF About
      <4> QED BY <1>5, <4>1 DEF About
    <3>2. AtTask(tasks', j) = AtTask(tasks, j)
      BY <3>1, TasksAlike
    <3>3. AtUpdates(updates', j) = AtUpdates(updates, j)
      <4>1. AtUpdates(vs, j) = AtUpdates(us, j)
        BY ONLY <1>9, <2>1, OneMoreUpdate
      <4> QED BY <1>13, <4>1
    <3>4. Places(j)' = Places(j)
      BY <1>5, <3>2, <3>3, PlacesAre
    <3> QED BY <1>5, <3>4 DEF Placed
  <2>2. CASE j = k
    <3>1. PICK w : Places(k) = {w}
      BY <1>7, <2>2 DEF Placed
    <3>2. <<"task", f, n>> \in AtTask(tasks, k)
      <4>1. About(tasks, f, n, k)
        BY <1>0, <1>3 DEF About
      <4> QED BY <4>1, TaskPlaces
    <3>3. w = <<"task", f, n>>
      BY <3>1, <3>2, PlacesAre
    <3>4. AtUpdates(updates, k) = {} /\ AtLog(log, k) = {}
      <4>1. \A v \in AtUpdates(updates, k) : v # <<"task", f, n>>
        BY DEF AtUpdates
      <4>2. \A v \in AtLog(log, k) : v # <<"task", f, n>>
        BY DEF AtLog
      <4> QED BY <3>1, <3>3, <4>1, <4>2, PlacesAre
    <3>5. \A g \in Fibers : \A i : About(tasks, g, i, k) => g = f /\ i = n
      <4> SUFFICES ASSUME NEW g \in Fibers, NEW i, About(tasks, g, i, k) PROVE g = f /\ i = n
        OBVIOUS
      <4>1. <<"task", g, i>> \in AtTask(tasks, k)
        BY TaskPlaces
      <4>2. <<"task", g, i>> = <<"task", f, n>>
        BY <3>1, <3>3, <4>1, PlacesAre
      <4> QED BY <4>2
    <3>6. \A g \in Fibers : \A i : ~About(tasks', g, i, k)
      <4>1. \A i : ~About(tasks', f, i, k)
        <5> SUFFICES ASSUME NEW i, About(tasks', f, i, k) PROVE FALSE
          OBVIOUS
        <5>1. i \in 1..(n - 1) /\ t[i].const = k
          BY <1>0, <1>6 DEF About
        <5>2. About(tasks, f, i, k) /\ i # n
          BY <1>0, <1>3, <1>6, <5>1 DEF About
        <5> QED BY <3>5, <5>2
      <4> QED BY <1>5, <3>5, <4>1 DEF About
    <3>7. AtTask(tasks', k) = {}
      BY <3>6, TaskPlaces
    <3>8. AtUpdates(vs, k) = {<<"updates", m>>}
      <4>1. AtUpdates(us, k) = {}
        BY <1>13, <3>4
      <4> QED BY ONLY <1>9, <4>1, OneMoreUpdate
    <3>9. Places(k)' = {<<"updates", m>>}
      BY <1>5, <1>13, <3>4, <3>7, <3>8, PlacesAre
    <3> QED BY <1>5, <1>7, <2>2, <3>9 DEF Placed
  <2> QED BY <2>1, <2>2
<1> QED BY <1>8, <1>10, <1>11

(* A trace takes all the waiting constants along.  What it mentions is known,*)
(* so it is announced by now, or another fiber is still exploring it.        *)
LEMMA TraceEmitted ==
  ASSUME ExplorerInv, NEW f \in Fibers, Emit(f)
  PROVE  ExplorerInv'
<1> USE DEF ExplorerInv
<1>0. PICK l, e : l = Len(log) + 1 /\ e = [uses |-> uses[f], updates |-> updates, open |-> OnTasks]
  OBVIOUS
<1>1. /\ log' = Append(log, e) /\ updates' = <<>> /\ uses' = [uses EXCEPT ![f] = None]
      /\ UNCHANGED <<known, tasks>> /\ uses[f] # None
  BY <1>0 DEF Emit
<1>2. /\ e \in Handed /\ e.updates = updates /\ e.uses = uses[f] /\ e.open = OnTasks
      /\ uses[f].const \in known /\ uses[f].const \in Constants
  <2>1. uses[f] \in Named
    BY <1>1 DEF LogOK
  <2>2. OnTasks \subseteq Constants
    BY DEF OnTasks
  <2> QED BY <1>0, <2>1, <2>2 DEF LogOK, Handed, Named
<1>3. /\ log' \in Seq(Handed) /\ l \in Nat \ {0} /\ Len(log) = l - 1 /\ DOMAIN log = 1..(l - 1)
      /\ DOMAIN log' = 1..l /\ log'[l] = e /\ \A i \in 1..(l - 1) : log'[i] = log[i]
  <2>1. log \in Seq(Handed) /\ Len(log) \in Nat /\ DOMAIN log = 1..Len(log)
    BY LenProperties DEF LogOK
  <2>2. log' \in Seq(Handed) /\ Len(log') = Len(log) + 1 /\ log'[Len(log) + 1] = e
        /\ \A i \in 1..Len(log) : log'[i] = log[i]
    BY <1>1, <1>2, <2>1, AppendProperties
  <2>3. DOMAIN log' = 1..Len(log')
    BY <2>2, LenProperties
  <2> QED BY <1>0, <2>1, <2>2, <2>3
<1>4. TasksOK'
  BY <1>1, ExplorerAssumption DEF TasksOK, Emit
<1>5. LogOK'
  <2>1. (Named \union {None})' = Named \union {None} /\ Handed' = Handed
    BY <1>1 DEF Handed, Named
  <2>2. uses' \in [Fibers -> Named \union {None}]
    BY <1>1 DEF LogOK
  <2> QED BY <1>1, <1>3, <2>1, <2>2, EmptySeq DEF LogOK
<1>6. \A i \in 1..(l - 1) : AnnouncedUpTo(i)' = AnnouncedUpTo(i)
  <2> SUFFICES ASSUME NEW i \in 1..(l - 1) PROVE AnnouncedUpTo(i)' = AnnouncedUpTo(i)
    OBVIOUS
  <2>1. \A j \in 1..i : log'[j] = log[j]
    BY <1>3
  <2> QED BY <2>1 DEF AnnouncedUpTo
<1>7. ASSUME NEW k, k \in known, k \in Constants
      PROVE  k \in (AnnouncedUpTo(l) \union log[l].open)'
  <2>1. PICK w : w \in Places(k)
    BY <1>7 DEF Placed
  <2>2. CASE w \in AtTask(tasks, k)
    <3>1. \E g \in Fibers : \E i : About(tasks, g, i, k)
      BY <2>2, TaskPlaces
    <3>2. k \in OnTasks
      BY <1>7, <3>1 DEF OnTasks, About
    <3> QED BY <1>2, <1>3, <3>2
  <2>3. CASE w \in AtUpdates(updates, k)
    <3>1. \E i \in DOMAIN updates : updates[i] = k
      BY <2>3 DEF AtUpdates
    <3>2. k \in Range(log'[l].updates)
      BY <1>2, <1>3, <3>1 DEF Range
    <3>3. l \in 1..l
      BY <1>3
    <3> QED BY <3>2, <3>3 DEF AnnouncedUpTo
  <2>4. CASE w \in AtLog(log, k)
    <3>1. PICK n \in DOMAIN log : \E i \in DOMAIN log[n].updates : log[n].updates[i] = k
      BY <2>4 DEF AtLog
    <3>2. n \in 1..l /\ log'[n] = log[n]
      BY <1>3
    <3>3. k \in Range(log'[n].updates)
      BY <3>1, <3>2 DEF Range
    <3> QED BY <3>2, <3>3 DEF AnnouncedUpTo
  <2> QED BY <2>1, <2>2, <2>3, <2>4, PlacesAre
<1>8. AnnouncedInTime'
  <2> SUFFICES ASSUME NEW n \in 1..l
               PROVE  log'[n].uses.const \in (AnnouncedUpTo(n) \union log[n].open)'
    BY <1>3 DEF AnnouncedInTime
  <2>1. CASE n = l
    BY <1>2, <1>3, <1>7, <2>1
  <2>2. CASE n # l
    <3>1. n \in 1..(l - 1)
      BY <1>3, <2>2
    <3> QED BY <1>3, <1>6, <3>1 DEF AnnouncedInTime
  <2> QED BY <2>1, <2>2
<1>9. ASSUME NEW k \in Constants PROVE Placed(k)'
  <2>1. AtTask(tasks', k) = AtTask(tasks, k) /\ AtUpdates(updates', k) = {}
    BY <1>1 DEF AtUpdates
  <2> DEFINE new == {<<"log", l, i>> : i \in {j \in DOMAIN updates : updates[j] = k}}
  <2>2. AtLog(log', k) = AtLog(log, k) \union new
    <3> DEFINE At(lg, n) == {<<"log", n, i>> : i \in {j \in DOMAIN lg[n].updates : lg[n].updates[j] = k}}
    <3>1. At(log', l) = new /\ \A n \in 1..(l - 1) : At(log', n) = At(log, n)
      BY <1>2, <1>3
    <3>2. AtLog(log', k) = UNION {At(log', n) : n \in 1..l} /\ AtLog(log, k) = UNION {At(log, n) : n \in 1..(l - 1)}
      BY <1>3 DEF AtLog
    <3>3. 1..l = 1..(l - 1) \union {l}
      BY <1>3
    <3> HIDE DEF At, new
    <3> QED BY <3>1, <3>2, <3>3
  <2>3. Places(k) = AtUpdates(updates, k) \union AtTask(tasks, k) \union AtLog(log, k)
        /\ Places(k)' = AtTask(tasks, k) \union AtLog(log, k) \union new
    BY <2>1, <2>2, PlacesAre
  <2>4. CASE \E i \in DOMAIN updates : updates[i] = k
    <3>1. PICK i \in DOMAIN updates : updates[i] = k
      BY <2>4
    <3>2. <<"updates", i>> \in AtUpdates(updates, k)
      BY <3>1 DEF AtUpdates
    <3>3. k \in known /\ Places(k) = {<<"updates", i>>}
      BY <2>3, <3>2 DEF Placed
    <3>4. AtTask(tasks, k) = {} /\ AtLog(log, k) = {}
      <4>1. \A v \in AtTask(tasks, k) : v # <<"updates", i>>
        BY DEF AtTask
      <4>2. \A v \in AtLog(log, k) : v # <<"updates", i>>
        BY DEF AtLog
      <4> QED BY <2>3, <3>3, <4>1, <4>2
    <3>5. \A j \in DOMAIN updates : updates[j] = k => j = i
      <4> SUFFICES ASSUME NEW j \in DOMAIN updates, updates[j] = k PROVE j = i
        OBVIOUS
      <4>1. <<"updates", j>> \in AtUpdates(updates, k)
        BY DEF AtUpdates
      <4>2. <<"updates", j>> = <<"updates", i>>
        BY <2>3, <3>3, <4>1
      <4> QED BY <4>2
    <3>6. new = {<<"log", l, i>>}
      <4>1. {j \in DOMAIN updates : updates[j] = k} = {i}
        BY <3>1, <3>5
      <4> QED BY <4>1
    <3> HIDE DEF new
    <3> QED BY <1>1, <2>3, <3>3, <3>4, <3>6 DEF Placed
  <2>5. CASE ~ \E i \in DOMAIN updates : updates[i] = k
    <3>1. AtUpdates(updates, k) = {} /\ new = {}
      BY <2>5 DEF AtUpdates
    <3> HIDE DEF new
    <3>2. Places(k)' = Places(k)
      BY <2>3, <3>1
    <3> QED BY <1>1, <3>2 DEF Placed
  <2> QED BY <2>4, <2>5
<1> QED BY <1>4, <1>5, <1>8, <1>9

------------------------------------------------------------------------------
(* The theorems *)

LEMMA ExplorerStep ==
  ASSUME ExplorerInv, [Next]_vars
  PROVE  ExplorerInv'
<1> USE DEF ExplorerInv, TasksOK
<1>0. uses \in [Fibers -> (Named \union {None})]
  BY DEF LogOK
<1>1. ASSUME NEW f \in Fibers, NEW k \in Constants, Begin(f, k) PROVE ExplorerInv'
  <2>1. CASE k \in known
    <3>1. uses' = [uses EXCEPT ![f] = Name(k)] /\ UNCHANGED <<known, tasks, updates, log, vm>>
      BY <1>1, <2>1 DEF Begin
    <3>2. Name(k) \in Named
      BY <2>1 DEF Name, Named
    <3>3. uses' \in [Fibers -> (Named \union {None})']
      BY <1>0, <3>1, <3>2 DEF Named
    <3>4. tasks' = [tasks EXCEPT ![f] = tasks[f]]
      BY <3>1
    <3> QED BY <3>1, <3>3, <3>4, CallsGoOn
  <2>2. CASE k \notin known
    BY <1>1, <2>2, CallEnters DEF Begin
  <2> QED BY <2>1, <2>2
<1>2. ASSUME NEW f \in Fibers, RunRuby(f) \/ Rename(f) \/ SkipInner(f) \/ Known(f) PROVE ExplorerInv'
  <2>1. UNCHANGED <<known, updates, log, uses>> /\ vm' \in {vm, None}
    BY <1>2 DEF RunRuby, Rename, SkipInner, Known
  <2>2. uses' \in [Fibers -> (Named \union {None})']
    BY <1>0, <2>1 DEF Named
  <2>3. \E t : /\ IsStack(t) /\ Consts(t) = Consts(tasks[f]) /\ DOMAIN t = DOMAIN tasks[f]
               /\ tasks' = [tasks EXCEPT ![f] = t]
    <3>1. CASE RunRuby(f)
      <4> DEFINE m == Len(tasks[f])
                 x == [tasks[f][m].todo EXCEPT ![1].ruby = FALSE]
                 t == [tasks[f] EXCEPT ![m].todo = x]
      <4>1. tasks' = [tasks EXCEPT ![f] = t]
        BY <3>1 DEF RunRuby
      <4> HIDE DEF m, x
      <4>2. IsStack(t) /\ Consts(t) = Consts(tasks[f]) /\ DOMAIN t = DOMAIN tasks[f]
        BY CallChanges
      <4> QED BY <4>1, <4>2
    <3>2. CASE Rename(f)
      <4> DEFINE m == Len(tasks[f])
                 x == OwnAncestors(Top(f).const) \o Extends(Top(f).const)
                 t == [tasks[f] EXCEPT ![m].todo = x]
      <4>1. tasks' = [tasks EXCEPT ![f] = t]
        BY <3>2 DEF Rename
      <4> HIDE DEF m, x
      <4>2. IsStack(t) /\ Consts(t) = Consts(tasks[f]) /\ DOMAIN t = DOMAIN tasks[f]
        BY CallChanges
      <4> QED BY <4>1, <4>2
    <3>3. CASE SkipInner(f)
      BY <3>3, ItemGoes DEF SkipInner
    <3>4. CASE Known(f)
      <4>1. \E x : tasks' = [tasks EXCEPT ![f] = Listed(tasks[f], x)]
        BY <3>4 DEF Known
      <4> QED BY <4>1, ItemIsListed
    <3> QED BY <1>2, <3>1, <3>2, <3>3, <3>4
  <2> QED BY <2>1, <2>2, <2>3, CallsGoOn
<1>3. ASSUME NEW f \in Fibers, Descend(f) PROVE ExplorerInv'
  <2>1. tasks[f] # <<>> /\ vm = f
    BY <1>3 DEF Descend, Visits, Exploring
  <2> QED BY <1>3, <2>1, CallEnters DEF Descend
<1>4. ASSUME NEW f \in Fibers, Finish(f) PROVE ExplorerInv'
  BY <1>4, CallReturns
<1>5. ASSUME NEW f \in Fibers, Emit(f) PROVE ExplorerInv'
  BY <1>5, TraceEmitted
<1>6. ASSUME UNCHANGED <<known, tasks, updates, log, uses>>,
             \A f \in Fibers : vm' = f => 1 \in DOMAIN tasks[f]
      PROVE  ExplorerInv'
  <2>1. TasksOK'
    BY <1>6
  <2>2. \A k : Places(k)' = Places(k)
    BY <1>6 DEF Places
  <2>3. uses' \in [Fibers -> (Named \union {None})']
    BY <1>0, <1>6 DEF Named
  <2>4. LogOK' /\ AnnouncedInTime'
    BY <1>6, <2>3, LogStays
  <2> QED BY <1>6, <2>1, <2>2, <2>4 DEF Placed
<1>7. ASSUME NEW f \in Fibers, Resume(f) PROVE ExplorerInv'
  <2>1. UNCHANGED <<known, tasks, updates, log, uses>> /\ vm' = f /\ tasks[f] # <<>>
    BY <1>7 DEF Resume
  <2>2. PICK m \in Nat : tasks[f] \in Seq({tasks[f][i] : i \in 1..m}) /\ Len(tasks[f]) = m
                         /\ DOMAIN tasks[f] = 1..m
    BY StackIsSeq
  <2>3. m # 0
    BY <2>1, <2>2
  <2>4. 1 \in DOMAIN tasks[f]
    BY <2>2, <2>3
  <2> QED BY <1>6, <2>1, <2>4
<1>8. CASE UNCHANGED vars
  BY <1>6, <1>8 DEF vars
<1> QED BY <1>1, <1>2, <1>3, <1>4, <1>5, <1>7, <1>8 DEF Next, Done

LEMMA ExplorerInvariant == Spec => []ExplorerInv
BY ExplorerInit, ExplorerStep, PTL DEF Spec

(* Whatever cycles names and mixins form, and however many fibers explore at *)
(* once, every constant of constant_map is being explored, waits in          *)
(* constant_updates or was announced: one of them, and once.                 *)
THEOREM ConstantsAreAccounted == Spec => []ConstantsAccounted
<1>1. ExplorerInv => ConstantsAccounted
  BY FS_Singleton, FS_EmptySet DEF ExplorerInv, Placed, ConstantsAccounted
<1> QED BY <1>1, ExplorerInvariant, PTL

(* The constant a trace mentions was announced with it or before, unless     *)
(* some fiber is still exploring it.                                         *)
THEOREM AnnouncementsInTime == Spec => []AnnouncedInTime
<1>1. ExplorerInv => AnnouncedInTime
  BY DEF ExplorerInv
<1> QED BY <1>1, ExplorerInvariant, PTL

------------------------------------------------------------------------------
(* Names *)

(* The name of k has a namespace that is not there any more. *)
Unfound(k) == \E i \in DOMAIN Path[k] : Path[k][i].finds = Missing

(* What a call about k may still have to visit. *)
AnItem == [role : Roles \union {"space"}, const : Constants \union {Missing}, ruby : BOOLEAN]
Visitable(k) == {item \in AnItem : item.const = Missing => item.role = "space" /\ Unfound(k)}

Calls == {c \in [const : Constants, todo : Seq(AnItem), inner : SUBSET Constants, up : BOOLEAN] :
            c.todo \in Seq(Visitable(c.const))}

(* Only the innermost call may have nothing to visit: each other one waits   *)
(* for the item it explores.                                                 *)
IsCallStack(s) ==
  /\ s \in Seq(Calls)
  /\ s # <<>> => ~s[1].up
  /\ \A i \in 1..(Len(s) - 1) : s[i].todo # <<>>

(* The next step names k after its object id. *)
MissingItem == [role |-> "space", const |-> Missing, ruby |-> FALSE]
Renaming(k, f) ==
  /\ vm = f /\ tasks[f] # <<>>
  /\ Top(f).const = k /\ Top(f).todo # <<>> /\ Item1(f) = MissingItem

(* A name that stays true.  A constant that is renamed at once has none      *)
(* before that.                                                              *)
RightNames ==
  {n \in [const : known, id : BOOLEAN] :
     /\ RenamedAtOnce(n.const) => n.const \in renamed
     /\ n.id = (n.const \in renamed) \/ RenamedLate(n.const)}

TypesOK ==
  /\ known \subseteq Constants /\ vm \in Fibers \union {None}
  /\ renamed \subseteq {k \in known : Unfound(k)}
  /\ \A f \in Fibers : IsCallStack(tasks[f])

AtOnceOK ==
  \A k \in known : RenamedAtOnce(k) => k \in renamed \/ \E f \in Fibers : Renaming(k, f)

NamesOK ==
  /\ lists \in [Constants -> [Roles -> Seq(RightNames)]]
  /\ uses \in [Fibers -> RightNames \union {None}]
  /\ \A i \in DOMAIN log : log[i].uses \in RightNames

NameInv == TypesOK /\ AtOnceOK /\ NamesOK

------------------------------------------------------------------------------
(* What a call visits *)

LEMMA ModulesTyped ==
  ASSUME NEW k, NEW role \in Roles, NEW s \in Seq(Constants)
  PROVE  Modules(role, s) \in Seq(Visitable(k))
<1>1. PICK n \in Nat : n = Len(s) /\ DOMAIN s = 1..n /\ \A i \in 1..n : s[i] \in Constants
  <2>1. Len(s) \in Nat /\ DOMAIN s = 1..Len(s) /\ \A i \in 1..Len(s) : s[i] \in Constants
    BY LenProperties, ElementOfSeq
  <2> QED BY <2>1
<1>2. ASSUME NEW i \in 1..n PROVE Item(role, s[i]) \in Visitable(k)
  BY <1>1, <1>2, ExplorerAssumption DEF Item, Visitable, AnItem
<1>3. Modules(role, s) = [i \in 1..n |-> Item(role, s[i])]
  BY <1>1 DEF Modules
<1> QED BY <1>2, <1>3

(* The scan of the ancestors ends somewhere. *)
LEMMA ScanEnds ==
  ASSUME NEW n \in Nat, NEW S \in SUBSET (1..n)
  PROVE  \E e \in 1..(n + 1) : (\A i \in 1..(e - 1) : i \notin S) /\ (e <= n => e \in S)
<1>1. CASE S = {}
  <2>1. n + 1 \in 1..(n + 1) /\ ~(n + 1 <= n)
    OBVIOUS
  <2> QED BY <1>1, <2>1
<1>2. CASE S # {}
  <2>1. S \subseteq Nat
    OBVIOUS
  <2>2. \E x \in S : \A y \in S : ~(<<y, x>> \in OpToRel(<, Nat))
    BY <1>2, <2>1, WFMin, NatLessThanWellFounded
  <2>3. PICK x \in S : \A y \in S : <<y, x>> \notin OpToRel(<, Nat)
    BY <2>2
  <2>4. \A y \in S : ~(y < x)
    BY <2>1, <2>3 DEF OpToRel
  <2>5. x \in 1..(n + 1) /\ \A i \in 1..(x - 1) : i < x
    BY <2>1
  <2> QED BY <2>4, <2>5
<1> QED BY <1>1, <1>2

LEMMA AncestorsTyped ==
  ASSUME NEW k \in Constants
  PROVE  OwnAncestors(k) \in Seq(Visitable(k))
<1> DEFINE chain == Ancestors[k]
           own == CHOOSE i \in DOMAIN chain : chain[i] = k
           Ends(i) == \/ chain[i] = StopObject(k)
                      \/ k \in Classes /\ chain[i] \in Classes /\ i > own
           end == CHOOSE n \in 1..(Len(chain) + 1) :
                    /\ \A i \in 1..(n - 1) : ~Ends(i)
                    /\ n <= Len(chain) => Ends(n)
           before == IF own < end THEN own ELSE end
           modules == Modules("prepended", SubSeq(chain, 1, before - 1))
                        \o Modules("included", SubSeq(chain, own + 1, end - 1))
<1>1. OwnAncestors(k) = IF end <= Len(chain) /\ chain[end] # StopObject(k)
                          THEN Append(modules, Item("superclass", chain[end]))
                          ELSE modules
  BY DEF OwnAncestors
<1>2. chain \in Seq(Constants) /\ Contains(chain, k)
  BY ExplorerAssumption
<1>3. PICK n \in Nat : n = Len(chain) /\ DOMAIN chain = 1..n /\ \A i \in 1..n : chain[i] \in Constants
  <2>1. Len(chain) \in Nat /\ DOMAIN chain = 1..Len(chain) /\ \A i \in 1..Len(chain) : chain[i] \in Constants
    BY <1>2, LenProperties, ElementOfSeq
  <2> QED BY <2>1
<1>4. own \in 1..n
  <2>1. \E i \in DOMAIN chain : chain[i] = k
    BY <1>2, <1>3 DEF Contains
  <2> QED BY <1>3, <2>1
<1>5. end \in 1..(n + 1)
  <2> HIDE DEF own, chain
  <2>1. \E e \in 1..(n + 1) : (\A i \in 1..(e - 1) : i \notin {j \in 1..n : Ends(j)})
                              /\ (e <= n => e \in {j \in 1..n : Ends(j)})
    <3> HIDE DEF Ends
    <3> QED BY ScanEnds
  <2>2. PICK e \in 1..(n + 1) : (\A i \in 1..(e - 1) : i \notin {j \in 1..n : Ends(j)})
                                /\ (e <= n => e \in {j \in 1..n : Ends(j)})
    BY <2>1
  <2>3. \A i \in 1..(e - 1) : i \in 1..n
    OBVIOUS
  <2>4. (\A i \in 1..(e - 1) : ~Ends(i)) /\ (e <= Len(chain) => Ends(e))
    <3> HIDE DEF Ends
    <3> QED BY <1>3, <2>2, <2>3
  <2> HIDE DEF Ends
  <2> QED BY <1>3, <2>4
<1> HIDE DEF chain, own, end
<1>6. before - 1 \in Int /\ own + 1 \in Int /\ end - 1 \in Int /\ before - 1 <= n /\ end - 1 <= n
  BY <1>4, <1>5
<1>7. SubSeq(chain, 1, before - 1) \in Seq(Constants) /\ SubSeq(chain, own + 1, end - 1) \in Seq(Constants)
  <2>1. \A i \in 1..(before - 1) : chain[i] \in Constants
    BY <1>3, <1>6
  <2>2. \A i \in (own + 1)..(end - 1) : chain[i] \in Constants
    BY <1>3, <1>4, <1>6
  <2> HIDE DEF before
  <2> QED BY <1>6, <2>1, <2>2, SubSeqProperties
<1>8. modules \in Seq(Visitable(k))
  <2> HIDE DEF before
  <2>1. "prepended" \in Roles /\ "included" \in Roles
    BY DEF Roles, ModuleRoles
  <2>2. /\ Modules("prepended", SubSeq(chain, 1, before - 1)) \in Seq(Visitable(k))
        /\ Modules("included", SubSeq(chain, own + 1, end - 1)) \in Seq(Visitable(k))
    BY <1>7, <2>1, ModulesTyped
  <2> QED BY <2>2, ConcatProperties
<1> HIDE DEF modules
<1>9. end <= Len(chain) => Item("superclass", chain[end]) \in Visitable(k)
  <2>1. end <= Len(chain) => chain[end] \in Constants
    BY <1>3, <1>5
  <2> QED BY <2>1, ExplorerAssumption DEF Item, Visitable, AnItem, Roles
<1> QED BY <1>1, <1>8, <1>9, AppendProperties

LEMMA ItemsTyped ==
  ASSUME NEW k \in Constants
  PROVE  /\ OwnAncestors(k) \o Extends(k) \in Seq(Visitable(k))
         /\ Items(k) \in Seq(Visitable(k))
         /\ RenamedAtOnce(k) => Items(k) # <<>> /\ Head(Items(k)) = MissingItem
<1>1. Extends(k) \in Seq(Visitable(k))
  <2>1. Extenders[k] \in Seq(Constants)
    <3>1. Extenders[k] \in Seq(Constants \ Classes) /\ Constants \ Classes \subseteq Constants
      BY ExplorerAssumption
    <3> QED BY <3>1, SeqMonotonic
  <2>2. "extended" \in Roles
    BY DEF Roles, ModuleRoles
  <2> QED BY <2>1, <2>2, ModulesTyped DEF Extends
<1>2. PICK p, n : p = Path[k] /\ n = Len(p)
  OBVIOUS
<1>3. /\ n \in Nat /\ DOMAIN p = 1..n
      /\ \A i \in 1..n : p[i] \in [finds : Constants \union {Missing}, ruby : BOOLEAN]
  BY <1>2, ExplorerAssumption, LenProperties, ElementOfSeq
<1>4. Spaces(k) = [i \in 1..n |-> [role |-> "space", const |-> p[i].finds, ruby |-> p[i].ruby]]
  BY <1>2, <1>3 DEF Spaces
<1>5. ASSUME NEW i \in 1..n
      PROVE  [role |-> "space", const |-> p[i].finds, ruby |-> p[i].ruby] \in Visitable(k)
  BY <1>2, <1>3 DEF Visitable, AnItem, Unfound
<1>6. Spaces(k) \in Seq(Visitable(k)) /\ Len(Spaces(k)) = n
  BY <1>3, <1>4, <1>5
<1>7. OwnAncestors(k) \in Seq(Visitable(k))
  BY AncestorsTyped
<1>8. Spaces(k) \o OwnAncestors(k) \in Seq(Visitable(k))
      /\ OwnAncestors(k) \o Extends(k) \in Seq(Visitable(k))
  BY <1>1, <1>6, <1>7, ConcatProperties
<1>9. Items(k) \in Seq(Visitable(k))
  BY <1>1, <1>8, ConcatProperties DEF Items
<1>10. ASSUME RenamedAtOnce(k) PROVE Items(k) # <<>> /\ Head(Items(k)) = MissingItem
  <2>1. p # <<>> /\ p[1] = [finds |-> Missing, ruby |-> FALSE] /\ n >= 1
    BY <1>2, <1>3, <1>10, ExplorerAssumption, EmptySeq DEF RenamedAtOnce
  <2>2. Spaces(k)[1] = MissingItem
    <3>1. Spaces(k)[1] = [role |-> "space", const |-> p[1].finds, ruby |-> p[1].ruby]
      <4> DEFINE It(i) == [role |-> "space", const |-> p[i].finds, ruby |-> p[i].ruby]
      <4>1. Spaces(k) = [i \in 1..n |-> It(i)] /\ 1 \in 1..n
        BY <1>3, <1>4, <2>1
      <4> HIDE DEF It
      <4>2. Spaces(k)[1] = It(1)
        BY <4>1
      <4> QED BY <4>2 DEF It
    <3>2. p[1].finds = Missing /\ p[1].ruby = FALSE
      BY <2>1
    <3> QED BY <3>1, <3>2 DEF MissingItem
  <2>3. (Spaces(k) \o OwnAncestors(k))[1] = MissingItem /\ Len(Spaces(k) \o OwnAncestors(k)) >= 1
    BY <1>3, <1>6, <1>7, <2>1, <2>2, ConcatProperties, LenProperties
  <2>4. Items(k)[1] = MissingItem /\ Len(Items(k)) >= 1
    BY <1>1, <1>8, <2>3, ConcatProperties, LenProperties DEF Items
  <2> QED BY <1>9, <2>4
<1> QED BY <1>8, <1>9, <1>10

------------------------------------------------------------------------------
(* Stacks of calls and what they still have to visit *)

LEMMA CallsOf ==
  ASSUME NEW s, IsCallStack(s), NEW i \in 1..Len(s)
  PROVE  /\ s[i] \in Calls /\ s[i].const \in Constants /\ s[i].todo \in Seq(Visitable(s[i].const))
         /\ s[i].inner \in SUBSET Constants /\ s[i].up \in BOOLEAN
<1>1. s[i] \in Calls
  BY ElementOfSeq DEF IsCallStack
<1> QED BY <1>1 DEF Calls

LEMMA VisitableSeqs ==
  ASSUME NEW k, NEW x \in Seq(Visitable(k))
  PROVE  x \in Seq(AnItem)
<1>1. Visitable(k) \subseteq AnItem
  BY DEF Visitable
<1> QED BY <1>1, SeqMonotonic

LEMMA CallWith ==
  ASSUME NEW c \in Calls, NEW x \in Seq(Visitable(c.const)), NEW vs \in SUBSET Constants
  PROVE  /\ [c EXCEPT !.todo = x] \in Calls /\ [c EXCEPT !.inner = vs] \in Calls
         /\ [c EXCEPT !.todo = x].up = c.up /\ [c EXCEPT !.inner = vs].up = c.up
         /\ [c EXCEPT !.inner = vs].todo = c.todo /\ [c EXCEPT !.inner = vs].const = c.const
         /\ [c EXCEPT !.todo = x].const = c.const /\ [c EXCEPT !.todo = x].todo = x
BY VisitableSeqs DEF Calls

LEMMA StackWith ==
  ASSUME NEW s, IsCallStack(s), NEW m \in 1..Len(s), NEW c \in Calls, c.up = s[m].up,
         m < Len(s) => c.todo # <<>>,
         NEW t \in Seq(Calls), Len(t) = Len(s),
         \A i \in 1..Len(s) : t[i] = IF i = m THEN c ELSE s[i]
  PROVE  IsCallStack(t)
<1>1. s \in Seq(Calls)
  BY DEF IsCallStack
<1>2. \A i \in 1..Len(s) : t[i] = IF i = m THEN c ELSE s[i]
  OBVIOUS
<1>3. Len(s) \in Nat /\ 1 \in 1..Len(s) /\ s # <<>>
  BY <1>1, LenProperties
<1>4. ~t[1].up
  BY <1>2, <1>3 DEF IsCallStack
<1>5. ASSUME NEW i \in 1..(Len(t) - 1) PROVE t[i].todo # <<>>
  <2>1. i \in 1..Len(s) /\ i < Len(s) /\ i \in 1..(Len(s) - 1)
    BY <1>2, <1>3
  <2> QED BY <1>2, <2>1 DEF IsCallStack
<1>6. IsCallStack(t)
  BY <1>2, <1>4, <1>5 DEF IsCallStack
<1> QED BY <1>6

LEMMA StackTop ==
  ASSUME NEW s, IsCallStack(s), s # <<>>
  PROVE  Len(s) \in Nat \ {0} /\ Len(s) \in 1..Len(s) /\ Last(s) = s[Len(s)] /\ Last(s) \in Calls
<1>1. s \in Seq(Calls)
  BY DEF IsCallStack
<1>2. Len(s) \in Nat \ {0}
  BY <1>1, EmptySeq
<1>3. s[Len(s)] \in Calls
  BY <1>1, <1>2, ElementOfSeq
<1> QED BY <1>2, <1>3 DEF Last

(* The innermost call gets something else to visit. *)
LEMMA TodoBecomes ==
  ASSUME NEW s, IsCallStack(s), s # <<>>, NEW x \in Seq(Visitable(Last(s).const))
  PROVE  /\ IsCallStack([s EXCEPT ![Len(s)].todo = x])
         /\ [s EXCEPT ![Len(s)].todo = x] # <<>>
         /\ Last([s EXCEPT ![Len(s)].todo = x]).const = Last(s).const
<1>1. PICK m, c : m = Len(s) /\ c = [s[m] EXCEPT !.todo = x]
  OBVIOUS
<1>2. m \in Nat \ {0} /\ m \in 1..Len(s) /\ Last(s) = s[m] /\ s[m] \in Calls
  BY <1>1, StackTop
<1>3. c \in Calls /\ c.up = s[m].up /\ c.const = s[m].const
  BY <1>1, <1>2, CallWith
<1>4. PICK t : t = [s EXCEPT ![m] = c]
  OBVIOUS
<1>5. IsCallStack(t) /\ Len(t) = m /\ t[m] = c
  <2>1. s \in Seq(Calls) /\ m \in 1..Len(s) /\ c \in Calls /\ c.up = s[m].up /\ ~(m < Len(s))
    BY <1>1, <1>2, <1>3 DEF IsCallStack
  <2>2. t \in Seq(Calls) /\ Len(t) = Len(s) /\ \A i \in 1..Len(s) : t[i] = IF i = m THEN c ELSE s[i]
    BY ONLY <1>4, <2>1, ExceptSeq
  <2>3. IsCallStack(t)
    BY <2>1, <2>2, StackWith
  <2> QED BY <1>1, <2>1, <2>2, <2>3
<1>6. t # <<>> /\ Last(t) = c
  BY <1>2, <1>5 DEF Last
<1>7. t = [s EXCEPT ![Len(s)].todo = x]
  BY <1>1, <1>4
<1> QED BY <1>2, <1>3, <1>5, <1>6, <1>7

LEMMA ItemPasses ==
  ASSUME NEW s, IsCallStack(s), s # <<>>, Last(s).todo # <<>>
  PROVE  IsCallStack(NextItem(s))
<1>1. PICK m, x : m = Len(s) /\ x = Tail(s[m].todo)
  OBVIOUS
<1>2. x \in Seq(Visitable(Last(s).const))
  <2>1. Last(s) \in Calls /\ s[m] = Last(s)
    BY <1>1, StackTop
  <2>2. Last(s).todo \in Seq(Visitable(Last(s).const))
    BY <2>1 DEF Calls
  <2> QED BY <1>1, <2>1, <2>2, HeadTailProperties
<1>3. IsCallStack([s EXCEPT ![Len(s)].todo = x])
  BY <1>2, TodoBecomes
<1>4. NextItem(s) = [s EXCEPT ![Len(s)].todo = x]
  BY <1>1 DEF NextItem
<1> QED BY <1>3, <1>4

LEMMA HandsUpCalls ==
  ASSUME NEW s, IsCallStack(s), s # <<>>, NEW vs \in SUBSET Constants
  PROVE  /\ IsCallStack(HandUp(s, vs)) /\ HandUp(s, vs) # <<>> /\ Len(HandUp(s, vs)) = Len(s)
         /\ \A i \in 1..Len(s) : /\ HandUp(s, vs)[i].todo = s[i].todo
                                 /\ HandUp(s, vs)[i].const = s[i].const
<1>1. PICK n \in Nat \ {0} : n = Len(s) /\ Last(s) = s[n]
  BY StackTop
<1>2. CASE ~Last(s).up
  BY <1>2 DEF HandUp
<1>3. CASE Last(s).up
  <2>1. n # 1
    BY <1>1, <1>3 DEF IsCallStack
  <2>2. PICK m : m = n - 1
    OBVIOUS
  <2>3. m \in 1..Len(s) /\ m < Len(s) /\ m \in 1..(Len(s) - 1)
    BY <1>1, <2>1, <2>2
  <2>4. s[m] \in Calls /\ s[m].inner \union vs \in SUBSET Constants /\ s[m].todo # <<>>
        /\ s[m].todo \in Seq(Visitable(s[m].const))
    BY <2>3, CallsOf DEF IsCallStack
  <2>5. PICK c : c = [s[m] EXCEPT !.inner = s[m].inner \union vs]
    OBVIOUS
  <2>6. c \in Calls /\ c.up = s[m].up /\ c.todo = s[m].todo /\ c.const = s[m].const
    BY <2>4, <2>5, CallWith
  <2>7. PICK t : t = [s EXCEPT ![m] = c]
    OBVIOUS
  <2>8. IsCallStack(t) /\ Len(t) = Len(s) /\ \A i \in 1..Len(s) : t[i] = IF i = m THEN c ELSE s[i]
    <3>1. s \in Seq(Calls) /\ m \in 1..Len(s) /\ c \in Calls /\ c.up = s[m].up /\ c.todo # <<>>
      BY <2>3, <2>4, <2>6 DEF IsCallStack
    <3>2. t \in Seq(Calls) /\ Len(t) = Len(s) /\ \A i \in 1..Len(s) : t[i] = IF i = m THEN c ELSE s[i]
      BY ONLY <2>7, <3>1, ExceptSeq
    <3>3. IsCallStack(t)
      BY <3>1, <3>2, StackWith
    <3> QED BY <3>2, <3>3
  <2>9. HandUp(s, vs) = t
    BY <1>1, <1>3, <2>2, <2>5, <2>7 DEF HandUp
  <2>10. t # <<>>
    BY <1>1, <2>8
  <2> QED BY <2>6, <2>8, <2>9, <2>10
<1> QED BY <1>2, <1>3

LEMMA ListedCalls ==
  ASSUME NEW s, IsCallStack(s), s # <<>>, Last(s).todo # <<>>, NEW x \in Constants
  PROVE  IsCallStack(Listed(s, x))
<1>1. PICK h : h = HandUp(s, {x})
  OBVIOUS
<1>2. IsCallStack(h) /\ h # <<>> /\ Len(h) = Len(s)
      /\ \A i \in 1..Len(s) : h[i].todo = s[i].todo
  BY <1>1, HandsUpCalls
<1>3. Last(h).todo # <<>>
  BY <1>2, StackTop
<1>4. Listed(s, x) = NextItem(h) \/ Listed(s, x) = NextItem(s)
  BY <1>1 DEF Listed
<1> QED BY <1>2, <1>3, <1>4, ItemPasses

LEMMA CallAdded ==
  ASSUME NEW s, IsCallStack(s), s # <<>> => Last(s).todo # <<>>, NEW k \in Constants,
         NEW up \in BOOLEAN, s = <<>> => ~up
  PROVE  LET c == [const |-> k, todo |-> Items(k), inner |-> {}, up |-> up]
             t == Append(s, c)
         IN  IsCallStack(t) /\ t # <<>> /\ Last(t) = c
<1>1. PICK c : c = [const |-> k, todo |-> Items(k), inner |-> {}, up |-> up]
  OBVIOUS
<1>2. c \in Calls /\ c.up = up
  BY <1>1, ItemsTyped, VisitableSeqs DEF Calls
<1>3. PICK t, n : t = Append(s, c) /\ n = Len(s)
  OBVIOUS
<1>4. /\ t \in Seq(Calls) /\ t # <<>> /\ Len(t) = n + 1 /\ n \in Nat
      /\ \A i \in 1..n : t[i] = s[i]
      /\ t[n + 1] = c
  BY <1>2, <1>3, AppendProperties, LenProperties DEF IsCallStack
<1>5. ~t[1].up
  <2>1. CASE n = 0
    <3>1. s = <<>>
      BY <1>3, <2>1, EmptySeq DEF IsCallStack
    <3> QED BY <1>2, <1>4, <2>1, <3>1
  <2>2. CASE n # 0
    <3>1. 1 \in 1..n /\ s # <<>>
      BY <1>3, <1>4, <2>2
    <3> QED BY <1>4, <3>1 DEF IsCallStack
  <2> QED BY <2>1, <2>2
<1>6. ASSUME NEW i \in 1..(Len(t) - 1) PROVE t[i].todo # <<>>
  <2>1. i \in 1..n /\ t[i] = s[i] /\ s # <<>>
    BY <1>3, <1>4
  <2>2. CASE i = n
    BY <1>3, <2>1, <2>2, StackTop
  <2>3. CASE i # n
    <3>1. i \in 1..(n - 1)
      BY <1>4, <2>1, <2>3
    <3> QED BY <1>3, <2>1, <3>1 DEF IsCallStack
  <2> QED BY <2>2, <2>3
<1>7. IsCallStack(t)
  BY <1>4, <1>5, <1>6 DEF IsCallStack
<1>8. Last(t) = c
  BY <1>4 DEF Last
<1> QED BY <1>1, <1>3, <1>4, <1>7, <1>8

LEMMA CallRemoved ==
  ASSUME NEW s, IsCallStack(s), s # <<>>
  PROVE  IsCallStack(Front(s)) /\ (Front(s) # <<>> => Last(Front(s)).todo # <<>>)
<1>1. PICK n \in Nat \ {0} : n = Len(s)
  BY StackTop
<1>2. s \in Seq(Calls)
  BY DEF IsCallStack
<1>3. PICK t : t = Front(s)
  OBVIOUS
<1>4. t \in Seq(Calls) /\ Len(t) = n - 1 /\ \A i \in 1..(n - 1) : t[i] = s[i]
  <2>1. \A i \in 1..(n - 1) : s[i] \in Calls
    BY <1>1, <1>2, ElementOfSeq
  <2>2. t = [i \in 1..(n - 1) |-> s[i]]
    BY <1>1, <1>3 DEF Front
  <2>3. n - 1 \in Nat
    BY <1>1
  <2> QED BY <2>1, <2>2, <2>3
<1>5. t # <<>> => ~t[1].up /\ n - 1 >= 1
  <2>1. t # <<>> => n - 1 >= 1
    BY <1>1, <1>4, EmptySeq
  <2> QED BY <1>1, <1>4, <2>1 DEF IsCallStack
<1>6. \A i \in 1..(n - 1) : t[i].todo # <<>>
  BY <1>1, <1>4 DEF IsCallStack
<1>7. IsCallStack(t)
  <2>1. \A i \in 1..(Len(t) - 1) : i \in 1..(n - 1)
    BY <1>1, <1>4
  <2> QED BY <1>4, <1>5, <1>6, <2>1 DEF IsCallStack
<1>8. t # <<>> => Last(t).todo # <<>>
  <2> SUFFICES ASSUME t # <<>> PROVE Last(t).todo # <<>>
    OBVIOUS
  <2>1. Last(t) = t[n - 1] /\ n - 1 \in 1..(n - 1)
    BY <1>1, <1>4, <1>5 DEF Last
  <2> QED BY <1>6, <2>1
<1> QED BY <1>3, <1>7, <1>8

------------------------------------------------------------------------------
(* The steps and the names *)

Settled == \A k \in known : RenamedAtOnce(k) => k \in renamed

(* A constant without its name has the VM lock, and is about to get it.      *)
LEMMA SettledUnless ==
  ASSUME NameInv,
         vm = None \/ \E f \in Fibers : vm = f /\ (Top(f).todo = <<>> \/ Item1(f) # MissingItem)
  PROVE  Settled
<1>1. ASSUME NEW k, NEW g \in Fibers, Renaming(k, g) PROVE FALSE
  <2>1. vm = g /\ Top(g).todo # <<>> /\ Item1(g) = MissingItem
    BY <1>1 DEF Renaming
  <2>2. None \notin Fibers
    BY ExplorerAssumption
  <2> QED BY <2>1, <2>2
<1> QED BY <1>1 DEF NameInv, AtOnceOK, Settled

LEMMA SettledIsOK ==
  ASSUME Settled, known' = known, renamed \subseteq renamed'
  PROVE  AtOnceOK'
BY DEF Settled, AtOnceOK

LEMMA NewName ==
  ASSUME NEW k \in known, Settled
  PROVE  Name(k) \in RightNames
BY DEF Settled, RightNames, Name

(* No step makes a name wrong. *)
LEMMA NamesStayRight ==
  ASSUME known \subseteq known',
         renamed' = renamed \/ \E k : Unfound(k) /\ renamed' = renamed \union {k}
  PROVE  RightNames \subseteq RightNames'
<1>1. CASE renamed' = renamed
  BY <1>1 DEF RightNames
<1>2. ASSUME NEW k, Unfound(k), renamed' = renamed \union {k} PROVE RightNames \subseteq RightNames'
  <2>1. RenamedAtOnce(k) \/ RenamedLate(k)
    BY <1>2 DEF Unfound, RenamedLate
  <2>2. RenamedLate(k)' = RenamedLate(k) /\ \A j : RenamedAtOnce(j)' = RenamedAtOnce(j)
    BY DEF RenamedLate, RenamedAtOnce
  <2>3. ASSUME NEW n \in RightNames PROVE n \in RightNames'
    <3>1. /\ n \in [const : known', id : BOOLEAN]
          /\ RenamedAtOnce(n.const) => n.const \in renamed
          /\ n.id = (n.const \in renamed) \/ RenamedLate(n.const)
      BY <2>3 DEF RightNames
    <3>2. CASE n.const # k
      <4>1. n.const \in renamed' <=> n.const \in renamed
        BY <1>2, <3>2
      <4> QED BY <3>1, <4>1 DEF RightNames
    <3>3. CASE n.const = k /\ RenamedLate(k)
      BY <1>2, <3>1, <3>3 DEF RightNames
    <3>4. CASE n.const = k /\ RenamedAtOnce(k)
      <4>1. renamed' = renamed
        BY <1>2, <3>1, <3>4
      <4> QED BY <3>1, <4>1 DEF RightNames
    <3> QED BY <2>1, <3>2, <3>3, <3>4
  <2> QED BY <2>3
<1> QED BY <1>1, <1>2

LEMMA NamesGoOn ==
  ASSUME NamesOK, known \subseteq known', UNCHANGED <<lists, uses, log>>,
         renamed' = renamed \/ \E k : Unfound(k) /\ renamed' = renamed \union {k}
  PROVE  NamesOK'
<1>1. RightNames \subseteq RightNames'
  BY NamesStayRight
<1>2. Seq(RightNames) \subseteq Seq(RightNames')
  BY <1>1, SeqMonotonic
<1>3. lists' \in [Constants -> [Roles -> Seq(RightNames')]]
  BY <1>2 DEF NamesOK
<1>4. uses' \in [Fibers -> RightNames' \union {None}]
  BY <1>1 DEF NamesOK
<1>5. \A i \in DOMAIN log' : log'[i].uses \in RightNames'
  BY <1>1 DEF NamesOK
<1> QED BY <1>3, <1>4, <1>5 DEF NamesOK

(* explore_constant begins: a name that is to change at once has not been    *)
(* copied by anybody.                                                        *)
LEMMA NamedEnters ==
  ASSUME ExplorerInv, NameInv, Settled, NEW f \in Fibers, NEW x \in Constants, NEW up \in BOOLEAN,
         tasks[f] = <<>> => ~up, tasks[f] # <<>> => Last(tasks[f]).todo # <<>>,
         Enter(f, x, up), vm' = f, UNCHANGED <<renamed, lists, uses, log>>
  PROVE  NameInv'
<1>1. PICK c, t : /\ c = [const |-> x, todo |-> Items(x), inner |-> {}, up |-> up]
                  /\ t = Append(tasks[f], c)
  OBVIOUS
<1>2. known' = known \union {x} /\ tasks' = [tasks EXCEPT ![f] = t]
  BY <1>1 DEF Enter
<1>3. IsCallStack(t) /\ t # <<>> /\ Last(t) = c
  BY <1>1, CallAdded DEF NameInv, TypesOK
<1>4. tasks'[f] = t /\ \A g \in Fibers \ {f} : tasks'[g] = tasks[g]
  BY <1>2 DEF ExplorerInv, TasksOK
<1>5. TypesOK'
  <2>1. \A g \in Fibers : IsCallStack(tasks'[g])
    BY <1>3, <1>4 DEF NameInv, TypesOK
  <2>2. known' \subseteq Constants /\ vm' \in Fibers \union {None}
        /\ renamed' \subseteq {k \in known' : Unfound(k)}
    BY <1>2 DEF NameInv, TypesOK
  <2> QED BY <2>1, <2>2 DEF TypesOK, IsCallStack, Unfound
<1>6. AtOnceOK'
  <2>1. ASSUME NEW k \in known', RenamedAtOnce(k), k \notin renamed PROVE Renaming(k, f)'
    <3>1. k = x
      BY <1>2, <2>1 DEF Settled
    <3>2. Items(x) # <<>> /\ Head(Items(x)) = MissingItem
      BY <2>1, <3>1, ItemsTyped
    <3>3. c.const = x /\ c.todo = Items(x)
      BY <1>1
    <3> QED BY <1>3, <1>4, <3>1, <3>2, <3>3 DEF Renaming, Top, Item1, MissingItem
  <2> QED BY <2>1 DEF AtOnceOK, RenamedAtOnce
<1>7. NamesOK'
  BY <1>2, NamesGoOn DEF NameInv
<1> QED BY <1>5, <1>6, <1>7 DEF NameInv

(* A step that changes what the calls of f still visit. *)
LEMMA NamedGoesOn ==
  ASSUME ExplorerInv, NameInv, NEW f \in Fibers, NEW t, tasks' = [tasks EXCEPT ![f] = t],
         IsCallStack(t), known' = known, vm' \in Fibers \union {None}, renamed' = renamed
  PROVE  TypesOK'
<1>1. tasks'[f] = t /\ \A g \in Fibers \ {f} : tasks'[g] = tasks[g]
  BY DEF ExplorerInv, TasksOK
<1>2. \A g \in Fibers : IsCallStack(tasks'[g])
  BY <1>1 DEF NameInv, TypesOK
<1> QED BY <1>2 DEF NameInv, TypesOK, IsCallStack, Unfound

LEMMA NamedBegin ==
  ASSUME ExplorerInv, NameInv, NEW f \in Fibers, NEW k \in Constants, Begin(f, k)
  PROVE  NameInv'
<1>1. Settled
  BY SettledUnless DEF Begin
<1>2. CASE k \in known
  <2>1. /\ uses' = [uses EXCEPT ![f] = Name(k)]
        /\ UNCHANGED <<known, tasks, vm, renamed, lists, log>>
    BY <1>2 DEF Begin
  <2>2. Name(k) \in RightNames /\ RightNames' = RightNames
    BY <1>1, <1>2, <2>1, NewName DEF RightNames
  <2>3. NamesOK'
    BY <2>1, <2>2 DEF NameInv, NamesOK
  <2>4. TypesOK'
    BY <2>1 DEF NameInv, TypesOK
  <2> QED BY <1>1, <2>1, <2>3, <2>4, SettledIsOK DEF NameInv
<1>3. CASE k \notin known
  <2>1. tasks[f] = <<>> /\ Enter(f, k, FALSE) /\ vm' = f /\ UNCHANGED <<renamed, lists, uses, log>>
    BY <1>3 DEF Begin
  <2> QED BY <1>1, <2>1, NamedEnters
<1> QED BY <1>2, <1>3

(* The innermost call and its next item. *)
LEMMA Innermost ==
  ASSUME NameInv, NEW f \in Fibers, tasks[f] # <<>>
  PROVE  /\ IsCallStack(tasks[f])
         /\ Top(f).const \in Constants /\ Top(f).todo \in Seq(Visitable(Top(f).const))
         /\ Top(f).inner \in SUBSET Constants
         /\ Top(f).todo # <<>> => Item1(f) \in Visitable(Top(f).const) /\ Item1(f) = Top(f).todo[1]
<1>1. IsCallStack(tasks[f])
  BY DEF NameInv, TypesOK
<1>2. Top(f) \in Calls
  BY <1>1, StackTop DEF Top
<1>3. Top(f).todo \in Seq(Visitable(Top(f).const))
  BY <1>2 DEF Calls
<1>4. Top(f).todo # <<>> => Item1(f) \in Visitable(Top(f).const) /\ Item1(f) = Top(f).todo[1]
  BY <1>3, HeadTailProperties DEF Item1
<1> QED BY <1>1, <1>2, <1>3, <1>4 DEF Calls

LEMMA HasCalls ==
  ASSUME ExplorerInv, NEW f \in Fibers, vm = f
  PROVE  tasks[f] # <<>>
BY DEF ExplorerInv, TasksOK

LEMMA NamedRunRuby ==
  ASSUME ExplorerInv, NameInv, NEW f \in Fibers, RunRuby(f)
  PROVE  NameInv'
<1>1. /\ vm = f /\ Top(f).todo # <<>> /\ Item1(f).ruby /\ vm' = None
      /\ UNCHANGED <<known, renamed, lists, uses, log>>
  BY DEF RunRuby, Exploring
<1>2. tasks[f] # <<>>
  BY <1>1, HasCalls
<1>3. Settled
  BY <1>1, SettledUnless DEF MissingItem
<1>4. PICK k, s, item : k = Top(f).const /\ s = Top(f).todo /\ item = [s[1] EXCEPT !.ruby = FALSE]
  OBVIOUS
<1>5. s \in Seq(Visitable(k)) /\ s # <<>> /\ s[1] \in Visitable(k)
  BY <1>1, <1>2, <1>4, Innermost
<1>6. item \in Visitable(k)
  BY <1>4, <1>5 DEF Visitable, AnItem
<1>7. PICK x : x = [s EXCEPT ![1] = item]
  OBVIOUS
<1>8. x \in Seq(Visitable(k))
  <2>1. 1 \in 1..Len(s)
    BY <1>5, EmptySeq
  <2> QED BY <1>5, <1>6, <1>7, <2>1, ExceptSeq
<1>9. PICK t : t = [tasks[f] EXCEPT ![Len(tasks[f])].todo = x]
  OBVIOUS
<1>10. IsCallStack(t)
  BY <1>2, <1>4, <1>8, <1>9, Innermost, TodoBecomes DEF Top
<1>11. tasks' = [tasks EXCEPT ![f] = t]
  BY <1>4, <1>7, <1>9 DEF RunRuby, Top, Last
<1>12. TypesOK'
  BY <1>1, <1>10, <1>11, NamedGoesOn
<1> QED BY <1>1, <1>3, <1>12, SettledIsOK, NamesGoOn DEF NameInv

LEMMA NamedRename ==
  ASSUME ExplorerInv, NameInv, NEW f \in Fibers, Rename(f)
  PROVE  NameInv'
<1>1. PICK k, x : k = Top(f).const /\ x = OwnAncestors(k) \o Extends(k)
  OBVIOUS
<1>2. /\ vm = f /\ Top(f).todo # <<>> /\ Item1(f).const = Missing
      /\ renamed' = renamed \union {k}
      /\ UNCHANGED <<known, lists, vm, uses, log>>
  BY <1>1 DEF Rename, Exploring
<1>3. tasks[f] # <<>>
  BY <1>2, HasCalls
<1>4. k \in Constants /\ Unfound(k) /\ k \in known
  <2>1. k \in Constants /\ Item1(f) \in Visitable(k)
    BY <1>1, <1>2, <1>3, Innermost
  <2>2. k = tasks[f][Len(tasks[f])].const /\ Len(tasks[f]) \in 1..Len(tasks[f])
    BY <1>1, <1>3, Innermost, StackTop DEF Top
  <2>3. DOMAIN tasks[f] = 1..Len(tasks[f])
    BY <1>3, Innermost, LenProperties DEF IsCallStack
  <2>4. k \in known
    BY <2>2, <2>3 DEF ExplorerInv, TasksOK
  <2> QED BY <1>2, <2>1, <2>4 DEF Visitable
<1>5. PICK t : t = [tasks[f] EXCEPT ![Len(tasks[f])].todo = x]
  OBVIOUS
<1>6. IsCallStack(t)
  BY <1>1, <1>3, <1>4, <1>5, Innermost, ItemsTyped, TodoBecomes DEF Top
<1>7. tasks'[f] = t /\ \A g \in Fibers \ {f} : tasks'[g] = tasks[g]
  BY <1>1, <1>5 DEF Rename, ExplorerInv, TasksOK
<1>8. TypesOK'
  <2>1. \A g \in Fibers : IsCallStack(tasks'[g])
    BY <1>6, <1>7 DEF NameInv, TypesOK
  <2>2. renamed' \subseteq {j \in known' : Unfound(j)}
    BY <1>2, <1>4 DEF NameInv, TypesOK
  <2> QED BY <1>2, <2>1, <2>2 DEF NameInv, TypesOK, IsCallStack, Unfound
<1>9. \A j \in known : RenamedAtOnce(j) => j \in renamed'
  <2>1. ASSUME NEW j, NEW g \in Fibers, Renaming(j, g) PROVE j = k
    BY <1>1, <1>2, <2>1 DEF Renaming
  <2> QED BY <1>2, <2>1 DEF NameInv, AtOnceOK
<1>10. AtOnceOK'
  BY <1>2, <1>9 DEF AtOnceOK, RenamedAtOnce
<1>11. NamesOK'
  BY <1>2, <1>4, NamesGoOn DEF NameInv
<1> QED BY <1>8, <1>10, <1>11 DEF NameInv

LEMMA NamedSkip ==
  ASSUME ExplorerInv, NameInv, NEW f \in Fibers, SkipInner(f)
  PROVE  NameInv'
<1>1. /\ vm = f /\ Top(f).todo # <<>> /\ Item1(f).role \in ModuleRoles
      /\ tasks' = [tasks EXCEPT ![f] = NextItem(tasks[f])]
      /\ UNCHANGED <<known, renamed, vm, lists, uses, log>>
  BY DEF SkipInner, Exploring
<1>2. tasks[f] # <<>>
  BY <1>1, HasCalls
<1>3. Settled
  <2>1. Item1(f) # MissingItem
    BY <1>1 DEF MissingItem, ModuleRoles
  <2> QED BY <1>1, <2>1, SettledUnless
<1>4. IsCallStack(NextItem(tasks[f]))
  BY <1>1, <1>2, Innermost, ItemPasses DEF Top
<1>5. TypesOK'
  BY <1>1, <1>4, NamedGoesOn DEF NameInv, TypesOK
<1> QED BY <1>1, <1>3, <1>5, SettledIsOK, NamesGoOn DEF NameInv

(* A name is added to a list. *)
LEMMA ListsGrow ==
  ASSUME NamesOK, NEW s, Last(s).const \in Constants, NEW x \in known, Settled
  PROVE  ListsAfter(s, x) \in [Constants -> [Roles -> Seq(RightNames)]]
<1>1. PICK k, role : k = Last(s).const /\ role = Head(Last(s).todo).role
  OBVIOUS
<1>2. lists \in [Constants -> [Roles -> Seq(RightNames)]]
  BY DEF NamesOK
<1>3. CASE role \notin Roles
  BY <1>1, <1>2, <1>3 DEF ListsAfter
<1>4. CASE role \in Roles
  <2>1. Name(x) \in RightNames
    BY NewName
  <2>2. lists[k] \in [Roles -> Seq(RightNames)] /\ lists[k][role] \in Seq(RightNames)
    BY <1>1, <1>2, <1>4
  <2>3. PICK q : q = Append(lists[k][role], Name(x))
    OBVIOUS
  <2>4. q \in Seq(RightNames)
    BY <2>1, <2>2, <2>3, AppendProperties
  <2>5. ListsAfter(s, x) = [lists EXCEPT ![k] = [lists[k] EXCEPT ![role] = q]]
    BY <1>1, <1>4, <2>3 DEF ListsAfter
  <2>6. [lists[k] EXCEPT ![role] = q] \in [Roles -> Seq(RightNames)]
    BY <2>2, <2>4
  <2> QED BY <1>1, <1>2, <2>5, <2>6
<1> QED BY <1>3, <1>4

LEMMA NamedKnown ==
  ASSUME ExplorerInv, NameInv, NEW f \in Fibers, Known(f)
  PROVE  NameInv'
<1>1. PICK x : x = Item1(f).const
  OBVIOUS
<1>2. /\ vm = f /\ Top(f).todo # <<>> /\ x # Missing /\ x \in known
      /\ tasks' = [tasks EXCEPT ![f] = Listed(tasks[f], x)]
      /\ lists' = ListsAfter(tasks[f], x)
      /\ UNCHANGED <<known, renamed, vm, uses, log>>
  BY <1>1 DEF Known, Visits, Exploring
<1>3. tasks[f] # <<>>
  BY <1>2, HasCalls
<1>4. Settled
  BY <1>1, <1>2, SettledUnless DEF MissingItem
<1>5. x \in Constants
  BY <1>2 DEF NameInv, TypesOK
<1>6. IsCallStack(Listed(tasks[f], x))
  BY <1>2, <1>3, <1>5, Innermost, ListedCalls DEF Top
<1>7. TypesOK'
  BY <1>2, <1>6, NamedGoesOn DEF NameInv, TypesOK
<1>8. lists' \in [Constants -> [Roles -> Seq(RightNames)]]
  BY <1>2, <1>3, <1>4, Innermost, ListsGrow DEF Top, NameInv
<1>9. RightNames' = RightNames
  BY <1>2 DEF RightNames
<1>10. NamesOK'
  BY <1>2, <1>8, <1>9 DEF NameInv, NamesOK
<1> QED BY <1>2, <1>4, <1>7, <1>10, SettledIsOK DEF NameInv

LEMMA NamedDescend ==
  ASSUME ExplorerInv, NameInv, NEW f \in Fibers, Descend(f)
  PROVE  NameInv'
<1>1. PICK x, up : x = Item1(f).const /\ up = (Item1(f).role \in ModuleRoles)
  OBVIOUS
<1>2. /\ vm = f /\ Top(f).todo # <<>> /\ x # Missing /\ Enter(f, x, up)
      /\ UNCHANGED <<renamed, lists, vm, uses, log>>
  BY <1>1 DEF Descend, Visits, Exploring
<1>3. tasks[f] # <<>>
  BY <1>2, HasCalls
<1>4. Settled
  BY <1>1, <1>2, SettledUnless DEF MissingItem
<1>5. x \in Constants
  BY <1>1, <1>2, <1>3, Innermost DEF Visitable, AnItem
<1>6. up \in BOOLEAN
  BY <1>1
<1> QED BY <1>2, <1>3, <1>4, <1>5, <1>6, NamedEnters DEF Top

LEMMA NamedFinish ==
  ASSUME ExplorerInv, NameInv, NEW f \in Fibers, Finish(f)
  PROVE  NameInv'
<1>1. PICK k, rest : k = Top(f).const /\ rest = Front(HandUp(tasks[f], Top(f).inner))
  OBVIOUS
<1>2. /\ vm = f /\ Top(f).todo = <<>> /\ UNCHANGED <<known, renamed, log>>
      /\ IF rest = <<>>
           THEN /\ uses' = [uses EXCEPT ![f] = Name(k)] /\ vm' = None
                /\ tasks' = [tasks EXCEPT ![f] = rest] /\ UNCHANGED lists
           ELSE /\ tasks' = [tasks EXCEPT ![f] = Listed(rest, k)]
                /\ lists' = ListsAfter(rest, k) /\ UNCHANGED <<uses, vm>>
  BY <1>1 DEF Finish, FinishWith
<1>3. tasks[f] # <<>>
  BY <1>2, HasCalls
<1>4. Settled
  BY <1>2, SettledUnless
<1>5. k \in known /\ k \in Constants
  <2>1. k = tasks[f][Len(tasks[f])].const /\ Len(tasks[f]) \in 1..Len(tasks[f])
    BY <1>1, <1>3, Innermost, StackTop DEF Top
  <2>2. DOMAIN tasks[f] = 1..Len(tasks[f])
    BY <1>3, Innermost, LenProperties DEF IsCallStack
  <2>3. k \in known
    BY <2>1, <2>2 DEF ExplorerInv, TasksOK
  <2> QED BY <2>3 DEF NameInv, TypesOK
<1>6. IsCallStack(rest) /\ (rest # <<>> => Last(rest).todo # <<>>)
  <2>1. PICK h : h = HandUp(tasks[f], Top(f).inner)
    OBVIOUS
  <2>2. IsCallStack(h) /\ h # <<>>
    BY <1>3, <2>1, Innermost, HandsUpCalls
  <2> QED BY <1>1, <2>1, <2>2, CallRemoved
<1>7. RightNames' = RightNames /\ Name(k) \in RightNames
  BY <1>2, <1>4, <1>5, NewName DEF RightNames
<1>8. CASE rest = <<>>
  <2>1. TypesOK'
    BY <1>2, <1>6, <1>8, NamedGoesOn
  <2>2. uses' \in [Fibers -> RightNames \union {None}]
    BY <1>2, <1>7, <1>8 DEF NameInv, NamesOK
  <2>3. NamesOK'
    BY <1>2, <1>7, <1>8, <2>2 DEF NameInv, NamesOK
  <2> QED BY <1>2, <1>4, <2>1, <2>3, SettledIsOK DEF NameInv
<1>9. CASE rest # <<>>
  <2>1. IsCallStack(Listed(rest, k))
    BY <1>5, <1>6, <1>9, ListedCalls
  <2>2. TypesOK'
    BY <1>2, <1>9, <2>1, NamedGoesOn DEF NameInv, TypesOK
  <2>3. Last(rest).const \in Constants
    BY <1>6, <1>9, StackTop DEF Calls
  <2>4. lists' \in [Constants -> [Roles -> Seq(RightNames)]]
    BY <1>2, <1>4, <1>5, <1>9, <2>3, ListsGrow DEF NameInv
  <2>5. NamesOK'
    BY <1>2, <1>7, <1>9, <2>4 DEF NameInv, NamesOK
  <2> QED BY <1>2, <1>4, <2>2, <2>5, SettledIsOK DEF NameInv
<1> QED BY <1>8, <1>9

LEMMA NamedEmit ==
  ASSUME ExplorerInv, NameInv, NEW f \in Fibers, Emit(f)
  PROVE  NameInv'
<1>1. PICK e : e = [uses |-> uses[f], updates |-> updates, open |-> OnTasks]
  OBVIOUS
<1>2. /\ vm = None /\ uses[f] # None /\ log' = Append(log, e)
      /\ uses' = [uses EXCEPT ![f] = None]
      /\ UNCHANGED <<known, renamed, lists, tasks, vm>>
  BY <1>1 DEF Emit
<1>3. Settled
  BY <1>2, SettledUnless
<1>4. RightNames' = RightNames /\ uses[f] \in RightNames
  BY <1>2 DEF RightNames, NameInv, NamesOK
<1>5. PICK n \in Nat : n = Len(log) /\ DOMAIN log = 1..n
  <2>1. log \in Seq(Handed)
    BY DEF ExplorerInv, LogOK
  <2> QED BY <2>1
<1>6. ASSUME NEW i \in DOMAIN log' PROVE log'[i].uses \in RightNames
  <2>1. DOMAIN log' = 1..(n + 1) /\ log'[i] = IF i <= n THEN log[i] ELSE e
    <3>1. log \in Seq({log[j] : j \in 1..n} \union {e})
      BY <1>5 DEF ExplorerInv, LogOK
    <3>2. e \in {log[j] : j \in 1..n} \union {e}
      OBVIOUS
    <3>3. /\ log' \in Seq({log[j] : j \in 1..n} \union {e}) /\ Len(log') = n + 1
          /\ \A j \in 1..n : log'[j] = log[j]
          /\ log'[n + 1] = e
      BY <1>2, <1>5, <3>1, <3>2, AppendProperties
    <3>4. DOMAIN log' = 1..(n + 1)
      BY <3>3, LenProperties
    <3> QED BY <1>5, <1>6, <3>3, <3>4
  <2>2. CASE i <= n
    <3>1. i \in DOMAIN log
      BY <1>5, <1>6, <2>1, <2>2
    <3> QED BY <2>1, <2>2, <3>1 DEF NameInv, NamesOK
  <2>3. CASE ~(i <= n)
    BY <1>1, <1>4, <2>1, <2>3
  <2> QED BY <2>2, <2>3
<1>7. uses' \in [Fibers -> RightNames \union {None}]
  BY <1>2 DEF NameInv, NamesOK
<1>8. NamesOK'
  BY <1>2, <1>4, <1>6, <1>7 DEF NameInv, NamesOK
<1>9. TypesOK'
  BY <1>2 DEF NameInv, TypesOK
<1> QED BY <1>2, <1>3, <1>8, <1>9, SettledIsOK DEF NameInv

LEMMA NamedResume ==
  ASSUME ExplorerInv, NameInv, NEW f \in Fibers, Resume(f)
  PROVE  NameInv'
<1>1. vm = None /\ vm' = f /\ UNCHANGED <<known, renamed, lists, tasks, uses, log>>
  BY DEF Resume
<1>2. Settled
  BY <1>1, SettledUnless
<1>3. TypesOK'
  BY <1>1 DEF NameInv, TypesOK
<1> QED BY <1>1, <1>2, <1>3, SettledIsOK, NamesGoOn DEF NameInv

LEMMA NamedInit == Init => NameInv
<1> SUFFICES ASSUME Init PROVE NameInv
  OBVIOUS
<1>1. \A f \in Fibers : tasks[f] = <<>>
  BY DEF Init
<1>2. IsCallStack(<<>>)
  BY DEF IsCallStack
<1>3. TypesOK
  BY <1>1, <1>2 DEF Init, TypesOK
<1>4. NamesOK
  <2>1. lists \in [Constants -> [Roles -> Seq(RightNames)]]
    BY DEF Init
  <2> QED BY <2>1 DEF Init, NamesOK
<1> QED BY <1>3, <1>4 DEF Init, NameInv, AtOnceOK

LEMMA NamedStep ==
  ASSUME ExplorerInv, NameInv, [Next]_vars
  PROVE  NameInv'
<1>1. CASE UNCHANGED vars
  <2>1. TypesOK' /\ NamesOK'
    BY <1>1, NamesGoOn DEF vars, NameInv, TypesOK
  <2>2. AtOnceOK'
    BY <1>1 DEF vars, NameInv, AtOnceOK, Renaming, Top, Item1, RenamedAtOnce
  <2> QED BY <2>1, <2>2 DEF NameInv
<1> QED
  BY <1>1, NamedBegin, NamedRunRuby, NamedResume, NamedRename, NamedSkip, NamedKnown,
     NamedDescend, NamedFinish, NamedEmit DEF Next, Done

LEMMA NameInvariant == Spec => []NameInv
<1>1. ExplorerInv /\ NameInv /\ [Next]_vars => NameInv'
  BY NamedStep
<1> QED BY <1>1, NamedInit, ExplorerInvariant, PTL DEF Spec

(* constant_map, the stacks of calls and the lists of names keep their types. *)
THEOREM ExplorerTypes == Spec => []TypeOK
<1>1. ASSUME ExplorerInv, NameInv PROVE TypeOK
  <2>1. \A f \in Fibers : tasks[f] # <<>> => ~Head(tasks[f]).up
    BY <1>1 DEF NameInv, TypesOK, IsCallStack
  <2>2. vm # None => tasks[vm] # <<>>
    BY <1>1, HasCalls DEF NameInv, TypesOK
  <2>3. ASSUME NEW k \in Constants, NEW n \in Names(k) PROVE n.const \in known
    <3>1. PICK role \in Roles : n \in Range(lists[k][role])
      BY <2>3 DEF Names
    <3>2. lists[k][role] \in Seq(RightNames)
      BY <1>1, <3>1 DEF NameInv, NamesOK
    <3>3. n \in RightNames
      BY <3>1, <3>2, RangeOfSeq
    <3> QED BY <3>3 DEF RightNames
  <2> QED BY <1>1, <2>1, <2>2, <2>3 DEF TypeOK, NameInv, TypesOK
<1> QED BY <1>1, ExplorerInvariant, NameInvariant, PTL

(* Every name in a list or a trace is the name the constant has in the end - *)
(* also when explorations interleave - unless the constant is renamed late   *)
(* (racer.cc:115): one whose outermost namespace is missing gets its new     *)
(* name before anybody can copy the old one.                                 *)
THEOREM NamesStayTrue == Spec => []NamesResolve
<1>1. ASSUME ExplorerInv, NameInv PROVE NamesResolve
  <2>1. ASSUME NEW n \in RightNames PROVE Resolves(n)
    <3>1. n = [const |-> n.const, id |-> n.id] /\ (n.id = (n.const \in renamed) \/ RenamedLate(n.const))
      BY DEF RightNames
    <3> QED BY <3>1 DEF Resolves, Name
  <2>2. ASSUME NEW k \in known, NEW n \in Names(k) PROVE n \in RightNames
    <3>1. PICK role \in Roles : n \in Range(lists[k][role])
      BY <2>2 DEF Names
    <3>2. lists[k][role] \in Seq(RightNames)
      BY <1>1, <3>1 DEF NameInv, NamesOK, TypesOK
    <3> QED BY <3>1, <3>2, RangeOfSeq
  <2>3. \A i \in DOMAIN log : log[i].uses \in RightNames
    BY <1>1 DEF NameInv, NamesOK
  <2> QED BY <2>1, <2>2, <2>3 DEF NamesResolve
<1> QED BY <1>1, ExplorerInvariant, NameInvariant, PTL

------------------------------------------------------------------------------
(* What the collector makes of the lists *)

(* Whatever a constant that was announced lists was announced too, or is     *)
(* being explored when some trace is handed over.                            *)
ListedInTime ==
  \A k \in Announced : \A n \in Names(k) : n.const \in Announced \union OpenAtSomeTrace

LEMMA AnnouncedIs ==
  ASSUME LogOK, NEW k
  PROVE  k \in Announced <=> AtLog(log, k) # {}
<1>1. k \in Announced <=> \E n \in DOMAIN log : \E i \in DOMAIN log[n].updates : log[n].updates[i] = k
  BY DEF Announced, Range
<1>2. ASSUME NEW w \in AtLog(log, k)
      PROVE  \E n \in DOMAIN log : \E i \in DOMAIN log[n].updates : log[n].updates[i] = k
  BY DEF AtLog
<1>3. ASSUME NEW n \in DOMAIN log, NEW i \in DOMAIN log[n].updates, log[n].updates[i] = k
      PROVE  <<"log", n, i>> \in AtLog(log, k)
  BY <1>3 DEF AtLog
<1> QED BY <1>1, <1>2, <1>3

(* The calls under way are about constants that are not announced yet.       *)
LEMMA NotYetAnnounced ==
  ASSUME ExplorerInv, known \subseteq Constants, NEW f \in Fibers, NEW i \in DOMAIN tasks[f]
  PROVE  tasks[f][i].const \notin Announced
<1>1. PICK k : k = tasks[f][i].const /\ k \in known /\ k \in Constants
  BY DEF ExplorerInv, TasksOK
<1>2. PICK w : Places(k) = {w}
  BY <1>1 DEF ExplorerInv, Placed
<1>3. <<"task", f, i>> \in Places(k)
  BY <1>1, TaskPlaces, PlacesAre DEF About
<1>4. ASSUME k \in Announced PROVE FALSE
  <2>1. PICK v : v \in AtLog(log, k)
    BY <1>4, AnnouncedIs DEF ExplorerInv
  <2>2. v \in Places(k) /\ \E n, j : v = <<"log", n, j>>
    BY <2>1, PlacesAre DEF AtLog
  <2>3. v = <<"task", f, i>>
    BY <1>2, <1>3, <2>2
  <2> QED BY <2>2, <2>3
<1> QED BY <1>1, <1>4

(* A step that lists something does so for a constant that is being explored.*)
LEMMA ListedStays ==
  ASSUME ExplorerInv, known \subseteq Constants, ListedInTime, UNCHANGED log,
         \A k \in Announced : lists'[k] = lists[k]
  PROVE  ListedInTime'
<1>1. Announced' = Announced /\ OpenAtSomeTrace' = OpenAtSomeTrace
  BY DEF Announced, OpenAtSomeTrace
<1>2. \A k \in Announced : Names(k)' = Names(k)
  BY DEF Names
<1> QED BY <1>1, <1>2 DEF ListedInTime

LEMMA AnnouncedKnown ==
  ASSUME LogOK, known \subseteq Constants, NEW k \in Announced
  PROVE  k \in Constants
<1>1. PICK n \in DOMAIN log : k \in Range(log[n].updates)
  BY DEF Announced
<1>2. log[n].updates \in Seq(known)
  <2>1. log \in Seq(Handed)
    BY DEF LogOK
  <2>2. log[n] \in Handed
    BY <1>1, <2>1
  <2> QED BY <2>2 DEF Handed
<1>3. k \in known
  BY <1>1, <1>2, RangeOfSeq
<1> QED BY <1>3

LEMMA ListedByCaller ==
  ASSUME ExplorerInv, NameInv, ListedInTime, UNCHANGED log, NEW f \in Fibers, NEW i \in DOMAIN tasks[f],
         NEW s, NEW x, Last(s).const = tasks[f][i].const, lists' = ListsAfter(s, x)
  PROVE  ListedInTime'
<1>1. Last(s).const \notin Announced /\ known \subseteq Constants
  BY NotYetAnnounced DEF NameInv, TypesOK
<1>2. PICK c, role, q : /\ c = Last(s).const /\ role = Head(Last(s).todo).role
                         /\ q = Append(lists[c][role], Name(x))
  OBVIOUS
<1>3. lists' = lists \/ lists' = [lists EXCEPT ![c] = [lists[c] EXCEPT ![role] = q]]
  BY <1>2 DEF ListsAfter
<1>4. ASSUME NEW k \in Announced PROVE lists'[k] = lists[k]
  <2>1. k # c /\ k \in Constants
    BY <1>1, <1>2, AnnouncedKnown DEF ExplorerInv
  <2>2. lists = [m \in Constants |-> lists[m]]
    BY DEF NameInv, NamesOK
  <2> QED BY <1>3, <2>1, <2>2
<1> QED BY <1>1, <1>4, ListedStays

(* The call that waits for the innermost one. *)
LEMMA CallerIs ==
  ASSUME NEW s, IsCallStack(s), s # <<>>, Front(s) # <<>>
  PROVE  Len(s) - 1 \in 1..Len(s) /\ Last(Front(s)) = s[Len(s) - 1]
<1>1. PICK n \in Nat \ {0} : n = Len(s)
  BY StackTop
<1>2. PICK t : t = Front(s)
  OBVIOUS
<1>3. t = [i \in 1..(n - 1) |-> s[i]] /\ n - 1 \in Nat
  BY <1>1, <1>2 DEF Front
<1>4. n # 1
  <2> SUFFICES ASSUME n = 1 PROVE FALSE
    OBVIOUS
  <2>1. t = [i \in 1..0 |-> s[i]]
    BY <1>3
  <2>2. t = <<>>
    BY <2>1
  <2> QED BY <1>2, <2>2
<1>5. n - 1 \in 1..(n - 1) /\ n - 1 \in 1..n
  BY <1>4
<1>6. Len(t) = n - 1 /\ t[n - 1] = s[n - 1]
  BY <1>3, <1>5
<1> QED BY <1>1, <1>2, <1>5, <1>6 DEF Last

LEMMA ListedByKnown ==
  ASSUME ExplorerInv, NameInv, ListedInTime, NEW f \in Fibers, Known(f)
  PROVE  ListedInTime'
<1>1. vm = f /\ UNCHANGED log /\ lists' = ListsAfter(tasks[f], Item1(f).const)
  BY DEF Known, Visits, Exploring
<1>2. tasks[f] # <<>>
  BY <1>1, HasCalls
<1>3. PICK n : n = Len(tasks[f])
  OBVIOUS
<1>4. n \in DOMAIN tasks[f] /\ Last(tasks[f]) = tasks[f][n]
  BY <1>2, <1>3, Innermost, StackTop, LenProperties DEF IsCallStack
<1> QED BY <1>1, <1>4, ListedByCaller

LEMMA ListedByFinish ==
  ASSUME ExplorerInv, NameInv, ListedInTime, NEW f \in Fibers, Finish(f)
  PROVE  ListedInTime'
<1>1. PICK s, k, h, rest : /\ s = tasks[f] /\ k = Top(f).const
                           /\ h = HandUp(tasks[f], Top(f).inner) /\ rest = Front(h)
  OBVIOUS
<1>2. /\ vm = f /\ UNCHANGED log
      /\ lists' = IF rest = <<>> THEN lists ELSE ListsAfter(rest, k)
  BY <1>1 DEF Finish, FinishWith
<1>3. s # <<>> /\ IsCallStack(s) /\ Top(f).inner \in SUBSET Constants
  BY <1>1, <1>2, HasCalls, Innermost
<1>4. /\ IsCallStack(h) /\ h # <<>> /\ Len(h) = Len(s)
      /\ \A i \in 1..Len(s) : h[i].const = s[i].const
  BY <1>1, <1>3, HandsUpCalls
<1>5. CASE rest = <<>>
  BY <1>2, <1>5, ListedStays DEF NameInv, TypesOK
<1>6. CASE rest # <<>>
  <2>1. PICK i : i = Len(s) - 1
    OBVIOUS
  <2>2. i \in 1..Len(s) /\ Last(rest) = h[i]
    BY <1>1, <1>4, <1>6, <2>1, CallerIs
  <2>3. i \in DOMAIN tasks[f] /\ Last(rest).const = tasks[f][i].const
    BY <1>1, <1>3, <1>4, <2>2, LenProperties DEF IsCallStack
  <2>4. lists' = ListsAfter(rest, k)
    BY <1>2, <1>6
  <2> QED BY <1>2, <2>3, <2>4, ListedByCaller
<1> QED BY <1>5, <1>6

(* What a known constant lists is known, and so it has a place.              *)
LEMMA ListedIsKnown ==
  ASSUME NameInv, NEW k \in Constants, NEW n \in Names(k)
  PROVE  n \in RightNames /\ n.const \in known /\ n.const \in Constants
<1>1. PICK role \in Roles : n \in Range(lists[k][role])
  BY DEF Names
<1>2. lists[k][role] \in Seq(RightNames)
  BY <1>1 DEF NameInv, NamesOK
<1>3. n \in RightNames
  BY <1>1, <1>2, RangeOfSeq
<1> QED BY <1>3 DEF RightNames, NameInv, TypesOK

LEMMA KnownIsSomewhere ==
  ASSUME ExplorerInv, NEW k \in Constants, k \in known
  PROVE  k \in Range(updates) \union OnTasks \union Announced
<1>1. PICK w : w \in Places(k)
  BY DEF ExplorerInv, Placed
<1>2. w \in AtUpdates(updates, k) \union AtTask(tasks, k) \union AtLog(log, k)
  BY <1>1, PlacesAre
<1>3. CASE w \in AtUpdates(updates, k)
  BY <1>3 DEF AtUpdates, Range
<1>4. CASE w \in AtTask(tasks, k)
  BY <1>4 DEF AtTask, OnTasks
<1>5. CASE w \in AtLog(log, k)
  BY <1>5, AnnouncedIs DEF ExplorerInv
<1> QED BY <1>2, <1>3, <1>4, <1>5

LEMMA ListedByEmit ==
  ASSUME ExplorerInv, NameInv, ListedInTime, NEW f \in Fibers, Emit(f)
  PROVE  ListedInTime'
<1>1. PICK e : e = [uses |-> uses[f], updates |-> updates, open |-> OnTasks]
  OBVIOUS
<1>2. log' = Append(log, e) /\ UNCHANGED <<known, lists, tasks>>
  BY <1>1 DEF Emit
<1>3. PICK n \in Nat : n = Len(log) /\ DOMAIN log = 1..n
  <2>1. log \in Seq(Handed)
    BY DEF ExplorerInv, LogOK
  <2> QED BY <2>1
<1>4. /\ DOMAIN log' = 1..(n + 1) /\ log'[n + 1] = e
      /\ \A i \in 1..n : log'[i] = log[i]
  <2>1. log \in Seq({log[j] : j \in 1..n} \union {e})
    BY <1>3 DEF ExplorerInv, LogOK
  <2>2. e \in {log[j] : j \in 1..n} \union {e}
    OBVIOUS
  <2>3. /\ log' \in Seq({log[j] : j \in 1..n} \union {e}) /\ Len(log') = n + 1
        /\ \A j \in 1..n : log'[j] = log[j]
        /\ log'[n + 1] = e
    BY <1>2, <1>3, <2>1, <2>2, AppendProperties
  <2> QED BY <2>3, LenProperties
<1>5. Announced' = Announced \union Range(updates)
      /\ OpenAtSomeTrace' = OpenAtSomeTrace \union OnTasks
  <2>1. DOMAIN log' = DOMAIN log \union {n + 1} /\ \A i \in DOMAIN log : log'[i] = log[i]
    BY <1>3, <1>4
  <2>2. e.updates = updates /\ e.open = OnTasks
    BY <1>1
  <2>3. PICK lg : lg = log'
    OBVIOUS
  <2>4. /\ DOMAIN lg = DOMAIN log \union {n + 1} /\ lg[n + 1] = e
        /\ \A i \in DOMAIN log : lg[i] = log[i]
    BY <1>4, <2>1, <2>3
  <2>5. Announced' = Announced \union Range(updates)
    <3>1. ASSUME NEW x
          PROVE  (\E i \in DOMAIN lg : x \in Range(lg[i].updates))
                   <=> (\E i \in DOMAIN log : x \in Range(log[i].updates)) \/ x \in Range(updates)
      BY <2>2, <2>4
    <3>2. Announced' = UNION {Range(lg[i].updates) : i \in DOMAIN lg}
      BY <2>3 DEF Announced, Range
    <3> QED BY <3>1, <3>2 DEF Announced
  <2>6. OpenAtSomeTrace' = OpenAtSomeTrace \union OnTasks
    <3>1. ASSUME NEW x
          PROVE  (\E i \in DOMAIN lg : x \in lg[i].open)
                   <=> (\E i \in DOMAIN log : x \in log[i].open) \/ x \in OnTasks
      BY <2>2, <2>4
    <3>2. OpenAtSomeTrace' = UNION {lg[i].open : i \in DOMAIN lg}
      BY <2>3 DEF OpenAtSomeTrace
    <3> QED BY <3>1, <3>2 DEF OpenAtSomeTrace
  <2> QED BY <2>5, <2>6
<1>6. ASSUME NEW k \in Announced', NEW m \in Names(k)'
      PROVE  m.const \in Announced' \union OpenAtSomeTrace'
  <2>1. m \in Names(k)
    BY <1>2, <1>6 DEF Names
  <2>2. CASE k \in Announced
    BY <1>5, <2>1, <2>2 DEF ListedInTime
  <2>3. CASE k \in Range(updates)
    <3>1. k \in Constants
      BY <2>3, RangeOfSeq DEF ExplorerInv, LogOK, NameInv, TypesOK
    <3>2. m.const \in Range(updates) \union OnTasks \union Announced
      BY <2>1, <3>1, ListedIsKnown, KnownIsSomewhere
    <3> QED BY <1>5, <3>2
  <2> QED BY <1>5, <1>6, <2>2, <2>3
<1> QED BY <1>6 DEF ListedInTime

LEMMA ListedStep ==
  ASSUME ExplorerInv, NameInv, ListedInTime, [Next]_vars
  PROVE  ListedInTime'
<1>1. CASE UNCHANGED <<lists, log>>
  BY <1>1, ListedStays DEF NameInv, TypesOK
<1>2. ASSUME NEW f \in Fibers, NEW k \in Constants, Begin(f, k) PROVE UNCHANGED <<lists, log>>
  BY <1>2 DEF Begin
<1>3. ASSUME NEW f \in Fibers, RunRuby(f) \/ Resume(f) \/ Rename(f) \/ SkipInner(f)
      PROVE  UNCHANGED <<lists, log>>
  BY <1>3 DEF RunRuby, Resume, Rename, SkipInner
<1>4. ASSUME NEW f \in Fibers, Descend(f) PROVE UNCHANGED <<lists, log>>
  BY <1>4 DEF Descend
<1>5. CASE UNCHANGED vars
  BY <1>1, <1>5 DEF vars
<1> QED
  BY <1>1, <1>2, <1>3, <1>4, <1>5, ListedByKnown, ListedByFinish, ListedByEmit DEF Next, Done

LEMMA ListedInit == Init => ListedInTime
BY DEF Init, ListedInTime, Announced

(* Induction over 0..n, for the elements of a set. *)
LEMMA StepByStep ==
  ASSUME NEW n \in Nat, NEW G, 0 \in G, \A k \in 1..n : k - 1 \in G => k \in G
  PROVE  \A k \in 0..n : k \in G
<1> DEFINE Bad == {k \in Nat : k <= n /\ k \notin G}
<1> SUFFICES ASSUME Bad # {} PROVE FALSE
  OBVIOUS
<1>1. Bad \subseteq Nat
  OBVIOUS
<1>2. \E x \in Bad : \A y \in Bad : ~(<<y, x>> \in OpToRel(<, Nat))
  <2> HIDE DEF Bad
  <2> QED BY <1>1, WFMin, NatLessThanWellFounded
<1>3. PICK x \in Bad : \A y \in Bad : <<y, x>> \notin OpToRel(<, Nat)
  BY <1>2
<1>4. \A y \in Bad : ~(y < x)
  BY <1>1, <1>3 DEF OpToRel
<1>5. x \in 1..n /\ x - 1 \in Nat /\ x - 1 < x
  <2>1. x \in Nat /\ x <= n /\ x # 0
    BY <1>3
  <2> QED BY <2>1
<1>6. x - 1 \in G
  BY <1>4, <1>5
<1> QED BY <1>3, <1>5, <1>6

(* The names in the lists that the collector has got. *)
CollectedNames == UNION {Names(k) : k \in Collected}

IsRounds(g, n, b) == g = [i \in 0..n |-> IF i = 0 THEN b ELSE AndTheirs(g[i - 1])]

LEMMA MixinsCollected ==
  ASSUME NEW k \in Collected
  PROVE  Mixins(k, "included") \subseteq CollectedNames
<1>1. Mixins(k, "included") \subseteq Names(k)
  BY DEF Mixins, Names, Roles, ModuleRoles
<1> QED BY <1>1 DEF CollectedNames

LEMMA TheirsCollected ==
  ASSUME NEW S \in SUBSET CollectedNames
  PROVE  AndTheirs(S) \in SUBSET CollectedNames
<1>1. ASSUME NEW n, NEW x \in Result(n) PROVE Mixins(x, "included") \subseteq CollectedNames
  <2>1. x \in Collected
    BY DEF Result
  <2> QED BY <2>1, MixinsCollected
<1> QED BY <1>1 DEF AndTheirs

LEMMA RoundsExist ==
  ASSUME NEW n \in Nat, NEW b \in SUBSET CollectedNames
  PROVE  \E g : IsRounds(g, n, b)
<1> DEFINE Defines(g, k) == /\ g \in [0..k -> SUBSET CollectedNames] /\ g[0] = b
                            /\ \A i \in 1..k : g[i] = AndTheirs(g[i - 1])
           G == {k \in 0..n : \E g : Defines(g, k)}
<1>1. 0 \in G
  <2> DEFINE g == [i \in 0..0 |-> b]
  <2>1. Defines(g, 0)
    OBVIOUS
  <2> HIDE DEF g, Defines
  <2> QED BY <2>1
<1>2. ASSUME NEW k \in 1..n, k - 1 \in G PROVE k \in G
  <2>1. PICK g : Defines(g, k - 1)
    BY <1>2
  <2>2. PICK v : v = AndTheirs(g[k - 1]) /\ v \in SUBSET CollectedNames
    <3>1. g[k - 1] \in SUBSET CollectedNames
      BY <2>1
    <3> QED BY <3>1, TheirsCollected
  <2>3. PICK h : h = [i \in 0..k |-> IF i = k THEN v ELSE g[i]]
    OBVIOUS
  <2>4. h \in [0..k -> SUBSET CollectedNames]
    BY <2>1, <2>2, <2>3
  <2>5. h[0] = b /\ \A i \in 0..(k - 1) : h[i] = g[i]
    BY <2>1, <2>3
  <2>6. h[k] = AndTheirs(h[k - 1])
    <3>1. h[k] = v /\ k - 1 \in 0..(k - 1)
      BY <2>3
    <3> QED BY <2>2, <2>5, <3>1
  <2>7. ASSUME NEW i \in 1..k PROVE h[i] = AndTheirs(h[i - 1])
    <3>1. CASE i = k
      BY <2>6, <3>1
    <3>2. CASE i # k
      <4>1. i \in 1..(k - 1) /\ i - 1 \in 0..(k - 1)
        BY <3>2
      <4>2. h[i] = g[i] /\ h[i - 1] = g[i - 1] /\ g[i] = AndTheirs(g[i - 1])
        BY <2>1, <2>5, <4>1
      <4> QED BY <4>2
    <3> QED BY <3>1, <3>2
  <2>8. Defines(h, k)
    BY <2>4, <2>5, <2>7
  <2> HIDE DEF Defines
  <2> QED BY <2>8
<1>3. n \in G
  <2> HIDE DEF G
  <2>1. \A k \in 0..n : k \in G
    BY <1>1, <1>2, StepByStep
  <2> QED BY <2>1
<1>4. PICK g : Defines(g, n)
  BY <1>3
<1>5. g = [i \in 0..n |-> g[i]]
  BY <1>4
<1>6. ASSUME NEW i \in 0..n PROVE g[i] = IF i = 0 THEN b ELSE AndTheirs(g[i - 1])
  <2>1. i = 0 \/ i \in 1..n
    OBVIOUS
  <2> QED BY <1>4, <2>1
<1>7. IsRounds(g, n, b)
  <2> HIDE DEF Defines
  <2> QED BY <1>5, <1>6 DEF IsRounds
<1> QED BY <1>7

(* Whatever find_self_types visits stands in a list that was collected.      *)
LEMMA VisitedFrom ==
  ASSUME NEW k \in Collected
  PROVE  Visited(k) \subseteq CollectedNames
<1>1. PICK n, b : n \in Nat /\ n = Cardinality(Constants) /\ b = Mixins(k, "included")
  BY DeclarationsAssumption, FS_CardinalityType
<1>2. b \in SUBSET CollectedNames
  BY <1>1, MixinsCollected
<1>3. PICK g : g = Rounds(k)
  OBVIOUS
<1>4. IsRounds(g, n, b)
  <2> DEFINE f == CHOOSE f : f = [i \in 0..n |-> IF i = 0 THEN b ELSE AndTheirs(f[i - 1])]
  <2>1. g = f
    BY <1>1, <1>3 DEF Rounds
  <2>2. \E h : h = [i \in 0..n |-> IF i = 0 THEN b ELSE AndTheirs(h[i - 1])]
    BY <1>1, <1>2, RoundsExist DEF IsRounds
  <2>3. f = [i \in 0..n |-> IF i = 0 THEN b ELSE AndTheirs(f[i - 1])]
    BY <2>2
  <2> QED BY <2>1, <2>3 DEF IsRounds
<1>5. g[0] = b /\ \A i \in 1..n : g[i] = AndTheirs(g[i - 1])
  BY <1>1, <1>4 DEF IsRounds
<1> DEFINE G == {i \in 0..n : g[i] \in SUBSET CollectedNames}
<1>6. 0 \in G
  BY <1>1, <1>2, <1>5
<1>7. ASSUME NEW i \in 1..n, i - 1 \in G PROVE i \in G
  <2>1. i \in 0..n /\ g[i - 1] \in SUBSET CollectedNames
    BY <1>1, <1>7
  <2>2. g[i] \in SUBSET CollectedNames
    BY <1>5, <2>1, TheirsCollected
  <2> QED BY <2>1, <2>2
<1>8. n \in G
  <2> HIDE DEF G
  <2>1. \A i \in 0..n : i \in G
    BY <1>1, <1>6, <1>7, StepByStep
  <2> QED BY <1>1, <2>1
<1> QED BY <1>1, <1>3, <1>8 DEF Visited

(* stop declares whatever was announced: of the modules that find_self_types *)
(* visits (rbs_collector.rb:203) none is unknown to it - unless its name was *)
(* copied before a late rename, or a fiber was still exploring it when       *)
(* another one announced what includes it - and what it fails at is only a   *)
(* module whose declaration has self types.                                  *)
THEOREM DeclarationsFinish == Spec => []StopFinishes
<1>1. ASSUME ExplorerInv, NameInv, ListedInTime PROVE StopFinishes
  <2> SUFFICES ASSUME NEW k \in Collected \ Classes, NEW n \in Visited(k), Raises(n),
                      n.const \notin SelfTyped, n.const \notin OpenAtSomeTrace,
                      ~RenamedLate(n.const)
               PROVE  FALSE
    BY DEF StopFinishes
  <2>1. PICK x \in Collected : n \in Names(x)
    BY VisitedFrom DEF CollectedNames
  <2>2. n.const \in Announced
    BY <1>1, <2>1 DEF ListedInTime, Collected
  <2>3. x \in Constants
    BY <1>1, <2>1, AnnouncedKnown DEF Collected, ExplorerInv, NameInv, TypesOK
  <2>4. n \in RightNames /\ n.const \in Constants
    BY <1>1, <2>1, <2>3, ListedIsKnown
  <2>5. n = Name(n.const)
    BY <2>4 DEF RightNames, Name
  <2>6. n.const \in Result(n)
    BY <2>2, <2>5 DEF Result, Collected
  <2> QED BY <2>4, <2>6 DEF Raises
<1>2. ExplorerInv /\ NameInv /\ ListedInTime /\ [Next]_vars => ListedInTime'
  BY ListedStep
<1> QED BY <1>1, <1>2, ListedInit, ExplorerInvariant, NameInvariant, PTL DEF Spec

==============================================================================
