---------------------------- MODULE FramingProofs ----------------------------
(***************************************************************************)
(* Proofs about the framing of messages, for messages of any bytes and any *)
(* lengths, chunks of any size and a connection that ends anywhere: the    *)
(* reader hands on what was sent, whole and in order, and loses no byte.   *)
(***************************************************************************)
EXTENDS Framing, SequenceTheorems, FiniteSetTheorems, WellFoundedInduction, TLAPS

(* Induction over 0..n, for the elements of a set. *)
LEMMA StepByStep ==
  ASSUME NEW n \in Nat, NEW G, 0 \in G, \A k \in 1..n : k - 1 \in G => k \in G
  PROVE  \A k \in 0..n : k \in G
<1> DEFINE Bad == {k \in Nat : k <= n /\ k \notin G}
<1> SUFFICES ASSUME Bad # {} PROVE FALSE
  OBVIOUS
<1>1. Bad \subseteq Nat
  OBVIOUS
<1>2. \E x \in Bad : \A y \in Bad : ~(<<y, x>> \in OpToRel(<, Nat))
  <2> HIDE DEF Bad
  <2> QED BY <1>1, WFMin, NatLessThanWellFounded
<1>3. PICK x \in Bad : \A y \in Bad : <<y, x>> \notin OpToRel(<, Nat)
  BY <1>2
<1>4. \A y \in Bad : ~(y < x)
  BY <1>1, <1>3 DEF OpToRel
<1>5. x \in 1..n /\ x - 1 \in Nat /\ x - 1 < x
  <2>1. x \in Nat /\ x <= n /\ x # 0
    BY <1>3
  <2> QED BY <2>1
<1>6. x - 1 \in G
  BY <1>4, <1>5
<1> QED BY <1>3, <1>5, <1>6

(* A function on 0..n is defined by its value at 0 and a step. *)
Follows(f, n, T, b, step) ==
  f \in [0..n -> T] /\ f[0] = b /\ \A i \in 1..n : f[i] = step[i][f[i - 1]]

LEMMA Recursion ==
  ASSUME NEW n \in Nat, NEW T, NEW b \in T, NEW step \in [1..n -> [T -> T]]
  PROVE  \E f : Follows(f, n, T, b, step)
<1> DEFINE Defines(f, k) == /\ f \in [0..k -> T] /\ f[0] = b
                            /\ \A i \in 1..k : f[i] = step[i][f[i - 1]]
           G == {k \in 0..n : \E f : Defines(f, k)}
<1>1. 0 \in G
  <2> DEFINE f == [i \in 0..0 |-> b]
  <2>1. Defines(f, 0)
    OBVIOUS
  <2> HIDE DEF f, Defines
  <2> QED BY <2>1
<1>2. ASSUME NEW k \in 1..n, k - 1 \in G PROVE k \in G
  <2>1. PICK f : Defines(f, k - 1)
    BY <1>2
  <2>2. PICK v : v = step[k][f[k - 1]] /\ v \in T
    <3>1. f[k - 1] \in T
      BY <2>1
    <3> QED BY <3>1
  <2>3. PICK g : g = [i \in 0..k |-> IF i = k THEN v ELSE f[i]]
    OBVIOUS
  <2>4. g \in [0..k -> T]
    BY <2>1, <2>2, <2>3
  <2>5. g[0] = b /\ \A i \in 0..(k - 1) : g[i] = f[i]
    BY <2>1, <2>3
  <2>6. g[k] = step[k][g[k - 1]]
    <3>1. g[k] = v /\ k - 1 \in 0..(k - 1)
      BY <2>3
    <3> QED BY <2>2, <2>5, <3>1
  <2>7. ASSUME NEW i \in 1..k PROVE g[i] = step[i][g[i - 1]]
    <3>1. CASE i = k
      BY <2>6, <3>1
    <3>2. CASE i # k
      <4>1. i \in 1..(k - 1) /\ i - 1 \in 0..(k - 1)
        BY <3>2
      <4>2. g[i] = f[i] /\ g[i - 1] = f[i - 1] /\ f[i] = step[i][f[i - 1]]
        BY <2>1, <2>5, <4>1
      <4> QED BY <4>2
    <3> QED BY <3>1, <3>2
  <2>8. Defines(g, k)
    BY <2>4, <2>5, <2>7
  <2> HIDE DEF Defines
  <2> QED BY <2>8
<1>3. n \in G
  <2> HIDE DEF G
  <2>1. \A k \in 0..n : k \in G
    BY <1>1, <1>2, StepByStep
  <2> QED BY <2>1
<1>4. PICK f : Defines(f, n)
  BY <1>3
<1> QED BY <1>4 DEF Follows

------------------------------------------------------------------------------
(* The client's bytes *)

Texts == Seq(Bytes)

LEMMA MessageAdded ==
  ASSUME NEW v \in Texts, NEW m \in Texts, NEW u, u = v \o Append(m, Nul)
  PROVE  /\ u \in Texts /\ Len(v) \in Nat /\ Len(m) \in Nat /\ Len(u) = Len(v) + Len(m) + 1
         /\ \A j \in 1..Len(v) : u[j] = v[j]
         /\ \A j \in 1..Len(m) : u[Len(v) + j] = m[j]
         /\ u[Len(v) + Len(m) + 1] = Nul
<1>1. PICK a : a = Append(m, Nul)
  OBVIOUS
<1>2. v \in Seq(Bytes) /\ m \in Seq(Bytes) /\ Nul \in Bytes
  BY DEF Bytes, Texts
<1>3. a \in Seq(Bytes) /\ Len(a) = Len(m) + 1 /\ a[Len(m) + 1] = Nul /\ \A j \in 1..Len(m) : a[j] = m[j]
  BY ONLY <1>1, <1>2, AppendProperties
<1>4. PICK p, e : p \in Nat /\ e \in Nat /\ p = Len(v) /\ e = Len(m)
  BY <1>2, LenProperties
<1>5. u \in Seq(Bytes) /\ Len(u) = p + Len(a)
      /\ \A x \in 1..(p + Len(a)) : u[x] = IF x <= p THEN v[x] ELSE a[x - p]
  BY ONLY <1>1, <1>2, <1>3, <1>4, u = v \o Append(m, Nul), ConcatProperties
<1>6. Len(a) = e + 1
  BY <1>3, <1>4
<1>7. \A x \in 1..(p + e + 1) : u[x] = IF x <= p THEN v[x] ELSE a[x - p]
  <2>1. p + (e + 1) = p + e + 1
    BY <1>4
  <2> QED BY <1>5, <1>6, <2>1
<1>8. \A j \in 1..(e + 1) : u[p + j] = a[j]
  <2> TAKE j \in 1..(e + 1)
  <2>1. PICK x : x = p + j
    OBVIOUS
  <2>2. x \in 1..(p + e + 1) /\ ~(x <= p) /\ x - p = j
    BY <1>4, <2>1
  <2>3. u[x] = a[x - p]
    BY <1>7, <2>2
  <2> QED BY <2>1, <2>2, <2>3
<1>9. u \in Texts /\ Len(u) = p + e + 1
  BY <1>4, <1>5, <1>6 DEF Texts
<1>10. \A j \in 1..p : u[j] = v[j]
  <2>1. ASSUME NEW j \in 1..p PROVE j \in 1..(p + e + 1) /\ j <= p
    BY <1>4
  <2> QED BY <1>7, <2>1
<1>11. e + 1 \in 1..(e + 1) /\ p + (e + 1) = p + e + 1 /\ \A j \in 1..e : j \in 1..(e + 1)
  BY <1>4
<1>12. \A j \in 1..e : u[p + j] = m[j]
  BY <1>3, <1>4, <1>8, <1>11
<1>13. u[p + e + 1] = Nul
  BY <1>3, <1>4, <1>8, <1>11
<1> QED BY <1>4, <1>9, <1>10, <1>12, <1>13

LEMMA WiresAre ==
  ASSUME NEW ms \in Seq(Texts)
  PROVE  /\ Wires(ms) \in [0..Len(ms) -> Texts] /\ Wires(ms)[0] = <<>>
         /\ \A i \in 1..Len(ms) : Wires(ms)[i] = Wires(ms)[i - 1] \o Append(ms[i], Nul)
<1>1. PICK n \in Nat : n = Len(ms) /\ \A i \in 1..n : ms[i] \in Texts
  BY LenProperties, ElementOfSeq
<1> DEFINE IsWires(f) == f = [i \in 0..Len(ms) |->
                                IF i = 0 THEN <<>> ELSE f[i - 1] \o Append(ms[i], Nul)]
<1>2. \A i \in 1..n : \A t \in Texts : t \o Append(ms[i], Nul) \in Texts
  <2>1. Nul \in Bytes
    BY DEF Bytes
  <2> QED BY <1>1, <2>1, AppendProperties, ConcatProperties DEF Texts
<1>3. PICK step : step = [i \in 1..n |-> [t \in Texts |-> t \o Append(ms[i], Nul)]]
  OBVIOUS
<1>4. step \in [1..n -> [Texts -> Texts]] /\ <<>> \in Texts
  BY <1>2, <1>3 DEF Texts
<1>5. \A i \in 1..n : \A t \in Texts : step[i][t] = t \o Append(ms[i], Nul)
  BY <1>3
<1>6. PICK f \in [0..n -> Texts] : f[0] = <<>> /\ \A i \in 1..n : f[i] = step[i][f[i - 1]]
  <2>1. \E f : Follows(f, n, Texts, <<>>, step)
    BY <1>1, <1>4, Recursion
  <2> QED BY <2>1 DEF Follows
<1>7. \A i \in 1..n : f[i] = f[i - 1] \o Append(ms[i], Nul)
  <2>1. \A i \in 1..n : i - 1 \in 0..n
    BY <1>1
  <2>2. \A i \in 1..n : f[i - 1] \in Texts
    BY <1>6, <2>1
  <2> QED BY <1>5, <1>6, <2>2
<1>8. IsWires(f)
  <2>1. f = [i \in 0..n |-> f[i]]
    BY <1>6
  <2>2. \A i \in 0..n : f[i] = IF i = 0 THEN <<>> ELSE f[i - 1] \o Append(ms[i], Nul)
    <3>1. \A i \in 0..n : i = 0 \/ i \in 1..n
      OBVIOUS
    <3> HIDE DEF IsWires
    <3> QED BY <1>6, <1>7, <3>1
  <2> QED BY <1>1, <2>1, <2>2
<1>9. Wires(ms) = CHOOSE g : IsWires(g)
  BY DEF Wires
<1> DEFINE w == Wires(ms)
<1>10. IsWires(w)
  <2> HIDE DEF IsWires
  <2> QED BY <1>8, <1>9
<1> HIDE DEF w
<1>11. w[0] = <<>> /\ \A i \in 1..n : w[i] = w[i - 1] \o Append(ms[i], Nul)
  BY <1>1, <1>10
<1>12. w = [i \in 0..n |-> w[i]]
  <2>1. \E S : w \in [0..n -> S]
    BY <1>1, <1>10
  <2> QED BY <2>1
<1>13. \A i \in 0..n : w[i] \in Texts
  <2> DEFINE G == {k \in 0..n : w[k] \in Texts}
  <2>1. 0 \in G /\ \A k \in 1..n : k - 1 \in G => k \in G
    <3>1. ASSUME NEW k \in 1..n, k - 1 \in G PROVE k \in G
      <4>1. PICK t : t = w[k - 1] /\ t \in Texts
        BY <3>1
      <4>2. w[k] = t \o Append(ms[k], Nul) /\ t \o Append(ms[k], Nul) \in Texts
        BY <1>2, <1>11, <4>1
      <4>3. k \in 0..n
        BY <1>1
      <4> QED BY <4>2, <4>3
    <3> QED BY <1>4, <1>11, <3>1
  <2>2. \A k \in 0..n : k \in G
    <3> HIDE DEF G
    <3> QED BY <2>1, StepByStep
  <2> QED BY <2>2
<1> QED BY <1>1, <1>11, <1>12, <1>13 DEF w

(* Where message i ends. *)
Till(ms, i) == Len(Wires(ms)[i])

LEMMA TillGrows ==
  ASSUME NEW ms \in Seq(Texts)
  PROVE  /\ Till(ms, 0) = 0 /\ Till(ms, Len(ms)) = Len(Wire(ms))
         /\ \A i \in 0..Len(ms) : Till(ms, i) \in Nat
         /\ \A i \in 1..Len(ms) : Len(ms[i]) \in Nat /\ Till(ms, i) = Till(ms, i - 1) + Len(ms[i]) + 1
         /\ \A i, k \in 0..Len(ms) : i < k => Till(ms, i) < Till(ms, k)
<1>1. PICK n \in Nat : n = Len(ms) /\ \A i \in 1..n : ms[i] \in Texts
  BY LenProperties, ElementOfSeq
<1>2. PICK w \in [0..n -> Texts] :
        w = Wires(ms) /\ w[0] = <<>> /\ \A i \in 1..n : w[i] = w[i - 1] \o Append(ms[i], Nul)
  BY <1>1, WiresAre
<1>3. \A i \in 0..n : Len(w[i]) \in Nat
  BY <1>2, LenProperties DEF Texts
<1>4. ASSUME NEW i \in 1..n PROVE Len(ms[i]) \in Nat /\ Len(w[i]) = Len(w[i - 1]) + Len(ms[i]) + 1
  <2>1. i - 1 \in 0..n /\ w[i - 1] \in Texts /\ ms[i] \in Texts
    BY <1>1, <1>2
  <2>2. w[i] = w[i - 1] \o Append(ms[i], Nul)
    BY <1>2
  <2>3. PICK v, m, u : v = w[i - 1] /\ m = ms[i] /\ u = w[i]
    OBVIOUS
  <2>4. v \in Texts /\ m \in Texts /\ u = v \o Append(m, Nul)
    BY <2>1, <2>2, <2>3
  <2>5. Len(m) \in Nat /\ Len(u) = Len(v) + Len(m) + 1
    BY ONLY <2>4, MessageAdded
  <2> QED BY <2>3, <2>5
<1>5. ASSUME NEW i \in 0..n PROVE \A k \in 0..n : i < k => Len(w[i]) < Len(w[k])
  <2> DEFINE G == {k \in 0..n : i < k => Len(w[i]) < Len(w[k])}
  <2>1. 0 \in G
    BY <1>1
  <2>2. ASSUME NEW k \in 1..n, k - 1 \in G PROVE k \in G
    <3>1. k \in 0..n /\ k - 1 \in 0..n /\ Len(w[k]) \in Nat /\ Len(w[k - 1]) \in Nat /\ Len(w[i]) \in Nat
      BY <1>1, <1>3
    <3>2. Len(w[k - 1]) < Len(w[k])
      <4>1. PICK a, b, c : a = Len(w[k]) /\ b = Len(w[k - 1]) /\ c = Len(ms[k])
        OBVIOUS
      <4>2. c \in Nat /\ a = b + c + 1 /\ b \in Nat
        BY <1>4, <3>1, <4>1
      <4>3. b < a
        BY ONLY <4>2
      <4> QED BY <4>1, <4>3
    <3>3. i < k - 1 => Len(w[i]) < Len(w[k - 1])
      BY <2>2
    <3>4. i < k => i < k - 1 \/ i = k - 1
      BY <1>1
    <3> QED BY <3>1, <3>2, <3>3, <3>4
  <2>3. \A k \in 0..n : k \in G
    <3> HIDE DEF G
    <3> QED BY <1>1, <2>1, <2>2, StepByStep
  <2> QED BY <2>3
<1> QED BY <1>1, <1>2, <1>3, <1>4, <1>5 DEF Till, Wire

(* The bytes of the first messages stay where they are.                      *)
LEMMA WireGrows ==
  ASSUME NEW ms \in Seq(Texts), NEW i \in 0..Len(ms)
  PROVE  \A k \in 0..Len(ms) : i <= k => \A j \in 1..Till(ms, i) : Wires(ms)[k][j] = Wires(ms)[i][j]
<1>1. PICK n \in Nat : n = Len(ms) /\ \A l \in 1..n : ms[l] \in Texts
  BY LenProperties, ElementOfSeq
<1>2. PICK w \in [0..n -> Texts] :
        w = Wires(ms) /\ w[0] = <<>> /\ \A l \in 1..n : w[l] = w[l - 1] \o Append(ms[l], Nul)
  BY <1>1, WiresAre
<1> DEFINE Same(k) == \A j \in 1..Len(w[i]) : w[k][j] = w[i][j]
           G == {k \in 0..n : i <= k => Same(k)}
<1>3. 0 \in G
  BY <1>1
<1>4. ASSUME NEW k \in 1..n, k - 1 \in G PROVE k \in G
  <2>1. CASE i = k
    BY <1>1, <2>1
  <2>2. CASE i # k
    <3> SUFFICES ASSUME i <= k, NEW j \in 1..Len(w[i]) PROVE w[k][j] = w[i][j]
      BY <1>1
    <3>1. i <= k - 1 /\ k - 1 \in 0..n /\ i \in 0..n
      BY <1>1, <2>2
    <3>2. w[k - 1][j] = w[i][j]
      BY <1>4, <3>1
    <3>3. Len(w[i]) <= Len(w[k - 1]) /\ Len(w[k - 1]) \in Nat /\ Len(w[i]) \in Nat
      <4>1. i = k - 1 \/ i < k - 1
        BY <1>1, <3>1
      <4>2. /\ \A l \in 0..n : Len(w[l]) \in Nat
            /\ \A l, m \in 0..n : l < m => Len(w[l]) < Len(w[m])
        BY <1>1, <1>2, TillGrows DEF Till
      <4>3. Len(w[i]) \in Nat /\ Len(w[k - 1]) \in Nat /\ (i < k - 1 => Len(w[i]) < Len(w[k - 1]))
        BY ONLY <3>1, <4>2
      <4> QED BY ONLY <4>1, <4>3
    <3>4. w[k - 1] \in Texts /\ ms[k] \in Texts /\ w[k] = w[k - 1] \o Append(ms[k], Nul)
      BY <1>1, <1>2, <3>1
    <3>5. w[k][j] = w[k - 1][j]
      <4>1. PICK v, m, u : v = w[k - 1] /\ m = ms[k] /\ u = w[k]
        OBVIOUS
      <4>2. v \in Texts /\ m \in Texts /\ u = v \o Append(m, Nul)
        BY <3>4, <4>1
      <4>3. \A x \in 1..Len(v) : u[x] = v[x]
        BY ONLY <4>2, MessageAdded
      <4>4. j \in 1..Len(v)
        BY <3>3, <4>1
      <4> QED BY <4>1, <4>3, <4>4
    <3> QED BY <3>2, <3>5
  <2> QED BY <2>1, <2>2
<1>5. \A k \in 0..n : k \in G
  <2> HIDE DEF G
  <2> QED BY <1>1, <1>3, <1>4, StepByStep
<1> QED BY <1>1, <1>2, <1>5 DEF Till

(* Message i, and then a NUL.                                                *)
LEMMA MessageAt ==
  ASSUME NEW ms \in Seq(Texts), NEW i \in 1..Len(ms)
  PROVE  /\ \A j \in 1..Len(ms[i]) : Wire(ms)[Till(ms, i - 1) + j] = ms[i][j]
         /\ Wire(ms)[Till(ms, i)] = Nul
<1>1. PICK n \in Nat : n = Len(ms) /\ \A l \in 1..n : ms[l] \in Texts
  BY LenProperties, ElementOfSeq
<1>2. PICK w \in [0..n -> Texts] :
        w = Wires(ms) /\ w[0] = <<>> /\ \A l \in 1..n : w[l] = w[l - 1] \o Append(ms[l], Nul)
  BY <1>1, WiresAre
<1>3. i - 1 \in 0..n /\ i \in 0..n /\ n \in 0..n /\ i <= n /\ i \in 1..n
  BY <1>1
<1>4. w[i - 1] \in Texts /\ ms[i] \in Texts /\ w[i] = w[i - 1] \o Append(ms[i], Nul)
  BY <1>1, <1>2, <1>3
<1>5. PICK v, m, u : v = w[i - 1] /\ m = ms[i] /\ u = w[i]
  OBVIOUS
<1>6. v \in Texts /\ m \in Texts /\ u = v \o Append(m, Nul)
  BY <1>4, <1>5
<1>7. PICK p, e : p = Len(v) /\ e = Len(m)
  OBVIOUS
<1>8. /\ p \in Nat /\ e \in Nat /\ Len(u) = p + e + 1
      /\ \A j \in 1..e : u[p + j] = m[j]
      /\ u[p + e + 1] = Nul
  BY ONLY <1>6, <1>7, MessageAdded
<1>9. \A j \in 1..(p + e + 1) : Wire(ms)[j] = u[j]
  <2>1. \A j \in 1..Till(ms, i) : Wires(ms)[n][j] = Wires(ms)[i][j]
    BY <1>1, <1>3, WireGrows
  <2> QED BY <1>1, <1>2, <1>5, <1>8, <2>1 DEF Wire, Till
<1>10. p + e + 1 \in 1..(p + e + 1) /\ \A j \in 1..e : p + j \in 1..(p + e + 1)
  <2>1. p \in Nat /\ e \in Nat
    BY <1>8
  <2> QED BY ONLY <2>1
<1>11. Till(ms, i - 1) = p /\ Till(ms, i) = p + e + 1
  BY <1>2, <1>5, <1>7, <1>8 DEF Till
<1> QED BY <1>5, <1>7, <1>8, <1>9, <1>10, <1>11

(* Each position is behind some of the messages and in front of the rest.    *)
LEMMA Located ==
  ASSUME NEW ms \in Seq(Texts), NEW x \in 0..Till(ms, Len(ms))
  PROVE  \E m \in 0..Len(ms) : Till(ms, m) <= x /\ (m < Len(ms) => x < Till(ms, m + 1))
<1>1. PICK n : n = Len(ms) /\ n \in Nat
  BY LenProperties
<1>2. PICK t : t = [i \in 0..n |-> Till(ms, i)]
  OBVIOUS
<1>3. t[0] = 0 /\ t[n] = Till(ms, n) /\ \A i \in 0..n : t[i] \in Nat
  BY <1>1, <1>2, TillGrows
<1> SUFFICES ASSUME \A m \in 0..n : t[m] <= x => m < n /\ ~(x < t[m + 1]) PROVE FALSE
  BY <1>1, <1>2
<1> DEFINE G == {k \in 0..n : t[k] <= x}
<1>4. 0 \in G
  BY <1>1, <1>3
<1>5. ASSUME NEW k \in 1..n, k - 1 \in G PROVE k \in G
  <2>1. k - 1 \in 0..n /\ k \in 0..n /\ k - 1 + 1 = k
    BY <1>1
  <2>2. ~(x < t[k]) /\ t[k] \in Nat
    BY <1>3, <1>5, <2>1
  <2>3. t[k] <= x
    <3>1. x \in Nat
      BY <1>1, <1>3
    <3> QED BY <2>2, <3>1
  <2> QED BY <2>1, <2>3
<1>6. n \in G
  <2> HIDE DEF G
  <2>1. \A k \in 0..n : k \in G
    BY <1>1, <1>4, <1>5, StepByStep
  <2> QED BY <1>1, <2>1
<1> QED BY <1>1, <1>6

(* What a client sends: its messages are not empty and have no NUL.          *)
Clean(ms) ==
  /\ ms \in Seq(Texts)
  /\ \A i \in 1..Len(ms) : Len(ms[i]) > 0 /\ \A j \in 1..Len(ms[i]) : ms[i][j] # Nul

LEMMA NulsAre ==
  ASSUME NEW ms, Clean(ms), NEW x \in 1..Till(ms, Len(ms))
  PROVE  Wire(ms)[x] = Nul <=> \E i \in 1..Len(ms) : Till(ms, i) = x
<1>1. PICK n : n = Len(ms) /\ n \in Nat
  BY LenProperties DEF Clean
<1>2. PICK t : t = [i \in 0..n |-> Till(ms, i)]
  OBVIOUS
<1>3. /\ t[0] = 0 /\ t[n] = Till(ms, n)
      /\ \A i \in 0..n : t[i] \in Nat
      /\ \A i \in 1..n : Len(ms[i]) \in Nat /\ t[i] = t[i - 1] + Len(ms[i]) + 1
  <2>1. \A i \in 1..n : i - 1 \in 0..n
    BY <1>1
  <2> QED BY <1>1, <1>2, <2>1, TillGrows DEF Clean
<1>4. (\E i \in 1..n : Till(ms, i) = x) => Wire(ms)[x] = Nul
  BY <1>1, MessageAt DEF Clean
<1>5. ASSUME \A i \in 1..n : Till(ms, i) # x PROVE Wire(ms)[x] # Nul
  <2>1. x \in Nat /\ x > 0 /\ x <= t[n]
    BY <1>1, <1>3
  <2>2. PICK m \in 0..n : t[m] <= x /\ (m < n => x < t[m + 1])
    <3>1. x \in 0..Till(ms, Len(ms))
      BY <1>1, <1>3, <2>1
    <3>2. PICK m \in 0..Len(ms) : Till(ms, m) <= x /\ (m < Len(ms) => x < Till(ms, m + 1))
      BY <3>1, Located DEF Clean
    <3>3. m \in 0..n /\ (m < n => m + 1 \in 0..n)
      BY <1>1
    <3> QED BY <1>1, <1>2, <3>2, <3>3
  <2>3. t[m] # x
    <3>1. m = 0 \/ m \in 1..n
      BY <1>1
    <3> QED BY <1>2, <1>3, <1>5, <2>1, <3>1
  <2>4. m < n
    BY <1>1, <1>3, <2>1, <2>2, <2>3
  <2>5. PICK k, e, y : k = m + 1 /\ k \in 1..n /\ k - 1 = m /\ e = Len(ms[k]) /\ y = t[m]
    BY <1>1, <2>4
  <2>6. y \in Nat /\ e \in Nat /\ t[k] = y + e + 1 /\ y < x /\ x < y + e + 1
    BY <1>3, <2>1, <2>2, <2>3, <2>4, <2>5
  <2>7. PICK j : j = x - y
    OBVIOUS
  <2>8. j \in 1..e /\ y + j = x
    BY <2>1, <2>6, <2>7
  <2>9. Wire(ms)[x] = ms[k][j] /\ ms[k][j] # Nul
    <3>1. Till(ms, k - 1) = y
      BY <1>2, <2>5
    <3> QED BY <1>1, <2>5, <2>8, <3>1, MessageAt DEF Clean
  <2> QED BY <2>9
<1> QED BY <1>1, <1>4, <1>5

------------------------------------------------------------------------------
(* String#split *)

Between(s, D, n) == SubSeq(s, D[n - 1] + 1, D[n] - 1)

(* K parts end in front of D[1], ..., D[K]; the last M of them is not empty. *)
SplitsAt(s, K, D) ==
  /\ s \in Texts /\ K \in Nat \ {0} /\ D \in [0..K -> Nat] /\ D[0] = 0 /\ D[K] = Len(s) + 1
  /\ \A i, j \in 0..K : i < j => D[i] < D[j]
  /\ \A j \in 1..Len(s) : s[j] = Nul <=> \E i \in 1..(K - 1) : D[i] = j

LEMMA Ranked ==
  ASSUME NEW K \in Nat, NEW D \in [0..K -> Nat], \A i, j \in 0..K : i < j => D[i] < D[j]
  PROVE  \A n \in 0..K : Cardinality({D[i] : i \in 1..n}) = n /\ IsFiniteSet({D[i] : i \in 1..n})
<1> DEFINE S(n) == {D[i] : i \in 1..n}
           G == {n \in 0..K : Cardinality(S(n)) = n /\ IsFiniteSet(S(n))}
<1>1. 0 \in G
  <2>1. S(0) = {}
    OBVIOUS
  <2> HIDE DEF S
  <2> QED BY <2>1, FS_EmptySet
<1>2. ASSUME NEW n \in 1..K, n - 1 \in G PROVE n \in G
  <2>1. S(n) = S(n - 1) \union {D[n]}
    <3>1. \A i : i \in 1..n <=> i \in 1..(n - 1) \/ i = n
      OBVIOUS
    <3> QED BY <3>1
  <2>2. D[n] \notin S(n - 1)
    <3>1. ASSUME NEW i \in 1..(n - 1) PROVE D[i] < D[n] /\ D[i] \in Nat /\ D[n] \in Nat
      <4>1. i \in 0..K /\ n \in 0..K /\ i < n
        OBVIOUS
      <4> QED BY <4>1
    <3>2. \A i \in 1..(n - 1) : D[i] # D[n]
      BY <3>1
    <3> QED BY <3>2
  <2>3. Cardinality(S(n - 1)) = n - 1 /\ IsFiniteSet(S(n - 1))
    BY <1>2
  <2> HIDE DEF S
  <2>4. PICK A, x : A = S(n - 1) /\ x = D[n]
    OBVIOUS
  <2>5. S(n) = A \union {x} /\ x \notin A /\ Cardinality(A) = n - 1 /\ IsFiniteSet(A)
    BY <2>1, <2>2, <2>3, <2>4
  <2>6. Cardinality(A \union {x}) = Cardinality(A) + 1 /\ IsFiniteSet(A \union {x})
    BY <2>5, FS_AddElement
  <2>7. n \in 0..K /\ n - 1 + 1 = n
    OBVIOUS
  <2>8. Cardinality(S(n)) = n /\ IsFiniteSet(S(n))
    BY <2>5, <2>6, <2>7
  <2> QED BY <2>7, <2>8
<1>3. \A n \in 0..K : n \in G
  <2> HIDE DEF G
  <2> QED BY <1>1, <1>2, StepByStep
<1> QED BY <1>3

LEMMA SplitAt ==
  ASSUME NEW s, NEW K, NEW D, SplitsAt(s, K, D), NEW M \in 0..K,
         \A n \in 1..K : n > M => Between(s, D, n) = <<>>,
         M > 0 => Between(s, D, M) # <<>>
  PROVE  Split(s) = [n \in 1..M |-> Between(s, D, n)]
<1> DEFINE ends == {i \in 1..Len(s) : s[i] = Nul} \union {Len(s) + 1}
           Place(i) == Cardinality({j \in ends : j <= i})
           End(n) == IF n = 0 THEN 0 ELSE CHOOSE i \in ends : Place(i) = n
           Part(n) == SubSeq(s, End(n - 1) + 1, End(n) - 1)
           full == {n \in 1..Cardinality(ends) : Part(n) # <<>>}
<1>1. Split(s) = [n \in 1..Max(full \union {0}) |-> Part(n)]
  BY DEF Split
<1>2. Len(s) \in Nat /\ K \in Nat /\ K > 0 /\ \A i \in 0..K : D[i] \in Nat
  BY LenProperties DEF SplitsAt, Texts
<1>3. ends = {D[i] : i \in 1..K}
  <2>1. ASSUME NEW x \in ends PROVE \E i \in 1..K : D[i] = x
    <3>1. CASE x = Len(s) + 1
      BY <1>2, <3>1 DEF SplitsAt
    <3>2. CASE x \in 1..Len(s) /\ s[x] = Nul
      <4>1. PICK i \in 1..(K - 1) : D[i] = x
        BY <3>2 DEF SplitsAt
      <4> QED BY <1>2, <4>1
    <3> QED BY <3>1, <3>2
  <2>2. ASSUME NEW i \in 1..K PROVE D[i] \in ends
    <3>1. CASE i = K
      BY <3>1 DEF SplitsAt
    <3>2. CASE i # K
      <4>1. i \in 1..(K - 1) /\ 0 \in 0..K /\ K \in 0..K /\ i \in 0..K /\ 0 < i /\ i < K
        BY <1>2, <3>2
      <4>2. 0 < D[i] /\ D[i] < Len(s) + 1 /\ D[i] \in Nat
        BY <1>2, <4>1 DEF SplitsAt
      <4>3. D[i] \in 1..Len(s)
        BY <1>2, <4>2
      <4> QED BY <4>1, <4>3 DEF SplitsAt
    <3> QED BY <3>1, <3>2
  <2> HIDE DEF ends
  <2> QED BY <2>1, <2>2
<1> HIDE DEF ends
<1>4. \A n \in 0..K : Cardinality({D[i] : i \in 1..n}) = n
  <2>1. K \in Nat /\ D \in [0..K -> Nat] /\ \A i, j \in 0..K : i < j => D[i] < D[j]
    BY DEF SplitsAt
  <2> QED BY ONLY <2>1, Ranked
<1>5. Cardinality(ends) = K
  BY <1>2, <1>3, <1>4
<1>6. ASSUME NEW n \in 1..K PROVE Place(D[n]) = n
  <2>1. {j \in ends : j <= D[n]} = {D[i] : i \in 1..n}
    <3>1. ASSUME NEW i \in 1..K PROVE D[i] <= D[n] <=> i \in 1..n
      <4>1. i \in 0..K /\ n \in 0..K /\ i \in Nat /\ n \in Nat /\ D[i] \in Nat /\ D[n] \in Nat
        BY <1>2
      <4>2. (i < n => D[i] < D[n]) /\ (n < i => D[n] < D[i])
        BY <4>1 DEF SplitsAt
      <4> QED BY <4>1, <4>2
    <3>2. \A i \in 1..n : i \in 1..K
      BY <1>2
    <3> QED BY <1>3, <3>1, <3>2
  <2>2. n \in 0..K
    BY <1>2
  <2> QED BY <1>4, <2>1, <2>2
<1> HIDE DEF Place
<1>7. ASSUME NEW n \in 0..K PROVE End(n) = D[n]
  <2>1. CASE n = 0
    BY <2>1 DEF SplitsAt
  <2>2. CASE n # 0
    <3>1. n \in 1..K
      BY <1>2, <2>2
    <3>2. D[n] \in ends /\ Place(D[n]) = n
      BY <1>3, <1>6, <3>1
    <3>3. \A x \in ends : Place(x) = n => x = D[n]
      BY <1>3, <1>6
    <3>4. End(n) = CHOOSE i \in ends : Place(i) = n
      BY <2>2
    <3> QED BY <3>2, <3>3, <3>4
  <2> QED BY <2>1, <2>2
<1> HIDE DEF End
<1>8. \A n \in 1..K : Part(n) = Between(s, D, n)
  <2>1. \A n \in 1..K : n \in 0..K /\ n - 1 \in 0..K
    BY <1>2
  <2> QED BY <1>7, <2>1 DEF Between
<1> HIDE DEF Part
<1>9. Max(full \union {0}) = M
  <2>1. full = {n \in 1..K : Between(s, D, n) # <<>>}
    BY <1>5, <1>8
  <2>2. M \in full \union {0} /\ \A y \in full \union {0} : M >= y
    <3>1. M = 0 \/ M \in 1..K
      BY <1>2
    <3>2. \A y \in full : y \in 1..K /\ ~(y > M)
      BY <2>1
    <3>3. M \in full \union {0}
      BY <1>2, <2>1, <3>1
    <3> HIDE DEF full
    <3>4. \A y \in full : M >= y
      BY <1>2, <3>2
    <3> QED BY <1>2, <3>3, <3>4
  <2>3. full \union {0} \subseteq Nat
    BY <1>2, <2>1
  <2> HIDE DEF full
  <2>4. \A x \in full \union {0} : (\A y \in full \union {0} : x >= y) => x = M
    BY <2>2, <2>3
  <2> QED BY <2>2, <2>4 DEF Max
<1>10. \A n \in 1..M : Part(n) = Between(s, D, n)
  BY <1>2, <1>8
<1> HIDE DEF full
<1> QED BY <1>1, <1>9, <1>10

------------------------------------------------------------------------------
(* A chunk c arrives when n messages are complete and q is the pending text; *)
(* with it, the first m are.                                                 *)

After(ms, n, q) == Till(ms, n) + Len(q)

Reads(ms, n, q, c) ==
  /\ Clean(ms) /\ n \in 0..(Len(ms) - 1)
  /\ q \in Texts /\ Len(q) <= Len(ms[n + 1]) /\ \A j \in 1..Len(q) : q[j] = ms[n + 1][j]
  /\ c \in Texts /\ Len(c) > 0 /\ After(ms, n, q) + Len(c) <= Till(ms, Len(ms))
  /\ \A j \in 1..Len(c) : c[j] = Wire(ms)[After(ms, n, q) + j]

Completes(ms, n, q, c, m) ==
  /\ m \in n..Len(ms)
  /\ Till(ms, m) <= After(ms, n, q) + Len(c)
  /\ m < Len(ms) => After(ms, n, q) + Len(c) < Till(ms, m + 1)

ChunkEnds(ms, n, q, c, m) ==
  [i \in 0..(m - n + 1) |-> IF i = 0 THEN 0
                            ELSE IF i = m - n + 1 THEN Len(c) + 1
                            ELSE Till(ms, n + i) - After(ms, n, q)]

(* The numbers in this. *)
Figures(ms, n, q, c, m, N, t, p, l, z) ==
  /\ N \in Nat /\ N = Len(ms) /\ n \in Nat /\ n < N /\ m \in Nat /\ n <= m /\ m <= N
  /\ t \in [0..N -> Nat] /\ \A i \in 0..N : t[i] = Till(ms, i)
  /\ \A i, k \in 0..N : i < k => t[i] < t[k]
  /\ \A i \in 1..N : Len(ms[i]) \in Nat /\ Len(ms[i]) > 0 /\ t[i] = t[i - 1] + Len(ms[i]) + 1
  /\ p \in Nat /\ p = After(ms, n, q) /\ l \in Nat /\ l = Len(c) /\ l > 0
  /\ z \in Nat /\ z = Len(q) /\ p = t[n] + z /\ p < t[n + 1] /\ n + 1 \in 1..N
  /\ p + l <= t[N] /\ t[m] <= p + l /\ (m < N => p + l < t[m + 1])

LEMMA Numbers ==
  ASSUME NEW ms, NEW n, NEW q, NEW c, NEW m, Reads(ms, n, q, c), Completes(ms, n, q, c, m)
  PROVE  \E N, t, p, l, z : Figures(ms, n, q, c, m, N, t, p, l, z)
<1>1. PICK N : N \in Nat /\ N = Len(ms) /\ n \in Nat /\ n < N /\ m \in Nat /\ n <= m /\ m <= N /\ n + 1 \in 1..N
  <2>1. Len(ms) \in Nat
    BY LenProperties DEF Reads, Clean
  <2> QED BY <2>1 DEF Reads, Completes
<1>2. PICK t : t = [i \in 0..N |-> Till(ms, i)]
  OBVIOUS
<1>3. /\ t \in [0..N -> Nat] /\ \A i \in 0..N : t[i] = Till(ms, i)
      /\ \A i, k \in 0..N : i < k => t[i] < t[k]
      /\ \A i \in 1..N : Len(ms[i]) \in Nat /\ Len(ms[i]) > 0 /\ t[i] = t[i - 1] + Len(ms[i]) + 1
  <2>1. \A i \in 1..N : i - 1 \in 0..N /\ i \in 0..N
    BY <1>1
  <2>2. ms \in Seq(Texts) /\ \A i \in 1..N : Len(ms[i]) > 0
    BY <1>1 DEF Reads, Clean
  <2> QED BY <1>1, <1>2, <2>1, <2>2, TillGrows
<1>4. PICK z, l : z \in Nat /\ z = Len(q) /\ l \in Nat /\ l = Len(c) /\ l > 0
  <2>1. Len(q) \in Nat /\ Len(c) \in Nat
    BY LenProperties DEF Reads, Texts
  <2> QED BY <2>1 DEF Reads
<1>5. n \in 0..N /\ N \in 0..N /\ m \in 0..N /\ (m < N => m + 1 \in 0..N) /\ n + 1 - 1 = n
  BY <1>1
<1>6. PICK p : p \in Nat /\ p = t[n] + z /\ p = After(ms, n, q) /\ p < t[n + 1]
  <2>1. t[n + 1] = t[n] + Len(ms[n + 1]) + 1 /\ Len(ms[n + 1]) \in Nat /\ t[n] \in Nat
    BY <1>1, <1>3, <1>5
  <2>2. z <= Len(ms[n + 1])
    BY <1>4 DEF Reads
  <2> QED BY <1>3, <1>4, <1>5, <2>1, <2>2 DEF After
<1>7. p + l <= t[N] /\ t[m] <= p + l /\ (m < N => p + l < t[m + 1])
  BY <1>1, <1>3, <1>4, <1>5, <1>6 DEF Reads, Completes
<1> QED BY <1>1, <1>3, <1>4, <1>6, <1>7 DEF Figures

LEMMA ChunkSplits ==
  ASSUME NEW ms, NEW n, NEW q, NEW c, NEW m, Reads(ms, n, q, c), Completes(ms, n, q, c, m)
  PROVE  SplitsAt(c, m - n + 1, ChunkEnds(ms, n, q, c, m))
<1>1. PICK N, t, p, l, z : Figures(ms, n, q, c, m, N, t, p, l, z)
  BY Numbers
<1>2. /\ N \in Nat /\ n \in Nat /\ m \in Nat /\ n < N /\ n <= m /\ m <= N
      /\ p \in Nat /\ l \in Nat /\ l > 0
  BY <1>1 DEF Figures
<1>3. \A i \in 0..N : t[i] \in Nat
  BY <1>1 DEF Figures
<1>4. \A i, k \in 0..N : i < k => t[i] < t[k]
  BY <1>1 DEF Figures
<1>5. p < t[n + 1] /\ t[n] <= p /\ p + l <= t[N] /\ t[m] <= p + l /\ (m < N => p + l < t[m + 1])
  <2>1. n \in 0..N
    BY <1>2
  <2>2. t[n + 1] \in Nat /\ t[n] \in Nat
    BY <1>2, <1>3, <2>1
  <2>3. z \in Nat /\ p = t[n] + z /\ p < t[n + 1] /\ p + l <= t[N] /\ t[m] <= p + l /\ (m < N => p + l < t[m + 1])
    BY <1>1 DEF Figures
  <2>4. t[n] <= p
    BY <1>2, <2>2, <2>3
  <2> QED BY <2>3, <2>4
<1>6. n \in 0..N /\ n + 1 \in 0..N /\ m \in 0..N /\ N \in 0..N
  BY <1>2
<1>7. PICK K, D : K = m - n + 1 /\ D = ChunkEnds(ms, n, q, c, m)
  OBVIOUS
<1>8. K \in Nat /\ K > 0 /\ \A i \in 1..(K - 1) : n + i \in 1..N /\ n + 1 <= n + i /\ n + i <= m
  BY <1>2, <1>7
<1>9. \A i \in 1..(K - 1) : n + i \in 0..N /\ n + i \in Nat
  BY <1>2, <1>8
<1>10. DOMAIN D = 0..K /\ D[0] = 0 /\ D[K] = l + 1 /\ \A i \in 1..(K - 1) : D[i] = t[n + i] - p
  <2>1. D = [i \in 0..K |-> IF i = 0 THEN 0 ELSE IF i = K THEN l + 1 ELSE Till(ms, n + i) - p]
    BY <1>1, <1>7 DEF ChunkEnds, Figures
  <2>2. 0 \in 0..K /\ K \in 0..K /\ K # 0 /\ \A i \in 1..(K - 1) : i \in 0..K /\ i # 0 /\ i # K
    BY <1>8
  <2>3. \A i \in 0..N : t[i] = Till(ms, i)
    BY <1>1 DEF Figures
  <2> QED BY <1>9, <2>1, <2>2, <2>3
<1>11. ASSUME NEW i \in 1..(K - 1) PROVE D[i] \in Nat /\ 0 < D[i] /\ D[i] <= l
  <2>1. PICK k : k = n + i
    OBVIOUS
  <2>2. k \in 0..N /\ k \in Nat /\ n + 1 <= k /\ k <= m
    BY <1>8, <1>9, <2>1
  <2>3. t[k] \in Nat /\ t[n + 1] \in Nat /\ t[m] \in Nat
    BY <1>3, <1>6, <2>2
  <2>4. (n + 1 < k => t[n + 1] < t[k]) /\ (k < m => t[k] < t[m])
    BY <1>4, <1>6, <2>2
  <2>5. (n + 1 = k \/ n + 1 < k) /\ (k = m \/ k < m)
    BY <1>2, <2>2
  <2>6. p < t[k] /\ t[k] <= p + l
    BY <1>2, <1>5, <2>3, <2>4, <2>5
  <2>7. D[i] = t[k] - p
    BY <1>10, <2>1
  <2> QED BY <1>2, <2>3, <2>6, <2>7
<1>12. D \in [0..K -> Nat]
  <2>1. \A i \in 0..K : i = 0 \/ i = K \/ i \in 1..(K - 1)
    BY <1>8
  <2>2. \A i \in 0..K : D[i] \in Nat
    BY <1>2, <1>10, <1>11, <2>1
  <2>3. D = [i \in 0..K |-> D[i]]
    BY <1>7 DEF ChunkEnds
  <2> QED BY <2>2, <2>3
<1>13. ASSUME NEW i \in 0..K, NEW k \in 0..K, i < k PROVE D[i] < D[k]
  <2>1. (i = 0 \/ i \in 1..(K - 1)) /\ (k = K \/ k \in 1..(K - 1))
    BY <1>8, <1>13
  <2>2. CASE i \in 1..(K - 1) /\ k \in 1..(K - 1)
    <3>1. n + i \in 0..N /\ n + k \in 0..N /\ n + i < n + k
      BY <1>2, <1>9, <1>13, <2>2
    <3>2. PICK x, y : x = t[n + i] /\ y = t[n + k]
      OBVIOUS
    <3>3. x < y /\ x \in Nat /\ y \in Nat
      BY <1>3, <1>4, <3>1, <3>2
    <3>4. D[i] = x - p /\ D[k] = y - p
      BY <1>10, <2>2, <3>2
    <3> QED BY <1>2, <3>3, <3>4
  <2>3. CASE ~(i \in 1..(K - 1) /\ k \in 1..(K - 1))
    <3>1. i \in 1..(K - 1) => D[i] \in Nat /\ D[i] <= l
      BY <1>11
    <3>2. k \in 1..(K - 1) => D[k] \in Nat /\ 0 < D[k]
      BY <1>11
    <3> QED BY <1>2, <1>10, <2>1, <2>3, <3>1, <3>2
  <2> QED BY <2>2, <2>3
<1>14. ASSUME NEW j \in 1..Len(c) PROVE c[j] = Nul <=> \E i \in 1..(K - 1) : D[i] = j
  <2>1. PICK x : x = p + j
    OBVIOUS
  <2>2. l = Len(c) /\ p = After(ms, n, q) /\ N = Len(ms) /\ t[N] = Till(ms, N)
    BY <1>1, <1>6 DEF Figures
  <2>3. j \in Nat /\ 0 < j /\ j <= l
    BY <1>2, <2>2
  <2>4. x \in Nat /\ p < x /\ x <= p + l /\ x <= t[N] /\ t[N] \in Nat
    <3>1. t[N] \in Nat
      BY <1>3, <1>6
    <3> QED BY <1>2, <1>5, <2>1, <2>3, <3>1
  <2>5. c[j] = Wire(ms)[x]
    BY <2>1, <2>2 DEF Reads
  <2>6. Wire(ms)[x] = Nul <=> \E k \in 1..N : t[k] = x
    <3>1. x \in 1..t[N]
      BY <1>2, <2>4
    <3>2. x \in 1..Till(ms, Len(ms)) /\ Clean(ms)
      BY <2>2, <3>1 DEF Reads
    <3>3. Wire(ms)[x] = Nul <=> \E k \in 1..Len(ms) : Till(ms, k) = x
      BY ONLY <3>2, NulsAre
    <3>4. \A k \in 1..N : t[k] = Till(ms, k)
      BY <1>1 DEF Figures
    <3> QED BY <2>2, <3>3, <3>4
  <2>7. ASSUME NEW k \in 1..N, t[k] = x PROVE \E i \in 1..(K - 1) : D[i] = j
    <3>1. k \in 0..N /\ k \in Nat
      BY <1>2
    <3>2. t[k] \in Nat /\ t[n] \in Nat /\ t[n] < t[k]
      BY <1>2, <1>3, <1>5, <1>6, <2>4, <2>7, <3>1
    <3>3. n < k
      <4>1. k < n => t[k] < t[n]
        BY <1>4, <1>6, <3>1
      <4>2. k # n
        BY <3>2
      <4> QED BY <1>2, <3>1, <3>2, <4>1, <4>2
    <3>4. k <= m
      <4>1. CASE m < N
        <5>1. m + 1 \in 0..N
          BY <1>2, <4>1
        <5>2. t[m + 1] \in Nat /\ t[k] < t[m + 1]
          BY <1>2, <1>3, <1>5, <2>4, <2>7, <4>1, <5>1
        <5>3. m + 1 < k => t[m + 1] < t[k]
          BY <1>4, <3>1, <5>1
        <5>4. k # m + 1
          BY <5>2, <3>2
        <5> QED BY <1>2, <3>1, <3>2, <5>2, <5>3, <5>4
      <4>2. CASE ~(m < N)
        BY <1>2, <4>2
      <4> QED BY <4>1, <4>2
    <3>5. PICK i : i = k - n
      OBVIOUS
    <3>6. i \in 1..(K - 1) /\ n + i = k
      BY <1>2, <1>7, <3>1, <3>3, <3>4, <3>5
    <3>7. D[i] = x - p
      BY <1>10, <2>7, <3>6
    <3>8. D[i] = j
      BY <1>2, <2>1, <2>3, <3>7
    <3> QED BY <3>6, <3>8
  <2>8. ASSUME NEW i \in 1..(K - 1), D[i] = j PROVE \E k \in 1..N : t[k] = x
    <3>1. n + i \in 1..N /\ n + i \in 0..N
      BY <1>8, <1>9
    <3>2. PICK y : y = t[n + i]
      OBVIOUS
    <3>3. y - p = j /\ y \in Nat
      BY <1>3, <1>10, <2>8, <3>1, <3>2
    <3>4. y = x
      BY <1>2, <2>1, <2>3, <3>3
    <3> QED BY <3>1, <3>2, <3>4
  <2> QED BY <2>5, <2>6, <2>7, <2>8
<1>15. c \in Texts /\ l = Len(c) /\ K \in Nat \ {0}
  BY <1>1, <1>8 DEF Reads, Figures
<1>16. SplitsAt(c, K, D)
  BY <1>10, <1>12, <1>13, <1>14, <1>15 DEF SplitsAt
<1> QED BY <1>7, <1>16

(* The first part completes the pending text, the next are whole messages,   *)
(* and the last one, behind the last NUL, begins the message to come.        *)
FirstOf(ms, n, q, c, m) == Between(c, ChunkEnds(ms, n, q, c, m), 1)
LastOne(ms, n, q, c, m) == Between(c, ChunkEnds(ms, n, q, c, m), m - n + 1)

LEMMA FirstPart ==
  ASSUME NEW ms, NEW n, NEW q, NEW c, NEW m, Reads(ms, n, q, c), Completes(ms, n, q, c, m), n < m
  PROVE  FirstOf(ms, n, q, c, m) \in Texts /\ q \o FirstOf(ms, n, q, c, m) = ms[n + 1]
<1>0. PICK a : a = FirstOf(ms, n, q, c, m)
  OBVIOUS
<1>1. PICK N, t, p, l, z : Figures(ms, n, q, c, m, N, t, p, l, z)
  BY Numbers
<1>2. /\ N \in Nat /\ N = Len(ms) /\ n \in Nat /\ m \in Nat /\ n < N /\ n < m /\ m <= N /\ n + 1 \in 1..N
      /\ p \in Nat /\ p = After(ms, n, q) /\ l \in Nat /\ l = Len(c) /\ z \in Nat /\ z = Len(q)
  BY <1>1 DEF Figures
<1>3. PICK e, u : e = Len(ms[n + 1]) /\ u = t[n]
  OBVIOUS
<1>4. /\ e \in Nat /\ e > 0 /\ u \in Nat /\ t[n + 1] = u + e + 1 /\ p = u + z /\ z <= e /\ u + e + 1 <= p + l
      /\ Till(ms, n) = u /\ Till(ms, n + 1) = u + e + 1
  <2>1. n \in 0..N /\ n + 1 \in 0..N /\ m \in 0..N /\ n + 1 - 1 = n
    BY <1>2
  <2>2. e \in Nat /\ e > 0 /\ t[n + 1] = u + e + 1 /\ p = u + z
    BY <1>1, <1>2, <1>3, <2>1 DEF Figures
  <2>3. u \in Nat /\ t[n + 1] \in Nat /\ t[m] \in Nat /\ t[m] <= p + l /\ (n + 1 < m => t[n + 1] < t[m])
    BY <1>1, <1>3, <2>1 DEF Figures
  <2>4. t[n + 1] <= p + l
    <3>1. n + 1 = m \/ n + 1 < m
      BY <1>2
    <3> QED BY <1>2, <2>3, <3>1
  <2>5. Till(ms, n) = u /\ Till(ms, n + 1) = t[n + 1]
    BY <1>1, <1>3, <2>1 DEF Figures
  <2>6. z <= e
    BY <1>2, <1>3 DEF Reads
  <2> QED BY <2>2, <2>3, <2>4, <2>5, <2>6
<1>5. PICK d : d = e - z
  OBVIOUS
<1>6. d \in Nat /\ d <= l /\ z + d = e /\ u + z + d + 1 <= p + l
  BY <1>2, <1>4, <1>5
<1>7. a = SubSeq(c, 1, d)
  <2>1. PICK D : D = ChunkEnds(ms, n, q, c, m)
    OBVIOUS
  <2>2. 0 \in 0..(m - n + 1) /\ 1 \in 0..(m - n + 1) /\ m - n + 1 # 1 /\ 1 - 1 = 0
    BY <1>2
  <2>3. D[0] = 0 /\ D[1] = Till(ms, n + 1) - p
    BY <1>2, <2>1, <2>2 DEF ChunkEnds
  <2>4. D[1] - 1 = d
    BY <1>2, <1>4, <1>5, <2>3
  <2>5. a = SubSeq(c, D[1 - 1] + 1, D[1] - 1)
    BY <1>0, <2>1 DEF Between, FirstOf
  <2>6. D[1 - 1] + 1 = 1
    BY <2>2, <2>3
  <2> QED BY <2>4, <2>5, <2>6
<1>8. \A j \in 1..l : c[j] \in Bytes
  BY <1>2, ElementOfSeq DEF Reads, Texts
<1>9. a \in Seq(Bytes) /\ Len(a) = d /\ \A j \in 1..d : a[j] = c[j]
  <2>1. d \in Int /\ 1 \in Int /\ (1 <= d => d - 1 + 1 = d) /\ (~(1 <= d) => d = 0) /\ d - 1 + 1 = d
        /\ \A j \in 1..d : j \in 1..l /\ 1 + j - 1 = j
    BY <1>2, <1>6
  <2>2. \A j \in 1..d : c[j] \in Bytes
    BY <1>8, <2>1
  <2>3. /\ SubSeq(c, 1, d) \in Seq(Bytes) /\ Len(SubSeq(c, 1, d)) = IF 1 <= d THEN d - 1 + 1 ELSE 0
        /\ \A j \in 1..(d - 1 + 1) : SubSeq(c, 1, d)[j] = c[1 + j - 1]
    BY <2>1, <2>2, SubSeqProperties
  <2> QED BY <1>7, <2>1, <2>3
<1>10. \A j \in 1..d : a[j] = ms[n + 1][z + j]
  <2> TAKE j \in 1..d
  <2>1. j \in 1..l /\ z + j \in 1..e /\ p + j = u + (z + j)
    BY <1>2, <1>4, <1>6
  <2>2. c[j] = Wire(ms)[p + j]
    BY <1>2, <2>1 DEF Reads
  <2>3. \A x \in 1..e : Wire(ms)[u + x] = ms[n + 1][x]
    <3>1. PICK k : k = n + 1
      OBVIOUS
    <3>2. ms \in Seq(Texts) /\ k \in 1..Len(ms) /\ k - 1 = n
      BY <1>2, <3>1 DEF Reads, Clean
    <3>3. \A x \in 1..Len(ms[k]) : Wire(ms)[Till(ms, k - 1) + x] = ms[k][x]
      BY <3>2, MessageAt
    <3> QED BY <1>3, <1>4, <3>1, <3>2, <3>3
  <2> QED BY <1>9, <2>1, <2>2, <2>3
<1>11. q \o a = ms[n + 1]
  <2>1. PICK r : r = ms[n + 1]
    OBVIOUS
  <2>2. q \in Seq(Bytes) /\ a \in Seq(Bytes) /\ r \in Seq(Bytes)
    BY <1>2, <1>9, <2>1, ElementOfSeq DEF Reads, Clean, Texts
  <2>3. /\ q \o a \in Seq(Bytes) /\ Len(q \o a) = z + d
        /\ \A i \in 1..(z + d) : (q \o a)[i] = IF i <= z THEN q[i] ELSE a[i - z]
    BY <1>2, <1>9, <2>2, ConcatProperties
  <2>4. ASSUME NEW i \in 1..e PROVE (q \o a)[i] = r[i]
    <3>1. i \in 1..(z + d)
      BY <1>6
    <3>2. CASE i <= z
      <4>1. i \in 1..Len(q)
        BY <1>2, <1>4, <3>2
      <4>2. q[i] = r[i]
        BY <2>1, <4>1 DEF Reads
      <4> QED BY <2>3, <3>1, <3>2, <4>2
    <3>3. CASE ~(i <= z)
      <4>1. PICK j : j = i - z
        OBVIOUS
      <4>2. j \in 1..d /\ z + j = i
        BY <1>2, <1>4, <1>6, <3>3, <4>1
      <4> QED BY <1>10, <2>1, <2>3, <3>1, <3>3, <4>1, <4>2
    <3> QED BY <3>2, <3>3
  <2>5. Len(q \o a) = Len(r) /\ \A i \in 1..Len(q \o a) : (q \o a)[i] = r[i]
    BY <1>3, <1>6, <2>1, <2>3, <2>4
  <2> QED BY <2>1, <2>2, <2>3, <2>5, SeqEqual
<1> QED BY <1>0, <1>9, <1>11 DEF Texts

LEMMA WholePart ==
  ASSUME NEW ms, NEW n, NEW q, NEW c, NEW m, Reads(ms, n, q, c), Completes(ms, n, q, c, m),
         NEW i \in 2..(m - n), NEW a, a = Between(c, ChunkEnds(ms, n, q, c, m), i)
  PROVE  a = ms[n + i]
<1>1. PICK N, t, p, l, z : Figures(ms, n, q, c, m, N, t, p, l, z)
  BY Numbers
<1>2. /\ N \in Nat /\ N = Len(ms) /\ n \in Nat /\ m \in Nat /\ n < N /\ m <= N /\ n <= m
      /\ p \in Nat /\ p = After(ms, n, q) /\ l \in Nat /\ l = Len(c)
  BY <1>1 DEF Figures
<1>3. PICK k, e, u : k = n + i /\ e = Len(ms[k]) /\ u = t[k - 1]
  OBVIOUS
<1>4. k \in 1..N /\ k - 1 \in 0..N /\ k \in 0..N /\ k \in Nat /\ n + 1 \in 0..N /\ m \in 0..N /\ n + 1 <= k - 1 /\ k <= m
  BY <1>2, <1>3
<1>5. e \in Nat /\ u \in Nat /\ t[k] = u + e + 1 /\ p < u /\ u + e + 1 <= p + l
  <2>1. e \in Nat /\ u \in Nat /\ t[k] = u + e + 1
    BY <1>1, <1>3, <1>4 DEF Figures
  <2>2. t[n + 1] \in Nat /\ p < t[n + 1] /\ t[m] \in Nat /\ t[m] <= p + l
    BY <1>1, <1>4 DEF Figures
  <2>3. (n + 1 < k - 1 => t[n + 1] < t[k - 1]) /\ (k < m => t[k] < t[m])
    BY <1>1, <1>4 DEF Figures
  <2>4. (n + 1 = k - 1 \/ n + 1 < k - 1) /\ (k = m \/ k < m)
    BY <1>2, <1>4
  <2>5. p < u
    BY <1>2, <1>3, <2>1, <2>2, <2>3, <2>4
  <2>6. t[k] <= t[m]
    BY <2>1, <2>2, <2>3, <2>4
  <2> QED BY <1>2, <2>1, <2>2, <2>5, <2>6
<1>6. PICK x : x = u - p
  OBVIOUS
<1>7. x \in Nat /\ x + e + 1 <= l /\ p + x = u
  <2>1. p \in Nat /\ l \in Nat
    BY <1>2
  <2> QED BY ONLY <1>5, <1>6, <2>1
<1>8. a = SubSeq(c, x + 1, x + e)
  <2>1. PICK D, K : D = ChunkEnds(ms, n, q, c, m) /\ K = m - n + 1
    OBVIOUS
  <2>2. i - 1 \in 0..K /\ i \in 0..K /\ i # 0 /\ i - 1 # 0 /\ i # K /\ i - 1 # K /\ n + (i - 1) = k - 1
    BY <1>2, <1>3, <2>1
  <2>3. D[i] = Till(ms, k) - p /\ D[i - 1] = Till(ms, k - 1) - p
    BY <1>2, <1>3, <2>1, <2>2 DEF ChunkEnds
  <2>4. Till(ms, k) = u + e + 1 /\ Till(ms, k - 1) = u
    BY <1>1, <1>3, <1>4, <1>5 DEF Figures
  <2>5. D[i - 1] + 1 = x + 1 /\ D[i] - 1 = x + e
    BY <1>2, <1>5, <1>6, <2>3, <2>4
  <2> QED BY <2>1, <2>5 DEF Between
<1>9. \A j \in 1..l : c[j] \in Bytes
  BY <1>2, ElementOfSeq DEF Reads, Texts
<1>10. a \in Seq(Bytes) /\ Len(a) = e /\ \A j \in 1..e : a[j] = c[x + j]
  <2>1. x + 1 \in Int /\ x + e \in Int /\ (x + 1 <= x + e => x + e - (x + 1) + 1 = e)
        /\ (~(x + 1 <= x + e) => e = 0) /\ x + e - (x + 1) + 1 = e
        /\ (\A j \in (x + 1)..(x + e) : j \in 1..l) /\ \A j \in 1..e : x + 1 + j - 1 = x + j
    BY <1>2, <1>5, <1>7
  <2>2. PICK g, h : g = x + 1 /\ h = x + e
    OBVIOUS
  <2>3. \A j \in g..h : c[j] \in Bytes
    BY <1>9, <2>1, <2>2
  <2>4. /\ SubSeq(c, g, h) \in Seq(Bytes) /\ Len(SubSeq(c, g, h)) = IF g <= h THEN h - g + 1 ELSE 0
        /\ \A j \in 1..(h - g + 1) : SubSeq(c, g, h)[j] = c[g + j - 1]
    BY <2>1, <2>2, <2>3, SubSeqProperties
  <2>5. h - g + 1 = e /\ (g <= h \/ e = 0) /\ \A j \in 1..e : g + j - 1 = x + j
    <3>1. x \in Nat /\ e \in Nat
      BY <1>5, <1>7
    <3> QED BY ONLY <2>2, <3>1
  <2> QED BY <1>8, <2>2, <2>4, <2>5
<1>11. \A j \in 1..e : a[j] = ms[k][j]
  <2> TAKE j \in 1..e
  <2>1. x + j \in 1..l /\ p + (x + j) = u + j
    <3>1. p \in Nat /\ l \in Nat /\ e \in Nat /\ j \in 1..e
      BY <1>2, <1>5
    <3> QED BY ONLY <1>7, <3>1
  <2>2. c[x + j] = Wire(ms)[p + (x + j)]
    BY <1>2, <2>1 DEF Reads
  <2>3. Wire(ms)[u + j] = ms[k][j]
    <3>1. ms \in Seq(Texts) /\ k \in 1..Len(ms) /\ Till(ms, k - 1) = u
      BY <1>1, <1>2, <1>3, <1>4 DEF Reads, Clean, Figures
    <3> QED BY <1>3, <3>1, MessageAt
  <2> QED BY <1>10, <2>1, <2>2, <2>3
<1>12. ms[k] \in Seq(Bytes)
  BY <1>2, <1>4, ElementOfSeq DEF Reads, Clean, Texts
<1> QED BY <1>3, <1>10, <1>11, <1>12, SeqEqual

Begins(a, ms, n, q, c, m) ==
  /\ a \in Texts /\ Len(a) = After(ms, n, q) + Len(c) - Till(ms, m)
  /\ \A j \in 1..Len(a) : m + 1 \in 1..Len(ms) /\ a[j] = ms[m + 1][j]

LEMMA LastPart ==
  ASSUME NEW ms, NEW n, NEW q, NEW c, NEW m, Reads(ms, n, q, c), Completes(ms, n, q, c, m)
  PROVE  /\ m = n => LastOne(ms, n, q, c, m) = c
         /\ n < m => Begins(LastOne(ms, n, q, c, m), ms, n, q, c, m)
<1>0. PICK a : a = LastOne(ms, n, q, c, m)
  OBVIOUS
<1>1. PICK N, t, p, l, z : Figures(ms, n, q, c, m, N, t, p, l, z)
  BY Numbers
<1>2. /\ N \in Nat /\ N = Len(ms) /\ n \in Nat /\ m \in Nat /\ n < N /\ m <= N /\ n <= m
      /\ p \in Nat /\ p = After(ms, n, q) /\ l \in Nat /\ l = Len(c)
  BY <1>1 DEF Figures
<1>3. PICK D, K : D = ChunkEnds(ms, n, q, c, m) /\ K = m - n + 1
  OBVIOUS
<1>4. K \in Nat /\ K > 0 /\ D[K] = l + 1 /\ (K = 1 => D[0] = 0) /\ (K > 1 => D[K - 1] = Till(ms, m) - p)
  <2>1. K \in Nat /\ K > 0 /\ 0 \in 0..K /\ K \in 0..K /\ K - 1 \in 0..K /\ K # 0 /\ K - 1 # K
        /\ (K > 1 => K - 1 # 0) /\ n + (K - 1) = m
    BY <1>2, <1>3
  <2> QED BY <1>2, <1>3, <2>1 DEF ChunkEnds
<1>5. a = SubSeq(c, D[K - 1] + 1, D[K] - 1)
  BY <1>0, <1>3 DEF Between, LastOne
<1>6. c \in Seq(Bytes) /\ \A j \in 1..l : c[j] \in Bytes
  BY <1>2, ElementOfSeq DEF Reads, Texts
<1>7. m = n => a = c
  <2> SUFFICES ASSUME m = n PROVE a = c
    OBVIOUS
  <2>1. K = 1 /\ K - 1 = 0
    BY <1>2, <1>3
  <2>2. D[K - 1] + 1 = 1 /\ D[K] - 1 = l
    BY <1>2, <1>4, <2>1
  <2>3. a = SubSeq(c, 1, Len(c))
    BY <1>2, <1>5, <2>2
  <2> QED BY <1>6, <2>3, SubSeqFull
<1>8. ASSUME n < m
      PROVE  Begins(a, ms, n, q, c, m)
  <2>1. PICK u, x, e : u = Till(ms, m) /\ x = u - p /\ e = l - x
    OBVIOUS
  <2>2. u = t[m] /\ u \in Nat /\ p < u /\ u <= p + l
    <3>1. m \in 0..N /\ n + 1 \in 0..N
      BY <1>2, <1>8
    <3>2. u = t[m] /\ u \in Nat /\ u <= p + l /\ t[n + 1] \in Nat /\ p < t[n + 1]
          /\ (n + 1 < m => t[n + 1] < t[m])
      BY <1>1, <2>1, <3>1 DEF Figures
    <3>3. n + 1 = m \/ n + 1 < m
      BY <1>2, <1>8
    <3> QED BY <1>2, <3>2, <3>3
  <2>3. x \in Nat /\ e \in Nat /\ x + e = l /\ p + x = u
    <3>1. x = u - p /\ e = l - x /\ u \in Nat /\ p \in Nat /\ l \in Nat /\ p < u /\ u <= p + l
      BY <1>2, <2>1, <2>2
    <3> QED BY ONLY <3>1
  <2>4. PICK g : g = x + 1
    OBVIOUS
  <2>5. a = SubSeq(c, g, l)
    <3>1. K > 1
      BY <1>2, <1>3, <1>8
    <3>2. D[K - 1] = x
      BY <1>4, <2>1, <3>1
    <3>3. D[K - 1] + 1 = g /\ D[K] - 1 = l
      BY <1>2, <1>4, <2>4, <3>2
    <3> QED BY <1>5, <3>3
  <2>6. a \in Seq(Bytes) /\ Len(a) = e /\ \A j \in 1..e : a[j] = c[x + j]
    <3>1. g \in Int /\ l \in Int /\ l - g + 1 = e /\ (g <= l \/ e = 0) /\ (\A j \in g..l : j \in 1..l)
          /\ \A j \in 1..e : g + j - 1 = x + j
      <4>1. x \in Nat /\ e \in Nat /\ l \in Nat
        BY <1>2, <2>3
      <4> QED BY ONLY <2>3, <2>4, <4>1
    <3>2. \A j \in g..l : c[j] \in Bytes
      BY <1>6, <3>1
    <3>3. /\ SubSeq(c, g, l) \in Seq(Bytes) /\ Len(SubSeq(c, g, l)) = IF g <= l THEN l - g + 1 ELSE 0
          /\ \A j \in 1..(l - g + 1) : SubSeq(c, g, l)[j] = c[g + j - 1]
      BY <3>1, <3>2, SubSeqProperties
    <3>4. SubSeq(c, g, l) \in Seq(Bytes) /\ Len(SubSeq(c, g, l)) = e
      BY <3>1, <3>3
    <3> QED BY <2>5, <3>1, <3>3, <3>4
  <2>7. ASSUME NEW j \in 1..e PROVE m + 1 \in 1..N /\ a[j] = ms[m + 1][j]
    <3>1. x + j \in 1..l /\ p + (x + j) = u + j /\ u + j <= p + l /\ j > 0 /\ u < u + j
      <4>1. p \in Nat /\ l \in Nat /\ u \in Nat /\ j \in 1..e
        BY <1>2, <2>2
      <4> QED BY ONLY <2>3, <4>1
    <3>2. m < N
      <4>1. p + l <= t[N] /\ N \in 0..N
        BY <1>1, <1>2 DEF Figures
      <4>2. m = N => u = t[N]
        BY <2>2
      <4>3. u < p + l
        BY <1>2, <2>2, <3>1
      <4>4. t[N] \in Nat
        BY <1>1, <4>1 DEF Figures
      <4> QED BY <1>2, <2>2, <4>1, <4>2, <4>3, <4>4
    <3>3. PICK k, f : k = m + 1 /\ f = Len(ms[k])
      OBVIOUS
    <3>4. k \in 1..N /\ k - 1 = m /\ k \in 0..N
      BY <1>2, <3>2, <3>3
    <3>5. f \in Nat /\ p + l < u + f + 1
      <4>1. f \in Nat /\ t[k] = u + f + 1
        BY <1>1, <2>2, <3>3, <3>4 DEF Figures
      <4>2. p + l < t[k]
        BY <1>1, <3>2, <3>3 DEF Figures
      <4> QED BY <4>1, <4>2
    <3>6. j \in 1..f
      <4>1. /\ j \in Nat /\ j > 0 /\ u \in Nat /\ f \in Nat /\ p \in Nat /\ l \in Nat
            /\ u + j <= p + l /\ p + l < u + f + 1
        BY <1>2, <2>2, <2>3, <3>1, <3>5
      <4> QED BY ONLY <4>1
    <3>7. c[x + j] = Wire(ms)[p + (x + j)]
      BY <1>2, <3>1 DEF Reads
    <3>8. Wire(ms)[u + j] = ms[k][j]
      <4>1. ms \in Seq(Texts) /\ k \in 1..Len(ms) /\ Till(ms, k - 1) = u
        BY <1>2, <2>1, <3>4 DEF Reads, Clean
      <4> QED BY <3>3, <3>6, <4>1, MessageAt
    <3> QED BY <2>6, <3>1, <3>3, <3>4, <3>7, <3>8
  <2>8. After(ms, n, q) + Len(c) - Till(ms, m) = e
    BY <1>2, <2>1, <2>2
  <2> QED BY <1>2, <2>6, <2>7, <2>8 DEF Texts, Begins
<1> QED BY <1>0, <1>7, <1>8

(* A text without NULs is one part. *)
LEMMA SplitWhole ==
  ASSUME NEW s \in Texts, Len(s) > 0, \A j \in 1..Len(s) : s[j] # Nul
  PROVE  Split(s) = <<s>>
<1>1. Len(s) \in Nat
  BY LenProperties DEF Texts
<1>2. PICK D : D = [i \in 0..1 |-> IF i = 0 THEN 0 ELSE Len(s) + 1]
  OBVIOUS
<1>3. D[0] = 0 /\ D[1] = Len(s) + 1
  BY <1>2
<1>4. SplitsAt(s, 1, D)
  <2>1. D \in [0..1 -> Nat]
    BY <1>1, <1>2
  <2>2. \A i, j \in 0..1 : i < j => D[i] < D[j]
    <3>1. \A i, j \in 0..1 : i < j => i = 0 /\ j = 1
      OBVIOUS
    <3> QED BY <1>1, <1>3, <3>1
  <2> QED BY <1>3, <2>1, <2>2 DEF SplitsAt
<1>5. Between(s, D, 1) = s
  <2>1. Between(s, D, 1) = SubSeq(s, D[1 - 1] + 1, D[1] - 1)
    BY DEF Between
  <2>2. D[1 - 1] + 1 = 1 /\ D[1] - 1 = Len(s)
    BY <1>1, <1>3
  <2> QED BY <2>1, <2>2, SubSeqFull DEF Texts
<1>6. Split(s) = [n \in 1..1 |-> Between(s, D, n)]
  <2>1. s # <<>>
    BY EmptySeq DEF Texts
  <2>2. (\A n \in 1..1 : n > 1 => Between(s, D, n) = <<>>) /\ (1 > 0 => Between(s, D, 1) # <<>>) /\ 1 \in 0..1
    BY <1>5, <2>1
  <2> QED BY ONLY <1>4, <2>2, SplitAt
<1>7. \A n \in 1..1 : Between(s, D, n) = s
  BY <1>5
<1>8. Split(s) = [n \in 1..1 |-> s]
  BY <1>6, <1>7
<1> QED BY <1>8

------------------------------------------------------------------------------
(* A round of the loop *)

Some(ms, n, k) == [i \in 1..k |-> ms[n + i]]

LEMMA SomeAre ==
  ASSUME NEW ms \in Seq(Texts), NEW n \in Nat, NEW k \in Nat, n + k <= Len(ms)
  PROVE  /\ Some(ms, n, k) \in Seq(Texts) /\ Len(Some(ms, n, k)) = k
         /\ \A i \in 1..k : Some(ms, n, k)[i] = ms[n + i]
<1>1. Len(ms) \in Nat
  BY LenProperties
<1>2. \A i \in 1..k : n + i \in 1..Len(ms)
  BY <1>1
<1>3. \A i \in 1..k : ms[n + i] \in Texts
  BY <1>2, ElementOfSeq
<1>4. PICK r : r = [i \in 1..k |-> ms[n + i]]
  OBVIOUS
<1>5. r \in [1..k -> Texts] /\ \A i \in 1..k : r[i] = ms[n + i]
  BY <1>3, <1>4
<1>6. r \in Seq(Texts) /\ Len(r) = k
  BY <1>5
<1> QED BY <1>4, <1>5, <1>6 DEF Some

PendingOK == pending = Nil \/ (pending \in Texts /\ pending # <<>>)

LEMMA NilIsNoText == Nil \notin Texts
BY FramingAssumption DEF Texts

LEMMA JoinsFirst ==
  ASSUME NEW ms, NEW n, NEW c, NEW m, Reads(ms, n, Text(pending), c),
         Completes(ms, n, Text(pending), c, m), n < m, PendingOK, NEW k \in 1..(m - n),
         NEW fs, fs = [i \in 1..k |-> Between(c, ChunkEnds(ms, n, Text(pending), c, m), i)], NEW last
  PROVE  JoinPending(fs, last) = [messages |-> Some(ms, n, k), last |-> last]
<1>1. PICK q, D : q = Text(pending) /\ D = ChunkEnds(ms, n, q, c, m)
  OBVIOUS
<1>2. PICK N : N \in Nat /\ N = Len(ms) /\ n \in Nat /\ m \in Nat /\ n < m /\ m <= N /\ ms \in Seq(Texts)
  <2>1. Len(ms) \in Nat /\ ms \in Seq(Texts)
    BY LenProperties DEF Reads, Clean
  <2> QED BY <2>1 DEF Reads, Completes
<1>3. k \in Nat /\ k >= 1 /\ n + k <= N /\ 1 \in 1..k /\ n + 1 \in 1..N /\ k <= m - n
  BY <1>2
<1>4. PICK g : g = ms[n + 1]
  OBVIOUS
<1>5. g \in Texts /\ Len(g) > 0 /\ \A j \in 1..Len(g) : g[j] # Nul
  BY <1>2, <1>3, <1>4, ElementOfSeq DEF Reads, Clean
<1>6. PICK a : a = Between(c, D, 1)
  OBVIOUS
<1>7. a \in Texts /\ q \o a = g
  <2>1. Reads(ms, n, q, c) /\ Completes(ms, n, q, c, m)
    BY <1>1
  <2>2. n < m /\ a = FirstOf(ms, n, q, c, m)
    BY <1>1, <1>2, <1>6 DEF FirstOf
  <2>3. FirstOf(ms, n, q, c, m) \in Texts /\ q \o FirstOf(ms, n, q, c, m) = ms[n + 1]
    BY ONLY <2>1, <2>2, FirstPart
  <2> QED BY <1>4, <2>2, <2>3
<1>8. \A i \in 1..k : fs[i] = IF i = 1 THEN a ELSE ms[n + i]
  <2> TAKE i \in 1..k
  <2>1. CASE i = 1
    BY <1>1, <1>6, <2>1
  <2>2. CASE i # 1
    <3>1. i \in 2..(m - n)
      BY <1>2, <1>3, <2>2
    <3>2. Reads(ms, n, q, c) /\ Completes(ms, n, q, c, m)
      BY <1>1
    <3>3. Between(c, D, i) = ms[n + i]
      BY <1>1, <3>1, <3>2, WholePart
    <3> QED BY <1>1, <2>2, <3>3
  <2> QED BY <2>1, <2>2
<1>9. fs \in Seq(Texts) /\ Len(fs) = k
  <2>1. \A i \in 1..k : n + i \in 1..N
    BY <1>2, <1>3
  <2>2. \A i \in 1..k : fs[i] \in Texts
    BY <1>2, <1>7, <1>8, <2>1, ElementOfSeq
  <2>3. fs \in [1..k -> Texts]
    BY <2>2
  <2> QED BY <1>3, <2>3
<1>10. PICK r : r = Some(ms, n, k) /\ r \in Seq(Texts) /\ Len(r) = k /\ \A i \in 1..k : r[i] = ms[n + i]
  <2>1. ms \in Seq(Texts) /\ n \in Nat /\ k \in Nat /\ n + k <= Len(ms)
    BY <1>2, <1>3
  <2>2. /\ Some(ms, n, k) \in Seq(Texts) /\ Len(Some(ms, n, k)) = k
        /\ \A i \in 1..k : Some(ms, n, k)[i] = ms[n + i]
    BY ONLY <2>1, SomeAre
  <2> QED BY <2>2
<1>11. CASE pending = Nil
  <2>1. q = <<>>
    BY <1>1, <1>11 DEF Text
  <2>2. a = g
    BY <1>7, <2>1, ConcatEmptySeq DEF Texts
  <2>3. \A i \in 1..k : fs[i] = r[i]
    BY <1>4, <1>8, <1>10, <2>2
  <2>4. fs = r
    BY <1>9, <1>10, <2>3, SeqEqual
  <2> QED BY <1>10, <1>11, <2>4 DEF JoinPending
<1>12. CASE pending # Nil
  <2>1. q = pending
    BY <1>1, <1>12 DEF Text
  <2>2. fs # <<>> /\ Head(fs) = a
    BY <1>3, <1>8, <1>9
  <2>3. Split(pending \o Head(fs)) = <<g>>
    BY <1>5, <1>7, <2>1, <2>2, SplitWhole
  <2>4. Tail(fs) \in Seq(Texts) /\ Len(Tail(fs)) = k - 1 /\ \A i \in 1..(k - 1) : Tail(fs)[i] = fs[i + 1]
    BY <1>9, <2>2, HeadTailProperties
  <2>5. PICK h, b : h = Tail(fs) /\ b = <<g>>
    OBVIOUS
  <2>6. b \in Seq(Texts) /\ Len(b) = 1 /\ b[1] = g
    BY <1>5, <2>5
  <2>7. b \o h \in Seq(Texts) /\ Len(b \o h) = k
        /\ \A i \in 1..k : (b \o h)[i] = IF i <= 1 THEN b[i] ELSE h[i - 1]
    <3>1. h \in Seq(Texts) /\ Len(h) = k - 1
      BY <2>4, <2>5
    <3>2. b \o h \in Seq(Texts) /\ Len(b \o h) = Len(b) + Len(h)
          /\ \A i \in 1..(Len(b) + Len(h)) : (b \o h)[i] = IF i <= Len(b) THEN b[i] ELSE h[i - Len(b)]
      BY ONLY <2>6, <3>1, ConcatProperties
    <3>3. Len(b) + Len(h) = k
      BY <1>3, <2>6, <3>1
    <3> QED BY <2>6, <3>2, <3>3
  <2>8. \A i \in 1..k : (b \o h)[i] = r[i]
    <3> TAKE i \in 1..k
    <3>1. CASE i = 1
      BY <1>4, <1>10, <2>6, <2>7, <3>1
    <3>2. CASE i # 1
      <4>1. i - 1 \in 1..(k - 1) /\ ~(i <= 1) /\ i - 1 + 1 = i
        BY <1>3, <3>2
      <4> QED BY <1>8, <1>10, <2>4, <2>5, <2>7, <3>2, <4>1
    <3> QED BY <3>1, <3>2
  <2>9. b \o h = r
    BY <1>10, <2>7, <2>8, SeqEqual
  <2> QED BY <1>10, <1>12, <2>2, <2>3, <2>5, <2>9 DEF JoinPending
<1> QED BY <1>11, <1>12

(* The chunk ends with a NUL just if a message ends there.                   *)
LEMMA ChunkComplete ==
  ASSUME NEW ms, NEW n, NEW q, NEW c, NEW m, Reads(ms, n, q, c), Completes(ms, n, q, c, m)
  PROVE  /\ Last(c) = Nul <=> Till(ms, m) = After(ms, n, q) + Len(c)
         /\ m = n => Last(c) # Nul
<1>1. PICK N, t, p, l, z : Figures(ms, n, q, c, m, N, t, p, l, z)
  BY Numbers
<1>2. /\ N \in Nat /\ N = Len(ms) /\ n \in Nat /\ m \in Nat /\ n < N /\ m <= N /\ n <= m
      /\ p \in Nat /\ p = After(ms, n, q) /\ l \in Nat /\ l = Len(c) /\ l > 0
  BY <1>1 DEF Figures
<1>3. \A i \in 0..N : t[i] \in Nat /\ t[i] = Till(ms, i)
  BY <1>1 DEF Figures
<1>4. \A i, k \in 0..N : i < k => t[i] < t[k]
  BY <1>1 DEF Figures
<1>5. n \in 0..N /\ N \in 0..N /\ m \in 0..N /\ (m < N => m + 1 \in 0..N)
  BY <1>2
<1>6. t[n] <= p /\ p + l <= t[N] /\ t[m] <= p + l /\ (m < N => p + l < t[m + 1])
  BY <1>1, <1>3, <1>5 DEF Figures
<1>7. Last(c) = Nul <=> \E i \in 1..N : t[i] = p + l
  <2>1. p + l \in 1..Till(ms, Len(ms)) /\ Clean(ms)
    BY <1>2, <1>3, <1>5, <1>6 DEF Reads
  <2>2. Wire(ms)[p + l] = Nul <=> \E i \in 1..Len(ms) : Till(ms, i) = p + l
    <3>1. PICK x : x = p + l
      OBVIOUS
    <3>2. x \in 1..Till(ms, Len(ms)) /\ Clean(ms)
      BY <2>1, <3>1
    <3>3. Wire(ms)[x] = Nul <=> \E i \in 1..Len(ms) : Till(ms, i) = x
      BY ONLY <3>2, NulsAre
    <3> QED BY <3>1, <3>3
  <2>3. l \in 1..Len(c)
    BY <1>2
  <2>4. Last(c) = Wire(ms)[p + l]
    BY <1>2, <2>3 DEF Reads, Last
  <2>5. \A i \in 1..N : t[i] = Till(ms, i)
    BY <1>2, <1>3
  <2> QED BY <1>2, <2>2, <2>4, <2>5
<1>8. t[m] = p + l => m # n
  BY <1>2, <1>3, <1>5, <1>6
<1>9. ASSUME NEW i \in 1..N, t[i] = p + l PROVE t[m] = p + l
  <2>1. i \in 0..N /\ i \in Nat
    BY <1>2
  <2>2. CASE i < m
    <3>1. t[i] < t[m]
      BY <1>4, <1>5, <2>1, <2>2
    <3> QED BY <1>2, <1>3, <1>5, <1>6, <1>9, <2>1, <3>1
  <2>3. CASE m < i
    <3>1. m < N /\ (m + 1 = i \/ m + 1 < i)
      BY <1>2, <2>1, <2>3
    <3>2. m + 1 < i => t[m + 1] < t[i]
      BY <1>4, <1>5, <2>1, <3>1
    <3> QED BY <1>2, <1>3, <1>5, <1>6, <1>9, <2>1, <3>1, <3>2
  <2>4. CASE i = m
    BY <1>9, <2>4
  <2> QED BY <1>2, <2>1, <2>2, <2>3, <2>4
<1>10. t[m] = p + l => m \in 1..N
  BY <1>2, <1>8
<1> QED BY <1>2, <1>3, <1>5, <1>7, <1>8, <1>9, <1>10

FrontOf(s) == IF s = <<>> THEN <<>> ELSE Front(s)
LastOf(s) == IF s = <<>> THEN Nil ELSE Last(s)
Joined(c) == JoinPending(FrontOf(Split(c)), LastOf(Split(c)))
MessagesIn(c) == Joined(c).messages \o (IF Last(c) = Nul THEN <<Joined(c).last>> ELSE <<>>)

(* Front and Last of a function on 1..M. *)
LEMMA FrontLast ==
  ASSUME NEW M \in Nat, NEW b, NEW s, s = [i \in 1..M |-> b[i]]
  PROVE  /\ M = 0 => FrontOf(s) = <<>> /\ LastOf(s) = Nil
         /\ M > 0 => FrontOf(s) = [i \in 1..(M - 1) |-> b[i]] /\ LastOf(s) = b[M]
<1>1. CASE M = 0
  <2>1. s = <<>>
    BY <1>1
  <2> QED BY <1>1, <2>1 DEF FrontOf, LastOf
<1>2. CASE M # 0
  <2>1. PICK B : B = {b[i] : i \in 1..M}
    OBVIOUS
  <2>2. s \in [1..M -> B] /\ \A i \in 1..M : s[i] = b[i]
    BY <2>1
  <2>3. s \in Seq(B) /\ Len(s) = M
    BY <2>2
  <2>4. s # <<>>
    BY <1>2, <2>3, EmptySeq
  <2>5. M \in 1..M /\ M - 1 \in Int /\ M - 1 \in Nat /\ \A i \in 1..(M - 1) : i \in 1..M /\ 1 + i - 1 = i
    BY <1>2
  <2>6. LastOf(s) = b[M]
    BY <2>2, <2>3, <2>4, <2>5 DEF LastOf, Last
  <2>7. FrontOf(s) = SubSeq(s, 1, M - 1)
    BY <2>3, <2>4 DEF FrontOf, Front
  <2>8. PICK d, f, r : d = M - 1 /\ f = SubSeq(s, 1, d) /\ r = [i \in 1..d |-> b[i]]
    OBVIOUS
  <2>9. f \in Seq(B) /\ Len(f) = d /\ \A i \in 1..d : f[i] = s[i]
    <3>1. d \in Int /\ d \in Nat /\ d - 1 + 1 = d /\ (1 <= d \/ d = 0) /\ \A i \in 1..d : 1 + i - 1 = i /\ i \in 1..M
      BY <2>5, <2>8
    <3>2. \A i \in 1..d : s[i] \in B
      BY <2>2, <3>1
    <3>3. /\ SubSeq(s, 1, d) \in Seq(B) /\ Len(SubSeq(s, 1, d)) = IF 1 <= d THEN d - 1 + 1 ELSE 0
          /\ \A i \in 1..(d - 1 + 1) : SubSeq(s, 1, d)[i] = s[1 + i - 1]
      BY <3>1, <3>2, SubSeqProperties
    <3> QED BY <2>8, <3>1, <3>3
  <2>10. r \in Seq(B) /\ Len(r) = d /\ \A i \in 1..d : r[i] = s[i]
    <3>1. d \in Nat /\ \A i \in 1..d : i \in 1..M
      BY <2>5, <2>8
    <3>2. r \in [1..d -> B] /\ \A i \in 1..d : r[i] = s[i]
      BY <2>2, <2>8, <3>1
    <3> QED BY <3>1, <3>2
  <2>11. f = r
    BY <2>9, <2>10, SeqEqual
  <2> QED BY <1>2, <2>6, <2>7, <2>8, <2>11
<1> QED BY <1>1, <1>2

(* What one chunk yields. *)
Yields(ms, n, q, c, m) ==
  /\ MessagesIn(c) = Some(ms, n, m - n)
  /\ Last(c) = Nul <=> Till(ms, m) = After(ms, n, q) + Len(c)
  /\ Last(c) # Nul => /\ m + 1 \in 1..Len(ms)
                      /\ Joined(c).last \in Texts
                      /\ Len(Joined(c).last) = After(ms, n, q) + Len(c) - Till(ms, m)
                      /\ \A j \in 1..Len(Joined(c).last) : Joined(c).last[j] = ms[m + 1][j]

Now(ms, n, c, m) ==
  /\ Reads(ms, n, Text(pending), c) /\ Completes(ms, n, Text(pending), c, m) /\ PendingOK

(* Nothing is complete yet. *)
LEMMA JoinsNone ==
  ASSUME PendingOK, NEW last \in Texts \union {Nil}
  PROVE  /\ JoinPending(<<>>, last).messages = <<>>
         /\ JoinPending(<<>>, last).last = IF pending = Nil THEN last ELSE pending \o Text(last)
         /\ last \in Texts => JoinPending(<<>>, last).last = Text(pending) \o last
<1>1. /\ JoinPending(<<>>, last).messages = <<>>
      /\ JoinPending(<<>>, last).last = IF pending = Nil THEN last ELSE pending \o Text(last)
  BY DEF JoinPending
<1>2. ASSUME last \in Texts PROVE JoinPending(<<>>, last).last = Text(pending) \o last
  <2>1. Text(last) = last
    BY <1>2, NilIsNoText DEF Text
  <2>2. <<>> \o last = last
    BY <1>2, ConcatEmptySeq DEF Texts
  <2> QED BY <1>1, <2>1, <2>2 DEF Text
<1> QED BY <1>1, <1>2

LEMMA YieldsIncomplete ==
  ASSUME NEW ms, NEW n, NEW c, NEW m, Now(ms, n, c, m), Last(c) # Nul
  PROVE  Yields(ms, n, Text(pending), c, m)
<1>1. PICK q, D, K : q = Text(pending) /\ D = ChunkEnds(ms, n, q, c, m) /\ K = m - n + 1
  OBVIOUS
<1>2. Reads(ms, n, q, c) /\ Completes(ms, n, q, c, m) /\ PendingOK
  BY <1>1 DEF Now
<1>3. PICK N, t, p, l, z : Figures(ms, n, q, c, m, N, t, p, l, z)
  BY <1>2, Numbers
<1>4. /\ N \in Nat /\ N = Len(ms) /\ n \in Nat /\ m \in Nat /\ n < N /\ m <= N /\ n <= m
      /\ p \in Nat /\ p = After(ms, n, q) /\ l \in Nat /\ l = Len(c) /\ l > 0
      /\ z \in Nat /\ z = Len(q) /\ p = t[n] + z
  BY <1>3 DEF Figures
<1>5. Till(ms, m) \in Nat /\ Till(ms, m) # p + l /\ Till(ms, m) <= p + l /\ t[n] = Till(ms, n)
  <2>1. m \in 0..N /\ n \in 0..N
    BY <1>4
  <2>2. Till(ms, m) # p + l
    <3>1. Last(c) = Nul <=> Till(ms, m) = After(ms, n, q) + Len(c)
      BY <1>2, ChunkComplete
    <3> QED BY <1>4, <3>1
  <2> QED BY <1>3, <2>1, <2>2 DEF Figures
<1>6. m + 1 \in 1..N
  <2>1. m = N => p + l <= Till(ms, m)
    <3>1. N \in 0..N
      BY <1>4
    <3> QED BY <1>3, <3>1 DEF Figures
  <2>2. m # N
    BY <1>4, <1>5, <2>1
  <2> QED BY <1>4, <2>2
<1>7. PICK a : a = Between(c, D, K)
  OBVIOUS
<1>8. /\ m = n => a = c
      /\ n < m => /\ a \in Texts /\ Len(a) = p + l - Till(ms, m)
                  /\ \A j \in 1..Len(a) : a[j] = ms[m + 1][j]
  <2>1. a = LastOne(ms, n, q, c, m)
    BY <1>1, <1>7 DEF LastOne
  <2>2. /\ m = n => LastOne(ms, n, q, c, m) = c
        /\ n < m => Begins(LastOne(ms, n, q, c, m), ms, n, q, c, m)
    BY ONLY <1>2, LastPart
  <2> QED BY <1>4, <2>1, <2>2 DEF Begins
<1>9. a \in Texts /\ Len(a) > 0
  <2>1. CASE m = n
    BY <1>2, <1>4, <1>8, <2>1 DEF Reads
  <2>2. CASE m # n
    BY <1>4, <1>5, <1>8, <2>2
  <2> QED BY <2>1, <2>2
<1>10. K \in Nat /\ K > 0
  BY <1>1, <1>4
<1>11. PICK b : b = [i \in 1..K |-> Between(c, D, i)]
  OBVIOUS
<1>12. Split(c) = [i \in 1..K |-> b[i]] /\ b[K] = a
  <2>1. SplitsAt(c, K, D)
    BY <1>1, <1>2, ChunkSplits
  <2>2. K \in 0..K /\ (\A i \in 1..K : i > K => Between(c, D, i) = <<>>) /\ Between(c, D, K) # <<>>
    <3>1. a # <<>>
      BY <1>9, EmptySeq DEF Texts
    <3> QED BY <1>7, <1>10, <3>1
  <2>3. Split(c) = [i \in 1..K |-> Between(c, D, i)]
    BY ONLY <2>1, <2>2, SplitAt
  <2>4. K \in 1..K
    BY <1>10
  <2> QED BY <1>7, <1>11, <2>3, <2>4
<1>13. FrontOf(Split(c)) = [i \in 1..(K - 1) |-> b[i]] /\ LastOf(Split(c)) = a
  <2>1. K > 0 => FrontOf(Split(c)) = [i \in 1..(K - 1) |-> b[i]] /\ LastOf(Split(c)) = b[K]
    BY ONLY <1>10, <1>12, FrontLast
  <2> QED BY <1>10, <1>12, <2>1
<1>14. PICK fs : fs = FrontOf(Split(c))
  OBVIOUS
<1>15. Joined(c) = JoinPending(fs, a) /\ MessagesIn(c) = Joined(c).messages \o <<>>
  BY <1>13, <1>14 DEF Joined, MessagesIn
<1>16. CASE m = n
  <2>1. K = 1 /\ fs = <<>>
    <3>1. K = 1
      BY <1>1, <1>4, <1>16
    <3>2. fs = [i \in 1..0 |-> b[i]]
      BY <1>13, <1>14, <3>1
    <3> QED BY <3>1, <3>2
  <2>2. JoinPending(fs, a).messages = <<>> /\ JoinPending(fs, a).last = q \o c
    BY <1>1, <1>2, <1>8, <1>9, <1>16, <2>1, JoinsNone
  <2>3. MessagesIn(c) = <<>> /\ Joined(c).last = q \o c
    BY <1>15, <2>2
  <2>4. Some(ms, n, m - n) = <<>>
    <3>1. m - n = 0
      BY <1>4, <1>16
    <3> QED BY <3>1 DEF Some
  <2>5. q \in Seq(Bytes) /\ c \in Seq(Bytes)
    BY <1>2 DEF Reads, Texts
  <2>6. PICK x : x = q \o c
    OBVIOUS
  <2>7. x \in Seq(Bytes) /\ Len(x) = z + l /\ \A j \in 1..(z + l) : x[j] = IF j <= z THEN q[j] ELSE c[j - z]
    BY <1>4, <2>5, <2>6, ConcatProperties
  <2>8. PICK u : u = Till(ms, m) /\ u \in Nat /\ p = u + z
    BY <1>4, <1>5, <1>16
  <2>9. z + l = p + l - Till(ms, m)
    BY <1>4, <2>8
  <2>10. ASSUME NEW j \in 1..(z + l) PROVE x[j] = ms[m + 1][j]
    <3>1. CASE j <= z
      <4>1. j \in 1..Len(q)
        BY <1>4, <3>1
      <4> QED BY <1>2, <1>16, <2>7, <3>1, <4>1 DEF Reads
    <3>2. CASE ~(j <= z)
      <4>1. PICK i, k, e : i = j - z /\ k = m + 1 /\ e = Len(ms[k])
        OBVIOUS
      <4>2. i \in 1..l /\ i \in 1..Len(c) /\ p + i = Till(ms, m) + j
        <5>1. j \in Nat /\ j <= z + l /\ ~(j <= z) /\ z \in Nat /\ l \in Nat /\ i = j - z
          BY <1>4, <3>2, <4>1
        <5>2. i \in 1..l
          BY ONLY <5>1
        <5>3. p + i = u + j
          BY ONLY <2>8, <5>1
        <5> QED BY <1>4, <2>8, <5>2, <5>3
      <4>3. c[i] = Wire(ms)[p + i]
        BY <1>2, <1>4, <4>2 DEF Reads
      <4>4. j \in 1..e
        <5>1. k \in 1..N /\ k - 1 = m /\ m \in 0..N /\ m < N
          BY <1>4, <1>6, <4>1
        <5>2. e \in Nat /\ t[k] = t[m] + e + 1 /\ p + l < t[k] /\ t[m] = Till(ms, m)
          BY <1>3, <4>1, <5>1 DEF Figures
        <5>3. z + l < e + 1
          BY <1>4, <1>5, <1>16, <5>2
        <5> QED BY <1>4, <5>2, <5>3
      <4>5. Wire(ms)[Till(ms, m) + j] = ms[k][j]
        <5>1. ms \in Seq(Texts) /\ k \in 1..Len(ms) /\ k - 1 = m
          BY <1>2, <1>4, <1>6, <4>1 DEF Reads, Clean
        <5> QED BY <4>1, <4>4, <5>1, MessageAt
      <4> QED BY <2>7, <3>2, <4>1, <4>2, <4>3, <4>5
    <3> QED BY <3>1, <3>2
  <2>11. /\ Joined(c).last \in Texts /\ Len(Joined(c).last) = p + l - Till(ms, m)
         /\ \A j \in 1..Len(Joined(c).last) : Joined(c).last[j] = ms[m + 1][j]
    BY <2>3, <2>6, <2>7, <2>9, <2>10 DEF Texts
  <2> QED BY <1>1, <1>4, <1>5, <1>6, <2>3, <2>4, <2>11 DEF Yields
<1>17. CASE m # n
  <2>1. n < m /\ K - 1 \in 1..(m - n) /\ K - 1 = m - n
    BY <1>1, <1>4, <1>17
  <2>2. fs = [i \in 1..(K - 1) |-> Between(c, D, i)]
    <3>1. \A i \in 1..(K - 1) : i \in 1..K
      BY <1>10
    <3>2. fs = [i \in 1..(K - 1) |-> b[i]]
      BY <1>13, <1>14
    <3> QED BY <1>11, <3>1, <3>2
  <2>3. JoinPending(fs, a) = [messages |-> Some(ms, n, K - 1), last |-> a]
    BY <1>1, <1>2, <2>1, <2>2, JoinsFirst
  <2>4. Joined(c).messages = Some(ms, n, m - n) /\ Joined(c).last = a
    BY <1>15, <2>1, <2>3
  <2>5. MessagesIn(c) = Some(ms, n, m - n)
    <3>1. ms \in Seq(Texts) /\ n \in Nat /\ m - n \in Nat /\ n + (m - n) <= Len(ms)
      BY <1>2, <1>4 DEF Reads, Clean
    <3>2. Some(ms, n, m - n) \in Seq(Texts)
      BY ONLY <3>1, SomeAre
    <3> QED BY <1>15, <2>4, <3>2, ConcatEmptySeq
  <2>6. /\ Joined(c).last \in Texts /\ Len(Joined(c).last) = p + l - Till(ms, m)
        /\ \A j \in 1..Len(Joined(c).last) : Joined(c).last[j] = ms[m + 1][j]
    BY <1>8, <2>1, <2>4
  <2> QED BY <1>1, <1>4, <1>5, <1>6, <2>5, <2>6 DEF Yields
<1> QED BY <1>16, <1>17
LEMMA SomeMore ==
  ASSUME NEW ms \in Seq(Texts), NEW n \in Nat, NEW m \in Nat, n < m, m <= Len(ms)
  PROVE  Some(ms, n, m - n - 1) \o <<ms[m]>> = Some(ms, n, m - n)
<1>1. PICK k, h, x : k = m - n - 1 /\ h = m - n /\ x = ms[m]
  OBVIOUS
<1>2. k \in Nat /\ h \in Nat /\ h = k + 1 /\ n + h = m /\ n + k <= Len(ms) /\ n + h <= Len(ms) /\ m \in 1..Len(ms)
  <2>1. Len(ms) \in Nat
    BY LenProperties
  <2> QED BY <1>1, <2>1
<1>3. PICK r, s : r = Some(ms, n, k) /\ s = Some(ms, n, h)
  OBVIOUS
<1>4. r \in Seq(Texts) /\ Len(r) = k /\ \A i \in 1..k : r[i] = ms[n + i]
  BY <1>2, <1>3, SomeAre
<1>5. s \in Seq(Texts) /\ Len(s) = h /\ \A i \in 1..h : s[i] = ms[n + i]
  BY <1>2, <1>3, SomeAre
<1>6. PICK b : b = <<x>>
  OBVIOUS
<1>7. b \in Seq(Texts) /\ Len(b) = 1 /\ b[1] = x
  <2>1. x \in Texts
    BY <1>1, <1>2, ElementOfSeq
  <2> QED BY <1>6, <2>1
<1>8. r \o b \in Seq(Texts) /\ Len(r \o b) = h /\ \A i \in 1..h : (r \o b)[i] = IF i <= k THEN r[i] ELSE b[i - k]
  <2>1. /\ r \o b \in Seq(Texts) /\ Len(r \o b) = Len(r) + Len(b)
        /\ \A i \in 1..(Len(r) + Len(b)) : (r \o b)[i] = IF i <= Len(r) THEN r[i] ELSE b[i - Len(r)]
    BY ONLY <1>4, <1>7, ConcatProperties
  <2>2. Len(r) + Len(b) = h
    BY <1>2, <1>4, <1>7
  <2> QED BY <1>4, <2>1, <2>2
<1>9. \A i \in 1..h : (r \o b)[i] = s[i]
  <2> TAKE i \in 1..h
  <2>1. CASE i <= k
    <3>1. i \in 1..k
      BY <1>2, <2>1
    <3> QED BY <1>4, <1>5, <1>8, <2>1, <3>1
  <2>2. CASE ~(i <= k)
    <3>1. i = h /\ i - k = 1 /\ n + i = m
      BY <1>2, <2>2
    <3> QED BY <1>1, <1>5, <1>7, <1>8, <2>2, <3>1
  <2> QED BY <2>1, <2>2
<1> QED BY <1>1, <1>3, <1>5, <1>6, <1>8, <1>9, SeqEqual

LEMMA YieldsComplete ==
  ASSUME NEW ms, NEW n, NEW c, NEW m, Now(ms, n, c, m), Last(c) = Nul
  PROVE  Yields(ms, n, Text(pending), c, m)
<1>1. PICK q, D, K : q = Text(pending) /\ D = ChunkEnds(ms, n, q, c, m) /\ K = m - n + 1
  OBVIOUS
<1>2. Reads(ms, n, q, c) /\ Completes(ms, n, q, c, m) /\ PendingOK
  BY <1>1 DEF Now
<1>3. PICK N : N \in Nat /\ N = Len(ms) /\ n \in Nat /\ m \in Nat /\ n < N /\ m <= N /\ n <= m /\ ms \in Seq(Texts)
  <2>1. Len(ms) \in Nat /\ ms \in Seq(Texts)
    BY <1>2, LenProperties DEF Reads, Clean
  <2> QED BY <1>2, <2>1 DEF Reads, Completes
<1>4. Till(ms, m) = After(ms, n, q) + Len(c) /\ m # n
  BY <1>2, ChunkComplete
<1>5. n < m /\ K \in Nat /\ K - 1 = m - n /\ K > 1 /\ n + 1 \in 1..N /\ m \in 1..N
  BY <1>1, <1>3, <1>4
<1>6. PICK b : b = [i \in 1..K |-> Between(c, D, i)]
  OBVIOUS
<1>7. b[K] = <<>>
  <2>1. b[K] = LastOne(ms, n, q, c, m)
    BY <1>1, <1>5, <1>6 DEF LastOne
  <2>2. Begins(LastOne(ms, n, q, c, m), ms, n, q, c, m)
    BY ONLY <1>2, <1>5, LastPart
  <2>3. Till(ms, m) \in Nat
    <3>1. m \in 0..Len(ms)
      BY <1>3
    <3> QED BY <1>3, <3>1, TillGrows
  <2>4. PICK x, p, l : x = Till(ms, m) /\ p = After(ms, n, q) /\ l = Len(c)
    OBVIOUS
  <2>5. b[K] \in Texts /\ Len(b[K]) = p + l - x
    BY <2>1, <2>2, <2>4 DEF Begins
  <2>6. x = p + l /\ x \in Nat /\ p \in Nat /\ l \in Nat
    <3>1. PICK N1, t, p1, l1, z : Figures(ms, n, q, c, m, N1, t, p1, l1, z)
      BY <1>2, Numbers
    <3> QED BY <1>4, <2>3, <2>4, <3>1 DEF Figures
  <2>7. Len(b[K]) = 0
    BY <2>5, <2>6
  <2> QED BY <2>5, <2>7, EmptySeq DEF Texts
<1>8. b[1] \in Texts /\ q \o b[1] = ms[n + 1]
  <2>1. b[1] = FirstOf(ms, n, q, c, m)
    <3>1. 1 \in 1..K
      BY <1>5
    <3> QED BY <1>1, <1>6, <3>1 DEF FirstOf
  <2>2. FirstOf(ms, n, q, c, m) \in Texts /\ q \o FirstOf(ms, n, q, c, m) = ms[n + 1]
    BY ONLY <1>2, <1>5, FirstPart
  <2> QED BY <2>1, <2>2
<1>9. K > 2 => b[K - 1] = ms[m]
  <2> SUFFICES ASSUME K > 2 PROVE b[K - 1] = ms[m]
    OBVIOUS
  <2>1. PICK i : i = K - 1
    OBVIOUS
  <2>2. i \in 2..(m - n) /\ i \in 1..K /\ n + i = m
    BY <1>1, <1>3, <1>5, <2>1
  <2>3. Between(c, D, i) = ms[n + i]
    BY <1>1, <1>2, <2>2, WholePart
  <2> QED BY <1>6, <2>1, <2>2, <2>3
<1>10. \A i \in 1..N : ms[i] \in Texts /\ ms[i] # <<>>
  <2>1. \A i \in 1..N : ms[i] \in Texts /\ Len(ms[i]) > 0
    BY <1>2, <1>3, ElementOfSeq DEF Reads, Clean
  <2> QED BY <2>1, EmptySeq DEF Texts
<1>11. SplitsAt(c, K, D)
  BY <1>1, <1>2, ChunkSplits
<1>12. PICK M : M = IF b[K - 1] = <<>> THEN 0 ELSE K - 1
  OBVIOUS
<1>13. /\ M \in 0..K /\ M \in Nat
       /\ \A i \in 1..K : i > M => Between(c, D, i) = <<>>
       /\ M > 0 => Between(c, D, M) # <<>>
       /\ M = 0 => K = 2 /\ b[1] = <<>>
       /\ M > 0 => M = K - 1
  <2>1. b[K - 1] = <<>> => K = 2
    <3>1. K > 2 => b[K - 1] # <<>>
      BY <1>5, <1>9, <1>10
    <3> QED BY <1>5, <3>1
  <2>2. \A i \in 1..K : i > K - 1 => i = K
    BY <1>5
  <2>3. K \in 1..K /\ K - 1 \in 1..K /\ K - 1 \in 0..K /\ 0 \in 0..K /\ K - 1 \in Nat /\ K - 1 > 0
    BY <1>5
  <2>4. CASE b[K - 1] = <<>>
    <3>1. M = 0 /\ K = 2 /\ b[1] = <<>>
      BY <1>12, <2>1, <2>4
    <3>2. \A i \in 1..K : i = 1 \/ i = K
      BY <3>1
    <3> QED BY <1>6, <1>7, <3>1, <3>2
  <2>5. CASE b[K - 1] # <<>>
    <3>1. M = K - 1
      BY <1>12, <2>5
    <3> QED BY <1>6, <1>7, <2>2, <2>3, <2>5, <3>1
  <2> QED BY <2>4, <2>5
<1>14. Split(c) = [i \in 1..M |-> b[i]]
  <2>1. Split(c) = [i \in 1..M |-> Between(c, D, i)]
    BY ONLY <1>11, <1>13, SplitAt
  <2>2. \A i \in 1..M : i \in 1..K
    BY <1>5, <1>13
  <2> QED BY <1>6, <2>1, <2>2
<1>15. /\ M = 0 => FrontOf(Split(c)) = <<>> /\ LastOf(Split(c)) = Nil
       /\ M > 0 => FrontOf(Split(c)) = [i \in 1..(M - 1) |-> b[i]] /\ LastOf(Split(c)) = b[M]
  BY ONLY <1>13, <1>14, FrontLast
<1>16. PICK k : k = m - n - 1
  OBVIOUS
<1>17. k \in Nat /\ k = K - 2
  BY <1>1, <1>3, <1>5, <1>16
<1>18. Joined(c).messages = Some(ms, n, k) /\ Joined(c).last = ms[m]
  <2>1. CASE K = 2
    <3>1. k = 0 /\ n + 1 = m /\ M - 1 = M - 1
      BY <1>3, <1>5, <1>17, <2>1
    <3>2. Some(ms, n, k) = <<>>
      BY <3>1 DEF Some
    <3>3. CASE M = 0
      <4>1. b[1] = <<>> /\ q \o <<>> = ms[m]
        BY <1>8, <1>13, <3>1, <3>3
      <4>2. q \in Texts /\ q \o <<>> = q
        BY <1>2, ConcatEmptySeq DEF Reads, Texts
      <4>3. q # <<>>
        BY <1>5, <1>10, <4>1, <4>2
      <4>4. pending # Nil /\ pending = q
        BY <1>1, <4>3 DEF Text
      <4>5. Joined(c) = JoinPending(<<>>, Nil)
        BY <1>15, <3>3 DEF Joined
      <4>6. Text(Nil) = <<>>
        BY DEF Text
      <4> QED BY <3>2, <4>1, <4>4, <4>5, <4>6 DEF JoinPending
    <3>4. CASE M # 0
      <4>1. M = 1
        BY <1>13, <2>1, <3>4
      <4>2. FrontOf(Split(c)) = <<>> /\ LastOf(Split(c)) = b[1]
        <5>1. [i \in 1..(M - 1) |-> b[i]] = <<>>
          BY <4>1
        <5> QED BY <1>15, <4>1, <5>1
      <4>3. Joined(c) = JoinPending(<<>>, b[1])
        BY <4>2 DEF Joined
      <4>4. JoinPending(<<>>, b[1]).messages = <<>> /\ JoinPending(<<>>, b[1]).last = q \o b[1]
        BY <1>1, <1>2, <1>8, JoinsNone
      <4> QED BY <1>8, <3>1, <3>2, <4>3, <4>4
    <3> QED BY <3>3, <3>4
  <2>2. CASE K # 2
    <3>1. K > 2 /\ M = K - 1 /\ M - 1 = k /\ k \in 1..(m - n) /\ M > 0
      BY <1>1, <1>3, <1>5, <1>13, <1>17, <2>2
    <3>2. LastOf(Split(c)) = ms[m]
      BY <1>9, <1>15, <3>1
    <3>3. PICK fs : fs = FrontOf(Split(c))
      OBVIOUS
    <3>4. fs = [i \in 1..k |-> Between(c, D, i)]
      <4>1. \A i \in 1..k : i \in 1..K
        BY <1>5, <1>17
      <4> QED BY <1>6, <1>15, <3>1, <3>3, <4>1
    <3>5. JoinPending(fs, ms[m]) = [messages |-> Some(ms, n, k), last |-> ms[m]]
      BY <1>1, <1>2, <1>5, <3>1, <3>4, JoinsFirst
    <3> QED BY <3>2, <3>3, <3>5 DEF Joined
  <2> QED BY <2>1, <2>2
<1>19. MessagesIn(c) = Some(ms, n, m - n)
  <2>1. MessagesIn(c) = Some(ms, n, k) \o <<ms[m]>>
    BY <1>18 DEF MessagesIn
  <2>2. Some(ms, n, m - n - 1) \o <<ms[m]>> = Some(ms, n, m - n)
    BY <1>3, <1>5, SomeMore
  <2> QED BY <1>16, <2>1, <2>2
<1> QED BY <1>1, <1>4, <1>19 DEF Yields

LEMMA YieldsAre ==
  ASSUME NEW ms, NEW n, NEW c, NEW m, Now(ms, n, c, m)
  PROVE  Yields(ms, n, Text(pending), c, m)
BY YieldsComplete, YieldsIncomplete

(* Where in the client's bytes a chunk ends. *)
LEMMA ReachesOne ==
  ASSUME NEW ms, NEW n, NEW q, NEW c, Reads(ms, n, q, c)
  PROVE  \E m : Completes(ms, n, q, c, m)
<1>1. PICK N : N \in Nat /\ N = Len(ms) /\ n \in Nat /\ n < N /\ n + 1 \in 1..N /\ ms \in Seq(Texts) /\ n \in 0..N
  <2>1. Len(ms) \in Nat /\ ms \in Seq(Texts)
    BY LenProperties DEF Reads, Clean
  <2> QED BY <2>1 DEF Reads
<1>2. PICK u, e, z, l, p : /\ u = Till(ms, n) /\ e = Len(ms[n + 1]) /\ z = Len(q) /\ l = Len(c)
                           /\ p = After(ms, n, q)
  OBVIOUS
<1>3. u \in Nat /\ e \in Nat /\ z \in Nat /\ l \in Nat /\ l > 0 /\ z <= e
  <2>1. u \in Nat
    BY <1>1, <1>2, TillGrows
  <2>2. e \in Nat
    BY <1>1, <1>2, TillGrows
  <2>3. z \in Nat /\ l \in Nat
    BY <1>2, LenProperties DEF Reads, Texts
  <2> QED BY <1>2, <2>1, <2>2, <2>3 DEF Reads
<1>4. p = u + z /\ p + l <= Till(ms, N)
  BY <1>1, <1>2 DEF Reads, After
<1>5. PICK x : x = p + l
  OBVIOUS
<1>6. x \in 0..Till(ms, Len(ms)) /\ x \in Nat /\ u < x
  <2>1. Till(ms, N) \in Nat
    <3>1. N \in 0..Len(ms)
      BY <1>1
    <3> QED BY <1>1, <3>1, TillGrows
  <2> QED BY <1>1, <1>3, <1>4, <1>5, <2>1
<1>7. PICK m \in 0..Len(ms) : Till(ms, m) <= x /\ (m < Len(ms) => x < Till(ms, m + 1))
  BY <1>1, <1>6, Located
<1>8. n <= m
  <2>1. CASE m < n
    <3>1. PICK k : k = m + 1
      OBVIOUS
    <3>2. k \in 0..N /\ (k = n \/ k < n) /\ m < Len(ms)
      BY <1>1, <1>7, <2>1, <3>1
    <3>3. k < n => Till(ms, k) < Till(ms, n)
      BY <1>1, <3>2, TillGrows
    <3>4. Till(ms, k) \in Nat /\ x < Till(ms, k)
      BY <1>1, <1>7, <3>1, <3>2, TillGrows
    <3> QED BY <1>2, <1>3, <1>6, <3>2, <3>3, <3>4
  <2> QED BY <1>1, <1>7, <2>1
<1>9. m \in n..Len(ms)
  BY <1>1, <1>7, <1>8
<1> QED BY <1>2, <1>5, <1>7, <1>9 DEF Completes

(* A piece of a sequence. *)
LEMMA Piece ==
  ASSUME NEW S, NEW s \in Seq(S), NEW g \in Nat, NEW h \in Nat, g <= h, h <= Len(s)
  PROVE  /\ SubSeq(s, g + 1, h) \in Seq(S) /\ Len(SubSeq(s, g + 1, h)) = h - g
         /\ \A j \in 1..(h - g) : SubSeq(s, g + 1, h)[j] = s[g + j]
<1>1. PICK l : l = Len(s) /\ l \in Nat
  BY LenProperties
<1>2. PICK a, d : a = g + 1 /\ d = h - g
  OBVIOUS
<1>3. /\ a \in Int /\ h \in Int /\ h - a + 1 = d /\ (a <= h \/ d = 0) /\ (~(a <= h) => d = 0)
      /\ \A j \in a..h : j \in 1..l
  BY <1>1, <1>2
<1>4. \A j \in 1..d : a + j - 1 = g + j
  BY <1>2
<1>5. \A j \in a..h : s[j] \in S
  BY <1>1, <1>3, ElementOfSeq
<1>6. /\ SubSeq(s, a, h) \in Seq(S) /\ Len(SubSeq(s, a, h)) = IF a <= h THEN h - a + 1 ELSE 0
      /\ \A j \in 1..(h - a + 1) : SubSeq(s, a, h)[j] = s[a + j - 1]
  BY <1>3, <1>5, SubSeqProperties
<1> QED BY <1>2, <1>3, <1>4, <1>6

LEMMA SmallerOf ==
  ASSUME NEW a \in Nat, NEW b \in Nat
  PROVE  Min({a, b}) \in {a, b} /\ Min({a, b}) <= a /\ Min({a, b}) <= b
<1>1. \E x \in {a, b} : \A y \in {a, b} : x <= y
  <2>1. a <= b \/ b <= a
    OBVIOUS
  <2> QED BY <2>1
<1> QED BY <1>1 DEF Min

(* The bytes of the first n messages. *)
LEMMA WireOfFirst ==
  ASSUME NEW ms \in Seq(Texts), NEW n \in 0..Len(ms)
  PROVE  Wire(Some(ms, 0, n)) = Wires(ms)[n]
<1>1. PICK N : N = Len(ms) /\ N \in Nat /\ n \in Nat /\ n <= N
  BY LenProperties
<1>2. PICK r : r = Some(ms, 0, n)
  OBVIOUS
<1>3. r \in Seq(Texts) /\ Len(r) = n /\ \A i \in 1..n : r[i] = ms[i]
  <2>1. 0 \in Nat /\ 0 + n <= Len(ms) /\ \A i \in 1..n : 0 + i = i
    BY <1>1
  <2> QED BY <1>1, <1>2, <2>1, SomeAre
<1>4. PICK v, w : v = Wires(r) /\ w = Wires(ms)
  OBVIOUS
<1>5. v[0] = <<>> /\ \A i \in 1..n : v[i] = v[i - 1] \o Append(ms[i], Nul)
  BY <1>3, <1>4, WiresAre
<1>6. w[0] = <<>> /\ \A i \in 1..N : w[i] = w[i - 1] \o Append(ms[i], Nul)
  BY <1>1, <1>4, WiresAre
<1>7. PICK G : G = {k \in 0..n : v[k] = w[k]}
  OBVIOUS
<1>8. 0 \in G /\ \A k \in 1..n : k - 1 \in G => k \in G
  <2>1. 0 \in G
    BY <1>1, <1>5, <1>6, <1>7
  <2>2. ASSUME NEW k \in 1..n, k - 1 \in G PROVE k \in G
    <3>1. k \in 1..N /\ k \in 0..n
      BY <1>1
    <3> QED BY <1>5, <1>6, <1>7, <2>2, <3>1
  <2> QED BY <2>1, <2>2
<1>9. n \in G
  <2>1. \A k \in 0..n : k \in G
    BY <1>1, <1>8, StepByStep
  <2> QED BY <1>1, <2>1
<1> QED BY <1>2, <1>3, <1>4, <1>7, <1>9 DEF Wire

(* The messages up to n, and those up to m behind them. *)
LEMMA SomeJoin ==
  ASSUME NEW ms \in Seq(Texts), NEW n \in Nat, NEW m \in Nat, n <= m, m <= Len(ms)
  PROVE  Some(ms, 0, n) \o Some(ms, n, m - n) = Some(ms, 0, m)
<1>1. PICK N, k : N = Len(ms) /\ N \in Nat /\ k = m - n
  BY LenProperties
<1>2. k \in Nat /\ n + k = m /\ 0 + n <= N /\ 0 + m <= N /\ n + k <= N
  BY <1>1
<1>3. PICK r, s, t : r = Some(ms, 0, n) /\ s = Some(ms, n, k) /\ t = Some(ms, 0, m)
  OBVIOUS
<1>4. r \in Seq(Texts) /\ Len(r) = n /\ \A i \in 1..n : r[i] = ms[0 + i]
  <2>1. 0 \in Nat /\ 0 + n <= Len(ms)
    BY <1>1, <1>2
  <2>2. /\ Some(ms, 0, n) \in Seq(Texts) /\ Len(Some(ms, 0, n)) = n
        /\ \A i \in 1..n : Some(ms, 0, n)[i] = ms[0 + i]
    BY <2>1, SomeAre
  <2> QED BY <1>3, <2>2
<1>5. s \in Seq(Texts) /\ Len(s) = k /\ \A i \in 1..k : s[i] = ms[n + i]
  <2>1. n \in Nat /\ k \in Nat /\ n + k <= Len(ms)
    BY <1>1, <1>2
  <2>2. /\ Some(ms, n, k) \in Seq(Texts) /\ Len(Some(ms, n, k)) = k
        /\ \A i \in 1..k : Some(ms, n, k)[i] = ms[n + i]
    BY <2>1, SomeAre
  <2> QED BY <1>3, <2>2
<1>6. t \in Seq(Texts) /\ Len(t) = m /\ \A i \in 1..m : t[i] = ms[0 + i]
  <2>1. 0 \in Nat /\ m \in Nat /\ 0 + m <= Len(ms)
    BY <1>1, <1>2
  <2>2. /\ Some(ms, 0, m) \in Seq(Texts) /\ Len(Some(ms, 0, m)) = m
        /\ \A i \in 1..m : Some(ms, 0, m)[i] = ms[0 + i]
    BY <2>1, SomeAre
  <2> QED BY <1>3, <2>2
<1>7. /\ r \o s \in Seq(Texts) /\ Len(r \o s) = m
      /\ \A i \in 1..m : (r \o s)[i] = IF i <= n THEN r[i] ELSE s[i - n]
  <2>1. /\ r \o s \in Seq(Texts) /\ Len(r \o s) = Len(r) + Len(s)
        /\ \A i \in 1..(Len(r) + Len(s)) : (r \o s)[i] = IF i <= Len(r) THEN r[i] ELSE s[i - Len(r)]
    BY ONLY <1>4, <1>5, ConcatProperties
  <2> QED BY <1>2, <1>4, <1>5, <2>1
<1>8. \A i \in 1..m : (r \o s)[i] = t[i]
  <2> TAKE i \in 1..m
  <2>1. CASE i <= n
    <3>1. i \in 1..n
      BY <2>1
    <3> QED BY <1>4, <1>6, <1>7, <2>1, <3>1
  <2>2. CASE ~(i <= n)
    <3>1. PICK j : j = i - n
      OBVIOUS
    <3>2. j \in 1..k /\ n + j = i /\ 0 + i = i
      BY <1>1, <2>2, <3>1
    <3>3. (r \o s)[i] = s[j] /\ s[j] = ms[n + j]
      BY <1>5, <1>7, <2>2, <3>1, <3>2
    <3> QED BY <1>6, <3>2, <3>3
  <2> QED BY <2>1, <2>2
<1> QED BY <1>1, <1>3, <1>6, <1>7, <1>8, SeqEqual

(* "stop" is found just if the chunk completes it, and then it is the last.  *)
Ended(ms) == Len(ms) > 0 /\ \A i \in 1..Len(ms) : ms[i] = Stop <=> i = Len(ms)
StopIn(t) == SelectInSeq(t, LAMBDA m : m = Stop)

LEMMA StopFound ==
  ASSUME NEW ms \in Seq(Texts), Ended(ms), NEW n \in Nat, NEW m \in Nat, n <= m, m <= Len(ms), n < Len(ms)
  PROVE  /\ m < Len(ms) => StopIn(Some(ms, n, m - n)) = 0
         /\ m = Len(ms) => StopIn(Some(ms, n, m - n)) = m - n
<1>1. PICK N, k, t : N = Len(ms) /\ N \in Nat /\ k = m - n /\ t = Some(ms, n, k)
  BY LenProperties
<1>2. k \in Nat /\ n + k = m /\ n + k <= Len(ms)
  BY <1>1
<1>3. Len(t) = k /\ \A i \in 1..k : t[i] = ms[n + i]
  BY <1>1, <1>2, SomeAre
<1>4. PICK I : I = {i \in 1..Len(t) : t[i] = Stop}
  OBVIOUS
<1>5. StopIn(t) = IF I # {} THEN Min(I) ELSE 0
  BY <1>4 DEF StopIn, SelectInSeq
<1>6. \A i \in 1..k : i \in I <=> n + i = N
  <2>1. \A i \in 1..k : n + i \in 1..N
    BY <1>1, <1>2
  <2> QED BY <1>1, <1>3, <1>4, <2>1 DEF Ended
<1>7. ASSUME m < N PROVE StopIn(t) = 0
  <2>1. \A i \in 1..k : n + i # N
    BY <1>1, <1>2, <1>7
  <2>2. I = {}
    BY <1>3, <1>4, <1>6, <2>1
  <2> QED BY <1>5, <2>2
<1>8. ASSUME m = N PROVE StopIn(t) = k
  <2>1. k \in 1..k /\ \A i \in 1..k : n + i = N <=> i = k
    BY <1>1, <1>2, <1>8
  <2>2. I = {k}
    BY <1>3, <1>4, <1>6, <2>1
  <2>3. Min({k}) = k
    BY <1>2 DEF Min
  <2> QED BY <1>5, <2>2, <2>3
<1> QED BY <1>1, <1>7, <1>8

------------------------------------------------------------------------------
(* The inductive invariant: while it reads, the reader has handed on the     *)
(* first n messages, its pending text begins the next one, and the bytes to  *)
(* come follow that text on the wire.                                        *)
At(ms, n, o, p, r) ==
  /\ n \in 0..(Len(ms) - 1) /\ o = Some(ms, 0, n)
  /\ p = Nil \/ (p \in Texts /\ p # <<>>)
  /\ Len(Text(p)) <= Len(ms[n + 1]) /\ \A j \in 1..Len(Text(p)) : Text(p)[j] = ms[n + 1][j]
  /\ r \in Texts /\ After(ms, n, Text(p)) + Len(r) <= Till(ms, Len(ms))
  /\ \A j \in 1..Len(r) : r[j] = Wire(ms)[After(ms, n, Text(p)) + j]

Reading == \E n : At(sent, n, out, pending, stream)

Inv ==
  /\ Clean(sent) /\ Ended(sent) /\ size \in Sizes /\ stopped \in BOOLEAN
  /\ ~stopped => Reading
  /\ stopped => out = Front(sent) /\ pending = Nil

LEMMA TextOf ==
  ASSUME NEW p, p = Nil \/ p \in Texts
  PROVE  Text(p) \in Texts /\ (p \in Texts => Text(p) = p) /\ (p = Nil => Text(p) = <<>> /\ Len(Text(p)) = 0)
<1>1. <<>> \in Texts /\ Len(<<>>) = 0
  BY EmptySeq DEF Texts
<1> QED BY <1>1, NilIsNoText DEF Text

(* A chunk is the beginning of what is to come. *)
LEMMA ChunkReads ==
  ASSUME NEW ms, Clean(ms), NEW n, NEW o, NEW p, NEW r, At(ms, n, o, p, r), r # <<>>,
         NEW z \in Nat \ {0}, NEW c, c = SubSeq(r, 1, Min({z, Len(r)}))
  PROVE  Reads(ms, n, Text(p), c) /\ Len(c) \in 1..Len(r)
<1>1. PICK l : l = Len(r) /\ l \in Nat /\ l > 0
  BY EmptySeq DEF At, Texts
<1>2. PICK h : h = Min({z, l}) /\ h \in Nat /\ h > 0 /\ h <= l
  <2>1. Min({z, l}) \in {z, l} /\ Min({z, l}) <= l
    BY <1>1, SmallerOf
  <2> QED BY <1>1, <2>1
<1>3. r \in Seq(Bytes)
  BY DEF At, Texts
<1>4. c \in Seq(Bytes) /\ Len(c) = h /\ \A j \in 1..h : c[j] = r[j]
  <2>1. 0 \in Nat /\ 0 <= h /\ h - 0 = h /\ 0 + 1 = 1 /\ \A j \in 1..h : 0 + j = j
    BY <1>2
  <2>2. /\ SubSeq(r, 0 + 1, h) \in Seq(Bytes) /\ Len(SubSeq(r, 0 + 1, h)) = h - 0
        /\ \A j \in 1..(h - 0) : SubSeq(r, 0 + 1, h)[j] = r[0 + j]
    <3>1. h <= Len(r) /\ h \in Nat
      BY <1>1, <1>2
    <3> QED BY ONLY <1>3, <2>1, <3>1, Piece
  <2>3. c = SubSeq(r, 0 + 1, h)
    BY <1>1, <1>2, <2>1
  <2> QED BY <2>1, <2>2, <2>3
<1>5. PICK q : q = Text(p) /\ q \in Texts
  BY TextOf DEF At
<1>6. PICK a, e : a = After(ms, n, q) /\ e = Till(ms, Len(ms)) /\ a \in Nat /\ e \in Nat
  <2>1. n \in 0..Len(ms) /\ ms \in Seq(Texts) /\ Len(ms) \in 0..Len(ms)
    <3>1. ms \in Seq(Texts)
      BY DEF Clean
    <3>2. Len(ms) \in Nat
      BY <3>1, LenProperties
    <3> QED BY <3>1, <3>2 DEF At
  <2>2. Till(ms, n) \in Nat /\ Till(ms, Len(ms)) \in Nat
    BY <2>1, TillGrows
  <2>3. Len(q) \in Nat
    BY <1>5, LenProperties DEF Texts
  <2> QED BY <2>2, <2>3 DEF After
<1>7. a + l <= e
  BY <1>1, <1>5, <1>6 DEF At
<1>8. a + Len(c) <= e
  BY <1>1, <1>2, <1>4, <1>6, <1>7
<1>9. \A j \in 1..h : c[j] = Wire(ms)[a + j]
  <2>1. \A j \in 1..h : j \in 1..l
    BY <1>1, <1>2
  <2> QED BY <1>1, <1>4, <1>5, <1>6, <2>1 DEF At
<1>10. Len(c) > 0 /\ Len(c) \in 1..Len(r)
  BY <1>1, <1>2, <1>4
<1>11. Len(q) <= Len(ms[n + 1]) /\ (\A j \in 1..Len(q) : q[j] = ms[n + 1][j]) /\ n \in 0..(Len(ms) - 1)
  BY <1>5 DEF At
<1> QED BY <1>4, <1>5, <1>6, <1>8, <1>9, <1>10, <1>11 DEF Reads, Texts

(* One round that does not complete "stop". *)
LEMMA MovesOn ==
  ASSUME NEW ms, Clean(ms), NEW n, NEW o, NEW r, At(ms, n, o, pending, r),
         NEW c, Reads(ms, n, Text(pending), c), Len(c) \in 1..Len(r),
         NEW m, Completes(ms, n, Text(pending), c, m), m < Len(ms), \A j \in 1..Len(c) : c[j] = r[j],
         NEW p, p = IF Last(c) = Nul THEN Nil ELSE Joined(c).last
  PROVE  At(ms, m, o \o Some(ms, n, m - n), p, SubSeq(r, Len(c) + 1, Len(r)))
<1>1. PICK q : q = Text(pending)
  OBVIOUS
<1>2. Reads(ms, n, q, c) /\ Completes(ms, n, q, c, m) /\ PendingOK
  BY <1>1 DEF At, PendingOK
<1>3. PICK N, t, b, l, z : Figures(ms, n, q, c, m, N, t, b, l, z)
  BY <1>2, Numbers
<1>4. /\ N \in Nat /\ N = Len(ms) /\ n \in Nat /\ m \in Nat /\ n < N /\ m < N /\ n <= m /\ ms \in Seq(Texts)
      /\ b \in Nat /\ b = After(ms, n, q) /\ l \in Nat /\ l = Len(c) /\ l > 0
  BY <1>3 DEF Figures, Clean
<1>5. PICK u, e : u = Till(ms, m) /\ e = Len(ms[m + 1])
  OBVIOUS
<1>6. u \in Nat /\ e \in Nat /\ u <= b + l /\ b + l < u + e + 1
  <2>1. m \in 0..N /\ m + 1 \in 1..N /\ m + 1 - 1 = m
    BY <1>4
  <2>2. u = t[m] /\ u \in Nat /\ e \in Nat /\ t[m + 1] = t[m] + e + 1 /\ u <= b + l /\ b + l < t[m + 1]
    BY <1>3, <1>4, <1>5, <2>1 DEF Figures
  <2> QED BY <2>2
<1>7. Yields(ms, n, q, c, m)
  <2>1. Now(ms, n, c, m)
    BY <1>1, <1>2 DEF Now
  <2> QED BY <1>1, <2>1, YieldsAre
<1>8. Last(c) = Nul <=> u = b + l
  BY <1>4, <1>5, <1>7 DEF Yields
<1>9. PICK x : x = Text(p)
  OBVIOUS
<1>10. /\ p = Nil \/ (p \in Texts /\ p # <<>>)
       /\ x \in Texts /\ Len(x) = b + l - u /\ \A j \in 1..Len(x) : x[j] = ms[m + 1][j]
  <2>1. CASE Last(c) = Nul
    <3>1. p = Nil /\ x = <<>> /\ Len(x) = 0 /\ x \in Texts
      BY <1>9, <2>1, TextOf
    <3>2. b + l - u = 0
      BY <1>4, <1>6, <1>8, <2>1
    <3>3. \A j \in 1..0 : x[j] = ms[m + 1][j]
      OBVIOUS
    <3> QED BY <3>1, <3>2, <3>3
  <2>2. CASE Last(c) # Nul
    <3>1. p \in Texts /\ Len(p) = b + l - u /\ \A j \in 1..Len(p) : p[j] = ms[m + 1][j]
      BY <1>4, <1>5, <1>7, <2>2 DEF Yields
    <3>2. b + l - u # 0
      <4>1. u # b + l /\ u \in Nat /\ b \in Nat /\ l \in Nat
        BY <1>4, <1>6, <1>8, <2>2
      <4> QED BY ONLY <4>1
    <3>3. p # <<>>
      <4>1. Len(<<>>) = 0
        BY EmptySeq
      <4> QED BY <3>1, <3>2, <4>1
    <3>4. x = p
      BY <1>9, <3>1, TextOf
    <3> QED BY <3>1, <3>3, <3>4
  <2> QED BY <2>1, <2>2
<1>11. Len(x) \in Nat /\ Len(x) <= e /\ After(ms, m, x) = b + l
  <2>1. b + l - u \in Nat /\ b + l - u <= e /\ u + (b + l - u) = b + l
    <3>1. b \in Nat /\ l \in Nat
      BY <1>4
    <3> QED BY ONLY <1>6, <3>1
  <2>2. After(ms, m, x) = u + Len(x)
    BY <1>5 DEF After
  <2> QED BY <1>10, <2>1, <2>2
<1>12. PICK d, y : d = Len(r) /\ y = SubSeq(r, l + 1, d)
  OBVIOUS
<1>13. r \in Seq(Bytes) /\ d \in Nat /\ l <= d /\ b + d <= Till(ms, N) /\ \A j \in 1..d : r[j] = Wire(ms)[b + j]
  <2>1. r \in Seq(Bytes)
    BY DEF At, Texts
  <2>2. d \in Nat
    BY <1>12, <2>1, LenProperties
  <2> QED BY <1>1, <1>4, <1>12, <2>1, <2>2 DEF At
<1>14. y \in Texts /\ Len(y) = d - l /\ \A j \in 1..(d - l) : y[j] = r[l + j]
  <2>1. /\ SubSeq(r, l + 1, d) \in Seq(Bytes) /\ Len(SubSeq(r, l + 1, d)) = d - l
        /\ \A j \in 1..(d - l) : SubSeq(r, l + 1, d)[j] = r[l + j]
    <3>1. r \in Seq(Bytes) /\ l \in Nat /\ d \in Nat /\ l <= d /\ d <= Len(r)
      BY <1>4, <1>12, <1>13
    <3> QED BY ONLY <3>1, Piece
  <2> QED BY <1>12, <2>1 DEF Texts
<1>15. b + l + Len(y) <= Till(ms, N) /\ \A j \in 1..Len(y) : y[j] = Wire(ms)[b + l + j]
  <2>1. b + l + (d - l) = b + d
    BY <1>4, <1>13
  <2>2. ASSUME NEW j \in 1..(d - l) PROVE y[j] = Wire(ms)[b + l + j]
    <3>1. l + j \in 1..d /\ b + (l + j) = b + l + j
      BY <1>4, <1>13
    <3> QED BY <1>13, <1>14, <3>1
  <2> QED BY <1>13, <1>14, <2>1, <2>2
<1>16. o \o Some(ms, n, m - n) = Some(ms, 0, m)
  <2>1. Some(ms, 0, n) \o Some(ms, n, m - n) = Some(ms, 0, m)
    BY <1>4, SomeJoin
  <2> QED BY <2>1 DEF At
<1>17. m \in 0..(Len(ms) - 1)
  BY <1>4
<1>18. At(ms, m, Some(ms, 0, m), p, y)
  BY <1>4, <1>5, <1>9, <1>10, <1>11, <1>14, <1>15, <1>17 DEF At
<1> QED BY <1>4, <1>12, <1>16, <1>18

(* The round that does hands on the rest of the messages.                    *)
LEMMA HandsOnRest ==
  ASSUME NEW ms \in Seq(Texts), NEW n \in Nat, n < Len(ms)
  PROVE  /\ SubSeq(Some(ms, n, Len(ms) - n), 1, Len(ms) - n - 1) = Some(ms, n, Len(ms) - 1 - n)
         /\ Some(ms, 0, Len(ms) - 1) = Front(ms)
<1>1. PICK N, k, h : N = Len(ms) /\ N \in Nat /\ k = N - n /\ h = N - n - 1
  BY LenProperties
<1>2. k \in Nat /\ h \in Nat /\ h <= k /\ n + k <= N /\ n + h <= N /\ h = N - 1 - n /\ N - 1 \in Nat /\ N - 1 <= N /\ 0 + (N - 1) <= N
  BY <1>1
<1>3. PICK r, s : r = Some(ms, n, k) /\ s = Some(ms, n, h)
  OBVIOUS
<1>4. r \in Seq(Texts) /\ Len(r) = k /\ \A i \in 1..k : r[i] = ms[n + i]
  <2>1. n + k <= Len(ms) /\ k \in Nat
    BY <1>1, <1>2
  <2>2. /\ Some(ms, n, k) \in Seq(Texts) /\ Len(Some(ms, n, k)) = k
        /\ \A i \in 1..k : Some(ms, n, k)[i] = ms[n + i]
    BY <2>1, SomeAre
  <2> QED BY <1>3, <2>2
<1>5. s \in Seq(Texts) /\ Len(s) = h /\ \A i \in 1..h : s[i] = ms[n + i]
  <2>1. n \in Nat /\ h \in Nat /\ n + h <= Len(ms)
    BY <1>1, <1>2
  <2>2. /\ Some(ms, n, h) \in Seq(Texts) /\ Len(Some(ms, n, h)) = h
        /\ \A i \in 1..h : Some(ms, n, h)[i] = ms[n + i]
    BY <2>1, SomeAre
  <2> QED BY <1>3, <2>2
<1>6. 0 \in Nat /\ 0 + 1 = 1 /\ 0 <= h /\ h - 0 = h /\ (\A i \in 1..h : 0 + i = i /\ i \in 1..k)
  BY <1>2
<1>7. PICK f : f = SubSeq(r, 1, h)
  OBVIOUS
<1>8. f \in Seq(Texts) /\ Len(f) = h /\ \A i \in 1..h : f[i] = r[i]
  <2>1. /\ SubSeq(r, 0 + 1, h) \in Seq(Texts) /\ Len(SubSeq(r, 0 + 1, h)) = h - 0
        /\ \A i \in 1..(h - 0) : SubSeq(r, 0 + 1, h)[i] = r[0 + i]
    BY <1>2, <1>4, <1>6, Piece
  <2> QED BY <1>6, <1>7, <2>1
<1>9. f = s
  <2>1. \A i \in 1..h : f[i] = s[i]
    BY <1>4, <1>5, <1>6, <1>8
  <2> QED BY <1>5, <1>8, <2>1, SeqEqual
<1>10. Some(ms, 0, N - 1) = Front(ms)
  <2>1. PICK d, a, g : d = N - 1 /\ a = Some(ms, 0, d) /\ g = SubSeq(ms, 1, d)
    OBVIOUS
  <2>2. d \in Nat /\ 0 + d <= Len(ms) /\ 0 \in Nat /\ 0 <= d /\ d <= Len(ms) /\ d - 0 = d /\ 0 + 1 = 1
        /\ \A i \in 1..d : 0 + i = i
    BY <1>1, <1>2, <2>1
  <2>3. a \in Seq(Texts) /\ Len(a) = d /\ \A i \in 1..d : a[i] = ms[0 + i]
    <3>1. /\ Some(ms, 0, d) \in Seq(Texts) /\ Len(Some(ms, 0, d)) = d
          /\ \A i \in 1..d : Some(ms, 0, d)[i] = ms[0 + i]
      BY <2>2, SomeAre
    <3> QED BY <2>1, <3>1
  <2>4. g \in Seq(Texts) /\ Len(g) = d /\ \A i \in 1..d : g[i] = ms[0 + i]
    <3>1. /\ SubSeq(ms, 0 + 1, d) \in Seq(Texts) /\ Len(SubSeq(ms, 0 + 1, d)) = d - 0
          /\ \A i \in 1..(d - 0) : SubSeq(ms, 0 + 1, d)[i] = ms[0 + i]
      BY <2>2, Piece
    <3> QED BY <2>1, <2>2, <3>1
  <2>5. a = g
    BY <2>3, <2>4, SeqEqual
  <2> QED BY <1>1, <2>1, <2>5 DEF Front
<1> QED BY <1>1, <1>2, <1>3, <1>7, <1>9, <1>10

(* A message of the client is a text that is not empty and has no NUL.       *)
LEMMA MessageIs ==
  ASSUME NEW m \in Messages \union {Stop}
  PROVE  m \in Texts /\ Len(m) > 0 /\ \A j \in 1..Len(m) : m[j] # Nul
<1>1. m \in Seq(Range(m)) /\ m # <<>> /\ ~Contains(m, Nul)
  BY FramingAssumption
<1>2. Range(m) \subseteq Bytes
  BY DEF Bytes
<1>3. m \in Seq(Bytes)
  BY <1>1, <1>2, SeqMonotonic
<1>4. Len(m) > 0
  BY <1>1, <1>3, EmptySeq
<1> QED BY <1>1, <1>3, <1>4 DEF Texts, Contains

LEMMA SentIsClean ==
  ASSUME NEW ms \in BoundedSeq(Messages, MaxMessages)
  PROVE  Clean(Append(ms, Stop)) /\ Ended(Append(ms, Stop))
<1>1. PICK k : k \in 0..MaxMessages /\ ms \in [1..k -> Messages]
  BY DEF BoundedSeq, SeqOf
<1>2. k \in Nat /\ ms \in Seq(Texts) /\ Len(ms) = k /\ \A i \in 1..k : ms[i] \in Messages
  <2>1. k \in Nat
    BY <1>1, FramingAssumption
  <2>2. ms \in Seq(Messages) /\ Len(ms) = k
    BY <1>1, <2>1
  <2>3. Messages \subseteq Texts
    BY MessageIs
  <2> QED BY <1>1, <2>1, <2>2, <2>3, SeqMonotonic
<1>3. PICK s : s = Append(ms, Stop)
  OBVIOUS
<1>4. s \in Seq(Texts) /\ Len(s) = k + 1 /\ (\A i \in 1..k : s[i] = ms[i]) /\ s[k + 1] = Stop
  <2>1. Stop \in Texts
    BY MessageIs
  <2> QED BY <1>2, <1>3, <2>1, AppendProperties
<1>5. \A i \in 1..(k + 1) : (i \in 1..k /\ i # k + 1) \/ i = k + 1
  BY <1>2
<1>6. \A i \in 1..(k + 1) : s[i] \in Messages \union {Stop} /\ (s[i] = Stop <=> i = k + 1)
  BY <1>2, <1>4, <1>5, FramingAssumption
<1>7. \A i \in 1..Len(s) : Len(s[i]) > 0 /\ \A j \in 1..Len(s[i]) : s[i][j] # Nul
  BY <1>4, <1>6, MessageIs
<1>8. Len(s) > 0
  BY <1>2, <1>4
<1> QED BY <1>3, <1>4, <1>6, <1>7, <1>8 DEF Clean, Ended

LEMMA InvInit == Init => Inv
<1> SUFFICES ASSUME Init PROVE Inv
  OBVIOUS
<1>1. Clean(sent) /\ Ended(sent)
  BY SentIsClean DEF Init
<1>2. PICK ms, N : ms = sent /\ N = Len(ms) /\ N \in Nat /\ N > 0 /\ ms \in Seq(Texts)
  BY <1>1, LenProperties DEF Clean, Ended
<1>3. PICK e : e = Till(ms, N) /\ e \in Nat /\ e = Len(Wire(ms)) /\ Till(ms, 0) = 0 /\ Wire(ms) \in Seq(Bytes)
  <2>1. N \in 0..N
    BY <1>2
  <2>2. Till(ms, N) \in Nat /\ Till(ms, 0) = 0 /\ Till(ms, N) = Len(Wire(ms))
    BY <1>2, <2>1, TillGrows
  <2>3. Wire(ms) \in Texts
    BY <1>2, <2>1, WiresAre DEF Wire
  <2> QED BY <2>2, <2>3 DEF Texts
<1>4. PICK h \in 0..e : stream = SubSeq(Wire(ms), 1, h)
  BY <1>2, <1>3 DEF Init
<1>5. stream \in Seq(Bytes) /\ Len(stream) = h /\ \A j \in 1..h : stream[j] = Wire(ms)[0 + j]
  <2>1. 0 \in Nat /\ h \in Nat /\ 0 <= h /\ h <= Len(Wire(ms)) /\ h - 0 = h /\ 0 + 1 = 1
    BY <1>3
  <2>2. /\ SubSeq(Wire(ms), 0 + 1, h) \in Seq(Bytes) /\ Len(SubSeq(Wire(ms), 0 + 1, h)) = h - 0
        /\ \A j \in 1..(h - 0) : SubSeq(Wire(ms), 0 + 1, h)[j] = Wire(ms)[0 + j]
    BY ONLY <1>3, <2>1, Piece
  <2> QED BY <1>4, <2>1, <2>2
<1>6. Text(pending) = <<>> /\ Len(Text(pending)) = 0 /\ pending = Nil
  BY TextOf DEF Init
<1>7. After(ms, 0, Text(pending)) = 0
  BY <1>3, <1>6 DEF After
<1>8. out = Some(ms, 0, 0)
  BY DEF Init, Some
<1>9. /\ 0 \in 0..(N - 1) /\ 0 + h <= e
      /\ Len(Text(pending)) <= Len(ms[0 + 1]) /\ \A j \in 1..Len(Text(pending)) : Text(pending)[j] = ms[0 + 1][j]
  <2>1. 0 + 1 \in 1..N
    BY <1>2
  <2>2. Len(ms[0 + 1]) > 0 /\ Len(ms[0 + 1]) \in Nat
    BY <1>1, <1>2, <2>1, TillGrows DEF Clean
  <2> QED BY <1>2, <1>3, <1>6, <2>2
<1>10. At(ms, 0, out, pending, stream)
  BY <1>2, <1>3, <1>5, <1>6, <1>7, <1>8, <1>9 DEF At, Texts
<1> QED BY <1>1, <1>2, <1>10 DEF Init, Inv, Reading

(* What a round does, by its chunk.                                          *)
Round(c) ==
  LET stop == StopIn(MessagesIn(c)) IN
  /\ c = SubSeq(stream, 1, Min({size, Len(stream)})) /\ ~stopped /\ stream # <<>>
  /\ stream' = SubSeq(stream, Len(c) + 1, Len(stream))
  /\ pending' = IF Last(c) = Nul THEN Nil ELSE Joined(c).last
  /\ out' = out \o (IF stop = 0 THEN MessagesIn(c) ELSE SubSeq(MessagesIn(c), 1, stop - 1))
  /\ stopped' = (stop # 0)
  /\ UNCHANGED <<sent, size>>

LEMMA ReceiveIsRound ==
  ASSUME Receive
  PROVE  \E c : Round(c)
<1>1. PICK c : c = SubSeq(stream, 1, Min({size, Len(stream)}))
  OBVIOUS
<1>2. Round(c)
  BY <1>1 DEF Receive, Round, StopIn, SelectInSeq, MessagesIn, Joined, FrontOf, LastOf
<1> QED BY <1>2

LEMMA InvStep == Inv /\ [Next]_vars => Inv'
<1> SUFFICES ASSUME Inv, [Next]_vars PROVE Inv'
  OBVIOUS
<1>1. CASE Next
  <2>1. PICK c : Round(c)
    BY <1>1, ReceiveIsRound DEF Next
  <2>2. PICK ms, N : ms = sent /\ N = Len(ms) /\ N \in Nat /\ N > 0 /\ ms \in Seq(Texts) /\ Clean(ms) /\ Ended(ms)
    BY LenProperties DEF Inv, Clean, Ended
  <2>3. PICK n : At(ms, n, out, pending, stream)
    BY <2>1, <2>2 DEF Inv, Round, Reading
  <2>4. n \in Nat /\ n < N
    BY <2>2, <2>3 DEF At
  <2>5. Reads(ms, n, Text(pending), c) /\ Len(c) \in 1..Len(stream)
    <3>1. size \in Nat \ {0}
      BY FramingAssumption DEF Inv
    <3>2. stream # <<>> /\ c = SubSeq(stream, 1, Min({size, Len(stream)}))
      BY <2>1 DEF Round
    <3> QED BY <2>2, <2>3, <3>1, <3>2, ChunkReads
  <2>6. PICK m : Completes(ms, n, Text(pending), c, m)
    BY <2>5, ReachesOne
  <2>7. m \in Nat /\ n <= m /\ m <= N
    BY <2>2, <2>4, <2>6 DEF Completes
  <2>8. Yields(ms, n, Text(pending), c, m)
    <3>1. PendingOK
      BY <2>3 DEF At, PendingOK
    <3> QED BY <2>5, <2>6, <3>1, YieldsAre DEF Now
  <2>9. MessagesIn(c) = Some(ms, n, m - n)
    BY <2>8 DEF Yields
  <2>10. PICK stop : stop = StopIn(MessagesIn(c))
    OBVIOUS
  <2>11. (m < N => stop = 0) /\ (m = N => stop = m - n)
    BY <2>2, <2>4, <2>7, <2>9, <2>10, StopFound
  <2>12. sent' = ms /\ size' \in Sizes
    BY <2>1, <2>2 DEF Round, Inv
  <2>13. CASE m < N
    <3>1. /\ ~stopped' /\ stopped' \in BOOLEAN /\ out' = out \o Some(ms, n, m - n)
          /\ stream' = SubSeq(stream, Len(c) + 1, Len(stream))
          /\ pending' = IF Last(c) = Nul THEN Nil ELSE Joined(c).last
      BY <2>1, <2>9, <2>10, <2>11, <2>13 DEF Round
    <3>2. \A j \in 1..Len(c) : c[j] = stream[j]
      <4>1. \A j \in 1..Len(c) : c[j] = Wire(ms)[After(ms, n, Text(pending)) + j]
        BY <2>5 DEF Reads
      <4>2. \A j \in 1..Len(c) : j \in 1..Len(stream)
        BY <2>5
      <4> QED BY <2>3, <4>1, <4>2 DEF At
    <3>3. At(ms, m, out', pending', stream')
      BY <2>2, <2>3, <2>5, <2>6, <2>13, <3>1, <3>2, MovesOn
    <3> QED BY <2>2, <2>12, <3>1, <3>3 DEF Inv, Reading
  <2>14. CASE m = N
    <3>1. stop = N - n /\ stop # 0 /\ stop - 1 = N - n - 1
      BY <2>2, <2>4, <2>11, <2>14
    <3>2. stopped' = TRUE /\ out' = out \o SubSeq(Some(ms, n, N - n), 1, N - n - 1)
      BY <2>1, <2>9, <2>10, <2>14, <3>1 DEF Round
    <3>3. out' = Front(ms)
      <4>1. SubSeq(Some(ms, n, N - n), 1, N - n - 1) = Some(ms, n, N - 1 - n) /\ Some(ms, 0, N - 1) = Front(ms)
        BY <2>2, <2>4, HandsOnRest
      <4>2. out = Some(ms, 0, n)
        BY <2>3 DEF At
      <4>3. PICK k : k = N - 1
        OBVIOUS
      <4>4. k \in Nat /\ n <= k /\ k <= Len(ms)
        BY <2>2, <2>4, <4>3
      <4>5. Some(ms, 0, n) \o Some(ms, n, k - n) = Some(ms, 0, k)
        BY ONLY <2>2, <2>4, <4>4, SomeJoin
      <4> QED BY <3>2, <4>1, <4>2, <4>3, <4>5
    <3>4. pending' = Nil
      <4>1. Last(c) # Nul => m + 1 \in 1..Len(ms)
        BY <2>8 DEF Yields
      <4>2. ~(m + 1 \in 1..Len(ms))
        BY <2>2, <2>14
      <4> QED BY <2>1, <4>1, <4>2 DEF Round
    <3> QED BY <2>2, <2>12, <3>2, <3>3, <3>4 DEF Inv
  <2> QED BY <2>2, <2>7, <2>13, <2>14
<1>2. CASE UNCHANGED vars
  BY <1>2 DEF vars, Inv, Reading
<1> QED BY <1>1, <1>2

------------------------------------------------------------------------------
(* What the invariant says of the bytes. *)
LEMMA PrefixIs ==
  ASSUME NEW S, NEW s \in Seq(S), NEW t \in Seq(S), Len(s) <= Len(t), \A i \in 1..Len(s) : s[i] = t[i]
  PROVE  IsPrefix(s, t)
<1>1. PICK l, k : l = Len(s) /\ k = Len(t) /\ l \in Nat /\ k \in Nat
  BY LenProperties
<1>2. 0 \in Nat /\ 0 <= l /\ l <= k /\ l - 0 = l /\ 0 + 1 = 1 /\ l <= l /\ \A i \in 1..l : 0 + i = i
  BY <1>1
<1>3. /\ SubSeq(s, 0 + 1, l) \in Seq(S) /\ Len(SubSeq(s, 0 + 1, l)) = l - 0
      /\ \A j \in 1..(l - 0) : SubSeq(s, 0 + 1, l)[j] = s[0 + j]
  BY <1>1, <1>2, Piece
<1>4. /\ SubSeq(t, 0 + 1, l) \in Seq(S) /\ Len(SubSeq(t, 0 + 1, l)) = l - 0
      /\ \A j \in 1..(l - 0) : SubSeq(t, 0 + 1, l)[j] = t[0 + j]
  BY <1>1, <1>2, Piece
<1>5. PICK a, b : a = SubSeq(s, 1, l) /\ b = SubSeq(t, 1, l)
  OBVIOUS
<1>6. a \in Seq(S) /\ b \in Seq(S) /\ Len(a) = l /\ Len(b) = l
  BY <1>2, <1>3, <1>4, <1>5
<1>7. \A j \in 1..l : a[j] = b[j]
  BY <1>1, <1>2, <1>3, <1>4, <1>5
<1>8. a = b
  BY <1>6, <1>7, SeqEqual
<1> QED BY <1>1, <1>2, <1>5, <1>8 DEF IsPrefix

LEMMA BytesKept ==
  ASSUME NEW ms, Clean(ms), NEW n, NEW o, NEW p, NEW r, At(ms, n, o, p, r)
  PROVE  IsPrefix(Wire(o) \o Text(p) \o r, Wire(ms))
<1>1. PICK N : N = Len(ms) /\ N \in Nat /\ n \in Nat /\ n < N /\ ms \in Seq(Texts)
               /\ n \in 0..N /\ n + 1 \in 1..N /\ n + 1 - 1 = n /\ N \in 0..N
  <2>1. Len(ms) \in Nat /\ ms \in Seq(Texts)
    BY LenProperties DEF Clean
  <2> QED BY <2>1 DEF At
<1>2. PICK q, v, w : q = Text(p) /\ v = Wires(ms)[n] /\ w = Wire(ms)
  OBVIOUS
<1>3. Wire(o) = v
  BY <1>1, <1>2, WireOfFirst DEF At
<1>4. q \in Texts /\ r \in Texts /\ v \in Texts /\ w \in Texts
  BY <1>1, <1>2, TextOf, WiresAre DEF At, Wire
<1>5. PICK u, z, l, e : u = Len(v) /\ z = Len(q) /\ l = Len(r) /\ e = Len(w)
                        /\ u \in Nat /\ z \in Nat /\ l \in Nat /\ e \in Nat
  BY <1>4, LenProperties DEF Texts
<1>6. Till(ms, n) = u /\ After(ms, n, q) = u + z /\ Till(ms, N) = e
  BY <1>1, <1>2, <1>5 DEF Till, After, Wire
<1>7. u + z + l <= e /\ \A j \in 1..l : r[j] = w[u + z + j]
  BY <1>1, <1>2, <1>5, <1>6 DEF At
<1>8. \A j \in 1..u : v[j] = w[j]
  <2>1. \A j \in 1..Till(ms, n) : Wires(ms)[N][j] = Wires(ms)[n][j]
    <3>1. n \in 0..Len(ms) /\ N \in 0..Len(ms) /\ n <= N
      BY <1>1
    <3> QED BY ONLY <1>1, <3>1, WireGrows
  <2> QED BY <1>1, <1>2, <1>6, <2>1 DEF Wire
<1>9. \A j \in 1..z : q[j] = w[u + j]
  <2>1. PICK k, f : k = n + 1 /\ f = Len(ms[k])
    OBVIOUS
  <2>2. k \in 1..Len(ms) /\ k - 1 = n /\ f \in Nat
    BY <1>1, <2>1, TillGrows
  <2>3. z <= f /\ \A j \in 1..z : q[j] = ms[k][j]
    BY <1>2, <1>5, <2>1 DEF At
  <2>4. \A j \in 1..f : w[u + j] = ms[k][j]
    BY <1>1, <1>2, <1>6, <2>1, <2>2, MessageAt
  <2>5. \A j \in 1..z : j \in 1..f
    BY <1>5, <2>2, <2>3
  <2> QED BY <2>3, <2>4, <2>5
<1>10. PICK a : a = v \o q
  OBVIOUS
<1>11. a \in Seq(Bytes) /\ Len(a) = u + z /\ \A i \in 1..(u + z) : a[i] = IF i <= u THEN v[i] ELSE q[i - u]
  BY <1>4, <1>5, <1>10, ConcatProperties DEF Texts
<1>12. PICK b : b = a \o r
  OBVIOUS
<1>13. b \in Seq(Bytes) /\ Len(b) = u + z + l
       /\ \A i \in 1..(u + z + l) : b[i] = IF i <= u + z THEN a[i] ELSE r[i - (u + z)]
  <2>1. r \in Seq(Bytes)
    BY <1>4 DEF Texts
  <2>2. /\ a \o r \in Seq(Bytes) /\ Len(a \o r) = Len(a) + Len(r)
        /\ \A i \in 1..(Len(a) + Len(r)) : (a \o r)[i] = IF i <= Len(a) THEN a[i] ELSE r[i - Len(a)]
    BY ONLY <1>11, <2>1, ConcatProperties
  <2> QED BY <1>5, <1>11, <1>12, <2>2
<1>14. ASSUME NEW i \in 1..(u + z + l) PROVE b[i] = w[i]
  <2>1. CASE i <= u
    <3>1. i \in 1..u /\ i \in 1..(u + z) /\ i <= u + z
      BY <1>5, <2>1
    <3> QED BY <1>8, <1>11, <1>13, <2>1, <3>1
  <2>2. CASE ~(i <= u) /\ i <= u + z
    <3>1. i \in 1..(u + z) /\ i - u \in 1..z /\ u + (i - u) = i
      BY <1>5, <2>2
    <3> QED BY <1>9, <1>11, <1>13, <2>2, <3>1
  <2>3. CASE ~(i <= u + z)
    <3>1. i - (u + z) \in 1..l /\ u + z + (i - (u + z)) = i
      BY <1>5, <2>3
    <3> QED BY <1>7, <1>13, <2>3, <3>1
  <2> QED BY <2>1, <2>2, <2>3
<1>15. Len(b) <= Len(w)
  BY <1>5, <1>7, <1>13
<1>16. IsPrefix(b, w)
  BY <1>4, <1>13, <1>14, <1>15, PrefixIs DEF Texts
<1> QED BY <1>2, <1>3, <1>10, <1>12, <1>16

LEMMA InvTypes == Inv => TypeOK
<1> SUFFICES ASSUME Inv, pending # Nil PROVE pending # <<>> /\ ~Contains(pending, Nul)
  BY DEF Inv, TypeOK
<1>1. ~stopped
  BY DEF Inv
<1>2. PICK n : At(sent, n, out, pending, stream)
  BY <1>1 DEF Inv, Reading
<1>3. pending \in Texts /\ pending # <<>> /\ Text(pending) = pending
  BY <1>2, TextOf DEF At
<1>4. PICK k, l, e : k = n + 1 /\ l = Len(pending) /\ e = Len(sent[k])
  OBVIOUS
<1>5. k \in 1..Len(sent) /\ l \in Nat /\ e \in Nat /\ l <= e
  <2>1. Len(sent) \in Nat /\ l \in Nat /\ sent \in Seq(Texts)
    BY <1>3, <1>4, LenProperties DEF Inv, Clean, Texts
  <2>2. k \in 1..Len(sent)
    BY <1>2, <1>4, <2>1 DEF At
  <2>3. e \in Nat
    BY <1>4, <2>1, <2>2, TillGrows
  <2> QED BY <1>2, <1>3, <1>4, <2>1, <2>2, <2>3 DEF At
<1>6. \A j \in 1..l : pending[j] = sent[k][j] /\ sent[k][j] # Nul
  <2>1. \A j \in 1..l : j \in 1..e
    BY <1>5
  <2> QED BY <1>2, <1>3, <1>4, <1>5, <2>1 DEF At, Inv, Clean
<1> QED BY <1>3, <1>4, <1>6 DEF Contains

LEMMA InvWhole == Inv => WholeInOrder
<1> SUFFICES ASSUME Inv PROVE WholeInOrder
  OBVIOUS
<1>1. PICK ms, N, k : ms = sent /\ N = Len(ms) /\ N \in Nat /\ N > 0 /\ ms \in Seq(Texts) /\ Clean(ms)
                      /\ k = N - 1 /\ k \in Nat /\ k <= N /\ 0 + k <= N /\ 0 \in Nat
  <2>1. sent \in Seq(Texts) /\ Len(sent) \in Nat /\ Len(sent) > 0
    BY LenProperties DEF Inv, Clean, Ended
  <2>2. Len(sent) - 1 \in Nat /\ Len(sent) - 1 <= Len(sent) /\ 0 + (Len(sent) - 1) <= Len(sent)
    BY <2>1
  <2> QED BY <2>1, <2>2 DEF Inv
<1>2. PICK f : f = Front(ms) /\ f = Some(ms, 0, k)
  BY <1>1, HandsOnRest
<1>3. f \in Seq(Texts) /\ Len(f) = k /\ \A i \in 1..k : f[i] = ms[0 + i]
  <2>1. ms \in Seq(Texts) /\ 0 \in Nat /\ k \in Nat /\ 0 + k <= Len(ms)
    BY <1>1
  <2>2. /\ Some(ms, 0, k) \in Seq(Texts) /\ Len(Some(ms, 0, k)) = k
        /\ \A i \in 1..k : Some(ms, 0, k)[i] = ms[0 + i]
    BY ONLY <2>1, SomeAre
  <2> QED BY <1>2, <2>2
<1>4. CASE stopped
  <2>1. out = f
    BY <1>1, <1>2, <1>4 DEF Inv
  <2>2. Len(f) <= Len(f)
    BY <1>1, <1>3
  <2>3. IsPrefix(f, f)
    BY <1>3, <2>2, PrefixIs
  <2> QED BY <1>1, <1>2, <1>4, <2>1, <2>3 DEF WholeInOrder, NoByteLost
<1>5. CASE ~stopped
  <2>1. PICK n : At(ms, n, out, pending, stream)
    BY <1>1, <1>5 DEF Inv, Reading
  <2>2. n \in Nat /\ n < N /\ n <= k /\ 0 + n <= Len(ms) /\ \A i \in 1..n : i \in 1..k
    BY <1>1, <2>1 DEF At
  <2>3. out = Some(ms, 0, n)
    BY <2>1 DEF At
  <2>4. out \in Seq(Texts) /\ Len(out) = n /\ \A i \in 1..n : out[i] = ms[0 + i]
    <3>1. ms \in Seq(Texts) /\ 0 \in Nat /\ n \in Nat /\ 0 + n <= Len(ms)
      BY <1>1, <2>2
    <3>2. /\ Some(ms, 0, n) \in Seq(Texts) /\ Len(Some(ms, 0, n)) = n
          /\ \A i \in 1..n : Some(ms, 0, n)[i] = ms[0 + i]
      BY ONLY <3>1, SomeAre
    <3> QED BY <2>3, <3>2
  <2>5. IsPrefix(out, f)
    BY <1>3, <2>2, <2>4, PrefixIs
  <2>6. IsPrefix(Wire(out) \o Text(pending) \o stream, Wire(ms))
    BY <1>1, <2>1, BytesKept
  <2>7. Len(out) < Len(ms) /\ Len(Text(pending)) <= Len(ms[Len(out) + 1])
    BY <1>1, <2>1, <2>2, <2>4 DEF At
  <2> QED BY <1>1, <1>2, <1>5, <2>5, <2>6, <2>7 DEF WholeInOrder, NoByteLost
<1> QED BY <1>4, <1>5 DEF Inv

------------------------------------------------------------------------------
(* Whatever the bytes of the messages, the size of the chunks and the place  *)
(* where the connection ends: a pending message is never empty and has no    *)
(* NUL, so the next chunk always completes it or adds to it (worker_loop).   *)
THEOREM FramingTypes == Spec => []TypeOK
<1>1. Spec => []Inv
  BY InvInit, InvStep, PTL DEF Spec
<1> QED BY <1>1, InvTypes, PTL

(* The reader hands on what was sent, whole and in its order, and never      *)
(* "stop"; no byte is dropped, and a reader that stops has handed on every   *)
(* message (worker_loop in lib/racer/agent.rb).                              *)
THEOREM FramingWhole == Spec => []WholeInOrder
<1>1. Spec => []Inv
  BY InvInit, InvStep, PTL DEF Spec
<1> QED BY <1>1, InvWhole, PTL
==============================================================================
