------------------------------- MODULE Framing -------------------------------
(***************************************************************************)
(* How a reader of the agent (worker_loop in lib/racer/agent.rb) cuts the  *)
(* bytes of its connection into messages.  The client ends each message    *)
(* with a NUL byte; the reader gets chunks of a fixed size, which may end  *)
(* anywhere, and the end of the stream may cut the last message off.       *)
(* Agent.tla takes what this module checks for granted: the reader sees    *)
(* whole messages, in order.                                               *)
(***************************************************************************)
EXTENDS Naturals, SequencesExt, FiniteSets

CONSTANTS
  Messages,    \* what a trace may look like: nonempty sequences of bytes
  Stop,        \* the bytes of "stop"
  Nul,         \* the byte that ends a message
  Sizes,       \* sizes of a chunk (1024 in the code)
  MaxMessages, \* bound on the number of traces sent
  Nil          \* nil

Bytes == {Nul} \union UNION {Range(m) : m \in Messages \union {Stop}}

ASSUME FramingAssumption ==
  /\ \A m \in Messages \union {Stop} : m \in Seq(Range(m)) \ {<<>>} /\ ~Contains(m, Nul)
  /\ Stop \notin Messages /\ Nil \notin Seq(Bytes)
  /\ Sizes \subseteq Nat \ {0} /\ MaxMessages \in Nat

VARIABLES
  sent,        \* what the client sends, "stop" at the end
  size,        \* the chunk size of this reader
  stream,      \* bytes that will still arrive
  pending,     \* pending_message
  out,         \* messages handed on, in order
  stopped      \* the loop has returned

vars == <<sent, size, stream, pending, out, stopped>>

(* send is given a message and its NUL. *)
Wires(ms) ==   \* Wires(ms)[i]: the first i messages
  LET wire[i \in 0..Len(ms)] == IF i = 0 THEN <<>> ELSE wire[i - 1] \o Append(ms[i], Nul)
  IN  wire
Wire(ms) == Wires(ms)[Len(ms)]

(* The client may die at any byte. *)
Init ==
  /\ sent \in {Append(ms, Stop) : ms \in BoundedSeq(Messages, MaxMessages)}
  /\ size \in Sizes
  /\ \E n \in 0..Len(Wire(sent)) : stream = SubSeq(Wire(sent), 1, n)
  /\ pending = Nil
  /\ out = <<>>
  /\ stopped = FALSE

(* Mutation: at most two parts. *)
SplitInTwo(s) ==
  LET i == SelectInSeq(s, LAMBDA b : b = Nul)
      parts == <<SubSeq(s, 1, i - 1), SubSeq(s, i + 1, Len(s))>>
  IN  IF i = 0 THEN <<s>> ELSE SelectSeq(parts, LAMBDA part : part # <<>>)

(* String#split: the parts between NULs, without the empty ones at the end.  *)
Split(s) ==
  LET ends == {i \in 1..Len(s) : s[i] = Nul} \union {Len(s) + 1}
      Place(i) == Cardinality({j \in ends : j <= i})
      End(n) == IF n = 0 THEN 0 ELSE CHOOSE i \in ends : Place(i) = n
      Part(n) == SubSeq(s, End(n - 1) + 1, End(n) - 1)
      full == {n \in 1..Cardinality(ends) : Part(n) # <<>>}
  IN  [n \in 1..Max(full \union {0}) |-> Part(n)]

(* "#{s}" of a string or nil. *)
Text(s) == IF s = Nil THEN <<>> ELSE s

(* Mutation: the pending message is put behind the others. *)
JoinPendingBehind(ms, last) ==
  IF pending = Nil THEN [messages |-> ms, last |-> last]
  ELSE IF ms = <<>> THEN [messages |-> ms, last |-> pending \o Text(last)]
  ELSE [messages |-> Tail(ms) \o Split(pending \o Head(ms)), last |-> last]

(* The pending message goes in front of the first part of the chunk, which   *)
(* is its last part if there is no other.                                    *)
JoinPending(ms, last) ==
  IF pending = Nil THEN [messages |-> ms, last |-> last]
  ELSE IF ms = <<>> THEN [messages |-> ms, last |-> pending \o Text(last)]
  ELSE [messages |-> Split(pending \o Head(ms)) \o Tail(ms), last |-> last]

(* One round of the loop: read(size) waits for size bytes or the end of the  *)
(* stream, the last part is complete only if the chunk ends with a NUL, and  *)
(* "stop" among the messages ends the loop.                                  *)
Receive ==
  LET chunk == SubSeq(stream, 1, Min({size, Len(stream)}))
      parts == Split(chunk)
      joined == JoinPending(IF parts = <<>> THEN <<>> ELSE Front(parts),
                            IF parts = <<>> THEN Nil ELSE Last(parts))
      complete == Last(chunk) = Nul
      messages == joined.messages \o (IF complete THEN <<joined.last>> ELSE <<>>)
      stop == SelectInSeq(messages, LAMBDA m : m = Stop)
  IN  /\ ~stopped /\ stream # <<>>
      /\ stream' = SubSeq(stream, Len(chunk) + 1, Len(stream))
      /\ pending' = IF complete THEN Nil ELSE joined.last
      /\ out' = out \o (IF stop = 0 THEN messages ELSE SubSeq(messages, 1, stop - 1))
      /\ stopped' = (stop # 0)
      /\ UNCHANGED <<sent, size>>

Next == Receive

Spec == Init /\ [][Next]_vars

------------------------------------------------------------------------------
(* Properties *)

TypeOK ==
  /\ size \in Sizes /\ stopped \in BOOLEAN
  /\ pending # Nil => pending # <<>> /\ ~Contains(pending, Nul)

(* Wherever the chunks end, what the reader hands on are the messages that   *)
(* were sent, whole and in their order, and never "stop".  No byte is        *)
(* dropped: what was handed on, the pending message and what is to come make *)
(* up the client's bytes, and a reader that stops has handed everything on.  *)
NoByteLost ==
  /\ ~stopped => IsPrefix(Wire(out) \o Text(pending) \o stream, Wire(sent))
  /\ ~stopped /\ stream = <<>> =>
       Len(out) < Len(sent) /\ Len(Text(pending)) <= Len(sent[Len(out) + 1])
  /\ stopped => out = Front(sent)

WholeInOrder == IsPrefix(out, Front(sent)) /\ NoByteLost
==============================================================================
