------------------------------ MODULE FifoQueue ------------------------------
(***************************************************************************)
(* What the traced program and the worker thread rely on when they use the *)
(* queue between them (ext/racer/tiny_queue.hh): a message that is put is  *)
(* taken at most once, by one consumer, in the order of the puts.          *)
(* TinyQueue is shown to implement this module.                            *)
(***************************************************************************)
EXTENDS Sequences

CONSTANTS
  Messages,    \* the messages that are ever pushed
  Consumers,   \* the threads that pop
  NoMsg        \* "no message", not a member of Messages

VARIABLES
  fresh,       \* messages that have not been put yet
  queue,       \* messages put and not yet taken, oldest first
  hand         \* hand[c]: the message that consumer c took last

fifoVars == <<fresh, queue, hand>>

Init ==
  /\ fresh = Messages
  /\ queue = <<>>
  /\ hand = [c \in Consumers |-> NoMsg]

(* A put appends; it may also fail (no memory), and then the message is lost. *)
Put(m) ==
  /\ m \in fresh
  /\ fresh' = fresh \ {m}
  /\ queue' = Append(queue, m)
  /\ UNCHANGED hand

Lose(m) ==
  /\ m \in fresh
  /\ fresh' = fresh \ {m}
  /\ UNCHANGED <<queue, hand>>

Take(c) ==
  /\ queue # <<>>
  /\ hand[c] = NoMsg
  /\ hand' = [hand EXCEPT ![c] = Head(queue)]
  /\ queue' = Tail(queue)
  /\ UNCHANGED fresh

(* The consumer has dealt with its message and comes back for the next. *)
Release(c) ==
  /\ hand[c] # NoMsg
  /\ hand' = [hand EXCEPT ![c] = NoMsg]
  /\ UNCHANGED <<fresh, queue>>

Destroy ==
  /\ queue' = <<>>
  /\ UNCHANGED <<fresh, hand>>

Next ==
  \/ \E m \in Messages : Put(m) \/ Lose(m)
  \/ \E c \in Consumers : Take(c) \/ Release(c)
  \/ Destroy

Spec == Init /\ [][Next]_fifoVars
==============================================================================
