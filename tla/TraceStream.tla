------------------------------ MODULE TraceStream ------------------------------
(***************************************************************************)
(* From a method call to the Racer::Trace the collectors get: the values   *)
(* become types (Values), the trace an array (Wire), the arrays are cut    *)
(* out of the connection's chunks (Framing), and the collector makes       *)
(* signatures of the traces (Collector).  The bytes of Framing are the     *)
(* elements of the arrays here: a chunk may end anywhere between them.     *)
(***************************************************************************)
EXTENDS Framing, Wire, Collector

CONSTANT Calls   \* a sequence of method calls

(* Messages is {WriteTrace(Traces[i]) : i \in DOMAIN Traces}. *)
Traces == [i \in DOMAIN Calls |-> TraceOf(Calls[i])]
Written == [i \in DOMAIN Calls |-> WriteTrace(Traces[i])]

(* The call that message i of the client is about. *)
Sent(i) == CHOOSE n \in DOMAIN Calls : Written[n] = sent[i]

------------------------------------------------------------------------------
(* Properties *)

(* The agent gets the trace that was recorded, whatever unions, generics,    *)
(* constants and block calls it holds, and no element is left over: the two  *)
(* sides agree on the order and the counts.                                  *)
TracesArrive ==
  \A i \in DOMAIN out : ShiftTrace(out[i]) = [value |-> Traces[Sent(i)], rest |-> <<>>]

(* The types that arrive admit the values of the call, and claim no more     *)
(* than was seen.  (Not so for a destructured parameter: it is called an     *)
(* Array, whatever was passed.)                                              *)
Describes(type, v) == Admits(type, v) /\ Exact(type, v)

DescribesParams(trace, call) ==
  \A j \in DOMAIN trace.params :
    trace.params[j].name # None =>
      \E p \in Range(call.params) :
        p.name = trace.params[j].name /\ Describes(trace.params[j].type, p.value)

DescribesCall(trace, call) ==
  /\ Describes(trace.return, call.return)
  /\ DescribesParams(trace, call)
  /\ trace.block # None =>
       \A j \in DOMAIN trace.block.traces :
         /\ Describes(trace.block.traces[j].return, call.blockCalls[j].return)
         /\ DescribesParams(trace.block.traces[j], call.blockCalls[j])

TypesDescribeValues ==
  \A i \in DOMAIN out : DescribesCall(ShiftTrace(out[i]).value, Calls[Sent(i)])

(* Whatever calls were collected, in whatever order: the signature of a      *)
(* method has an overload that accepts each of them.  It fails for           *)
(* - a required parameter behind an optional one, which is put in front;     *)
(* - a call without a block of a method that is also called with one which   *)
(*   takes no arguments: their overload demands a block;                     *)
(* - a class with type parameters used as a value: an instance that has      *)
(*   arguments removes it from the union, as if it were one without.         *)
RequiredBehindOptional(params) ==
  \E i, j \in DOMAIN params : /\ i < j /\ params[i].kind = "opt" /\ params[j].kind = "req"
                             /\ \A k \in i..j : params[k].kind # "rest"

Excused(call) ==
  \/ RequiredBehindOptional(call.params)
  \/ ~call.blockGiven /\ \E p \in Range(call.params) : p.kind = "block"
  \/ call.return.class = Class /\ call.return.self \in {Array, Hash}

Accepted(i, traces) ==
  \E o \in Signature(MethodOf(traces[i]), traces) : Accepts(o, Calls[Sent(i)])

EveryCallIsAccepted ==
  \A i \in DOMAIN out :
    \/ Excused(Calls[Sent(i)])
    \/ Accepted(i, [j \in DOMAIN out |-> ShiftTrace(out[j]).value])
==============================================================================
