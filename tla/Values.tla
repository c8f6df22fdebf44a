-------------------------------- MODULE Values --------------------------------
(***************************************************************************)
(* What a trace says of the values in a method call: the part of           *)
(* ext/racer/racer.cc that turns Ruby values into ConstantInstances and a  *)
(* method's parameters into those of its trace.                            *)
(*                                                                         *)
(* A value is [class, self, items, pairs]: self is what a class or module  *)
(* object is, items what an array holds, pairs what a hash holds.          *)
(***************************************************************************)
EXTENDS Naturals, SequencesExt

CONSTANTS
  Array, Hash, Class, Module,   \* Ruby's classes of that name
  AnonRest, AnonKeyrest, AnonBlock,   \* the names "*", "**" and "&"
  None,                         \* nil
  MaxGenericDepth               \* maxGenericDepth

(* rb_obj_class of the value; a class or module stands for itself.           *)
Plain(class) == [name |-> class, singleton |-> FALSE, generics |-> <<>>]
IsPlain(type) == type.generics = <<>> /\ ~type.singleton

RECURSIVE ValueToInstance(_, _), UnionByClass(_, _), UnionOf(_, _)

(* The types of a collection's members, in order.  Only plain ones are       *)
(* merged; they are told apart by class.                                     *)
UnionByClass(values, depth) ==   \* mutation: all are merged by class
  LET Add(union, v) ==
        IF \E w \in Range(union.values) : w.class = v.class THEN union
        ELSE [types |-> Append(union.types, ValueToInstance(v, depth)),
              values |-> Append(union.values, v)]
  IN  FoldLeft(Add, [types |-> <<>>, values |-> <<>>], values).types

UnionOf(values, depth) ==
  LET Add(types, v) ==
        LET type == ValueToInstance(v, depth)
        IN  IF IsPlain(type) /\ Contains(types, type) THEN types ELSE Append(types, type)
  IN  FoldLeft(Add, <<>>, values)

GenericArguments(v, depth) ==
  IF depth = MaxGenericDepth THEN <<>>
  ELSE IF v.class = Array /\ v.items # <<>> THEN <<UnionOf(v.items, depth + 1)>>
  ELSE IF v.class = Hash /\ v.pairs # <<>>
    THEN <<UnionOf([i \in DOMAIN v.pairs |-> v.pairs[i][1]], depth + 1),
           UnionOf([i \in DOMAIN v.pairs |-> v.pairs[i][2]], depth + 1)>>
  ELSE <<>>

ValueToInstance(v, depth) ==
  IF v.class \in {Class, Module}
    THEN [name |-> v.self, singleton |-> TRUE, generics |-> <<>>]
    ELSE [name |-> v.class, singleton |-> FALSE, generics |-> GenericArguments(v, depth)]

TypeOf(v) == ValueToInstance(v, 0)

------------------------------------------------------------------------------
(* assign_parameters: a parameter is [kind, name, value].  Those without a   *)
(* name are destructured arrays if they are required and dropped otherwise   *)
(* (nokey: **nil); anonymous ones have no local variable to read.            *)
ParamTypes == <<"req", "opt", "rest", "keyreq", "key", "keyrest">>

Traced(p) == p.kind # "block" /\ Contains(ParamTypes, p.kind)
               /\ (p.name = None => p.kind = "req")

ParameterOf(p) ==
  [name |-> p.name,
   param_type |-> p.kind,
   type |-> IF p.name \in {None, AnonRest} THEN Plain(Array)
            ELSE IF p.name = AnonKeyrest THEN Plain(Hash)
            ELSE TypeOf(p.value)]

(* The block parameter, with the recorded calls of the block: a named &block *)
(* or &, or a block that was given to a method without either.               *)
RECURSIVE BlockParamOf(_)
ParametersOf(call) ==
  LET traced == SelectSeq(call.params, Traced)
  IN  [i \in DOMAIN traced |-> ParameterOf(traced[i])]

BlockTraceOf(call) ==
  [self |-> TypeOf(call.self), return |-> TypeOf(call.return),
   params |-> ParametersOf(call), block |-> BlockParamOf(call)]

BlockParamOf(call) ==
  LET named == SelectSeq(call.params, LAMBDA p : p.kind = "block")
      name == IF named = <<>> \/ named[1].name = AnonBlock THEN None ELSE named[1].name
      calls == [i \in DOMAIN call.blockCalls |-> BlockTraceOf(call.blockCalls[i])]
  IN  IF named = <<>> /\ ~call.blockGiven THEN None
      ELSE [name |-> name, traces |-> IF name = None THEN <<>> ELSE calls]

(* process_call_event: a method that another class or module defines is also *)
(* filed under the class of the receiver (or the receiver, if it is a class  *)
(* or module itself), unless that one defines a method of the name, too.     *)
KindOf(call) == IF call.self.class \in {Class, Module} THEN "singleton" ELSE "instance"
SelfOf(call) == IF KindOf(call) = "singleton" THEN call.self.self ELSE call.self.class

CalleeOf(call) ==
  IF SelfOf(call) = call.owner \/ call.overridden THEN None ELSE Plain(SelfOf(call))

(* What process_call_event and process_return_event put into a trace. *)
TraceOf(call) ==
  [name |-> call.name, kind |-> KindOf(call), visibility |-> call.visibility,
   return |-> TypeOf(call.return), owner |-> Plain(call.owner), callee |-> CalleeOf(call),
   updates |-> call.updates,
   params |-> ParametersOf(call), block |-> BlockParamOf(call)]

------------------------------------------------------------------------------
(* What a type means: the values it admits. *)
RECURSIVE Admits(_, _)
Members(v) ==
  IF v.class = Array THEN <<Range(v.items)>>
  ELSE IF v.class = Hash
    THEN <<{v.pairs[i][1] : i \in DOMAIN v.pairs}, {v.pairs[i][2] : i \in DOMAIN v.pairs}>>
  ELSE <<>>

Admits(type, v) ==
  IF type.singleton THEN v.class \in {Class, Module} /\ v.self = type.name
  ELSE /\ v.class = type.name
       /\ \A i \in DOMAIN type.generics :
            \A x \in Members(v)[i] :
              \E member \in Range(type.generics[i]) : Admits(member, x)

(* No more than was seen: each member of a union admits one of the values,   *)
(* and no plain class is in it twice.                                        *)
RECURSIVE Exact(_, _)
Exact(type, v) ==
  \A i \in DOMAIN type.generics :
    LET union == type.generics[i]
    IN  /\ \A j \in DOMAIN union :
             \E x \in Members(v)[i] : Admits(union[j], x) /\ Exact(union[j], x)
        /\ \A j, k \in DOMAIN union : j # k /\ union[j] = union[k] => ~IsPlain(union[j])
==============================================================================
