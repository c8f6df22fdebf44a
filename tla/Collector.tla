------------------------------- MODULE Collector -------------------------------
(***************************************************************************)
(* From traces to signatures: how lib/racer/collectors/rbs_collector.rb    *)
(* files the traces under methods, leaves duplicates out, groups them into *)
(* overloads and makes RBS types of their types.                           *)
(*                                                                         *)
(* Left out are the methods that have a signature already or a name RBS    *)
(* cannot spell, and that initialize returns void.  Of the classes that    *)
(* have signatures with type parameters the model has Array and Hash.      *)
(***************************************************************************)
EXTENDS Values

CONSTANTS TrueClass, FalseClass   \* Ruby's classes of that name

TypeParams(class) == IF class = Array THEN 1 ELSE IF class = Hash THEN 2 ELSE 0

------------------------------------------------------------------------------
(* to_rbs_type: the RBS type of some types. *)
Untyped == [kind |-> "any"]
BoolType == [kind |-> "bool"]

Unique(xs) ==
  FoldLeft(LAMBDA ys, x : IF Contains(ys, x) THEN ys ELSE Append(ys, x), <<>>, xs)

IsBool(type) == type.name \in {TrueClass, FalseClass}
BoolInstance == [Plain(None) EXCEPT !.name = "bool"]

MergeBools(types) ==
  IF \E i \in DOMAIN types : IsBool(types[i])
    THEN Append(SelectSeq(types, LAMBDA t : ~IsBool(t)), BoolInstance)
    ELSE types

RECURSIVE DropBare(_, _), ToRbs(_), RbsClass(_)

(* A type with arguments removes those of its name without, while the loop   *)
(* goes on over what is left.                                                *)
DropBare(types, i) ==
  IF i > Len(types) THEN types
  ELSE IF types[i].generics = <<>> THEN DropBare(types, i + 1)
  ELSE DropBare(SelectSeq(types, LAMBDA t : t.name # types[i].name \/ t.generics # <<>>), i + 1)

RbsClass(type) ==
  IF type = BoolInstance THEN BoolType
  ELSE IF type.singleton THEN [kind |-> "singleton", name |-> type.name]
  ELSE [kind |-> "class", name |-> type.name,
        args |-> [n \in 1..TypeParams(type.name) |->
                    IF Len(type.generics) = TypeParams(type.name)
                      THEN ToRbs(type.generics[n]) ELSE Untyped]]

ToRbs(types) ==
  LET merged == MergeBools(Unique(types))
      left == DropBare(merged, 1)
  IN  IF Len(merged) > 1
        THEN [kind |-> "union", of |-> [i \in DOMAIN left |-> ToRbs(<<left[i]>>)]]
        ELSE RbsClass(merged[1])

------------------------------------------------------------------------------
(* method_parameters: the parameters of a function, of one list of traced    *)
(* parameters or of several of the same length.                              *)
NoParameters ==
  [required |-> <<>>, optional |-> <<>>, rest |-> None, trailing |-> <<>>,
   requiredKeys |-> {}, optionalKeys |-> {}, restKeys |-> None]

MethodParameters(sets) ==
  LET params == sets[1]
      Type(n) == ToRbs([s \in DOMAIN sets |-> sets[s][n].type])
      Select(Want(_)) ==
        LET ns == SelectSeq([n \in DOMAIN params |-> n], Want)
        IN  [i \in DOMAIN ns |-> Type(ns[i])]
      Kind(n) == params[n].param_type
      AfterRest(n) == \E m \in 1..(n - 1) : Kind(m) = "rest"
      Keys(kind) == {<<params[n].name, Type(n)>> : n \in {m \in DOMAIN params : Kind(m) = kind}}
      Collects(kind, count, arg) ==
        IF \E n \in DOMAIN params : Kind(n) = kind
          THEN LET generics == params[CHOOSE n \in DOMAIN params : Kind(n) = kind].type.generics
               IN  IF Len(generics) = count THEN ToRbs(generics[arg]) ELSE Untyped
          ELSE None
  IN  IF \E s \in DOMAIN sets : Len(sets[s]) # Len(params) THEN NoParameters
      ELSE [required |-> Select(LAMBDA n : Kind(n) = "req" /\ ~AfterRest(n)),
            optional |-> Select(LAMBDA n : Kind(n) = "opt"),
            rest |-> Collects("rest", 1, 1),
            trailing |-> Select(LAMBDA n : Kind(n) = "req" /\ AfterRest(n)),
            requiredKeys |-> Keys("keyreq"),
            optionalKeys |-> Keys("key"),
            restKeys |-> Collects("keyrest", 2, 2)]

(* to_block, of the block parameters of one overload. *)
ToBlock(blocks) ==
  LET traces == FlattenSeq([i \in DOMAIN blocks |-> blocks[i].traces])
      Types(Of(_)) == ToRbs([i \in DOMAIN traces |-> Of(traces[i])])
  IN  IF traces = <<>> THEN [required |-> FALSE, typed |-> FALSE]
      ELSE [required |-> TRUE, typed |-> TRUE,
            params |-> MethodParameters([i \in DOMAIN traces |-> traces[i].params]),
            return |-> Types(LAMBDA t : t.return),
            self |-> Types(LAMBDA t : t.self)]

------------------------------------------------------------------------------
(* collect and to_method_definition *)
MethodOf(trace) ==
  <<IF trace.callee # None THEN trace.callee.name ELSE trace.owner.name, trace.kind, trace.name>>

SameParams(s, t) == s.params = t.params   \* mutation: only the parameters are compared

Same(s, t) == s.params = t.params /\ s.return = t.return /\ s.block = t.block

Collect(traces, t) == IF \E s \in Range(traces) : Same(s, t) THEN traces ELSE Append(traces, t)

Collected(method, traces) ==
  FoldLeft(Collect, <<>>, SelectSeq(traces, LAMBDA t : MethodOf(t) = method))

OverloadKey(t) ==
  [params |-> t.params,
   block |-> IF t.block = None THEN None
             ELSE IF t.block.traces = <<>> THEN <<>>
             ELSE LET ps == t.block.traces[1].params
                  IN  [i \in DOMAIN ps |-> <<ps[i].name, ps[i].param_type>>]]

OverloadOf(traces) ==
  LET blocks == SelectSeq([i \in DOMAIN traces |-> traces[i].block], LAMBDA b : b # None)
  IN  [params |-> MethodParameters(<<traces[1].params>>),
       return |-> ToRbs([i \in DOMAIN traces |-> traces[i].return]),
       block |-> IF blocks = <<>> THEN None ELSE ToBlock(blocks)]

Overloads(traces) ==
  {OverloadOf(SelectSeq(traces, LAMBDA t : OverloadKey(t) = key)) :
     key \in {OverloadKey(t) : t \in Range(traces)}}

Signature(method, traces) == Overloads(Collected(method, traces))

------------------------------------------------------------------------------
(* What a signature means: the calls it accepts. *)
RECURSIVE Has(_, _)
Has(type, v) ==
  CASE type.kind = "any" -> TRUE
    [] type.kind = "bool" -> v.class \in {TrueClass, FalseClass}
    [] type.kind = "union" -> \E i \in DOMAIN type.of : Has(type.of[i], v)
    [] type.kind = "singleton" -> v.class \in {Class, Module} /\ v.self = type.name
    [] type.kind = "class" ->
         /\ v.class = type.name
         /\ \A n \in DOMAIN type.args : \A x \in Members(v)[n] : Has(type.args[n], x)

(* Arguments fill the required parameters from the front and the trailing    *)
(* ones from the back, then the optional ones, and the rest takes the rest.  *)
TakesPositionals(ps, args) ==
  LET last == Len(args) - Len(ps.trailing)
      given == last - Len(ps.required)
  IN  /\ given >= 0
      /\ \A i \in DOMAIN ps.required : Has(ps.required[i], args[i])
      /\ \A i \in DOMAIN ps.trailing : Has(ps.trailing[i], args[last + i])
      /\ \A i \in 1..given :
           LET arg == args[Len(ps.required) + i]
           IN  IF i <= Len(ps.optional) THEN Has(ps.optional[i], arg)
               ELSE ps.rest # None /\ Has(ps.rest, arg)

TakesKeys(ps, keys) ==
  LET all == ps.requiredKeys \union ps.optionalKeys
  IN  /\ \A k \in ps.requiredKeys : \E arg \in keys : arg[1] = k[1]
      /\ \A arg \in keys :
           IF \E k \in all : k[1] = arg[1]
             THEN \E k \in all : k[1] = arg[1] /\ Has(k[2], arg[2])
             ELSE ps.restKeys # None /\ Has(ps.restKeys, arg[2])

(* The arguments of a call, as its parameters got them. *)
Positionals(params) ==
  FlattenSeq([i \in DOMAIN params |->
    IF params[i].kind \in {"req", "opt"} THEN <<params[i].value>>
    ELSE IF params[i].kind = "rest" THEN params[i].value.items
    ELSE <<>>])

Keywords(params) ==
  {<<p.name, p.value>> : p \in {q \in Range(params) : q.kind \in {"keyreq", "key"}}}
    \union UNION {Range(p.value.pairs) : p \in {q \in Range(params) : q.kind = "keyrest"}}

Takes(ps, params) ==
  TakesPositionals(ps, Positionals(params)) /\ TakesKeys(ps, Keywords(params))

(* Blocks in RBS cannot take blocks, so of a block call only the rest counts.*)
AcceptsBlock(block, call) ==
  IF block = None THEN ~call.blockGiven
  ELSE /\ block.required => call.blockGiven
       /\ block.typed => \A i \in DOMAIN call.blockCalls :
            LET c == call.blockCalls[i]
            IN  Takes(block.params, c.params) /\ Has(block.return, c.return) /\ Has(block.self, c.self)

Accepts(overload, call) ==
  /\ Takes(overload.params, call.params)
  /\ Has(overload.return, call.return)
  /\ AcceptsBlock(overload.block, call)
==============================================================================
