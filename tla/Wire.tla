--------------------------------- MODULE Wire ---------------------------------
(***************************************************************************)
(* The JSON array a trace is sent as: what ext/racer/worker.cc writes and  *)
(* how lib/racer/agent.rb shifts it off again.  An element of the array is *)
(* a token; how a token is spelled in JSON is left out.  Numbers tell the  *)
(* reader how many elements follow.                                        *)
(***************************************************************************)
EXTENDS Values

Number(n) == <<"number", n>>
Bool(b) == <<"bool", b>>
Str(x) == IF x = None THEN <<"null", None>> ELSE <<"string", x>>

(* The enums of traces.hh and the arrays of trace.rb they are indexes into.  *)
Kinds == <<"instance", "singleton">>
Visibilities == <<"public", "private", "protected">>
ConstantTypes == <<"module", "class">>
ParamKinds == <<"req", "opt", "rest", "keyreq", "key", "keyrest">>

Index(xs, x) == Number(SelectInSeq(xs, LAMBDA y : y = x) - 1)

(* A count, then what there is that many of. *)
WriteAll(xs, Write(_)) ==
  <<Number(Len(xs))>> \o FlattenSeq([i \in DOMAIN xs |-> Write(xs[i])])

------------------------------------------------------------------------------
(* worker.cc *)

WriteConstant(c) ==
  <<Str(c.name), Bool(c.anonymous), Index(ConstantTypes, c.type), Str(c.superclass)>>
    \o WriteAll(c.included, LAMBDA n : <<Str(n)>>)
    \o WriteAll(c.prepended, LAMBDA n : <<Str(n)>>)
    \o WriteAll(c.extended, LAMBDA n : <<Str(n)>>)

RECURSIVE WriteInstance(_)
WriteInstance(t) ==
  <<Str(t.name), Bool(t.singleton)>>
    \o WriteAll(t.generics, LAMBDA union : WriteAll(union, WriteInstance))

WriteParam(p) ==
  <<Str(p.name), Index(ParamKinds, p.param_type)>> \o WriteInstance(p.type)

RECURSIVE WriteParams(_)
WriteBlockTrace(b) ==
  WriteInstance(b.self) \o WriteInstance(b.return) \o WriteParams(b)

WriteParams(t) ==
  WriteAll(t.params, WriteParam)
    \o IF t.block = None THEN <<Bool(FALSE)>>
       ELSE <<Bool(TRUE), Str(t.block.name)>> \o WriteAll(t.block.traces, WriteBlockTrace)

WriteTrace(t) ==
  <<Str(t.name), Index(Kinds, t.kind), Index(Visibilities, t.visibility)>>
    \o WriteInstance(t.return) \o WriteInstance(t.owner)
    \o (IF t.callee = None THEN <<Str(None)>> ELSE WriteInstance(t.callee))
    \o WriteAll(t.updates, WriteConstant)
    \o WriteParams(t)

------------------------------------------------------------------------------
(* agent.rb: each Shift takes an array and gives what it has read and what   *)
(* is left of the array; Then goes on with both.                             *)

Read(value, rest) == [value |-> value, rest |-> rest]
Then(read, GoOn(_, _)) == GoOn(read.value, read.rest)

Shift(data) == Read(data[1][2], Tail(data))
ShiftFrom(xs, data) == Read(xs[data[1][2] + 1], Tail(data))

(* n = shift; n.times.map { shift } *)
ShiftAll(data, ShiftOne(_)) ==
  FoldLeft(LAMBDA read, i :
             Then(ShiftOne(read.rest), LAMBDA one, rest : Read(Append(read.value, one), rest)),
           Read(<<>>, Tail(data)), [i \in 1..data[1][2] |-> i])

RECURSIVE ShiftInstance(_)
ShiftInstance(data) ==
  Then(Shift(data), LAMBDA name, d1 :
  Then(Shift(d1), LAMBDA singleton, d2 :
  Then(ShiftAll(d2, LAMBDA d : ShiftAll(d, ShiftInstance)), LAMBDA generics, rest :
  Read([name |-> name, singleton |-> singleton, generics |-> generics], rest))))

ShiftConstantSwaps(data) ==   \* mutation: prepended and included are swapped
  Then(Shift(data), LAMBDA name, d1 :
  Then(Shift(d1), LAMBDA anonymous, d2 :
  Then(ShiftFrom(ConstantTypes, d2), LAMBDA type, d3 :
  Then(Shift(d3), LAMBDA superclass, d4 :
  Then(ShiftAll(d4, Shift), LAMBDA prepended, d5 :
  Then(ShiftAll(d5, Shift), LAMBDA included, d6 :
  Then(ShiftAll(d6, Shift), LAMBDA extended, rest :
  Read([name |-> name, anonymous |-> anonymous, type |-> type, superclass |-> superclass,
        included |-> included, prepended |-> prepended, extended |-> extended], rest))))))))

ShiftConstant(data) ==
  Then(Shift(data), LAMBDA name, d1 :
  Then(Shift(d1), LAMBDA anonymous, d2 :
  Then(ShiftFrom(ConstantTypes, d2), LAMBDA type, d3 :
  Then(Shift(d3), LAMBDA superclass, d4 :
  Then(ShiftAll(d4, Shift), LAMBDA included, d5 :
  Then(ShiftAll(d5, Shift), LAMBDA prepended, d6 :
  Then(ShiftAll(d6, Shift), LAMBDA extended, rest :
  Read([name |-> name, anonymous |-> anonymous, type |-> type, superclass |-> superclass,
        included |-> included, prepended |-> prepended, extended |-> extended], rest))))))))

ShiftParam(data) ==
  Then(Shift(data), LAMBDA name, d1 :
  Then(ShiftFrom(ParamKinds, d1), LAMBDA kind, d2 :
  Then(ShiftInstance(d2), LAMBDA type, rest :
  Read([name |-> name, param_type |-> kind, type |-> type], rest))))

RECURSIVE ShiftParams(_)
ShiftBlockTrace(data) ==
  Then(ShiftInstance(data), LAMBDA self, d1 :
  Then(ShiftInstance(d1), LAMBDA return, d2 :
  Then(ShiftParams(d2), LAMBDA ps, rest :
  Read([self |-> self, return |-> return, params |-> ps.params, block |-> ps.block], rest))))

ShiftBlock(data) ==
  Then(Shift(data), LAMBDA name, d1 :
  Then(ShiftAll(d1, ShiftBlockTrace), LAMBDA traces, rest :
  Read([name |-> name, traces |-> traces], rest)))

ShiftParams(data) ==
  Then(ShiftAll(data, ShiftParam), LAMBDA params, d1 :
  Then(Shift(d1), LAMBDA present, d2 :
  Then(IF present THEN ShiftBlock(d2) ELSE Read(None, d2), LAMBDA block, rest :
  Read([params |-> params, block |-> block], rest))))

(* data.first tells whether there is a callee. *)
ShiftCallee(data) == IF data[1][2] = None THEN Shift(data) ELSE ShiftInstance(data)

ShiftTrace(data) ==
  Then(Shift(data), LAMBDA name, d1 :
  Then(ShiftFrom(Kinds, d1), LAMBDA kind, d2 :
  Then(ShiftFrom(Visibilities, d2), LAMBDA visibility, d3 :
  Then(ShiftInstance(d3), LAMBDA return, d4 :
  Then(ShiftInstance(d4), LAMBDA owner, d5 :
  Then(ShiftCallee(d5), LAMBDA callee, d6 :
  Then(ShiftAll(d6, ShiftConstant), LAMBDA updates, d7 :
  Then(ShiftParams(d7), LAMBDA ps, rest :
  Read([name |-> name, kind |-> kind, visibility |-> visibility, return |-> return,
        owner |-> owner, callee |-> callee, updates |-> updates,
        params |-> ps.params, block |-> ps.block], rest)))))))))
==============================================================================
