---------------------------- MODULE MCTraceStream ----------------------------
(* Calls of a few methods, and what they send.                               *)
EXTENDS TraceStream

CONSTANTS Integer, String, Foo, Bar, M, foo, bar, a, b, blk, stopText

Value(class) == [class |-> class, self |-> None, items |-> <<>>, pairs |-> <<>>]
Ary(items) == [Value(Array) EXCEPT !.items = items]
Hsh(pairs) == [Value(Hash) EXCEPT !.pairs = pairs]
Obj(class, x) == [Value(class) EXCEPT !.self = x]
Param(kind, name, v) == [kind |-> kind, name |-> name, value |-> v]

one == Value(Integer)
str == Value(String)
yes == Value(TrueClass)
no == Value(FalseClass)
ints == Ary(<<one, one>>)
strs == Ary(<<str>>)

Plainest ==
  [name |-> foo, self |-> Value(Foo), owner |-> Foo, overridden |-> FALSE,
   visibility |-> "public", return |-> one, updates |-> <<>>, params |-> <<>>,
   blockGiven |-> FALSE, blockCalls |-> <<>>]

Constant(name, superclass, modules) ==
  [name |-> name, anonymous |-> FALSE, type |-> "class", superclass |-> superclass,
   included |-> modules, prepended |-> <<>>, extended |-> modules]

BlockCallOf(params) ==
  [self |-> Value(Foo), return |-> ints, params |-> params,
   blockGiven |-> FALSE, blockCalls |-> <<>>]

NotGiven == [Plainest EXCEPT !.name = bar, !.params = <<Param("block", blk, None)>>]

MCCalls ==
  <<Plainest,
    [Plainest EXCEPT !.return = ints],
    [Plainest EXCEPT !.return = Obj(Class, Array)],
    \* def foo(a, *) of module M, called on class Foo that extends it, with constants
    [Plainest EXCEPT !.self = Obj(Class, Foo), !.owner = M, !.visibility = "private",
       !.return = yes,
       !.updates = <<Constant(Foo, None, <<M, M>>), Constant(Bar, Foo, <<>>)>>,
       !.params = <<Param("req", a, strs), Param("rest", AnonRest, ints)>>],
    \* unions, nesting deeper than MaxGenericDepth, and empty collections
    [Plainest EXCEPT
       !.return = Ary(<<ints, strs, Ary(<<>>), one, no, yes, Ary(<<>>), Obj(Module, M)>>),
       !.params = <<Param("opt", a, Hsh(<< <<one, ints>>, <<one, Ary(<<ints, strs>>)>> >>)),
                    Param("nokey", None, None)>>],
    \* def foo(a = one, b)
    [Plainest EXCEPT !.params = <<Param("opt", a, one), Param("req", b, str)>>],
    \* def foo(*a, (x, y), **); given a block
    [Plainest EXCEPT !.blockGiven = TRUE,
       !.params = <<Param("rest", a, Ary(<<one, str>>)), Param("req", None, ints),
                    Param("keyrest", AnonKeyrest, Hsh(<< <<b, one>> >>))>>],
    \* def bar(a:, b: one, &blk), whose block takes a block in turn
    [Plainest EXCEPT !.name = bar, !.blockGiven = TRUE,
       !.params = <<Param("keyreq", a, Obj(Class, Foo)), Param("key", b, one),
                    Param("block", blk, None)>>,
       !.blockCalls = <<[BlockCallOf(<<Param("opt", b, strs), Param("block", blk, None)>>)
                           EXCEPT !.blockCalls = <<BlockCallOf(<<>>)>>]>>],
    \* def bar(&blk) without a block, with one, and with one that returns something else
    NotGiven,
    [NotGiven EXCEPT !.blockGiven = TRUE, !.blockCalls = <<BlockCallOf(<<>>)>>],
    [NotGiven EXCEPT !.blockGiven = TRUE,
       !.blockCalls = <<[BlockCallOf(<<>>) EXCEPT !.return = no]>>]>>

MCMessages == Range(Written)
MCStop == <<stopText>>
==============================================================================
