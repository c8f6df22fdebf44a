\* Up to two traces and "stop", cut off anywhere, read in chunks of one size.
CONSTANTS
  Nul = Nul
  Nil = Nil
  None = None
  stopText = stopText
  Array = Array
  Hash = Hash
  Class = Class
  Module = Module
  AnonRest = AnonRest
  AnonKeyrest = AnonKeyrest
  AnonBlock = AnonBlock
  Integer = Integer
  String = String
  Foo = Foo
  Bar = Bar
  M = M
  foo = foo
  bar = bar
  TrueClass = TrueClass
  FalseClass = FalseClass
  a = a
  b = b
  blk = blk
  MaxGenericDepth = 2
  Calls <- MCCalls
  Messages <- MCMessages
  Stop <- MCStop
  Sizes = {3, 7, 20}
  MaxMessages = 2
SPECIFICATION Spec
CHECK_DEADLOCK FALSE
INVARIANTS TypeOK WholeInOrder TracesArrive TypesDescribeValues EveryCallIsAccepted
