\* One fiber and two calls: a method that calls itself from its rescue clause.
CONSTANTS
  Fibers = {f1}
  Methods <- OneMethod
  Paths = {app, gem}
  Owners = {A, B}
  Matchers <- NoMatchers
  MaxCalls = 2
  NoMatcher = NoMatcher
  Unknown = Unknown
  NoHook = NoHook
  foo = foo
  bar = bar
  A = A
  B = B
  app = app
  gem = gem
SPECIFICATION Spec
CHECK_DEADLOCK FALSE
INVARIANTS Paired
