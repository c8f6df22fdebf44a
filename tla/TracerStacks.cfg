\* Two fibers; a method and its super method have the same name; sessions with
\* and without a path regex that leaves the method of the gem out.  The model
\* ends when freed memory is touched.
CONSTANTS
  Fibers = {f1, f2}
  Methods <- SuperMethods
  Paths = {app, gem}
  Owners = {A, B}
  Matchers <- AppOnly
  MaxCalls = 3
  NoMatcher = NoMatcher
  Unknown = Unknown
  NoHook = NoHook
  foo = foo
  bar = bar
  A = A
  B = B
  app = app
  gem = gem
SPECIFICATION Spec
CHECK_DEADLOCK FALSE
SYMMETRY Symmetry
INVARIANTS TypeOK CacheIsFresh StacksMirrorFrames StopLeavesCutCalls
PROPERTIES ReturnsArePaired
