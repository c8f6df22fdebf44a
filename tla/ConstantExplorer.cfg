\* Two fibers mention constants of a small program in any order, and explore
\* them at the same time where a lookup runs Ruby code.
CONSTANTS
  M = M
  N = N
  A = A
  E = E
  X = X
  P = P
  C = C
  Z = Z
  Q = Q
  Object = Object
  Kernel = Kernel
  Missing = Missing
  None = None
  Fibers = {f1, f2}
  Constants <- MCConstants
  Classes <- MCClasses
  Ancestors <- MCAncestors
  Extenders <- MCExtenders
  Path <- MCPath
  Signed <- MCSigned
  SelfTyped <- MCSelfTyped
  SignedMixins <- MCSignedMixins
  MaxTraces = 3
SPECIFICATION Spec
SYMMETRY Symmetry
INVARIANTS TypeOK ConstantsAccounted AnnouncedInTime NamesResolve MixinsComplete StopFinishes SelfTypesFit
