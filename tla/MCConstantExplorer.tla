-------------------------- MODULE MCConstantExplorer --------------------------
(* A small program, in which M, X, P and what belongs to Ruby are declared:  *)
(*   module M; end                                                           *)
(*   module P; end                              # declared with a self type  *)
(*   module A; include P, Q; extend E; end                                   *)
(*   module A::Gone::Q; include X; prepend A::E; end  # A::Gone is no more   *)
(*   module A::E; end                                                        *)
(*   module A::N; include M; end                                             *)
(*   module X; include A::N; extend A::E; end                                *)
(*   class A::C; include X, A::E; extend A::N; prepend P; end                *)
(*   class Z < A::C; end                        # in an anonymous class      *)
(*   class Object; include A::N; end                                         *)
(* Looking A up for A::N and Gone up for A::Gone::Q runs Ruby code.          *)
EXTENDS Declarations, TLC

CONSTANTS M, N, A, E, X, P, C, Z, Q

MCConstants == {M, N, A, E, X, P, C, Z, Q, Object, Kernel}
MCClasses == {C, Z, Object}

OfObject == <<Object, N, M, Kernel>>

MCAncestors ==
  (M :> <<M>>) @@ (N :> <<N, M>>) @@ (A :> <<A, P, E, Q, X, N, M>>) @@ (E :> <<E>>) @@ (P :> <<P>>)
    @@ (Q :> <<E, Q, X, N, M>>) @@ (X :> <<X, N, M>>)
    @@ (C :> <<P, C, X, N, M, E>> \o OfObject)
    @@ (Z :> <<Z, P, C, X, N, M, E>> \o OfObject)
    @@ (Object :> OfObject) @@ (Kernel :> <<Kernel>>)

MCExtenders ==
  (A :> <<E>>) @@ (X :> <<E>>) @@ (C :> <<N, M>>) @@ (Z :> <<N, M>>)
    @@ [k \in MCConstants |-> <<>>]

Space(k, ruby) == [finds |-> k, ruby |-> ruby]

MCPath ==
  (E :> <<Space(A, FALSE)>>) @@ (C :> <<Space(A, FALSE)>>) @@ (N :> <<Space(A, TRUE)>>)
    @@ (Z :> <<Space(Missing, FALSE)>>)
    @@ (Q :> <<Space(A, FALSE), Space(Missing, TRUE)>>)
    @@ [k \in MCConstants |-> <<>>]

MCSigned == {M, X, P, Object, Kernel}
MCSelfTyped == {P}
MCSignedMixins ==
  [k \in MCSigned |-> [role \in ModuleRoles |->
     IF k = X /\ role = "extended" THEN {E}
     ELSE IF k = Object /\ role = "included" THEN {Kernel}
     ELSE {}]]

Symmetry == Permutations(Fibers)
==============================================================================
