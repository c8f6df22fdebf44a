------------------------------ MODULE MCTracer ------------------------------
(* Small instances of Tracer. *)
EXTENDS Tracer, TLC

CONSTANTS foo, bar, A, B, app, gem

(* foo and its super method, which has the same name but comes from a gem,   *)
(* and another method.                                                       *)
SuperMethods == {[name |-> foo, owner |-> A, path |-> app],
                 [name |-> foo, owner |-> B, path |-> gem],
                 [name |-> bar, owner |-> A, path |-> app]}

(* One method, traced without a path regex. *)
OneMethod == {[name |-> foo, owner |-> A, path |-> app]}

AppOnly == {{app}}
NoMatchers == {}

Symmetry == Permutations(Fibers)
==============================================================================
