----------------------------- MODULE MCTinyQueue -----------------------------
(* Small instances of TinyQueue: the threads, messages and nodes are model   *)
(* values, given in the .cfg files.                                          *)
EXTENDS TinyQueue, TLC

(* Producers, consumers, messages and nodes are interchangeable. *)
Symmetry ==
  Permutations(Producers) \union Permutations(Consumers)
    \union Permutations(Messages) \union Permutations(Nodes)
==============================================================================
