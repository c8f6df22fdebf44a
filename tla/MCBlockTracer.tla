---------------------------- MODULE MCBlockTracer ----------------------------
(* Small instances of BlockTracer: a block with another one inside it. *)
EXTENDS BlockTracer, TLC

CONSTANTS b, c

MCInner == (b :> {c}) @@ (c :> {})
MCWithin == (b :> {b, c}) @@ (c :> {c})

Symmetry == Permutations(Fibers)
==============================================================================
