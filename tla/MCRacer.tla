------------------------------- MODULE MCRacer -------------------------------
(* Small instances of Racer. *)
EXTENDS Racer

MCConns == Procs \X (1..MaxConns)

(* The bound on traces. *)
MCOneEach == [p \in Procs |-> 1]
MCThreeEach == [p \in Procs |-> 3]
MCLeaderOne == [p \in Procs |-> IF p = Leader THEN 1 ELSE 0]
==============================================================================
