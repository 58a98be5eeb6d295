------------------------------ MODULE MCDebra -------------------------------
(***************************************************************************)
(* A small instance of Debra: a ring in which a bag is freed after three   *)
(* turns, the fewest that are safe, and one record, linked by an operation.*)
(***************************************************************************)
EXTENDS Debra

CONSTANT r1
=============================================================================
