------------------------------ MODULE MCLogger ------------------------------
(***************************************************************************)
(* Three threads that log; they are interchangeable.                       *)
(***************************************************************************)
EXTENDS Logger, TLC

Symmetry == Permutations(Threads)
=============================================================================
