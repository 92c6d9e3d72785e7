----------------------------- MODULE MCMachines -----------------------------
(***************************************************************************)
(* Instances of Machines for TLC.                                          *)
(***************************************************************************)
EXTENDS Machines

CONSTANTS m1, m2, m3, f

\* The workload moves twice.
TwoMoves == <<m1, m2, m3>>

OneMove == <<m1, m2>>
=============================================================================
