-------------------------- MODULE MCConnectionPool --------------------------
(***************************************************************************)
(* ConnectionPool on small instances for TLC.                              *)
(***************************************************************************)
EXTENDS ConnectionPool, TLC

(* The workers run the same code. *)
WorkerSymmetry == Permutations(Workers)
=============================================================================
