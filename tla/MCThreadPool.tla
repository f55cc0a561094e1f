---------------------------- MODULE MCThreadPool ----------------------------
(***************************************************************************)
(* ThreadPool on small instances for TLC.                                  *)
(***************************************************************************)
EXTENDS ThreadPool, TLC

(* The workers run the same code: sound for the safety runs. *)
WorkerSymmetry == Permutations(Workers)
=============================================================================
