---------------------------- MODULE MCLifecycle ----------------------------
(***************************************************************************)
(* Lifecycle on a small instance for TLC: two servers, two workers, and a  *)
(* task for each server in a call.                                         *)
(***************************************************************************)
EXTENDS Lifecycle

CONSTANTS h1, h2

TwoLines == <<h1, h2>>

(* The other copy of the list has them in another order. *)
OtherLines == <<h2, h1>>
=============================================================================
