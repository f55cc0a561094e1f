--------------------------- MODULE MCReplication ---------------------------
(***************************************************************************)
(* Replication for TLC: most runs use the thresholds of def.h, N = 3,      *)
(* R = 2 and W = 2; all of them satisfy R + W > N.                         *)
(***************************************************************************)
EXTENDS Replication

ASSUME QuorumsIntersect == R + W > N

(* The tasks a query leaves behind change no server and no answer, and no
   property asks whether a query was settled.  States that differ in these alone
   are the same. *)
View ==
  LET mutation(c) == op[c] \in Mutations IN
  <<store, call, op, status, acked, reply, result,
    [c \in Calls |-> IF mutation(c) \/ status[c] = "pending" THEN tasks[c] ELSE {}],
    [c \in Calls |-> mutation(c) /\ settled[c]]>>
=============================================================================
