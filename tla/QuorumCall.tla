----------------------------- MODULE QuorumCall -----------------------------
(***************************************************************************)
(* What a call of the API promises about the replicas, whatever the        *)
(* threads do: a call succeeds only with the answers of as many distinct   *)
(* replicas as its threshold asks for, it may fail at any time, it is      *)
(* decided once, and answers keep arriving after it was decided.           *)
(***************************************************************************)
EXTENDS Integers, FiniteSets

CONSTANTS MaxCommands,   \* bound: number of calls
          N              \* number of replicas

Commands == 1..MaxCommands
Replicas == 1..N

VARIABLES status,   \* of every call: "unborn", "pending", "ok" or "failed"
          need,     \* of every call: the answers it needs
          acked     \* of every call: the replicas that answered
vars == <<status, need, acked>>

(* Calls are made one at a time, in order. *)
Issue(c, k) ==
  /\ status[c] = "unborn"
  /\ \A d \in Commands : d < c => status[d] \in {"ok", "failed"}
  /\ status' = [status EXCEPT ![c] = "pending"]
  /\ need' = [need EXCEPT ![c] = k]
  /\ UNCHANGED acked

Ack(c, r) ==
  /\ status[c] # "unborn" /\ r \notin acked[c]
  /\ acked' = [acked EXCEPT ![c] = @ \cup {r}]
  /\ UNCHANGED <<status, need>>

Succeed(c) ==
  /\ status[c] = "pending" /\ Cardinality(acked[c]) >= need[c]
  /\ status' = [status EXCEPT ![c] = "ok"]
  /\ UNCHANGED <<need, acked>>

Fail(c) ==
  /\ status[c] = "pending"
  /\ status' = [status EXCEPT ![c] = "failed"]
  /\ UNCHANGED <<need, acked>>

Init ==
  /\ status = [c \in Commands |-> "unborn"]
  /\ need = [c \in Commands |-> 0]
  /\ acked = [c \in Commands |-> {}]

Decide(c) == Succeed(c) \/ Fail(c)

Next == \E c \in Commands :
  \/ \E k \in Replicas : Issue(c, k)
  \/ \E r \in Replicas : Ack(c, r)
  \/ Decide(c)

Spec == Init /\ [][Next]_vars
=============================================================================
