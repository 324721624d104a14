----------------------------- MODULE KeyPromise -----------------------------
(***************************************************************************)
(* What the public key history promises: a kid is bound to one public key  *)
(* for good, and what is signed under a kid is signed with the key bound   *)
(* to it.  KeyHistory.tla is shown to implement this module.               *)
(***************************************************************************)
CONSTANTS Kid, Material, None

VARIABLES
  bound,        \* bound[k]: the key material kid k stands for
  signed        \* the pairs (kid, material) signatures were made with

vars == <<bound, signed>>

Init == bound = [k \in Kid |-> None] /\ signed = {}

Bind(k, m) ==
  /\ bound[k] = None
  /\ bound' = [bound EXCEPT ![k] = m]
  /\ UNCHANGED signed

Sign(k, m) ==
  /\ bound[k] = m
  /\ signed' = signed \cup {<<k, m>>}
  /\ UNCHANGED bound

Next == \E k \in Kid, m \in Material : Bind(k, m) \/ Sign(k, m)

Spec == Init /\ [][Next]_vars
=============================================================================
