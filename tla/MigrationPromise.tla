-------------------------- MODULE MigrationPromise --------------------------
(***************************************************************************)
(* What a migration promises: the target receives all that the source then *)
(* holds, in one step, or nothing; all else that happens to either         *)
(* database is its own requests.  Migration.tla implements this module.    *)
(***************************************************************************)
EXTENDS Stores

VARIABLES source, target, clock

vars == <<source, target, clock>>

Init == source = Empty /\ target = Empty /\ clock = 0

\* A request's transaction, or a deletion of spent nonces.
Serves(t, u) ==
  \/ Transaction(t, u, clock)
  \/ \E id \in Nonce : Write(Sweep(t, clock), u, id, u[id], clock)
  \/ u = Sweep(t, clock)

Merge(rows) ==
  /\ \A id \in Id : rows[id] # None /\ target[id] # None => Agrees(id, rows[id], target[id])
  /\ target' = [id \in Id |-> Merged(id, rows[id], target[id])]

Next ==
  \/ Serves(source, source') /\ UNCHANGED <<target, clock>>
  \/ Serves(target, target') /\ UNCHANGED <<source, clock>>
  \/ Merge(WithSeed(source)) /\ UNCHANGED <<source, clock>>
  \/ clock' = clock + 1 /\ UNCHANGED <<source, target>>

Spec == Init /\ [][Next]_vars
=============================================================================
