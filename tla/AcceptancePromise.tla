-------------------------- MODULE AcceptancePromise --------------------------
(***************************************************************************)
(* What POST /v0.7/events/verify in acceptance mode promises: an Event     *)
(* Identity is decided once, for one content, effect_applied is answered   *)
(* at most once for it, and every later answer follows the decision.       *)
(* Acceptance.tla is shown to implement this module.                       *)
(***************************************************************************)
CONSTANTS
  Identity,     \* Event Identities, the pairs (who, id)
  Content,      \* unsigned contents, known by their digests
  None

VARIABLES
  decided,      \* decided[i]: the content identity i was accepted with
  applied,      \* the identities effect_applied: true was answered for
  told          \* the already_accepted and conflict answers given

vars == <<decided, applied, told>>

Init ==
  /\ decided = [i \in Identity |-> None]
  /\ applied = {} /\ told = {}

Decide(i, c) ==
  /\ decided[i] = None
  /\ decided' = [decided EXCEPT ![i] = c]
  /\ UNCHANGED <<applied, told>>

TellApplied(i) ==
  /\ decided[i] # None /\ i \notin applied
  /\ applied' = applied \cup {i}
  /\ UNCHANGED <<decided, told>>

TellLater(i, c) ==
  /\ decided[i] # None
  /\ told' = told \cup
       {[id |-> i, content |-> c,
         outcome |-> IF decided[i] = c THEN "already_accepted" ELSE "conflict"]}
  /\ UNCHANGED <<decided, applied>>

Next ==
  \E i \in Identity :
    \/ TellApplied(i)
    \/ \E c \in Content : Decide(i, c) \/ TellLater(i, c)

Spec == Init /\ [][Next]_vars
=============================================================================
