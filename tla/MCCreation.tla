------------------------------ MODULE MCCreation ------------------------------
(***************************************************************************)
(* Creation for TLC: two requests that name one identity and differ, one   *)
(* without an id, one that JCS refuses and one that fails validation.      *)
(***************************************************************************)
EXTENDS Creation, TLC

CONSTANTS rA, rB, rAnon, rBad, rInvalid, k1, k2

MCKeyOf ==
  [r \in Request |->
     CASE r \in {rA, rB} -> k1
       [] r = rAnon -> NoKey
       [] OTHER -> k2]

\* Workers are interchangeable, and so are the kids and the draws.
Alike == Permutations(Worker) \cup Permutations(Kid) \cup Permutations(Draw)

===============================================================================
