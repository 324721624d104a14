------------------------------ MODULE MCReplay ------------------------------
(***************************************************************************)
(* Replay for TLC: an event, a later one that reuses its nonce and is in   *)
(* its own window when the first one's record expires, one of another      *)
(* scope and with a TTL, whose consumption sweeps the table, and one that  *)
(* fails its checks.                                                       *)
(***************************************************************************)
EXTENDS Replay, TLC

CONSTANTS s1, s2

Ev(s, t, x, ok) == [scope |-> s, when |-> t, expires |-> x, sound |-> ok]

SomeEvent == {Ev(s1, 0, None, TRUE), Ev(s1, 4, None, TRUE),
              Ev(s2, 1, 2, TRUE), Ev(s1, 1, None, FALSE)}

\* A call that outlasts Stall has failed: all it can still do is answer
\* "invalid" or die, which touches nothing else, so the search stops there.
NoneOverdue == \A w \in Worker : pc[w] = "consume" => InTime(w)

Alike == Permutations(Worker)
=============================================================================
