---------------------------- MODULE MCKeyHistory ----------------------------
(***************************************************************************)
(* KeyHistory for TLC: processes on a state directory's own key, one       *)
(* beside them on a key file, replicas on a key file over PostgreSQL, and  *)
(* replicas on a Vault; configurations that rotate, one that reuses a kid  *)
(* and one that is refused half way.                                       *)
(***************************************************************************)
EXTENDS KeyHistory, TLC

CONSTANTS w1, w2, p1, k1, k2, m1, m2

Key(k, m)     == [kid |-> k, mat |-> m, sound |-> TRUE, private |-> TRUE]
Garbled(e)    == [e EXCEPT !.sound = FALSE]
Holding(k, s) == [active |-> k, keys |-> s]

First   == Holding(k1, <<Key(k1, m1)>>)
Rotated == Holding(k2, <<Key(k2, m2), Key(k1, m1)>>)
Reused  == Holding(k1, <<Key(k1, m2)>>)
HalfWay == Holding(k2, <<Key(k2, m1), Garbled(Key(k1, m1))>>)

SomeConfig == {First, Rotated, Reused, HalfWay}

Deployed(a, b, v, pg) ==
  [home |-> [w \in Worker |-> IF w = w1 THEN a ELSE b], vault |-> v, postgres |-> pg]

SomeDeployment ==
  {Deployed(Local, Local, {}, FALSE), Deployed(Local, p1, {}, FALSE),
   Deployed(p1, p1, {}, TRUE), Deployed(p1, p1, {p1}, TRUE)}
=============================================================================
