---------------------------- MODULE MCAcceptance ----------------------------
(***************************************************************************)
(* Acceptance for TLC: one identity that two contents compete for, one of  *)
(* them with a TTL and signed under two keys, a forgery of the other, and  *)
(* a second identity.                                                      *)
(***************************************************************************)
EXTENDS Acceptance, TLC

CONSTANTS i1, i2, c1, c2, c3, p1, p2, aud1, expiry

Base(i, c, k) ==
  [id |-> i, content |-> c, kid |-> k, wellFormed |-> TRUE, genuine |-> TRUE,
   extensionsOk |-> TRUE, when |-> 1, expires |-> None, aud |-> None]

Expiring == [Base(i1, c1, p1) EXCEPT !.expires = expiry]
Resigned == [Expiring EXCEPT !.kid = p2]
Rival    == Base(i1, c2, p1)
Forged   == [Rival EXCEPT !.genuine = FALSE]
Garbled  == [Rival EXCEPT !.wellFormed = FALSE]
Unsound  == [Base(i2, c3, p1) EXCEPT !.extensionsOk = FALSE]

Sub(e, mode)   == [event |-> e, mode |-> mode, audience |-> None, maxAge |-> None]
Accept(e)      == Sub(e, "acceptance")
Scoped(e, a)   == [Accept(e) EXCEPT !.audience = a]
Recent(e, age) == [Accept(e) EXCEPT !.maxAge = age]

\* The race of two contents for one identity.
RaceEvents      == {Rival, Expiring}
RaceSubmissions == {Accept(e) : e \in RaceEvents}

\* Every check of the handler, with a side that fails it, and one content
\* under two signatures.
CheckEvents      == {Expiring, Resigned, Rival, Forged, Garbled, Unsound}
CheckSubmissions ==
  {Accept(e) : e \in CheckEvents \ {Rival}} \cup
  {Sub(Expiring, "archival"), Sub(Expiring, "other"),
   Scoped(Expiring, aud1), Recent(Rival, 0)}

Alike == Permutations(Worker)
=============================================================================
