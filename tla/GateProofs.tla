----------------------------- MODULE GateProofs -----------------------------
(***************************************************************************)
(* Proofs about Gate, for every environment, every body and every history  *)
(* of the token file.                                                      *)
(***************************************************************************)
EXTENDS Gate, TLAPS

\* The production guards, wherever they stand.
LEMMA ProductionStarts ==
  ASSUME NEW e \in EnvForm, MayStart(e), e.production
  PROVE  /\ State(e) = "postgres"
         /\ Provider(e) \in {"keyring", "vault"}
         /\ HasFile(e, "token")
  <1>1. State(e) = "postgres"  BY DEF MayStart, State, EnvForm
  <1>2. Provider(e) \in {"keyring", "vault"}
    <2>1. CASE HasFile(e, "keyring") /\ e.vault   BY <2>1 DEF MayStart, Provider
    <2>2. CASE HasFile(e, "keyring") /\ ~e.vault  BY <2>2 DEF MayStart, Provider
    <2>3. CASE ~HasFile(e, "keyring") /\ e.vault  BY <2>3 DEF MayStart, Provider
    <2>4. CASE ~HasFile(e, "keyring") /\ ~e.vault
      BY <1>1, <2>4 DEF MayStart, Provider, EnvForm
    <2> QED  BY <2>1, <2>2, <2>3, <2>4
  <1> QED  BY <1>1, <1>2 DEF MayStart

\* What the handlers read as a change of state, the middleware has read so.
LEMMA GateSeesChanges ==
  ASSUME NEW body, Changes(body)
  PROVE  MutatesState(body)
  BY DEF Changes, Valid, MutatesState, Consumes, Truthy

-----------------------------------------------------------------------------
\* A request past the gate that may change state was admitted.
Cleared(s) ==
  At(s, "handler") /\ Changes(flight[s].body) /\ Guarded =>
    flight[s].bearer \in Token \cap flight[s].since

IInv ==
  /\ TypeOK
  /\ up => MayStart(env)
  /\ \A s \in Slot :
       /\ ~At(s, "idle") => up /\ Held \in flight[s].since
       /\ Cleared(s)
  /\ EffectIsAuthenticated
  /\ HolderIsAdmitted

LEMMA Forms ==
  ASSUME TypeOK, NEW s \in Slot
  PROVE  /\ flight[s] \in Form
         /\ flight[s].bearer \in Token \cup {None} /\ flight[s].since \subseteq Content
         /\ Held \in Content
  BY DEF TypeOK, Form, Held, HeldIn

LEMMA InitInvariant == Init => IInv
  <1> SUFFICES ASSUME Init  PROVE IInv
    OBVIOUS
  <1>1. \A s \in Slot : flight[s].pc = "idle"  BY DEF Init, Idle
  <1>2. TypeOK  BY DEF Init, TypeOK, Form, Idle, Content
  <1> QED
    BY <1>1, <1>2 DEF Init, IInv, At, Cleared, EffectIsAuthenticated, HolderIsAdmitted

\* A request in progress goes on, and all else stays as it is.
LEMMA Moves ==
  ASSUME IInv, NEW s \in Slot, ~At(s, "idle"),
         NEW pc \in {"handler", "malformed", "unauthorised", "unavailable", "answered", "changed"},
         To(s, pc),
         pc = "handler" /\ Changes(flight[s].body) /\ Guarded =>
           flight[s].bearer \in Token \cap flight[s].since,
         pc = "changed" => At(s, "handler") /\ Changes(flight[s].body),
         pc = "unauthorised" => flight[s].since # {flight[s].bearer}
  PROVE  IInv'
  <1>1. /\ flight'[s] = [pc |-> pc, body |-> flight[s].body,
                         bearer |-> flight[s].bearer, since |-> flight[s].since]
        /\ \A r \in Slot \ {s} : flight'[r] = flight[r]
    BY Forms DEF To, IInv, TypeOK, Form
  <1>2. TypeOK'
    <2>1. flight'[s] \in Form  BY <1>1, Forms DEF IInv, Form
    <2> QED  BY <2>1 DEF To, IInv, TypeOK
  <1>3. env.production => Guarded
    BY ProductionStarts, GateAssumption DEF IInv, TypeOK, Guarded, GateAssumption
  <1>4. Held' = Held /\ Guarded' = Guarded  BY DEF To, Held, HeldIn, Guarded
  <1>5. EffectIsAuthenticated'
    BY <1>1, <1>3, <1>4 DEF IInv, EffectIsAuthenticated, Cleared, At, To
  <1>6. HolderIsAdmitted'  BY <1>1 DEF IInv, HolderIsAdmitted, At
  <1>7. \A r \in Slot : Cleared(r)'
    BY <1>1, <1>4 DEF IInv, Cleared, At
  <1>8. \A r \in Slot : ~At(r, "idle")' => up' /\ Held' \in flight'[r].since
    BY <1>1, <1>4 DEF IInv, At, To
  <1> QED  BY <1>2, <1>5, <1>6, <1>7, <1>8 DEF To, IInv

LEMMA RequestStep ==
  ASSUME IInv, NEW s \in Slot,
         Malformed(s) \/ Unreadable(s) \/ Refuse(s) \/ Pass(s) \/ Change(s) \/ Answer(s)
  PROVE  IInv'
  <1>1. CASE Malformed(s)  BY <1>1, Moves DEF Malformed, At
  <1>2. CASE Unreadable(s)  BY <1>2, Moves DEF Unreadable, Checked, At
  <1>3. CASE Refuse(s)
    <2>1. Held \in flight[s].since /\ Held # Missing  BY <1>3 DEF Refuse, Checked, At, IInv
    <2>2. flight[s].since # {flight[s].bearer}
      <3>1. flight[s].bearer \in Token \cup {None}  BY <1>3, Forms DEF Refuse, Checked, At, IInv
      <3>2. CASE Held = Blank
        BY <2>1, <3>1, <3>2, GateAssumption DEF GateAssumption
      <3>3. CASE Held # Blank  BY <1>3, <2>1, <3>3 DEF Refuse, Admitted
      <3> QED  BY <3>2, <3>3
    <2> QED  BY <1>3, <2>2, Moves DEF Refuse, Checked, At
  <1>4. CASE Pass(s)
    <2>1. ASSUME Changes(flight[s].body), Guarded
          PROVE  flight[s].bearer \in Token \cap flight[s].since
      <3>1. ~At(s, "idle")  BY <1>4 DEF Pass, At
      <3>2. Held \in flight[s].since /\ Held \in Content
        BY <3>1, Forms DEF IInv
      <3>3. Checked(s)  BY <1>4, <2>1, <3>2, GateSeesChanges DEF Pass, Checked
      <3> QED  BY <1>4, <3>2, <3>3 DEF Pass, Admitted, Content
    <2> QED  BY <1>4, <2>1, Moves DEF Pass, At
  <1>5. CASE Change(s)  BY <1>5, Moves DEF Change, At
  <1>6. CASE Answer(s)  BY <1>6, Moves DEF Answer, At
  <1> QED  BY <1>1, <1>2, <1>3, <1>4, <1>5, <1>6

LEMMA SlotStep ==
  ASSUME IInv, NEW s \in Slot,
         Leave(s) \/ (\E body \in Body, bearer \in Token \cup {None} : Arrive(s, body, bearer))
  PROVE  IInv'
  <1>1. UNCHANGED <<env, up, mounted, private>> /\ \A r \in Slot \ {s} : flight'[r] = flight[r]
    BY DEF Leave, Arrive, IInv, TypeOK
  <1>2. Held' = Held /\ Guarded' = Guarded  BY <1>1 DEF Held, HeldIn, Guarded
  <1>3. \/ flight'[s] = Idle
        \/ \E body \in Body, bearer \in Token \cup {None} :
             up /\ flight'[s] = [pc |-> "gate", body |-> body, bearer |-> bearer, since |-> {Held}]
    BY DEF Leave, Arrive, IInv, TypeOK
  <1>4. flight'[s] \in Form /\ flight' \in [Slot -> Form]
    <2>1. CASE flight'[s] = Idle  BY <2>1 DEF Form, Idle, Leave, Arrive, IInv, TypeOK
    <2>2. ASSUME NEW body \in Body, NEW bearer \in Token \cup {None},
                 flight'[s] = [pc |-> "gate", body |-> body, bearer |-> bearer, since |-> {Held}]
          PROVE  flight'[s] \in Form
      <3>1. {Held} \in SUBSET Content  BY Forms DEF IInv
      <3> QED  BY <2>2, <3>1 DEF Form
    <2>3. flight'[s] \in Form  BY <1>3, <2>1, <2>2 DEF Form, Idle
    <2> QED  BY <2>3 DEF Leave, Arrive, IInv, TypeOK
  <1>5. flight'[s].pc \in {"idle", "gate"} /\ (flight'[s].pc = "gate" => up /\ Held \in flight'[s].since)
    <2>1. CASE flight'[s] = Idle  BY <2>1 DEF Idle
    <2>2. ASSUME NEW body, NEW bearer,
                 up /\ flight'[s] = [pc |-> "gate", body |-> body, bearer |-> bearer, since |-> {Held}]
          PROVE  flight'[s].pc = "gate" /\ up /\ Held \in flight'[s].since
      BY <2>2
    <2> QED  BY <1>3, <2>1, <2>2
  <1>6. TypeOK'  BY <1>1, <1>4 DEF IInv, TypeOK
  <1> QED
    BY <1>1, <1>2, <1>5, <1>6 DEF IInv, At, Cleared, EffectIsAuthenticated, HolderIsAdmitted

LEMMA RotateStep ==
  ASSUME IInv, NEW content \in Content, Rotate(content)
  PROVE  IInv'
  <1>1. HeldIn(content) \in Content /\ Held' = HeldIn(content) /\ Guarded' = Guarded
    BY DEF Rotate, HeldIn, Held, Guarded, IInv, TypeOK
  <1>2. ASSUME NEW s \in Slot
        PROVE  flight'[s] = [pc |-> flight[s].pc, body |-> flight[s].body,
                             bearer |-> flight[s].bearer,
                             since |-> IF At(s, "idle") THEN {}
                                       ELSE flight[s].since \cup {HeldIn(content)}]
    BY Forms DEF Rotate, IInv, TypeOK, Form, At
  <1>3. ASSUME NEW s \in Slot  PROVE flight'[s] \in Form
    <2>1. flight[s] \in Form  BY Forms DEF IInv
    <2> DEFINE since == IF At(s, "idle") THEN {} ELSE flight[s].since \cup {HeldIn(content)}
    <2>2. since \in SUBSET Content  BY <1>1, <2>1 DEF Form
    <2> HIDE DEF since
    <2>3. [pc |-> flight[s].pc, body |-> flight[s].body, bearer |-> flight[s].bearer,
           since |-> since] \in Form
      BY <2>1, <2>2 DEF Form
    <2> QED  BY <1>2, <2>3 DEF since
  <1>4. TypeOK'  BY <1>3 DEF Rotate, IInv, TypeOK
  <1>5. ASSUME NEW s \in Slot
        PROVE  /\ flight'[s].pc = flight[s].pc /\ flight'[s].body = flight[s].body
               /\ flight'[s].bearer = flight[s].bearer
               /\ flight'[s].since = IF At(s, "idle") THEN {} ELSE flight[s].since \cup {HeldIn(content)}
    <2> DEFINE since == IF At(s, "idle") THEN {} ELSE flight[s].since \cup {HeldIn(content)}
    <2>1. flight'[s] = [pc |-> flight[s].pc, body |-> flight[s].body,
                        bearer |-> flight[s].bearer, since |-> since]
      BY <1>2
    <2> HIDE DEF since
    <2>2. flight'[s].since = since /\ flight'[s].pc = flight[s].pc
          /\ flight'[s].body = flight[s].body /\ flight'[s].bearer = flight[s].bearer
      BY <2>1
    <2> QED  BY <2>2 DEF since
  <1>6. ASSUME NEW s \in Slot, ~At(s, "idle")
        PROVE  /\ flight'[s].body = flight[s].body /\ flight'[s].bearer = flight[s].bearer
               /\ flight'[s].since = flight[s].since \cup {Held'}
    BY <1>1, <1>5, <1>6
  <1>7. HolderIsAdmitted'
    <2> SUFFICES ASSUME NEW s \in Slot, At(s, "unauthorised")
                 PROVE  flight'[s].since # {flight'[s].bearer}
      BY <1>5 DEF HolderIsAdmitted, At
    <2>1. ~At(s, "idle") /\ flight[s].since # {flight[s].bearer}
          /\ Held \in flight[s].since
      BY DEF IInv, HolderIsAdmitted, At
    <2> QED  BY <1>6, <2>1
  <1> QED
    BY <1>1, <1>4, <1>5, <1>6, <1>7 DEF Rotate, IInv, At, Cleared, EffectIsAuthenticated

LEMMA ProcessStep ==
  ASSUME IInv, Stop \/ UNCHANGED vars \/ (\E value \in Token \cup {Blank} : Start(value))
  PROVE  IInv'
  <1>1. CASE Stop
    BY <1>1 DEF Stop, IInv, TypeOK, Form, Idle, At, Content, Cleared, EffectIsAuthenticated, HolderIsAdmitted
  <1>2. CASE UNCHANGED vars
    BY <1>2 DEF vars, IInv, TypeOK, At, Cleared, Guarded, Held, HeldIn, EffectIsAuthenticated, HolderIsAdmitted
  <1>3. CASE \E value \in Token \cup {Blank} : Start(value)
    <2>1. ~up /\ up' /\ MayStart(env) /\ UNCHANGED <<env, mounted, flight>> /\ private' \in Content
      BY <1>3 DEF Start, Content
    <2>2. \A s \in Slot : At(s, "idle")  BY <2>1 DEF IInv
    <2> QED
      BY <2>1, <2>2 DEF IInv, TypeOK, At, Cleared, EffectIsAuthenticated, HolderIsAdmitted
  <1> QED  BY <1>1, <1>2, <1>3

LEMMA NextInvariant == IInv /\ [Next]_vars => IInv'
  BY RequestStep, SlotStep, RotateStep, ProcessStep DEF Next

\* The inductive invariant: what passes the gate and may change state was
\* admitted by what the token file then held.
THEOREM Invariance == Spec => []IInv
  BY InitInvariant, NextInvariant, PTL DEF Spec

\* Requests are where they can be, under one of the environments.
THEOREM TypeCorrect == Spec => []TypeOK
  <1>1. IInv => TypeOK  BY DEF IInv
  <1> QED  BY <1>1, Invariance, PTL

\* However a body is written, whatever becomes of the token file.
THEOREM Authenticated == Spec => []EffectIsAuthenticated
  <1>1. IInv => EffectIsAuthenticated  BY DEF IInv
  <1> QED  BY <1>1, Invariance, PTL

\* The token that is in force is enough.
THEOREM HoldersPass == Spec => []HolderIsAdmitted
  <1>1. IInv => HolderIsAdmitted  BY DEF IInv
  <1> QED  BY <1>1, Invariance, PTL

\* For each of the environments, not only the ones somebody thought of.
THEOREM ProductionShares == Spec => []ProductionIsShared
  <1>1. IInv => ProductionIsShared
    BY ProductionStarts, GateAssumption DEF IInv, TypeOK, ProductionIsShared, GateAssumption
  <1> QED  BY <1>1, Invariance, PTL
-----------------------------------------------------------------------------
\* Archival verifications that change nothing, and which the middleware takes
\* for changes: consume_nonce where no handler reads it, or a string that
\* pydantic reads as false.
Overreach(body) ==
  \/ body.route = "verify" /\ Truthy(body.consume)
  \/ body.route = "legacyVerify" /\ body.consume = "no"

Refused(s) == At(s, "unauthorised") \/ At(s, "unavailable")

LEMMA TakenForChange ==
  ASSUME NEW body, MutatesState(body), Valid(body), ~Changes(body)
  PROVE  Overreach(body)
  <1>1. body.route \notin {"create", "legacyCreate"} /\ body.mode # "acceptance"
    BY DEF Changes, MutatesState
  <1> QED  BY <1>1 DEF MutatesState, Changes, Valid, Boolean, Consumes, Truthy, Overreach

LEMMA RefusalStep ==
  ASSUME TypeOK, [Next]_vars, NEW s \in Slot,
         Refused(s) => Guarded /\ MutatesState(flight[s].body)
  PROVE  Refused(s)' => Guarded' /\ MutatesState(flight'[s].body)
  <1>1. ASSUME NEW r \in Slot, NEW pc, To(r, pc),
               pc \in {"unauthorised", "unavailable"} => Checked(r)
        PROVE  Refused(s)' => Guarded' /\ MutatesState(flight'[s].body)
    <2>1. Guarded' = Guarded /\ flight'[s].body = flight[s].body
      BY <1>1, Forms DEF To, TypeOK, Form, Guarded
    <2>2. CASE r = s
      <3>1. flight'[s].pc = pc  BY <1>1, <2>2, Forms DEF To, TypeOK, Form
      <3> QED  BY <1>1, <2>1, <2>2, <3>1 DEF Refused, At, Checked
    <2>3. CASE r # s
      <3>1. flight'[s] = flight[s]  BY <1>1, <2>3 DEF To, TypeOK
      <3> QED  BY <2>1, <3>1 DEF Refused, At
    <2> QED  BY <2>2, <2>3
  <1>2. ASSUME NEW r \in Slot,
               Malformed(r) \/ Unreadable(r) \/ Refuse(r) \/ Pass(r) \/ Change(r) \/ Answer(r)
        PROVE  Refused(s)' => Guarded' /\ MutatesState(flight'[s].body)
    BY <1>1, <1>2 DEF Malformed, Unreadable, Refuse, Pass, Change, Answer
  <1>3. ASSUME NEW r \in Slot,
               Leave(r) \/ (\E body \in Body, bearer \in Token \cup {None} : Arrive(r, body, bearer))
        PROVE  Refused(s)' => Guarded' /\ MutatesState(flight'[s].body)
    <2>1. CASE r = s
      <3>1. flight'[s].pc \in {"idle", "gate"}
        BY <1>3, <2>1 DEF Leave, Arrive, Idle, TypeOK
      <3> QED  BY <3>1 DEF Refused, At
    <2>2. CASE r # s
      <3>1. flight'[s] = flight[s] /\ Guarded' = Guarded
        BY <1>3, <2>2 DEF Leave, Arrive, TypeOK, Guarded
      <3> QED  BY <3>1 DEF Refused, At
    <2> QED  BY <2>1, <2>2
  <1>4. ASSUME NEW content \in Content, Rotate(content)
        PROVE  Refused(s)' => Guarded' /\ MutatesState(flight'[s].body)
    <2>1. Guarded' = Guarded /\ flight'[s].pc = flight[s].pc /\ flight'[s].body = flight[s].body
      BY <1>4, Forms DEF Rotate, TypeOK, Form, Guarded
    <2> QED  BY <2>1 DEF Refused, At
  <1>5. CASE Stop
    BY <1>5 DEF Stop, Idle, Refused, At
  <1>6. CASE UNCHANGED vars \/ \E value \in Token \cup {Blank} : Start(value)
    BY <1>6 DEF Start, vars, Refused, At, Guarded
  <1> QED  BY <1>2, <1>3, <1>4, <1>5, <1>6 DEF Next

\* How far "archival verification without consumption stays public" holds:
\* where no token is configured nobody is refused, and with one, of the valid
\* requests that change nothing only those above are.
THEOREM PublicButFor ==
  Spec => [](\A s \in Slot : Refused(s) =>
               /\ Guarded
               /\ Valid(flight[s].body) /\ ~Changes(flight[s].body) => Overreach(flight[s].body))
  <1> DEFINE Meant == \A s \in Slot : Refused(s) => Guarded /\ MutatesState(flight[s].body)
  <1>1. Init => Meant  BY DEF Init, Idle, Refused, At
  <1>2. TypeOK /\ Meant /\ [Next]_vars => Meant'  BY RefusalStep
  <1>3. Meant => \A s \in Slot : Refused(s) =>
                   /\ Guarded
                   /\ Valid(flight[s].body) /\ ~Changes(flight[s].body) => Overreach(flight[s].body)
    BY TakenForChange
  <1> HIDE DEF Meant
  <1> QED  BY <1>1, <1>2, <1>3, TypeCorrect, PTL DEF Spec
=============================================================================
