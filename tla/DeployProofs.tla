---------------------------- MODULE DeployProofs ----------------------------
(***************************************************************************)
(* Proofs about Deploy, for any configurations the Space goes through and  *)
(* any number of attempts.                                                 *)
(***************************************************************************)
EXTENDS Deploy, TLAPS

\* The production guards, wherever they stand.
LEMMA ProductionStarts ==
  ASSUME NEW e \in EnvForm, MayStart(e), e.production
  PROVE  /\ State(e) = "postgres"
         /\ Provider(e) \in {"keyring", "vault"}
         /\ HasFile(e, "token")
  <1>1. State(e) = "postgres"  BY DEF MayStart, State, EnvForm
  <1>2. Provider(e) \in {"keyring", "vault"}
    <2>1. CASE HasFile(e, "keyring") /\ e.vault   BY <2>1 DEF MayStart, Provider
    <2>2. CASE HasFile(e, "keyring") /\ ~e.vault  BY <2>2 DEF MayStart, Provider
    <2>3. CASE ~HasFile(e, "keyring") /\ e.vault  BY <2>3 DEF MayStart, Provider
    <2>4. CASE ~HasFile(e, "keyring") /\ ~e.vault
      BY <1>1, <2>4 DEF MayStart, Provider, EnvForm
    <2> QED  BY <2>1, <2>2, <2>3, <2>4
  <1> QED  BY <1>1, <1>2 DEF MayStart

\* Containers have passed the guards of the start; past its check the script
\* has found the names it wants; and while the deployment mode stays as it was
\* read, it is that of every container of the new revision.
IInv ==
  /\ TypeOK
  /\ serving # Down => MayStart(serving.env)
  /\ script \in {"upload", "poll"} => Named(checked)
  /\ script \in {"check", "secrets", "upload"} =>
       image = Earlier /\ (serving # Down => serving.revision = Earlier)
  /\ script # "check" /\ steady =>
       /\ space.production = checked.production
       /\ serving # Down /\ serving.revision = Revision =>
            serving.env.production = checked.production

LEMMA InitInvariant == Init => IInv
  <1> SUFFICES ASSUME Init  PROVE IInv
    OBVIOUS
  <1>1. space \in EnvForm  BY DeployAssumption DEF Init, DeployAssumption
  <1>2. serving \in Container \cup {Down}
    BY DEF Init, Container
  <1>3. serving # Down => MayStart(serving.env)
    BY DEF Init
  <1> QED  BY <1>1, <1>2, <1>3, DeployAssumption DEF Init, IInv, TypeOK, DeployAssumption

\* The script's own steps leave the Space alone.
LEMMA ScriptStep ==
  ASSUME IInv, ReadVariables \/ Check \/ Upload \/ Poll \/ Misread
  PROVE  IInv'
  <1>1. CASE ReadVariables
    <2>1. space \in EnvForm  BY DeployAssumption DEF IInv, TypeOK, DeployAssumption
    <2>2. ~(serving # Down /\ serving.revision = Revision)
      BY <1>1, DeployAssumption DEF ReadVariables, IInv
    <2> QED  BY <1>1, <2>1, <2>2 DEF ReadVariables, IInv, TypeOK
  <1>2. CASE Check
    <2>1. checked' \in EnvForm
      BY <1>2, DeployAssumption DEF Check, IInv, TypeOK, DeployAssumption, EnvForm
    <2>2. checked'.production = checked.production
      BY <1>2 DEF Check, IInv, TypeOK, EnvForm
    <2>3. /\ script = "secrets" /\ UNCHANGED <<attempt, space, image, serving, steady>>
          /\ script' \in {"failed", "upload", "checked only", "refused"}
          /\ script' = "upload" => Named(checked')
      BY <1>2 DEF Check
    <2> QED  BY <2>1, <2>2, <2>3 DEF IInv, TypeOK
  <1>3. CASE Upload
    BY <1>3 DEF Upload, IInv, TypeOK
  <1>4. CASE Poll
    <2>1. attempt' \in 0 .. Attempts
      BY <1>4, DeployAssumption DEF Poll, IInv, TypeOK, DeployAssumption
    <2>2. script' \in {"verified", "unverified", "poll"} /\ script = "poll"
      BY <1>4 DEF Poll
    <2> QED  BY <1>4, <2>1, <2>2 DEF Poll, IInv, TypeOK
  <1>5. CASE Misread
    BY <1>5 DEF Misread, IInv, TypeOK
  <1> QED  BY <1>1, <1>2, <1>3, <1>4, <1>5

\* Nor does the platform, or who edits the configuration, touch the script.
LEMMA SpaceStep ==
  ASSUME IInv, Begin \/ Die \/ Edit \/ UNCHANGED vars
  PROVE  IInv'
  <1>1. CASE Begin
    <2>1. CASE MayStart(space)
      BY <1>1, <2>1 DEF Begin, IInv, TypeOK, Container
    <2>2. CASE ~MayStart(space)
      BY <1>1, <2>2 DEF Begin, IInv, TypeOK
    <2> QED  BY <2>1, <2>2
  <1>2. CASE Die  BY <1>2 DEF Die, IInv, TypeOK
  <1>3. CASE Edit  BY <1>3 DEF Edit, IInv, TypeOK
  <1>4. CASE UNCHANGED vars  BY <1>4 DEF vars, IInv, TypeOK
  <1> QED  BY <1>1, <1>2, <1>3, <1>4

\* The inductive invariant: what the script has checked, and what a running
\* container has passed, whatever becomes of the configuration.
THEOREM Invariance == Spec => []IInv
  <1>1. IInv /\ [Next]_vars => IInv'
    BY ScriptStep, SpaceStep DEF Next
  <1> QED  BY <1>1, InitInvariant, PTL DEF Spec

\* Each variable of the script and of the Space is of its kind.
THEOREM TypeCorrect == Spec => []TypeOK
  <1>1. IInv => TypeOK  BY DEF IInv
  <1> QED  BY <1>1, Invariance, PTL

LEMMA OnlyPollVerifies ==
  ASSUME [Next]_vars, script' = "verified", script # "verified"
  PROVE  script = "poll" /\ UNCHANGED <<checked, image, serving>> /\ \E healthy \in BOOLEAN : Verifies(healthy)
  BY DEF Next, ReadVariables, Check, Upload, Poll, Misread, Begin, Die, Edit, vars

\* Whoever edits the names and values the script looked for, and whichever
\* containers answer: while the deployment mode stays, the one that the script
\* says it verified has passed the production guards.
THEOREM Guarded == Spec => VerifiedIsGuarded
  <1>1. ASSUME IInv, [Next]_vars, script' = "verified", script # "verified", steady
        PROVE  /\ serving # Down
               /\ serving.env.production /\ State(serving.env) = "postgres"
               /\ Provider(serving.env) \in {"keyring", "vault"}
               /\ HasFile(serving.env, "token")
    <2>1. script = "poll" /\ serving # Down /\ serving.revision = Revision
      BY <1>1, OnlyPollVerifies DEF Verifies
    <2>2. serving.env.production
      BY <1>1, <2>1 DEF IInv, Named
    <2>3. serving.env \in EnvForm /\ MayStart(serving.env)
      BY <1>1, <2>1, DeployAssumption DEF IInv, TypeOK, Container, DeployAssumption
    <2> QED  BY <2>1, <2>2, <2>3, ProductionStarts
  <1>2. IInv /\ [Next]_vars =>
          [script' = "verified" /\ script # "verified" /\ steady =>
             /\ serving # Down
             /\ serving.env.production /\ State(serving.env) = "postgres"
             /\ Provider(serving.env) \in {"keyring", "vault"}
             /\ HasFile(serving.env, "token")]_vars
    BY <1>1
  <1> QED  BY <1>2, Invariance, PTL DEF Spec, VerifiedIsGuarded
=============================================================================
