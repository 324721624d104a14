------------------------------- MODULE Deploy -------------------------------
(***************************************************************************)
(* scripts/deploy_hf.py: it checks the names a Space's configuration has,  *)
(* uploads a revision, and asks /health until that revision answers.  The  *)
(* platform builds and starts containers, and the configuration can change *)
(* at any time.                                                            *)
(***************************************************************************)
EXTENDS Startup, Naturals

CONSTANTS
  Env,          \* configurations the Space goes through
  Earlier,      \* the revision that is deployed
  Revision,     \* JEP_REVISION, the revision to deploy
  Attempts      \* how often /health is asked

ASSUME DeployAssumption ==
  Env \subseteq EnvForm /\ Earlier # Revision /\ Attempts \in Nat

VARIABLES
  script,       \* "check", "secrets", "upload", "poll", or how the script ended
  checked,      \* the configuration it has read
  attempt,      \* requests to /health so far
  space,        \* the Space's configuration
  image,        \* the revision uploaded last
  serving,      \* the container that answers: its revision and its environment
  steady        \* history: the deployment mode is as the script read it

vars == <<script, checked, attempt, space, image, serving, steady>>

Down == [revision |-> "none"]
Container == [revision : {Earlier, Revision}, env : Env]

Init ==
  /\ script = "check" /\ attempt = 0
  /\ space \in Env /\ checked = space /\ image = Earlier
  /\ steady = TRUE
  /\ \/ serving = Down
     \/ \E e \in Env : MayStart(e) /\ serving = [revision |-> Earlier, env |-> e]

\* Mutant: the deployment mode is not looked at.
NamedAnywhere(e) ==
  /\ e.url /\ "token" \in e.value
  /\ \/ "keyring" \in e.value
     \/ e.vault /\ e.complete /\ "vaultToken" \in e.value

\* Nothing in "missing": the names are there, whatever their values.
Named(e) ==
  /\ e.production /\ e.url /\ "token" \in e.value
  /\ \/ "keyring" \in e.value
     \/ e.vault /\ e.complete /\ "vaultToken" \in e.value

\* The variables are read first and the secrets after them; either call can
\* fail.
ReadVariables ==
  /\ script = "check"
  /\ checked' = space /\ steady' = TRUE
  /\ script' \in {"secrets", "failed"}
  /\ UNCHANGED <<attempt, space, image, serving>>

Check ==
  /\ script = "secrets"
  /\ checked' = [checked EXCEPT !.url = space.url, !.value = space.value]
  /\ script' \in {"failed"} \cup
       IF Named(checked') THEN {"upload", "checked only"} ELSE {"refused"}
  /\ UNCHANGED <<attempt, space, image, serving, steady>>

\* upload_folder may fail before it takes effect, and after.
Upload ==
  /\ script = "upload"
  /\ \/ image' = Revision /\ script' \in {"poll", "failed"}
     \/ image' = image /\ script' = "failed"
  /\ UNCHANGED <<checked, attempt, space, serving, steady>>

\* Mutant: a healthy service is the service uploaded.
VerifiesAny(healthy) == healthy /\ serving # Down

\* 200 from /health, with this revision.
Verifies(healthy) == healthy /\ serving # Down /\ serving.revision = Revision

\* Mutant: it asks until the service is healthy.
PollForever ==
  /\ script = "poll"
  /\ \E healthy \in BOOLEAN :
       script' = IF Verifies(healthy) THEN "verified" ELSE "poll"
  /\ UNCHANGED <<checked, attempt, space, image, serving, steady>>

\* Mutant: one attempt more.
PollOnceMore ==
  /\ script = "poll" /\ attempt <= Attempts
  /\ attempt' = attempt + 1
  /\ \E healthy \in BOOLEAN :
       script' = IF Verifies(healthy) THEN "verified"
                 ELSE IF attempt' > Attempts THEN "unverified" ELSE "poll"
  /\ UNCHANGED <<checked, space, image, serving, steady>>

Poll ==
  /\ script = "poll" /\ attempt < Attempts
  /\ attempt' = attempt + 1
  /\ \E healthy \in BOOLEAN :
       script' = IF Verifies(healthy) THEN "verified"
                 ELSE IF attempt' = Attempts THEN "unverified" ELSE "poll"
  /\ UNCHANGED <<checked, space, image, serving, steady>>

\* Something else answers 200: what is no JSON object ends the script.
Misread ==
  /\ script = "poll" /\ serving = Down
  /\ script' = "failed"
  /\ UNCHANGED <<checked, attempt, space, image, serving, steady>>

\* The platform.  A container stays until the next one is built, dies, or is
\* started again; one that may not start leaves nothing behind.
Begin ==
  /\ serving' = IF MayStart(space) THEN [revision |-> image, env |-> space] ELSE Down
  /\ UNCHANGED <<script, checked, attempt, space, image, steady>>

Die ==
  /\ serving # Down /\ serving' = Down
  /\ UNCHANGED <<script, checked, attempt, space, image, steady>>

\* Somebody edits the Space's variables and secrets.
Edit ==
  /\ space' \in Env
  /\ steady' = (steady /\ space'.production = space.production)
  /\ UNCHANGED <<script, checked, attempt, image, serving>>

Next == ReadVariables \/ Check \/ Upload \/ Poll \/ Misread \/ Begin \/ Die \/ Edit

Spec == Init /\ [][Next]_vars

\* Requests to /health time out, pauses last ten seconds.  The calls of HfApi
\* are given no time limit: nothing is assumed of them.
FairSpec == Spec /\ WF_vars(Poll)

-----------------------------------------------------------------------------
(* Properties.                                                             *)

\* Containers that serve have passed the guards, and the script counts.
TypeOK ==
  /\ script \in {"check", "secrets", "upload", "poll", "checked only", "refused", "failed",
                 "verified", "unverified"}
  /\ attempt \in 0 .. Attempts
  /\ space \in Env /\ checked \in EnvForm /\ image \in {Earlier, Revision}
  /\ serving \in Container \cup {Down}
  /\ steady \in BOOLEAN

\* "Verified deployed API": what answers is a production deployment on
\* PostgreSQL, with external keys and a token, whoever edited secrets and
\* variables since the check and whichever containers came and went, unless
\* the deployment mode itself was edited.
VerifiedIsGuarded ==
  [][script' = "verified" /\ script # "verified" /\ steady =>
       LET e == serving.env IN
       /\ serving # Down
       /\ e.production /\ State(e) = "postgres"
       /\ Provider(e) \in {"keyring", "vault"} /\ HasFile(e, "token")]_vars

\* A script that asks for /health stops asking, whatever becomes of the Space.
PollingEnds == script = "poll" ~> script # "poll"
=============================================================================
