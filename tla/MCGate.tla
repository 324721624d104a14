------------------------------ MODULE MCGate --------------------------------
(***************************************************************************)
(* Gate for TLC: every environment with a few bodies, and every body under *)
(* a few environments.                                                     *)
(***************************************************************************)
EXTENDS Gate

CONSTANTS t1, t2, s1

Plain == [production |-> FALSE, url |-> FALSE, urlFile |-> "none", vault |-> FALSE,
          complete |-> FALSE, value |-> {}, path |-> {}]
Local  == [Plain EXCEPT !.path = {"token"}]
Hosted == [Plain EXCEPT !.production = TRUE, !.url = TRUE, !.value = {"keyring", "token"}]
Docker == [Plain EXCEPT !.production = TRUE, !.urlFile = "url", !.path = {"keyring", "token"}]
SomeEnv == {Plain, Local, Hosted, Docker}

\* complete is read with Vault only.
AllEnv == {e \in EnvForm : e.complete => e.vault}

\* mode and consume_nonce are members of verifications only.
AllBody == {b \in BodyForm :
  \/ b.json = "object" /\ b.route \in {"verify", "legacyVerify"}
  \/ b.mode = "absent" /\ b.consume = "absent"}
=============================================================================
