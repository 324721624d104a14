------------------------------ MODULE Startup -------------------------------
(***************************************************************************)
(* What a container makes of its environment: scripts/entrypoint.py, which *)
(* turns secret values into files, configured_state, KeyManager.__init__   *)
(* and the guard of main.py.                                               *)
(***************************************************************************)

\* Secrets that come as a value (JEP_SIGNING_TOKEN, ...) or as the path of a
\* file (JEP_SIGNING_TOKEN_FILE, ...).
Secret == {"keyring", "vaultToken", "token"}

\* url and urlFile are JEP_DATABASE_URL and the file JEP_DATABASE_URL_FILE
\* names; vault is JEP_VAULT_ADDR; complete, that the other Vault variables
\* are set and the address is https.
EnvForm ==
  [production : BOOLEAN,
   url : BOOLEAN, urlFile : {"none", "url", "blank", "missing"},
   vault : BOOLEAN, complete : BOOLEAN,
   value : SUBSET Secret, path : SUBSET Secret]

\* A value is written to a private file; with a path beside it, entrypoint.py raises.
Conflicting(e) == e.value \cap e.path # {}
HasFile(e, s)  == s \in e.value \cup e.path

\* Mutant: a file counts as a database URL, whatever is in it.
StateByName(e) ==
  IF \/ e.url /\ e.urlFile # "none"
     \/ e.urlFile = "missing"
     \/ e.production /\ ~e.url /\ e.urlFile = "none"
    THEN "refused"
    ELSE IF e.url \/ e.urlFile = "url" THEN "postgres" ELSE "local"

\* configured_state.
State(e) ==
  IF \/ e.url /\ e.urlFile # "none"
     \/ e.urlFile = "missing"
     \/ e.production /\ ~e.url /\ e.urlFile # "url"
    THEN "refused"
    ELSE IF e.url \/ e.urlFile = "url" THEN "postgres" ELSE "local"

\* KeyManager.__init__, and which provider its snapshot uses.
Provider(e) ==
  CASE HasFile(e, "keyring") /\ e.vault  -> "refused"
    [] HasFile(e, "keyring") /\ ~e.vault -> "keyring"
    [] ~HasFile(e, "keyring") /\ e.vault ->
         IF e.complete /\ HasFile(e, "vaultToken") THEN "vault" ELSE "refused"
    [] OTHER -> IF State(e) # "local" \/ e.production THEN "refused" ELSE "directory"

\* What an environment allows to start, if database and provider answer.
MayStart(e) ==
  /\ ~Conflicting(e) /\ State(e) # "refused" /\ Provider(e) # "refused"
  /\ e.production => HasFile(e, "token")
=============================================================================
