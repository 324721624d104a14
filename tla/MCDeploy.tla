------------------------------ MODULE MCDeploy ------------------------------
(***************************************************************************)
(* Deploy for TLC: configurations the script passes and ones it does not,  *)
(* of either kind some that cannot start.                                  *)
(***************************************************************************)
EXTENDS Deploy

CONSTANTS r1, r2

Plain == [production |-> FALSE, url |-> FALSE, urlFile |-> "none", vault |-> FALSE,
          complete |-> FALSE, value |-> {}, path |-> {}]
Hosted    == [Plain EXCEPT !.production = TRUE, !.url = TRUE, !.value = {"keyring", "token"}]
Vaulted   == [Hosted EXCEPT !.vault = TRUE, !.complete = TRUE, !.value = {"vaultToken", "token"}]
Both      == [Vaulted EXCEPT !.value = {"keyring", "vaultToken", "token"}]
Twice     == [Hosted EXCEPT !.path = {"token"}]
Rehearsal == [Hosted EXCEPT !.production = FALSE]
Tokenless == [Hosted EXCEPT !.value = {"keyring"}]

SomeEnv == {Plain, Hosted, Vaulted, Both, Twice, Rehearsal, Tokenless}
=============================================================================
