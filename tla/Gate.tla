-------------------------------- MODULE Gate --------------------------------
(***************************************************************************)
(* The middleware reject_ambiguous_json (main.py): which requests it lets  *)
(* through, as it reads their raw bodies and the token file, and which of  *)
(* them change state, as the handlers read the validated ones.             *)
(***************************************************************************)
EXTENDS Startup

CONSTANTS
  Slot,         \* requests in progress
  Token,
  Blank,        \* a token file with nothing in it
  Missing,      \* no token file to read
  None,         \* no Authorization header
  Env,          \* environments a process is started with
  Body          \* request bodies

Route == {"create", "verify", "legacyCreate", "legacyVerify", "verifyLegacy"}

\* consume_nonce as it is written; "yes" and "no" stand for the strings
\* pydantic reads as booleans, "1" and "0" for the numbers, "empty" for "",
\* [] and {}, "text" for whatever else.
Raw == {"absent", "null", "true", "false", "1", "0", "yes", "no", "empty", "text"}

BodyForm ==
  [route : Route, json : {"object", "other", "ambiguous"},
   mode : {"absent", "archival", "acceptance", "other"}, consume : Raw]

ASSUME GateAssumption ==
  /\ Env \subseteq EnvForm /\ Body \subseteq BodyForm
  /\ Blank \notin Token /\ Missing \notin Token \cup {Blank}
  /\ None \notin Token \cup {Blank, Missing}

VARIABLES
  env, up,      \* the container's environment, and whether its process serves
  mounted,      \* what the file holds that JEP_SIGNING_TOKEN_FILE names
  private,      \* what entrypoint.py wrote for JEP_SIGNING_TOKEN
  flight        \* each request in progress

vars == <<env, up, mounted, private, flight>>

Content == Token \cup {Blank, Missing}
Idle    == [pc |-> "idle", body |-> None, bearer |-> None, since |-> {}]

Form ==
  [pc : {"idle", "gate", "handler", "malformed", "unauthorised", "unavailable", "answered", "changed"},
   body : Body \cup {None}, bearer : Token \cup {None},
   since : SUBSET Content]      \* what the token file has held meanwhile

Guarded == HasFile(env, "token")
HeldIn(m) == IF "token" \in env.value THEN private ELSE m
Held      == HeldIn(mounted)

Init ==
  /\ env \in Env /\ up = FALSE
  /\ mounted \in Content /\ private = Missing
  /\ flight = [s \in Slot |-> Idle]

\* Mutant: what is not set is written, too.
StartAlways(value) ==
  /\ ~up /\ MayStart(env) /\ up' = TRUE
  /\ private' = IF "token" \in env.value THEN value ELSE None
  /\ UNCHANGED <<env, mounted, flight>>

\* The container starts: entrypoint.py, then the guards.
Start(value) ==
  /\ ~up /\ MayStart(env) /\ up' = TRUE
  /\ private' = IF "token" \in env.value THEN value ELSE Missing
  /\ UNCHANGED <<env, mounted, flight>>

\* It stops or crashes, and may be started again.
Stop ==
  /\ up /\ up' = FALSE /\ private' = Missing
  /\ flight' = [s \in Slot |-> Idle]
  /\ UNCHANGED <<env, mounted>>

\* The token is rotated: replaced, emptied, taken away, restored.
Rotate(content) ==
  /\ content # mounted /\ mounted' = content
  /\ flight' = [s \in Slot |-> [flight[s] EXCEPT !.since =
                  IF flight[s].pc = "idle" THEN {} ELSE @ \cup {HeldIn(content)}]]
  /\ UNCHANGED <<env, up, private>>

Arrive(s, body, bearer) ==
  /\ up /\ flight[s].pc = "idle"
  /\ flight' = [flight EXCEPT ![s] =
       [pc |-> "gate", body |-> body, bearer |-> bearer, since |-> {Held}]]
  /\ UNCHANGED <<env, up, mounted, private>>

To(s, pc) ==
  /\ flight' = [flight EXCEPT ![s].pc = pc]
  /\ UNCHANGED <<env, up, mounted, private>>

At(s, pc) == flight[s].pc = pc

\* bool(...) of the raw member.
Truthy(raw) == raw \in {"true", "1", "yes", "no", "text"}

\* What pydantic makes of it.
Consumes(raw)  == raw \in {"true", "1", "yes"}
Boolean(raw)   == Consumes(raw) \/ raw \in {"absent", "false", "0", "no"}

\* Mutant: only a JSON true counts as consumption.
MutatesStateStrict(body) ==
  \/ body.route \in {"create", "legacyCreate"}
  \/ /\ body.route \in {"verify", "legacyVerify"} /\ body.json = "object"
     /\ body.mode = "acceptance" \/ body.consume = "true"

\* mutates_state.
MutatesState(body) ==
  \/ body.route \in {"create", "legacyCreate"}
  \/ /\ body.route \in {"verify", "legacyVerify"} /\ body.json = "object"
     /\ body.mode = "acceptance" \/ Truthy(body.consume)

\* What a body that passes validation asks the handler for.
Valid(body) ==
  /\ body.json = "object"
  /\ body.route \in {"verify", "legacyVerify"} => body.mode # "other"
  /\ body.route = "legacyVerify" => Boolean(body.consume)

Changes(body) ==
  /\ Valid(body)
  /\ \/ body.route \in {"create", "legacyCreate"}
     \/ body.route \in {"verify", "legacyVerify"} /\ body.mode = "acceptance"
     \/ body.route = "legacyVerify" /\ Consumes(body.consume)

\* Duplicate members, non-finite numbers, broken JSON or UTF-8.
Malformed(s) ==
  /\ At(s, "gate") /\ flight[s].body.json = "ambiguous"
  /\ To(s, "malformed")

Checked(s) ==
  /\ At(s, "gate") /\ flight[s].body.json # "ambiguous"
  /\ MutatesState(flight[s].body) /\ Guarded

Unreadable(s) == Checked(s) /\ Held = Missing /\ To(s, "unavailable")

\* Mutant: the file's line end is compared, too.
AdmittedUnstripped(s) == FALSE

Admitted(s) == flight[s].bearer = Held /\ Held # Blank

Refuse(s) == Checked(s) /\ Held # Missing /\ ~Admitted(s) /\ To(s, "unauthorised")

Pass(s) ==
  /\ At(s, "gate") /\ flight[s].body.json # "ambiguous"
  /\ Checked(s) => Held # Missing /\ Admitted(s)
  /\ To(s, "handler")

\* The handler changes state (events, ledger, nonces, acceptances), or
\* answers and does not.
Change(s) == At(s, "handler") /\ Changes(flight[s].body) /\ To(s, "changed")
Answer(s) == At(s, "handler") /\ To(s, "answered")

Leave(s) ==
  /\ flight[s].pc \notin {"idle", "gate", "handler"}
  /\ flight' = [flight EXCEPT ![s] = Idle]
  /\ UNCHANGED <<env, up, mounted, private>>

Next ==
  \/ \E value \in Token \cup {Blank} : Start(value)
  \/ Stop
  \/ \E content \in Content : Rotate(content)
  \/ \E s \in Slot :
       \/ \E body \in Body, bearer \in Token \cup {None} : Arrive(s, body, bearer)
       \/ Malformed(s) \/ Unreadable(s) \/ Refuse(s) \/ Pass(s)
       \/ Change(s) \/ Answer(s) \/ Leave(s)

Spec == Init /\ [][Next]_vars

-----------------------------------------------------------------------------
(* Properties.                                                             *)

\* Each request is at a place of its own, with the contents it has seen.
TypeOK ==
  /\ env \in Env /\ up \in BOOLEAN
  /\ mounted \in Content /\ private \in Content
  /\ flight \in [Slot -> Form]

\* A production deployment, and any that configures a token, changes state
\* only for a caller who presents a token the file held while the request was
\* in progress: not an old one, nor nothing where the file is blank or gone.
EffectIsAuthenticated ==
  \A s \in Slot : At(s, "changed") /\ (env.production \/ Guarded) =>
    flight[s].bearer \in Token \cap flight[s].since

\* Who presents the token the file held all the time is not refused.
HolderIsAdmitted ==
  \A s \in Slot : At(s, "unauthorised") => flight[s].since # {flight[s].bearer}

\* What production serves it serves from the shared database, with keys from
\* an external provider.
ProductionIsShared ==
  up /\ env.production => State(env) = "postgres" /\ Provider(env) \in {"keyring", "vault"}

\* DEPLOYMENT.md: "Archival verification without consumption stays read-only
\* and public."
ArchivalIsPublic ==
  \A s \in Slot : At(s, "unauthorised") => Changes(flight[s].body) \/ ~Valid(flight[s].body)
=============================================================================
