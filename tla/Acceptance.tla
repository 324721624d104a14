----------------------------- MODULE Acceptance -----------------------------
(***************************************************************************)
(* POST /v0.7/events/verify (main.py, validate_event_07) as any number of  *)
(* workers run it over one shared database: the key registry read that     *)
(* resolves the signature, the separate readings of the host's clock at    *)
(* the TTL, age and acceptance steps, and accept_event_identity            *)
(* (state.py), atomic in SQLite and statement by statement in PostgreSQL.  *)
(* Registry and storage fail, workers die, answers are lost, clocks err,   *)
(* and callers submit and resubmit what they like.                         *)
(***************************************************************************)
EXTENDS Integers

CONSTANTS
  Worker,       \* request threads, of one replica or of several
  Identity,     \* Event Identities (who, id)
  Content,      \* unsigned contents; payload_digest tells them apart
  Kid,          \* key identifiers of protected headers
  Audience,     \* values of aud
  Event,        \* signed events that are submitted, see EventForm
  Submission,   \* requests: an event, a mode and the caller's options
  ClockSkew,    \* CLOCK_SKEW_SECONDS
  Drift,        \* how far a host's clock may be from true time
  MaxTime,      \* bound on true time, for TLC
  None

Time  == 0 .. MaxTime
Stamp == 0 .. (MaxTime + Drift)   \* what int(time.time()) returns

\* An event as the checks see it.  "wellFormed": JCS, schema, the type of
\* when and the signature container with its protected header pass;
\* "genuine": the signature verifies under the registered key of its kid;
\* "extensionsOk": critical and known extensions pass.
EventForm ==
  [id : Identity, content : Content, kid : Kid, wellFormed : BOOLEAN,
   genuine : BOOLEAN, extensionsOk : BOOLEAN,
   when : Int, expires : Int \cup {None}, aud : Audience \cup {None}]

\* The request model admits archival and acceptance; another mode comes only
\* from a caller inside the process.
SubmissionForm ==
  [event : Event, mode : {"archival", "acceptance", "other"},
   audience : Audience \cup {None}, maxAge : Nat \cup {None}]

Outcome == {"accepted", "already_accepted", "rejected", "indeterminate", "archival"}
Code ==
  {"ERR_INVALID_MODE", "ERR_SYNTAX", "ERR_KEY_UNRESOLVED", "ERR_SIGNATURE_INVALID",
   "ERR_EXTENSION", "ERR_EVENT_EXPIRED", "ERR_DOMAIN_REQUIREMENT_UNSATISFIED",
   "ERR_TIMESTAMP_OUT_OF_WINDOW", "ERR_EVENT_ID_CONFLICT",
   "ERR_ACCEPTANCE_STATE_UNAVAILABLE"}
Answer == [outcome : Outcome, code : Code \cup {None}]

\* A row of accepted_events: payload_digest, event_hash and accepted_at.
Row == [content : Content, event : Event, at : Stamp]

\* The digest covers every member but sig: events of one content differ only
\* in who signed them and how well.
ASSUME AcceptanceAssumption ==
  /\ \A e \in Event : e \in EventForm
  /\ \A s \in Submission : s \in SubmissionForm
  /\ \A e, f \in Event : e.content = f.content =>
       /\ e.id = f.id /\ e.when = f.when /\ e.expires = f.expires
       /\ e.aud = f.aud /\ e.extensionsOk = f.extensionsOk
  /\ ClockSkew \in Nat /\ Drift \in Nat /\ MaxTime \in Nat
  /\ None \notin Content \cup Identity \cup Code \cup Audience \cup Kid
  /\ None \notin Submission \cup Event
  /\ \A r \in Row : r # None
  /\ \A a \in Answer : a # None

VARIABLES
  database,     \* what configured_state opened, for good: LocalState or PostgresState
  accepted,     \* accepted_events: accepted[i] is the row of identity i
  known,        \* public_keys: the kids that resolve
  clock,        \* true time, in seconds
  pc,           \* where each worker's validate_event_07 stands
  sub,          \* the submission it checks
  now,          \* the time it hands to accept_event_identity
  ans,          \* the result it is about to return
  prior,        \* its content was accepted before the submission arrived
  since,        \* history: when it arrived, until it is answered
  applied,      \* applied[i]: effect_applied: true answers that arrived
  told          \* the already_accepted and conflict answers that arrived

store == <<accepted, known>>
world == <<database, clock>>
local == <<pc, sub, now, ans, prior, since>>
heard == <<applied, told>>
vars  == <<database, accepted, known, clock, pc, sub, now, ans, prior, since, applied, told>>

Ev(w)    == sub[w].event
RowOf(w) == accepted[Ev(w).id]

Init ==
  /\ database \in {"sqlite", "postgresql"}
  /\ accepted = [i \in Identity |-> None]
  /\ known \in SUBSET Kid
  /\ clock = 0
  /\ pc = [w \in Worker |-> "idle"]
  /\ sub = [w \in Worker |-> None]
  /\ now = [w \in Worker |-> None]
  /\ ans = [w \in Worker |-> None]
  /\ prior = [w \in Worker |-> FALSE]
  /\ since = [w \in Worker |-> None]
  /\ applied = [i \in Identity |-> 0]
  /\ told = {}

Postgres == database = "postgresql"
\* What a host may read when true time is clock.
Reading == {t \in Stamp : clock - Drift <= t /\ t <= clock + Drift}

At(w, here)    == pc[w] = here
Goto(w, to)    == pc' = [pc EXCEPT ![w] = to]
Continue(w, to) == Goto(w, to) /\ UNCHANGED <<sub, now, ans, prior, since>>

Return(w, outcome, code) ==
  /\ Goto(w, "reply")
  /\ ans' = [ans EXCEPT ![w] = [outcome |-> outcome, code |-> code]]
  /\ since' = [since EXCEPT ![w] = None]
  /\ UNCHANGED <<sub, now, prior>>

\* fail(): indeterminate and rejected are acceptance outcomes; an archival
\* caller reads the same from status.
Fail(w, code)      == Return(w, "rejected", code)
Uncertain(w, code) == Return(w, "indeterminate", code)

Settle(w) ==
  /\ Goto(w, "idle")
  /\ sub' = [sub EXCEPT ![w] = None]
  /\ now' = [now EXCEPT ![w] = None]
  /\ ans' = [ans EXCEPT ![w] = None]
  /\ prior' = [prior EXCEPT ![w] = FALSE]
  /\ since' = [since EXCEPT ![w] = None]

-----------------------------------------------------------------------------
(* The handler.                                                            *)

Receive(w, s) ==
  /\ At(w, "idle")
  /\ Goto(w, "check")
  /\ sub' = [sub EXCEPT ![w] = s]
  /\ prior' = [prior EXCEPT ![w] =
                 /\ accepted[s.event.id] # None
                 /\ accepted[s.event.id].content = s.event.content]
  /\ since' = [since EXCEPT ![w] = clock]
  /\ UNCHANGED <<store, world, now, ans, heard>>

\* The first check that fails, in the handler's order, if one does.
EventError(s) ==
  IF s.mode = "other"                    THEN "ERR_INVALID_MODE"
  ELSE IF ~s.event.wellFormed            THEN "ERR_SYNTAX"
  ELSE IF s.event.kid \notin known       THEN "ERR_KEY_UNRESOLVED"
  ELSE IF ~s.event.genuine               THEN "ERR_SIGNATURE_INVALID"
  ELSE IF ~s.event.extensionsOk          THEN "ERR_EXTENSION"
  ELSE None

\* Mutant: the identity is taken before TTL, audience and max_age are checked.
CheckEventDecides(w) ==
  /\ At(w, "check")
  /\ LET c == EventError(sub[w]) IN
     IF c = "ERR_KEY_UNRESOLVED" THEN Uncertain(w, c)
     ELSE IF c # None THEN Fail(w, c)
     ELSE Continue(w, IF sub[w].mode = "acceptance" THEN "decide" ELSE "scope")
  /\ UNCHANGED <<store, world, heard>>

\* Mode, syntax, signature and extensions: one reading of the registry.
CheckEvent(w) ==
  /\ At(w, "check")
  /\ LET c == EventError(sub[w]) IN
     IF c = "ERR_KEY_UNRESOLVED" THEN Uncertain(w, c)
     ELSE IF c # None THEN Fail(w, c)
     ELSE IF sub[w].mode = "acceptance" /\ Ev(w).expires # None
       THEN Continue(w, "ttl")
       ELSE Continue(w, "scope")
  /\ UNCHANGED <<store, world, heard>>

\* The first clock reading, against the event's own TTL.
CheckTTL(w) ==
  /\ At(w, "ttl")
  /\ \E t \in Reading :
       IF t >= Ev(w).expires
         THEN Fail(w, "ERR_EVENT_EXPIRED")
         ELSE Continue(w, "scope")
  /\ UNCHANGED <<store, world, heard>>

ScopeError(s, t) ==
  IF s.audience # None /\ s.event.aud # s.audience
    THEN "ERR_DOMAIN_REQUIREMENT_UNSATISFIED"
  ELSE IF s.maxAge = None                THEN None
  ELSE IF s.event.when < t - s.maxAge THEN "ERR_EVENT_EXPIRED"
  ELSE IF s.event.when > t + ClockSkew THEN "ERR_TIMESTAMP_OUT_OF_WINDOW"
  ELSE None

\* Audience, and the second clock reading against the caller's max_age.
CheckScope(w) ==
  /\ At(w, "scope")
  /\ \E t \in Reading : LET c == ScopeError(sub[w], t) IN
     IF c # None THEN Fail(w, c)
     ELSE IF sub[w].mode = "archival"
       THEN Return(w, "archival", None)
       ELSE Continue(w, "decide")
  /\ UNCHANGED <<store, world, heard>>

\* Mutant: no time is handed on.
ReadClockForgotten(w) ==
  /\ At(w, "decide")
  /\ Continue(w, "record")
  /\ UNCHANGED <<store, world, heard>>

\* now=int(time.time()), evaluated before the database is entered.
ReadClock(w) ==
  /\ At(w, "decide")
  /\ Goto(w, "record")
  /\ \E t \in Reading : now' = [now EXCEPT ![w] = t]
  /\ UNCHANGED <<store, world, sub, ans, prior, since, heard>>

\* Mutant: any row of the identity counts as another event's.
ReturnConflict(w) == Fail(w, "ERR_EVENT_ID_CONFLICT")

\* Mutant: event_hash, which covers sig, is compared in place of the digest.
ReturnFromRowByEvent(w) ==
  IF RowOf(w).event = Ev(w)
    THEN Return(w, "already_accepted", None)
    ELSE Fail(w, "ERR_EVENT_ID_CONFLICT")

\* What accept_event_identity answers from a row that is there.
ReturnFromRow(w) ==
  IF RowOf(w).content = Ev(w).content
    THEN Return(w, "already_accepted", None)
    ELSE Fail(w, "ERR_EVENT_ID_CONFLICT")

WriteRow(w) ==
  accepted' = [accepted EXCEPT ![Ev(w).id] =
                 [content |-> Ev(w).content, event |-> Ev(w), at |-> now[w]]]

\* LocalState.accept_event_identity: BEGIN IMMEDIATE makes it one step.
RecordLocal(w) ==
  /\ ~Postgres /\ At(w, "record")
  /\ IF RowOf(w) # None
       THEN ReturnFromRow(w) /\ UNCHANGED accepted
       ELSE WriteRow(w) /\ Return(w, "accepted", None)
  /\ UNCHANGED <<known, world, heard>>

\* PostgresState.accept_event_identity: INSERT waits for an uncommitted row
\* of the same identity, and conflicts with a committed one.
HoldsIdentity(v, i) == pc[v] = "commit" /\ Ev(v).id = i

\* Mutant: no unique key, so INSERT neither waits nor conflicts.
PgInsertBlind(w) ==
  /\ Postgres /\ At(w, "record")
  /\ Continue(w, "commit")
  /\ UNCHANGED <<store, world, heard>>

PgInsert(w) ==
  /\ Postgres /\ At(w, "record")
  /\ \A v \in Worker : ~HoldsIdentity(v, Ev(w).id)
  /\ Continue(w, IF RowOf(w) = None THEN "commit" ELSE "select")
  /\ UNCHANGED <<store, world, heard>>

\* Mutant: an identity that is taken counts as a storage failure.
PgSelectGivesUp(w) ==
  /\ At(w, "select")
  /\ Uncertain(w, "ERR_ACCEPTANCE_STATE_UNAVAILABLE")
  /\ UNCHANGED <<store, world, heard>>

PgSelect(w) ==
  /\ At(w, "select")
  /\ IF RowOf(w) = None
       THEN Uncertain(w, "ERR_ACCEPTANCE_STATE_UNAVAILABLE")
       ELSE ReturnFromRow(w)
  /\ UNCHANGED <<store, world, heard>>

\* Mutant: the answer leaves before the commit, which is lost.
PgCommitForgotten(w) ==
  /\ At(w, "commit")
  /\ Return(w, "accepted", None)
  /\ UNCHANGED <<store, world, heard>>

PgCommit(w) ==
  /\ At(w, "commit")
  /\ WriteRow(w)
  /\ Return(w, "accepted", None)
  /\ UNCHANGED <<known, world, heard>>

\* The answer arrives.  Of the later answers, the two that speak of the
\* identity's decision are kept.
Later(w) ==
  IF ans[w].outcome = "already_accepted"          THEN {"already_accepted"}
  ELSE IF ans[w].code = "ERR_EVENT_ID_CONFLICT"   THEN {"conflict"}
  ELSE {}

Deliver(w) ==
  /\ At(w, "reply")
  /\ applied' = IF ans[w].outcome = "accepted"
                  THEN [applied EXCEPT ![Ev(w).id] = @ + 1]
                  ELSE applied
  /\ told' = told \cup
       {[id |-> Ev(w).id, content |-> Ev(w).content, outcome |-> x] : x \in Later(w)}
  /\ Settle(w)
  /\ UNCHANGED <<store, world>>

-----------------------------------------------------------------------------
(* What goes wrong, and what goes on.                                      *)

\* The registry cannot be read.
RegistryDown(w) ==
  /\ At(w, "check") /\ sub[w].mode # "other" /\ Ev(w).wellFormed
  /\ Uncertain(w, "ERR_KEY_UNRESOLVED")
  /\ UNCHANGED <<store, world, heard>>

\* The database fails, or a lock wait times out, and nothing is committed.
StorageDown(w) ==
  /\ pc[w] \in {"record", "select", "commit"}
  /\ Uncertain(w, "ERR_ACCEPTANCE_STATE_UNAVAILABLE")
  /\ UNCHANGED <<store, world, heard>>

\* The connection dies after the commit: indeterminate, and decided.
LostCommit(w) ==
  /\ At(w, "commit") \/ (At(w, "record") /\ ~Postgres /\ RowOf(w) = None)
  /\ WriteRow(w)
  /\ Uncertain(w, "ERR_ACCEPTANCE_STATE_UNAVAILABLE")
  /\ UNCHANGED <<known, world, heard>>

\* The worker dies, or its answer does.
Vanish(w) ==
  /\ ~At(w, "idle")
  /\ Settle(w)
  /\ UNCHANGED <<store, world, heard>>

Tick ==
  /\ clock < MaxTime
  /\ clock' = clock + 1
  /\ UNCHANGED <<database, store, local, heard>>

\* A signer of some replica, or the migration, registers a key.
Register(k) ==
  /\ known' = known \cup {k}
  /\ UNCHANGED <<accepted, world, local, heard>>

-----------------------------------------------------------------------------
Step(w) ==
  \/ CheckEvent(w) \/ CheckTTL(w) \/ CheckScope(w) \/ ReadClock(w)
  \/ RecordLocal(w) \/ PgInsert(w) \/ PgSelect(w) \/ PgCommit(w)
  \/ Deliver(w)

Fault(w) == RegistryDown(w) \/ StorageDown(w) \/ LostCommit(w) \/ Vanish(w)

Next ==
  \/ \E w \in Worker : (\E s \in Submission : Receive(w, s)) \/ Step(w) \/ Fault(w)
  \/ Tick
  \/ \E k \in Kid : Register(k)

Spec == Init /\ [][Next]_vars

\* As in Creation: statements and lock waits end within ten seconds.
FairSpec == Spec /\ \A w \in Worker : WF_vars(Step(w) \/ StorageDown(w))

-----------------------------------------------------------------------------
(* Properties.                                                             *)

Place == {"idle", "check", "ttl", "scope", "decide", "record", "select", "commit", "reply"}

\* Every variable holds what validate_event_07 and its tables can hold.
TypeOK ==
  /\ database \in {"sqlite", "postgresql"}
  /\ accepted \in [Identity -> Row \cup {None}]
  /\ known \subseteq Kid
  /\ clock \in Time
  /\ pc \in [Worker -> Place]
  /\ sub \in [Worker -> Submission \cup {None}]
  /\ now \in [Worker -> Stamp \cup {None}]
  /\ ans \in [Worker -> Answer \cup {None}]
  /\ prior \in [Worker -> BOOLEAN]
  /\ since \in [Worker -> Time \cup {None}]
  /\ applied \in [Identity -> Nat]
  /\ told \subseteq [id : Identity, content : Content,
                     outcome : {"already_accepted", "conflict"}]

Claims(w, i) == pc[w] = "reply" /\ ans[w].outcome = "accepted" /\ Ev(w).id = i

\* effect_applied: true is answered at most once per Event Identity, over
\* all workers, replicas, retries and lost commits: a caller who acts on it
\* acts alone.
EffectAppliedOnce ==
  \A i \in Identity :
    /\ applied[i] <= 1
    /\ \A v, w \in Worker :
         Claims(v, i) => applied[i] = 0 /\ (Claims(w, i) => v = w)

\* An effect_applied: true answer, arrived or under way, is backed by a
\* committed row: no decision is announced that a restart could undo.
EffectIsDurable ==
  /\ \A i \in Identity : applied[i] > 0 => accepted[i] # None
  /\ \A w \in Worker : pc[w] = "reply" /\ ans[w].outcome = "accepted" =>
       RowOf(w) # None /\ RowOf(w).event = Ev(w)

\* already_accepted and ERR_EVENT_ID_CONFLICT tell the truth about the
\* identity's one decision, and go on doing so.
LaterAnswersAreTruthful ==
  \A t \in told :
    /\ accepted[t.id] # None
    /\ (accepted[t.id].content = t.content) <=> (t.outcome = "already_accepted")

\* What the checks of a submission that arrived at one time and is decided at
\* another let through: each clock reading was of a moment in between.
PassesEveryCheck(s, from, to) ==
  LET e == s.event
      Moment == (from - Drift) .. (to + Drift)
  IN /\ s.mode = "acceptance"
     /\ e.wellFormed /\ e.genuine /\ e.extensionsOk /\ e.kid \in known
     /\ s.audience # None => e.aud = s.audience
     /\ e.expires # None => \E t \in Moment : t < e.expires
     /\ s.maxAge # None =>
          \E t \in Moment : t - s.maxAge <= e.when /\ e.when <= t + ClockSkew

\* An identity is only ever taken by an event that passed every check of its
\* own request, those of the caller's audience and max_age and of its TTL
\* included, while that request ran: invalid input consumes no acceptance
\* state, whatever other requests have passed.
OnlyCheckedEventsDecide ==
  [][\A i \in Identity : accepted'[i] # accepted[i] =>
       \E w \in Worker :
         /\ pc[w] \notin {"idle", "reply"} /\ Ev(w).id = i
         /\ accepted'[i] # None
         /\ accepted'[i].event = Ev(w) /\ accepted'[i].content = Ev(w).content
         /\ PassesEveryCheck(sub[w], since[w], clock)]_vars

\* The resubmission of a content that was accepted before it arrived is told
\* so, unless storage fails or time, audience or signature now refuse it; it
\* is never applied again and never called a conflict.
ResubmissionIsRecognised ==
  \A w \in Worker : pc[w] = "reply" /\ prior[w] =>
    /\ ans[w].outcome # "accepted"
    /\ ans[w].code # "ERR_EVENT_ID_CONFLICT"
    /\ ans[w].outcome = "rejected" =>
         \/ sub[w].mode = "other"
         \/ ~Ev(w).wellFormed \/ ~Ev(w).genuine
         \/ Ev(w).expires # None /\ clock + Drift >= Ev(w).expires
         \/ sub[w].maxAge # None \/ sub[w].audience # None

\* A decision is final: no step replaces or removes an accepted row, its
\* event or its time.
DecisionIsFinal ==
  [][\A i \in Identity : accepted[i] # None => accepted'[i] = accepted[i]]_vars

\* validate_event_07 over either database does what AcceptancePromise says.
Promise == INSTANCE AcceptancePromise WITH
  decided <- [i \in Identity |-> IF accepted[i] = None THEN None ELSE accepted[i].content],
  applied <- {i \in Identity : applied[i] > 0}
KeepsPromise == Promise!Spec

\* A refusal that is delivered changes what one that is lost does: no failure.
Failure == \E w \in Worker : Fault(w) /\ ~Step(w)
Resent(s) == \E w \in Worker : Receive(w, s)
Timeless(s) ==
  /\ s.mode = "acceptance" /\ s.audience = None /\ s.maxAge = None
  /\ s.event.expires = None /\ s.event.wellFormed /\ s.event.genuine
  /\ s.event.extensionsOk

\* For ERR_ACCEPTANCE_STATE_UNAVAILABLE, retry the same event after storage
\* recovers: resending a sound event without expiry whose key is registered
\* brings a decision about its content, whatever the failures left behind.
ResendingDecides ==
  \A s \in Submission : Timeless(s) =>
    ((<>[][~Failure]_vars /\ <>(s.event.kid \in known) /\ []<><<Resent(s)>>_vars)
       => <>(\/ /\ applied[s.event.id] > 0
                 /\ accepted[s.event.id].content = s.event.content
             \/ \E t \in told : t.id = s.event.id /\ t.content = s.event.content))

-----------------------------------------------------------------------------
(* What the documents say and the code does not keep.                      *)

\* README.md: the same identity and unsigned content again is answered
\* already_accepted.  The TTL check comes before the acceptance lookup.
SameContentAgainIsAlreadyAccepted ==
  \A w \in Worker :
    /\ pc[w] = "reply" /\ prior[w]
    /\ sub[w].mode = "acceptance" /\ sub[w].audience = None /\ sub[w].maxAge = None
    /\ Ev(w).wellFormed /\ Ev(w).genuine
    /\ ans[w].outcome # "indeterminate"
    => ans[w].outcome = "already_accepted"
=============================================================================
