------------------------------ MODULE Creation ------------------------------
(***************************************************************************)
(* POST /v0.7/events/create (main.py, create_event_07) as any number of    *)
(* workers run it over one shared database: the ledger lookup, the signing *)
(* of a fresh artifact, its validation, and the transaction that saves     *)
(* ledger row and event together (state.py, save_created_response), in     *)
(* SQLite or statement by statement in PostgreSQL.  Workers crash, replies *)
(* are lost, storage and signer fail at any call, time passes, the active  *)
(* signing key rotates, and callers resend whatever they like.             *)
(***************************************************************************)
EXTENDS Naturals

CONSTANTS
  Worker,       \* request threads, of one replica or of several
  Request,      \* request bodies; different bodies have different digests
  Key,          \* request_key values, the digests of (who, id)
  KeyOf,        \* KeyOf[r] \in Key \cup {NoKey}
  NoKey,        \* req.id is None
  Unhashable,   \* requests JCS refuses: no digest, no signature
  Invalid,      \* requests whose signed event fails validation
  Salted,       \* requests with digest_only_who, whose salt is drawn
  Kid,          \* signing key ids the deployment rotates through
  Draw,         \* results of uuid4, never drawn twice
  MaxTime,      \* bound on the clock, for TLC
  None

Time     == 0 .. MaxTime
Artifact == [req : Request, when : Time, kid : Kid, draw : Draw \cup {None}]
Draft    == [req : Request, when : Time, kid : {None}, draw : Draw \cup {None}]
Row      == [req : Request, art : Artifact]
Status   == {200, 409, 422, 503}
Answer   == [status : Status, art : Artifact \cup {None}]

ASSUME CreationAssumption ==
  /\ KeyOf \in [Request -> Key \cup {NoKey}]
  /\ NoKey \notin Key
  /\ Unhashable \subseteq Request /\ Invalid \subseteq Request
  /\ Salted \subseteq Request
  /\ None \notin Artifact \cup Draft \cup Row \cup Answer
  /\ None \notin Request \cup Kid \cup Draw
  /\ MaxTime \in Nat

VARIABLES
  database,     \* what configured_state opened, for good: LocalState or PostgresState
  ledger,       \* created_requests: ledger[k] is the row of request_key k
  events,       \* events: the artifacts saved
  registered,   \* public_keys: the kids a signature can be resolved with
  active,       \* the kid the signing key configuration names active
  clock,        \* int(time.time())
  drawn,        \* uuid4 results used up
  pc,           \* where each worker's handler stands
  req,          \* the request it serves
  art,          \* the event it is building
  ans,          \* the response it is about to return
  told          \* the 200 and 409 responses that reached a caller

store == <<ledger, events, registered>>
world == <<database, active, clock>>
local == <<pc, req, art, ans>>
vars  == <<database, ledger, events, registered, active, clock, drawn, pc, req, art, ans, told>>

Postgres  == database = "postgresql"
Keyed(r)  == KeyOf[r] # NoKey
RowOf(w)  == ledger[KeyOf[req[w]]]

\* uuid4 makes the salt, the id of a request that names none, and the nonce
\* of a legacy event: POST /events/create is served like a request without
\* an id, with validate_event, which reads no further state, as its check.
Draws(r)  == r \in Salted \/ ~Keyed(r)

\* The tables are new; starting the API took a snapshot, which registered
\* the key that is active.
Init ==
  /\ database \in {"sqlite", "postgresql"}
  /\ ledger = [k \in Key |-> None]
  /\ events = {}
  /\ active \in Kid /\ registered = {active}
  /\ clock = 0 /\ drawn = {}
  /\ pc = [w \in Worker |-> "idle"]
  /\ req = [w \in Worker |-> None]
  /\ art = [w \in Worker |-> None]
  /\ ans = [w \in Worker |-> None]
  /\ told = {}

At(w, here)  == pc[w] = here
Goto(w, to)  == pc' = [pc EXCEPT ![w] = to]

\* The handler returns, or raises HTTPException: the work is over, the
\* response is on its way.
Respond(w, status, a) ==
  /\ Goto(w, "reply")
  /\ ans' = [ans EXCEPT ![w] = [status |-> status, art |-> a]]
  /\ art' = [art EXCEPT ![w] = None]
  /\ UNCHANGED req

\* creation_response on a row that is there: conflict, or the original.
RespondFromRow(w) ==
  IF RowOf(w).req # req[w]
    THEN Respond(w, 409, None)
    ELSE Respond(w, 200, RowOf(w).art)

Settle(w) ==
  /\ Goto(w, "idle")
  /\ req' = [req EXCEPT ![w] = None]
  /\ art' = [art EXCEPT ![w] = None]
  /\ ans' = [ans EXCEPT ![w] = None]

-----------------------------------------------------------------------------
(* The handler.                                                            *)

Receive(w, r) ==
  /\ At(w, "idle")
  /\ Goto(w, IF Keyed(r) THEN "lookup" ELSE "stamp")
  /\ req' = [req EXCEPT ![w] = r]
  /\ UNCHANGED <<store, world, drawn, art, ans, told>>

\* Mutant: an identity that is taken is refused as invalid input.
LookupRefusesTaken(w) ==
  /\ At(w, "lookup")
  /\ IF req[w] \in Unhashable \/ RowOf(w) # None
       THEN Respond(w, 422, None)
       ELSE Goto(w, "stamp") /\ UNCHANGED <<req, art, ans>>
  /\ UNCHANGED <<store, world, drawn, told>>

\* STATE.created_response, in a transaction of its own.
Lookup(w) ==
  /\ At(w, "lookup")
  /\ \/ /\ req[w] \in Unhashable
        /\ Respond(w, 422, None)
     \/ /\ req[w] \notin Unhashable
        /\ RowOf(w) # None
        /\ RespondFromRow(w)
     \/ /\ req[w] \notin Unhashable
        /\ RowOf(w) = None
        /\ Goto(w, "stamp")
        /\ UNCHANGED <<req, art, ans>>
  /\ UNCHANGED <<store, world, drawn, told>>

\* now, the uuid4 draw and the unsigned event; the kid is the signer's.
Stamp(w) ==
  /\ At(w, "stamp")
  /\ \E d \in IF Draws(req[w]) THEN Draw \ drawn ELSE {None} :
       /\ art' = [art EXCEPT ![w] =
                    [req |-> req[w], when |-> clock, kid |-> None, draw |-> d]]
       /\ drawn' = drawn \cup ({d} \ {None})
  /\ Goto(w, "sign")
  /\ UNCHANGED <<store, world, req, ans, told>>

\* detached_jws_sign: the snapshot registers the active public key before
\* the private one signs.  (The configuration's other keys, which it
\* registers too, sign nothing here.)
Sign(w) ==
  /\ At(w, "sign")
  /\ registered' = registered \cup {active}
  /\ IF req[w] \in Unhashable
       THEN Respond(w, 422, None)
       ELSE /\ art' = [art EXCEPT ![w].kid = active]
            /\ Goto(w, "validate")
            /\ UNCHANGED <<req, ans>>
  /\ UNCHANGED <<ledger, events, world, drawn, told>>

\* validate_event_07(event, mode="archival") on the handler's own event.
Validate(w) ==
  /\ At(w, "validate")
  /\ IF req[w] \in Invalid \/ art[w].kid \notin registered
       THEN Respond(w, 422, None)
       ELSE Goto(w, "save") /\ UNCHANGED <<req, art, ans>>
  /\ UNCHANGED <<store, world, drawn, told>>

\* STATE.save_event, one statement.
SaveEvent(w) ==
  /\ At(w, "save") /\ ~Keyed(req[w])
  /\ events' = events \cup {art[w]}
  /\ Respond(w, 200, art[w])
  /\ UNCHANGED <<ledger, registered, world, drawn, told>>

\* Mutant: the ledger row is a mere reservation.
BindReservation(w) ==
  /\ ledger' = [ledger EXCEPT ![KeyOf[req[w]]] = [req |-> req[w], art |-> None]]
  /\ events' = events \cup {art[w]}

BindRow(w) ==
  /\ ledger' = [ledger EXCEPT ![KeyOf[req[w]]] = [req |-> req[w], art |-> art[w]]]
  /\ events' = events \cup {art[w]}

\* Mutant: the lookup is trusted, the row is not read again.
SaveLocalUnchecked(w) ==
  /\ ~Postgres /\ At(w, "save") /\ Keyed(req[w])
  /\ BindRow(w) /\ Respond(w, 200, art[w])
  /\ UNCHANGED <<registered, world, drawn, told>>

\* Mutant: the event is inserted before the ledger is read.
SaveLocalEventFirst(w) ==
  /\ ~Postgres /\ At(w, "save") /\ Keyed(req[w])
  /\ IF RowOf(w) # None
       THEN RespondFromRow(w) /\ UNCHANGED ledger /\ events' = events \cup {art[w]}
       ELSE BindRow(w) /\ Respond(w, 200, art[w])
  /\ UNCHANGED <<registered, world, drawn, told>>

\* LocalState.save_created_response: BEGIN IMMEDIATE makes it one step.
SaveLocal(w) ==
  /\ ~Postgres /\ At(w, "save") /\ Keyed(req[w])
  /\ IF RowOf(w) # None
       THEN RespondFromRow(w) /\ UNCHANGED <<ledger, events>>
       ELSE BindRow(w) /\ Respond(w, 200, art[w])
  /\ UNCHANGED <<registered, world, drawn, told>>

\* PostgresState.save_created_response, first statement.  An uncommitted
\* row of another transaction under the same request_key makes INSERT wait;
\* its commit makes ON CONFLICT DO NOTHING return no row.
HoldsKey(v, k) == pc[v] = "insertEvent" /\ KeyOf[req[v]] = k

\* Mutant: no unique key, so INSERT neither waits nor conflicts.
PgInsertBlind(w) ==
  /\ Postgres /\ At(w, "save") /\ Keyed(req[w])
  /\ Goto(w, "insertEvent")
  /\ UNCHANGED <<store, world, drawn, req, art, ans, told>>

PgInsert(w) ==
  /\ Postgres /\ At(w, "save") /\ Keyed(req[w])
  /\ \A v \in Worker : ~HoldsKey(v, KeyOf[req[w]])
  /\ Goto(w, IF RowOf(w) = None THEN "insertEvent" ELSE "select")
  /\ UNCHANGED <<store, world, drawn, req, art, ans, told>>

\* Mutant: the loser answers with its own event.
PgSelectOwnArtifact(w) ==
  /\ At(w, "select")
  /\ Respond(w, IF RowOf(w).req = req[w] THEN 200 ELSE 409, art[w])
  /\ UNCHANGED <<store, world, drawn, told>>

\* Mutant: the loser inserts again until it wins.
PgSelectRetries(w) ==
  /\ At(w, "select")
  /\ Goto(w, "save")
  /\ UNCHANGED <<store, world, drawn, req, art, ans, told>>

\* The SELECT after a conflict; READ COMMITTED shows it the winner's row.
PgSelect(w) ==
  /\ At(w, "select")
  /\ IF RowOf(w) = None THEN Respond(w, 503, None) ELSE RespondFromRow(w)
  /\ UNCHANGED <<store, world, drawn, told>>

\* INSERT INTO jep_events, and the commit that publishes both rows.
PgCommit(w) ==
  /\ At(w, "insertEvent")
  /\ BindRow(w)
  /\ Respond(w, 200, art[w])
  /\ UNCHANGED <<registered, world, drawn, told>>

\* The response arrives.  422 and 503 are not recorded: they say nothing
\* about the identity, and the caller keeps nothing.
Deliver(w) ==
  /\ At(w, "reply")
  /\ told' = IF ans[w].status \in {200, 409}
               THEN told \cup {[req |-> req[w], status |-> ans[w].status, art |-> ans[w].art]}
               ELSE told
  /\ Settle(w)
  /\ UNCHANGED <<store, world, drawn>>

-----------------------------------------------------------------------------
(* What goes wrong.                                                        *)

\* A storage or signer exception before anything is committed: 503.  An
\* open PostgreSQL transaction is rolled back; a lock wait ends here too.
\* A snapshot may have registered its key before the provider failed.
Unavailable(w) ==
  /\ pc[w] \in {"lookup", "sign", "save", "select", "insertEvent"}
  /\ At(w, "lookup") => req[w] \notin Unhashable
  /\ IF At(w, "sign")
       THEN registered' \in {registered, registered \cup {active}}
       ELSE UNCHANGED registered
  /\ Respond(w, 503, None)
  /\ UNCHANGED <<ledger, events, world, drawn, told>>

\* The key registry cannot be read: validation is indeterminate, and an
\* event that is not valid is answered 422.
Unresolved(w) ==
  /\ At(w, "validate")
  /\ Respond(w, 422, None)
  /\ UNCHANGED <<store, world, drawn, told>>

\* The connection dies after the commit: 503 for rows that are there.
LostCommit(w) ==
  /\ \/ At(w, "save") /\ ~Postgres /\ Keyed(req[w]) /\ RowOf(w) = None /\ BindRow(w)
     \/ At(w, "insertEvent") /\ BindRow(w)
     \/ /\ At(w, "save") /\ ~Keyed(req[w])
        /\ events' = events \cup {art[w]} /\ UNCHANGED ledger
  /\ Respond(w, 503, None)
  /\ UNCHANGED <<registered, world, drawn, told>>

\* The process dies, or the response does: the caller sees a timeout.
Vanish(w) ==
  /\ ~At(w, "idle")
  /\ Settle(w)
  /\ UNCHANGED <<store, world, drawn, told>>

Tick ==
  /\ clock < MaxTime
  /\ clock' = clock + 1
  /\ UNCHANGED <<database, store, active, drawn, local, told>>

Rotate ==
  /\ active' \in Kid \ {active}
  /\ UNCHANGED <<database, store, clock, drawn, local, told>>

-----------------------------------------------------------------------------
Step(w) ==
  \/ Lookup(w) \/ Stamp(w) \/ Sign(w) \/ Validate(w)
  \/ SaveEvent(w) \/ SaveLocal(w)
  \/ PgInsert(w) \/ PgSelect(w) \/ PgCommit(w)
  \/ Deliver(w)

Fault(w) == Unavailable(w) \/ Unresolved(w) \/ LostCommit(w) \/ Vanish(w)

Next ==
  \/ \E w \in Worker : (\E r \in Request : Receive(w, r)) \/ Step(w) \/ Fault(w)
  \/ Tick \/ Rotate

Spec == Init /\ [][Next]_vars

\* The server never leaves a handler standing: each statement and each lock
\* wait ends within the ten-second timeouts, in its result or in an error.
\* Nothing is assumed of callers, crashes, rotation or time.
FairSpec == Spec /\ \A w \in Worker : WF_vars(Step(w) \/ Unavailable(w))

-----------------------------------------------------------------------------
(* Properties.                                                             *)

Place == {"idle", "lookup", "stamp", "sign", "validate", "save", "select",
          "insertEvent", "reply"}

\* Every variable holds what create_event_07 and its tables can hold.
TypeOK ==
  /\ database \in {"sqlite", "postgresql"}
  /\ ledger \in [Key -> Row \cup {None}]
  /\ events \subseteq Artifact
  /\ registered \subseteq Kid
  /\ active \in Kid
  /\ clock \in Time
  /\ drawn \subseteq Draw
  /\ pc \in [Worker -> Place]
  /\ req \in [Worker -> Request \cup {None}]
  /\ art \in [Worker -> Artifact \cup Draft \cup {None}]
  /\ ans \in [Worker -> Answer \cup {None}]
  /\ told \subseteq [req : Request, status : {200, 409}, art : Artifact \cup {None}]

\* However many workers raced for a creation identity, crashed or resent it,
\* callers who were told 200 sent the same request and hold the same event.
OneCreationPerIdentity ==
  \A s, t \in told :
    s.status = 200 /\ t.status = 200 /\ Keyed(s.req) /\ KeyOf[s.req] = KeyOf[t.req]
      => s.req = t.req /\ s.art = t.art

\* save_created_response keeps ledger and events in step: an event made for
\* a creation identity is stored exactly when the ledger answers with it, so
\* a loser's artifact is never left behind.
LedgerAndEventsAgree ==
  /\ \A e \in events : Keyed(e.req) =>
       ledger[KeyOf[e.req]] = [req |-> e.req, art |-> e]
  /\ \A k \in Key : ledger[k] # None =>
       /\ ledger[k].art \in events
       /\ ledger[k].req = ledger[k].art.req
       /\ KeyOf[ledger[k].req] = k

\* A caller who holds a 200 answer holds an event about its own request that
\* is in the event store and whose kid the registry resolves.
CreatedAnswerIsDurable ==
  \A t \in told : t.status = 200 =>
    t.art \in events /\ t.art.req = t.req /\ t.art.kid \in registered

\* ERR_CREATE_REQUEST_CONFLICT is only said when another request did take
\* the identity, and is never said to the one that took it.
ConflictIsTruthful ==
  \A t \in told : t.status = 409 =>
    /\ Keyed(t.req)
    /\ ledger[KeyOf[t.req]] # None
    /\ ledger[KeyOf[t.req]].req # t.req

\* create_event_07 over either database does what CreationPromise says.
Promise == INSTANCE CreationPromise WITH bound <- ledger, stored <- events
KeepsPromise == Promise!Spec

\* Once a request is taken up, the caller gets an answer or sees the
\* connection end: no lock wait and no retry loop lasts for ever.
EveryCallEnds == \A w \in Worker : pc[w] # "idle" ~> pc[w] = "idle"

\* A refusal that is delivered changes what one that is lost does: no failure.
Failure == \E w \in Worker : Fault(w) /\ ~Step(w)
Resent(r) == \E w \in Worker : Receive(w, r)

\* After a timeout or HTTP 503 the caller resends the unchanged request:
\* once failures stop, resending gets the event, or the conflict, whatever
\* the failures left half done.
ResendingSettles ==
  \A r \in Request \ (Unhashable \cup Invalid) :
    (<>[][~Failure]_vars /\ []<><<Resent(r)>>_vars)
      => <>(\E t \in told : t.req = r)
=============================================================================
