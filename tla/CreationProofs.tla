--------------------------- MODULE CreationProofs ---------------------------
(***************************************************************************)
(* Theorems about Creation, for any workers, requests, identities, keys,   *)
(* and either database.                                                    *)
(***************************************************************************)
EXTENDS Creation, TLAPS

\* What each handler carries: the request it serves and the event it builds
\* for that request, signed with a key the registry has from then on.
Building ==
  \A w \in Worker :
    /\ pc[w] # "idle" => req[w] \in Request
    /\ pc[w] \in {"lookup", "select", "insertEvent"} => Keyed(req[w])
    /\ pc[w] = "sign" => art[w] \in Draft /\ art[w].req = req[w]
    /\ pc[w] \in {"validate", "save", "select", "insertEvent"} =>
         art[w] \in Artifact /\ art[w].req = req[w] /\ art[w].kid \in registered

\* A PostgreSQL transaction past its INSERT has the identity to itself.
Exclusive ==
  \A w \in Worker : pc[w] = "insertEvent" =>
    /\ Postgres /\ ledger[KeyOf[req[w]]] = None
    /\ \A v \in Worker :
         pc[v] = "insertEvent" /\ KeyOf[req[v]] = KeyOf[req[w]] => v = w

Resolvable == \A e \in events : e.kid \in registered

\* An answer to r that the database bears out.
Truthful(r, status, a) ==
  /\ status = 200 => a \in events /\ a.req = r
  /\ status # 200 => a = None
  /\ status = 409 =>
       Keyed(r) /\ ledger[KeyOf[r]] # None /\ ledger[KeyOf[r]].req # r

Replies ==
  \A w \in Worker : pc[w] = "reply" =>
    ans[w] \in Answer /\ Truthful(req[w], ans[w].status, ans[w].art)

Hearsay == \A t \in told : Truthful(t.req, t.status, t.art)

IInv ==
  /\ TypeOK /\ Building /\ Exclusive /\ LedgerAndEventsAgree
  /\ Resolvable /\ Replies /\ Hearsay

-----------------------------------------------------------------------------
\* The ledger of a keyed request has a slot for it.
LEMMA KeyInRange ==
  ASSUME NEW r \in Request, Keyed(r)
  PROVE  KeyOf[r] \in Key
BY CreationAssumption DEF Keyed

\* save_created_response and save_event only add: what an answer rests on
\* stays true.
LEMMA TruthLasts ==
  ASSUME NEW r \in Request, NEW s, NEW a, Truthful(r, s, a),
         events \subseteq events',
         \A k \in Key : ledger[k] # None => ledger'[k] = ledger[k]
  PROVE  Truthful(r, s, a)'
BY KeyInRange DEF Truthful

\* The ways a handler ends in an answer: with the tables as they are, with
\* a row and an event committed, or with an event alone.
LEMMA AnswerStep ==
  ASSUME IInv, NEW w \in Worker, pc[w] # "idle",
         NEW s \in Status, NEW a \in Artifact \cup {None}, Respond(w, s, a),
         UNCHANGED <<world, drawn, told>>,
         ledger' \in [Key -> Row \cup {None}], events' \subseteq Artifact,
         registered \subseteq registered', registered' \subseteq Kid,
         events \subseteq events', Resolvable', LedgerAndEventsAgree',
         \A k \in Key : ledger[k] # None => ledger'[k] = ledger[k],
         \A v \in Worker : v # w /\ pc[v] = "insertEvent" =>
           ledger'[KeyOf[req[v]]] = None,
         Truthful(req[w], s, a)'
  PROVE  IInv'
<1> USE DEF IInv
<1>1. /\ pc' = [pc EXCEPT ![w] = "reply"] /\ pc' \in [Worker -> Place]
      /\ ans' = [ans EXCEPT ![w] = [status |-> s, art |-> a]]
      /\ art' = [art EXCEPT ![w] = None] /\ req' = req
      /\ [status |-> s, art |-> a] \in Answer
  BY DEF Respond, Goto, TypeOK, Place, Answer
<1>2. TypeOK'
  BY <1>1 DEF TypeOK, world
<1>3. Building'
  BY <1>1 DEF Building, TypeOK
<1>4. Exclusive'
  BY <1>1 DEF Exclusive, TypeOK, Postgres, world
<1>5. Replies'
  <2> SUFFICES ASSUME NEW v \in Worker, pc'[v] = "reply"
               PROVE  (ans[v] \in Answer /\ Truthful(req[v], ans[v].status, ans[v].art))'
    BY DEF Replies
  <2>1. CASE v = w
    BY <1>1, <2>1 DEF TypeOK, Truthful
  <2>2. CASE v # w
    <3>1. pc[v] = "reply" /\ ans'[v] = ans[v] /\ req[v] \in Request
      BY <1>1, <2>2 DEF TypeOK, Building
    <3> QED
      BY <1>1, <3>1, KeyInRange DEF Replies, Truthful
  <2> QED
    BY <2>1, <2>2
<1>6. Hearsay'
  <2> SUFFICES ASSUME NEW t \in told PROVE Truthful(t.req, t.status, t.art)'
    BY DEF Hearsay
  <2>1. t.req \in Request /\ Truthful(t.req, t.status, t.art)
    BY DEF TypeOK, Hearsay
  <2> QED
    BY <2>1, TruthLasts
<1> QED
  BY <1>2, <1>3, <1>4, <1>5, <1>6

\* An answer that leaves the tables as they are.
LEMMA PlainAnswer ==
  ASSUME IInv, NEW w \in Worker, pc[w] # "idle",
         NEW s \in Status, NEW a \in Artifact \cup {None}, Respond(w, s, a),
         UNCHANGED <<ledger, events, world, drawn, told>>,
         registered \subseteq registered', registered' \subseteq Kid,
         Truthful(req[w], s, a)
  PROVE  IInv'
<1>1. Resolvable' /\ LedgerAndEventsAgree'
  BY DEF IInv, Resolvable, LedgerAndEventsAgree
<1>2. Truthful(req[w], s, a)'
  BY DEF Truthful, Respond
<1>3. \A v \in Worker : v # w /\ pc[v] = "insertEvent" => ledger'[KeyOf[req[v]]] = None
  BY DEF IInv, Exclusive
<1>4. ledger' \in [Key -> Row \cup {None}] /\ events' \subseteq Artifact
  BY DEF IInv, TypeOK
<1> QED
  BY <1>1, <1>2, <1>3, <1>4, AnswerStep

\* The answer creation_response gives from the ledger's row.
LEMMA RowAnswer ==
  ASSUME IInv, NEW w \in Worker, pc[w] # "idle", Keyed(req[w]), RowOf(w) # None,
         RespondFromRow(w), UNCHANGED <<store, world, drawn, told>>
  PROVE  IInv'
<1>1. req[w] \in Request /\ KeyOf[req[w]] \in Key
  BY KeyInRange DEF IInv, Building
<1>2. /\ RowOf(w) \in Row /\ RowOf(w).art \in Artifact
      /\ RowOf(w).art \in events /\ RowOf(w).art.req = RowOf(w).req
  BY <1>1 DEF IInv, TypeOK, RowOf, Row, LedgerAndEventsAgree
<1>3. UNCHANGED <<ledger, events, registered>> /\ registered \subseteq Kid
  BY DEF store, IInv, TypeOK
<1>4. CASE RowOf(w).req # req[w]
  <2>1. Respond(w, 409, None)
    BY <1>4 DEF RespondFromRow
  <2>2. Truthful(req[w], 409, None)
    BY <1>4 DEF Truthful, RowOf
  <2> QED
    BY <1>3, <2>1, <2>2, PlainAnswer DEF Status
<1>5. CASE RowOf(w).req = req[w]
  <2>1. Respond(w, 200, RowOf(w).art)
    BY <1>5 DEF RespondFromRow
  <2>2. Truthful(req[w], 200, RowOf(w).art)
    BY <1>2, <1>5 DEF Truthful
  <2> DEFINE a == RowOf(w).art
  <2>3. /\ pc' = [pc EXCEPT ![w] = "reply"]
        /\ ans' = [ans EXCEPT ![w] = [status |-> 200, art |-> a]]
        /\ art' = [art EXCEPT ![w] = None] /\ req' = req
    BY <2>1 DEF Respond, Goto
  <2>4. PICK b \in Artifact : b = a
    BY <1>2
  <2>5. Respond(w, 200, b) /\ Truthful(req[w], 200, b)
    BY <2>1, <2>2, <2>4
  <2> QED
    BY <1>3, <2>5, PlainAnswer DEF Status
<1> QED
  BY <1>4, <1>5

\* A step that answers nothing and writes no table keeps the rest of the
\* invariant.
LEMMA QuietStep ==
  ASSUME IInv, UNCHANGED <<ledger, events, told>>,
         registered \subseteq registered', TypeOK', Building', Exclusive',
         \A v \in Worker : pc'[v] = "reply" =>
           pc[v] = "reply" /\ ans'[v] = ans[v] /\ req'[v] = req[v]
  PROVE  IInv'
<1>1. Resolvable' /\ LedgerAndEventsAgree' /\ Hearsay'
  BY DEF IInv, Resolvable, LedgerAndEventsAgree, Hearsay, Truthful
<1>2. Replies'
  BY DEF IInv, Replies, Truthful
<1> QED
  BY <1>1, <1>2 DEF IInv

\* save_created_response commits ledger row and event together, and answers
\* 200, or 503 when the connection is lost.
LEMMA CommitStep ==
  ASSUME IInv, NEW w \in Worker, pc[w] \in {"save", "insertEvent"}, Keyed(req[w]),
         RowOf(w) = None, pc[w] = "save" => ~Postgres,
         BindRow(w), Respond(w, 200, art[w]) \/ Respond(w, 503, None),
         UNCHANGED <<registered, world, drawn, told>>
  PROVE  IInv'
<1> DEFINE k == KeyOf[req[w]]
           r == [req |-> req[w], art |-> art[w]]
<1>1. /\ req[w] \in Request /\ k \in Key /\ art[w] \in Artifact
      /\ art[w].req = req[w] /\ art[w].kid \in registered /\ r \in Row
  BY KeyInRange DEF IInv, Building, Row
<1>2. ledger' = [ledger EXCEPT ![k] = r] /\ events' = events \cup {art[w]} /\ ledger[k] = None
  BY DEF BindRow, RowOf
<1>3. /\ ledger' \in [Key -> Row \cup {None}] /\ events' \subseteq Artifact
      /\ ledger \in [Key -> Row \cup {None}] /\ registered \subseteq Kid
  BY <1>1, <1>2 DEF IInv, TypeOK
<1>4. Resolvable'
  BY <1>1, <1>2 DEF IInv, Resolvable
<1>5. LedgerAndEventsAgree'
  <2>1. ASSUME NEW e \in events', Keyed(e.req)
        PROVE  ledger'[KeyOf[e.req]] = [req |-> e.req, art |-> e]
    <3>1. CASE e = art[w]
      BY <1>1, <1>2, <1>3, <3>1
    <3>2. CASE e \in events
      <4>1. e.req \in Request /\ KeyOf[e.req] \in Key
        BY <2>1, <3>2, KeyInRange DEF IInv, TypeOK, Artifact
      <4>2. ledger[KeyOf[e.req]] = [req |-> e.req, art |-> e]
        BY <2>1, <3>2 DEF IInv, LedgerAndEventsAgree
      <4>3. [req |-> e.req, art |-> e] # None
        BY <3>2, <4>1, CreationAssumption DEF IInv, TypeOK, Row
      <4>4. KeyOf[e.req] # k
        BY <1>2, <4>2, <4>3
      <4> QED
        BY <1>2, <1>3, <4>1, <4>2, <4>4
    <3> QED
      BY <1>2, <2>1, <3>1, <3>2
  <2>2. ASSUME NEW j \in Key, ledger'[j] # None
        PROVE  /\ ledger'[j].art \in events'
               /\ ledger'[j].req = ledger'[j].art.req
               /\ KeyOf[ledger'[j].req] = j
    <3>1. CASE j = k
      BY <1>1, <1>2, <1>3, <3>1
    <3>2. CASE j # k
      BY <1>2, <1>3, <2>2, <3>2 DEF IInv, LedgerAndEventsAgree
    <3> QED
      BY <3>1, <3>2
  <2> QED
    BY <2>1, <2>2 DEF LedgerAndEventsAgree
<1>6. \A j \in Key : ledger[j] # None => ledger'[j] = ledger[j]
  BY <1>2, <1>3
<1>7. \A v \in Worker : v # w /\ pc[v] = "insertEvent" => ledger'[KeyOf[req[v]]] = None
  <2> SUFFICES ASSUME NEW v \in Worker, v # w, pc[v] = "insertEvent"
               PROVE  ledger'[KeyOf[req[v]]] = None
    OBVIOUS
  <2>1. Postgres /\ ledger[KeyOf[req[v]]] = None /\ KeyOf[req[v]] # k
    BY DEF IInv, Exclusive
  <2>2. KeyOf[req[v]] \in Key
    BY KeyInRange DEF IInv, Building
  <2> QED
    BY <1>2, <1>3, <2>1, <2>2
<1>8. PICK b \in Artifact : b = art[w]
  BY <1>1
<1>9. CASE Respond(w, 200, art[w])
  <2>1. Respond(w, 200, b)
    BY <1>8, <1>9
  <2>2. Truthful(req[w], 200, b)'
    BY <1>1, <1>2, <1>8, <1>9 DEF Truthful, Respond
  <2>3. 200 \in Status /\ pc[w] # "idle"
    BY DEF Status
  <2> QED
    BY <1>3, <1>4, <1>5, <1>6, <1>7, <2>1, <2>2, <2>3, <1>2, AnswerStep
<1>10. CASE Respond(w, 503, None)
  <2>1. Truthful(req[w], 503, None)'
    BY <1>10 DEF Truthful, Respond
  <2>2. 503 \in Status /\ pc[w] # "idle"
    BY DEF Status
  <2> QED
    BY <1>3, <1>4, <1>5, <1>6, <1>7, <1>10, <2>1, <2>2, <1>2, AnswerStep
<1> QED
  BY <1>9, <1>10

\* save_event stores a new event that no ledger row speaks of.
LEMMA StoreStep ==
  ASSUME IInv, NEW w \in Worker, pc[w] = "save", ~Keyed(req[w]),
         events' = events \cup {art[w]},
         Respond(w, 200, art[w]) \/ Respond(w, 503, None),
         UNCHANGED <<ledger, registered, world, drawn, told>>
  PROVE  IInv'
<1>1. /\ req[w] \in Request /\ art[w] \in Artifact
      /\ art[w].req = req[w] /\ art[w].kid \in registered
  BY DEF IInv, Building
<1>2. /\ ledger' \in [Key -> Row \cup {None}] /\ events' \subseteq Artifact
      /\ registered \subseteq Kid
  BY <1>1 DEF IInv, TypeOK
<1>3. Resolvable' /\ LedgerAndEventsAgree'
  BY <1>1 DEF IInv, Resolvable, LedgerAndEventsAgree
<1>4. \A v \in Worker : v # w /\ pc[v] = "insertEvent" => ledger'[KeyOf[req[v]]] = None
  BY DEF IInv, Exclusive
<1>5. PICK b \in Artifact : b = art[w]
  BY <1>1
<1>6. CASE Respond(w, 200, art[w])
  <2>1. Respond(w, 200, b) /\ 200 \in Status /\ pc[w] # "idle"
    BY <1>5, <1>6 DEF Status
  <2>2. Truthful(req[w], 200, b)'
    BY <1>1, <1>5, <1>6 DEF Truthful, Respond
  <2> QED
    BY <1>2, <1>3, <1>4, <2>1, <2>2, AnswerStep
<1>7. CASE Respond(w, 503, None)
  <2>1. Truthful(req[w], 503, None)' /\ 503 \in Status /\ pc[w] # "idle"
    BY <1>7 DEF Truthful, Respond, Status
  <2> QED
    BY <1>2, <1>3, <1>4, <1>7, <2>1, AnswerStep
<1> QED
  BY <1>6, <1>7

-----------------------------------------------------------------------------
\* The invariant holds on an empty database.
LEMMA InitInvariant == Init => IInv
<1> SUFFICES ASSUME Init PROVE IInv
  OBVIOUS
<1>1. TypeOK
  BY CreationAssumption DEF Init, TypeOK, Time, Place
<1>2. Building /\ Exclusive /\ LedgerAndEventsAgree
  BY DEF Init, Building, Exclusive, LedgerAndEventsAgree
<1>3. Resolvable /\ Replies /\ Hearsay
  BY DEF Init, Resolvable, Replies, Hearsay
<1> QED
  BY <1>1, <1>2, <1>3 DEF IInv

\* Every step of every handler, every fault, the clock and the rotation of
\* the signing key keep it.
LEMMA NextInvariant == IInv /\ [Next]_vars => IInv'
<1> SUFFICES ASSUME IInv, [Next]_vars PROVE IInv'
  OBVIOUS
<1>a. registered \subseteq Kid /\ active \in Kid
  BY DEF IInv, TypeOK
<1>1. ASSUME NEW w \in Worker, NEW r \in Request, Receive(w, r)
      PROVE  IInv'
  <2>1. TypeOK'
    BY <1>1 DEF IInv, TypeOK, Receive, At, Goto, store, world, Place
  <2>2. Building' /\ Exclusive'
    BY <1>1 DEF IInv, TypeOK, Building, Exclusive, Receive, At, Goto, store, world, Postgres
  <2> QED
    BY <1>1, <2>1, <2>2, QuietStep DEF IInv, TypeOK, Receive, At, Goto, store
<1>2. ASSUME NEW w \in Worker, Lookup(w)
      PROVE  IInv'
  <2>1. CASE Respond(w, 422, None)
    BY <1>2, <1>a, <2>1, PlainAnswer DEF Lookup, At, store, Truthful, Status
  <2>2. CASE RowOf(w) # None /\ RespondFromRow(w)
    BY <1>2, <2>2, RowAnswer DEF Lookup, At, IInv, Building
  <2>3. CASE Goto(w, "stamp") /\ UNCHANGED <<req, art, ans>>
    <3>1. TypeOK' /\ Building' /\ Exclusive'
      BY <1>2, <2>3 DEF Lookup, IInv, TypeOK, Building, Exclusive, At, Goto, store, world, Place, Postgres
    <3> QED
      BY <1>2, <2>3, <3>1, QuietStep DEF Lookup, IInv, TypeOK, At, Goto, store
  <2> QED
    BY <1>2, <2>1, <2>2, <2>3 DEF Lookup
<1>3. ASSUME NEW w \in Worker, Stamp(w)
      PROVE  IInv'
  <2> PICK d \in Draw \cup {None} :
         /\ art' = [art EXCEPT ![w] =
                      [req |-> req[w], when |-> clock, kid |-> None, draw |-> d]]
         /\ drawn' = drawn \cup ({d} \ {None})
    BY <1>3 DEF Stamp
  <2>1. req[w] \in Request /\ clock \in Time
    BY <1>3 DEF IInv, TypeOK, Building, Stamp, At
  <2>2. [req |-> req[w], when |-> clock, kid |-> None, draw |-> d] \in Draft
    BY <2>1 DEF Draft
  <2>3. TypeOK'
    BY <1>3, <2>2 DEF IInv, TypeOK, Stamp, At, Goto, store, world, Place
  <2>4. Building' /\ Exclusive'
    BY <1>3, <2>2 DEF IInv, TypeOK, Building, Exclusive, Stamp, At, Goto, store, world, Postgres
  <2> QED
    BY <1>3, <2>3, <2>4, QuietStep DEF IInv, TypeOK, Stamp, At, Goto, store
<1>4. ASSUME NEW w \in Worker, Sign(w)
      PROVE  IInv'
  <2>1. registered' = registered \cup {active} /\ registered' \subseteq Kid
    BY <1>4, <1>a DEF Sign
  <2>2. CASE Respond(w, 422, None)
    BY <1>4, <2>1, <2>2, PlainAnswer DEF Sign, At, Truthful, Status
  <2>3. CASE /\ art' = [art EXCEPT ![w].kid = active]
             /\ Goto(w, "validate") /\ UNCHANGED <<req, ans>>
    <3>1. art[w] \in Draft /\ art[w].req = req[w]
      BY <1>4 DEF IInv, Building, Sign, At
    <3>2. /\ [art[w] EXCEPT !.kid = active] \in Artifact
          /\ [art[w] EXCEPT !.kid = active].req = req[w]
          /\ [art[w] EXCEPT !.kid = active].kid = active
      BY <1>a, <3>1 DEF Draft, Artifact
    <3>3. art' = [art EXCEPT ![w] = [art[w] EXCEPT !.kid = active]]
      BY <2>3
    <3>4. TypeOK'
      BY <1>4, <2>1, <2>3, <3>2, <3>3 DEF IInv, TypeOK, Sign, Goto, world, Place
    <3>5. Building' /\ Exclusive'
      BY <1>4, <2>1, <2>3, <3>2, <3>3 DEF IInv, TypeOK, Building, Exclusive, Sign, At, Goto, Postgres, world
    <3> QED
      BY <1>4, <2>1, <2>3, <3>4, <3>5, QuietStep DEF IInv, TypeOK, Sign, At, Goto
  <2> QED
    BY <1>4, <2>2, <2>3 DEF Sign
<1>5. ASSUME NEW w \in Worker, Validate(w)
      PROVE  IInv'
  <2>1. CASE Respond(w, 422, None)
    BY <1>5, <1>a, <2>1, PlainAnswer DEF Validate, At, store, Truthful, Status
  <2>2. CASE Goto(w, "save") /\ UNCHANGED <<req, art, ans>>
    <3>1. TypeOK' /\ Building' /\ Exclusive'
      BY <1>5, <2>2 DEF Validate, IInv, TypeOK, Building, Exclusive, At, Goto, store, world, Place, Postgres
    <3> QED
      BY <1>5, <2>2, <3>1, QuietStep DEF Validate, IInv, TypeOK, At, Goto, store
  <2> QED
    BY <1>5, <2>1, <2>2 DEF Validate
<1>6. ASSUME NEW w \in Worker, SaveEvent(w)
      PROVE  IInv'
  BY <1>6, StoreStep DEF SaveEvent, At
<1>7. ASSUME NEW w \in Worker, SaveLocal(w)
      PROVE  IInv'
  <2>1. CASE RowOf(w) # None
    BY <1>7, <2>1, RowAnswer DEF SaveLocal, At, store
  <2>2. CASE RowOf(w) = None
    BY <1>7, <2>2, CommitStep DEF SaveLocal, At
  <2> QED
    BY <2>1, <2>2
<1>8. ASSUME NEW w \in Worker, PgInsert(w)
      PROVE  IInv'
  <2>1. TypeOK'
    BY <1>8 DEF PgInsert, IInv, TypeOK, At, Goto, store, world, Place
  <2>2. Building'
    BY <1>8 DEF PgInsert, IInv, TypeOK, Building, At, Goto, store
  <2>3. Exclusive'
    BY <1>8 DEF PgInsert, HoldsKey, RowOf, IInv, TypeOK, Exclusive, At, Goto, store, Postgres, world
  <2> QED
    BY <1>8, <2>1, <2>2, <2>3, QuietStep DEF PgInsert, IInv, TypeOK, At, Goto, store
<1>9. ASSUME NEW w \in Worker, PgSelect(w)
      PROVE  IInv'
  <2>1. CASE Respond(w, 503, None)
    BY <1>9, <1>a, <2>1, PlainAnswer DEF PgSelect, At, store, Truthful, Status
  <2>2. CASE RowOf(w) # None /\ RespondFromRow(w)
    BY <1>9, <2>2, RowAnswer DEF PgSelect, At, IInv, Building
  <2> QED
    BY <1>9, <2>1, <2>2 DEF PgSelect
<1>10. ASSUME NEW w \in Worker, PgCommit(w)
       PROVE  IInv'
  BY <1>10, CommitStep DEF PgCommit, At, IInv, Building, Exclusive, RowOf
<1>11. ASSUME NEW w \in Worker, Settle(w), UNCHANGED <<store, world, drawn>>,
              told \subseteq told',
              \A t \in told' \ told :
                /\ t \in [req : Request, status : {200, 409}, art : Artifact \cup {None}]
                /\ Truthful(t.req, t.status, t.art)
       PROVE  IInv'
  <2>1. TypeOK'
    BY <1>11 DEF IInv, TypeOK, Settle, Goto, store, world, Place
  <2>2. Building' /\ Exclusive'
    BY <1>11 DEF IInv, TypeOK, Building, Exclusive, Settle, Goto, store, Postgres, world
  <2>3. Replies'
    BY <1>11 DEF IInv, TypeOK, Replies, Settle, Goto, store, Truthful
  <2>4. Hearsay'
    BY <1>11 DEF IInv, Hearsay, store, Truthful
  <2>5. Resolvable' /\ LedgerAndEventsAgree'
    BY <1>11 DEF IInv, Resolvable, LedgerAndEventsAgree, store
  <2> QED
    BY <2>1, <2>2, <2>3, <2>4, <2>5 DEF IInv
<1>12. ASSUME NEW w \in Worker, Deliver(w)
       PROVE  IInv'
  <2> DEFINE t == [req |-> req[w], status |-> ans[w].status, art |-> ans[w].art]
  <2>1. /\ req[w] \in Request /\ ans[w] \in Answer
        /\ Truthful(req[w], ans[w].status, ans[w].art)
    BY <1>12 DEF Deliver, At, IInv, Building, Replies
  <2>2. told' = IF ans[w].status \in {200, 409} THEN told \cup {t} ELSE told
    BY <1>12 DEF Deliver
  <2>3. ans[w].status \in {200, 409} =>
          /\ t \in [req : Request, status : {200, 409}, art : Artifact \cup {None}]
          /\ Truthful(t.req, t.status, t.art)
    BY <2>1 DEF Answer
  <2>4. told \subseteq told' /\ \A u \in told' \ told : u = t /\ ans[w].status \in {200, 409}
    BY <2>2
  <2> QED
    BY <1>11, <1>12, <2>3, <2>4 DEF Deliver
<1>13. ASSUME NEW w \in Worker, Vanish(w)
       PROVE  IInv'
  BY <1>11, <1>13 DEF Vanish
<1>14. ASSUME NEW w \in Worker, Unavailable(w)
       PROVE  IInv'
  <2>1. registered \subseteq registered' /\ registered' \subseteq Kid
    BY <1>14, <1>a DEF Unavailable
  <2> QED
    BY <1>14, <2>1, PlainAnswer DEF Unavailable, Truthful, Status
<1>15. ASSUME NEW w \in Worker, Unresolved(w)
       PROVE  IInv'
  BY <1>15, <1>a, PlainAnswer DEF Unresolved, At, store, Truthful, Status
<1>16. ASSUME NEW w \in Worker, LostCommit(w)
       PROVE  IInv'
  <2>1. CASE At(w, "save") /\ ~Postgres /\ Keyed(req[w]) /\ RowOf(w) = None /\ BindRow(w)
    BY <1>16, <2>1, CommitStep DEF LostCommit, At
  <2>2. CASE At(w, "insertEvent") /\ BindRow(w)
    BY <1>16, <2>2, CommitStep DEF LostCommit, At, IInv, Building, Exclusive, RowOf
  <2>3. CASE /\ At(w, "save") /\ ~Keyed(req[w])
             /\ events' = events \cup {art[w]} /\ UNCHANGED ledger
    BY <1>16, <2>3, StoreStep DEF LostCommit, At
  <2> QED
    BY <1>16, <2>1, <2>2, <2>3 DEF LostCommit
<1>17. CASE Tick
  <2>1. TypeOK'
    BY <1>17, CreationAssumption DEF Tick, IInv, TypeOK, store, local, Time
  <2>2. Building' /\ Exclusive'
    BY <1>17 DEF Tick, IInv, Building, Exclusive, store, local, Postgres, world
  <2> QED
    BY <1>17, <2>1, <2>2, QuietStep DEF Tick, store, local
<1>18. CASE Rotate
  <2>1. TypeOK'
    BY <1>18 DEF Rotate, IInv, TypeOK, store, local
  <2>2. Building' /\ Exclusive'
    BY <1>18 DEF Rotate, IInv, Building, Exclusive, store, local, Postgres, world
  <2> QED
    BY <1>18, <2>1, <2>2, QuietStep DEF Rotate, store, local
<1>19. CASE UNCHANGED vars
  <2>1. TypeOK' /\ Building' /\ Exclusive'
    BY <1>19 DEF vars, IInv, TypeOK, Building, Exclusive, Postgres, world
  <2> QED
    BY <1>19, <2>1, QuietStep DEF vars
<1> QED
  BY <1>1, <1>2, <1>3, <1>4, <1>5, <1>6, <1>7, <1>8, <1>9, <1>10, <1>12, <1>13,
     <1>14, <1>15, <1>16, <1>17, <1>18, <1>19 DEF Next, Step, Fault

-----------------------------------------------------------------------------
\* The inductive invariant of create_event_07 over either database.
THEOREM Invariance == Spec => []IInv
BY InitInvariant, NextInvariant, PTL DEF Spec

\* Every variable keeps its type.
THEOREM TypeCorrect == Spec => []TypeOK
<1>1. IInv => TypeOK
  BY DEF IInv
<1> QED
  BY <1>1, Invariance, PTL

\* An event made for an identity is stored exactly when the ledger answers
\* with it.
THEOREM AtomicSave == Spec => []LedgerAndEventsAgree
<1>1. IInv => LedgerAndEventsAgree
  BY DEF IInv
<1> QED
  BY <1>1, Invariance, PTL

\* A 200 answer survives everything that happens after it.
THEOREM CreatedIsDurable == Spec => []CreatedAnswerIsDurable
<1>1. IInv => CreatedAnswerIsDurable
  BY DEF IInv, Hearsay, Truthful, Resolvable, CreatedAnswerIsDurable
<1> QED
  BY <1>1, Invariance, PTL

\* A 409 answer is never a lie.
THEOREM ConflictsAreReal == Spec => []ConflictIsTruthful
<1>1. IInv => ConflictIsTruthful
  BY DEF IInv, Hearsay, Truthful, ConflictIsTruthful
<1> QED
  BY <1>1, Invariance, PTL

\* All 200 answers about one identity carry one event for one request.
THEOREM OneCreation == Spec => []OneCreationPerIdentity
<1>1. IInv => OneCreationPerIdentity
  <2> SUFFICES ASSUME IInv, NEW s \in told, NEW t \in told,
                      s.status = 200, t.status = 200,
                      Keyed(s.req), KeyOf[s.req] = KeyOf[t.req]
               PROVE  s.req = t.req /\ s.art = t.art
    BY DEF OneCreationPerIdentity
  <2>1. /\ s.art \in events /\ s.art.req = s.req
        /\ t.art \in events /\ t.art.req = t.req
    BY DEF IInv, Hearsay, Truthful
  <2>2. /\ ledger[KeyOf[s.req]] = [req |-> s.req, art |-> s.art]
        /\ ledger[KeyOf[t.req]] = [req |-> t.req, art |-> t.art]
    BY <2>1 DEF IInv, LedgerAndEventsAgree, Keyed
  <2> QED
    BY <2>2
<1> QED
  BY <1>1, Invariance, PTL

-----------------------------------------------------------------------------
\* A commit of save_created_response is the promise's Bind.
LEMMA CommitBinds ==
  ASSUME IInv, NEW w \in Worker, pc[w] \in {"save", "insertEvent"}, Keyed(req[w]),
         RowOf(w) = None, BindRow(w), UNCHANGED told
  PROVE  Promise!Next
<1>1. req[w] \in Request /\ art[w] \in Artifact /\ art[w].req = req[w]
  BY DEF IInv, Building
<1>2. Promise!Bind(req[w], art[w])
  BY <1>1 DEF Promise!Bind, BindRow, RowOf, Keyed
<1> QED
  BY <1>1, <1>2 DEF Promise!Next

\* A commit of save_event is the promise's Store.
LEMMA SaveStores ==
  ASSUME IInv, NEW w \in Worker, pc[w] = "save", ~Keyed(req[w]),
         events' = events \cup {art[w]}, UNCHANGED <<ledger, told>>
  PROVE  Promise!Next
<1>1. art[w] \in Artifact /\ art[w].req = req[w]
  BY DEF IInv, Building
<1>2. Promise!Store(art[w])
  BY <1>1 DEF Promise!Store, Keyed
<1> QED
  BY <1>1, <1>2 DEF Promise!Next

\* An answer that arrives is one the promise allows.
LEMMA DeliveryTells ==
  ASSUME IInv, NEW w \in Worker, Deliver(w)
  PROVE  Promise!Next \/ UNCHANGED Promise!vars
<1>1. /\ req[w] \in Request /\ ans[w] \in Answer
      /\ Truthful(req[w], ans[w].status, ans[w].art)
      /\ UNCHANGED <<ledger, events>>
  BY DEF Deliver, At, IInv, Building, Replies, store
<1>2. CASE ans[w].status = 200
  <2> DEFINE a == ans[w].art
  <2>1. a \in Artifact /\ a \in events /\ a.req = req[w]
    BY <1>1, <1>2 DEF Truthful, IInv, TypeOK
  <2>2. Keyed(req[w]) => ledger[KeyOf[req[w]]] = [req |-> req[w], art |-> a]
    BY <2>1 DEF IInv, LedgerAndEventsAgree
  <2>3. told' = told \cup {[req |-> req[w], status |-> 200, art |-> a]}
    BY <1>2 DEF Deliver
  <2>4. Promise!TellCreated(req[w], a)
    BY <1>1, <2>1, <2>2, <2>3 DEF Promise!TellCreated, Promise!Tell, Keyed
  <2> QED
    BY <1>1, <2>1, <2>4 DEF Promise!Next
<1>3. CASE ans[w].status = 409
  <2>1. told' = told \cup {[req |-> req[w], status |-> 409, art |-> None]}
    BY <1>1, <1>3 DEF Deliver, Truthful
  <2>2. Promise!TellConflict(req[w])
    BY <1>1, <1>3, <2>1 DEF Promise!TellConflict, Promise!Tell, Truthful, Keyed
  <2> QED
    BY <1>1, <2>2 DEF Promise!Next
<1>4. CASE ans[w].status \notin {200, 409}
  BY <1>1, <1>4 DEF Deliver, Promise!vars
<1> QED
  BY <1>2, <1>3, <1>4

\* create_event_07, with its races, crashes and lost replies, over either
\* database, implements what CreationPromise says of it.
THEOREM Refinement == Spec => KeepsPromise
<1>1. Init => Promise!Init
  BY DEF Init, Promise!Init
<1>2. IInv /\ [Next]_vars => [Promise!Next]_Promise!vars
  <2> SUFFICES ASSUME IInv, [Next]_vars
               PROVE  Promise!Next \/ UNCHANGED Promise!vars
    OBVIOUS
  <2>1. CASE UNCHANGED <<ledger, events, told>>
    BY <2>1 DEF Promise!vars
  <2>2. ASSUME NEW w \in Worker, SaveEvent(w) \/ SaveLocal(w) \/ PgCommit(w) \/ LostCommit(w),
               ~UNCHANGED <<ledger, events, told>>
        PROVE  Promise!Next
    <3>1. UNCHANGED told
      BY <2>2 DEF SaveEvent, SaveLocal, PgCommit, LostCommit
    <3>2. CASE ~Keyed(req[w])
      <4>1. pc[w] = "save" /\ events' = events \cup {art[w]} /\ UNCHANGED ledger
        BY <2>2, <3>2 DEF SaveEvent, SaveLocal, PgCommit, LostCommit, At, IInv, Building
      <4> QED
        BY <3>1, <3>2, <4>1, SaveStores
    <3>3. CASE Keyed(req[w])
      <4>1. pc[w] \in {"save", "insertEvent"} /\ BindRow(w) /\ RowOf(w) = None
        BY <2>2, <3>1, <3>3
           DEF SaveEvent, SaveLocal, PgCommit, LostCommit, At, IInv, Exclusive, RowOf
      <4> QED
        BY <3>1, <3>3, <4>1, CommitBinds
    <3> QED
      BY <3>2, <3>3
  <2>3. ASSUME NEW w \in Worker, Deliver(w)
        PROVE  Promise!Next \/ UNCHANGED Promise!vars
    BY <2>3, DeliveryTells
  <2>4. ASSUME ~UNCHANGED <<ledger, events, told>>
        PROVE  \E w \in Worker : \/ SaveEvent(w) \/ SaveLocal(w) \/ PgCommit(w)
                                 \/ LostCommit(w) \/ Deliver(w)
    BY <2>4 DEF Next, Step, Fault, vars, Receive, Lookup, Stamp, Sign, Validate,
                PgInsert, PgSelect, Unavailable, Unresolved, Vanish, Tick, Rotate, store
  <2> QED
    BY <2>1, <2>2, <2>3, <2>4
<1> QED
  BY <1>1, <1>2, Invariance, PTL DEF Spec, KeepsPromise, Promise!Spec

-----------------------------------------------------------------------------
(* The tables of this module are tables of Stores, and each step that      *)
(* changes them is the transaction of one request on one row.              *)

DB == INSTANCE Stores WITH
  Nonce <- {}, Event <- {"event"} \X Artifact, Ledger <- {"request"} \X Key,
  Accept <- {}, Key <- {"kid"} \X Kid,
  Digest <- Request \cup Kid, Retention <- 0,
  DemoKid <- <<"kid", CHOOSE k \in Kid : TRUE>>, Seed <- None

\* A row of created_requests as Stores has it.
Response(row) == [digest |-> row.req, event |-> <<"event", row.art>>]

\* Events e, ledger l and registered kids r as one table.
RowAt(e, l, r, id) ==
  CASE id[1] = "event"   -> IF id[2] \in e THEN id ELSE None
    [] id[1] = "request" -> IF l[id[2]] = None THEN None ELSE Response(l[id[2]])
    [] id[1] = "kid"     -> IF id[2] \in r THEN id[2] ELSE None

TablesOf(e, l, r) == [id \in DB!Id |-> RowAt(e, l, r, id)]
Tables == TablesOf(events, ledger, registered)

\* The keys of the database, and the rows each may have.
LEMMA Keys ==
  /\ \A a \in Artifact : <<"event", a>> \in DB!Id /\ DB!RowsAt(<<"event", a>>) = {<<"event", a>>}
  /\ \A k \in Key : /\ <<"request", k>> \in DB!Id
                    /\ DB!RowsAt(<<"request", k>>) =
                         [digest : Request \cup Kid, event : {"event"} \X Artifact]
  /\ \A k \in Kid : <<"kid", k>> \in DB!Id /\ DB!RowsAt(<<"kid", k>>) = Request \cup Kid
  /\ \A id \in DB!Id : \/ \E a \in Artifact : id = <<"event", a>>
                       \/ \E k \in Key : id = <<"request", k>>
                       \/ \E k \in Kid : id = <<"kid", k>>
  <1>1. DB!Id = ({"event"} \X Artifact) \cup ({"request"} \X Key) \cup ({"kid"} \X Kid)
    BY DEF DB!Id
  <1>2. ASSUME NEW a \in Artifact
        PROVE  <<"event", a>> \in DB!Id /\ DB!RowsAt(<<"event", a>>) = {<<"event", a>>}
    BY <1>1 DEF DB!RowsAt
  <1>3. ASSUME NEW k \in Key
        PROVE  /\ <<"request", k>> \in DB!Id
               /\ DB!RowsAt(<<"request", k>>) = [digest : Request \cup Kid, event : {"event"} \X Artifact]
    BY <1>1 DEF DB!RowsAt
  <1>4. ASSUME NEW k \in Kid
        PROVE  <<"kid", k>> \in DB!Id /\ DB!RowsAt(<<"kid", k>>) = Request \cup Kid
    BY <1>1 DEF DB!RowsAt
  <1>5. ASSUME NEW id \in DB!Id
        PROVE  \/ \E a \in Artifact : id = <<"event", a>>
               \/ \E k \in Key : id = <<"request", k>>
               \/ \E k \in Kid : id = <<"kid", k>>
    BY <1>1
  <1> QED  BY <1>2, <1>3, <1>4, <1>5

\* The row under each kind of key.
LEMMA Columns ==
  ASSUME NEW e, NEW l, NEW r
  PROVE  /\ \A a : RowAt(e, l, r, <<"event", a>>) = IF a \in e THEN <<"event", a>> ELSE None
         /\ \A k : RowAt(e, l, r, <<"request", k>>) = IF l[k] = None THEN None ELSE Response(l[k])
         /\ \A k : RowAt(e, l, r, <<"kid", k>>) = IF k \in r THEN k ELSE None
  BY DEF RowAt

\* A row that is not there is written, and the event of a response with it:
\* that is a transaction.
LEMMA OneWritten ==
  ASSUME NEW e, NEW l, NEW r, NEW f, NEW m, NEW s, NEW now, NEW id \in DB!Id, NEW row,
         RowAt(e, l, r, id) = None, RowAt(f, m, s, id) = row, row \in DB!RowsAt(id),
         \A i \in DB!Id \ {id} :
           RowAt(f, m, s, i) = IF id \in {"request"} \X Key /\ i = row.event THEN i
                               ELSE RowAt(e, l, r, i)
  PROVE  DB!Transaction(TablesOf(e, l, r), TablesOf(f, m, s), now)
  <1> DEFINE t == TablesOf(e, l, r)
             u == TablesOf(f, m, s)
  <1>1. t[id] = None /\ u[id] = row  BY DEF TablesOf
  <1>2. u = [i \in DB!Id |-> IF i = id THEN row
                             ELSE IF id \in {"request"} \X Key /\ i = row.event THEN i
                             ELSE t[i]]
    <2>1. ASSUME NEW i \in DB!Id
          PROVE  RowAt(f, m, s, i) = IF i = id THEN row
                             ELSE IF id \in {"request"} \X Key /\ i = row.event THEN i
                             ELSE t[i]
      <3>1. t[i] = RowAt(e, l, r, i)  BY DEF TablesOf
      <3> HIDE DEF t
      <3> QED  BY <3>1
    <2> HIDE DEF t
    <2> QED  BY <2>1 DEF TablesOf
  <1> HIDE DEF t, u
  <1>3. DB!Write(t, u, id, u[id], now)
    BY <1>1, <1>2 DEF DB!Write, DB!Taken
  <1> QED  BY <1>3 DEF DB!Transaction, t, u

\* save_event.
LEMMA EventWritten ==
  ASSUME NEW e, NEW l, NEW r, NEW a \in Artifact, a \notin e, NEW now
  PROVE  DB!Transaction(TablesOf(e, l, r), TablesOf(e \cup {a}, l, r), now)
  <1> DEFINE id == <<"event", a>>
             f == e \cup {a}
  <1>1. id \in DB!Id /\ id \in DB!RowsAt(id) /\ id \notin {"request"} \X Key
    BY Keys
  <1>2. RowAt(e, l, r, id) = None /\ RowAt(f, l, r, id) = id
    BY Columns
  <1>3. ASSUME NEW i \in DB!Id, i # id  PROVE RowAt(f, l, r, i) = RowAt(e, l, r, i)
    <2>1. ASSUME NEW b \in Artifact, i = <<"event", b>>  PROVE RowAt(f, l, r, i) = RowAt(e, l, r, i)
      BY <1>3, <2>1, Columns
    <2>2. ASSUME NEW k \in Key, i = <<"request", k>>  PROVE RowAt(f, l, r, i) = RowAt(e, l, r, i)
      BY <2>2, Columns
    <2>3. ASSUME NEW k \in Kid, i = <<"kid", k>>  PROVE RowAt(f, l, r, i) = RowAt(e, l, r, i)
      BY <2>3, Columns
    <2> QED  BY <2>1, <2>2, <2>3, Keys
  <1> HIDE DEF id, f
  <1>4. DB!Transaction(TablesOf(e, l, r), TablesOf(f, l, r), now)
    BY <1>1, <1>2, <1>3, OneWritten
  <1> QED  BY <1>4 DEF f

\* register_public_key.
LEMMA KeyWritten ==
  ASSUME NEW e, NEW l, NEW r, NEW k \in Kid, k \notin r, NEW now
  PROVE  DB!Transaction(TablesOf(e, l, r), TablesOf(e, l, r \cup {k}), now)
  <1> DEFINE id == <<"kid", k>>
             s == r \cup {k}
  <1>1. id \in DB!Id /\ k \in DB!RowsAt(id) /\ id \notin {"request"} \X Key
    BY Keys
  <1>2. RowAt(e, l, r, id) = None /\ RowAt(e, l, s, id) = k
    BY Columns
  <1>3. ASSUME NEW i \in DB!Id, i # id  PROVE RowAt(e, l, s, i) = RowAt(e, l, r, i)
    <2>1. ASSUME NEW b \in Artifact, i = <<"event", b>>  PROVE RowAt(e, l, s, i) = RowAt(e, l, r, i)
      BY <2>1, Columns
    <2>2. ASSUME NEW j \in Key, i = <<"request", j>>  PROVE RowAt(e, l, s, i) = RowAt(e, l, r, i)
      BY <2>2, Columns
    <2>3. ASSUME NEW j \in Kid, i = <<"kid", j>>  PROVE RowAt(e, l, s, i) = RowAt(e, l, r, i)
      BY <1>3, <2>3, Columns
    <2> QED  BY <2>1, <2>2, <2>3, Keys
  <1> HIDE DEF id, s
  <1>4. DB!Transaction(TablesOf(e, l, r), TablesOf(e, l, s), now)
    BY <1>1, <1>2, <1>3, OneWritten
  <1> QED  BY <1>4 DEF s

\* save_created_response: both rows at once.
LEMMA ResponseWritten ==
  ASSUME NEW e, NEW l \in [Key -> Row \cup {None}], NEW r, NEW k \in Key, NEW row \in Row,
         l[k] = None, NEW now
  PROVE  DB!Transaction(TablesOf(e, l, r), TablesOf(e \cup {row.art}, [l EXCEPT ![k] = row], r), now)
  <1> DEFINE id == <<"request", k>>
             new == Response(row)
             f == e \cup {row.art}
             m == [l EXCEPT ![k] = row]
  <1>1. row.req \in Request /\ row.art \in Artifact /\ row # None
    BY CreationAssumption DEF Row
  <1>2. id \in DB!Id /\ new \in DB!RowsAt(id) /\ id \in {"request"} \X Key
    BY <1>1, Keys DEF Response
  <1>3. RowAt(e, l, r, id) = None /\ RowAt(f, m, r, id) = new
    <2>1. l[k] = None /\ m[k] = row  OBVIOUS
    <2> HIDE DEF m, f
    <2> QED  BY <1>1, <2>1, Columns
  <1>4. ASSUME NEW i \in DB!Id, i # id
        PROVE  RowAt(f, m, r, i) = IF i = new.event THEN i ELSE RowAt(e, l, r, i)
    <2>0. new.event = <<"event", row.art>>  BY DEF Response
    <2>1. ASSUME NEW b \in Artifact, i = <<"event", b>>
          PROVE RowAt(f, m, r, i) = IF b = row.art THEN i ELSE RowAt(e, l, r, i)
      BY <2>1, Columns
    <2>2. ASSUME NEW j \in Key, i = <<"request", j>>
          PROVE RowAt(f, m, r, i) = RowAt(e, l, r, i)
      <3>1. j # k  BY <1>4, <2>2
      <3>2. m[j] = l[j]  BY <3>1
      <3> HIDE DEF m, f
      <3> QED  BY <2>2, <3>2, Columns
    <2>3. ASSUME NEW j \in Kid, i = <<"kid", j>>
          PROVE RowAt(f, m, r, i) = RowAt(e, l, r, i)
      BY <2>3, Columns
    <2> HIDE DEF new, m, f, id
    <2> QED  BY <2>0, <2>1, <2>2, <2>3, Keys
  <1> HIDE DEF id, new, f, m
  <1>5. DB!Transaction(TablesOf(e, l, r), TablesOf(f, m, r), now)
    BY <1>2, <1>3, <1>4, OneWritten
  <1> QED  BY <1>5 DEF f, m

\* Whatever a worker does to the tables, in whatever interleaving and with
\* whatever failure, is one transaction of Stores: what Migration takes a
\* request for.
THEOREM Transactions == Spec => [][DB!Transaction(Tables, Tables', clock)]_Tables
  <1>1. ASSUME IInv, [Next]_vars, Tables' # Tables
        PROVE  DB!Transaction(Tables, Tables', clock)
    <2>0. Tables = TablesOf(events, ledger, registered) /\ Tables' = TablesOf(events', ledger', registered')
      BY DEF Tables
    <2>1. CASE UNCHANGED <<ledger, events>>
      <3>1. active \in Kid /\ registered' = registered \cup {active}
        BY <1>1, <2>0, <2>1
           DEF Next, Step, Fault, vars, Receive, Lookup, Stamp, Sign, Validate, SaveEvent, SaveLocal,
               PgInsert, PgSelect, PgCommit, Deliver, Unavailable, Unresolved, LostCommit, Vanish, Tick,
               Rotate, store, IInv, TypeOK
      <3>2. active \notin registered  BY <1>1, <2>0, <2>1, <3>1
      <3> QED  BY <2>0, <2>1, <3>1, <3>2, KeyWritten
    <2>2. CASE ~UNCHANGED <<ledger, events>>
      <3>1. PICK w \in Worker : SaveEvent(w) \/ SaveLocal(w) \/ PgCommit(w) \/ LostCommit(w)
        BY <1>1, <2>2
           DEF Next, Step, Fault, vars, Receive, Lookup, Stamp, Sign, Validate,
               PgInsert, PgSelect, Deliver, Unavailable, Unresolved, Vanish, Tick, Rotate, store
      <3>2. UNCHANGED registered
        BY <3>1 DEF SaveEvent, SaveLocal, PgCommit, LostCommit
      <3>3. CASE ~Keyed(req[w])
        <4>1. pc[w] = "save" /\ events' = events \cup {art[w]} /\ UNCHANGED ledger
          BY <1>1, <3>1, <3>3 DEF SaveEvent, SaveLocal, PgCommit, LostCommit, At, IInv, Building
        <4>2. art[w] \in Artifact  BY <1>1, <4>1 DEF IInv, Building
        <4> QED  BY <2>0, <2>2, <3>2, <4>1, <4>2, EventWritten
      <3>4. CASE Keyed(req[w])
        <4>1. pc[w] \in {"save", "insertEvent"} /\ BindRow(w) /\ RowOf(w) = None
          BY <1>1, <2>2, <3>1, <3>4
             DEF SaveEvent, SaveLocal, PgCommit, LostCommit, At, IInv, Exclusive, RowOf
        <4> DEFINE k == KeyOf[req[w]]
                   row == [req |-> req[w], art |-> art[w]]
        <4>2. k \in Key /\ row \in Row /\ row.art = art[w]
          BY <1>1, <3>4, <4>1, KeyInRange DEF IInv, Building, Row
        <4>3. ledger \in [Key -> Row \cup {None}] /\ ledger[k] = None
          BY <1>1, <4>1 DEF IInv, TypeOK, RowOf
        <4>4. ledger' = [ledger EXCEPT ![k] = row] /\ events' = events \cup {row.art}
          BY <4>1 DEF BindRow
        <4> HIDE DEF k, row
        <4> QED  BY <2>0, <3>2, <4>2, <4>3, <4>4, ResponseWritten
      <3> QED  BY <3>3, <3>4
    <2> QED  BY <2>1, <2>2
  <1>2. IInv /\ [Next]_vars => [DB!Transaction(Tables, Tables', clock)]_Tables
    BY <1>1
  <1> QED  BY <1>2, Invariance, PTL DEF Spec

LEMMA TablesGrow ==
  ASSUME IInv, [Next]_vars
  PROVE  /\ \A k \in Key : ledger[k] # None => ledger'[k] = ledger[k]
         /\ events \subseteq events' /\ registered \subseteq registered'
  <1>1. registered \subseteq registered'
    BY DEF Next, Step, Fault, vars, Receive, Lookup, Stamp, Sign, Validate, SaveEvent, SaveLocal,
         PgInsert, PgSelect, PgCommit, Deliver, Unavailable, Unresolved, LostCommit, Vanish, Tick,
         Rotate, store
  <1>2. CASE UNCHANGED <<ledger, events>>
    BY <1>1, <1>2
  <1>3. ASSUME NEW w \in Worker, SaveEvent(w) \/ SaveLocal(w) \/ PgCommit(w) \/ LostCommit(w)
        PROVE  /\ \A k \in Key : ledger[k] # None => ledger'[k] = ledger[k]
               /\ events \subseteq events'
    <2>1. CASE UNCHANGED ledger
      BY <1>3, <2>1 DEF SaveEvent, SaveLocal, PgCommit, LostCommit, BindRow
    <2>2. CASE ~UNCHANGED ledger
      <3>1. RowOf(w) = None /\ BindRow(w)
        BY <1>3, <2>2
           DEF SaveEvent, SaveLocal, PgCommit, LostCommit, At, IInv, Exclusive, RowOf
      <3>2. ledger \in [Key -> Row \cup {None}]  BY DEF IInv, TypeOK
      <3> QED  BY <3>1, <3>2 DEF BindRow, RowOf
    <2> QED  BY <2>1, <2>2
  <1>4. ~UNCHANGED <<ledger, events>> =>
           \E w \in Worker : SaveEvent(w) \/ SaveLocal(w) \/ PgCommit(w) \/ LostCommit(w)
    BY DEF Next, Step, Fault, vars, Receive, Lookup, Stamp, Sign, Validate,
         PgInsert, PgSelect, Deliver, Unavailable, Unresolved, Vanish, Tick, Rotate, store
  <1> QED  BY <1>1, <1>2, <1>3, <1>4

\* Nothing is undone: no fault, retry or rotation takes back a ledger row, an
\* event or a registered key, or puts another in its place.
THEOREM NothingIsUndone ==
  Spec => [][/\ \A k \in Key : ledger[k] # None => ledger'[k] = ledger[k]
             /\ events \subseteq events' /\ registered \subseteq registered']_vars
  BY TablesGrow, Invariance, PTL DEF Spec

\* A transaction whose INSERT met a row finds it with its SELECT: "Creation
\* record disappeared during transaction" is never raised.
Found == \A w \in Worker : pc[w] = "select" => RowOf(w) # None

LEMMA FoundStep ==
  ASSUME IInv, Found, [Next]_vars
  PROVE  Found'
  <1> SUFFICES ASSUME NEW w \in Worker, pc'[w] = "select"  PROVE ledger'[KeyOf[req'[w]]] # None
    BY DEF Found, RowOf
  <1>1. CASE pc[w] = "select" /\ req'[w] = req[w]
    <2>1. KeyOf[req[w]] \in Key /\ ledger[KeyOf[req[w]]] # None
      BY <1>1, KeyInRange DEF IInv, Building, Found, RowOf
    <2> QED  BY <1>1, <2>1, TablesGrow
  <1>2. CASE PgInsert(w)
    BY <1>2 DEF PgInsert, Goto, RowOf, store, IInv, TypeOK
  <1> QED
    BY <1>1, <1>2
       DEF Next, Step, Fault, vars, local, Receive, Lookup, Stamp, Sign, Validate, SaveEvent, SaveLocal,
           PgInsert, PgSelect, PgCommit, Deliver, Unavailable, Unresolved, LostCommit, Vanish, Tick,
           Rotate, At, Goto, Respond, RespondFromRow, Settle, IInv, TypeOK

THEOREM RecordIsFound == Spec => []Found
  <1>1. Init => Found  BY DEF Init, Found
  <1> QED  BY <1>1, FoundStep, Invariance, PTL DEF Spec

\* What callers hold never contradicts itself, over all retries: a request is
\* answered 200 or it is answered 409, never both, and if it names an
\* identity all its 200 answers are one event.
THEOREM AnswersNeverFlip ==
  Spec => [](\A s, t \in told : s.req = t.req /\ s.status = 200 =>
               t.status = 200 /\ (Keyed(s.req) => s.art = t.art))
  <1>1. ASSUME IInv, NEW s \in told, NEW t \in told, s.req = t.req,
               s.status = 200
        PROVE  t.status = 200 /\ (Keyed(s.req) => s.art = t.art)
    <2>1. s.art \in events /\ s.art.req = s.req
      BY <1>1 DEF IInv, Hearsay, Truthful
    <2>2. Keyed(s.req) => ledger[KeyOf[s.req]] = [req |-> s.req, art |-> s.art]
      BY <1>1, <2>1 DEF IInv, LedgerAndEventsAgree
    <2>3. t.status # 409
      BY <1>1, <2>2 DEF IInv, Hearsay, Truthful
    <2>4. t.status = 200 /\ t.art \in events /\ t.art.req = t.req
      BY <1>1, <2>3 DEF IInv, TypeOK, Hearsay, Truthful
    <2>5. Keyed(t.req) => ledger[KeyOf[t.req]] = [req |-> t.req, art |-> t.art]
      BY <1>1, <2>4 DEF IInv, LedgerAndEventsAgree
    <2> QED  BY <1>1, <2>2, <2>4, <2>5
  <1>2. IInv => \A s, t \in told : s.req = t.req /\ s.status = 200 =>
                  t.status = 200 /\ (Keyed(s.req) => s.art = t.art)
    BY <1>1
  <1> QED  BY <1>2, Invariance, PTL
=============================================================================
