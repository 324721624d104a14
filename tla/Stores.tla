------------------------------- MODULE Stores -------------------------------
(***************************************************************************)
(* The rows of a state database (state.py), what one request's transaction *)
(* writes, and what merging a database into another makes of two rows      *)
(* under one key (manage.py, migrate).                                     *)
(***************************************************************************)
EXTENDS Naturals

CONSTANTS
  Nonce, Event, Ledger, Accept, Key,  \* primary keys, table by table
  Digest,                             \* digests and public keys
  Retention,                          \* a nonce consumed at t is kept until t + Retention
  DemoKid, Seed,                      \* the directory's own kid and public key, if any
  None

Id == Nonce \cup Event \cup Ledger \cup Accept \cup Key

\* An event's hash is its content, so a row of events has one value.
RowsAt(id) ==
  CASE id \in Nonce  -> Nat
    [] id \in Event  -> {id}
    [] id \in Ledger -> [digest : Digest, event : Event]
    [] id \in Accept -> [digest : Digest, at : Nat]
    [] id \in Key    -> Digest

IsTable(t) ==
  /\ t = [id \in Id |-> t[id]]
  /\ \A id \in Id : t[id] = None \/ t[id] \in RowsAt(id)

Empty == [id \in Id |-> None]

\* The tables in the order migrate copies them.
Rank(id) ==
  CASE id \in Nonce  -> 1
    [] id \in Event  -> 2
    [] id \in Ledger -> 3
    [] id \in Accept -> 4
    [] id \in Key    -> 5

ASSUME StoresAssumption ==
  /\ Retention \in Nat
  /\ DemoKid \in Key /\ Seed \in Digest \cup {None}
  /\ \A id \in Id : None \notin RowsAt(id)
  /\ Nonce \cap (Event \cup Ledger \cup Accept \cup Key) = {}
  /\ Event \cap (Ledger \cup Accept \cup Key) = {}
  /\ Ledger \cap (Accept \cup Key) = {} /\ Accept \cap Key = {}

Spent(id, row, now) == id \in Nonce /\ row < now

\* A row is there, and still counts.
Taken(t, id, now) == t[id] # None /\ ~Spent(id, t[id], now)

\* Mutant: the columns of the ledger's INSERT, in the order of its values.
WriteSwapped(t, u, id, row, now) ==
  /\ row \in RowsAt(id) /\ ~Taken(t, id, now)
  /\ id \in Nonce => row = now + Retention
  /\ id \in Accept => row.at <= now
  /\ u = [i \in Id |-> IF i = id THEN IF id \in Ledger THEN [digest |-> row.event, event |-> row.digest] ELSE row
                       ELSE IF id \in Ledger /\ i = row.event THEN i
                       ELSE t[i]]

\* The transaction of one request on the row of key id: consume_nonce,
\* save_event, save_created_response (ledger and event together),
\* accept_event_identity, whose time is read before it begins, or
\* register_public_key.  t becomes u.
Write(t, u, id, row, now) ==
  /\ row \in RowsAt(id) /\ ~Taken(t, id, now)
  /\ id \in Nonce => row = now + Retention
  /\ id \in Accept => row.at <= now
  /\ u = [i \in Id |-> IF i = id THEN row
                       ELSE IF id \in Ledger /\ i = row.event THEN i
                       ELSE t[i]]

Transaction(t, u, now) == \E id \in Id : Write(t, u, id, u[id], now)

\* The deletion of spent nonces: prune_nonces, and consume_nonce in SQLite.
Sweep(t, now) ==
  [id \in Id |-> IF t[id] # None /\ Spent(id, t[id], now) THEN None ELSE t[id]]

\* The rows migrate copies: the key of signing_keys counts as registered.
WithSeed(t) == [t EXCEPT ![DemoKid] = IF @ = None THEN Seed ELSE @]

\* Two rows under one key that a migration can reconcile: a response and a
\* public key must be the same, an acceptance must be of the same content.
Agrees(id, s, t) ==
  /\ id \in Ledger \cup Key => s = t
  /\ id \in Accept => s.digest = t.digest

\* A nonce is kept as long as either database wants; any other row that is
\* there stays.
Merged(id, s, t) ==
  IF s = None \/ t = None
    THEN IF t = None THEN s ELSE t
    ELSE IF id \in Nonce /\ t < s THEN s ELSE t

\* Nothing that s decides is undecided or decided otherwise in t.
Covers(id, s, t, now) ==
  s = None \/ Spent(id, s, now) \/
    (t # None /\ Agrees(id, s, t) /\ (id \in Nonce => s <= t))
=============================================================================
