# JEP API: specifications and proofs

TLA+ models of the JEP Core 0.7 Reference API (`main.py`, `state.py`, `keys.py`,
`manage.py`, `scripts/entrypoint.py`, `scripts/deploy_hf.py`), the TLC runs that check them on small instances, and theorems
about them that TLAPS checks for every value of the constants. The code is the
reference: each definition is translated from the lines `PROJECT.json` maps it
to.

Run a check with `tlc -config Creation.cfg MCCreation.tla`, a proof with
`tlapm CreationProofs.tla`.

## The system

FastAPI handlers run in threads of one or more replicas. All they share is a
database: SQLite for one host (`LocalState`), PostgreSQL for several
(`PostgresState`). A handler is a sequence of short transactions with reads of
the clock, of a key file or of Vault between them; every call opens a
connection of its own. A request's state is its local variables, and it is gone
when the thread dies. So the interleavings that matter are between transactions
in SQLite (`BEGIN IMMEDIATE`), and between statements in PostgreSQL at READ
COMMITTED, where an `INSERT ... ON CONFLICT` waits for another transaction's
uncommitted row under the same key.

| Part | State | Operations | Talks to | What is hard | What makes it correct |
|---|---|---|---|---|---|
| Creation, `create_event_07`, `create_event` | `created_requests`, `events` | look up, stamp, sign, validate, save both rows | key provider, registry, database | races of one identity, lost commits, resends after rotation | one artifact per creation identity, stored and resolvable, resending settles |
| Acceptance, `validate_event_07` | `accepted_events` | checks, TTL, scope, `accept_event_identity` | registry, database, clock | races of one identity, lost decisions, several clock readings | `effect_applied: true` once, durable, later answers true |
| Legacy verification, `validate_event` | `nonces` | checks, `consume_nonce`, `prune_nonces` | registry, database, clocks of several hosts | records dropped on another reading than the one a window is checked on | no event accepted twice |
| Key providers and history, `KeyManager` | `public_keys`, `signing_keys`, key file, Vault | snapshot, register, sign | database, file, Vault | rotation between snapshot and signing, a kid bound twice | a kid never changes its key, a signature comes from one configuration |
| Migration, `manage.py` | both databases | merge, verify, commit or roll back | both databases | conflicts half way, writers not stopped | all or nothing, no decision lost |
| Startup, `entrypoint.py`, `configured_state` | environment, private files | choose database and key provider | all | four guards in three files, secrets as value or path | no production start without database, keys and token |
| Gate, `reject_ambiguous_json` | token file | strict JSON, token check | handlers | body read twice, by two readers; token rotated meanwhile | nothing changes state unauthenticated |
| Deployment, `deploy_hf.py` | Space, its configuration, image | check, upload, poll `/health` | platform, startup | old container still answers, configuration edited, upload that raises after it took effect | what is called verified has passed the production guards |
| Pure parts | none | JCS numbers, schema codes, historical formats | | boundaries | agreement with a reference definition |

## Modules

| Module | Models | State |
|---|---|---|
| `CreationPromise` | what creation promises its callers | `bound`, `stored`, `told` |
| `Creation` | `create_event_07` and both `save_created_response` | tables `ledger`, `events`, `registered`; each handler's `pc`, `req`, `art`, `ans`; `active` key, `clock`, `database`; answers `told` |
| `AcceptancePromise` | what acceptance promises | `decided`, `applied`, `told` |
| `Acceptance` | `validate_event_07` and both `accept_event_identity` | tables `accepted`, `known`; each handler's `pc`, `sub`, `now`, `ans`; true time `clock`, `database`; history `prior`, `since`, `applied`, `told` |
| `Replay` | `validate_event`, both `consume_nonce`, `prune_nonces` | table `nonces`; each handler's `pc`, `ev`, `mode`, `now`, `since`, `ans`; true time `clock`, `database`; history `asked`, `used`, `accepts` |
| `KeyPromise` | what the key history promises | `bound`, `signed` |
| `KeyHistory` | `KeyManager`, `signing_key`, both `register_public_key` | `deployment`; `registry`, `seed`; the configuration `source[p]` at each place; each process's `pc`, `job`, `pinned` key, configuration `conf`, entry `nth`; history `signed` |
| `Stores` | the tables of either database, what a request writes, what a merge makes of two rows | operators only |
| `MigrationPromise` | what a migration promises | `source`, `target`, `clock` |
| `Migration` | `migrate`, and the cutover around it | `beside`; `source`, `target`; the attempt's `report`, `quiet`, `todo`, `work`; `phase`, `clock`; history `told` |
| `Startup` | which environments start, with which database and provider | operators only |
| `Gate` | `reject_ambiguous_json`, with `Startup` | `env`, `up`, token files `mounted` and `private`, each request's `flight` |
| `Deploy` | `deploy_hf.py`, with `Startup` | `script`, `checked`, `attempt`, `space`, `image`, `serving`; history `steady` |
| `NumberTokens` | `_binary64_numbers` and `jcs_seed` on integers | `wrote`, `token`, `read`, `signed` |
| `MC...` | instances for TLC | |
| `...Proofs` | theorems | |

How they read against the code:

- `pc` says which call of the handler comes next. An action is one call with all
  that happens up to the next one: a transaction, a statement that can wait, or
  a reading of the clock. `database` is chosen at startup and stays; the SQLite
  transactions (`SaveLocal`, `RecordLocal`, `Consume`) are one action because
  `BEGIN IMMEDIATE` holds the write lock from their first read on.
- In PostgreSQL an INSERT whose row is free moves to a place (`insertEvent`,
  `commit`) at which the row is held and not visible. `HoldsKey` and
  `HoldsIdentity` are the lock; the tables change at the commit.
  `PostgresState.consume_nonce` is a single statement, hence a single action.
- `Unavailable` and `StorageDown` are a call that raises, lock and statement
  timeouts included. `LostCommit` is a call that raises after its commit took
  effect. `Vanish` is a worker, a process or a client connection that dies;
  PostgreSQL rolls the open transaction back. Callers may send anything at any
  time, so a retry needs no action of its own.
- `Rotate` changes the key the configuration names active, between any two steps.
  `Register` adds a key some replica has registered.
- The registry and the key file are read within one action of the model
  (`Sign`, `CheckEvent`), since one snapshot supplies both kid and key. The
  other keys that a snapshot registers are left out of `Creation`.
- What a check computes is a field of the event: `wellFormed`, `genuine`,
  `extensionsOk` (`sound` in `Replay`); digests are the contents themselves, so
  equal digests mean equal contents. What
  a row gives back is what was put in: JSON text and `jsonb` may reorder members and
  respell numbers, which canonicalisation undoes before anything is compared. Draws of `uuid4` do not repeat.
- A handler reads its host's clock, which is up to `Drift` off true time
  (`Reading`), each time the code calls `time.time()`: three times in `Acceptance`,
  once in `Replay`.
- `told`, `applied`, `prior`, `asked`, `used`, `accepts`, `steady`, and `since` of
  `Acceptance` are history; no action reads them in a guard. In `Creation` the refusals 422 and 503 are not recorded: they
  promise nothing.
- Operators commented "Mutant" are faulty variants of the definition that
  follows them. No behaviour uses them; each is what a check of a property's
  strength substitutes for the definition.

- `POST /events/create` takes the path of `Creation`'s requests without an id: a
  nonce is drawn where the other route draws the id, then both sign, validate and
  call `save_event`. `Draws` says so.
- In `KeyHistory` a snapshot is one `Read` and then one registration after
  another, each its own transaction; keys before a rejected entry stay
  registered, as in the code. `Vault` entries are `sound` and `private`: what
  Vault signs with is looked up again at the time of the call (`VaultSign`).
- `Migration` has one action per copied row, in the order of `Rank`. What it has
  written and not committed is `work`; requests wait for such rows (`Locked`).
  In the directory a reader keeps writers from committing while it reads. The
  operator's part (`Pause`, `Resume`, `Open`) follows `DEPLOYMENT.md`: move
  after an attempt that began with writers stopped was reported complete.
- `Gate` keeps `consume_nonce` as it is written (`Raw`), for `bool` reads it
  otherwise than pydantic. `since` is what the token file has held while the
  request was in progress, and is read by properties only.
- `Deploy`'s platform starts and loses containers at any time; a container that
  may not start (`MayStart`) leaves none. An older container answers until then.
  `Upload` may raise before it takes effect, and after.
- `NumberTokens` takes precision, range and the number of digits as constants.

`Creation` and `Acceptance` share nothing but the key registry: a created event
takes no acceptance state, and the two tables have no common key. `Replay` keys
its records by actor, audience and nonce. So they are separate modules rather than one
product. `Migration` composes the tables of all of them: its requests are the
transactions of `Stores`, one each, and that they are is a theorem of three of those modules
(`Transactions`, below). `Gate` and `Deploy` compose with `Startup`.

## Runs

Properties are stated, with comments, at the end of each module.

| Run | Instance | What it shows |
|---|---|---|
| `Creation` | both databases, 3 workers, two rivals for one identity and a request without id, salted artifacts, 2 keys | the invariants of `Creation` |
| `CreationLive` | both databases, 2 workers, the rivals, one request JCS refuses, one that fails validation, fairness | `KeepsPromise`: implements `CreationPromise`; `EveryCallEnds`, `ResendingSettles` |
| `Acceptance` | both databases, 2 workers, an event for each check that fails, one content under two signatures, TTL, audience, age, unknown keys | the invariants of `Acceptance`; `OnlyCheckedEventsDecide`: the event that takes an identity passed every check of its own request; `KeepsPromise`: implements `AcceptancePromise` |
| `AcceptanceLive` | both databases, 2 workers, two contents of one identity, clocks a second off, fairness | `ResendingDecides` |
| `Replay` | both databases, 2 workers, 2 scopes, clocks a second off, calls that stall for one, pruning, a nonce consumed again after its record expired | the invariants of `Replay`, `AcceptsOnlyLaterEvents`, `ConsumesOnlyChecked` |
| `KeyHistory` | 2 processes: on one directory, on a directory and a key file, on PostgreSQL with a key file, with a Vault; 4 configurations: a first, a rotation, a kid reused, a file refused half way; fairness | `TypeOK`, `SignedFromOneConfiguration`, `OneOwnKey`; `KeepsPromise`: implements `KeyPromise`; `RotationTakesEffect` |
| `Migration` | a row of each table, replicas at work on the target beside the service or not, fairness | the invariants of `Migration`, `DecidedOnce`; `KeepsPromise`: implements `MigrationPromise`; `RetryCompletes` |
| `Gate` | every environment with every body, two tokens | the invariants of `Gate` |
| `Deploy` | seven configurations, 3 polls, fairness | `VerifiedIsGuarded`: what the script calls verified has passed the production guards; `PollingEnds` |
| `NumberTokens` | every integer to 2100 in a format of 4 bits below 2^11 | `StringifiedIsSigned`, `OnlyNumbersAreRead` |
| `GatePublic` | violation | an archival verification that is refused for want of a token |
| `RefusedAgain` | violation | a resubmission past the TTL is not `already_accepted` |

What does not change while a service runs is a variable that `Init` chooses: the
`database`, the `deployment`, the `env` of a container, and whether replicas
work on the target of a migration (`beside`). So one run covers all
of them, and so does each theorem.

### Bounds

- Two workers suffice for each pairwise race; the third of `Creation` lets two
  wait for one holder, and one of them win after the holder aborts. `Acceptance`
  waits in the same way, with two; its theorems hold for any number.
- One contested identity, because tables are keyed by identity and no step reads
  two rows (SQLite's sweep of `nonces` does, and `Replay` has two scopes).
- `MaxTime` bounds the clock at 2 where a TTL has to pass, at 1 where only
  an instant has to. The window inequalities do not depend on the scale, and the theorems
  cover every value.
- `Replay` runs to `MaxTime = 5` with `MaxAge = 1`, `ClockSkew = 3`, and clocks and calls
  a second off. The acceptance of the first event (`when` 0) is recorded until 4 or 5, by
  its handler's clock, and the last readings are 6. So within the run records expire,
  are swept by the other scope's handler, pruned, and overwritten by the event with
  `when` 4, which is then in its own window and is accepted after the first one.
  `NoneOverdue` ends the search where a call has outlasted `Stall`: such a call has
  failed, and all it can still do is answer "invalid" or die, which touches nothing else.
- `Acceptance` has `Drift = 0` in its own run, which has every check and fault, and
  `Drift = 1` in `AcceptanceLive` and `RefusedAgain`; its theorems take any drift.
- In `Creation` time is read into artifacts only, and stands still
  (`MaxTime = 0`); it passes in `CreationLive`.
- `Draw` bounds the fresh draws. With none left, a request that needs one
  stands still; such requests are not in the liveness runs.
- Two processes race to generate a key. Two kids and two keys give configurations
  that agree with another or contradict it in one kid.
- One key per table in `Migration`, each with two possible digests: rows
  of one table do not meet, and the response and its event do. With `MaxTime = 1`
  and `Retention = 0` a nonce can be spent and consumed anew.
- One request at the gate: requests share the token file only, which changes at
  any time by itself.
- `NumberTokens` has 4 bits for 53, 3 digits for 21 and 2^11 for 2^1024, in
  the same order of size: the safe range, the gaps, the ties, the canonical
  spelling that is not the value, exponential spellings and the overflow all occur.
- Workers are symmetric, and keys and draws in `Creation`. Symmetry is not used in
  the runs with fairness; the properties of `Acceptance` and `Replay` name no worker.

The passing runs check deadlock too: no state is without a step.

### Fairness

`FairSpec` asserts weak fairness of `Step(w) \/ Unavailable(w)` (in `Acceptance`,
`StorageDown`) for each worker. The code justifies it: each connection has a
ten-second connect timeout, `statement_timeout` and `lock_timeout` (SQLite a
ten-second busy timeout), Vault calls have a ten-second timeout, and handlers
have no loop. The same holds of snapshots in `KeyHistory`, of
statements and the commit in `Migration`, and of the polling in `Deploy`, whose
requests have timeouts and whose pauses last ten seconds. The script gives the calls of
`HfApi` (`deploy_hf.py:14`, `15`, `44`) no time limit, and nothing is assumed of them. So a started handler proceeds, in the call's result or in its
failure. Nothing is assumed of clients, crashes, rotation, the clock or the
registry. `ResendingSettles` and `ResendingDecides` take their environment as
premises: failures stop from some point on, and the caller keeps resending.
`ResendingDecides` also presumes the key is registered in the end and the event
has no expiry; `RefusedAgain` shows that the latter is needed.

`RotationTakesEffect` presumes that the configuration stays in place and
contradicts no registered kid, and `RetryCompletes` that the operator repeats the attempt and
nothing else writes to the target.

### Disagreements with the documents

- `README.md:103` promises `already_accepted` for the same content again. After
  its TTL an accepted event is answered `rejected`, `ERR_EVENT_EXPIRED`
  (`main.py:521` comes before `main.py:547`), and a lost answer is lost for good.
- `DEPLOYMENT.md:17` calls archival verification without consumption public. The
  gate takes any truthy `consume_nonce` for a consumption (`main.py:320`), the
  string `"false"` included, and the member on `/v0.7/events/verify`, where no
  handler reads it: such requests change nothing and need the token. The other
  direction, an effect the gate let pass, does not occur (`EffectIsAuthenticated`).

No disagreement, but worth knowing: `accepted_at` is a later reading of the clock
(`main.py:548`) than the TTL check (`main.py:521`), so an acceptance can be dated at or
after its event's expiry (`ReadClock`).

## Proofs

TLAPS checks every proof to the last leaf; `AcceptanceAssumption`,
`CreationAssumption` and `ReplayAssumption` type the constants and say that
`None` is none of their values; so do `KeyHistoryAssumption`, `StoresAssumption`,
`MigrationAssumption`, `GateAssumption` and `DeployAssumption`. `TokensAssumption` takes any number
of digits and any precision below the range (`Precision < TopBit`), as 21, 53 and 1024 are,
and says that no answer is an integer. `AcceptanceAssumption` adds that events of one
content agree in all fields the digest covers.

- **Creation.** `IInv` adds to the properties what a handler carries (`Building`:
  its artifact is for its request and signed by a registered key), that a
  transaction past its INSERT is alone with a free row (`Exclusive`), and that
  every answer, on its way (`Replies`) or arrived (`Hearsay`), is borne out by
  the tables. `LedgerAndEventsAgree` alone is not inductive: that `PgCommit`
  overwrites nothing is `Exclusive`. Then `OneCreationPerIdentity`,
  `CreatedAnswerIsDurable` and `ConflictIsTruthful` follow, and `Refinement`
  maps commits to `Bind` or `Store` and deliveries to `TellCreated` or
  `TellConflict`. From the same invariant: `NothingIsUndone` (rows, events and keys
  only accumulate), `AnswersNeverFlip` (over all retries a request is answered 200 or
  409, never both) and `RecordIsFound`: once an INSERT met a row the SELECT finds
  it, so the branch "Creation record disappeared during transaction"
  (`state.py:252`) is dead.
- **Acceptance.** `IInv` adds `Carried` (past the checks the event is sound; past
  the last reading there is a time; a content accepted before stays so),
  `Exclusive` and `Replies`. `OnlyChecked` needs `Checked` besides: what a handler has
  behind it at each place (TTL, then audience and `max_age`) was judged on readings taken
  since its request arrived (`since`). All invariants, `DecisionIsFinal` and the
  refinement are proved; each commit goes through the one lemma `CommitStep`.
  `RecordIsFound` says the same of the branch at `state.py:222`. `NotAhead` dates
  decisions at most `Drift` ahead of true time: `accepted_at` is read before the row is
  written, on a clock that errs by no more.
- **Replay.** `IInv` adds `Waiting` (a waiting handler's reading was at most `Drift`
  off and its event in the window), `Protected` (each consumed nonce is recorded
  for long enough, or its time is over on every clock) and `Traceable`.
  `WinnerIsLater` is the argument: whoever wins a nonce again has an event
  newer than all that consumed it before. It needs `SkewCoversDelay`. `ChecksComeFirst`
  (`ConsumesOnlyChecked`) does not: a record is only written for an event that passed the
  checks of its mode, at most a call before. Nor does
  `UnprunedNeedsNoSkew`: on PostgreSQL, if nobody calls
  `prune_nonces` (`state.py:275`; nothing in the repository does), expired rows are overwritten and never dropped, and
  `AcceptedOnce` and `AcceptsOnlyLaterEvents` hold for every skew, drift and delay.
  Its invariant is `Recorded`: the row of a nonce, expired or not, outlasts every
  event that consumed it.
- **Key history.** `IInv` adds what a snapshot has done so far (`Working`: the
  entries before `nth` are registered as the configuration has them), that an
  uncommitted row is alone with a free kid (`Holding`), and that a process's own
  key is the directory's (`Owning`). `SignedFromOneConfiguration` then rests on
  the registry never changing a kid, which is also the refinement.
  `KeysAreTraced`: what is registered, for good, was in a configuration or is the
  directory's own key. `DisciplineSuffices` follows: if operators keep to "Never reuse a
  `kid` for different key material" (`DEPLOYMENT.md:25`), every configuration stays
  compatible with the registry, whatever snapshots failed half way; that is the
  premise of `RotationTakesEffect` as a rule an operator can follow. Then a usable
  configuration is refused for failures only (`OnlyFaultsRefuse`). The rule is a
  hypothesis of these two theorems: the instance breaks it, and there TLC finds a process
  that cannot start.
- **Migration.** `IInv` adds `Progressing`: every row of the directory is still to
  do, or is written, locked and covers its source. So a commit is `Merge` of
  `MigrationPromise`, and all steps before it stutter. `MovesOnce` proves
  `DecidedOnce`, which speaks of targets no other service uses (`~beside`): with one,
  two databases decide at the same time and nothing could prevent it. Its
  invariant is `Witnessed`: the database that serves has what callers were told.
  `NothingIsUndone` covers both databases through attempts, requests and the deletion
  of nonces. `RetryMeetsNoConflict` is the safety half of `RetryCompletes`: with no
  other writer at the target, an attempt that is repeated after a lost confirmation is
  never refused because of the rows of the first (`NewlyAlike`).
- **Stores.** `Transactions` of Creation, Acceptance and KeyHistory: each step
  of those modules, with all its interleavings and faults, changes the tables as one
  `Transaction` of `Stores` does, which is what `Migration` lets a request do
  (Acceptance needs `NotAhead` for it, and is dated on the clock that is ahead the
  most, `clock + Drift`). `DirectoryKey` justifies the guard of
  `SourceWrite`: processes on a directory register its own key and no other. For `Replay` there is
  no such theorem: its handlers read clocks that are off and calls that are late, and
  the requests of `Migration` have one clock.
- **Gate.** `IInv` adds that a request past the gate was `Cleared` by a token the file held.
  `ProductionShares` is a case analysis of the environments that may start
  (`ProductionStarts`). `PublicButFor` measures the second disagreement above: nobody is
  refused where no token is configured, and with one, of the valid requests that
  change nothing only the `Overreach` is refused: a truthy `consume_nonce` on the 0.7
  route, and a string that reads as false on the legacy one.
- **Deploy.** `IInv` says what the script has found past its check, and that a
  container has passed `MayStart`. Nothing ties the container that answers to the
  configuration checked but that it carries the new revision, so it was started after the
  check, and that the deployment mode was not edited since (`steady`). `Guarded` puts the two together with
  `ProductionStarts` (stated in both modules): names that the script finds and guards that
  the start passes.
- **Number tokens.** For every precision, range and number of digits. `Power` is a recursive
  function, and what it needs of induction comes from the least element of a set of
  numbers (`Least`). A size has one last place (`SomePlace`, `OnePlace`), so `Round`
  finds a nearest floating-point number (`FloatIsNearest`) and leaves those alone
  (`RoundTwice`). The shortest digits that denote a number read back as it
  (`WrittenReadsBack`), whence `ClientAndServiceAgree` (`StringifiedIsSigned`),
  `ExactlyNumbers` (`OnlyNumbersAreRead`) and `SignedReadsBack`: a canonical integer
  token is accepted and is its own canonical token.

`SkewCoversDelay`, `Stall + 2 * Drift <= ClockSkew`, is the one assumption about the
world. With `CLOCK_SKEW_SECONDS = 30`, ten seconds to connect and ten to execute, it
allows hosts five seconds of drift; on one host, all thirty seconds of delay. It is
as weak as it can be for `RecordOutlivesWindow`: with one second more TLC violates it.
"Hosts require synchronized clocks" (`DEPLOYMENT.md`) asks for it without a
number. `UnprunedNeedsNoSkew` is the way out of it.

Every safety property of a passing run is a theorem. Only model-checked: liveness (`EveryCallEnds`, `ResendingSettles`,
`ResendingDecides`, `RotationTakesEffect`, `RetryCompletes`, `PollingEnds`), which is
beyond this prover.

## Not modelled, and the plan

Left out for good:

- cryptography, canonicalisation and schema validation as computations: their
  verdicts are inputs, in the order of the code's checks;
- the codes and messages of the single checks (`schema_error_code`, the
  `checks` record), HTTP and JSON layout;
- `verify_legacy_event`: it reads one key, checks one event and changes nothing;
- `export-key` and `generate-key`, single commands on a file of their own: what
  they can leave behind is a truncated file that makes a repetition fail;
- license and release scripts;
- the creation of tables (`IF NOT EXISTS`, under an advisory lock in PostgreSQL).

Not seen by the models: characters PostgreSQL refuses in `jsonb`, which make a
request fail with 503 each time.

Next, in this order:

1. `Service`: `CreationPromise`, `AcceptancePromise` and `KeyPromise` with a client
   that follows the recovery rules of the source's `README.md`, so that an operation
   is created once and applied once through any failure.
2. The order of checks and codes of both validators as functions, with
   `EventError` of `Acceptance` as their abstraction.
