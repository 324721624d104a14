------------------------------ MODULE Migration ------------------------------
(***************************************************************************)
(* manage.py, migrate: a SQLite state directory is copied row by row into  *)
(* PostgreSQL in one transaction, and the service moves from one to the    *)
(* other as DEPLOYMENT.md lays down, with attempts that fail, or fail to   *)
(* report that they committed, and are repeated.                           *)
(***************************************************************************)
EXTENDS Stores

CONSTANT MaxTime    \* bound of the clock

ASSUME MigrationAssumption == MaxTime \in Nat

VARIABLES
  beside,       \* replicas work on the target before the service moves there
  source,       \* the committed rows of the state directory
  target,       \* the committed rows of PostgreSQL
  clock,
  phase,        \* who serves: "old" the directory, "paused" nobody, "new" PostgreSQL
  report,       \* the last attempt: "none", "running", "complete" or "failed"
  quiet,        \* it began when writers were stopped, and they still are
  todo,         \* keys of the source rows it has not come to
  work,         \* rows it has written and not committed; they are locked
  told          \* history, unless beside: what callers were told is decided, and where

attempt == <<report, quiet, todo, work>>
vars    == <<beside, source, target, clock, phase, attempt, told>>

Init ==
  /\ beside \in BOOLEAN
  /\ source = Empty /\ target = Empty /\ clock = 0
  /\ phase = "old" /\ report = "none" /\ quiet = FALSE
  /\ todo = {} /\ work = Empty
  /\ told = {}

Rows == WithSeed(source)

\* Mutant: the table of acceptances, newer than the tool, is not copied.
BeginWithoutAcceptances ==
  /\ phase # "new" /\ report # "running"
  /\ report' = "running" /\ quiet' = (phase = "paused")
  /\ todo' = {id \in Id \ Accept : Rows[id] # None}
  /\ UNCHANGED <<beside, source, target, clock, phase, work, told>>

\* Mutant: events are left to be saved again.
BeginWithoutEvents ==
  /\ phase # "new" /\ report # "running"
  /\ report' = "running" /\ quiet' = (phase = "paused")
  /\ todo' = {id \in Id \ Event : Rows[id] # None}
  /\ UNCHANGED <<beside, source, target, clock, phase, work, told>>

\* The read transaction on the directory and the transaction on PostgreSQL.
Begin ==
  /\ phase # "new" /\ report # "running"
  /\ report' = "running" /\ quiet' = (phase = "paused")
  /\ todo' = {id \in Id : Rows[id] # None}
  /\ UNCHANGED <<beside, source, target, clock, phase, work, told>>

Next1(id) ==
  /\ report = "running" /\ id \in todo
  /\ \A i \in todo : Rank(id) <= Rank(i)

Copied(id) ==
  IF target[id] = None \/ id \in Nonce THEN Merged(id, Rows[id], target[id]) ELSE None

\* Mutant: every INSERT is a transaction of its own.
CopyRowAlone(id) ==
  /\ Next1(id)
  /\ target[id] # None => Agrees(id, Rows[id], target[id])
  /\ target' = [target EXCEPT ![id] = Merged(id, Rows[id], target[id])]
  /\ todo' = todo \ {id}
  /\ UNCHANGED <<beside, source, clock, phase, report, quiet, work, told>>

\* Mutant: a row that is there is not compared.
CopyRowUnchecked(id) ==
  /\ Next1(id)
  /\ work' = [work EXCEPT ![id] = Copied(id)]
  /\ todo' = todo \ {id}
  /\ UNCHANGED <<beside, source, target, clock, phase, report, quiet, told>>

\* INSERT ... ON CONFLICT and the comparison with the row that is there.
CopyRow(id) ==
  /\ Next1(id)
  /\ target[id] # None => Agrees(id, Rows[id], target[id])
  /\ work' = [work EXCEPT ![id] = Copied(id)]
  /\ todo' = todo \ {id}
  /\ UNCHANGED <<beside, source, target, clock, phase, report, quiet, told>>

Rollback ==
  /\ report' = "failed" /\ todo' = {} /\ work' = Empty
  /\ UNCHANGED <<beside, source, target, clock, phase, quiet, told>>

\* Mutant: INSERT fails wherever there is a row.
ConflictWithAny(id) ==
  /\ Next1(id)
  /\ target[id] # None
  /\ Rollback

\* "migration rolled back": Creation response, Accepted Event Identity or
\* Historical key ID conflict.
Conflict(id) ==
  /\ Next1(id)
  /\ target[id] # None /\ ~Agrees(id, Rows[id], target[id])
  /\ Rollback

Publish(outcome) ==
  /\ report = "running" /\ todo = {}
  /\ target' = [id \in Id |-> IF work[id] = None THEN target[id] ELSE work[id]]
  /\ report' = outcome /\ work' = Empty
  /\ UNCHANGED <<beside, source, clock, phase, quiet, todo, told>>

\* PostgreSQL commits before the read transaction on the directory ends.
Commit     == Publish("complete")
LostCommit == Publish("failed")

\* The tool dies, either database fails, a lock is not to be had in time.
Fail == report = "running" /\ Rollback

-----------------------------------------------------------------------------
Tell(place, id, row) ==
  told' = IF beside \/ id \in Event THEN told ELSE told \cup {[place |-> place, id |-> id, row |-> row]}

\* A request at the directory.  While it is read, no write commits there.
\* Its own key is the one its processes register (KeyHistory, OneOwnKey).
SourceWrite(id, row) ==
  /\ phase = "old" /\ report # "running"
  /\ id = DemoKid /\ Seed # None => row = Seed
  /\ Write(IF id \in Nonce THEN Sweep(source, clock) ELSE source, source', id, row, clock)
  /\ Tell("source", id, row)
  /\ UNCHANGED <<beside, target, clock, phase, attempt>>

Serving   == phase = "new" \/ beside
Locked(id) == work[id] # None

\* A request at PostgreSQL, which waits for rows the migration has written.
TargetWrite(id, row) ==
  /\ Serving
  /\ ~Locked(id) /\ (id \in Ledger => ~Locked(row.event))
  /\ Write(target, target', id, row, clock)
  /\ Tell("target", id, row)
  /\ UNCHANGED <<beside, source, clock, phase, attempt>>

\* prune_nonces.
Prune ==
  /\ Serving
  /\ \A id \in Nonce : Locked(id) /\ target[id] # None => Taken(target, id, clock)
  /\ target' = Sweep(target, clock)
  /\ UNCHANGED <<beside, source, clock, phase, attempt, told>>

\* The operator stops the writers, may start them again, and moves the
\* service once an attempt made meanwhile is reported complete.
Pause ==
  /\ phase = "old" /\ phase' = "paused"
  /\ UNCHANGED <<beside, source, target, clock, attempt, told>>

Resume ==
  /\ phase = "paused" /\ phase' = "old" /\ quiet' = FALSE
  /\ UNCHANGED <<beside, source, target, clock, report, todo, work, told>>

Open ==
  /\ phase = "paused" /\ report = "complete" /\ quiet /\ phase' = "new"
  /\ UNCHANGED <<beside, source, target, clock, attempt, told>>

Tick ==
  /\ clock < MaxTime /\ clock' = clock + 1
  /\ UNCHANGED <<beside, source, target, phase, attempt, told>>

\* Rows a request can bring at the present time.
Candidates(id) ==
  CASE id \in Nonce  -> {clock + Retention}
    [] id \in Accept -> [digest : Digest, at : 0 .. clock]
    [] OTHER         -> RowsAt(id)

Next ==
  \/ Begin \/ Commit \/ LostCommit \/ Fail
  \/ \E id \in Id : CopyRow(id) \/ Conflict(id)
  \/ \E id \in Id : \E row \in Candidates(id) : SourceWrite(id, row) \/ TargetWrite(id, row)
  \/ Prune \/ Pause \/ Resume \/ Open \/ Tick

Spec == Init /\ [][Next]_vars

\* A statement ends within ten seconds, and so does the commit.
FairSpec == Spec /\ WF_vars(Commit \/ \E id \in Id : CopyRow(id) \/ Conflict(id))

-----------------------------------------------------------------------------
(* Properties.                                                             *)

\* Both databases hold rows of their tables, and the attempt is in a state
\* of its own.
TypeOK ==
  /\ beside \in BOOLEAN
  /\ IsTable(source) /\ IsTable(target) /\ IsTable(work)
  /\ clock \in 0 .. MaxTime
  /\ phase \in {"old", "paused", "new"}
  /\ report \in {"none", "running", "complete", "failed"}
  /\ quiet \in BOOLEAN
  /\ todo \subseteq Id
  /\ \A a \in told : a.id \in Id /\ a.row \in RowsAt(a.id)

\* "Migration complete", said of a directory whose writers are stopped: all
\* it decided is decided alike in PostgreSQL, then and from then on.
NothingForgotten ==
  report = "complete" /\ quiet =>
    \A id \in Id : Covers(id, Rows[id], target[id], clock)

\* A stored response always has its event beside it, also when it was merged.
ResponsesHaveEvents ==
  \A t \in {source, target}, l \in Ledger : t[l] # None => t[t[l].event] # None

\* If nobody works on the target before the service moves there: whichever
\* attempts failed, committed unheard or were repeated, what one database
\* decided the other does not decide anew.  No identity is accepted, created
\* or bound twice, and no nonce is consumed while it is kept.
DecidedOnce ==
  [][~beside => \A a \in told, b \in told' \ told : a.id = b.id => Spent(a.id, a.row, clock)]_vars

\* PostgreSQL receives all the directory holds at that moment, or nothing.
Promise == INSTANCE MigrationPromise
KeepsPromise == Promise!Spec

Failure == LostCommit \/ (Fail /\ \A id \in Id : ~Conflict(id))

\* An operator who repeats the migration until it works gets there, if no
\* other service writes to the target: an earlier commit is no conflict.
RetryCompletes ==
  (/\ ~beside
   /\ <>[][~Failure]_vars
   /\ []<>(report = "running"))
    => []<>(report = "complete")
==============================================================================
