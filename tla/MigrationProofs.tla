--------------------------- MODULE MigrationProofs ---------------------------
(***************************************************************************)
(* Proofs about Migration: whatever else writes to either database, an     *)
(* attempt that commits has merged what the directory then held.           *)
(***************************************************************************)
EXTENDS Migration, TLAPS

LEMMA RowTypes ==
  /\ \A id \in Nonce  : RowsAt(id) = Nat
  /\ \A id \in Event  : RowsAt(id) = {id}
  /\ \A id \in Ledger : RowsAt(id) = [digest : Digest, event : Event]
  /\ \A id \in Accept : RowsAt(id) = [digest : Digest, at : Nat]
  /\ \A id \in Key    : RowsAt(id) = Digest
  BY StoresAssumption DEF RowsAt, StoresAssumption, Id

LEMMA ResponseRow ==
  ASSUME NEW l \in Ledger, NEW r \in RowsAt(l)
  PROVE  r.event \in Event
  <1>1. RowsAt(l) = [digest : Digest, event : Event]  BY RowTypes
  <1> QED  BY <1>1

LEMMA NoRowIsNone == \A id \in Id : None \notin RowsAt(id)
  BY StoresAssumption DEF StoresAssumption

LEMMA TableTyped ==
  ASSUME NEW t, IsTable(t), NEW id \in Id
  PROVE  t[id] = None \/ t[id] \in RowsAt(id)
  BY DEF IsTable

LEMMA EmptyTyped == IsTable(Empty)
  BY DEF IsTable, Empty

LEMMA SeedTyped ==
  ASSUME NEW t, IsTable(t)
  PROVE  /\ IsTable(WithSeed(t))
         /\ \A id \in Id : t[id] # None => WithSeed(t)[id] = t[id]
         /\ \A id \in Id \ {DemoKid} : WithSeed(t)[id] = t[id]
  <1>1. Seed = None \/ Seed \in RowsAt(DemoKid)
    BY StoresAssumption, RowTypes DEF StoresAssumption
  <1> QED  BY <1>1 DEF WithSeed, IsTable

LEMMA SweepTyped ==
  ASSUME NEW t, IsTable(t), NEW now
  PROVE  /\ IsTable(Sweep(t, now))
         /\ \A id \in Id \ Nonce : Sweep(t, now)[id] = t[id]
         /\ \A id \in Id : Sweep(t, now)[id] # None => Sweep(t, now)[id] = t[id]
         /\ \A id \in Id : Taken(t, id, now) => Sweep(t, now)[id] = t[id]
  BY DEF Sweep, IsTable, Spent, Taken

\* A request's transaction changes its own row and completes events.
LEMMA WriteTyped ==
  ASSUME NEW t, NEW u, IsTable(t), NEW id \in Id, NEW row, NEW now \in Nat,
         Write(t, u, id, row, now)
  PROVE  /\ IsTable(u)
         /\ u[id] = row /\ row # None
         /\ \A i \in Id \ {id} : t[i] # None => u[i] = t[i]
         /\ \A i \in Id \ (Event \cup {id}) : u[i] = t[i]
         /\ id \in Ledger => row.event \in Event /\ u[row.event] # None
  <1>1. row \in RowsAt(id) /\ row # None
    BY NoRowIsNone DEF Write
  <1>2. ASSUME id \in Ledger  PROVE row.event \in Event
    BY <1>1, <1>2, ResponseRow
  <1>3. ASSUME NEW i \in Event  PROVE i \in RowsAt(i) /\ i # None
    <2>1. RowsAt(i) = {i}  BY RowTypes
    <2>2. None \notin RowsAt(i)  BY NoRowIsNone DEF Id
    <2> QED  BY <2>1, <2>2
  <1>4. ASSUME NEW i \in Event, t[i] # None  PROVE t[i] = i
    BY <1>4, TableTyped, RowTypes DEF Id
  <1>5. IsTable(u)
    BY <1>1, <1>2, <1>3 DEF Write, IsTable, Id
  <1>6. \A i \in Id \ {id} : t[i] # None => u[i] = t[i]
    BY <1>2, <1>4 DEF Write
  <1>7. id \in Ledger => u[row.event] # None
    BY <1>1, <1>2, <1>3 DEF Write, Id
  <1> QED  BY <1>1, <1>2, <1>5, <1>6, <1>7 DEF Write

\* A row that still counts is not overwritten.
LEMMA WriteKeeps ==
  ASSUME NEW t, NEW u, IsTable(t), NEW id \in Id, NEW row, NEW now \in Nat,
         Write(t, u, id, row, now), NEW i \in Id, Taken(t, i, now)
  PROVE  u[i] = t[i]
  <1>1. i # id /\ t[i] # None  BY DEF Write, Taken
  <1> QED  BY <1>1, WriteTyped

LEMMA MergedTyped ==
  ASSUME NEW s, NEW t, IsTable(s), IsTable(t), NEW id \in Id
  PROVE  /\ Merged(id, s[id], t[id]) = None \/ Merged(id, s[id], t[id]) \in RowsAt(id)
         /\ Merged(id, s[id], t[id]) = None => s[id] = None /\ t[id] = None
  BY TableTyped DEF Merged

\* What is merged covers what it was merged from.
LEMMA MergedCovers ==
  ASSUME NEW s, NEW t, IsTable(s), IsTable(t), NEW id \in Id, NEW now \in Nat,
         s[id] # None /\ t[id] # None => Agrees(id, s[id], t[id])
  PROVE  Covers(id, s[id], Merged(id, s[id], t[id]), now)
  <1>1. s[id] = None \/ s[id] \in RowsAt(id)  BY TableTyped
  <1>2. t[id] = None \/ t[id] \in RowsAt(id)  BY TableTyped
  <1>3. CASE id \in Nonce
    <2>1. id \notin Ledger \cup Key \cup Accept
      BY <1>3, StoresAssumption DEF StoresAssumption
    <2> QED  BY <1>1, <1>2, <1>3, <2>1, RowTypes DEF Covers, Merged, Agrees
  <1>4. CASE id \notin Nonce
    BY <1>1, <1>2, <1>4 DEF Covers, Merged, Agrees
  <1> QED  BY <1>3, <1>4

\* Requests and deletions never uncover what a table covers.
LEMMA CoverLasts ==
  ASSUME NEW s, NEW t, NEW u, IsTable(s), IsTable(t), NEW id \in Id, NEW now \in Nat,
         Covers(id, s[id], t[id], now),
         Taken(t, id, now) => u[id] = t[id]
  PROVE  Covers(id, s[id], u[id], now)
  <1>1. s[id] = None \/ s[id] \in RowsAt(id)  BY TableTyped
  <1>2. t[id] = None \/ t[id] \in RowsAt(id)  BY TableTyped
  <1> QED  BY <1>1, <1>2, RowTypes DEF Covers, Taken, Spent

-----------------------------------------------------------------------------
\* A row is written, or was there and agrees; only an INSERT leaves a lock.
Progressing ==
  /\ report # "running" => work = Empty
  /\ report = "running" => \A id \in Id :
       /\ id \in todo => Rows[id] # None /\ work[id] = None
       /\ work[id] # None =>
            /\ target[id] = None \/ id \in Nonce
            /\ work[id] = Merged(id, Rows[id], target[id])
       /\ Rows[id] # None /\ id \notin todo /\ work[id] = None =>
            target[id] # None /\ id \notin Nonce /\ Agrees(id, Rows[id], target[id])

IInv ==
  /\ TypeOK
  /\ quiet => phase # "old"
  /\ Progressing
  /\ NothingForgotten
  /\ ResponsesHaveEvents

HasEvents(t) == \A l \in Ledger : t[l] # None => t[t[l].event] # None

LEMMA RowsTyped ==
  ASSUME IInv
  PROVE  /\ IsTable(source) /\ IsTable(target) /\ IsTable(work) /\ IsTable(Rows)
         /\ \A id \in Id : source[id] # None => Rows[id] = source[id]
         /\ \A id \in Id \ {DemoKid} : Rows[id] = source[id]
         /\ clock \in Nat
  BY SeedTyped, MigrationAssumption DEF IInv, TypeOK, Rows, MigrationAssumption

LEMMA InitInvariant == Init => IInv
  <1> SUFFICES ASSUME Init  PROVE IInv
    OBVIOUS
  <1>1. TypeOK
    <2>1. IsTable(source) /\ IsTable(target) /\ IsTable(work)
      BY EmptyTyped DEF Init
    <2>2. clock \in 0 .. MaxTime
      BY MigrationAssumption DEF Init, MigrationAssumption
    <2> QED  BY <2>1, <2>2 DEF Init, TypeOK
  <1>2. ResponsesHaveEvents
    BY DEF Init, ResponsesHaveEvents, Empty, Id
  <1> QED  BY <1>1, <1>2 DEF Init, IInv, Progressing, NothingForgotten

\* Rows written by a request keep their events beside them.
LEMMA WriteHasEvents ==
  ASSUME NEW t, NEW u, IsTable(t), NEW id \in Id, NEW row, NEW now \in Nat,
         Write(t, u, id, row, now), HasEvents(t)
  PROVE  HasEvents(u)
  <1> SUFFICES ASSUME NEW l \in Ledger, u[l] # None  PROVE u[u[l].event] # None
    BY DEF HasEvents
  <1>1. l \in Id /\ l \notin Event  BY StoresAssumption DEF Id, StoresAssumption
  <1>2. CASE l = id  BY <1>1, <1>2, WriteTyped
  <1>3. CASE l # id
    <2>1. u[l] = t[l]  BY <1>1, <1>3, WriteTyped
    <2>2. t[l].event \in Event  BY <1>1, <2>1, TableTyped, ResponseRow
    <2>3. t[t[l].event] # None  BY <2>1 DEF HasEvents
    <2>4. t[l].event \in Id  BY <2>2 DEF Id
    <2>5. CASE t[l].event = id  BY <2>1, <2>5, WriteTyped
    <2>6. CASE t[l].event # id  BY <2>1, <2>3, <2>4, <2>6, WriteTyped
    <2> QED  BY <2>5, <2>6
  <1> QED  BY <1>2, <1>3

LEMMA SweepHasEvents ==
  ASSUME NEW t, IsTable(t), NEW now, HasEvents(t)
  PROVE  HasEvents(Sweep(t, now))
  <1> SUFFICES ASSUME NEW l \in Ledger, Sweep(t, now)[l] # None
               PROVE  Sweep(t, now)[Sweep(t, now)[l].event] # None
    BY DEF HasEvents
  <1>1. l \in Id \ Nonce  BY StoresAssumption DEF Id, StoresAssumption
  <1>2. Sweep(t, now)[l] = t[l] /\ t[l].event \in Event
    BY <1>1, SweepTyped, TableTyped, ResponseRow
  <1>3. t[l].event \in Id \ Nonce  BY <1>2, StoresAssumption DEF Id, StoresAssumption
  <1> QED  BY <1>2, <1>3, SweepTyped DEF HasEvents

-----------------------------------------------------------------------------
LEMMA BeginStep ==
  ASSUME IInv, Begin
  PROVE  IInv'
  <1>1. TypeOK'  BY DEF Begin, IInv, TypeOK
  <1>2. Progressing'
    BY DEF Begin, IInv, Progressing, Rows, Empty
  <1> QED  BY <1>1, <1>2 DEF Begin, IInv, NothingForgotten, ResponsesHaveEvents

LEMMA CopyRowStep ==
  ASSUME IInv, NEW id \in Id, CopyRow(id)
  PROVE  IInv'
  <1>1. UNCHANGED <<beside, source, target, clock, phase, report, quiet, told>> /\ report = "running"
    BY DEF CopyRow, Next1
  <1>2. work'[id] = Copied(id) /\ \A i \in Id \ {id} : work'[i] = work[i]
    BY RowsTyped DEF CopyRow, IsTable
  <1>3. Rows[id] # None /\ work[id] = None /\ id \in todo
    BY <1>1 DEF CopyRow, Next1, IInv, Progressing
  <1>4. Copied(id) = None \/ Copied(id) \in RowsAt(id)
    BY RowsTyped, MergedTyped DEF Copied
  <1>5. TypeOK'
    <2>1. IsTable(work)'
      BY <1>2, <1>4, RowsTyped DEF CopyRow, IsTable
    <2> QED  BY <1>1, <2>1 DEF CopyRow, IInv, TypeOK
  <1>6. Rows' = Rows  BY <1>1 DEF Rows
  <1>7. Progressing'
    <2> SUFFICES ASSUME NEW i \in Id
                 PROVE  /\ i \in todo' => Rows[i] # None /\ work'[i] = None
                        /\ work'[i] # None =>
                             /\ target[i] = None \/ i \in Nonce
                             /\ work'[i] = Merged(i, Rows[i], target[i])
                        /\ Rows[i] # None /\ i \notin todo' /\ work'[i] = None =>
                             target[i] # None /\ i \notin Nonce /\ Agrees(i, Rows[i], target[i])
      BY <1>1, <1>6 DEF Progressing
    <2>1. CASE i = id
      <3>1. Merged(id, Rows[id], target[id]) # None
        BY <1>3, RowsTyped, MergedTyped
      <3> QED  BY <1>2, <1>3, <2>1, <3>1 DEF CopyRow, Copied
    <2>2. CASE i # id
      BY <1>1, <1>2, <2>2 DEF CopyRow, IInv, Progressing
    <2> QED  BY <2>1, <2>2
  <1> QED  BY <1>1, <1>5, <1>6, <1>7 DEF IInv, NothingForgotten, ResponsesHaveEvents

LEMMA RollbackStep ==
  ASSUME IInv, Rollback
  PROVE  IInv'
  <1>1. TypeOK'  BY EmptyTyped DEF Rollback, IInv, TypeOK
  <1> QED  BY <1>1 DEF Rollback, IInv, Progressing, NothingForgotten, ResponsesHaveEvents

\* A commit is a merge of all the directory holds.
LEMMA PublishMerges ==
  ASSUME IInv, NEW outcome, Publish(outcome)
  PROVE  /\ target' = [id \in Id |-> Merged(id, Rows[id], target[id])]
         /\ \A id \in Id : Rows[id] # None /\ target[id] # None => Agrees(id, Rows[id], target[id])
  <1>1. ASSUME NEW id \in Id
        PROVE  /\ (IF work[id] = None THEN target[id] ELSE work[id]) = Merged(id, Rows[id], target[id])
               /\ Rows[id] # None /\ target[id] # None => Agrees(id, Rows[id], target[id])
    <2>1. CASE work[id] # None
      <3>1. id \in Nonce => id \notin Ledger \cup Key \cup Accept
        BY StoresAssumption DEF StoresAssumption
      <3> QED  BY <2>1, <3>1 DEF Publish, IInv, Progressing, Agrees
    <2>2. CASE work[id] = None
      BY <2>2 DEF Publish, IInv, Progressing, Merged
    <2> QED  BY <2>1, <2>2
  <1> QED  BY <1>1 DEF Publish

LEMMA PublishStep ==
  ASSUME IInv, NEW outcome \in {"complete", "failed"}, Publish(outcome)
  PROVE  IInv'
  <1>1. target' = [id \in Id |-> Merged(id, Rows[id], target[id])]
    BY PublishMerges
  <1>2. \A id \in Id : target'[id] = None \/ target'[id] \in RowsAt(id)
    BY <1>1, RowsTyped, MergedTyped
  <1>3. IsTable(target)'  BY <1>1, <1>2 DEF IsTable
  <1>4. TypeOK'  BY <1>3, EmptyTyped DEF Publish, IInv, TypeOK
  <1>5. Rows' = Rows  BY DEF Publish, Rows
  <1>6. NothingForgotten'
    BY <1>1, <1>5, RowsTyped, PublishMerges, MergedCovers DEF NothingForgotten, Publish
  <1>7. ResponsesHaveEvents'
    <2>1. ASSUME NEW id \in Id, Rows[id] # None \/ target[id] # None  PROVE target'[id] # None
      BY <1>1, <2>1, RowsTyped, MergedTyped
    <2>2. ASSUME NEW l \in Ledger, target'[l] # None  PROVE target'[target'[l].event] # None
      <3>1. l \in Id /\ l \notin Nonce /\ l # DemoKid
        BY StoresAssumption DEF Id, StoresAssumption
      <3>2. \/ target'[l] = target[l] /\ target[l] # None
            \/ target'[l] = source[l] /\ source[l] # None
        BY <1>1, <2>2, <3>1, RowsTyped DEF Merged
      <3>3. target'[l].event \in Id
        BY <3>1, <3>2, RowsTyped, TableTyped, ResponseRow DEF Id
      <3>4. Rows[target'[l].event] # None \/ target[target'[l].event] # None
        BY <3>2, <3>3, RowsTyped DEF IInv, ResponsesHaveEvents
      <3> QED  BY <2>1, <3>3, <3>4
    <2> QED  BY <2>2 DEF ResponsesHaveEvents, IInv, Publish
  <1> QED  BY <1>4, <1>5, <1>6, <1>7 DEF Publish, IInv, Progressing

LEMMA ToldTyped ==
  ASSUME IInv, NEW place, NEW id \in Id, NEW row \in RowsAt(id), Tell(place, id, row)
  PROVE  \A a \in told' : a.id \in Id /\ a.row \in RowsAt(a.id)
  BY DEF Tell, IInv, TypeOK

LEMMA SourceWriteStep ==
  ASSUME IInv, NEW id \in Id, NEW row, SourceWrite(id, row)
  PROVE  IInv'
  <1> DEFINE t == IF id \in Nonce THEN Sweep(source, clock) ELSE source
  <1>1. IsTable(t) /\ HasEvents(t)
    BY RowsTyped, SweepTyped, SweepHasEvents DEF IInv, ResponsesHaveEvents, HasEvents
  <1>2. Write(t, source', id, row, clock) /\ row \in RowsAt(id)
    BY DEF SourceWrite, Write
  <1> HIDE DEF t
  <1>3. IsTable(source') /\ HasEvents(source')
    BY <1>1, <1>2, RowsTyped, WriteTyped, WriteHasEvents
  <1>4. TypeOK'
    BY <1>2, <1>3, ToldTyped DEF SourceWrite, attempt, IInv, TypeOK
  <1>5. ResponsesHaveEvents'
    BY <1>3 DEF SourceWrite, HasEvents, IInv, ResponsesHaveEvents
  <1> QED
    BY <1>4, <1>5 DEF SourceWrite, attempt, IInv, Progressing, NothingForgotten

\* What an attempt rests on is out of reach of the requests beside it.
LEMMA TargetChange ==
  ASSUME IInv, UNCHANGED <<beside, source, clock, phase, attempt>>,
         IsTable(target'), HasEvents(target'),
         \A i \in Id : Taken(target, i, clock) => target'[i] = target[i],
         \A i \in Id : Locked(i) => target'[i] = target[i] \/ (target[i] = None /\ target'[i] = None),
         \A a \in told' : a.id \in Id /\ a.row \in RowsAt(a.id)
  PROVE  IInv'
  <1>1. TypeOK'  BY DEF attempt, IInv, TypeOK
  <1>2. Rows' = Rows  BY DEF Rows
  <1>3. Progressing'
    BY <1>2 DEF IInv, Progressing, attempt, Locked, Taken, Spent
  <1>4. NothingForgotten'
    BY <1>2, RowsTyped, CoverLasts DEF IInv, NothingForgotten, attempt
  <1>5. ResponsesHaveEvents'
    BY DEF IInv, ResponsesHaveEvents, HasEvents
  <1> QED  BY <1>1, <1>3, <1>4, <1>5 DEF IInv, attempt

LEMMA TargetWriteStep ==
  ASSUME IInv, NEW id \in Id, NEW row, TargetWrite(id, row)
  PROVE  IInv'
  <1>1. Write(target, target', id, row, clock) /\ row \in RowsAt(id)
    BY DEF TargetWrite, Write
  <1>2. IsTable(target') /\ HasEvents(target')
    BY <1>1, RowsTyped, WriteTyped, WriteHasEvents DEF IInv, ResponsesHaveEvents, HasEvents
  <1>3. \A i \in Id : Taken(target, i, clock) => target'[i] = target[i]
    BY <1>1, RowsTyped, WriteKeeps
  <1>4. \A i \in Id : Locked(i) => target'[i] = target[i]
    BY <1>1, RowsTyped DEF TargetWrite, Write, IsTable
  <1>5. \A a \in told' : a.id \in Id /\ a.row \in RowsAt(a.id)
    BY <1>1, ToldTyped DEF TargetWrite
  <1> QED  BY <1>2, <1>3, <1>4, <1>5, TargetChange DEF TargetWrite

LEMMA PruneStep ==
  ASSUME IInv, Prune
  PROVE  IInv'
  <1>1. target' = Sweep(target, clock)  BY DEF Prune
  <1>2. IsTable(target') /\ HasEvents(target')
    BY <1>1, RowsTyped, SweepTyped, SweepHasEvents DEF IInv, ResponsesHaveEvents, HasEvents
  <1>3. \A i \in Id : Taken(target, i, clock) => target'[i] = target[i]
    BY <1>1, RowsTyped, SweepTyped
  <1>4. \A i \in Id : Locked(i) => target'[i] = target[i] \/ (target[i] = None /\ target'[i] = None)
    BY <1>1, <1>3, RowsTyped, SweepTyped DEF Prune, Sweep
  <1> QED  BY <1>2, <1>3, <1>4, TargetChange DEF Prune, IInv, TypeOK

LEMMA OperatorStep ==
  ASSUME IInv, Pause \/ Resume \/ Open \/ UNCHANGED vars
  PROVE  IInv'
  <1>1. UNCHANGED <<beside, source, target, clock, report, todo, work, told>>
    BY DEF Pause, Resume, Open, vars, attempt
  <1>2. phase' \in {"old", "paused", "new"} /\ quiet' \in BOOLEAN
        /\ (quiet' => quiet /\ phase' # "old")
    <2>1. CASE Pause  BY <2>1 DEF Pause, attempt, IInv, TypeOK
    <2>2. CASE Resume  BY <2>2 DEF Resume, IInv, TypeOK
    <2>3. CASE Open  BY <2>3 DEF Open, attempt, IInv, TypeOK
    <2>4. CASE UNCHANGED vars  BY <2>4 DEF vars, attempt, IInv, TypeOK
    <2> QED  BY <2>1, <2>2, <2>3, <2>4
  <1>3. Rows' = Rows  BY <1>1 DEF Rows
  <1>4. TypeOK'  BY <1>1, <1>2 DEF IInv, TypeOK
  <1> QED
    BY <1>1, <1>2, <1>3, <1>4 DEF IInv, Progressing, NothingForgotten, ResponsesHaveEvents

LEMMA TickStep ==
  ASSUME IInv, Tick
  PROVE  IInv'
  <1>1. TypeOK'
    BY MigrationAssumption DEF Tick, attempt, IInv, TypeOK, MigrationAssumption
  <1>2. Rows' = Rows /\ clock' = clock + 1  BY DEF Rows, Tick
  <1>3. ASSUME NEW id \in Id, Covers(id, Rows[id], target[id], clock)
        PROVE  Covers(id, Rows[id], target[id], clock + 1)
    <2>1. Rows[id] = None \/ Rows[id] \in RowsAt(id)  BY RowsTyped, TableTyped
    <2> QED  BY <1>3, <2>1, RowsTyped, RowTypes DEF Covers, Spent
  <1>4. NothingForgotten'
    BY <1>2, <1>3 DEF Tick, attempt, IInv, NothingForgotten
  <1> QED
    BY <1>1, <1>2, <1>4 DEF Tick, attempt, IInv, Progressing, ResponsesHaveEvents

LEMMA NextInvariant == IInv /\ [Next]_vars => IInv'
  <1>1. IInv /\ Commit => IInv'  BY PublishStep DEF Commit
  <1>2. IInv /\ LostCommit => IInv'  BY PublishStep DEF LostCommit
  <1>3. IInv /\ Fail => IInv'  BY RollbackStep DEF Fail
  <1>4. ASSUME IInv, NEW id \in Id, Conflict(id)  PROVE IInv'
    BY <1>4, RollbackStep DEF Conflict
  <1> QED
    BY <1>1, <1>2, <1>3, <1>4, BeginStep, CopyRowStep, SourceWriteStep, TargetWriteStep,
       PruneStep, OperatorStep, TickStep DEF Next

\* The inductive invariant: an attempt's uncommitted rows are what a merge
\* of the directory would give the target as it stands (manage.py, migrate).
THEOREM Invariance == Spec => []IInv
  BY InitInvariant, NextInvariant, PTL DEF Spec

\* Both databases hold rows of their tables only.
THEOREM TypeCorrect == Spec => []TypeOK
  <1>1. IInv => TypeOK  BY DEF IInv
  <1> QED  BY <1>1, Invariance, PTL

\* "Migration complete" leaves nothing of the directory undecided.
THEOREM CompleteForgetsNothing == Spec => []NothingForgotten
  <1>1. IInv => NothingForgotten  BY DEF IInv
  <1> QED  BY <1>1, Invariance, PTL

\* Stored responses have their events, on both sides of a migration.
THEOREM EventsTravelAlong == Spec => []ResponsesHaveEvents
  <1>1. IInv => ResponsesHaveEvents  BY DEF IInv
  <1> QED  BY <1>1, Invariance, PTL

-----------------------------------------------------------------------------
\* While the target only serves after the move, whatever a caller was told is
\* decided is decided in the database that serves, or was a nonce now spent.
Serves == IF phase = "new" THEN target ELSE source

Witnessed ==
  /\ phase = "new" => report = "complete" /\ quiet
  /\ \A a \in told :
       \/ Spent(a.id, a.row, clock)
       \/ Serves[a.id] # None /\ (a.id \in Nonce => a.row <= Serves[a.id])

\* A database that has what callers were told takes no second decision.
LEMMA WriteIsNews ==
  ASSUME NEW t, NEW u, IsTable(t), NEW id \in Id, NEW row, NEW now \in Nat,
         Write(t, u, id, row, now), NEW a, a.id \in Id, a.row \in RowsAt(a.id),
         Spent(a.id, a.row, now) \/ (t[a.id] # None /\ (a.id \in Nonce => a.row <= t[a.id]))
  PROVE  /\ a.id = id => Spent(a.id, a.row, now)
         /\ Spent(a.id, a.row, now) \/ (u[a.id] # None /\ (a.id \in Nonce => a.row <= u[a.id]))
  <1>1. t[a.id] = None \/ t[a.id] \in RowsAt(a.id)  BY TableTyped
  <1>2. ASSUME a.id = id  PROVE Spent(a.id, a.row, now)
    BY <1>1, <1>2, RowTypes DEF Write, Taken, Spent
  <1>3. ASSUME a.id # id, t[a.id] # None  PROVE u[a.id] = t[a.id]
    BY <1>3, WriteTyped
  <1> QED  BY <1>2, <1>3

LEMMA SweepIsNoNews ==
  ASSUME NEW t, IsTable(t), NEW now \in Nat, NEW a, a.id \in Id, a.row \in RowsAt(a.id),
         Spent(a.id, a.row, now) \/ (t[a.id] # None /\ (a.id \in Nonce => a.row <= t[a.id]))
  PROVE  \/ Spent(a.id, a.row, now)
         \/ /\ Sweep(t, now)[a.id] # None
            /\ a.id \in Nonce => a.row <= Sweep(t, now)[a.id]
  <1>1. t[a.id] = None \/ t[a.id] \in RowsAt(a.id)  BY TableTyped
  <1> QED  BY <1>1, SweepTyped, RowTypes DEF Taken, Spent

LEMMA InitWitnessed == Init => Witnessed
  BY DEF Init, Witnessed

\* A decision of the database that serves: the others stay, none is repeated.
LEMMA DecisionStep ==
  ASSUME IInv, Witnessed, NEW place, NEW id \in Id, NEW row, NEW t,
         IsTable(t), UNCHANGED <<clock, phase, attempt>>,
         Write(t, Serves', id, row, clock), Tell(place, id, row),
         \A a \in told : \/ Spent(a.id, a.row, clock)
                         \/ t[a.id] # None /\ (a.id \in Nonce => a.row <= t[a.id])
  PROVE  /\ Witnessed'
         /\ \A a \in told, b \in told' \ told : a.id = b.id => Spent(a.id, a.row, clock)
  <1>1. row \in RowsAt(id)  BY DEF Write
  <1>2. \A a \in told : a.id \in Id /\ a.row \in RowsAt(a.id)  BY DEF IInv, TypeOK
  <1>3. \A a \in told :
          /\ a.id = id => Spent(a.id, a.row, clock)
          /\ \/ Spent(a.id, a.row, clock)
             \/ Serves'[a.id] # None /\ (a.id \in Nonce => a.row <= Serves'[a.id])
    BY <1>2, RowsTyped, WriteIsNews
  <1>4. Serves'[id] = row /\ row # None
    BY <1>1, NoRowIsNone DEF Write
  <1>5. id \in Nonce => row \in Nat  BY <1>1, RowTypes
  <1>6. \A b \in told' \ told : b.id = id /\ b.row = row
    BY DEF Tell
  <1>7. Witnessed'
    BY <1>3, <1>4, <1>5, <1>6 DEF Witnessed, attempt
  <1> QED  BY <1>3, <1>6, <1>7

\* Nothing new is said, and what was said still is decided where it is asked.
LEMMA SilentStep ==
  ASSUME IInv, Witnessed, told' = told, Serves' = Serves,
         clock' = clock \/ clock' = clock + 1,
         phase' = "new" => report' = "complete" /\ quiet'
  PROVE  Witnessed'
  <1>1. \A a \in told : Spent(a.id, a.row, clock) => Spent(a.id, a.row, clock')
    <2>1. \A a \in told : a.id \in Nonce => a.row \in Nat
      BY RowTypes DEF IInv, TypeOK
    <2> QED  BY <2>1, RowsTyped DEF Spent
  <1> QED  BY <1>1 DEF Witnessed

LEMMA WitnessedStep ==
  ASSUME ~beside, IInv, Witnessed, [Next]_vars
  PROVE  /\ Witnessed'
         /\ \A a \in told, b \in told' \ told : a.id = b.id => Spent(a.id, a.row, clock)
  <1>1. ASSUME NEW id \in Id, NEW row, SourceWrite(id, row)
        PROVE  /\ Witnessed'
               /\ \A a \in told, b \in told' \ told : a.id = b.id => Spent(a.id, a.row, clock)
    <2> DEFINE t == IF id \in Nonce THEN Sweep(source, clock) ELSE source
    <2>1. Serves = source /\ Serves' = source'
      BY <1>1 DEF SourceWrite, Serves
    <2>2. IsTable(t)  BY RowsTyped, SweepTyped
    <2>3. \A a \in told : \/ Spent(a.id, a.row, clock)
                          \/ t[a.id] # None /\ (a.id \in Nonce => a.row <= t[a.id])
      <3>1. \A a \in told : a.id \in Id /\ a.row \in RowsAt(a.id)  BY DEF IInv, TypeOK
      <3> QED  BY <2>1, <3>1, RowsTyped, SweepIsNoNews DEF Witnessed
    <2>4. Write(t, Serves', id, row, clock)  BY <1>1, <2>1 DEF SourceWrite
    <2>5. Tell("source", id, row) /\ UNCHANGED <<clock, phase, attempt>>
      BY <1>1 DEF SourceWrite
    <2> HIDE DEF t
    <2> QED  BY <2>2, <2>3, <2>4, <2>5, DecisionStep
  <1>2. ASSUME NEW id \in Id, NEW row, TargetWrite(id, row)
        PROVE  /\ Witnessed'
               /\ \A a \in told, b \in told' \ told : a.id = b.id => Spent(a.id, a.row, clock)
    <2>1. Serves = target /\ Serves' = target'
      BY <1>2 DEF TargetWrite, Serving, Serves
    <2>2. Write(target, Serves', id, row, clock) /\ Tell("target", id, row)
          /\ UNCHANGED <<clock, phase, attempt>>
      BY <1>2, <2>1 DEF TargetWrite
    <2> QED  BY <2>1, <2>2, RowsTyped, DecisionStep DEF Witnessed
  <1>3. ASSUME Prune  PROVE Witnessed'
    <2>1. \A a \in told : a.id \in Id /\ a.row \in RowsAt(a.id)  BY DEF IInv, TypeOK
    <2>2. Serves = target /\ Serves' = Sweep(target, clock)
      BY <1>3 DEF Prune, Serving, Serves
    <2>3. UNCHANGED <<clock, phase, report, quiet, told>>  BY <1>3 DEF Prune, attempt
    <2>4. \A a \in told :
            \/ Spent(a.id, a.row, clock)
            \/ Serves'[a.id] # None /\ (a.id \in Nonce => a.row <= Serves'[a.id])
      BY <2>1, <2>2, RowsTyped, SweepIsNoNews DEF Witnessed
    <2> QED  BY <2>3, <2>4 DEF Witnessed
  <1>4. ASSUME Open  PROVE Witnessed'
    <2>1. Serves = source /\ Serves' = target
      BY <1>4 DEF Open, Serves
    <2>2. \A id \in Id : Covers(id, Rows[id], target[id], clock)
      BY <1>4 DEF Open, IInv, NothingForgotten
    <2>3. ASSUME NEW a \in told
          PROVE  \/ Spent(a.id, a.row, clock)
                 \/ target[a.id] # None /\ (a.id \in Nonce => a.row <= target[a.id])
      <3>1. a.id \in Id /\ a.row \in RowsAt(a.id)  BY DEF IInv, TypeOK
      <3>2. CASE source[a.id] # None /\ (a.id \in Nonce => a.row <= source[a.id])
        <4>1. Rows[a.id] = source[a.id]  BY <3>1, <3>2, RowsTyped
        <4>2. Covers(a.id, source[a.id], target[a.id], clock)  BY <2>2, <3>1, <4>1
        <4>3. source[a.id] \in RowsAt(a.id)  BY <3>1, <3>2, RowsTyped, TableTyped
        <4>4. target[a.id] = None \/ target[a.id] \in RowsAt(a.id)
          BY <3>1, RowsTyped, TableTyped
        <4> QED  BY <3>1, <3>2, <4>2, <4>3, <4>4, RowsTyped, RowTypes DEF Covers, Spent
      <3> QED  BY <2>1, <3>2 DEF Witnessed
    <2> QED  BY <1>4, <2>1, <2>3 DEF Open, attempt, Witnessed
  <1>5. ASSUME \/ Begin \/ Commit \/ LostCommit \/ Fail
               \/ (\E id \in Id : CopyRow(id) \/ Conflict(id))
        PROVE  Witnessed'
    <2>1. phase # "new"
      BY <1>5 DEF Begin, Commit, LostCommit, Publish, Fail, CopyRow, Conflict, Next1, Witnessed
    <2>2. UNCHANGED <<source, clock, phase, told>>
      BY <1>5 DEF Begin, Commit, LostCommit, Publish, Fail, CopyRow, Conflict, Rollback
    <2> QED  BY <2>1, <2>2, SilentStep DEF Serves
  <1>6. ASSUME Pause \/ Resume \/ Tick \/ UNCHANGED vars  PROVE Witnessed'
    <2>1. /\ UNCHANGED <<source, target, report, told>>
          /\ clock' = clock \/ clock' = clock + 1
          /\ phase' = "new" => phase = "new" /\ quiet' = quiet
          /\ phase = "new" => phase' = "new"
      BY <1>6 DEF Pause, Resume, Tick, vars, attempt
    <2> QED  BY <2>1, SilentStep DEF Serves, Witnessed
  <1>7. ASSUME told' = told
        PROVE  \A a \in told, b \in told' \ told : a.id = b.id => Spent(a.id, a.row, clock)
    BY <1>7
  <1>8. told' = told \/ \E id \in Id : \E row \in Candidates(id) : SourceWrite(id, row) \/ TargetWrite(id, row)
    BY DEF Next, Begin, Commit, LostCommit, Publish, Fail, CopyRow, Conflict, Rollback,
           Prune, Pause, Resume, Open, Tick, vars
  <1> QED  BY <1>1, <1>2, <1>3, <1>4, <1>5, <1>6, <1>7, <1>8 DEF Next

\* With the writers stopped before the attempt that counts, and the target
\* idle before the move, no decision is taken twice across the two databases.
THEOREM MovesOnce == Spec => DecidedOnce
  <1> DEFINE Alone == ~beside => Witnessed
  <1>1. Init => Alone
    BY InitWitnessed
  <1>2. [Next]_vars => beside' = beside
    BY DEF Next, Begin, Commit, LostCommit, Publish, Fail, CopyRow, Conflict, Rollback,
           SourceWrite, TargetWrite, Prune, Pause, Resume, Open, Tick, vars
  <1>3. IInv /\ Alone /\ [Next]_vars => Alone'
    BY <1>2, WitnessedStep
  <1>4. IInv /\ Alone /\ [Next]_vars =>
          [~beside => \A a \in told, b \in told' \ told : a.id = b.id => Spent(a.id, a.row, clock)]_vars
    BY WitnessedStep
  <1> HIDE DEF Alone
  <1> QED  BY <1>1, <1>3, <1>4, Invariance, PTL DEF Spec, DecidedOnce

\* MigrationPromise has the operators of Stores under its own names.
LEMMA SameRows == Promise!Id = Id /\ \A id : Promise!RowsAt(id) = RowsAt(id)
  BY DEF Promise!Id, Id, Promise!RowsAt, RowsAt

LEMMA SameWrite ==
  ASSUME NEW t, NEW u, NEW id, NEW row, NEW now, Write(t, u, id, row, now)
  PROVE  Promise!Write(t, u, id, row, now)
  BY SameRows DEF Write, Promise!Write, Taken, Promise!Taken, Spent, Promise!Spent

LEMMA SameSweep == \A t, now : Promise!Sweep(t, now) = Sweep(t, now)
  BY SameRows DEF Sweep, Promise!Sweep, Spent, Promise!Spent

LEMMA SameMerge ==
  /\ \A t : Promise!WithSeed(t) = WithSeed(t)
  /\ \A id, r, t : Promise!Merged(id, r, t) = Merged(id, r, t)
  /\ \A id, r, t : Promise!Agrees(id, r, t) <=> Agrees(id, r, t)
  BY DEF WithSeed, Promise!WithSeed, Merged, Promise!Merged, Agrees, Promise!Agrees

LEMMA SourceRefines ==
  ASSUME IInv, NEW id \in Id, NEW row, SourceWrite(id, row)
  PROVE  Promise!Next
  <1>1. source'[id] = row
    BY RowsTyped, SweepTyped DEF SourceWrite, Write
  <1>2. Promise!Serves(source, source')
    <2>1. CASE id \in Nonce
      BY <1>1, <2>1, SameWrite, SameSweep DEF SourceWrite, Promise!Serves, Promise!Transaction
    <2>2. CASE id \notin Nonce
      BY <1>1, <2>2, SameWrite, SameRows DEF SourceWrite, Promise!Serves, Promise!Transaction
    <2> QED  BY <2>1, <2>2
  <1> QED  BY <1>2 DEF SourceWrite, Promise!Next

LEMMA TargetRefines ==
  ASSUME IInv, NEW id \in Id, NEW row, TargetWrite(id, row)
  PROVE  Promise!Next
  <1>1. target'[id] = row  BY DEF TargetWrite, Write
  <1>2. Promise!Serves(target, target')
    BY <1>1, SameWrite, SameRows DEF TargetWrite, Promise!Serves, Promise!Transaction
  <1> QED  BY <1>2 DEF TargetWrite, Promise!Next

LEMMA PublishRefines ==
  ASSUME IInv, NEW outcome, Publish(outcome)
  PROVE  Promise!Next
  <1>1. Promise!Merge(Promise!WithSeed(source))
    BY PublishMerges, SameRows, SameMerge DEF Rows, Promise!Merge
  <1> QED  BY <1>1 DEF Publish, Promise!Next

\* Row by row, beside the requests of both databases and with attempts that
\* fail anywhere, a migration is one step or none.
THEOREM Refinement == Spec => KeepsPromise
  <1>1. Init => Promise!Init
    BY SameRows DEF Init, Promise!Init, Empty, Promise!Empty
  <1>2. IInv /\ [Next]_vars => [Promise!Next]_(Promise!vars)
    <2> SUFFICES ASSUME IInv, [Next]_vars  PROVE [Promise!Next]_(Promise!vars)
      OBVIOUS
    <2>1. CASE Commit \/ LostCommit
      BY <2>1, PublishRefines DEF Commit, LostCommit
    <2>2. CASE \E id \in Id : \E row \in Candidates(id) : SourceWrite(id, row) \/ TargetWrite(id, row)
      BY <2>2, SourceRefines, TargetRefines
    <2>3. CASE Prune
      BY <2>3, SameSweep DEF Prune, Promise!Next, Promise!Serves
    <2>4. CASE Tick
      BY <2>4 DEF Tick, Promise!Next
    <2>5. CASE Begin \/ Fail \/ (\E id \in Id : CopyRow(id) \/ Conflict(id))
               \/ Pause \/ Resume \/ Open \/ UNCHANGED vars
      BY <2>5 DEF Begin, Fail, CopyRow, Conflict, Rollback, Pause, Resume, Open, vars, Promise!vars
    <2> QED  BY <2>1, <2>2, <2>3, <2>4, <2>5 DEF Next
  <1> QED  BY <1>1, <1>2, Invariance, PTL DEF Spec, KeepsPromise, Promise!Spec
-----------------------------------------------------------------------------
\* Until the service moves to a target nobody else writes to, the target has
\* nothing but rows of the directory, nonces aside.
NewlyAlike ==
  ~beside /\ phase # "new" => \A id \in Id \ Nonce : target[id] # None => target[id] = Rows[id]

\* The directory's rows, nonces aside, are never replaced: its own key is the
\* one that counts as registered before it is.
LEMMA RowsStay ==
  ASSUME IInv, NEW id \in Id, NEW row, SourceWrite(id, row)
  PROVE  \A i \in Id \ Nonce : Rows[i] # None => Rows'[i] = Rows[i]
  <1> DEFINE t == IF id \in Nonce THEN Sweep(source, clock) ELSE source
  <1>1. IsTable(t) /\ \A i \in Id \ Nonce : t[i] = source[i]
    BY RowsTyped, SweepTyped
  <1>2. Write(t, source', id, row, clock)  BY DEF SourceWrite
  <1> HIDE DEF t
  <1>3. /\ IsTable(source')
        /\ source'[id] = row /\ row # None
        /\ \A i \in Id \ {id} : t[i] # None => source'[i] = t[i]
        /\ \A i \in Id \ (Event \cup {id}) : source'[i] = t[i]
    BY <1>1, <1>2, RowsTyped, WriteTyped
  <1>4. \A i \in Id : Taken(t, i, clock) => source'[i] = t[i]
    BY <1>1, <1>2, RowsTyped, WriteKeeps
  <1>5. /\ \A i \in Id : source'[i] # None => WithSeed(source')[i] = source'[i]
        /\ Rows' = WithSeed(source')
    BY <1>3, SeedTyped DEF Rows
  <1> SUFFICES ASSUME NEW i \in Id \ Nonce, Rows[i] # None  PROVE Rows'[i] = Rows[i]
    OBVIOUS
  <1>6. CASE source[i] # None
    <2>1. Taken(t, i, clock)  BY <1>1, <1>6 DEF Taken, Spent
    <2> QED  BY <1>1, <1>4, <1>5, <1>6, <2>1, RowsTyped
  <1>7. CASE source[i] = None
    <2>1. i = DemoKid /\ Rows[i] = Seed
      BY <1>7, RowsTyped DEF Rows, WithSeed, IsTable
    <2>2. i \notin Event
      BY <2>1, StoresAssumption DEF StoresAssumption
    <2>3. CASE i = id
      <3>1. row = Seed  BY <2>1, <2>3 DEF SourceWrite
      <3> QED  BY <1>3, <1>5, <2>1, <2>3, <3>1
    <2>4. CASE i # id
      <3>1. source'[i] = None  BY <1>1, <1>3, <1>7, <2>2, <2>4
      <3> QED  BY <1>3, <1>5, <2>1, <3>1 DEF WithSeed, IsTable
    <2> QED  BY <2>3, <2>4
  <1> QED  BY <1>6, <1>7

LEMMA AlikeStep ==
  ASSUME IInv, NewlyAlike, [Next]_vars
  PROVE  NewlyAlike'
  <1>1. ASSUME NEW id \in Id, NEW row, SourceWrite(id, row)
        PROVE  NewlyAlike'
    BY <1>1, RowsStay, NoRowIsNone, RowsTyped, TableTyped DEF SourceWrite, NewlyAlike
  <1>2. ASSUME NEW outcome, Publish(outcome)  PROVE NewlyAlike'
    <2>1. Rows' = Rows /\ UNCHANGED <<beside, phase>>
      BY <1>2 DEF Publish, Rows
    <2>2. \A id \in Id : target'[id] = Merged(id, Rows[id], target[id])
      BY <1>2, PublishMerges
    <2> QED  BY <2>1, <2>2 DEF NewlyAlike, Merged
  <1>3. ASSUME Prune \/ \E id \in Id : \E row \in Candidates(id) : TargetWrite(id, row)
        PROVE  NewlyAlike'
    <2>1. Serving /\ UNCHANGED <<beside, phase>>
      BY <1>3 DEF Prune, TargetWrite
    <2> QED  BY <2>1 DEF Serving, NewlyAlike
  <1>4. ASSUME \/ Begin \/ Fail \/ (\E id \in Id : CopyRow(id) \/ Conflict(id))
               \/ Pause \/ Resume \/ Open \/ Tick \/ UNCHANGED vars
        PROVE  NewlyAlike'
    <2>1. UNCHANGED <<beside, source, target>> /\ (phase' # "new" => phase # "new")
      BY <1>4 DEF Begin, Fail, CopyRow, Conflict, Rollback, Pause, Resume, Open, Tick, vars
    <2> QED  BY <2>1 DEF NewlyAlike, Rows
  <1> QED  BY <1>1, <1>2, <1>3, <1>4 DEF Next, Commit, LostCommit

\* An attempt that is repeated finds its own rows, and those are no conflict:
\* while the target has no other writer, no row is ever refused.
THEOREM RetryMeetsNoConflict == Spec => [][~beside => \A id \in Id : ~Conflict(id)]_vars
  <1> DEFINE Alone == (~beside => Witnessed) /\ NewlyAlike
  <1>1. Init => Alone
    BY InitWitnessed DEF Init, NewlyAlike, Empty
  <1>2. [Next]_vars => beside' = beside
    BY DEF Next, Begin, Commit, LostCommit, Publish, Fail, CopyRow, Conflict, Rollback,
           SourceWrite, TargetWrite, Prune, Pause, Resume, Open, Tick, vars
  <1>3. IInv /\ Alone /\ [Next]_vars => Alone'
    BY <1>2, WitnessedStep, AlikeStep
  <1>4. ASSUME IInv, Alone, ~beside, NEW id \in Id, Conflict(id)
        PROVE  FALSE
    <2>1. phase # "new"
      BY <1>4 DEF Conflict, Next1, Witnessed
    <2>2. target[id] # None /\ ~Agrees(id, Rows[id], target[id])
      BY <1>4 DEF Conflict
    <2>3. CASE id \in Nonce
      <3>1. id \notin Ledger \cup Key \cup Accept
        BY <2>3, StoresAssumption DEF StoresAssumption
      <3> QED  BY <2>2, <3>1 DEF Agrees
    <2>4. CASE id \notin Nonce
      BY <1>4, <2>1, <2>2, <2>4 DEF NewlyAlike, Agrees
    <2> QED  BY <2>3, <2>4
  <1>5. IInv /\ Alone => [~beside => \A id \in Id : ~Conflict(id)]_vars
    BY <1>4
  <1> HIDE DEF Alone
  <1> QED  BY <1>1, <1>3, <1>5, Invariance, PTL DEF Spec

\* A row that counts is there in the next state too, and the same; the day
\* until which a nonce is kept never becomes an earlier one.
Stands(t, u) ==
  \A id \in Id : Taken(t, id, clock) =>
    u[id] # None /\ (IF id \in Nonce THEN t[id] <= u[id] ELSE u[id] = t[id])

LEMMA SameStands ==
  ASSUME NEW t, NEW u, IsTable(t), \A id \in Id : Taken(t, id, clock) => u[id] = t[id]
  PROVE  Stands(t, u)
  <1> SUFFICES ASSUME NEW id \in Id, Taken(t, id, clock)
               PROVE  u[id] # None /\ (id \in Nonce => t[id] <= u[id])
    BY DEF Stands
  <1>1. t[id] \in RowsAt(id) /\ t[id] # None  BY TableTyped DEF Taken
  <1>2. id \in Nonce => t[id] \in Nat  BY <1>1, RowTypes
  <1> QED  BY <1>1, <1>2

\* Attempts that fail at any point, attempts that commit, requests, deletions
\* of nonces: none takes back or replaces a decision either database holds.
THEOREM NothingIsUndone == Spec => [][Stands(source, source') /\ Stands(target, target')]_vars
  <1>1. ASSUME IInv, NEW id \in Id, NEW row, SourceWrite(id, row)
        PROVE  Stands(source, source') /\ Stands(target, target')
    <2> DEFINE t == IF id \in Nonce THEN Sweep(source, clock) ELSE source
    <2>1. /\ IsTable(t)
          /\ \A i \in Id : Taken(source, i, clock) => t[i] = source[i] /\ Taken(t, i, clock)
      BY <1>1, RowsTyped, SweepTyped DEF Taken
    <2>2. Write(t, source', id, row, clock)  BY <1>1 DEF SourceWrite
    <2> HIDE DEF t
    <2>3. \A i \in Id : Taken(source, i, clock) => source'[i] = source[i]
      BY <1>1, <2>1, <2>2, RowsTyped, WriteKeeps
    <2> QED  BY <1>1, <2>3, RowsTyped, SameStands DEF SourceWrite
  <1>2. ASSUME IInv, NEW id \in Id, NEW row, TargetWrite(id, row)
        PROVE  Stands(source, source') /\ Stands(target, target')
    <2>1. \A i \in Id : Taken(target, i, clock) => target'[i] = target[i]
      BY <1>2, RowsTyped, WriteKeeps DEF TargetWrite
    <2> QED  BY <1>2, <2>1, RowsTyped, SameStands DEF TargetWrite
  <1>3. ASSUME IInv, NEW outcome, Publish(outcome)
        PROVE  Stands(source, source') /\ Stands(target, target')
    <2>1. ASSUME NEW id \in Id, Taken(target, id, clock)
          PROVE  target'[id] # None
                 /\ (IF id \in Nonce THEN target[id] <= target'[id] ELSE target'[id] = target[id])
      <3>1. target[id] # None /\ target[id] \in RowsAt(id)
        BY <1>3, <2>1, RowsTyped, TableTyped DEF Taken
      <3>2. Rows[id] = None \/ Rows[id] \in RowsAt(id)
        BY <1>3, RowsTyped, TableTyped
      <3>3. target'[id] = Merged(id, Rows[id], target[id])
        BY <1>3, PublishMerges
      <3> QED  BY <3>1, <3>2, <3>3, RowTypes, NoRowIsNone DEF Merged
    <2> QED  BY <1>3, <2>1, RowsTyped, SameStands DEF Publish, Stands
  <1>4. ASSUME IInv, Prune
        PROVE  Stands(source, source') /\ Stands(target, target')
    BY <1>4, RowsTyped, SweepTyped, SameStands DEF Prune
  <1>5. ASSUME IInv, UNCHANGED <<source, target>>
        PROVE  Stands(source, source') /\ Stands(target, target')
    BY <1>5, RowsTyped, SameStands
  <1>6. IInv /\ [Next]_vars => [Stands(source, source') /\ Stands(target, target')]_vars
    <2> SUFFICES ASSUME IInv, Next  PROVE Stands(source, source') /\ Stands(target, target')
      OBVIOUS
    <2>1. CASE Commit \/ LostCommit  BY <1>3, <2>1 DEF Commit, LostCommit
    <2>2. CASE \E id \in Id : \E row \in Candidates(id) : SourceWrite(id, row) \/ TargetWrite(id, row)
      BY <1>1, <1>2, <2>2
    <2>3. CASE Prune  BY <1>4, <2>3
    <2>4. CASE Begin \/ Fail \/ (\E id \in Id : CopyRow(id) \/ Conflict(id))
               \/ Pause \/ Resume \/ Open \/ Tick
      BY <1>5, <2>4 DEF Begin, Fail, CopyRow, Conflict, Rollback, Pause, Resume, Open, Tick
    <2> QED  BY <2>1, <2>2, <2>3, <2>4 DEF Next
  <1> QED  BY <1>6, Invariance, PTL DEF Spec
==============================================================================
