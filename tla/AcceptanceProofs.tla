-------------------------- MODULE AcceptanceProofs --------------------------
(***************************************************************************)
(* Theorems about Acceptance, for any workers, events, submissions and     *)
(* clock, and either database.                                             *)
(***************************************************************************)
EXTENDS Acceptance, TLAPS

Sound(e) == e.wellFormed /\ e.genuine /\ e.extensionsOk /\ e.kid \in known

\* What each handler carries: past the first checks, a sound event, and past
\* its last clock reading, that time.
Carried ==
  \A w \in Worker :
    /\ pc[w] # "idle" => sub[w] \in Submission
    /\ pc[w] \in {"ttl", "scope", "decide", "record", "select", "commit"} => Sound(Ev(w))
    /\ pc[w] = "ttl" => Ev(w).expires # None
    /\ pc[w] \in {"record", "select", "commit"} => now[w] \in Stamp
    /\ prior[w] => /\ pc[w] # "idle" /\ RowOf(w) # None
                   /\ RowOf(w).content = Ev(w).content

\* Every row is its identity's own, of a sound event.
Decided ==
  \A i \in Identity : accepted[i] # None =>
    LET e == accepted[i].event IN
    /\ e.id = i /\ e.content = accepted[i].content
    /\ Sound(e)

\* A PostgreSQL transaction past its INSERT has the identity to itself.
Exclusive ==
  \A w \in Worker : pc[w] = "commit" =>
    /\ Postgres /\ RowOf(w) = None
    /\ \A v \in Worker : pc[v] = "commit" /\ Ev(v).id = Ev(w).id => v = w

\* An answer on its way is borne out by the identity's row.
Replies ==
  \A w \in Worker : pc[w] = "reply" =>
    /\ ans[w] \in Answer
    /\ ans[w].outcome = "already_accepted" =>
         RowOf(w) # None /\ RowOf(w).content = Ev(w).content
    /\ ans[w].code = "ERR_EVENT_ID_CONFLICT" =>
         /\ RowOf(w) # None /\ RowOf(w).content # Ev(w).content
         /\ ans[w].outcome = "rejected"

IInv ==
  /\ TypeOK /\ Carried /\ Exclusive /\ Replies
  /\ Decided /\ EffectAppliedOnce /\ EffectIsDurable
  /\ LaterAnswersAreTruthful /\ ResubmissionIsRecognised

-----------------------------------------------------------------------------
\* The fields of a submission and its event have the types of the request.
LEMMA Fields ==
  ASSUME NEW s \in Submission
  PROVE  /\ s.event \in Event /\ s.event.id \in Identity /\ s.event.content \in Content
         /\ s.mode \in {"archival", "acceptance", "other"}
         /\ s.audience \in Audience \cup {None} /\ s.maxAge \in Nat \cup {None}
         /\ s.event.when \in Int /\ s.event.expires \in Int \cup {None}
BY AcceptanceAssumption DEF SubmissionForm, EventForm

\* A step that answers nothing and leaves the tables and what was heard alone.
LEMMA QuietStep ==
  ASSUME IInv, UNCHANGED <<accepted, heard>>, known \subseteq known',
         TypeOK', Carried', Exclusive', clock <= clock',
         \A v \in Worker : pc'[v] = "reply" =>
           /\ pc[v] = "reply" /\ ans'[v] = ans[v]
           /\ sub'[v] = sub[v] /\ prior'[v] = prior[v]
  PROVE  IInv'
<1> USE DEF IInv
<1>1. Replies'
  BY DEF Replies, RowOf, Ev
<1>2. Decided' /\ LaterAnswersAreTruthful'
  BY DEF Decided, Sound, LaterAnswersAreTruthful, heard
<1>3. EffectAppliedOnce' /\ EffectIsDurable'
  BY DEF EffectAppliedOnce, EffectIsDurable, Claims, RowOf, Ev, heard
<1>4. ResubmissionIsRecognised'
  <2> SUFFICES ASSUME NEW w \in Worker, pc'[w] = "reply", prior'[w]
               PROVE  (/\ ans[w].outcome # "accepted"
                       /\ ans[w].code # "ERR_EVENT_ID_CONFLICT"
                       /\ ans[w].outcome = "rejected" =>
                            \/ sub[w].mode = "other"
                            \/ ~Ev(w).wellFormed \/ ~Ev(w).genuine
                            \/ Ev(w).expires # None /\ clock + Drift >= Ev(w).expires
                            \/ sub[w].maxAge # None \/ sub[w].audience # None)'
    BY DEF ResubmissionIsRecognised
  <2>1. sub[w] \in Submission /\ clock \in Int /\ clock' \in Int
    BY AcceptanceAssumption DEF Carried, TypeOK, Time
  <2>2. Ev(w).expires \in Int \cup {None}
    BY <2>1, Fields DEF Ev
  <2> QED
    BY <2>1, <2>2, AcceptanceAssumption DEF ResubmissionIsRecognised, Ev
<1> QED
  BY <1>1, <1>2, <1>3, <1>4

\* An answer other than "accepted", with the tables as they are.
LEMMA PlainAnswer ==
  ASSUME IInv, NEW w \in Worker, pc[w] # "idle",
         NEW o \in Outcome \ {"accepted"}, NEW c \in Code \cup {None}, Return(w, o, c),
         UNCHANGED <<store, world, heard>>,
         o = "already_accepted" => RowOf(w) # None /\ RowOf(w).content = Ev(w).content,
         c = "ERR_EVENT_ID_CONFLICT" =>
           RowOf(w) # None /\ RowOf(w).content # Ev(w).content /\ o = "rejected",
         prior[w] /\ o = "rejected" =>
           \/ sub[w].mode = "other"
           \/ ~Ev(w).wellFormed \/ ~Ev(w).genuine
           \/ Ev(w).expires # None /\ clock + Drift >= Ev(w).expires
           \/ sub[w].maxAge # None \/ sub[w].audience # None
  PROVE  IInv'
<1> USE DEF IInv
<1>1. /\ pc' = [pc EXCEPT ![w] = "reply"]
      /\ ans' = [ans EXCEPT ![w] = [outcome |-> o, code |-> c]]
      /\ since' = [since EXCEPT ![w] = None]
      /\ UNCHANGED <<accepted, known, database, clock, sub, now, prior, applied, told>>
      /\ [outcome |-> o, code |-> c] \in Answer
  BY DEF Return, Goto, store, heard, Answer, world
<1>2. TypeOK'
  BY <1>1 DEF TypeOK, Place
<1>3. Carried' /\ Exclusive'
  BY <1>1 DEF TypeOK, Carried, Exclusive, Sound, RowOf, Ev, world, Postgres
<1>4. Replies'
  BY <1>1 DEF TypeOK, Replies, RowOf, Ev
<1>5. Decided' /\ LaterAnswersAreTruthful'
  BY <1>1 DEF Decided, Sound, LaterAnswersAreTruthful
<1>6. EffectAppliedOnce' /\ EffectIsDurable'
  BY <1>1 DEF TypeOK, EffectAppliedOnce, EffectIsDurable, Claims, RowOf, Ev
<1>7. ResubmissionIsRecognised'
  BY <1>1 DEF TypeOK, Carried, ResubmissionIsRecognised, RowOf, Ev
<1> QED
  BY <1>2, <1>3, <1>4, <1>5, <1>6, <1>7

\* accept_event_identity inserts the identity's row, and the caller is told
\* "accepted", or, when the connection is lost, "indeterminate".
LEMMA CommitStep ==
  ASSUME IInv, NEW w \in Worker, pc[w] \in {"record", "commit"},
         pc[w] = "record" => ~Postgres, RowOf(w) = None, WriteRow(w),
         \/ Return(w, "accepted", None)
         \/ Return(w, "indeterminate", "ERR_ACCEPTANCE_STATE_UNAVAILABLE"),
         UNCHANGED <<known, world, heard>>
  PROVE  IInv'
<1> USE DEF IInv
<1> DEFINE i == Ev(w).id
           r == [content |-> Ev(w).content, event |-> Ev(w), at |-> now[w]]
<1>1. /\ sub[w] \in Submission /\ Ev(w) \in Event /\ i \in Identity
      /\ Ev(w).content \in Content /\ Sound(Ev(w)) /\ r \in Row /\ r # None
  BY Fields, AcceptanceAssumption DEF Carried, Ev, Row
<1>2. accepted' = [accepted EXCEPT ![i] = r] /\ accepted[i] = None /\ ~prior[w]
  BY DEF WriteRow, RowOf, Carried
<1>3. PICK a \in Answer :
        /\ pc' = [pc EXCEPT ![w] = "reply"] /\ ans' = [ans EXCEPT ![w] = a]
        /\ since' = [since EXCEPT ![w] = None]
        /\ UNCHANGED <<known, database, clock, sub, now, prior, applied, told>>
        /\ a.outcome \in {"accepted", "indeterminate"}
        /\ a.code # "ERR_EVENT_ID_CONFLICT"
  <2>1. None # "ERR_EVENT_ID_CONFLICT"
    BY AcceptanceAssumption DEF Code
  <2>2. CASE Return(w, "accepted", None)
    <3>1. [outcome |-> "accepted", code |-> None] \in Answer
      BY DEF Answer, Outcome, Code
    <3> QED
      BY <2>1, <2>2, <3>1 DEF Return, Goto, heard, world
  <2>3. CASE Return(w, "indeterminate", "ERR_ACCEPTANCE_STATE_UNAVAILABLE")
    <3>1. [outcome |-> "indeterminate", code |-> "ERR_ACCEPTANCE_STATE_UNAVAILABLE"] \in Answer
      BY DEF Answer, Outcome, Code
    <3> QED
      BY <2>3, <3>1 DEF Return, Goto, heard, world
  <2> QED
    BY <2>2, <2>3
<1>4. accepted \in [Identity -> Row \cup {None}]
  BY DEF TypeOK
<1>5. /\ accepted'[i] = r
      /\ \A j \in Identity : j # i => accepted'[j] = accepted[j]
      /\ \A j \in Identity : accepted[j] # None => accepted'[j] = accepted[j]
  BY <1>1, <1>2, <1>4
<1>6. \A v \in Worker : pc[v] # "idle" => Ev(v).id \in Identity /\ Ev(v)' = Ev(v)
  BY <1>3, Fields DEF Carried, Ev
<1>7. TypeOK'
  BY <1>1, <1>2, <1>3 DEF TypeOK, Place
<1>8. Carried'
  <2> SUFFICES ASSUME NEW v \in Worker
               PROVE  (/\ pc[v] # "idle" => sub[v] \in Submission
                       /\ pc[v] \in {"ttl", "scope", "decide", "record", "select", "commit"} => Sound(Ev(v))
                       /\ pc[v] = "ttl" => Ev(v).expires # None
                       /\ pc[v] \in {"record", "select", "commit"} => now[v] \in Stamp
                       /\ prior[v] => /\ pc[v] # "idle" /\ RowOf(v) # None
                                      /\ RowOf(v).content = Ev(v).content)'
    BY DEF Carried
  <2> QED
    BY <1>2, <1>3, <1>5, <1>6 DEF TypeOK, Carried, Sound, RowOf, Ev
<1>9. Exclusive'
  BY <1>3, <1>5, <1>6 DEF TypeOK, Exclusive, RowOf, Ev, world, Postgres
<1>10. Replies'
  BY <1>3, <1>5, <1>6 DEF TypeOK, Replies, RowOf, Ev
<1>11. Decided'
  BY <1>1, <1>3, <1>5 DEF Decided, Sound
<1>12. EffectAppliedOnce' /\ EffectIsDurable'
  <2>1. applied[i] = 0
    BY <1>1, <1>2 DEF TypeOK, EffectIsDurable
  <2>2. \A v \in Worker, j \in Identity : v # w /\ j = i => ~Claims(v, j)'
    BY <1>2, <1>3 DEF Claims, EffectIsDurable, RowOf, Ev
  <2>3. \A v \in Worker, j \in Identity : v # w => Claims(v, j)' = Claims(v, j)
    BY <1>3 DEF Claims, Ev
  <2>4. \A j \in Identity : j # i => ~Claims(w, j)'
    BY <1>3 DEF Claims, Ev
  <2>5. EffectAppliedOnce'
    <3> SUFFICES ASSUME NEW j \in Identity
                 PROVE  (/\ applied[j] <= 1
                         /\ \A v, x \in Worker :
                              Claims(v, j) => applied[j] = 0 /\ (Claims(x, j) => v = x))'
      BY DEF EffectAppliedOnce
    <3>1. CASE j = i
      BY <1>3, <2>1, <2>2, <3>1
    <3>2. CASE j # i
      BY <1>3, <2>3, <2>4, <3>2 DEF EffectAppliedOnce
    <3> QED
      BY <3>1, <3>2
  <2>6. EffectIsDurable'
    BY <1>1, <1>3, <1>5, <1>6 DEF TypeOK, EffectIsDurable, RowOf, Ev
  <2> QED
    BY <2>5, <2>6
<1>13. LaterAnswersAreTruthful'
  <2> SUFFICES ASSUME NEW t \in told
               PROVE  /\ accepted'[t.id] # None
                      /\ (accepted'[t.id].content = t.content) <=> (t.outcome = "already_accepted")
    BY <1>3 DEF LaterAnswersAreTruthful
  <2>1. t.id \in Identity
    BY DEF TypeOK
  <2> QED
    BY <1>5, <2>1 DEF LaterAnswersAreTruthful
<1>14. ResubmissionIsRecognised'
  BY <1>2, <1>3 DEF TypeOK, ResubmissionIsRecognised, Ev
<1> QED
  BY <1>7, <1>8, <1>9, <1>10, <1>11, <1>12, <1>13, <1>14

\* The answer accept_event_identity gives from the row that is there.
LEMMA RowAnswer ==
  ASSUME IInv, NEW w \in Worker, pc[w] # "idle", RowOf(w) # None,
         ReturnFromRow(w), UNCHANGED <<store, world, heard>>
  PROVE  IInv'
<1>1. None # "ERR_EVENT_ID_CONFLICT" /\ "ERR_EVENT_ID_CONFLICT" \in Code
  BY AcceptanceAssumption DEF Code
<1>2. CASE RowOf(w).content = Ev(w).content
  <2>1. Return(w, "already_accepted", None)
    BY <1>2 DEF ReturnFromRow
  <2> QED
    BY <1>1, <1>2, <2>1, PlainAnswer DEF Outcome
<1>3. CASE RowOf(w).content # Ev(w).content
  <2>1. Return(w, "rejected", "ERR_EVENT_ID_CONFLICT") /\ ~prior[w]
    BY <1>3 DEF ReturnFromRow, Fail, IInv, Carried
  <2> QED
    BY <1>1, <1>3, <2>1, PlainAnswer DEF Outcome
<1> QED
  BY <1>2, <1>3

\* Nothing is known of an indeterminate answer.
LEMMA UncertainAnswer ==
  ASSUME IInv, NEW w \in Worker, pc[w] # "idle",
         NEW c \in {"ERR_KEY_UNRESOLVED", "ERR_ACCEPTANCE_STATE_UNAVAILABLE"},
         Uncertain(w, c), UNCHANGED <<store, world, heard>>
  PROVE  IInv'
BY PlainAnswer DEF Uncertain, Outcome, Code

\* A handler that goes on, to a place where it needs nothing new.
LEMMA ContinueStep ==
  ASSUME IInv, NEW w \in Worker, pc[w] # "idle",
         NEW to \in {"ttl", "scope", "decide", "select"}, Continue(w, to),
         UNCHANGED <<store, world, heard>>,
         Sound(Ev(w)), to = "ttl" => Ev(w).expires # None,
         to = "select" => now[w] \in Stamp
  PROVE  IInv'
<1>1. /\ pc' = [pc EXCEPT ![w] = to]
      /\ UNCHANGED <<accepted, known, database, clock, sub, now, ans, prior, since, applied, told>>
  BY DEF Continue, Goto, store, heard, world
<1>2. TypeOK'
  BY <1>1 DEF IInv, TypeOK, Place
<1>3. Carried' /\ Exclusive'
  BY <1>1 DEF IInv, TypeOK, Carried, Exclusive, Sound, RowOf, Ev, world, Postgres
<1> QED
  BY <1>1, <1>2, <1>3, QuietStep DEF IInv, TypeOK, Time, heard

-----------------------------------------------------------------------------
\* The invariant holds on an empty database.
LEMMA InitInvariant == Init => IInv
<1> SUFFICES ASSUME Init PROVE IInv
  OBVIOUS
<1>1. TypeOK
  BY AcceptanceAssumption DEF Init, TypeOK, Time, Place
<1>2. Carried /\ Exclusive /\ Replies
  BY DEF Init, Carried, Exclusive, Replies
<1>3. Decided /\ LaterAnswersAreTruthful /\ ResubmissionIsRecognised
  BY DEF Init, Decided, LaterAnswersAreTruthful, ResubmissionIsRecognised
<1>4. EffectAppliedOnce /\ EffectIsDurable
  BY DEF Init, EffectAppliedOnce, EffectIsDurable, Claims
<1> QED
  BY <1>1, <1>2, <1>3, <1>4 DEF IInv

\* Every step of every handler, every fault, the clock and the registry keep
\* it.
LEMMA NextInvariant == IInv /\ [Next]_vars => IInv'
<1> SUFFICES ASSUME IInv, [Next]_vars PROVE IInv'
  OBVIOUS
<1>a. \A w \in Worker : pc[w] # "idle" =>
        /\ sub[w] \in Submission /\ Ev(w) \in Event /\ Ev(w).id \in Identity
        /\ Ev(w).content \in Content
  BY Fields DEF IInv, Carried, Ev
<1>1. ASSUME NEW w \in Worker, NEW s \in Submission, Receive(w, s)
      PROVE  IInv'
  <2>1. TypeOK'
    BY <1>1 DEF Receive, At, Goto, IInv, TypeOK, store, heard, Place, world
  <2>2. Carried'
    BY <1>1 DEF Receive, At, Goto, IInv, TypeOK, Carried, Sound, RowOf, Ev, store
  <2>3. Exclusive'
    BY <1>1 DEF Receive, At, Goto, IInv, TypeOK, Exclusive, RowOf, Ev, store, world, Postgres
  <2>4. \A v \in Worker : pc'[v] = "reply" =>
          /\ pc[v] = "reply" /\ ans'[v] = ans[v]
          /\ sub'[v] = sub[v] /\ prior'[v] = prior[v]
    BY <1>1 DEF Receive, At, Goto, IInv, TypeOK
  <2>5. clock <= clock' /\ UNCHANGED <<accepted, known, heard>>
    BY <1>1 DEF Receive, IInv, TypeOK, Time, store, world
  <2> QED
    BY <2>1, <2>2, <2>3, <2>4, <2>5, QuietStep
<1>2. ASSUME NEW w \in Worker, CheckEvent(w)
      PROVE  IInv'
  <2> DEFINE c == EventError(sub[w])
  <2>1. pc[w] = "check" /\ UNCHANGED <<store, world, heard>>
    BY <1>2 DEF CheckEvent, At
  <2>2. CASE c = "ERR_KEY_UNRESOLVED"
    <3>1. Uncertain(w, "ERR_KEY_UNRESOLVED")
      BY <1>2, <2>2 DEF CheckEvent
    <3> QED
      BY <2>1, <3>1, UncertainAnswer
  <2>3. CASE c # None /\ c # "ERR_KEY_UNRESOLVED"
    <3>1. /\ c \in Code /\ c # "ERR_EVENT_ID_CONFLICT"
          /\ \/ sub[w].mode = "other" \/ ~Ev(w).wellFormed \/ ~Ev(w).genuine
             \/ ~Ev(w).extensionsOk
      BY <2>3 DEF EventError, Code, Ev
    <3>2. prior[w] => Ev(w).extensionsOk
      <4> SUFFICES ASSUME prior[w] PROVE Ev(w).extensionsOk
        OBVIOUS
      <4>1. /\ Ev(w) \in Event /\ Ev(w).id \in Identity
            /\ RowOf(w) # None /\ RowOf(w).content = Ev(w).content
        BY <1>a, <2>1 DEF IInv, Carried
      <4>2. RowOf(w) \in Row
        BY <4>1 DEF IInv, TypeOK, RowOf
      <4>3. RowOf(w).event \in Event
        BY <4>2 DEF Row
      <4>4. RowOf(w).event.content = Ev(w).content /\ RowOf(w).event.extensionsOk
        BY <4>1 DEF IInv, Decided, Sound, RowOf
      <4> QED
        BY <4>1, <4>3, <4>4, AcceptanceAssumption
    <3>3. PICK d \in Code : d = c
      BY <3>1
    <3>4. Return(w, "rejected", d)
      BY <1>2, <2>3, <3>3 DEF CheckEvent, Fail
    <3> QED
      BY <2>1, <3>1, <3>2, <3>3, <3>4, PlainAnswer DEF Outcome
  <2>4. CASE c = None
    <3>1. Sound(Ev(w))
      BY <2>4, AcceptanceAssumption DEF EventError, Sound, Ev, Code
    <3>2. \/ Continue(w, "ttl") /\ Ev(w).expires # None
          \/ Continue(w, "scope")
      <4>1. c # "ERR_KEY_UNRESOLVED"
        BY <2>4, AcceptanceAssumption DEF Code
      <4> QED
        BY <1>2, <2>4, <4>1 DEF CheckEvent
    <3> QED
      BY <2>1, <3>1, <3>2, ContinueStep
  <2> QED
    BY <2>2, <2>3, <2>4
<1>3. ASSUME NEW w \in Worker, CheckTTL(w)
      PROVE  IInv'
  <2>1. pc[w] = "ttl" /\ Sound(Ev(w)) /\ Ev(w).expires # None /\ UNCHANGED <<store, world, heard>>
    BY <1>3 DEF CheckTTL, At, IInv, Carried
  <2> PICK t \in Reading : IF t >= Ev(w).expires
                            THEN Fail(w, "ERR_EVENT_EXPIRED")
                            ELSE Continue(w, "scope")
    BY <1>3 DEF CheckTTL
  <2>2. CASE t >= Ev(w).expires
    <3>1. Return(w, "rejected", "ERR_EVENT_EXPIRED")
      BY <2>2 DEF Fail
    <3>2. clock + Drift >= Ev(w).expires
      <4>1. /\ t \in Int /\ t <= clock + Drift /\ clock + Drift \in Int
        BY AcceptanceAssumption DEF Reading, Stamp, IInv, TypeOK, Time
      <4>2. Ev(w).expires \in Int
        BY <2>1, Fields DEF IInv, Carried, Ev
      <4> QED
        BY <2>2, <4>1, <4>2
    <3> QED
      BY <2>1, <3>1, <3>2, PlainAnswer DEF Outcome, Code
  <2>3. CASE ~(t >= Ev(w).expires)
    <3>1. Continue(w, "scope")
      BY <2>3
    <3> QED
      BY <2>1, <3>1, ContinueStep
  <2> QED
    BY <2>2, <2>3
<1>4. ASSUME NEW w \in Worker, CheckScope(w)
      PROVE  IInv'
  <2> PICK t \in Reading :
         LET c == ScopeError(sub[w], t) IN
         IF c # None THEN Fail(w, c)
         ELSE IF sub[w].mode = "archival"
           THEN Return(w, "archival", None)
           ELSE Continue(w, "decide")
    BY <1>4 DEF CheckScope
  <2> DEFINE c == ScopeError(sub[w], t)
  <2>1. pc[w] = "scope" /\ Sound(Ev(w)) /\ UNCHANGED <<store, world, heard>>
    BY <1>4 DEF CheckScope, At, IInv, Carried
  <2>2. CASE c # None
    <3>1. /\ c \in Code /\ c # "ERR_EVENT_ID_CONFLICT"
          /\ sub[w].audience # None \/ sub[w].maxAge # None
      BY <2>2 DEF ScopeError, Code
    <3>2. PICK d \in Code : d = c
      BY <3>1
    <3>3. Return(w, "rejected", d)
      BY <2>2, <3>2 DEF Fail
    <3> QED
      BY <2>1, <3>1, <3>2, <3>3, PlainAnswer DEF Outcome
  <2>3. CASE c = None /\ sub[w].mode = "archival"
    <3>1. Return(w, "archival", None) /\ None # "ERR_EVENT_ID_CONFLICT"
      BY <2>3, AcceptanceAssumption DEF Code
    <3> QED
      BY <2>1, <3>1, PlainAnswer DEF Outcome
  <2>4. CASE c = None /\ sub[w].mode # "archival"
    <3>1. Continue(w, "decide")
      BY <2>4
    <3> QED
      BY <2>1, <3>1, ContinueStep
  <2> QED
    BY <2>2, <2>3, <2>4
<1>5. ASSUME NEW w \in Worker, ReadClock(w)
      PROVE  IInv'
  <2> PICK t \in Reading : now' = [now EXCEPT ![w] = t]
    BY <1>5 DEF ReadClock
  <2>1. t \in Stamp /\ pc[w] = "decide" /\ pc' = [pc EXCEPT ![w] = "record"]
    BY <1>5 DEF ReadClock, Reading, At, Goto
  <2>2. UNCHANGED <<accepted, known, database, clock, sub, ans, prior, since, applied, told>>
    BY <1>5 DEF ReadClock, store, heard, world
  <2>3. TypeOK'
    BY <2>1, <2>2 DEF IInv, TypeOK, Place
  <2>4. Carried' /\ Exclusive'
    BY <2>1, <2>2 DEF IInv, TypeOK, Carried, Exclusive, Sound, RowOf, Ev, Postgres
  <2> QED
    BY <2>1, <2>2, <2>3, <2>4, QuietStep DEF IInv, TypeOK, Time, heard
<1>6. ASSUME NEW w \in Worker, RecordLocal(w)
      PROVE  IInv'
  <2>1. CASE RowOf(w) # None
    BY <1>6, <2>1, RowAnswer DEF RecordLocal, At, store
  <2>2. CASE RowOf(w) = None
    BY <1>6, <2>2, CommitStep DEF RecordLocal, At
  <2> QED
    BY <2>1, <2>2
<1>7. ASSUME NEW w \in Worker, PgInsert(w)
      PROVE  IInv'
  <2>1. CASE RowOf(w) # None
    <3>1. /\ Continue(w, "select") /\ Sound(Ev(w)) /\ now[w] \in Stamp
          /\ pc[w] # "idle" /\ UNCHANGED <<store, world, heard>>
      BY <1>7, <2>1 DEF PgInsert, At, IInv, Carried
    <3> QED
      BY <3>1, ContinueStep
  <2>2. CASE RowOf(w) = None
    <3>1. /\ pc' = [pc EXCEPT ![w] = "commit"] /\ pc[w] = "record" /\ Postgres
          /\ \A v \in Worker : ~HoldsIdentity(v, Ev(w).id)
          /\ UNCHANGED <<accepted, known, database, clock, sub, now, ans, prior, since, applied, told>>
      BY <1>7, <2>2 DEF PgInsert, At, Continue, Goto, store, heard, world
    <3>2. TypeOK' /\ Carried'
      BY <3>1 DEF IInv, TypeOK, Carried, Sound, RowOf, Ev, Place
    <3>3. Exclusive'
      BY <2>2, <3>1 DEF IInv, TypeOK, Exclusive, HoldsIdentity, RowOf, Ev, world, Postgres
    <3> QED
      BY <3>1, <3>2, <3>3, QuietStep DEF IInv, TypeOK, Time, heard
  <2> QED
    BY <2>1, <2>2
<1>8. ASSUME NEW w \in Worker, PgSelect(w)
      PROVE  IInv'
  <2>1. CASE RowOf(w) = None
    BY <1>8, <2>1, UncertainAnswer DEF PgSelect, At
  <2>2. CASE RowOf(w) # None
    BY <1>8, <2>2, RowAnswer DEF PgSelect, At
  <2> QED
    BY <2>1, <2>2
<1>9. ASSUME NEW w \in Worker, PgCommit(w)
      PROVE  IInv'
  BY <1>9, CommitStep DEF PgCommit, At, IInv, Exclusive
<1>10. ASSUME NEW w \in Worker, Deliver(w)
       PROVE  IInv'
  <2> DEFINE i == Ev(w).id
  <2>1. /\ pc[w] = "reply" /\ ans[w] \in Answer /\ i \in Identity /\ Ev(w).content \in Content
        /\ UNCHANGED <<accepted, known, database, clock>>
    BY <1>10, <1>a DEF Deliver, At, IInv, Replies, store, world
  <2>2. /\ pc' = [pc EXCEPT ![w] = "idle"] /\ sub' = [sub EXCEPT ![w] = None]
        /\ now' = [now EXCEPT ![w] = None] /\ ans' = [ans EXCEPT ![w] = None]
        /\ prior' = [prior EXCEPT ![w] = FALSE] /\ since' = [since EXCEPT ![w] = None]
    BY <1>10 DEF Deliver, Settle, Goto
  <2>3. /\ applied' = IF ans[w].outcome = "accepted"
                        THEN [applied EXCEPT ![i] = @ + 1] ELSE applied
        /\ told' = told \cup {[id |-> i, content |-> Ev(w).content, outcome |-> x] : x \in Later(w)}
    BY <1>10 DEF Deliver
  <2>4. /\ applied' \in [Identity -> Nat]
        /\ told' \subseteq [id : Identity, content : Content,
                            outcome : {"already_accepted", "conflict"}]
    BY <2>1, <2>3 DEF IInv, TypeOK, Later
  <2>5. TypeOK'
    BY <2>1, <2>2, <2>4 DEF IInv, TypeOK, Place
  <2>6. Carried' /\ Exclusive'
    BY <2>1, <2>2 DEF IInv, TypeOK, Carried, Exclusive, Sound, RowOf, Ev, world, Postgres
  <2>7. Replies'
    BY <2>1, <2>2 DEF IInv, TypeOK, Replies, RowOf, Ev
  <2>8. Decided'
    BY <2>1 DEF IInv, Decided, Sound
  <2>9. EffectAppliedOnce' /\ EffectIsDurable'
    <3>1. \A v \in Worker, j \in Identity : Claims(v, j)' <=> v # w /\ Claims(v, j)
      BY <2>2 DEF IInv, TypeOK, Claims, Ev
    <3>2. CASE ans[w].outcome = "accepted"
      <4>1. Claims(w, i)
        BY <2>1, <3>2 DEF Claims
      <4>2. applied[i] = 0 /\ \A v \in Worker : Claims(v, i) => v = w
        BY <2>1, <4>1 DEF IInv, EffectAppliedOnce
      <4>3. applied' = [applied EXCEPT ![i] = 1]
        BY <2>3, <3>2, <4>2
      <4>4. accepted[i] # None
        BY <2>1, <3>2 DEF IInv, EffectIsDurable, RowOf
      <4>5. EffectAppliedOnce'
        <5> SUFFICES ASSUME NEW j \in Identity
                     PROVE  (/\ applied[j] <= 1
                             /\ \A v, x \in Worker :
                                  Claims(v, j) => applied[j] = 0 /\ (Claims(x, j) => v = x))'
          BY DEF EffectAppliedOnce
        <5>1. CASE j = i
          BY <3>1, <4>2, <4>3, <5>1 DEF IInv, TypeOK
        <5>2. CASE j # i
          BY <3>1, <4>2, <4>3, <5>2 DEF IInv, TypeOK, EffectAppliedOnce
        <5> QED
          BY <5>1, <5>2
      <4>6. EffectIsDurable'
        BY <2>1, <2>2, <4>3, <4>4 DEF IInv, TypeOK, EffectIsDurable, RowOf, Ev
      <4> QED
        BY <4>5, <4>6
    <3>3. CASE ans[w].outcome # "accepted"
      <4>1. EffectAppliedOnce'
        BY <2>3, <3>1, <3>3 DEF IInv, EffectAppliedOnce
      <4>2. EffectIsDurable'
        BY <2>1, <2>2, <2>3, <3>3 DEF IInv, TypeOK, EffectIsDurable, RowOf, Ev
      <4> QED
        BY <4>1, <4>2
    <3> QED
      BY <3>2, <3>3
  <2>10. LaterAnswersAreTruthful'
    <3> SUFFICES ASSUME NEW t \in told'
                 PROVE  /\ accepted[t.id] # None
                        /\ (accepted[t.id].content = t.content) <=> (t.outcome = "already_accepted")
      BY <2>1 DEF LaterAnswersAreTruthful
    <3>1. CASE t \in told
      BY <3>1 DEF IInv, LaterAnswersAreTruthful
    <3>2. CASE t \notin told
      <4>1. PICK x \in Later(w) : t = [id |-> i, content |-> Ev(w).content, outcome |-> x]
        BY <2>3, <3>2
      <4>2. \/ x = "already_accepted" /\ ans[w].outcome = "already_accepted"
            \/ x = "conflict" /\ ans[w].code = "ERR_EVENT_ID_CONFLICT"
        BY DEF Later
      <4> QED
        BY <2>1, <4>1, <4>2 DEF IInv, Replies, RowOf
    <3> QED
      BY <3>1, <3>2
  <2>11. ResubmissionIsRecognised'
    BY <2>1, <2>2 DEF IInv, TypeOK, ResubmissionIsRecognised, Ev
  <2> QED
    BY <2>5, <2>6, <2>7, <2>8, <2>9, <2>10, <2>11 DEF IInv
<1>11. ASSUME NEW w \in Worker, RegistryDown(w)
       PROVE  IInv'
  BY <1>11, UncertainAnswer DEF RegistryDown, At
<1>12. ASSUME NEW w \in Worker, StorageDown(w)
       PROVE  IInv'
  BY <1>12, UncertainAnswer DEF StorageDown
<1>13. ASSUME NEW w \in Worker, LostCommit(w)
       PROVE  IInv'
  BY <1>13, CommitStep DEF LostCommit, At, IInv, Exclusive, Uncertain
<1>14. ASSUME NEW w \in Worker, Vanish(w)
       PROVE  IInv'
  <2>1. TypeOK'
    BY <1>14 DEF Vanish, Settle, Goto, IInv, TypeOK, store, heard, Place, world
  <2>2. Carried' /\ Exclusive'
    BY <1>14 DEF Vanish, Settle, Goto, IInv, TypeOK, Carried, Exclusive, Sound, RowOf, Ev, store, world, Postgres
  <2>3. \A v \in Worker : pc'[v] = "reply" =>
          /\ pc[v] = "reply" /\ ans'[v] = ans[v]
          /\ sub'[v] = sub[v] /\ prior'[v] = prior[v]
    BY <1>14 DEF Vanish, Settle, Goto, IInv, TypeOK
  <2>4. clock <= clock' /\ UNCHANGED <<accepted, known, heard>>
    BY <1>14 DEF Vanish, IInv, TypeOK, Time, store, world
  <2> QED
    BY <2>1, <2>2, <2>3, <2>4, QuietStep
<1>15. CASE Tick
  <2>1. TypeOK' /\ clock <= clock'
    BY <1>15, AcceptanceAssumption DEF Tick, IInv, TypeOK, store, local, heard, Time
  <2>2. Carried' /\ Exclusive'
    BY <1>15 DEF Tick, IInv, Carried, Exclusive, Sound, RowOf, Ev, store, local, world, Postgres
  <2> QED
    BY <1>15, <2>1, <2>2, QuietStep DEF Tick, store, local
<1>16. ASSUME NEW k \in Kid, Register(k)
       PROVE  IInv'
  <2>1. TypeOK' /\ clock <= clock' /\ known \subseteq known'
    BY <1>16 DEF Register, IInv, TypeOK, local, heard, Time, world
  <2>2. Carried' /\ Exclusive'
    BY <1>16 DEF Register, IInv, Carried, Exclusive, Sound, RowOf, Ev, local, world, Postgres
  <2> QED
    BY <1>16, <2>1, <2>2, QuietStep DEF Register, local
<1>17. CASE UNCHANGED vars
  <2>1. TypeOK' /\ Carried' /\ Exclusive' /\ clock <= clock'
    BY <1>17 DEF vars, IInv, TypeOK, Carried, Exclusive, Sound, RowOf, Ev, Time, world, Postgres
  <2> QED
    BY <1>17, <2>1, QuietStep DEF vars, heard
<1> QED
  BY <1>1, <1>2, <1>3, <1>4, <1>5, <1>6, <1>7, <1>8, <1>9, <1>10, <1>11, <1>12,
     <1>13, <1>14, <1>15, <1>16, <1>17 DEF Next, Step, Fault

-----------------------------------------------------------------------------
\* The invariant holds in every reachable state.
THEOREM Invariance == Spec => []IInv
BY InitInvariant, NextInvariant, PTL DEF Spec

\* Every variable keeps the type validate_event_07 and its tables give it.
THEOREM TypeCorrect == Spec => []TypeOK
BY Invariance, PTL DEF IInv

\* Whatever the races, retries, lost commits and failures, effect_applied:
\* true is answered at most once per Event Identity.
THEOREM EffectOnce == Spec => []EffectAppliedOnce
BY Invariance, PTL DEF IInv

\* Every effect_applied: true answer is backed by a committed row.
THEOREM EffectDurable == Spec => []EffectIsDurable
BY Invariance, PTL DEF IInv

\* already_accepted and ERR_EVENT_ID_CONFLICT are true when they are given
\* and stay true.
THEOREM LaterAnswers == Spec => []LaterAnswersAreTruthful
BY Invariance, PTL DEF IInv

\* A content accepted before is recognised when it comes again.
THEOREM Resubmission == Spec => []ResubmissionIsRecognised
BY Invariance, PTL DEF IInv

\* Where the accepted rows change, a handler at its INSERT or its commit
\* fills an identity that had none.
LEMMA RowsChangeByCommit ==
  ASSUME IInv, [Next]_vars, ~UNCHANGED accepted
  PROVE  \E w \in Worker : /\ pc[w] \in {"record", "commit"} /\ RowOf(w) = None
                           /\ WriteRow(w) /\ UNCHANGED heard
<1>1. ASSUME NEW w \in Worker, RecordLocal(w) \/ PgCommit(w) \/ LostCommit(w)
      PROVE  /\ pc[w] \in {"record", "commit"} /\ RowOf(w) = None
             /\ WriteRow(w) /\ UNCHANGED heard
  BY <1>1 DEF RecordLocal, PgCommit, LostCommit, At, IInv, Exclusive
<1>2. \E w \in Worker : RecordLocal(w) \/ PgCommit(w) \/ LostCommit(w)
  BY DEF Next, Step, Fault, vars, store, Receive, CheckEvent, CheckTTL, CheckScope,
         ReadClock, PgInsert, PgSelect, Deliver, RegistryDown, StorageDown, Vanish,
         Tick, Register
<1> QED
  BY <1>1, <1>2

\* accept_event_identity never changes or deletes a decision.
THEOREM FinalDecisions == Spec => DecisionIsFinal
<1> DEFINE Final == \A i \in Identity : accepted[i] # None => accepted'[i] = accepted[i]
<1>1. IInv /\ [Next]_vars => [Final]_vars
  <2> SUFFICES ASSUME IInv, [Next]_vars, NEW i \in Identity, accepted[i] # None
               PROVE  accepted'[i] = accepted[i]
    OBVIOUS
  <2>1. CASE ~UNCHANGED accepted
    <3>1. PICK w \in Worker : RowOf(w) = None /\ WriteRow(w)
      BY <2>1, RowsChangeByCommit
    <3> QED
      BY <3>1 DEF WriteRow, RowOf, IInv, TypeOK
  <2> QED
    BY <2>1
<1> QED
  BY <1>1, Invariance, PTL DEF Spec, DecisionIsFinal

-----------------------------------------------------------------------------
\* A committed row is the promise's Decide.
LEMMA CommitDecides ==
  ASSUME IInv, NEW w \in Worker, pc[w] \in {"record", "commit"}, RowOf(w) = None,
         WriteRow(w), UNCHANGED heard
  PROVE  Promise!Next
<1>a. Ev(w).id \in Identity /\ Ev(w).content \in Content
  BY Fields DEF IInv, Carried, Ev
<1>b. PICK i \in Identity, c \in Content : i = Ev(w).id /\ c = Ev(w).content
  BY <1>a
<1> DEFINE r == [content |-> c, event |-> Ev(w), at |-> now[w]]
           decided == [j \in Identity |-> IF accepted[j] = None THEN None ELSE accepted[j].content]
<1>1. Ev(w) \in Event /\ r \in Row /\ r # None
  BY Fields, AcceptanceAssumption DEF IInv, Carried, Ev, Row
<1>2. accepted[i] = None /\ accepted' = [accepted EXCEPT ![i] = r]
  BY <1>b DEF RowOf, WriteRow
<1>3. accepted \in [Identity -> Row \cup {None}]
  BY DEF IInv, TypeOK
<1>4. decided[i] = None
  BY <1>1, <1>2
<1>5. decided' = [decided EXCEPT ![i] = c]
  BY <1>1, <1>2, <1>3
<1>6. Promise!Decide(i, c)
  BY <1>4, <1>5 DEF Promise!Decide, heard
<1> QED
  BY <1>1, <1>6 DEF Promise!Next

\* An answer that arrives is one the promise allows, or one it says nothing of.
LEMMA DeliveryTells ==
  ASSUME IInv, NEW w \in Worker, Deliver(w)
  PROVE  Promise!Next \/ UNCHANGED Promise!vars
<1>a. Ev(w).id \in Identity /\ Ev(w).content \in Content
  BY Fields DEF Deliver, At, IInv, Carried, Ev
<1>b. PICK i \in Identity, c \in Content : i = Ev(w).id /\ c = Ev(w).content
  BY <1>a
<1> DEFINE effects == {j \in Identity : applied[j] > 0}
<1>1. pc[w] = "reply" /\ ans[w] \in Answer /\ UNCHANGED accepted
  BY DEF Deliver, At, IInv, Replies, store
<1>2. /\ applied' = IF ans[w].outcome = "accepted"
                      THEN [applied EXCEPT ![i] = @ + 1] ELSE applied
      /\ told' = told \cup {[id |-> i, content |-> c, outcome |-> x] : x \in Later(w)}
  BY <1>b DEF Deliver
<1>3. CASE ans[w].outcome = "accepted"
  <2>1. applied[i] = 0 /\ accepted[i] # None /\ accepted[i].content = c
    BY <1>b, <1>1, <1>3
       DEF IInv, EffectAppliedOnce, EffectIsDurable, Claims, Decided, RowOf, Ev
  <2>2. Later(w) = {}
    BY <1>1, <1>3 DEF Later, IInv, Replies
  <2>3. told' = told
    BY <1>2, <2>2
  <2>4. i \notin effects /\ effects' = effects \cup {i}
    BY <1>1, <1>2, <1>3, <2>1 DEF IInv, TypeOK
  <2>5. Promise!TellApplied(i)
    BY <1>1, <2>1, <2>3, <2>4, AcceptanceAssumption DEF Promise!TellApplied
  <2> QED
    BY <1>1, <2>5 DEF Promise!Next
<1>4. CASE ans[w].outcome # "accepted" /\ Later(w) = {}
  BY <1>1, <1>2, <1>4 DEF Promise!vars
<1>5. CASE ans[w].outcome # "accepted" /\ Later(w) # {}
  <2>1. PICK x \in {"already_accepted", "conflict"} :
          /\ Later(w) = {x} /\ accepted[i] # None
          /\ x = IF accepted[i].content = c THEN "already_accepted" ELSE "conflict"
    BY <1>b, <1>1, <1>5 DEF Later, IInv, Replies, RowOf
  <2>2. told' = told \cup {[id |-> i, content |-> c, outcome |-> x]}
    BY <1>2, <2>1
  <2>3. accepted[i].content # None
    BY <1>1, <2>1, AcceptanceAssumption DEF IInv, TypeOK, Row
  <2>4. Promise!TellLater(i, c)
    BY <1>1, <1>2, <1>5, <2>1, <2>2, <2>3 DEF Promise!TellLater
  <2> QED
    BY <1>1, <2>4 DEF Promise!Next
<1> QED
  BY <1>3, <1>4, <1>5

\* validate_event_07 with accept_event_identity, over either database and with
\* every fault, implements what AcceptancePromise says of it.
THEOREM Refinement == Spec => KeepsPromise
<1>1. Init => Promise!Init
  BY DEF Init, Promise!Init
<1>2. IInv /\ [Next]_vars => [Promise!Next]_Promise!vars
  <2> SUFFICES ASSUME IInv, [Next]_vars
               PROVE  Promise!Next \/ UNCHANGED Promise!vars
    OBVIOUS
  <2>1. CASE UNCHANGED <<accepted, heard>>
    BY <2>1 DEF Promise!vars, heard
  <2>2. CASE ~UNCHANGED accepted
    BY <2>2, RowsChangeByCommit, CommitDecides
  <2>3. CASE ~UNCHANGED heard
    <3>1. \E w \in Worker : Deliver(w)
      BY <2>3 DEF Next, Step, Fault, vars, local, heard, Receive, CheckEvent, CheckTTL,
         CheckScope, ReadClock, RecordLocal, PgInsert, PgSelect, PgCommit, RegistryDown,
         StorageDown, LostCommit, Vanish, Tick, Register
    <3> QED
      BY <3>1, DeliveryTells
  <2> QED
    BY <2>1, <2>2, <2>3 DEF heard
<1> QED
  BY <1>1, <1>2, Invariance, PTL DEF Spec, KeepsPromise, Promise!Spec

\* A transaction whose INSERT met a row finds it with its SELECT: "acceptance
\* state disappeared during transaction" is never raised.
Found == \A w \in Worker : pc[w] = "select" => RowOf(w) # None

LEMMA FoundStep ==
  ASSUME IInv, Found, [Next]_vars
  PROVE  Found'
<1> SUFFICES ASSUME NEW w \in Worker, pc'[w] = "select"  PROVE RowOf(w)' # None
  BY DEF Found
<1>1. CASE pc[w] = "select" /\ sub'[w] = sub[w]
  <2>1. Ev(w).id \in Identity /\ RowOf(w) # None /\ RowOf(w)' = accepted'[Ev(w).id]
    BY <1>1, Fields DEF IInv, Carried, Found, RowOf, Ev
  <2>2. CASE UNCHANGED accepted
    BY <2>1, <2>2 DEF RowOf
  <2>3. CASE ~UNCHANGED accepted
    <3>1. PICK v \in Worker : RowOf(v) = None /\ WriteRow(v)
      BY <2>3, RowsChangeByCommit
    <3> QED
      BY <2>1, <3>1 DEF WriteRow, RowOf, IInv, TypeOK
  <2> QED
    BY <2>2, <2>3
<1>2. CASE PgInsert(w)
  BY <1>2 DEF PgInsert, Continue, Goto, store, RowOf, Ev, IInv, TypeOK
<1> QED
  BY <1>1, <1>2
     DEF Next, Step, Fault, vars, local, Receive, CheckEvent, CheckTTL, CheckScope, ReadClock,
         RecordLocal, PgInsert, PgSelect, PgCommit, Deliver, RegistryDown, StorageDown,
         LostCommit, Vanish, Tick, Register, At, Goto, Continue, Return, ReturnFromRow, Fail,
         Uncertain, Settle, IInv, TypeOK

THEOREM RecordIsFound == Spec => []Found
<1>1. Init => Found
  BY DEF Init, Found
<1> QED
  BY <1>1, FoundStep, Invariance, PTL DEF Spec

-----------------------------------------------------------------------------
(* What the checks that a handler has behind it have let through.          *)

Moment(w) == (since[w] - Drift) .. (clock + Drift)

TTLPassed(w) ==
  sub[w].mode = "acceptance" /\ Ev(w).expires # None =>
    \E t \in Moment(w) : t < Ev(w).expires

ScopePassed(w) ==
  /\ sub[w].mode = "acceptance"
  /\ sub[w].audience # None => Ev(w).aud = sub[w].audience
  /\ sub[w].maxAge # None =>
       \E t \in Moment(w) : t - sub[w].maxAge <= Ev(w).when /\ Ev(w).when <= t + ClockSkew

Checked ==
  \A w \in Worker :
    /\ pc[w] \notin {"idle", "reply"} => since[w] \in Time /\ since[w] <= clock
    /\ pc[w] \in {"ttl", "scope"} => sub[w].mode # "other"
    /\ pc[w] \in {"scope", "decide", "record", "select", "commit"} => TTLPassed(w)
    /\ pc[w] \in {"decide", "record", "select", "commit"} => ScopePassed(w)

\* Time passes, or another handler steps: what was let through stays so.
LEMMA StaysChecked ==
  ASSUME IInv, Checked, NEW w \in Worker, clock' \in Int, clock <= clock',
         pc[w] \notin {"idle", "reply"}, sub'[w] = sub[w], since'[w] = since[w]
  PROVE  /\ since'[w] \in Time /\ since'[w] <= clock'
         /\ TTLPassed(w) => TTLPassed(w)'
         /\ ScopePassed(w) => ScopePassed(w)'
<1>1. since[w] \in Int /\ since[w] \in Time /\ since[w] <= clock /\ clock \in Int /\ Drift \in Int
  BY AcceptanceAssumption DEF Checked, Time, IInv, TypeOK
<1>2. Moment(w) \subseteq Moment(w)'
  BY <1>1 DEF Moment
<1>3. since'[w] \in Time /\ since'[w] <= clock'
  BY <1>1
<1>4. TTLPassed(w) => TTLPassed(w)'
  BY <1>2 DEF TTLPassed, Ev
<1>5. ScopePassed(w) => ScopePassed(w)'
  BY <1>2 DEF ScopePassed, Ev
<1> QED
  BY <1>3, <1>4, <1>5

LEMMA CheckedStep == IInv /\ Checked /\ [Next]_vars => Checked'
<1> SUFFICES ASSUME IInv, Checked, [Next]_vars, NEW w \in Worker
             PROVE  (/\ pc[w] \notin {"idle", "reply"} => since[w] \in Time /\ since[w] <= clock
                     /\ pc[w] \in {"ttl", "scope"} => sub[w].mode # "other"
                     /\ pc[w] \in {"scope", "decide", "record", "select", "commit"} => TTLPassed(w)
                     /\ pc[w] \in {"decide", "record", "select", "commit"} => ScopePassed(w))'
  BY DEF Checked
<1> DEFINE Same == sub'[w] = sub[w] /\ since'[w] = since[w]
<1>0. clock \in Int /\ clock' \in Int /\ clock <= clock' /\ Drift \in Nat
  <2>1. clock \in Int  BY AcceptanceAssumption DEF IInv, TypeOK, Time
  <2>2. clock' = clock \/ clock' = clock + 1
    BY DEF Next, Step, Fault, vars, world, Receive, CheckEvent, CheckTTL, CheckScope, ReadClock,
           RecordLocal, PgInsert, PgSelect, PgCommit, Deliver, RegistryDown, StorageDown,
           LostCommit, Vanish, Tick, Register
  <2> QED  BY <2>1, <2>2, AcceptanceAssumption
<1>1. CASE pc'[w] \in {"idle", "reply"}
  BY <1>1
<1>2. ASSUME NEW s \in Submission, Receive(w, s)
      PROVE  pc'[w] = "check" /\ since'[w] \in Time /\ since'[w] <= clock'
  BY <1>0, <1>2 DEF Receive, Goto, world, IInv, TypeOK
<1>3. ASSUME CheckEvent(w), pc'[w] # "reply"
      PROVE  /\ pc[w] = "check" /\ Same /\ sub[w].mode # "other"
             /\ pc'[w] \in {"ttl", "scope"} /\ (pc'[w] = "scope" => TTLPassed(w))
  <2>1. EventError(sub[w]) = None /\ pc[w] = "check"
    BY <1>3 DEF CheckEvent, At, Uncertain, Fail, Return, Goto, IInv, TypeOK
  <2>2. sub[w].mode # "other"
    BY <2>1, AcceptanceAssumption DEF EventError, Code
  <2>3. None # "ERR_KEY_UNRESOLVED"
    BY AcceptanceAssumption DEF Code
  <2>4. \/ sub[w].mode = "acceptance" /\ Ev(w).expires # None /\ Continue(w, "ttl")
        \/ ~(sub[w].mode = "acceptance" /\ Ev(w).expires # None) /\ Continue(w, "scope")
    BY <1>3, <2>1, <2>3 DEF CheckEvent
  <2> QED
    BY <2>1, <2>2, <2>4 DEF Continue, Goto, IInv, TypeOK, TTLPassed
<1>4. ASSUME CheckTTL(w), pc'[w] # "reply"
      PROVE  pc[w] = "ttl" /\ Same /\ pc'[w] = "scope" /\ TTLPassed(w)
  <2>1. PICK t \in Reading : t < Ev(w).expires /\ Continue(w, "scope") /\ pc[w] = "ttl"
    <3>1. PICK t \in Reading : IF t >= Ev(w).expires
                                THEN Fail(w, "ERR_EVENT_EXPIRED")
                                ELSE Continue(w, "scope")
      BY <1>4 DEF CheckTTL
    <3>2. pc[w] = "ttl" /\ ~Fail(w, "ERR_EVENT_EXPIRED")
      BY <1>4 DEF CheckTTL, At, Fail, Return, Goto, IInv, TypeOK
    <3>3. t \in Int /\ Ev(w).expires \in Int
      BY <3>2, Fields DEF Reading, Stamp, IInv, Carried, Ev
    <3> QED
      BY <3>1, <3>2, <3>3
  <2>2. t \in Moment(w)
    BY <1>0, <2>1 DEF Reading, Stamp, Moment, Checked, Time
  <2> QED
    BY <2>1, <2>2 DEF Continue, Goto, IInv, TypeOK, TTLPassed
<1>5. ASSUME CheckScope(w), pc'[w] # "reply"
      PROVE  pc[w] = "scope" /\ Same /\ pc'[w] = "decide" /\ ScopePassed(w)
  <2>1. pc[w] = "scope" /\ sub[w] \in Submission /\ sub[w].mode # "other"
    BY <1>5 DEF CheckScope, At, IInv, Carried, Checked
  <2>2. PICK t \in Reading : /\ ScopeError(sub[w], t) = None
                              /\ sub[w].mode # "archival" /\ Continue(w, "decide")
    <3>1. PICK t \in Reading :
            LET c == ScopeError(sub[w], t) IN
            IF c # None THEN Fail(w, c)
            ELSE IF sub[w].mode = "archival"
              THEN Return(w, "archival", None)
              ELSE Continue(w, "decide")
      BY <1>5 DEF CheckScope
    <3>2. \A c : ~Fail(w, c) /\ ~Return(w, "archival", None)
      BY <1>5 DEF Fail, Return, Goto, IInv, TypeOK
    <3> QED
      BY <3>1, <3>2
  <2>3. t \in Moment(w) /\ t \in Int
    BY <1>0, <2>1 DEF Reading, Stamp, Moment, Checked, Time
  <2>4. /\ sub[w].audience # None => Ev(w).aud = sub[w].audience
        /\ sub[w].maxAge # None => /\ ~(Ev(w).when < t - sub[w].maxAge)
                                   /\ ~(Ev(w).when > t + ClockSkew)
    BY <2>2, AcceptanceAssumption DEF ScopeError, Code, Ev
  <2>5. sub[w].maxAge # None => t - sub[w].maxAge <= Ev(w).when /\ Ev(w).when <= t + ClockSkew
    BY <2>1, <2>3, <2>4, Fields, AcceptanceAssumption DEF Ev
  <2>6. sub[w].mode = "acceptance"
    BY <2>1, <2>2, Fields
  <2>7. ScopePassed(w)
    BY <2>3, <2>4, <2>5, <2>6 DEF ScopePassed
  <2> QED
    BY <2>1, <2>2, <2>7 DEF Continue, Goto, IInv, TypeOK
<1>6. ASSUME ReadClock(w) \/ PgInsert(w)
      PROVE  /\ Same /\ pc[w] \in {"decide", "record"}
             /\ pc'[w] \in {"record", "select", "commit"}
  BY <1>6 DEF ReadClock, PgInsert, At, Goto, Continue, IInv, TypeOK
<1>7. \/ \E s \in Submission : Receive(w, s)
      \/ CheckEvent(w) \/ CheckTTL(w) \/ CheckScope(w) \/ ReadClock(w) \/ PgInsert(w)
      \/ pc'[w] \in {"idle", "reply"}
      \/ Same /\ pc'[w] = pc[w]
  BY DEF Next, Step, Fault, vars, local, Receive, RecordLocal, PgSelect, PgCommit, Deliver,
         CheckEvent, CheckTTL, CheckScope, ReadClock, PgInsert, RegistryDown, StorageDown,
         LostCommit, Vanish, Tick, Register, Goto, Continue, Return, ReturnFromRow, Fail,
         Uncertain, Settle, IInv, TypeOK
<1>8. ASSUME pc[w] \notin {"idle", "reply"}, Same
      PROVE  /\ since'[w] \in Time /\ since'[w] <= clock'
             /\ TTLPassed(w) => TTLPassed(w)'
             /\ ScopePassed(w) => ScopePassed(w)'
  BY <1>0, <1>8, StaysChecked
<1> HIDE DEF Same
<1>9. ASSUME Same  PROVE sub'[w] = sub[w]
  BY <1>9 DEF Same
<1> QED
  BY <1>1, <1>2, <1>3, <1>4, <1>5, <1>6, <1>7, <1>8, <1>9 DEF Checked

\* What TTL, audience and max_age have let through was let through at a moment
\* after the submission arrived, by a clock that errs by no more than Drift.
THEOREM ChecksHold == Spec => []Checked
<1>1. Init => Checked
  BY DEF Init, Checked
<1> QED
  BY <1>1, CheckedStep, Invariance, PTL DEF Spec

\* No event that fails a check of validate_event_07 takes an identity: mode,
\* syntax, signature, extensions, TTL, audience and max_age have all passed
\* in the request that decides, and while it ran.
THEOREM OnlyChecked == Spec => OnlyCheckedEventsDecide
<1>1. ASSUME IInv, Checked, [Next]_vars, NEW i \in Identity, accepted'[i] # accepted[i]
      PROVE  \E w \in Worker :
               /\ pc[w] \notin {"idle", "reply"} /\ Ev(w).id = i
               /\ accepted'[i] # None
               /\ accepted'[i].event = Ev(w) /\ accepted'[i].content = Ev(w).content
               /\ PassesEveryCheck(sub[w], since[w], clock)
  <2>1. PICK w \in Worker : pc[w] \in {"record", "commit"} /\ WriteRow(w)
    BY <1>1, RowsChangeByCommit
  <2> DEFINE r == [content |-> Ev(w).content, event |-> Ev(w), at |-> now[w]]
  <2>2. r \in Row /\ r # None
    BY <1>1, <2>1, Fields, AcceptanceAssumption DEF IInv, Carried, Ev, Row
  <2>3. Ev(w).id = i /\ accepted'[i] = r
    BY <1>1, <2>1 DEF WriteRow, IInv, TypeOK
  <2>4. Sound(Ev(w)) /\ TTLPassed(w) /\ ScopePassed(w)
    BY <1>1, <2>1 DEF IInv, Carried, Checked
  <2>5. PassesEveryCheck(sub[w], since[w], clock)
    BY <2>4 DEF PassesEveryCheck, Sound, TTLPassed, ScopePassed, Moment, Ev
  <2> QED
    BY <2>1, <2>2, <2>3, <2>5
<1>2. IInv /\ Checked /\ [Next]_vars =>
        [\A i \in Identity : accepted'[i] # accepted[i] =>
           \E w \in Worker :
             /\ pc[w] \notin {"idle", "reply"} /\ Ev(w).id = i
             /\ accepted'[i] # None
             /\ accepted'[i].event = Ev(w) /\ accepted'[i].content = Ev(w).content
             /\ PassesEveryCheck(sub[w], since[w], clock)]_vars
  BY <1>1
<1> QED
  BY <1>2, Invariance, ChecksHold, PTL DEF Spec, OnlyCheckedEventsDecide

-----------------------------------------------------------------------------
(* The tables of this module are tables of Stores, and each step that      *)
(* changes them is the transaction of one request on one row.              *)

\* A handler's reading of the clock, and every row's, is ahead of true time by
\* no more than a host's clock errs.
Timely ==
  /\ \A w \in Worker : pc[w] \in {"record", "select", "commit"} => now[w] <= clock + Drift
  /\ \A i \in Identity : accepted[i] # None => accepted[i].at <= clock + Drift

LEMMA TimelyStep == IInv /\ Timely /\ [Next]_vars => Timely'
  <1> SUFFICES ASSUME IInv, Timely, [Next]_vars  PROVE Timely'
    OBVIOUS
  <1>0. clock \in Nat /\ clock' \in Nat /\ clock <= clock' /\ Drift \in Nat
    <2>1. clock \in Nat  BY AcceptanceAssumption DEF IInv, TypeOK, Time
    <2>2. clock' = clock \/ clock' = clock + 1
      BY DEF Next, Step, Fault, vars, world, Receive, CheckEvent, CheckTTL, CheckScope, ReadClock,
             RecordLocal, PgInsert, PgSelect, PgCommit, Deliver, RegistryDown, StorageDown,
             LostCommit, Vanish, Tick, Register
    <2> QED  BY <2>1, <2>2, AcceptanceAssumption
  <1>1. ASSUME NEW w \in Worker, pc'[w] \in {"record", "select", "commit"}
        PROVE  now'[w] <= clock' + Drift
    <2>1. CASE pc[w] \in {"record", "select", "commit"} /\ now'[w] = now[w]
      <3>1. now[w] \in Nat  BY <2>1, AcceptanceAssumption DEF IInv, Carried, Stamp
      <3> QED  BY <1>0, <2>1, <3>1 DEF Timely
    <2>2. CASE ReadClock(w)
      <3>1. PICK t \in Reading : now' = [now EXCEPT ![w] = t]  BY <2>2 DEF ReadClock
      <3>2. clock' = clock /\ t <= clock + Drift  BY <2>2, <3>1 DEF ReadClock, world, Reading
      <3> QED  BY <3>1, <3>2 DEF IInv, TypeOK
    <2> QED
      BY <1>1, <2>1, <2>2
         DEF Next, Step, Fault, vars, local, Receive, CheckEvent, CheckTTL, CheckScope, ReadClock,
             RecordLocal, PgInsert, PgSelect, PgCommit, Deliver, RegistryDown, StorageDown,
             LostCommit, Vanish, Tick, Register, At, Goto, Continue, Return, ReturnFromRow, Fail,
             Uncertain, Settle, IInv, TypeOK
  <1>2. ASSUME NEW i \in Identity, accepted'[i] # None
        PROVE  accepted'[i].at <= clock' + Drift
    <2>1. CASE accepted'[i] = accepted[i]
      <3>1. accepted[i].at \in Nat
        BY <1>2, <2>1, AcceptanceAssumption DEF IInv, TypeOK, Row, Stamp
      <3> QED  BY <1>0, <1>2, <2>1, <3>1 DEF Timely
    <2>2. CASE accepted'[i] # accepted[i]
      <3>1. PICK w \in Worker : pc[w] \in {"record", "commit"} /\ RowOf(w) = None /\ WriteRow(w)
        BY <2>2, RowsChangeByCommit
      <3>2. accepted'[i].at = now[w]
        BY <2>2, <3>1 DEF WriteRow, IInv, TypeOK
      <3>3. now[w] \in Nat /\ now[w] <= clock + Drift
        BY <3>1, AcceptanceAssumption DEF IInv, Carried, Timely, Stamp
      <3> QED  BY <1>0, <3>2, <3>3
    <2> QED  BY <2>1, <2>2
  <1> QED  BY <1>1, <1>2 DEF Timely

\* No decision is dated ahead of true time by more than the error of its host's
\* clock: accepted_at was read before the transaction that writes it.
THEOREM NotAhead == Spec => []Timely
  <1>1. Init => Timely  BY DEF Init, Timely
  <1> QED  BY <1>1, TimelyStep, Invariance, PTL DEF Spec

DB == INSTANCE Stores WITH
  Nonce <- {}, Event <- {}, Ledger <- {},
  Accept <- {"identity"} \X Identity, Key <- {"kid"} \X Kid,
  Digest <- Content \cup Kid, Retention <- 0,
  DemoKid <- <<"kid", CHOOSE k \in Kid : TRUE>>, Seed <- None

\* A row of accepted_events as Stores has it.
Decision(row) == [digest |-> row.content, at |-> row.at]

\* Accepted rows a and known kids r as one table.
RowAt(a, r, id) ==
  CASE id[1] = "identity" -> IF a[id[2]] = None THEN None ELSE Decision(a[id[2]])
    [] id[1] = "kid"      -> IF id[2] \in r THEN id[2] ELSE None

TablesOf(a, r) == [id \in DB!Id |-> RowAt(a, r, id)]
Tables == TablesOf(accepted, known)

\* The keys of the database, and the rows each may have.
LEMMA Keys ==
  /\ \A i \in Identity : /\ <<"identity", i>> \in DB!Id
                         /\ DB!RowsAt(<<"identity", i>>) = [digest : Content \cup Kid, at : Nat]
  /\ \A k \in Kid : <<"kid", k>> \in DB!Id /\ DB!RowsAt(<<"kid", k>>) = Content \cup Kid
  /\ \A id \in DB!Id : \/ \E i \in Identity : id = <<"identity", i>>
                       \/ \E k \in Kid : id = <<"kid", k>>
  <1>1. DB!Id = ({"identity"} \X Identity) \cup ({"kid"} \X Kid)
    BY DEF DB!Id
  <1>2. ASSUME NEW i \in Identity
        PROVE  /\ <<"identity", i>> \in DB!Id
               /\ DB!RowsAt(<<"identity", i>>) = [digest : Content \cup Kid, at : Nat]
    BY <1>1 DEF DB!RowsAt
  <1>3. ASSUME NEW k \in Kid
        PROVE  <<"kid", k>> \in DB!Id /\ DB!RowsAt(<<"kid", k>>) = Content \cup Kid
    BY <1>1 DEF DB!RowsAt
  <1>4. ASSUME NEW id \in DB!Id
        PROVE  \/ \E i \in Identity : id = <<"identity", i>>
               \/ \E k \in Kid : id = <<"kid", k>>
    BY <1>1
  <1> QED  BY <1>2, <1>3, <1>4

\* The row under each kind of key.
LEMMA Columns ==
  ASSUME NEW a, NEW r
  PROVE  /\ \A i : RowAt(a, r, <<"identity", i>>) = IF a[i] = None THEN None ELSE Decision(a[i])
         /\ \A k : RowAt(a, r, <<"kid", k>>) = IF k \in r THEN k ELSE None
  BY DEF RowAt

\* A row that is not there is written: that is a transaction.
LEMMA OneWritten ==
  ASSUME NEW a, NEW r, NEW b, NEW s, NEW time, NEW id \in DB!Id, NEW row,
         RowAt(a, r, id) = None, RowAt(b, s, id) = row, row \in DB!RowsAt(id),
         id \in {"identity"} \X Identity => row.at <= time,
         \A i \in DB!Id \ {id} : RowAt(b, s, i) = RowAt(a, r, i)
  PROVE  DB!Transaction(TablesOf(a, r), TablesOf(b, s), time)
  <1> DEFINE t == TablesOf(a, r)
             u == TablesOf(b, s)
  <1>1. t[id] = None /\ u[id] = row  BY DEF TablesOf
  <1>2. u = [i \in DB!Id |-> IF i = id THEN row ELSE t[i]]
    <2>1. ASSUME NEW i \in DB!Id
          PROVE  RowAt(b, s, i) = IF i = id THEN row ELSE t[i]
      <3>1. t[i] = RowAt(a, r, i)  BY DEF TablesOf
      <3> HIDE DEF t
      <3> QED  BY <3>1
    <2> HIDE DEF t
    <2> QED  BY <2>1 DEF TablesOf
  <1> HIDE DEF t, u
  <1>3. DB!Write(t, u, id, u[id], time)
    BY <1>1, <1>2 DEF DB!Write, DB!Taken
  <1> QED  BY <1>3 DEF DB!Transaction, t, u

\* accept_event_identity.
LEMMA DecisionWritten ==
  ASSUME NEW a \in [Identity -> Row \cup {None}], NEW r, NEW i \in Identity, NEW row \in Row,
         a[i] = None, NEW time, row.at <= time
  PROVE  DB!Transaction(TablesOf(a, r), TablesOf([a EXCEPT ![i] = row], r), time)
  <1> DEFINE id == <<"identity", i>>
             b == [a EXCEPT ![i] = row]
             new == Decision(row)
  <1>1. row.content \in Content /\ row.at \in Nat /\ row # None
    BY AcceptanceAssumption DEF Row, Stamp
  <1>2. id \in DB!Id /\ new \in DB!RowsAt(id) /\ new.at = row.at
    BY <1>1, Keys DEF Decision
  <1>3. RowAt(a, r, id) = None /\ RowAt(b, r, id) = new
    <2>1. a[i] = None /\ b[i] = row  OBVIOUS
    <2> HIDE DEF b
    <2> QED  BY <1>1, <2>1, Columns
  <1>4. ASSUME NEW j \in DB!Id \ {id}  PROVE RowAt(b, r, j) = RowAt(a, r, j)
    <2>1. ASSUME NEW h \in Identity, j = <<"identity", h>>  PROVE RowAt(b, r, j) = RowAt(a, r, j)
      <3>1. b[h] = a[h]  BY <1>4, <2>1
      <3> HIDE DEF b
      <3> QED  BY <2>1, <3>1, Columns
    <2>2. ASSUME NEW k \in Kid, j = <<"kid", k>>  PROVE RowAt(b, r, j) = RowAt(a, r, j)
      BY <2>2, Columns
    <2> QED  BY <2>1, <2>2, Keys
  <1> HIDE DEF id, b, new
  <1>5. DB!Transaction(TablesOf(a, r), TablesOf(b, r), time)
    BY <1>2, <1>3, <1>4, OneWritten
  <1> QED  BY <1>5 DEF b

\* register_public_key.
LEMMA KeyWritten ==
  ASSUME NEW a, NEW r, NEW k \in Kid, k \notin r, NEW time
  PROVE  DB!Transaction(TablesOf(a, r), TablesOf(a, r \cup {k}), time)
  <1> DEFINE id == <<"kid", k>>
             s == r \cup {k}
  <1>1. id \in DB!Id /\ k \in DB!RowsAt(id) /\ id \notin {"identity"} \X Identity
    BY Keys
  <1>2. RowAt(a, r, id) = None /\ RowAt(a, s, id) = k
    BY Columns
  <1>3. ASSUME NEW i \in DB!Id \ {id}  PROVE RowAt(a, s, i) = RowAt(a, r, i)
    <2>1. ASSUME NEW j \in Identity, i = <<"identity", j>>  PROVE RowAt(a, s, i) = RowAt(a, r, i)
      BY <2>1, Columns
    <2>2. ASSUME NEW j \in Kid, i = <<"kid", j>>  PROVE RowAt(a, s, i) = RowAt(a, r, i)
      BY <1>3, <2>2, Columns
    <2> QED  BY <2>1, <2>2, Keys
  <1> HIDE DEF id, s
  <1>4. DB!Transaction(TablesOf(a, r), TablesOf(a, s), time)
    BY <1>1, <1>2, <1>3, OneWritten
  <1> QED  BY <1>4 DEF s

\* Whatever a worker does to the tables, in whatever interleaving and with
\* whatever failure, is one transaction of Stores: what Migration takes a
\* request for.
THEOREM Transactions == Spec => [][DB!Transaction(Tables, Tables', clock + Drift)]_Tables
  <1>1. ASSUME IInv, Timely, [Next]_vars, Tables' # Tables
        PROVE  DB!Transaction(Tables, Tables', clock + Drift)
    <2>0. Tables = TablesOf(accepted, known) /\ Tables' = TablesOf(accepted', known')
      BY DEF Tables
    <2>1. CASE UNCHANGED accepted
      <3>1. PICK k \in Kid : known' = known \cup {k}
        BY <1>1, <2>0, <2>1
           DEF Next, Step, Fault, vars, store, Receive, CheckEvent, CheckTTL, CheckScope, ReadClock,
               RecordLocal, PgInsert, PgSelect, PgCommit, Deliver, RegistryDown, StorageDown,
               LostCommit, Vanish, Tick, Register
      <3>2. k \notin known  BY <1>1, <2>0, <2>1, <3>1
      <3> QED  BY <2>0, <2>1, <3>1, <3>2, KeyWritten
    <2>2. CASE ~UNCHANGED accepted
      <3>1. PICK w \in Worker : pc[w] \in {"record", "commit"} /\ RowOf(w) = None /\ WriteRow(w)
        BY <1>1, <2>2, RowsChangeByCommit
      <3>2. UNCHANGED known
        BY <1>1, <2>2
           DEF Next, Step, Fault, vars, store, Receive, CheckEvent, CheckTTL, CheckScope, ReadClock,
               RecordLocal, PgInsert, PgSelect, PgCommit, Deliver, RegistryDown, StorageDown,
               LostCommit, Vanish, Tick, Register
      <3> DEFINE i == Ev(w).id
                 row == [content |-> Ev(w).content, event |-> Ev(w), at |-> now[w]]
      <3>3. i \in Identity /\ row \in Row /\ row.at = now[w]
        BY <1>1, <3>1, Fields DEF IInv, Carried, Ev, Row
      <3>4. accepted \in [Identity -> Row \cup {None}] /\ accepted[i] = None
        BY <1>1, <3>1 DEF IInv, TypeOK, RowOf
      <3>5. accepted' = [accepted EXCEPT ![i] = row]
        BY <3>1 DEF WriteRow
      <3>6. now[w] <= clock + Drift  BY <1>1, <3>1 DEF Timely
      <3> HIDE DEF i, row
      <3> QED  BY <2>0, <3>2, <3>3, <3>4, <3>5, <3>6, DecisionWritten
    <2> QED  BY <2>1, <2>2
  <1>2. IInv /\ Timely /\ [Next]_vars => [DB!Transaction(Tables, Tables', clock + Drift)]_Tables
    BY <1>1
  <1> QED  BY <1>2, Invariance, NotAhead, PTL DEF Spec
=============================================================================
