------------------------------- MODULE Replay -------------------------------
(***************************************************************************)
(* POST /events/verify, the pre-0.7 route (main.py, validate_event), and   *)
(* the nonce records that keep it from accepting an event twice: one clock *)
(* reading decides the acceptance window and, later, which records have    *)
(* expired (state.py, consume_nonce; SQLite deletes them all, PostgreSQL   *)
(* overwrites its own), while an operator may prune the rest               *)
(* (prune_nonces).  Records are dropped on one host's clock and windows    *)
(* checked on another's, so clocks and delays are part of the model.       *)
(***************************************************************************)
EXTENDS Integers

CONSTANTS
  Worker,       \* request threads, of one host or of several
  Scope,        \* (actor, audience, nonce)
  Event,        \* signed events that are submitted, see EventForm
  MaxAge,       \* MAX_AGE_SECONDS
  ClockSkew,    \* CLOCK_SKEW_SECONDS
  Drift,        \* how far a host's clock may be from true time
  Stall,        \* the longest a call to the database lasts without failing
  MaxTime,      \* bound on true time, for TLC
  None

\* An event as this route sees it: "sound" when syntax, signature and
\* extensions pass, "expires" the TTL extension.
EventForm ==
  [scope : Scope, when : Int, expires : Int \cup {None}, sound : BOOLEAN]

Mode    == {"archival", "acceptance", "other"}
Verdict == {"valid", "invalid", "replay"}

ASSUME ReplayAssumption ==
  /\ \A e \in Event : e \in EventForm
  /\ MaxAge \in Nat /\ ClockSkew \in Nat /\ Drift \in Nat /\ Stall \in Nat
  /\ MaxTime \in Nat
  /\ None \notin Int /\ None \notin Event /\ None \notin Verdict

\* The skew allowance pays for the longest call and for two clocks that err
\* in opposite directions.  Without it an event can be accepted twice.
ASSUME SkewCoversDelay == Stall + 2 * Drift <= ClockSkew

VARIABLES
  database,     \* what configured_state opened, for good: LocalState or PostgresState
  nonces,       \* nonces: nonces[s] is the expiry of the record of scope s
  clock,        \* true time, in seconds
  pc,           \* where each worker's validate_event stands
  ev, mode,     \* the event it checks, and how
  asked,        \* history: the audience matches, or in archival mode consume_nonce
  now,          \* its one reading of int(time.time())
  since,        \* the true time of that reading
  ans,          \* the verdict it is about to return
  used,         \* history: the events whose nonce was consumed
  accepts       \* history: accepts[e] counts the acceptances of e decided

world   == <<database, clock>>
handler == <<pc, ev, mode, asked, now, since, ans>>
vars    == <<database, nonces, clock, pc, ev, mode, asked, now, since, ans, used,
             accepts>>

Init ==
  /\ database \in {"sqlite", "postgresql"}
  /\ nonces = [s \in Scope |-> None]
  /\ clock = 0
  /\ pc = [w \in Worker |-> "idle"]
  /\ ev = [w \in Worker |-> None]
  /\ mode = [w \in Worker |-> None]
  /\ asked = [w \in Worker |-> None]
  /\ now = [w \in Worker |-> None]
  /\ since = [w \in Worker |-> None]
  /\ ans = [w \in Worker |-> None]
  /\ used = {}
  /\ accepts = [e \in Event |-> 0]

Postgres == database = "postgresql"

Larger(a, b) == IF a < b THEN b ELSE a

\* What a host may read when true time is clock.
Reading == (clock - Drift) .. (clock + Drift)

\* What the call of consume_nonce is made with, until it is over.
Hold(w, m, q, t, s) ==
  /\ mode' = [mode EXCEPT ![w] = m]
  /\ asked' = [asked EXCEPT ![w] = q]
  /\ now' = [now EXCEPT ![w] = t]
  /\ since' = [since EXCEPT ![w] = s]

Return(w, verdict) ==
  /\ pc' = [pc EXCEPT ![w] = "reply"]
  /\ ans' = [ans EXCEPT ![w] = verdict]
  /\ Hold(w, None, None, None, None)

\* The response leaves, or the request dies.
Settle(w) ==
  /\ pc' = [pc EXCEPT ![w] = "idle"]
  /\ ev' = [ev EXCEPT ![w] = None]
  /\ ans' = [ans EXCEPT ![w] = None]
  /\ Hold(w, None, None, None, None)

-----------------------------------------------------------------------------
(* The handler.                                                            *)

\* The acceptance-only checks, on one reading t.
InWindow(e, t) == t - MaxAge <= e.when /\ e.when <= t + ClockSkew
Live(e, t)     == IF e.expires = None THEN TRUE ELSE t < e.expires

\* Mutant: the nonce is consumed before the signature is checked.
PassesUnsigned(e, m, audience, t) ==
  /\ m # "other"
  /\ m = "acceptance" => audience /\ InWindow(e, t) /\ Live(e, t)

\* Mutant: the age of the event is not checked.
PassesStale(e, m, audience, t) ==
  /\ m # "other" /\ e.sound
  /\ m = "acceptance" => audience /\ e.when <= t + ClockSkew /\ Live(e, t)

\* Mutant: the nonce is consumed before the audience is checked.
PassesAnyAudience(e, m, audience, t) ==
  /\ m # "other" /\ e.sound
  /\ m = "acceptance" => InWindow(e, t) /\ Live(e, t)

\* "audience" says whether expected_audience is given and matches.
Passes(e, m, audience, t) ==
  /\ m # "other" /\ e.sound
  /\ m = "acceptance" => audience /\ InWindow(e, t) /\ Live(e, t)

\* A request arrives and is checked, up to the call of consume_nonce.  It
\* fails when a check does, and also, whatever it carries, while the key
\* registry cannot resolve its kid.
Verify(w, e, m, audience, consume) ==
  /\ pc[w] = "idle"
  /\ ev' = [ev EXCEPT ![w] = e]
  /\ \/ Return(w, "invalid")
     \/ \E t \in Reading :
          /\ Passes(e, m, audience, t)
          /\ IF m = "acceptance" \/ consume
               THEN /\ pc' = [pc EXCEPT ![w] = "consume"]
                    /\ Hold(w, m, IF m = "acceptance" THEN audience ELSE consume, t, clock)
                    /\ UNCHANGED ans
               ELSE Return(w, "valid")
  /\ UNCHANGED <<nonces, world, used, accepts>>

Expired(s, t) == nonces[s] # None /\ nonces[s] < t

\* consume_nonce as committed: what its rows become, and whether it won.
\* SQLite drops every expired record first, and keeps the deletion when its
\* INSERT then fails; PostgreSQL only ever overwrites the record it needs.
Wins(w) == nonces[ev[w].scope] = None \/ Expired(ev[w].scope, now[w])

\* Mutant: records age from the reading, not from the event.
RowsFromReading(w) ==
  [s \in Scope |->
     IF s = ev[w].scope /\ Wins(w)
       THEN now[w] + MaxAge + ClockSkew
       ELSE IF s # ev[w].scope /\ ~Postgres /\ Expired(s, now[w])
              THEN None
              ELSE nonces[s]]

Rows(w) ==
  [s \in Scope |->
     IF s = ev[w].scope /\ Wins(w)
       THEN Larger(now[w], ev[w].when) + MaxAge + ClockSkew
       ELSE IF s # ev[w].scope /\ ~Postgres /\ Expired(s, now[w])
              THEN None
              ELSE nonces[s]]

InTime(w) == pc[w] = "consume" /\ clock <= since[w] + Stall

Consume(w) ==
  /\ InTime(w)
  /\ nonces' = Rows(w)
  /\ used' = IF Wins(w) THEN used \cup {ev[w]} ELSE used
  /\ accepts' = IF Wins(w) /\ mode[w] = "acceptance"
                  THEN [accepts EXCEPT ![ev[w]] = @ + 1]
                  ELSE accepts
  /\ Return(w, IF Wins(w) THEN "valid" ELSE "replay")
  /\ UNCHANGED <<world, ev>>

Deliver(w) ==
  /\ pc[w] = "reply"
  /\ Settle(w)
  /\ UNCHANGED <<nonces, world, used, accepts>>

-----------------------------------------------------------------------------
(* What goes wrong, and what goes on.                                      *)

\* Mutant: the exception becomes an answer of its own.
UnavailableEscapes(w) ==
  /\ pc[w] = "consume"
  /\ Return(w, "error")
  /\ UNCHANGED <<nonces, world, ev, used, accepts>>

\* The database fails, or the lock wait outlasts its timeout.
Unavailable(w) ==
  /\ pc[w] = "consume"
  /\ Return(w, "invalid")
  /\ UNCHANGED <<nonces, world, ev, used, accepts>>

\* The connection dies after the commit: invalid, and consumed.
LostCommit(w) ==
  /\ InTime(w)
  /\ nonces' = Rows(w)
  /\ used' = IF Wins(w) THEN used \cup {ev[w]} ELSE used
  /\ Return(w, "invalid")
  /\ UNCHANGED <<world, ev, accepts>>

\* The worker dies, or its answer does.
Vanish(w) ==
  /\ pc[w] # "idle"
  /\ Settle(w)
  /\ UNCHANGED <<nonces, world, used, accepts>>

\* Mutant: the cutoff may be in the operator's future.
PruneFuture(before) ==
  /\ Postgres
  /\ nonces' = [s \in Scope |-> IF Expired(s, before) THEN None ELSE nonces[s]]
  /\ UNCHANGED <<world, handler, used, accepts>>

\* prune_nonces(before), refused when before is in the operator's future.
Prune(before) ==
  /\ Postgres
  /\ \E t \in Reading : before <= t
  /\ nonces' = [s \in Scope |-> IF Expired(s, before) THEN None ELSE nonces[s]]
  /\ UNCHANGED <<world, handler, used, accepts>>

Tick ==
  /\ clock < MaxTime
  /\ clock' = clock + 1
  /\ UNCHANGED <<database, nonces, handler, used, accepts>>

-----------------------------------------------------------------------------
Cutoff == (0 - Drift) .. (MaxTime + Drift)

Next ==
  \/ \E w \in Worker :
       \/ \E e \in Event, m \in Mode, a, c \in BOOLEAN : Verify(w, e, m, a, c)
       \/ Consume(w) \/ Deliver(w)
       \/ Unavailable(w) \/ LostCommit(w) \/ Vanish(w)
  \/ \E before \in Cutoff : Prune(before)
  \/ Tick

Spec == Init /\ [][Next]_vars

-----------------------------------------------------------------------------
(* Properties.                                                             *)

\* Every variable holds what validate_event and the nonce table can hold.
TypeOK ==
  /\ database \in {"sqlite", "postgresql"}
  /\ nonces \in [Scope -> Int \cup {None}]
  /\ clock \in 0 .. MaxTime
  /\ pc \in [Worker -> {"idle", "consume", "reply"}]
  /\ ev \in [Worker -> Event \cup {None}]
  /\ mode \in [Worker -> Mode \cup {None}]
  /\ asked \in [Worker -> BOOLEAN \cup {None}]
  /\ now \in [Worker -> Int \cup {None}]
  /\ since \in [Worker -> Int \cup {None}]
  /\ ans \in [Worker -> Verdict \cup {None}]
  /\ used \subseteq Event
  /\ accepts \in [Event -> Nat]

\* No event is accepted twice: not by two workers at once, not after its
\* record was dropped, not on a host whose clock lags.
AcceptedOnce == \A e \in Event : accepts[e] <= 1

\* Acceptances in a scope move forward in time: whatever consumed the nonce
\* before, in whichever mode, is older than the event accepted now.
AcceptsOnlyLaterEvents ==
  [][\A e \in Event : accepts'[e] # accepts[e] =>
       \A u \in used : u.scope = e.scope => u.when < e.when]_vars

\* A record outlives every window its event could still pass: while some
\* handler may hold a reading that is early enough, the record is there, and
\* is not expired for that reading.
RecordOutlivesWindow ==
  \A u \in used : clock - Stall - Drift <= u.when + MaxAge =>
    /\ nonces[u.scope] # None
    /\ nonces[u.scope] >= u.when + MaxAge + ClockSkew

\* What may consume a nonce when the true time is t: a sound event, for the
\* caller's audience or as an archival caller asks, and for acceptance at most
\* a call and a clock's error away from its window and its TTL.
MayConsume(w, t) ==
  /\ ev[w].sound /\ asked[w] = TRUE
  /\ mode[w] = "acceptance" =>
       \E r \in (t - Stall - Drift) .. (t + Drift) : InWindow(ev[w], r) /\ Live(ev[w], r)

\* A failed check poisons no nonce, however late the call of consume_nonce
\* commits and whether its caller hears of it: each record that is written,
\* over none or over an expired one, is of an event that may consume it then.
ConsumesOnlyChecked ==
  [][\A s \in Scope : nonces'[s] \notin {nonces[s], None} =>
       \E w \in Worker :
         pc[w] = "consume" /\ pc'[w] = "reply" /\ ev[w].scope = s /\ MayConsume(w, clock)]_vars

\* ERR_NONCE_REPLAY is only said when the nonce was consumed by a sound
\* event before: failed checks poison no nonce.
ReplayVerdictIsTruthful ==
  \A w \in Worker : ans[w] = "replay" =>
    \E u \in used : u.scope = ev[w].scope /\ u.sound
=============================================================================
