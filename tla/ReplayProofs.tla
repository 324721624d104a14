---------------------------- MODULE ReplayProofs ----------------------------
(***************************************************************************)
(* Theorems about Replay, for any workers, events, window and clocks that  *)
(* SkewCoversDelay admits.                                                 *)
(***************************************************************************)
EXTENDS Replay, TLAPS

\* A handler that is about to consume read its clock at most Drift away from
\* the true time of the reading, and let only sound events through that the
\* caller asks for, for acceptance only inside the window and the TTL.
Waiting ==
  \A w \in Worker : pc[w] = "consume" =>
    /\ ev[w] \in Event /\ ev[w].sound /\ asked[w] = TRUE
    /\ mode[w] \in {"archival", "acceptance"}
    /\ now[w] \in Int /\ since[w] \in Int
    /\ since[w] <= clock
    /\ since[w] - Drift <= now[w] /\ now[w] <= since[w] + Drift
    /\ mode[w] = "acceptance" => InWindow(ev[w], now[w]) /\ Live(ev[w], now[w])

\* A consumed nonce is still recorded, for at least as long as its event's
\* own window and the skew, or that time is over on some clock.
Protected ==
  \A u \in used :
    \/ /\ nonces[u.scope] # None
       /\ u.when + MaxAge + ClockSkew <= nonces[u.scope]
    \/ u.when + MaxAge + ClockSkew < clock + Drift

\* Records and verdicts come from consumptions, acceptances are consumptions.
Traceable ==
  /\ \A u \in used : u.sound
  /\ \A s \in Scope : nonces[s] # None => \E u \in used : u.scope = s
  /\ \A w \in Worker : ans[w] = "replay" => pc[w] = "reply" /\ ev[w] \in Event
  /\ \A e \in Event : accepts[e] > 0 => e \in used

IInv ==
  /\ TypeOK /\ Waiting /\ Protected /\ Traceable
  /\ AcceptedOnce /\ ReplayVerdictIsTruthful

-----------------------------------------------------------------------------
\* The fields of a submitted event have the types of validate_event's checks.
LEMMA EventFields ==
  ASSUME NEW e \in Event
  PROVE  e.scope \in Scope /\ e.when \in Int /\ e.sound \in BOOLEAN
BY ReplayAssumption DEF EventForm

\* A winner's event is not older than any window a consumer before it could
\* leave open: in its scope, every event consumed before is older.
LEMMA WinnerIsLater ==
  ASSUME IInv, NEW w \in Worker, InTime(w), Wins(w), mode[w] = "acceptance",
         NEW u \in used, u.scope = ev[w].scope
  PROVE  u.when < ev[w].when
<1>1. /\ ev[w] \in Event /\ u \in Event
      /\ now[w] \in Int /\ since[w] \in Int /\ clock \in Int
      /\ clock <= since[w] + Stall /\ since[w] - Drift <= now[w]
      /\ now[w] - MaxAge <= ev[w].when
  BY DEF IInv, TypeOK, Waiting, InTime, InWindow
<1>2. u.when \in Int /\ ev[w].when \in Int /\ u.scope \in Scope
  BY <1>1, EventFields
<1>3. CASE nonces[u.scope] # None /\ u.when + MaxAge + ClockSkew <= nonces[u.scope]
  <2>1. nonces[u.scope] \in Int /\ nonces[u.scope] < now[w]
    BY <1>2, <1>3 DEF IInv, TypeOK, Wins, Expired
  <2> QED
    BY <1>1, <1>2, <1>3, <2>1, ReplayAssumption
<1>4. CASE u.when + MaxAge + ClockSkew < clock + Drift
  BY <1>1, <1>2, <1>4, ReplayAssumption, SkewCoversDelay
<1> QED
  BY <1>3, <1>4 DEF IInv, Protected

\* What consume_nonce commits keeps the table typed, every consumed nonce
\* protected and every record traceable, whether the caller hears of it or
\* not.
LEMMA CommitKeepsRecords ==
  ASSUME IInv, NEW w \in Worker, InTime(w), nonces' = Rows(w), clock' = clock,
         used' = IF Wins(w) THEN used \cup {ev[w]} ELSE used
  PROVE  /\ nonces' \in [Scope -> Int \cup {None}]
         /\ used' \subseteq Event
         /\ Protected'
         /\ \A u \in used' : u.sound
         /\ \A s \in Scope : nonces'[s] # None => \E u \in used' : u.scope = s
<1> DEFINE e == ev[w]
           x == Larger(now[w], e.when) + MaxAge + ClockSkew
<1>1. /\ e \in Event /\ e.sound /\ e.scope \in Scope /\ e.when \in Int
      /\ now[w] \in Int /\ since[w] \in Int /\ clock \in Int
      /\ since[w] <= clock /\ now[w] <= since[w] + Drift
  BY EventFields DEF IInv, TypeOK, Waiting, InTime
<1>2. x \in Int /\ e.when + MaxAge + ClockSkew <= x /\ now[w] <= x
  BY <1>1, ReplayAssumption DEF Larger
<1>3. \A s \in Scope : nonces[s] \in Int \cup {None}
  BY DEF IInv, TypeOK
<1>4. \A s \in Scope :
        nonces'[s] = IF s = e.scope /\ Wins(w)
                       THEN x
                       ELSE IF s # e.scope /\ ~Postgres /\ Expired(s, now[w])
                              THEN None
                              ELSE nonces[s]
  BY DEF Rows
<1>5. nonces' \in [Scope -> Int \cup {None}]
  BY <1>2, <1>3 DEF Rows
<1>6. used' \subseteq Event
  BY <1>1 DEF IInv, TypeOK
<1>7. Protected'
  <2> SUFFICES ASSUME NEW u \in used'
               PROVE  \/ /\ nonces'[u.scope] # None
                         /\ u.when + MaxAge + ClockSkew <= nonces'[u.scope]
                      \/ u.when + MaxAge + ClockSkew < clock + Drift
    BY DEF Protected
  <2>1. u \in Event /\ u.scope \in Scope /\ u.when \in Int
    BY <1>6, EventFields
  <2>2. CASE u = e /\ Wins(w)
    BY <1>1, <1>2, <1>4, <2>2, ReplayAssumption
  <2>3. CASE u \in used
    <3>1. CASE u.when + MaxAge + ClockSkew < clock + Drift
      BY <3>1
    <3>2. CASE /\ nonces[u.scope] # None
               /\ u.when + MaxAge + ClockSkew <= nonces[u.scope]
      <4>1. nonces[u.scope] \in Int
        BY <1>3, <2>1, <3>2
      <4>2. CASE u.scope = e.scope /\ Wins(w)
        <5>1. nonces[u.scope] < now[w]
          BY <3>2, <4>2 DEF Wins, Expired
        <5>2. nonces'[u.scope] = x
          BY <1>4, <2>1, <4>2
        <5> QED
          BY <1>1, <1>2, <2>1, <3>2, <4>1, <5>1, <5>2, ReplayAssumption
      <4>3. CASE u.scope # e.scope /\ ~Postgres /\ Expired(u.scope, now[w])
        BY <1>1, <2>1, <3>2, <4>1, <4>3, ReplayAssumption DEF Expired
      <4>4. CASE /\ ~(u.scope = e.scope /\ Wins(w))
                 /\ ~(u.scope # e.scope /\ ~Postgres /\ Expired(u.scope, now[w]))
        BY <1>4, <2>1, <3>2, <4>4
      <4> QED
        BY <4>2, <4>3, <4>4
    <3> QED
      BY <2>3, <3>1, <3>2 DEF IInv, Protected
  <2> QED
    BY <2>2, <2>3
<1>8. \A u \in used' : u.sound
  BY <1>1 DEF IInv, Traceable
<1>9. \A s \in Scope : nonces'[s] # None => \E u \in used' : u.scope = s
  <2> SUFFICES ASSUME NEW s \in Scope, nonces'[s] # None
               PROVE  \E u \in used' : u.scope = s
    OBVIOUS
  <2>1. CASE s = e.scope /\ Wins(w)
    BY <2>1
  <2>2. CASE ~(s = e.scope /\ Wins(w))
    BY <1>4, <2>2 DEF IInv, Traceable
  <2> QED
    BY <2>1, <2>2
<1> QED
  BY <1>5, <1>6, <1>7, <1>8, <1>9

-----------------------------------------------------------------------------
\* The invariant holds before the first request.
LEMMA InitInvariant == Init => IInv
<1> SUFFICES ASSUME Init PROVE IInv
  OBVIOUS
<1>1. TypeOK
  BY ReplayAssumption DEF Init, TypeOK
<1>2. Waiting /\ Protected /\ Traceable
  BY ReplayAssumption DEF Init, Waiting, Protected, Traceable, Verdict
<1>3. AcceptedOnce /\ ReplayVerdictIsTruthful
  BY ReplayAssumption DEF Init, AcceptedOnce, ReplayVerdictIsTruthful, Verdict
<1> QED
  BY <1>1, <1>2, <1>3 DEF IInv

\* What a step that only moves one handler's locals has to show of them.
LEMMA LocalStep ==
  ASSUME IInv, UNCHANGED <<nonces, world, used, accepts>>, TypeOK', Waiting',
         \A w \in Worker : ans'[w] = "replay" =>
           ans[w] = "replay" /\ pc'[w] = "reply" /\ ev'[w] = ev[w]
  PROVE  IInv'
<1>1. Protected' /\ AcceptedOnce'
  BY DEF IInv, Protected, AcceptedOnce, world
<1>2. Traceable' /\ ReplayVerdictIsTruthful'
  BY DEF IInv, Traceable, ReplayVerdictIsTruthful
<1> QED
  BY <1>1, <1>2 DEF IInv

\* Every step of every handler, of the operator and of time keeps it.
LEMMA NextInvariant == IInv /\ [Next]_vars => IInv'
<1> SUFFICES ASSUME IInv, [Next]_vars PROVE IInv'
  OBVIOUS
<1> USE DEF IInv
<1>1. ASSUME NEW w \in Worker, NEW e \in Event, NEW m \in Mode,
             NEW a \in BOOLEAN, NEW c \in BOOLEAN, Verify(w, e, m, a, c)
      PROVE  IInv'
  <2> PICK t \in Reading :
         \/ Return(w, "invalid") \/ Return(w, "valid")
         \/ /\ Passes(e, m, a, t) /\ (m = "acceptance" \/ c)
            /\ pc' = [pc EXCEPT ![w] = "consume"]
            /\ Hold(w, m, IF m = "acceptance" THEN a ELSE c, t, clock)
            /\ UNCHANGED ans
    <3>1. clock \in Reading
      BY ReplayAssumption DEF Reading, TypeOK
    <3> QED
      BY <1>1, <3>1 DEF Verify
  <2>1. t \in Int /\ clock - Drift <= t /\ t <= clock + Drift /\ clock \in Int
    BY ReplayAssumption DEF Reading, TypeOK
  <2>2. TypeOK'
    BY <1>1, <2>1 DEF Verify, TypeOK, Return, Verdict, world, Hold
  <2>3. Waiting'
    <3> SUFFICES ASSUME NEW v \in Worker, pc'[v] = "consume"
                 PROVE  /\ ev'[v] \in Event /\ ev'[v].sound /\ asked'[v] = TRUE
                        /\ mode'[v] \in {"archival", "acceptance"}
                        /\ now'[v] \in Int /\ since'[v] \in Int
                        /\ since'[v] <= clock'
                        /\ since'[v] - Drift <= now'[v]
                        /\ now'[v] <= since'[v] + Drift
                        /\ mode'[v] = "acceptance" =>
                             InWindow(ev'[v], now'[v]) /\ Live(ev'[v], now'[v])
      BY DEF Waiting, InWindow, Live
    <3>1. CASE v = w
      <4>1. Passes(e, m, a, t) /\ (m = "acceptance" \/ c)
        BY <3>1 DEF Return, TypeOK
      <4>2. /\ ev'[v] = e /\ mode'[v] = m /\ now'[v] = t /\ since'[v] = clock /\ clock' = clock
            /\ asked'[v] = IF m = "acceptance" THEN a ELSE c
        BY <1>1, <3>1 DEF Verify, TypeOK, world, Hold, Return
      <4>3. asked'[v] = TRUE
        BY <4>1, <4>2 DEF Passes
      <4> QED
        BY <2>1, <4>1, <4>2, <4>3 DEF Passes, Mode
    <3>2. CASE v # w
      <4>1. /\ pc[v] = "consume" /\ ev'[v] = ev[v] /\ mode'[v] = mode[v] /\ asked'[v] = asked[v]
            /\ now'[v] = now[v] /\ since'[v] = since[v] /\ clock' = clock
        BY <1>1, <3>2 DEF Verify, Return, TypeOK, world, Hold
      <4> QED
        BY <4>1 DEF Waiting
    <3> QED
      BY <3>1, <3>2
  <2>4. \A v \in Worker : ans'[v] = "replay" =>
          ans[v] = "replay" /\ pc'[v] = "reply" /\ ev'[v] = ev[v]
    <3> SUFFICES ASSUME NEW v \in Worker, ans'[v] = "replay"
                 PROVE  ans[v] = "replay" /\ pc'[v] = "reply" /\ ev'[v] = ev[v]
      OBVIOUS
    <3>1. ans[v] = "replay"
      BY DEF Return, TypeOK
    <3>2. v # w
      BY <1>1, <3>1 DEF Verify, Traceable
    <3> QED
      BY <1>1, <3>1, <3>2 DEF Verify, Return, TypeOK, Traceable
  <2>5. UNCHANGED <<nonces, world, used, accepts>>
    BY <1>1 DEF Verify
  <2> QED
    BY <2>2, <2>3, <2>4, <2>5, LocalStep
<1>2. ASSUME NEW w \in Worker, pc[w] # "idle", Settle(w),
             UNCHANGED <<nonces, world, used, accepts>>
      PROVE  IInv'
  <2>1. TypeOK'
    BY <1>2 DEF Settle, TypeOK, world, Hold
  <2>2. Waiting'
    BY <1>2 DEF Settle, TypeOK, Waiting, world, Hold
  <2>3. \A v \in Worker : ans'[v] = "replay" =>
          ans[v] = "replay" /\ pc'[v] = "reply" /\ ev'[v] = ev[v]
    BY <1>2, ReplayAssumption DEF Settle, TypeOK, Traceable, Verdict
  <2> QED
    BY <1>2, <2>1, <2>2, <2>3, LocalStep
<1>3. ASSUME NEW w \in Worker, Unavailable(w)
      PROVE  IInv'
  <2>1. TypeOK'
    BY <1>3 DEF Unavailable, Return, TypeOK, Verdict, world, Hold
  <2>2. Waiting'
    BY <1>3 DEF Unavailable, Return, TypeOK, Waiting, world, Hold
  <2>3. \A v \in Worker : ans'[v] = "replay" =>
          ans[v] = "replay" /\ pc'[v] = "reply" /\ ev'[v] = ev[v]
    BY <1>3 DEF Unavailable, Return, TypeOK, Traceable
  <2> QED
    BY <1>3, <2>1, <2>2, <2>3, LocalStep DEF Unavailable
\* Consume and LostCommit differ in the verdict and in what is counted.
<1>4. ASSUME NEW w \in Worker, InTime(w), nonces' = Rows(w),
             used' = IF Wins(w) THEN used \cup {ev[w]} ELSE used,
             UNCHANGED <<world, ev>>,
             NEW v \in Verdict, Return(w, v),
             v = "replay" => ~Wins(w),
             \/ UNCHANGED accepts
             \/ /\ Wins(w) /\ mode[w] = "acceptance"
                /\ accepts' = [accepts EXCEPT ![ev[w]] = @ + 1]
      PROVE  IInv'
  <2>1. /\ nonces' \in [Scope -> Int \cup {None}]
        /\ used' \subseteq Event /\ Protected'
        /\ \A u \in used' : u.sound
        /\ \A s \in Scope : nonces'[s] # None => \E u \in used' : u.scope = s
    BY <1>4, CommitKeepsRecords DEF world
  <2>2. pc[w] = "consume" /\ ev[w] \in Event /\ ev[w].scope \in Scope
    BY <1>4, EventFields DEF InTime, Waiting
  <2>3. accepts' \in [Event -> Nat]
    BY <1>4 DEF TypeOK
  <2>4. TypeOK'
    BY <1>4, <2>1, <2>3 DEF TypeOK, Return, world, Hold
  <2>5. Waiting'
    BY <1>4 DEF Waiting, Return, TypeOK, world, Hold
  <2>6. used \subseteq used'
    BY <1>4
  <2>7. AcceptedOnce' /\ \A e \in Event : accepts'[e] > 0 => e \in used'
    <3> SUFFICES ASSUME NEW e \in Event
                 PROVE  accepts'[e] <= 1 /\ (accepts'[e] > 0 => e \in used')
      BY DEF AcceptedOnce
    <3>1. CASE accepts' = accepts
      BY <2>6, <3>1 DEF AcceptedOnce, Traceable
    <3>2. CASE /\ Wins(w) /\ mode[w] = "acceptance"
               /\ accepts' = [accepts EXCEPT ![ev[w]] = @ + 1]
      <4>1. CASE e = ev[w]
        <5>1. e \notin used
          <6> SUFFICES ASSUME e \in used PROVE FALSE
            OBVIOUS
          <6>1. e.when < e.when
            BY <1>4, <3>2, <4>1, WinnerIsLater
          <6> QED
            BY <6>1, EventFields
        <5>2. accepts[e] = 0
          BY <5>1 DEF Traceable, TypeOK
        <5> QED
          BY <1>4, <3>2, <4>1, <5>2 DEF TypeOK
      <4>2. CASE e # ev[w]
        BY <2>6, <3>2, <4>2 DEF AcceptedOnce, Traceable, TypeOK
      <4> QED
        BY <4>1, <4>2
    <3> QED
      BY <1>4, <3>1, <3>2
  <2>8. \A x \in Worker : ans'[x] = "replay" => pc'[x] = "reply" /\ ev'[x] \in Event
    BY <1>4, <2>2 DEF Return, TypeOK, Traceable
  <2>9. ReplayVerdictIsTruthful'
    <3> SUFFICES ASSUME NEW x \in Worker, ans'[x] = "replay"
                 PROVE  \E u \in used' : u.scope = ev'[x].scope /\ u.sound
      BY DEF ReplayVerdictIsTruthful
    <3>1. CASE x = w
      <4>1. nonces[ev[w].scope] # None
        BY <1>4, <3>1 DEF Return, TypeOK, Wins
      <4> QED
        BY <1>4, <2>2, <2>6, <3>1, <4>1 DEF Traceable
    <3>2. CASE x # w
      BY <1>4, <2>6, <3>2 DEF Return, TypeOK, ReplayVerdictIsTruthful
    <3> QED
      BY <3>1, <3>2
  <2> QED
    BY <2>1, <2>4, <2>5, <2>7, <2>8, <2>9 DEF Traceable
<1>5. ASSUME NEW before \in Cutoff, Prune(before)
      PROVE  IInv'
  <2>1. before \in Int /\ before <= clock + Drift /\ clock \in Int
    BY <1>5, ReplayAssumption DEF Prune, Reading, Cutoff, TypeOK
  <2>2. TypeOK'
    BY <1>5 DEF Prune, handler, TypeOK, world
  <2>3. Waiting' /\ Traceable' /\ AcceptedOnce' /\ ReplayVerdictIsTruthful'
    BY <1>5 DEF Prune, handler, Waiting, Traceable, AcceptedOnce, ReplayVerdictIsTruthful, world
  <2>4. Protected'
    <3> SUFFICES ASSUME NEW u \in used
                 PROVE  \/ /\ nonces'[u.scope] # None
                           /\ u.when + MaxAge + ClockSkew <= nonces'[u.scope]
                        \/ u.when + MaxAge + ClockSkew < clock + Drift
      BY <1>5 DEF Prune, Protected, world
    <3>1. u.scope \in Scope /\ u.when \in Int
      BY EventFields DEF TypeOK
    <3>2. CASE u.when + MaxAge + ClockSkew < clock + Drift
      BY <3>2
    <3>3. CASE nonces[u.scope] # None /\ u.when + MaxAge + ClockSkew <= nonces[u.scope]
      <4>1. nonces[u.scope] \in Int
        BY <3>1, <3>3 DEF TypeOK
      <4>2. CASE Expired(u.scope, before)
        BY <2>1, <3>1, <3>3, <4>1, <4>2, ReplayAssumption DEF Expired
      <4>3. CASE ~Expired(u.scope, before)
        BY <1>5, <3>1, <3>3, <4>3 DEF Prune
      <4> QED
        BY <4>2, <4>3
    <3> QED
      BY <3>2, <3>3 DEF Protected
  <2> QED
    BY <2>2, <2>3, <2>4
<1>6. CASE Tick
  <2>1. clock \in Int /\ clock' = clock + 1 /\ TypeOK'
    BY <1>6, ReplayAssumption DEF Tick, handler, TypeOK
  <2>2. Waiting'
    BY <1>6, <2>1 DEF Tick, handler, Waiting
  <2>3. Protected'
    <3> SUFFICES ASSUME NEW u \in used
                 PROVE  \/ /\ nonces[u.scope] # None
                           /\ u.when + MaxAge + ClockSkew <= nonces[u.scope]
                        \/ u.when + MaxAge + ClockSkew < clock' + Drift
      BY <1>6 DEF Tick, Protected
    <3>1. u.when \in Int
      BY EventFields DEF TypeOK
    <3> QED
      BY <2>1, <3>1, ReplayAssumption DEF Protected
  <2>4. Traceable' /\ AcceptedOnce' /\ ReplayVerdictIsTruthful'
    BY <1>6 DEF Tick, handler, Traceable, AcceptedOnce, ReplayVerdictIsTruthful
  <2> QED
    BY <2>1, <2>2, <2>3, <2>4
<1>7. CASE UNCHANGED vars
  <2>1. TypeOK' /\ Waiting' /\ Protected'
    BY <1>7 DEF vars, TypeOK, Waiting, Protected
  <2>2. Traceable' /\ AcceptedOnce' /\ ReplayVerdictIsTruthful'
    BY <1>7 DEF vars, Traceable, AcceptedOnce, ReplayVerdictIsTruthful
  <2> QED
    BY <2>1, <2>2
<1>8. ASSUME NEW w \in Worker, Consume(w)
      PROVE  IInv'
  <2>1. CASE Wins(w)
    BY <1>4, <1>8, <2>1 DEF Consume, Verdict
  <2>2. CASE ~Wins(w)
    BY <1>4, <1>8, <2>2 DEF Consume, Verdict
  <2> QED
    BY <2>1, <2>2
<1>9. ASSUME NEW w \in Worker, LostCommit(w)
      PROVE  IInv'
  BY <1>4, <1>9 DEF LostCommit, Verdict
<1>10. ASSUME NEW w \in Worker, Deliver(w) \/ Vanish(w)
       PROVE  IInv'
  BY <1>2, <1>10 DEF Deliver, Vanish
<1> QED
  BY <1>1, <1>3, <1>5, <1>6, <1>7, <1>8, <1>9, <1>10 DEF Next

-----------------------------------------------------------------------------
\* The inductive invariant of validate_event and consume_nonce.
THEOREM Invariance == Spec => []IInv
BY InitInvariant, NextInvariant, PTL DEF Spec

\* Every variable keeps its type.
THEOREM TypeCorrect == Spec => []TypeOK
<1>1. IInv => TypeOK
  BY DEF IInv
<1> QED
  BY <1>1, Invariance, PTL

\* No event is accepted twice by validate_event, for any number of workers
\* and hosts, while calls and clock errors stay within CLOCK_SKEW_SECONDS.
THEOREM NoDoubleAcceptance == Spec => []AcceptedOnce
<1>1. IInv => AcceptedOnce
  BY DEF IInv
<1> QED
  BY <1>1, Invariance, PTL

\* ERR_NONCE_REPLAY is only said of a nonce a sound event consumed.
THEOREM ReplayVerdicts == Spec => []ReplayVerdictIsTruthful
<1>1. IInv => ReplayVerdictIsTruthful
  BY DEF IInv
<1> QED
  BY <1>1, Invariance, PTL

\* consume_nonce's deletions and prune_nonces never drop a record whose event
\* could still pass the acceptance window of some host.
THEOREM RecordsOutliveWindows == Spec => []RecordOutlivesWindow
<1>1. IInv => RecordOutlivesWindow
  <2> SUFFICES ASSUME IInv, NEW u \in used,
                      clock - Stall - Drift <= u.when + MaxAge
               PROVE  /\ nonces[u.scope] # None
                      /\ nonces[u.scope] >= u.when + MaxAge + ClockSkew
    BY DEF RecordOutlivesWindow
  <2>1. u.when \in Int /\ u.scope \in Scope /\ clock \in Int
    BY EventFields DEF IInv, TypeOK
  <2>2. ~(u.when + MaxAge + ClockSkew < clock + Drift)
    BY <2>1, ReplayAssumption, SkewCoversDelay
  <2>3. /\ nonces[u.scope] # None
        /\ u.when + MaxAge + ClockSkew <= nonces[u.scope]
    BY <2>2 DEF IInv, Protected
  <2>4. nonces[u.scope] \in Int
    BY <2>1, <2>3 DEF IInv, TypeOK
  <2> QED
    BY <2>1, <2>3, <2>4, ReplayAssumption
<1> QED
  BY <1>1, Invariance, PTL

\* In a scope, acceptance only ever moves forward in time: a nonce that any
\* mode consumed is never accepted again for the same or an earlier event.
THEOREM AcceptanceMovesForward == Spec => AcceptsOnlyLaterEvents
<1>1. IInv /\ [Next]_vars =>
        [\A e \in Event : accepts'[e] # accepts[e] =>
           \A u \in used : u.scope = e.scope => u.when < e.when]_vars
  <2> SUFFICES ASSUME IInv, [Next]_vars, NEW e \in Event, accepts'[e] # accepts[e],
                      NEW u \in used, u.scope = e.scope
               PROVE  u.when < e.when
    OBVIOUS
  <2>1. PICK w \in Worker : Consume(w) /\ accepts' # accepts
    BY DEF Next, vars, Verify, Deliver, Unavailable, LostCommit, Vanish, Prune, Tick
  <2>2. /\ InTime(w) /\ Wins(w) /\ mode[w] = "acceptance"
        /\ accepts' = [accepts EXCEPT ![ev[w]] = @ + 1]
    BY <2>1 DEF Consume
  <2>3. e = ev[w]
    BY <2>2 DEF IInv, TypeOK
  <2> QED
    BY <2>2, <2>3, WinnerIsLater
<1> QED
  BY <1>1, Invariance, PTL DEF Spec, AcceptsOnlyLaterEvents

\* No failed check poisons a nonce: whatever record is written, over none or
\* over an expired one, is of a sound event that its caller asks to consume,
\* in acceptance mode not later than a call and a clock's error after its
\* window and its TTL.
THEOREM ChecksComeFirst == Spec => ConsumesOnlyChecked
<1>1. IInv /\ [Next]_vars =>
        [\A s \in Scope : nonces'[s] \notin {nonces[s], None} =>
           \E w \in Worker :
             pc[w] = "consume" /\ pc'[w] = "reply" /\ ev[w].scope = s /\ MayConsume(w, clock)]_vars
  <2> SUFFICES ASSUME IInv, [Next]_vars, NEW s \in Scope, nonces'[s] # nonces[s], nonces'[s] # None
               PROVE  \E w \in Worker :
                        /\ pc[w] = "consume" /\ pc'[w] = "reply"
                        /\ ev[w].scope = s /\ MayConsume(w, clock)
    OBVIOUS
  <2>1. PICK w \in Worker : Consume(w) \/ LostCommit(w)
    BY DEF Next, vars, Verify, Deliver, Unavailable, Vanish, Prune, Tick
  <2>2. InTime(w) /\ nonces' = Rows(w) /\ pc' = [pc EXCEPT ![w] = "reply"]
    BY <2>1 DEF Consume, LostCommit, Return
  <2>3. pc[w] = "consume" /\ pc'[w] = "reply"
    BY <2>2 DEF InTime, IInv, TypeOK
  <2>4. ev[w].scope = s
    BY <2>2 DEF Rows
  <2>5. /\ ev[w].sound /\ asked[w] = TRUE
        /\ now[w] \in Int /\ since[w] \in Int /\ clock \in Int
        /\ since[w] <= clock /\ clock <= since[w] + Stall
        /\ since[w] - Drift <= now[w] /\ now[w] <= since[w] + Drift
        /\ mode[w] = "acceptance" => InWindow(ev[w], now[w]) /\ Live(ev[w], now[w])
    BY <2>2, <2>3 DEF IInv, TypeOK, Waiting, InTime
  <2>6. now[w] \in (clock - Stall - Drift) .. (clock + Drift)
    BY <2>5, ReplayAssumption
  <2> QED
    BY <2>3, <2>4, <2>5, <2>6 DEF MayConsume
<1> QED
  BY <1>1, Invariance, PTL DEF Spec, ConsumesOnlyChecked
-----------------------------------------------------------------------------
PerWorker(f) == f = [w \in Worker |-> f[w]]

\* PostgreSQL without prune_nonces: no record is ever dropped, and one that is
\* overwritten becomes a later one.
Recorded ==
  /\ nonces \in [Scope -> Int \cup {None}]
  /\ used \subseteq Event /\ accepts \in [Event -> Nat]
  /\ PerWorker(pc) /\ PerWorker(ev) /\ PerWorker(mode) /\ PerWorker(now)
  /\ \A w \in Worker : pc[w] = "consume" =>
       /\ ev[w] \in Event /\ now[w] \in Int
       /\ mode[w] = "acceptance" => now[w] - MaxAge <= ev[w].when
  /\ \A u \in used : nonces[u.scope] # None /\ u.when + MaxAge + ClockSkew <= nonces[u.scope]
  /\ \A e \in Event : accepts[e] > 0 => e \in used
  /\ AcceptedOnce

\* A record that has expired for a reading is older than what passes on it.
LEMMA ExpiredIsOlder ==
  ASSUME Recorded, NEW w \in Worker, pc[w] = "consume", Wins(w), mode[w] = "acceptance",
         NEW u \in used, u.scope = ev[w].scope
  PROVE  u.when < ev[w].when
<1>1. /\ u \in Event /\ ev[w] \in Event /\ now[w] \in Int
      /\ now[w] - MaxAge <= ev[w].when
  BY DEF Recorded
<1>2. u.when \in Int /\ ev[w].when \in Int /\ u.scope \in Scope
  BY <1>1, EventFields
<1>3. /\ nonces[u.scope] \in Int /\ nonces[u.scope] < now[w]
      /\ u.when + MaxAge + ClockSkew <= nonces[u.scope]
  BY <1>2 DEF Recorded, Wins, Expired
<1> QED
  BY <1>1, <1>2, <1>3, ReplayAssumption

LEMMA CommitRecords ==
  ASSUME Recorded, Postgres, NEW w \in Worker, pc[w] = "consume", nonces' = Rows(w)
  PROVE  /\ nonces' \in [Scope -> Int \cup {None}]
         /\ \A u \in used \cup (IF Wins(w) THEN {ev[w]} ELSE {}) :
              nonces'[u.scope] # None /\ u.when + MaxAge + ClockSkew <= nonces'[u.scope]
<1> DEFINE e == ev[w]
           x == Larger(now[w], e.when) + MaxAge + ClockSkew
<1>1. e \in Event /\ e.scope \in Scope /\ e.when \in Int /\ now[w] \in Int
  BY EventFields DEF Recorded
<1>2. x \in Int /\ e.when + MaxAge + ClockSkew <= x /\ now[w] <= x /\ x # None
  BY <1>1, ReplayAssumption DEF Larger
<1>3. \A s \in Scope : nonces'[s] = IF s = e.scope /\ Wins(w) THEN x ELSE nonces[s]
  BY DEF Rows
<1>4. \A s \in Scope : nonces[s] \in Int \cup {None}
  BY DEF Recorded
<1>5. nonces' \in [Scope -> Int \cup {None}]
  BY <1>2, <1>3, <1>4 DEF Rows
<1> HIDE DEF e, x
<1>6. ASSUME NEW u \in used
      PROVE  nonces'[u.scope] # None /\ u.when + MaxAge + ClockSkew <= nonces'[u.scope]
  <2>1. u.scope \in Scope /\ u.when \in Int
    BY EventFields DEF Recorded
  <2>2. nonces[u.scope] \in Int /\ u.when + MaxAge + ClockSkew <= nonces[u.scope]
    BY <1>4, <2>1 DEF Recorded
  <2>3. CASE u.scope = e.scope /\ Wins(w)
    <3>1. nonces[u.scope] < now[w]
      BY <2>2, <2>3, ReplayAssumption DEF Wins, Expired, e
    <3> QED
      BY <1>1, <1>2, <1>3, <2>1, <2>2, <2>3, <3>1, ReplayAssumption
  <2>4. CASE ~(u.scope = e.scope /\ Wins(w))
    BY <1>3, <2>1, <2>2, <2>4, ReplayAssumption
  <2> QED
    BY <2>3, <2>4
<1>7. ASSUME Wins(w)
      PROVE  nonces'[e.scope] # None /\ e.when + MaxAge + ClockSkew <= nonces'[e.scope]
  BY <1>1, <1>2, <1>3, <1>7
<1> QED
  BY <1>5, <1>6, <1>7 DEF e

LEMMA RecordedStep ==
  ASSUME Recorded, Postgres, [Next]_vars, \A before \in Cutoff : ~Prune(before) \/ UNCHANGED vars
  PROVE  /\ Recorded'
         /\ \A e \in Event : accepts'[e] # accepts[e] =>
              \A u \in used : u.scope = e.scope => u.when < e.when
<1> DEFINE Forward ==
      \A e \in Event : accepts'[e] # accepts[e] =>
        \A u \in used : u.scope = e.scope => u.when < e.when
\* Steps of one handler's locals.
<1>1. ASSUME UNCHANGED <<nonces, used, accepts>>,
             PerWorker(pc') /\ PerWorker(ev') /\ PerWorker(mode') /\ PerWorker(now'),
             \A v \in Worker : pc'[v] = "consume" =>
               /\ ev'[v] \in Event /\ now'[v] \in Int
               /\ mode'[v] = "acceptance" => now'[v] - MaxAge <= ev'[v].when
      PROVE  Recorded' /\ Forward
  BY <1>1 DEF Recorded, AcceptedOnce
<1>2. ASSUME NEW w \in Worker, NEW e \in Event, NEW m \in Mode,
             NEW a \in BOOLEAN, NEW c \in BOOLEAN, Verify(w, e, m, a, c)
      PROVE  Recorded' /\ Forward
  <2>2. PerWorker(pc') /\ PerWorker(ev') /\ PerWorker(mode') /\ PerWorker(now')
    BY <1>2 DEF Verify, Recorded, Return, Hold, PerWorker
  <2>3. ASSUME NEW v \in Worker, pc'[v] = "consume"
        PROVE  /\ ev'[v] \in Event /\ now'[v] \in Int
               /\ mode'[v] = "acceptance" => now'[v] - MaxAge <= ev'[v].when
    <3>1. CASE v = w
      <4>1. ~Return(w, "invalid") /\ ~Return(w, "valid")
        BY <2>3, <3>1 DEF Recorded, Return, PerWorker
      <4>2. PICK t \in Reading :
              /\ Passes(e, m, a, t)
              /\ Hold(w, m, IF m = "acceptance" THEN a ELSE c, t, clock)
        BY <1>2, <4>1 DEF Verify
      <4>3. ev'[v] = e /\ mode'[v] = m /\ now'[v] = t /\ t \in Int
        BY <1>2, <3>1, <4>2 DEF Verify, Recorded, Hold, PerWorker, Reading
      <4> QED
        BY <4>2, <4>3 DEF Passes, InWindow
    <3>2. CASE v # w
      BY <1>2, <2>3, <3>2 DEF Verify, Recorded, Return, Hold, PerWorker
    <3> QED
      BY <3>1, <3>2
  <2> QED
    BY <1>1, <1>2, <2>2, <2>3 DEF Verify
<1>3. ASSUME NEW w \in Worker, Deliver(w) \/ Vanish(w) \/ Unavailable(w)
      PROVE  Recorded' /\ Forward
  <2>1. /\ UNCHANGED <<nonces, used, accepts>>
        /\ PerWorker(pc') /\ PerWorker(ev') /\ PerWorker(mode') /\ PerWorker(now')
        /\ pc'[w] # "consume"
        /\ \A v \in Worker \ {w} :
             pc'[v] = pc[v] /\ ev'[v] = ev[v] /\ mode'[v] = mode[v] /\ now'[v] = now[v]
    BY <1>3 DEF Deliver, Vanish, Unavailable, Settle, Return, Hold, Recorded, PerWorker
  <2> QED
    BY <1>1, <2>1 DEF Recorded
<1>4. ASSUME NEW w \in Worker, Consume(w) \/ LostCommit(w)
      PROVE  Recorded' /\ Forward
  <2>1. /\ pc[w] = "consume" /\ nonces' = Rows(w)
        /\ used' = IF Wins(w) THEN used \cup {ev[w]} ELSE used
        /\ \/ UNCHANGED accepts
           \/ /\ Wins(w) /\ mode[w] = "acceptance"
              /\ accepts' = [accepts EXCEPT ![ev[w]] = @ + 1]
    BY <1>4 DEF Consume, LostCommit, InTime
  <2>2. /\ PerWorker(pc') /\ PerWorker(ev') /\ PerWorker(mode') /\ PerWorker(now')
        /\ pc'[w] # "consume"
        /\ \A v \in Worker \ {w} :
             pc'[v] = pc[v] /\ ev'[v] = ev[v] /\ mode'[v] = mode[v] /\ now'[v] = now[v]
    BY <1>4 DEF Consume, LostCommit, Return, Hold, Recorded, PerWorker
  <2>3. /\ nonces' \in [Scope -> Int \cup {None}]
        /\ \A u \in used' : nonces'[u.scope] # None /\ u.when + MaxAge + ClockSkew <= nonces'[u.scope]
    BY <2>1, CommitRecords
  <2>4. ev[w] \in Event /\ used' \subseteq Event /\ used \subseteq used'
    BY <2>1 DEF Recorded
  <2>5. ASSUME NEW e \in Event, accepts'[e] # accepts[e]
        PROVE  /\ e = ev[w] /\ Wins(w) /\ mode[w] = "acceptance"
               /\ accepts'[e] = accepts[e] + 1
    BY <2>1, <2>5 DEF Recorded
  <2>6. Forward
    BY <2>1, <2>5, ExpiredIsOlder
  <2>7. ASSUME NEW e \in Event, accepts'[e] # accepts[e]  PROVE accepts[e] = 0
    <3>1. e \notin used
      BY <2>6, <2>7, EventFields
    <3> QED
      BY <3>1 DEF Recorded
  <2>8. \A e \in Event : accepts'[e] <= 1 /\ (accepts'[e] > 0 => e \in used')
    BY <2>1, <2>4, <2>5, <2>7 DEF Recorded, AcceptedOnce
  <2>9. accepts' \in [Event -> Nat]
    BY <2>1 DEF Recorded
  <2> QED
    BY <2>2, <2>3, <2>4, <2>6, <2>8, <2>9 DEF Recorded, AcceptedOnce
<1>5. CASE Tick \/ UNCHANGED vars
  BY <1>1, <1>5 DEF Tick, vars, handler, Recorded, PerWorker
<1> QED
  BY <1>2, <1>3, <1>4, <1>5 DEF Next

\* Where records are only overwritten, in PostgreSQL that nobody prunes, one
\* clock decides both the window and the expiry: no event is accepted twice
\* however far the hosts' clocks are apart, however long a call takes and
\* whatever CLOCK_SKEW_SECONDS is.  (SkewCoversDelay is not used.)
THEOREM UnprunedNeedsNoSkew ==
  Spec /\ []Postgres /\ [][\A before \in Cutoff : ~Prune(before)]_vars
    => []AcceptedOnce /\ AcceptsOnlyLaterEvents
<1>1. Init => Recorded
  BY ReplayAssumption DEF Init, Recorded, AcceptedOnce, PerWorker
<1>2. /\ Recorded /\ Postgres /\ [Next]_vars /\ [\A before \in Cutoff : ~Prune(before)]_vars
      => /\ Recorded'
         /\ [\A e \in Event : accepts'[e] # accepts[e] =>
               \A u \in used : u.scope = e.scope => u.when < e.when]_vars
  BY RecordedStep
<1>3. Recorded => AcceptedOnce
  BY DEF Recorded
<1> QED
  BY <1>1, <1>2, <1>3, PTL DEF Spec, AcceptsOnlyLaterEvents
=============================================================================
