--------------------------- MODULE CreationPromise ---------------------------
(***************************************************************************)
(* What POST /v0.7/events/create promises its callers, without workers,    *)
(* statements or failures: a creation identity is bound once, the bound    *)
(* artifact is stored in the same instant, and from then on every answer   *)
(* about that identity is about that artifact.  Creation.tla is shown to   *)
(* implement this module.                                                  *)
(***************************************************************************)
CONSTANTS
  Request,      \* creation request bodies
  Key,          \* creation identities, the digests of (who, id)
  KeyOf,        \* KeyOf[r]: the identity request r names, or NoKey
  NoKey,        \* the request has no caller-chosen id
  Artifact,     \* signed events, each with the request it was made for
  None          \* no row, no artifact

VARIABLES
  bound,        \* bound[k]: the request and artifact identity k stands for
  stored,       \* the artifacts of the event store
  told          \* the answers callers have received; refusals promise nothing

vars == <<bound, stored, told>>

Init ==
  /\ bound = [k \in Key |-> None]
  /\ stored = {}
  /\ told = {}

Tell(r, status, a) ==
  told' = told \cup {[req |-> r, status |-> status, art |-> a]}

\* A free identity is bound and its artifact stored, together.
Bind(r, a) ==
  /\ KeyOf[r] # NoKey
  /\ bound[KeyOf[r]] = None
  /\ a.req = r
  /\ bound' = [bound EXCEPT ![KeyOf[r]] = [req |-> r, art |-> a]]
  /\ stored' = stored \cup {a}
  /\ UNCHANGED told

\* Without a caller-chosen id every successful creation is a new event.
Store(a) ==
  /\ KeyOf[a.req] = NoKey
  /\ stored' = stored \cup {a}
  /\ UNCHANGED <<bound, told>>

\* 200: the artifact the identity stands for, or a stored anonymous one.
TellCreated(r, a) ==
  /\ IF KeyOf[r] = NoKey
       THEN a \in stored /\ a.req = r
       ELSE bound[KeyOf[r]] = [req |-> r, art |-> a]
  /\ Tell(r, 200, a)
  /\ UNCHANGED <<bound, stored>>

\* 409: the identity stands for another request.
TellConflict(r) ==
  /\ KeyOf[r] # NoKey
  /\ bound[KeyOf[r]] # None
  /\ bound[KeyOf[r]].req # r
  /\ Tell(r, 409, None)
  /\ UNCHANGED <<bound, stored>>

Next ==
  \/ \E r \in Request, a \in Artifact : Bind(r, a) \/ TellCreated(r, a)
  \/ \E a \in Artifact : Store(a)
  \/ \E r \in Request : TellConflict(r)

Spec == Init /\ [][Next]_vars
=============================================================================
