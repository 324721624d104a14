----------------------------- MODULE KeyHistory -----------------------------
(***************************************************************************)
(* Signing keys and the public key history (keys.py, KeyManager; state.py, *)
(* signing_key and register_public_key): processes that start, take key    *)
(* snapshots for requests and health checks, and sign, over one registry.  *)
(* A key file is replaced, or a Vault rotated, at any time; a snapshot     *)
(* registers its keys one by one, each in a transaction of its own.        *)
(***************************************************************************)
EXTENDS Naturals, Sequences

CONSTANTS
  Worker,       \* API processes, each with one call under way
  Place,        \* where key configurations are kept: key files and Vaults
  Local,        \* neither: the state directory's own key
  Deployment,   \* ways of configuring the processes, see DeploymentForm
  Config,       \* configurations found at a place, see ConfigForm
  Kid, Material,
  Generated,    \* what Ed25519PrivateKey.generate() can return
  DemoKid,      \* did:example:jep-api#key-1
  None

\* A key entry as snapshot sees it.  "sound": its own checks pass (key type,
\* encoding, private part matches public part, key_ops); "private": it has
\* a d member.
Entry      == [kid : Kid, mat : Material, sound : BOOLEAN, private : BOOLEAN]
ConfigForm == [active : Kid, keys : Seq(Entry)]
Signature  == [kid : Kid, mat : Material, from : ConfigForm]

\* home[w] is the place w is configured with, or Local; vault the places
\* that are Vaults; postgres tells PostgresState from LocalState.
DeploymentForm ==
  [home : [Worker -> Place \cup {Local}], vault : SUBSET Place, postgres : BOOLEAN]

ASSUME KeyHistoryAssumption ==
  /\ Config \subseteq ConfigForm
  /\ Local \notin Place
  /\ Deployment \subseteq DeploymentForm
  /\ \A d \in Deployment : d.postgres =>   \* startup refuses it otherwise
       \A w \in Worker : d.home[w] # Local
  /\ DemoKid \in Kid /\ Generated \subseteq Material
  /\ None \notin Material /\ None \notin ConfigForm

VARIABLES
  deployment,   \* the environment of the processes, fixed at startup
  registry,     \* public_keys: registry[k] is the key material of kid k
  seed,         \* signing_keys: the state directory's own key
  source,       \* source[p]: the configuration now at place p
  pc,           \* where each process stands
  job,          \* what its snapshot is for: "boot", "probe" or "sign"
  pinned,       \* KeyManager.local
  conf,         \* the configuration its snapshot has read
  nth,          \* the entry of it that comes next
  signed        \* history: the signatures made, and from which configuration

local == <<pc, job, pinned, conf, nth>>
vars  == <<deployment, registry, seed, source, pc, job, pinned, conf, nth, signed>>

Home     == deployment.home
Vault    == deployment.vault
Postgres == deployment.postgres

\* What is to be found at a place: a Vault lists each version once, and
\* keeps its private key.
Kept(p) ==
  IF p \notin Vault THEN Config
  ELSE {c \in Config : \A n \in DOMAIN c.keys :
          /\ c.keys[n].sound /\ c.keys[n].private
          /\ \A i \in DOMAIN c.keys : c.keys[i].kid = c.keys[n].kid => i = n}

Init ==
  /\ deployment \in Deployment
  /\ registry = [k \in Kid |-> None] /\ seed = None
  /\ source \in [Place -> Config] /\ \A p \in Place : source[p] \in Kept(p)
  /\ pc = [w \in Worker |-> "down"]
  /\ job = [w \in Worker |-> None]
  /\ pinned = [w \in Worker |-> None]
  /\ conf = [w \in Worker |-> None]
  /\ nth = [w \in Worker |-> 1]
  /\ signed = {}

At(w, here) == pc[w] = here
Goto(w, to) == pc' = [pc EXCEPT ![w] = to]
EntryOf(w)  == conf[w].keys[nth[w]]
More(w)     == nth[w] <= Len(conf[w].keys)

\* The call is over; a process whose first snapshot fails does not start.
End(w, to) ==
  /\ Goto(w, to)
  /\ conf' = [conf EXCEPT ![w] = None]
  /\ nth' = [nth EXCEPT ![w] = 1]
  /\ job' = [job EXCEPT ![w] = None]
  /\ UNCHANGED pinned

\* KeyUnavailable.
Refuse(w) == End(w, IF job[w] = "boot" THEN "down" ELSE "idle")

Proceed(w) ==
  /\ Goto(w, "keys")
  /\ nth' = [nth EXCEPT ![w] = @ + 1]
  /\ UNCHANGED <<job, pinned, conf>>

-----------------------------------------------------------------------------
\* Mutant: each start generates a key of its own.
OwnKeyUnshared(m) == seed' = m

\* LocalState.signing_key, one immediate transaction: the key that is there,
\* or a new one.
OwnKey(m) ==
  /\ seed # None => m = seed
  /\ seed' = m

\* KeyManager.__init__ up to its snapshot.
Boot(w) ==
  /\ At(w, "down")
  /\ Goto(w, "read")
  /\ job' = [job EXCEPT ![w] = "boot"]
  /\ IF Home[w] = Local
       THEN \E m \in Generated : OwnKey(m) /\ pinned' = [pinned EXCEPT ![w] = m]
       ELSE UNCHANGED <<seed, pinned>>
  /\ UNCHANGED <<deployment, registry, source, conf, nth, signed>>

\* A request that signs, or one to / or /health.
Call(w, j) ==
  /\ At(w, "idle")
  /\ Goto(w, "read")
  /\ job' = [job EXCEPT ![w] = j]
  /\ UNCHANGED <<deployment, registry, seed, source, pinned, conf, nth, signed>>

OwnConfig(m) ==
  [active |-> DemoKid,
   keys |-> <<[kid |-> DemoKid, mat |-> m, sound |-> TRUE, private |-> TRUE]>>]

\* The key file or the Vault's key metadata, in one reading.
Read(w) ==
  /\ At(w, "read")
  /\ Goto(w, "keys")
  /\ conf' = [conf EXCEPT ![w] =
                IF Home[w] = Local THEN OwnConfig(pinned[w]) ELSE source[Home[w]]]
  /\ UNCHANGED <<deployment, registry, seed, source, job, pinned, nth, signed>>

\* The checks of an entry, of which a kid seen before is one.
Admissible(w) ==
  /\ EntryOf(w).sound
  /\ \A n \in 1 .. nth[w] - 1 : conf[w].keys[n].kid # EntryOf(w).kid

Reject(w) ==
  /\ At(w, "keys") /\ More(w) /\ ~Admissible(w)
  /\ Refuse(w)
  /\ UNCHANGED <<deployment, registry, seed, source, signed>>

\* Mutant: the private part is registered with the key.
BindWhole(w) == registry' = [registry EXCEPT ![EntryOf(w).kid] = EntryOf(w)]

Bind(w) == registry' = [registry EXCEPT ![EntryOf(w).kid] = EntryOf(w).mat]

\* Mutant: INSERT fails where there is a row.
CompareRefuses(w) == Refuse(w) /\ UNCHANGED registry

\* A kid that is bound must be bound to this very key.
Compare(w) ==
  /\ IF registry[EntryOf(w).kid] = EntryOf(w).mat THEN Proceed(w) ELSE Refuse(w)
  /\ UNCHANGED registry

\* LocalState.register_public_key: the INSERT takes the write lock.
Register(w) ==
  /\ ~Postgres /\ At(w, "keys") /\ More(w) /\ Admissible(w)
  /\ IF registry[EntryOf(w).kid] = None THEN Bind(w) /\ Proceed(w) ELSE Compare(w)
  /\ UNCHANGED <<deployment, seed, source, signed>>

\* PostgresState.register_public_key: INSERT waits for another transaction's
\* uncommitted row under the same kid.
HoldsKid(v, k) == pc[v] = "held" /\ EntryOf(v).kid = k

\* Mutant: no unique key, so INSERT neither waits nor conflicts.
PgInsertBlind(w) ==
  /\ Postgres /\ At(w, "keys") /\ More(w) /\ Admissible(w)
  /\ Goto(w, "held")
  /\ UNCHANGED <<deployment, registry, seed, source, job, pinned, conf, nth, signed>>

PgInsert(w) ==
  /\ Postgres /\ At(w, "keys") /\ More(w) /\ Admissible(w)
  /\ \A v \in Worker : ~HoldsKid(v, EntryOf(w).kid)
  /\ IF registry[EntryOf(w).kid] = None
       THEN Goto(w, "held") /\ UNCHANGED <<registry, job, pinned, conf, nth>>
       ELSE Compare(w)
  /\ UNCHANGED <<deployment, seed, source, signed>>

PgCommit(w) ==
  /\ At(w, "held")
  /\ Bind(w) /\ Proceed(w)
  /\ UNCHANGED <<deployment, seed, source, signed>>

\* The entries whose private part signs for kid k.
Signers(c, k) ==
  {c.keys[n].mat : n \in {i \in DOMAIN c.keys : c.keys[i].kid = k /\ c.keys[i].private}}

\* All keys are registered: the active one must be able to sign.
Finish(w) ==
  /\ At(w, "keys") /\ ~More(w)
  /\ IF Signers(conf[w], conf[w].active) = {} THEN Refuse(w)
     ELSE IF job[w] = "sign" THEN Goto(w, "sign") /\ UNCHANGED <<job, pinned, conf, nth>>
     ELSE End(w, "idle")
  /\ UNCHANGED <<deployment, registry, seed, source, signed>>

Produce(w, m) ==
  signed' = signed \cup {[kid |-> conf[w].active, mat |-> m, from |-> conf[w]]}

\* The private key the snapshot holds in memory.
Sign(w) ==
  /\ At(w, "sign") /\ Home[w] \notin Vault
  /\ \E m \in Signers(conf[w], conf[w].active) : Produce(w, m)
  /\ End(w, "idle")
  /\ UNCHANGED <<deployment, registry, seed, source>>

\* Mutant: the answer is not verified against the registered key.
VaultSignUnverified(w) ==
  /\ At(w, "sign") /\ Home[w] \in Vault
  /\ \E m \in Signers(source[Home[w]], conf[w].active) : Produce(w, m)
  /\ End(w, "idle")
  /\ UNCHANGED <<deployment, registry, seed, source>>

\* Vault signs with what it now holds as the pinned version, and the answer
\* is verified under the registered key.
VaultSign(w) ==
  /\ At(w, "sign") /\ Home[w] \in Vault
  /\ \/ /\ registry[conf[w].active] \in Signers(source[Home[w]], conf[w].active)
        /\ Produce(w, registry[conf[w].active])
     \/ /\ registry[conf[w].active] \notin Signers(source[Home[w]], conf[w].active)
        /\ UNCHANGED signed
  /\ End(w, "idle")
  /\ UNCHANGED <<deployment, registry, seed, source>>

-----------------------------------------------------------------------------
\* File, Vault or database fail, or give up waiting: KeyUnavailable.  What a
\* snapshot has registered so far stays registered.
Unavailable(w) ==
  /\ pc[w] \in {"read", "keys", "held", "sign"}
  /\ Home[w] \notin Vault => ~At(w, "sign")
  /\ Refuse(w)
  /\ UNCHANGED <<deployment, registry, seed, source, signed>>

\* A registration is committed and its connection dies.
LostCommit(w) ==
  /\ \/ At(w, "held")
     \/ ~Postgres /\ At(w, "keys") /\ More(w) /\ Admissible(w) /\ registry[EntryOf(w).kid] = None
  /\ Bind(w) /\ Refuse(w)
  /\ UNCHANGED <<deployment, seed, source, signed>>

Crash(w) ==
  /\ ~At(w, "down")
  /\ Goto(w, "down")
  /\ pinned' = [pinned EXCEPT ![w] = None]
  /\ conf' = [conf EXCEPT ![w] = None]
  /\ nth' = [nth EXCEPT ![w] = 1]
  /\ job' = [job EXCEPT ![w] = None]
  /\ UNCHANGED <<deployment, registry, seed, source, signed>>

\* The operator replaces the key file as a whole; a Vault key is rotated, or
\* deleted and created anew.
Reconfigure(p, c) ==
  /\ c \in Kept(p)
  /\ \E w \in Worker : Home[w] = p
  /\ source' = [source EXCEPT ![p] = c]
  /\ UNCHANGED <<deployment, registry, seed, local, signed>>

Step(w) ==
  \/ Read(w) \/ Reject(w) \/ Register(w) \/ PgInsert(w) \/ PgCommit(w)
  \/ Finish(w) \/ Sign(w) \/ VaultSign(w)

Fault(w) == Unavailable(w) \/ LostCommit(w) \/ Crash(w)

Next ==
  \/ \E w \in Worker :
       Boot(w) \/ (\E j \in {"probe", "sign"} : Call(w, j)) \/ Step(w) \/ Fault(w)
  \/ \E p \in Place, c \in Config : Reconfigure(p, c)

Spec == Init /\ [][Next]_vars

\* Each call of the file system, of Vault (ten seconds) and of the database
\* (ten seconds) ends; nothing is assumed of callers, operators or crashes.
FairSpec == Spec /\ \A w \in Worker : WF_vars(Step(w) \/ Unavailable(w))

-----------------------------------------------------------------------------
(* Properties.                                                             *)

\* Every variable holds what KeyManager and its tables can hold.
TypeOK ==
  /\ deployment \in Deployment
  /\ registry \in [Kid -> Material \cup {None}]
  /\ seed \in Generated \cup {None}
  /\ source \in [Place -> Config]
  /\ pc \in [Worker -> {"down", "idle", "read", "keys", "held", "sign"}]
  /\ job \in [Worker -> {"boot", "probe", "sign", None}]
  /\ pinned \in [Worker -> Generated \cup {None}]
  /\ conf \in [Worker -> ConfigForm \cup {None}]
  /\ nth \in [Worker -> Nat \ {0}]
  /\ signed \subseteq Signature

\* "Read a complete configuration per signing operation; never mix rotation
\* versions": kid and key of a signature come from one configuration, all of
\* whose keys are in the registry as that configuration has them.
SignedFromOneConfiguration ==
  \A s \in signed :
    /\ s.kid = s.from.active
    /\ s.mat \in Signers(s.from, s.kid)
    /\ \A n \in DOMAIN s.from.keys :
         registry[s.from.keys[n].kid] = s.from.keys[n].mat

\* The processes of a state directory hold one key, across starts that race
\* and restarts, and those that serve find that key published as DemoKid.
OneOwnKey ==
  \A w \in Worker : Home[w] = Local /\ pc[w] # "down" =>
    /\ pinned[w] = seed /\ seed # None
    /\ pc[w] = "idle" => registry[DemoKid] = seed

\* A process that serves can publish: / finds its kid in the registry right
\* after the snapshot.
SnapshotIsPublished ==
  \A w \in Worker : pc[w] = "sign" =>
    registry[conf[w].active] \in Signers(conf[w], conf[w].active)

\* Key history, over either database and any provider, implements KeyPromise:
\* no kid is ever reassigned, and nothing is signed under a kid but with the
\* key the registry has for it, so old signatures verify for good.
Promise == INSTANCE KeyPromise
             WITH bound <- registry, signed <- {<<s.kid, s.mat>> : s \in signed}
KeepsPromise == Promise!Spec

Failure == \E w \in Worker : Fault(w) /\ ~Step(w)
Usable(c) ==
  /\ Signers(c, c.active) # {}
  /\ \A n \in DOMAIN c.keys :
       /\ c.keys[n].sound
       /\ \A i \in DOMAIN c.keys : c.keys[i].kid = c.keys[n].kid => i = n
Compatible(c) ==
  \A n \in DOMAIN c.keys : registry[c.keys[n].kid] \in {None, c.keys[n].mat}

\* A usable configuration that stays in place and reassigns no kid comes to
\* be signed with, without a restart, once failures stop.
RotationTakesEffect ==
  \A w \in Worker, p \in Place, c \in Config :
    (/\ Usable(c)
     /\ <>[](Home[w] = p /\ source[p] = c /\ Compatible(c))
     /\ <>[][~Failure]_vars
     /\ []<><<Call(w, "sign")>>_vars)
      => <>(\E s \in signed : s.from = c)
=============================================================================
