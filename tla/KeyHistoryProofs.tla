-------------------------- MODULE KeyHistoryProofs --------------------------
(***************************************************************************)
(* Proofs about KeyHistory: every call leaves the registry as a history in *)
(* which no kid changes its key, whatever configurations come and go.      *)
(***************************************************************************)
EXTENDS KeyHistory, TLAPS

Busy == {"keys", "held", "sign"}

\* A snapshot under way has registered what it has passed.
Working(w) ==
  /\ pc[w] \in {"down", "idle", "read"} => nth[w] = 1
  /\ pc[w] \in Busy =>
       /\ conf[w] \in ConfigForm
       /\ nth[w] <= Len(conf[w].keys) + 1
       /\ \A n \in 1 .. nth[w] - 1 :
            registry[conf[w].keys[n].kid] = conf[w].keys[n].mat
  /\ pc[w] = "sign" => ~More(w) /\ Signers(conf[w], conf[w].active) # {}

\* A transaction past its INSERT has a free kid to itself.
Holding(w) ==
  pc[w] = "held" =>
    /\ Postgres
    /\ More(w)
    /\ registry[EntryOf(w).kid] = None
    /\ \A v \in Worker \ {w} : ~HoldsKid(v, EntryOf(w).kid)

\* The directory's own key, from the first snapshot on under its kid.
Owning(w) ==
  Home[w] = Local /\ pc[w] # "down" =>
    /\ pinned[w] = seed /\ seed # None
    /\ pc[w] \in Busy => conf[w] = OwnConfig(seed)
    /\ pc[w] = "idle" \/ job[w] # "boot" => registry[DemoKid] = seed

IInv ==
  /\ TypeOK
  /\ \A w \in Worker : Working(w) /\ Holding(w) /\ Owning(w)
  /\ SignedFromOneConfiguration

-----------------------------------------------------------------------------
\* Only w's variables change, and no configuration of the processes.
Alone(w) ==
  /\ deployment' = deployment
  /\ \A v \in Worker \ {w} :
       /\ pc'[v] = pc[v] /\ job'[v] = job[v] /\ pinned'[v] = pinned[v]
       /\ conf'[v] = conf[v] /\ nth'[v] = nth[v]

\* The registry only gains kids, and none that another transaction holds.
Grows(w) ==
  \A k \in Kid :
    registry'[k] # registry[k] =>
      registry[k] = None /\ \A v \in Worker \ {w} : ~HoldsKid(v, k)

LEMMA EntryTyped ==
  ASSUME NEW c \in ConfigForm, NEW n \in 1 .. Len(c.keys)
  PROVE  c.keys[n] \in Entry /\ n \in DOMAIN c.keys
  BY DEF ConfigForm

LEMMA OwnConfigTyped ==
  ASSUME NEW m \in Generated
  PROVE  /\ OwnConfig(m) \in ConfigForm
         /\ Len(OwnConfig(m).keys) = 1
         /\ OwnConfig(m).keys[1].kid = DemoKid
         /\ OwnConfig(m).keys[1].mat = m
  BY KeyHistoryAssumption DEF OwnConfig, ConfigForm, Entry, KeyHistoryAssumption

\* What a step of w, of whatever kind, leaves of the others' part of IInv.
LEMMA OthersStand ==
  ASSUME IInv, NEW w \in Worker, Alone(w), Grows(w), TypeOK',
         seed # None => seed' = seed,
         ~(\E k \in Kid : HoldsKid(w, k))' \/
           (pc'[w] = "held" /\ \A v \in Worker \ {w} : ~HoldsKid(v, conf'[w].keys[nth'[w]].kid)),
         NEW v \in Worker, v # w
  PROVE  (Working(v) /\ Holding(v) /\ Owning(v))'
  <1>1. Working(v)'
    <2> SUFFICES ASSUME pc[v] \in Busy, NEW n \in 1 .. nth[v] - 1
                 PROVE  registry'[conf[v].keys[n].kid] = conf[v].keys[n].mat
      BY DEF IInv, Working, Alone, More, Busy
    <2>1. n \in 1 .. Len(conf[v].keys) /\ conf[v] \in ConfigForm
      BY DEF IInv, Working, TypeOK, ConfigForm
    <2>2. conf[v].keys[n] \in Entry  BY <2>1, EntryTyped
    <2>3. registry[conf[v].keys[n].kid] = conf[v].keys[n].mat
      BY DEF IInv, Working
    <2> QED  BY <2>2, <2>3, KeyHistoryAssumption DEF Grows, Entry, KeyHistoryAssumption
  <1>2. Holding(v)'
    <2> SUFFICES ASSUME pc[v] = "held"
                 PROVE  /\ Postgres
                        /\ More(v)
                        /\ registry'[EntryOf(v).kid] = None
                        /\ \A u \in Worker \ {v} : ~HoldsKid(u, EntryOf(v).kid)'
      BY DEF Holding, Alone, More, EntryOf, Home, Postgres
    <2>1. Postgres /\ More(v) /\ registry[EntryOf(v).kid] = None
          /\ \A u \in Worker \ {v} : ~HoldsKid(u, EntryOf(v).kid)
      BY DEF IInv, Holding
    <2>2. EntryOf(v) \in Entry
      BY <2>1, EntryTyped DEF IInv, Working, TypeOK, Busy, More, EntryOf, ConfigForm
    <2>3. registry'[EntryOf(v).kid] = None
      BY <2>1, <2>2 DEF Grows, HoldsKid, Entry
    <2>4. ASSUME NEW u \in Worker \ {v}, u # w  PROVE ~HoldsKid(u, EntryOf(v).kid)'
      BY <2>1, <2>4 DEF HoldsKid, EntryOf, Alone
    <2>5. ~HoldsKid(w, EntryOf(v).kid)'
      BY <2>2 DEF HoldsKid, EntryOf, Alone, Entry
    <2> QED  BY <2>1, <2>3, <2>4, <2>5
  <1>3. Owning(v)'
    BY KeyHistoryAssumption DEF IInv, Owning, Alone, Grows, KeyHistoryAssumption, TypeOK, Home
  <1> QED  BY <1>1, <1>2, <1>3

\* Signatures stay explained while the registry grows.
LEMMA SignaturesStand ==
  ASSUME IInv, NEW w \in Worker, Grows(w), UNCHANGED signed
  PROVE  SignedFromOneConfiguration'
  <1> SUFFICES ASSUME NEW s \in signed, NEW n \in DOMAIN s.from.keys
               PROVE  registry'[s.from.keys[n].kid] = s.from.keys[n].mat
    BY DEF IInv, SignedFromOneConfiguration
  <1>1. s.from \in ConfigForm  BY DEF IInv, TypeOK, Signature
  <1>2. s.from.keys[n] \in Entry  BY <1>1, EntryTyped DEF ConfigForm
  <1>3. registry[s.from.keys[n].kid] = s.from.keys[n].mat
    BY DEF IInv, SignedFromOneConfiguration
  <1> QED  BY <1>2, <1>3, KeyHistoryAssumption DEF Grows, Entry, KeyHistoryAssumption

LEMMA StepKeeps ==
  ASSUME IInv, NEW w \in Worker, Alone(w), Grows(w), TypeOK',
         seed # None => seed' = seed,
         (Working(w) /\ Holding(w) /\ Owning(w))',
         SignedFromOneConfiguration',
         pc'[w] # "held" \/
           \A v \in Worker \ {w} : ~HoldsKid(v, conf'[w].keys[nth'[w]].kid)
  PROVE  IInv'
  <1>1. ~(\E k \in Kid : HoldsKid(w, k))' \/
          (pc'[w] = "held" /\ \A v \in Worker \ {w} : ~HoldsKid(v, conf'[w].keys[nth'[w]].kid))
    BY DEF HoldsKid
  <1>2. \A v \in Worker : v # w => (Working(v) /\ Holding(v) /\ Owning(v))'
    BY <1>1, OthersStand
  <1> QED  BY <1>2 DEF IInv

LEMMA Untouched ==
  ASSUME NEW w \in Worker, UNCHANGED registry
  PROVE  Grows(w)
  BY DEF Grows

LEMMA EntryInForm ==
  ASSUME IInv, NEW w \in Worker, pc[w] \in Busy, More(w)
  PROVE  /\ conf[w] \in ConfigForm
         /\ EntryOf(w) \in Entry
         /\ nth[w] \in Nat \ {0}
  BY EntryTyped DEF IInv, Working, TypeOK, More, EntryOf, ConfigForm

\* A binding is a free kid's, which nobody else is about to bind.
LEMMA BindGrows ==
  ASSUME IInv, NEW w \in Worker, pc[w] \in Busy, More(w), Bind(w),
         registry[EntryOf(w).kid] = None,
         \A v \in Worker \ {w} : ~HoldsKid(v, EntryOf(w).kid)
  PROVE  /\ Grows(w)
         /\ registry' \in [Kid -> Material \cup {None}]
         /\ registry'[EntryOf(w).kid] = EntryOf(w).mat
  BY EntryInForm DEF Grows, Bind, IInv, TypeOK, Entry

LEMMA EndStep ==
  ASSUME IInv, NEW w \in Worker, NEW to \in {"down", "idle"}, End(w, to), Grows(w),
         registry' \in [Kid -> Material \cup {None}], UNCHANGED <<deployment, seed, source>>,
         signed' \subseteq Signature, SignedFromOneConfiguration',
         pc[w] # "down",
         to = "idle" /\ Home[w] = Local => registry'[DemoKid] = seed
  PROVE  IInv'
  <1>1. Alone(w)  BY DEF Alone, End, Goto, IInv, TypeOK
  <1>2. TypeOK'
    BY DEF TypeOK, End, Goto, IInv
  <1>3. Working(w)' /\ Holding(w)'
    BY DEF End, Goto, Working, Holding, IInv, TypeOK, Busy
  <1>4. Owning(w)'
    BY DEF End, Goto, Owning, IInv, TypeOK, Busy, Home
  <1> QED  BY <1>1, <1>2, <1>3, <1>4, StepKeeps DEF End, Goto, IInv, TypeOK

\* KeyUnavailable leaves the history as it is or one key longer.
LEMMA RefuseStep ==
  ASSUME IInv, NEW w \in Worker, Refuse(w), Grows(w),
         registry' \in [Kid -> Material \cup {None}],
         UNCHANGED <<deployment, seed, source, signed>>, pc[w] \notin {"down", "idle"}
  PROVE  IInv'
  <1>1. SignedFromOneConfiguration'  BY SignaturesStand
  <1>2. CASE job[w] = "boot"
    BY <1>1, <1>2, EndStep DEF Refuse, IInv, TypeOK
  <1>3. CASE job[w] # "boot"
    <2>1. Home[w] = Local => registry'[DemoKid] = seed
      BY <1>3, KeyHistoryAssumption DEF IInv, Owning, Grows, KeyHistoryAssumption, TypeOK
    <2> QED  BY <1>1, <1>3, <2>1, EndStep DEF Refuse, IInv, TypeOK
  <1> QED  BY <1>2, <1>3

LEMMA ProceedStep ==
  ASSUME IInv, NEW w \in Worker, Proceed(w), Grows(w), pc[w] \in {"keys", "held"}, More(w),
         registry' \in [Kid -> Material \cup {None}],
         registry'[EntryOf(w).kid] = EntryOf(w).mat,
         UNCHANGED <<deployment, seed, source, signed>>
  PROVE  IInv'
  <1>1. SignedFromOneConfiguration'  BY SignaturesStand
  <1>2. Alone(w)  BY DEF Alone, Proceed, Goto, IInv, TypeOK
  <1>3. TypeOK'  BY DEF TypeOK, Proceed, Goto, IInv
  <1>4. Working(w)'
    <2>1. /\ pc'[w] = "keys" /\ conf'[w] = conf[w] /\ conf[w] \in ConfigForm
          /\ nth'[w] = nth[w] + 1 /\ nth[w] \in Nat \ {0}
          /\ nth[w] <= Len(conf[w].keys) /\ Len(conf[w].keys) \in Nat
      BY EntryInForm DEF Proceed, Goto, IInv, TypeOK, Busy, More, ConfigForm
    <2>2. ASSUME NEW n \in 1 .. nth'[w] - 1
          PROVE  registry'[conf[w].keys[n].kid] = conf[w].keys[n].mat
      <3>1. CASE n = nth[w]  BY <3>1 DEF EntryOf
      <3>2. CASE n # nth[w]
        <4>1. n \in 1 .. nth[w] - 1 /\ n \in 1 .. Len(conf[w].keys)  BY <2>1, <3>2
        <4>2. conf[w].keys[n] \in Entry  BY <2>1, <4>1, EntryTyped
        <4>3. registry[conf[w].keys[n].kid] = conf[w].keys[n].mat
          BY <4>1 DEF IInv, Working, Busy
        <4> QED  BY <4>2, <4>3, KeyHistoryAssumption DEF Grows, Entry, KeyHistoryAssumption
      <3> QED  BY <3>1, <3>2
    <2> QED  BY <2>1, <2>2 DEF Working
  <1>5. Holding(w)' /\ pc'[w] # "held"
    BY DEF Holding, Proceed, Goto, IInv, TypeOK
  <1>6. Owning(w)'
    BY KeyHistoryAssumption DEF IInv, Owning, Grows, KeyHistoryAssumption, TypeOK, Proceed, Goto, Busy, Home
  <1> QED  BY <1>1, <1>2, <1>3, <1>4, <1>5, <1>6, StepKeeps

LEMMA CompareStep ==
  ASSUME IInv, NEW w \in Worker, Compare(w), At(w, "keys"), More(w),
         UNCHANGED <<deployment, seed, source, signed>>
  PROVE  IInv'
  <1>1. Grows(w) /\ registry' \in [Kid -> Material \cup {None}]
    BY Untouched DEF Compare, IInv, TypeOK
  <1>2. CASE registry[EntryOf(w).kid] = EntryOf(w).mat
    BY <1>1, <1>2, ProceedStep DEF Compare, At
  <1>3. CASE registry[EntryOf(w).kid] # EntryOf(w).mat
    BY <1>1, <1>3, RefuseStep DEF Compare, At
  <1> QED  BY <1>2, <1>3

-----------------------------------------------------------------------------
LEMMA InitInvariant == Init => IInv
  BY KeyHistoryAssumption
  DEF Init, IInv, TypeOK, Working, Holding, Owning, SignedFromOneConfiguration, Busy,
      KeyHistoryAssumption

LEMMA BootStep ==
  ASSUME IInv, NEW w \in Worker, Boot(w)
  PROVE  IInv'
  <1>1. Alone(w) /\ Grows(w) /\ (seed # None => seed' = seed)
    BY DEF Boot, OwnKey, Alone, Grows, At, Goto, IInv, TypeOK
  <1>2. SignedFromOneConfiguration'  BY <1>1, SignaturesStand DEF Boot
  <1>3. TypeOK'
    <2>1. CASE Home[w] = Local  BY <2>1 DEF Boot, OwnKey, At, Goto, IInv, TypeOK
    <2>2. CASE Home[w] # Local  BY <2>2 DEF Boot, At, Goto, IInv, TypeOK
    <2> QED  BY <2>1, <2>2
  <1>4. Working(w)' /\ Holding(w)' /\ pc'[w] # "held"
    BY DEF Boot, At, Goto, Working, Holding, IInv, TypeOK, Busy
  <1>5. Owning(w)'
    BY KeyHistoryAssumption
    DEF Boot, OwnKey, At, Goto, Owning, IInv, TypeOK, Busy, KeyHistoryAssumption, Home
  <1> QED  BY <1>1, <1>2, <1>3, <1>4, <1>5, StepKeeps

LEMMA CallStep ==
  ASSUME IInv, NEW w \in Worker, NEW j \in {"probe", "sign"}, Call(w, j)
  PROVE  IInv'
  <1>1. Alone(w) /\ Grows(w)  BY DEF Call, Alone, Grows, At, Goto, IInv, TypeOK
  <1>2. SignedFromOneConfiguration'  BY <1>1, SignaturesStand DEF Call
  <1>3. TypeOK'  BY DEF Call, At, Goto, IInv, TypeOK
  <1>4. Working(w)' /\ Holding(w)' /\ Owning(w)' /\ pc'[w] # "held"
    BY DEF Call, At, Goto, Working, Holding, Owning, IInv, TypeOK, Busy, Home
  <1> QED  BY <1>1, <1>2, <1>3, <1>4, StepKeeps DEF Call

LEMMA ReadStep ==
  ASSUME IInv, NEW w \in Worker, Read(w)
  PROVE  IInv'
  <1>1. Alone(w) /\ Grows(w)  BY DEF Read, Alone, Grows, At, Goto, IInv, TypeOK
  <1>2. SignedFromOneConfiguration'  BY <1>1, SignaturesStand DEF Read
  <1>3. conf'[w] \in ConfigForm /\ (Home[w] = Local => conf'[w] = OwnConfig(seed))
    <2>1. CASE Home[w] = Local
      <3>1. pinned[w] = seed /\ seed \in Generated
        BY <2>1 DEF Read, At, IInv, Owning, TypeOK
      <3> QED  BY <2>1, <3>1, OwnConfigTyped DEF Read, IInv, TypeOK
    <2>2. CASE Home[w] # Local
      BY <2>2, KeyHistoryAssumption DEF Read, IInv, TypeOK, KeyHistoryAssumption, Home, Postgres, DeploymentForm
    <2> QED  BY <2>1, <2>2
  <1>4. TypeOK'  BY <1>3 DEF Read, At, Goto, IInv, TypeOK
  <1>5. Working(w)'
    <2>1. Len(conf'[w].keys) \in Nat  BY <1>3 DEF ConfigForm
    <2>2. pc'[w] = "keys" /\ nth'[w] = 1  BY DEF Read, At, Goto, IInv, TypeOK, Working
    <2> QED  BY <1>3, <2>1, <2>2 DEF Working
  <1>6. Holding(w)' /\ Owning(w)' /\ pc'[w] # "held"
    BY <1>3 DEF Read, At, Goto, Holding, Owning, IInv, TypeOK, Busy, Home
  <1> QED  BY <1>1, <1>2, <1>4, <1>5, <1>6, StepKeeps DEF Read

LEMMA RegisterStep ==
  ASSUME IInv, NEW w \in Worker, Register(w)
  PROVE  IInv'
  <1>1. CASE registry[EntryOf(w).kid] = None
    <2>1. \A v \in Worker \ {w} : ~HoldsKid(v, EntryOf(w).kid)
      BY DEF Register, HoldsKid, IInv, Holding
    <2>2. Grows(w) /\ registry' \in [Kid -> Material \cup {None}]
          /\ registry'[EntryOf(w).kid] = EntryOf(w).mat
      BY <1>1, <2>1, BindGrows DEF Register, At, Busy
    <2> QED  BY <1>1, <2>2, ProceedStep DEF Register, At
  <1>2. CASE registry[EntryOf(w).kid] # None
    BY <1>2, CompareStep DEF Register
  <1> QED  BY <1>1, <1>2

LEMMA PgInsertStep ==
  ASSUME IInv, NEW w \in Worker, PgInsert(w)
  PROVE  IInv'
  <1>1. CASE registry[EntryOf(w).kid] = None
    <2>1. /\ UNCHANGED <<deployment, registry, seed, source, job, pinned, conf, nth, signed>>
          /\ At(w, "keys") /\ Goto(w, "held")
      BY <1>1 DEF PgInsert
    <2>2. Alone(w) /\ Grows(w)  BY <2>1 DEF Alone, Grows, Goto, IInv, TypeOK
    <2>3. SignedFromOneConfiguration'  BY <2>1, <2>2, SignaturesStand
    <2>4. TypeOK'  BY <2>1 DEF Goto, IInv, TypeOK
    <2>5. Working(w)' /\ Owning(w)'
      BY <2>1 DEF At, Goto, IInv, TypeOK, Working, Owning, Busy, Home
    <2>6. \A v \in Worker \ {w} : ~HoldsKid(v, conf'[w].keys[nth'[w]].kid)
      BY <2>1 DEF PgInsert, EntryOf
    <2>7. Holding(w)'
      <3>1. \A v \in Worker \ {w} : ~HoldsKid(v, EntryOf(w).kid)'
        BY <2>1, <2>2, <2>6 DEF HoldsKid, EntryOf, Alone
      <3> QED  BY <1>1, <2>1, <3>1 DEF PgInsert, Holding, More, EntryOf, Home, Postgres
    <2> QED  BY <2>1, <2>2, <2>3, <2>4, <2>5, <2>6, <2>7, StepKeeps
  <1>2. CASE registry[EntryOf(w).kid] # None
    BY <1>2, CompareStep DEF PgInsert
  <1> QED  BY <1>1, <1>2

LEMMA PgCommitStep ==
  ASSUME IInv, NEW w \in Worker, PgCommit(w)
  PROVE  IInv'
  <1>1. More(w) /\ registry[EntryOf(w).kid] = None
        /\ \A v \in Worker \ {w} : ~HoldsKid(v, EntryOf(w).kid)
    BY DEF PgCommit, At, IInv, Holding
  <1>2. Grows(w) /\ registry' \in [Kid -> Material \cup {None}]
        /\ registry'[EntryOf(w).kid] = EntryOf(w).mat
    BY <1>1, BindGrows DEF PgCommit, At, Busy
  <1> QED  BY <1>1, <1>2, ProceedStep DEF PgCommit, At

LEMMA LostCommitStep ==
  ASSUME IInv, NEW w \in Worker, LostCommit(w)
  PROVE  IInv' /\ Bind(w) /\ pc[w] \in Busy /\ More(w) /\ registry[EntryOf(w).kid] = None
  <1>1. /\ pc[w] \in {"keys", "held"} /\ More(w) /\ registry[EntryOf(w).kid] = None
        /\ \A v \in Worker \ {w} : ~HoldsKid(v, EntryOf(w).kid)
    BY DEF LostCommit, At, IInv, Holding, HoldsKid
  <1>2. Grows(w) /\ registry' \in [Kid -> Material \cup {None}]
    BY <1>1, BindGrows DEF LostCommit, Busy
  <1> QED  BY <1>1, <1>2, RefuseStep DEF LostCommit, Busy

LEMMA FinishStep ==
  ASSUME IInv, NEW w \in Worker, Finish(w)
  PROVE  IInv'
  <1>1. Grows(w) /\ registry' \in [Kid -> Material \cup {None}]
    BY Untouched DEF Finish, IInv, TypeOK
  <1>2. SignedFromOneConfiguration'  BY <1>1, SignaturesStand DEF Finish
  <1>3. CASE Signers(conf[w], conf[w].active) = {}
    BY <1>1, <1>3, RefuseStep DEF Finish, At
  <1>4. CASE Signers(conf[w], conf[w].active) # {} /\ job[w] = "sign"
    <2>1. Alone(w)  BY <1>4 DEF Finish, Alone, Goto, IInv, TypeOK
    <2>2. TypeOK'  BY <1>4 DEF Finish, Goto, IInv, TypeOK
    <2>3. Working(w)' /\ Holding(w)' /\ Owning(w)' /\ pc'[w] # "held"
      BY <1>4 DEF Finish, At, Goto, Working, Holding, Owning, IInv, TypeOK, Busy, More, Home
    <2> QED  BY <1>1, <1>2, <2>1, <2>2, <2>3, StepKeeps DEF Finish
  <1>5. CASE Signers(conf[w], conf[w].active) # {} /\ job[w] # "sign"
    <2>1. Home[w] = Local => registry[DemoKid] = seed
      <3> SUFFICES ASSUME Home[w] = Local  PROVE registry[DemoKid] = seed
        OBVIOUS
      <3>1. conf[w] = OwnConfig(seed) /\ seed \in Generated
        BY DEF Finish, At, IInv, Owning, TypeOK, Busy
      <3>2. nth[w] > 1
        BY <3>1, OwnConfigTyped DEF Finish, More, IInv, TypeOK
      <3>3. 1 \in 1 .. nth[w] - 1  BY <3>2 DEF IInv, TypeOK
      <3>4. registry[conf[w].keys[1].kid] = conf[w].keys[1].mat
        BY <3>3 DEF Finish, At, IInv, Working, Busy
      <3> QED  BY <3>1, <3>4, OwnConfigTyped
    <2> QED  BY <1>1, <1>2, <1>5, <2>1, EndStep DEF Finish, At, IInv, TypeOK
  <1> QED  BY <1>3, <1>4, <1>5

\* What a snapshot would sign with is what the registry has for its kid.
LEMMA SignersRegistered ==
  ASSUME IInv, NEW w \in Worker, pc[w] = "sign"
  PROVE  /\ conf[w] \in ConfigForm
         /\ \A n \in DOMAIN conf[w].keys :
              registry[conf[w].keys[n].kid] = conf[w].keys[n].mat
         /\ Signers(conf[w], conf[w].active) # {}
         /\ \A m \in Signers(conf[w], conf[w].active) :
              m \in Material /\ m = registry[conf[w].active]
  <1>1. /\ conf[w] \in ConfigForm /\ Signers(conf[w], conf[w].active) # {}
        /\ nth[w] \in Nat /\ ~(nth[w] <= Len(conf[w].keys))
        /\ Len(conf[w].keys) \in Nat /\ DOMAIN conf[w].keys = 1 .. Len(conf[w].keys)
    BY DEF IInv, Working, TypeOK, More, Busy, ConfigForm
  <1>2. \A n \in DOMAIN conf[w].keys :
          registry[conf[w].keys[n].kid] = conf[w].keys[n].mat
    BY <1>1 DEF IInv, Working, Busy
  <1>3. \A n \in DOMAIN conf[w].keys : conf[w].keys[n] \in Entry
    BY <1>1, EntryTyped
  <1> QED  BY <1>1, <1>2, <1>3 DEF Signers, Entry

\* A signature with the registered key under the active kid.
LEMMA ProduceStep ==
  ASSUME IInv, NEW w \in Worker, pc[w] = "sign",
         NEW m \in Signers(conf[w], conf[w].active), Produce(w, m), End(w, "idle"),
         UNCHANGED <<deployment, registry, seed, source>>
  PROVE  IInv'
  <1>1. Grows(w) /\ registry' \in [Kid -> Material \cup {None}]
    BY Untouched DEF IInv, TypeOK
  <1>2. signed' \subseteq Signature
    BY SignersRegistered DEF Produce, Signature, IInv, TypeOK, ConfigForm
  <1>3. SignedFromOneConfiguration'
    <2> SUFFICES ASSUME NEW s \in signed'
                 PROVE  /\ s.kid = s.from.active
                        /\ s.mat \in Signers(s.from, s.kid)
                        /\ \A n \in DOMAIN s.from.keys :
                             registry[s.from.keys[n].kid] = s.from.keys[n].mat
      BY DEF SignedFromOneConfiguration, Signers
    <2>1. CASE s \in signed  BY <2>1 DEF IInv, SignedFromOneConfiguration
    <2>2. CASE s \notin signed  BY <2>2, SignersRegistered DEF Produce
    <2> QED  BY <2>1, <2>2
  <1>4. Home[w] = Local => registry'[DemoKid] = seed
    <2> SUFFICES ASSUME Home[w] = Local  PROVE registry[DemoKid] = seed
      OBVIOUS
    <2>1. conf[w] = OwnConfig(seed) /\ seed \in Generated
      BY DEF IInv, Owning, TypeOK, Busy
    <2> QED  BY <2>1, OwnConfigTyped, SignersRegistered DEF ConfigForm
  <1> QED  BY <1>1, <1>2, <1>3, <1>4, EndStep

LEMMA SignStep ==
  ASSUME IInv, NEW w \in Worker, Sign(w)
  PROVE  IInv'
  BY ProduceStep DEF Sign, At

LEMMA VaultSignStep ==
  ASSUME IInv, NEW w \in Worker, VaultSign(w)
  PROVE  IInv'
  <1>1. CASE Produce(w, registry[conf[w].active])
    <2>1. registry[conf[w].active] \in Signers(conf[w], conf[w].active)
      BY SignersRegistered DEF VaultSign, At
    <2> QED  BY <1>1, <2>1, ProduceStep DEF VaultSign, At
  <1>2. CASE UNCHANGED signed
    <2>1. Grows(w) /\ registry' \in [Kid -> Material \cup {None}]
      BY Untouched DEF VaultSign, IInv, TypeOK
    <2>2. SignedFromOneConfiguration'  BY <1>2, <2>1, SignaturesStand
    <2>3. Home[w] # Local
      BY KeyHistoryAssumption
      DEF VaultSign, KeyHistoryAssumption, IInv, TypeOK, DeploymentForm, Home, Vault
    <2> QED  BY <1>2, <2>1, <2>2, <2>3, EndStep DEF VaultSign, At, IInv, TypeOK
  <1> QED  BY <1>1, <1>2 DEF VaultSign

LEMMA CrashStep ==
  ASSUME IInv, NEW w \in Worker, Crash(w)
  PROVE  IInv'
  <1>1. Alone(w) /\ Grows(w)  BY DEF Crash, Alone, Grows, At, Goto, IInv, TypeOK
  <1>2. SignedFromOneConfiguration'  BY <1>1, SignaturesStand DEF Crash
  <1>3. TypeOK'  BY DEF Crash, At, Goto, IInv, TypeOK
  <1>4. Working(w)' /\ Holding(w)' /\ Owning(w)' /\ pc'[w] # "held"
    BY DEF Crash, At, Goto, Working, Holding, Owning, IInv, TypeOK, Busy
  <1> QED  BY <1>1, <1>2, <1>3, <1>4, StepKeeps DEF Crash

LEMMA OtherwiseStep ==
  ASSUME IInv, UNCHANGED <<deployment, registry, seed, local, signed>>, source' \in [Place -> Config]
  PROVE  IInv'
  BY DEF IInv, TypeOK, Working, Holding, HoldsKid, Owning, More, EntryOf,
         SignedFromOneConfiguration, local, Home, Postgres

LEMMA NextInvariant == IInv /\ [Next]_vars => IInv'
  <1> SUFFICES ASSUME IInv, [Next]_vars  PROVE IInv'
    OBVIOUS
  <1>1. ASSUME NEW w \in Worker, Reject(w)  PROVE IInv'
    BY <1>1, RefuseStep, Untouched DEF Reject, At, IInv, TypeOK
  <1>2. ASSUME NEW w \in Worker, Unavailable(w)  PROVE IInv'
    BY <1>2, RefuseStep, Untouched DEF Unavailable, At, IInv, TypeOK
  <1>3. ASSUME NEW p \in Place, NEW c \in Config, Reconfigure(p, c)  PROVE IInv'
    <2>1. source' \in [Place -> Config]  BY <1>3 DEF Reconfigure, IInv, TypeOK
    <2> QED  BY <1>3, <2>1, OtherwiseStep DEF Reconfigure
  <1>4. CASE UNCHANGED vars
    BY <1>4, OtherwiseStep DEF vars, local, IInv, TypeOK
  <1> QED
    BY <1>1, <1>2, <1>3, <1>4, BootStep, CallStep, ReadStep, RegisterStep, PgInsertStep,
       PgCommitStep, FinishStep, SignStep, VaultSignStep, LostCommitStep, CrashStep
    DEF Next, Step, Fault

\* The inductive invariant: snapshots, locks and signatures agree with the
\* registry (keys.py, state.py).
THEOREM Invariance == Spec => []IInv
  BY InitInvariant, NextInvariant, PTL DEF Spec

\* KeyManager and its tables only hold values of their kind.
THEOREM TypeCorrect == Spec => []TypeOK
  <1>1. IInv => TypeOK  BY DEF IInv
  <1> QED  BY <1>1, Invariance, PTL

\* snapshot never mixes two versions of a configuration.
THEOREM OneConfiguration == Spec => []SignedFromOneConfiguration
  <1>1. IInv => SignedFromOneConfiguration  BY DEF IInv
  <1> QED  BY <1>1, Invariance, PTL

\* LocalState.signing_key gives all processes one key.
THEOREM OwnKeyIsShared == Spec => []OneOwnKey
  <1>1. IInv => OneOwnKey  BY DEF IInv, Owning, OneOwnKey
  <1> QED  BY <1>1, Invariance, PTL

\* What a snapshot returns is in the registry when it returns.
THEOREM Published == Spec => []SnapshotIsPublished
  <1>1. IInv => SnapshotIsPublished
    <2> SUFFICES ASSUME IInv, NEW w \in Worker, pc[w] = "sign"
                 PROVE  registry[conf[w].active] \in Signers(conf[w], conf[w].active)
      BY DEF SnapshotIsPublished
    <2> QED  BY SignersRegistered
  <1> QED  BY <1>1, Invariance, PTL

-----------------------------------------------------------------------------
Pairs == {<<s.kid, s.mat>> : s \in signed}

LEMMA BindRefines ==
  ASSUME IInv, NEW w \in Worker, pc[w] \in Busy, More(w), Bind(w),
         registry[EntryOf(w).kid] = None, UNCHANGED signed
  PROVE  Promise!Next
  <1>1. EntryOf(w).kid \in Kid /\ EntryOf(w).mat \in Material
    BY EntryInForm DEF Entry
  <1>2. Promise!Bind(EntryOf(w).kid, EntryOf(w).mat)
    BY DEF Promise!Bind, Bind
  <1> QED  BY <1>1, <1>2 DEF Promise!Next

LEMMA ProduceRefines ==
  ASSUME IInv, NEW w \in Worker, pc[w] = "sign",
         NEW m \in Signers(conf[w], conf[w].active), Produce(w, m), UNCHANGED registry
  PROVE  Promise!Next
  <1>1. /\ conf[w].active \in Kid /\ m \in Material
        /\ registry[conf[w].active] = m
    BY SignersRegistered DEF ConfigForm
  <1>2. Pairs' = Pairs \cup {<<conf[w].active, m>>}
    <2> DEFINE new == [kid |-> conf[w].active, mat |-> m, from |-> conf[w]]
    <2>1. signed' = signed \cup {new}  BY DEF Produce
    <2>2. new.kid = conf[w].active /\ new.mat = m  OBVIOUS
    <2> HIDE DEF new
    <2>3. {<<s.kid, s.mat>> : s \in signed'} =
            {<<s.kid, s.mat>> : s \in signed} \cup {<<new.kid, new.mat>>}
      BY <2>1
    <2> QED  BY <2>2, <2>3 DEF Pairs
  <1>3. Promise!Sign(conf[w].active, m)
    BY <1>1, <1>2 DEF Promise!Sign, Pairs
  <1> QED  BY <1>1, <1>3 DEF Promise!Next

LEMMA StutterRefines ==
  ASSUME UNCHANGED <<registry, signed>>
  PROVE  UNCHANGED Promise!vars
  BY DEF Promise!vars

LEMMA StepRefines ==
  ASSUME IInv, NEW w \in Worker,
         Boot(w) \/ (\E j \in {"probe", "sign"} : Call(w, j)) \/ Step(w) \/ Fault(w)
  PROVE  [Promise!Next]_(Promise!vars)
  <1>1. CASE Register(w)
    BY <1>1, BindRefines, StutterRefines DEF Register, Compare, At, Busy
  <1>2. CASE PgCommit(w)
    BY <1>2, BindRefines DEF PgCommit, At, Busy, IInv, Holding
  <1>3. CASE LostCommit(w)
    BY <1>3, LostCommitStep, BindRefines DEF LostCommit
  <1>4. CASE Sign(w)
    BY <1>4, ProduceRefines DEF Sign, At
  <1>5. CASE VaultSign(w)
    <2>1. registry[conf[w].active] \in Signers(conf[w], conf[w].active)
      BY <1>5, SignersRegistered DEF VaultSign, At
    <2>2. CASE Produce(w, registry[conf[w].active])
      BY <1>5, <2>1, <2>2, ProduceRefines DEF VaultSign, At
    <2>3. CASE UNCHANGED signed
      BY <1>5, <2>3, StutterRefines DEF VaultSign
    <2> QED  BY <1>5, <2>2, <2>3 DEF VaultSign
  <1>6. CASE PgInsert(w)
    BY <1>6, StutterRefines DEF PgInsert, Compare
  <1>7. CASE Boot(w) \/ (\E j \in {"probe", "sign"} : Call(w, j)) \/ Read(w) \/ Reject(w)
             \/ Finish(w) \/ Unavailable(w) \/ Crash(w)
    BY <1>7, StutterRefines DEF Boot, Call, Read, Reject, Finish, Unavailable, Crash
  <1> QED  BY <1>1, <1>2, <1>3, <1>4, <1>5, <1>6, <1>7 DEF Step, Fault

\* Key history implements KeyPromise: kids are bound once, by whichever
\* replica, and signatures are made with the key their kid is bound to.
THEOREM Refinement == Spec => KeepsPromise
  <1>1. Init => Promise!Init
    BY DEF Init, Promise!Init
  <1>2. IInv /\ [Next]_vars => [Promise!Next]_(Promise!vars)
    <2> SUFFICES ASSUME IInv, [Next]_vars  PROVE [Promise!Next]_(Promise!vars)
      OBVIOUS
    <2>1. CASE \E p \in Place, c \in Config : Reconfigure(p, c)
      BY <2>1, StutterRefines DEF Reconfigure
    <2>2. CASE UNCHANGED vars
      BY <2>2, StutterRefines DEF vars
    <2> QED  BY <2>1, <2>2, StepRefines DEF Next
  <1> QED  BY <1>1, <1>2, Invariance, PTL DEF Spec, KeepsPromise, Promise!Spec

-----------------------------------------------------------------------------
(* The registry is the table of keys of Stores, and what Migration takes   *)
(* for granted of it.                                                      *)

DB == INSTANCE Stores WITH
  Nonce <- {}, Event <- {}, Ledger <- {}, Accept <- {}, Key <- Kid,
  Digest <- Material, Retention <- 0, Seed <- None

\* Where the registry changes, some snapshot binds a free kid to the key of
\* the entry it has come to.
LEMMA RegistryChanges ==
  ASSUME IInv, [Next]_vars, registry' # registry
  PROVE  \E w \in Worker : /\ pc[w] \in Busy /\ More(w) /\ Bind(w)
                           /\ registry[EntryOf(w).kid] = None
                           /\ UNCHANGED <<deployment, seed>>
  <1>1. PICK w \in Worker : Register(w) \/ PgCommit(w) \/ LostCommit(w)
    BY DEF Next, Step, Fault, vars, Boot, Call, Read, Reject, PgInsert, Compare, Finish, Sign,
           VaultSign, Unavailable, Crash, Reconfigure
  <1>2. CASE Register(w)
    BY <1>2 DEF Register, Compare, At, Busy
  <1>3. CASE PgCommit(w)
    BY <1>3 DEF PgCommit, At, Busy, IInv, Holding
  <1>4. CASE LostCommit(w)
    BY <1>4, LostCommitStep DEF LostCommit
  <1> QED  BY <1>1, <1>2, <1>3, <1>4

\* The table of keys changes by register_public_key only, one row at a time
\* and never one that is there, whichever provider the key comes from.
THEOREM Transactions == Spec => [][DB!Transaction(registry, registry', 0)]_registry
  <1>1. ASSUME IInv, [Next]_vars, registry' # registry
        PROVE  DB!Transaction(registry, registry', 0)
    <2>1. PICK w \in Worker : /\ pc[w] \in Busy /\ More(w) /\ Bind(w)
                              /\ registry[EntryOf(w).kid] = None
      BY <1>1, RegistryChanges
    <2> DEFINE k == EntryOf(w).kid
               m == EntryOf(w).mat
    <2>2. k \in Kid /\ m \in Material  BY <1>1, <2>1, EntryInForm DEF Entry
    <2>3. registry \in [Kid -> Material \cup {None}]  BY <1>1 DEF IInv, TypeOK
    <2>4. registry' = [registry EXCEPT ![k] = m] /\ registry[k] = None  BY <2>1 DEF Bind
    <2> HIDE DEF k, m
    <2>5. DB!Id = Kid /\ DB!RowsAt(k) = Material  BY <2>2 DEF DB!Id, DB!RowsAt
    <2>6. DB!Write(registry, registry', k, registry'[k], 0)
      BY <2>2, <2>3, <2>4, <2>5 DEF DB!Write, DB!Taken
    <2> QED  BY <2>2, <2>5, <2>6 DEF DB!Transaction
  <1>2. IInv /\ [Next]_vars => [DB!Transaction(registry, registry', 0)]_registry
    BY <1>1
  <1> QED  BY <1>2, Invariance, PTL DEF Spec

\* Beside processes with the directory's own key alone, its registry holds
\* that key under its kid and nothing else.
OnlyOwnKey ==
  (\A w \in Worker : Home[w] = Local) =>
    \A k \in Kid : registry[k] # None => k = DemoKid /\ registry[k] = seed

\* The guard of Migration's requests at the directory is what its processes
\* keep to: they register the directory's own key, and no other.
THEOREM DirectoryKey == Spec => []OnlyOwnKey
  <1>1. Init => OnlyOwnKey  BY DEF Init, OnlyOwnKey
  <1>2. IInv /\ OnlyOwnKey /\ [Next]_vars => OnlyOwnKey'
    <2> SUFFICES ASSUME IInv, OnlyOwnKey, [Next]_vars, \A w \in Worker : Home'[w] = Local,
                        NEW k \in Kid, registry'[k] # None
                 PROVE  k = DemoKid /\ registry'[k] = seed'
      BY DEF OnlyOwnKey
    <2>1. deployment' = deployment /\ (seed # None => seed' = seed)
      BY DEF Next, Step, Fault, vars, Boot, OwnKey, Call, Read, Reject, Register, PgInsert, PgCommit,
             Finish, Sign, VaultSign, Unavailable, LostCommit, Crash, Reconfigure
    <2>2. \A w \in Worker : Home[w] = Local  BY <2>1 DEF Home
    <2>3. CASE registry'[k] = registry[k]
      BY <2>1, <2>2, <2>3 DEF OnlyOwnKey
    <2>4. CASE registry'[k] # registry[k]
      <3>1. PICK w \in Worker : /\ pc[w] \in Busy /\ More(w) /\ Bind(w)
                                /\ UNCHANGED <<deployment, seed>>
        BY <2>4, RegistryChanges
      <3>2. k = EntryOf(w).kid /\ registry'[k] = EntryOf(w).mat
        BY <2>4, <3>1 DEF Bind, IInv, TypeOK
      <3>3. conf[w] = OwnConfig(seed) /\ seed \in Generated
        BY <2>2, <3>1 DEF IInv, Owning, Busy, TypeOK
      <3>4. nth[w] = 1
        <4>1. Len(conf[w].keys) = 1  BY <3>3, OwnConfigTyped
        <4>2. nth[w] \in Nat \ {0}  BY DEF IInv, TypeOK
        <4> QED  BY <3>1, <4>1, <4>2 DEF More
      <3> QED  BY <3>1, <3>2, <3>3, <3>4, OwnConfigTyped DEF EntryOf
    <2> QED  BY <2>3, <2>4
  <1> QED  BY <1>1, <1>2, Invariance, PTL DEF Spec
-----------------------------------------------------------------------------
(* What operators have to keep to, so that no snapshot meets a conflict.   *)

\* A configuration has k with m, or the directory's own key is m and k its kid.
Origin(k, m) ==
  \/ \E c \in Config : \E n \in DOMAIN c.keys : c.keys[n].kid = k /\ c.keys[n].mat = m
  \/ k = DemoKid /\ m = seed /\ \E w \in Worker : Home[w] = Local

\* Snapshots are of configurations that were found somewhere, and what is
\* registered was in one.
Traced ==
  /\ \A w \in Worker : pc[w] \in Busy => Home[w] = Local \/ conf[w] \in Config
  /\ \A k \in Kid : registry[k] # None => Origin(k, registry[k])

LEMMA TracedStep ==
  ASSUME IInv, Traced, [Next]_vars
  PROVE  Traced'
  <1>1. deployment' = deployment /\ Home' = Home /\ (seed # None => seed' = seed)
    BY DEF Next, Step, Fault, vars, Boot, OwnKey, Call, Read, Reject, Register, PgInsert, PgCommit,
           Finish, Sign, VaultSign, Unavailable, LostCommit, Crash, Reconfigure, Home
  <1>2. ASSUME NEW w \in Worker, pc'[w] \in Busy, Home[w] # Local
        PROVE  conf'[w] \in Config
    <2>1. CASE Read(w)
      <3>1. Home[w] \in Place
        BY <1>2, KeyHistoryAssumption DEF IInv, TypeOK, Home, DeploymentForm, KeyHistoryAssumption
      <3> QED  BY <1>2, <2>1, <3>1 DEF Read, IInv, TypeOK
    <2>2. CASE pc[w] \in Busy /\ conf'[w] = conf[w]
      BY <1>2, <2>2 DEF Traced
    <2> QED
      BY <1>2, <2>1, <2>2
         DEF Next, Step, Fault, vars, local, Boot, Call, Read, Reject, Register, PgInsert, Compare,
             PgCommit, Finish, Sign, VaultSign, Unavailable, LostCommit, Crash, Reconfigure,
             At, Goto, End, Refuse, Proceed, Busy, IInv, TypeOK
  <1>3. ASSUME NEW k \in Kid, registry'[k] # None
        PROVE  Origin(k, registry[k])'
    <2>1. CASE registry'[k] = registry[k]
      <3>1. Origin(k, registry[k])  BY <1>3, <2>1 DEF Traced
      <3> QED  BY <1>1, <1>3, <2>1, <3>1 DEF Origin
    <2>2. CASE registry'[k] # registry[k]
      <3>1. PICK w \in Worker : /\ pc[w] \in Busy /\ More(w) /\ Bind(w)
                                /\ UNCHANGED <<deployment, seed>>
        BY <2>2, RegistryChanges
      <3>2. k = EntryOf(w).kid /\ registry'[k] = EntryOf(w).mat
        BY <2>2, <3>1 DEF Bind, IInv, TypeOK
      <3>3. conf[w] \in ConfigForm /\ nth[w] \in 1 .. Len(conf[w].keys)
        BY <3>1 DEF IInv, Working, More, TypeOK
      <3>4. nth[w] \in DOMAIN conf[w].keys
        BY <3>3, EntryTyped
      <3>5. CASE Home[w] = Local
        <4>1. conf[w] = OwnConfig(seed) /\ seed \in Generated
          BY <3>1, <3>5 DEF IInv, Owning, Busy, TypeOK
        <4>2. nth[w] = 1
          <5>1. Len(conf[w].keys) = 1  BY <4>1, OwnConfigTyped
          <5> QED  BY <3>3, <5>1
        <4>3. k = DemoKid /\ registry'[k] = seed
          BY <3>2, <4>1, <4>2, OwnConfigTyped DEF EntryOf
        <4> QED  BY <1>1, <3>1, <3>5, <4>3 DEF Origin
      <3>6. CASE Home[w] # Local
        <4>1. conf[w] \in Config  BY <3>1, <3>6 DEF Traced
        <4> QED  BY <3>2, <3>4, <4>1 DEF Origin, EntryOf
      <3> QED  BY <3>5, <3>6
    <2> QED  BY <2>1, <2>2
  <1> QED  BY <1>1, <1>2, <1>3 DEF Traced

\* No key comes from nowhere: what is registered, and published for good, was
\* in a configuration or is the directory's own.
THEOREM KeysAreTraced == Spec => []Traced
  <1>1. Init => Traced  BY DEF Init, Traced, Busy
  <1> QED  BY <1>1, TracedStep, Invariance, PTL DEF Spec

\* "Never reuse a `kid` for different key material": configurations agree on
\* the keys of their kids, and leave alone the kid of a directory's own key,
\* where there is one.
Disciplined ==
  /\ \A c, d \in Config : \A n \in DOMAIN c.keys, i \in DOMAIN d.keys :
       c.keys[n].kid = d.keys[i].kid => c.keys[n].mat = d.keys[i].mat
  /\ \/ \A d \in Deployment : \A w \in Worker : d.home[w] # Local
     \/ \A c \in Config : \A n \in DOMAIN c.keys : c.keys[n].kid # DemoKid

\* The rule is enough: whichever snapshots failed half way, over whatever
\* rotations, every configuration stays one that the registry accepts.  That
\* is the premise of RotationTakesEffect.
THEOREM DisciplineSuffices ==
  ASSUME Disciplined
  PROVE  Spec => [](\A c \in Config : Compatible(c))
  <1>1. IInv /\ Traced => \A c \in Config : Compatible(c)
    <2> SUFFICES ASSUME IInv, Traced, NEW c \in Config, NEW n \in DOMAIN c.keys,
                        registry[c.keys[n].kid] # None
                 PROVE  registry[c.keys[n].kid] = c.keys[n].mat
      BY DEF Compatible
    <2>1. c.keys[n].kid \in Kid
      <3>1. c \in ConfigForm  BY KeyHistoryAssumption DEF KeyHistoryAssumption
      <3>2. n \in 1 .. Len(c.keys)  BY <3>1 DEF ConfigForm
      <3>3. c.keys[n] \in Entry  BY <3>1, <3>2, EntryTyped
      <3> QED  BY <3>3 DEF Entry
    <2>2. Origin(c.keys[n].kid, registry[c.keys[n].kid])
      BY <2>1 DEF Traced
    <2>3. ASSUME NEW w \in Worker, Home[w] = Local  PROVE c.keys[n].kid # DemoKid
      BY <2>3 DEF Disciplined, Home, IInv, TypeOK
    <2> QED  BY <2>2, <2>3 DEF Origin, Disciplined
  <1> QED  BY <1>1, Invariance, KeysAreTraced, PTL
\* What is refused, and why: a usable snapshot whose calls all return leaves
\* the loop over its keys for a kid the registry has with another key, or at
\* its end.  There a starting process or a health check is done; a signer
\* goes on to sign.
Ends(w) == pc[w] = "keys" /\ pc'[w] \in {"down", "idle"}
Done(w) == ~More(w) /\ job[w] # "sign" /\ pc'[w] = "idle"

LEMMA RefusalHasReason ==
  ASSUME IInv, NEW w \in Worker, Ends(w), Step(w), Usable(conf[w]), ~Done(w)
  PROVE  ~Compatible(conf[w])
  <1>1. /\ pc[w] = "keys" /\ pc'[w] \in {"down", "idle"}
        /\ conf[w] \in ConfigForm /\ nth[w] \in Nat \ {0}
    BY DEF Ends, IInv, Working, Busy, TypeOK
  <1>2. Reject(w) \/ Register(w) \/ PgInsert(w) \/ Finish(w)
    BY <1>1 DEF Step, Read, PgCommit, Sign, VaultSign, At
  <1>3. ASSUME More(w)
        PROVE  /\ nth[w] \in DOMAIN conf[w].keys
               /\ \A n \in 1 .. nth[w] - 1 : n \in DOMAIN conf[w].keys /\ n # nth[w]
    <2>1. DOMAIN conf[w].keys = 1 .. Len(conf[w].keys) /\ Len(conf[w].keys) \in Nat
      BY <1>1 DEF ConfigForm
    <2> QED  BY <1>1, <1>3, <2>1 DEF More
  <1>4. CASE Reject(w)
    <2>1. Admissible(w)
      BY <1>3, <1>4 DEF Reject, Usable, Admissible, EntryOf
    <2> QED  BY <1>4, <2>1 DEF Reject
  <1>5. CASE Register(w) \/ PgInsert(w)
    <2>1. More(w)  BY <1>5 DEF Register, PgInsert
    <2>2. registry[EntryOf(w).kid] # None /\ registry[EntryOf(w).kid] # EntryOf(w).mat
      BY <1>1, <1>5 DEF Register, PgInsert, Compare, Proceed, Goto, Ends, IInv, TypeOK
    <2> QED  BY <1>3, <2>1, <2>2 DEF Compatible, EntryOf
  <1>6. CASE Finish(w)
    BY <1>1, <1>6 DEF Finish, Usable, End, Goto, Ends, Done, IInv, TypeOK
  <1> QED  BY <1>2, <1>4, <1>5, <1>6

\* The directory's own configuration meets no conflict under the rule either.
LEMMA SnapshotCompatible ==
  ASSUME Disciplined, IInv, Traced, NEW w \in Worker, pc[w] \in Busy,
         \A c \in Config : Compatible(c)
  PROVE  Compatible(conf[w])
  <1>1. CASE Home[w] # Local
    BY <1>1 DEF Traced
  <1>2. CASE Home[w] = Local
    <2>1. conf[w] = OwnConfig(seed) /\ seed \in Generated
      BY <1>2 DEF IInv, Owning, Busy, TypeOK
    <2>2. DemoKid \in Kid  BY KeyHistoryAssumption DEF KeyHistoryAssumption
    <2>3. \A c \in Config : \A n \in DOMAIN c.keys : c.keys[n].kid # DemoKid
      BY <1>2 DEF Disciplined, Home, IInv, TypeOK
    <2>4. registry[DemoKid] \in {None, seed}
      BY <2>2, <2>3 DEF Traced, Origin
    <2>5. \A n \in DOMAIN conf[w].keys : n = 1
      BY <2>1 DEF OwnConfig
    <2> QED  BY <2>1, <2>4, <2>5, OwnConfigTyped DEF Compatible
  <1> QED  BY <1>1, <1>2

\* Under the rule only failures refuse: where each call returns, KeyUnavailable
\* is not raised over a usable configuration, whatever other processes and
\* former configurations have registered.
THEOREM OnlyFaultsRefuse ==
  ASSUME Disciplined
  PROVE  Spec => [][\A w \in Worker : Ends(w) /\ Step(w) /\ Usable(conf[w]) => Done(w)]_vars
  <1>1. ASSUME IInv, Traced, \A c \in Config : Compatible(c),
               NEW w \in Worker, Ends(w), Step(w), Usable(conf[w])
        PROVE  Done(w)
    <2>1. Compatible(conf[w])
      BY <1>1, SnapshotCompatible DEF Ends, Busy
    <2> QED  BY <1>1, <2>1, RefusalHasReason
  <1>2. IInv /\ Traced /\ (\A c \in Config : Compatible(c)) /\ [Next]_vars =>
          [\A w \in Worker : Ends(w) /\ Step(w) /\ Usable(conf[w]) => Done(w)]_vars
    BY <1>1
  <1> QED  BY <1>2, Invariance, KeysAreTraced, DisciplineSuffices, PTL DEF Spec
=============================================================================
