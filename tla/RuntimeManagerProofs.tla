------------------------ MODULE RuntimeManagerProofs ------------------------
(***************************************************************************)
(* Proofs about runtime.Manager, for any number of callers, worker         *)
(* goroutines, cores and interfaces, any interleaving and any timeouts.    *)
(* First what holds however its methods overlap; then, with one worker at  *)
(* a time (any failures, callers that stop waiting at any moment), that    *)
(* there is no traffic loop, the state says what runs and so does the      *)
(* result of every call; and that the monitor and the commands drive the   *)
(* manager only through its methods, so that it all holds of Coexistence.  *)
(***************************************************************************)
EXTENDS Coexistence, TLAPS

\* A worker's local state before Step turns a result into an idle slot.
Locals ==
  [op : Ops \cup {"none", "shutdown"}, pc : PCs \cup Results, gen : Nat,
   target : Ifaces \cup {None}, prev : Ifaces \cup {None}, try : {1, 2},
   stage : {"main", "rollback"}, to : States]

\* Where a worker goes without holding a core, results included.
Free == EmptyHanded \cup Results

LEMMA IdleType == Idle \in WorkerStates
  BY DEF Idle, WorkerStates, PCs, States, Ops

LEMMA WorkerIsLocal == WorkerStates \subseteq Locals
  BY DEF WorkerStates, Locals

\* Each local update of a worker keeps its locals typed.
LEMMA AtType == ASSUME NEW r \in Locals, NEW l \in PCs \cup Results
                PROVE  /\ At(r, l) \in Locals /\ At(r, l).pc = l
                       /\ At(r, l).target = r.target /\ At(r, l).op = r.op
  BY DEF At, Locals

LEMMA SetToType == ASSUME NEW r \in Locals, NEW s \in States
                   PROVE  SetTo(r, s) \in Locals /\ SetTo(r, s).pc = "setState"
  BY DEF SetTo, Locals, PCs

LEMMA RecreateType == ASSUME NEW r \in Locals, NEW t \in Ifaces \cup {None}
                      PROVE  Recreate(r, t) \in Locals /\ Recreate(r, t).pc = "take"
  BY DEF Recreate, Locals, PCs

LEMMA RollbackType == ASSUME NEW r \in Locals
                      PROVE  Rollback(r) \in Locals /\ Rollback(r).pc = "take"
  BY DEF Rollback, Recreate, Locals, PCs

\* recreateProxy and dialProxy return to a place where the worker holds no core.
LEMMA AfterRecreateType ==
  ASSUME NEW r \in Locals, NEW ok \in BOOLEAN
  PROVE  AfterRecreate(r, ok) \in Locals /\ AfterRecreate(r, ok).pc \in Free
<1>1. CASE r.stage = "rollback" \/ r.op \in {"stopForwarder", "forwarderExited"}
  BY <1>1, SetToType DEF AfterRecreate, Free, EmptyHanded, States
<1>2. CASE ~(r.stage = "rollback" \/ r.op \in {"stopForwarder", "forwarderExited"})
  <2>1. r.stage = "main"
    BY <1>2 DEF Locals
  <2>2. CASE r.op \in {"startForwarder", "bindPhysical"} /\ ~ok
    BY <1>2, <2>1, <2>2, RollbackType DEF AfterRecreate, Free, EmptyHanded
  <2>3. CASE r.op = "startForwarder" /\ ok
    BY <1>2, <2>1, <2>3, AtType DEF AfterRecreate, Free, EmptyHanded, PCs
  <2>4. CASE r.op = "unbind" /\ ~ok
    BY <1>2, <2>1, <2>4, SetToType DEF AfterRecreate, Free, EmptyHanded, States
  <2>5. CASE r.op = "refresh" /\ ~ok
    BY <1>2, <2>1, <2>5, AtType DEF AfterRecreate, Free, EmptyHanded, PCs
  <2>6. CASE ~(r.op \in {"startForwarder", "bindPhysical", "unbind", "refresh"} /\ ~ok)
             /\ ~(r.op = "startForwarder" /\ ok)
    BY <1>2, <2>1, <2>6, AtType DEF AfterRecreate, Free, EmptyHanded, Results
  <2> QED BY <2>2, <2>3, <2>4, <2>5, <2>6
<1> QED BY <1>1, <1>2

LEMMA AfterDialType ==
  ASSUME NEW r \in Locals, NEW ok \in BOOLEAN
  PROVE  AfterDial(r, ok) \in Locals /\ AfterDial(r, ok).pc \in Free
<1>1. CASE r.op \in {"startProxy", "resume"}
  BY <1>1, SetToType, AtType DEF AfterDial, Free, EmptyHanded, States, Results
<1>2. CASE r.op \notin {"startProxy", "resume"} /\ r.try = 1 /\ ~ok
  BY <1>2 DEF AfterDial, Free, EmptyHanded, Locals, PCs
<1>3. CASE r.op \notin {"startProxy", "resume"} /\ ~(r.try = 1 /\ ~ok)
  <2>1. AfterDial(r, ok) = AfterRecreate(r, ok /\ r.try = 1)
    BY <1>3 DEF AfterDial
  <2> QED BY <2>1, AfterRecreateType
<1> QED BY <1>1, <1>2, <1>3

-----------------------------------------------------------------------------
(***************************************************************************)
(* How one step of worker p changes the workers and the callers.           *)
(***************************************************************************)
Moves(p) ==
  /\ w' \in [Workers -> WorkerStates]
  /\ \A q \in Workers \ {p} : w'[q] = w[q]
  /\ caller' \in [Clients -> Workers \cup Results]

LEMMA StepMoves ==
  ASSUME TypeOK, NEW p \in Workers, NEW r \in Locals, Step(p, r)
  PROVE  /\ Moves(p)
         /\ r.pc \in Results => w'[p].pc = "idle"
         /\ r.pc \notin Results => w'[p] = r
<1>1. r.pc \notin Results => r \in WorkerStates
  BY DEF Locals, WorkerStates
<1>2. w' \in [Workers -> WorkerStates]
  BY <1>1, IdleType DEF TypeOK, Step
<1>3. \A q \in Workers \ {p} : w'[q] = w[q]
  BY DEF TypeOK, Step
<1>4. caller' \in [Clients -> Workers \cup Results]
  BY DEF TypeOK, Step
<1>5. (r.pc \in Results => w'[p].pc = "idle") /\ (r.pc \notin Results => w'[p] = r)
  BY DEF TypeOK, Step, Idle
<1> QED BY <1>2, <1>3, <1>4, <1>5 DEF Moves

\* A step to a place where the worker holds no core leaves it idle or empty-handed.
LEMMA StepFree ==
  ASSUME TypeOK, NEW p \in Workers, NEW r \in Locals, r.pc \in Free, Step(p, r)
  PROVE  Moves(p) /\ w'[p].pc \in EmptyHanded
  BY StepMoves DEF Free, EmptyHanded

LEMMA LocalOfWorker == ASSUME TypeOK, NEW p \in Workers PROVE w[p] \in Locals
  BY WorkerIsLocal DEF TypeOK

-----------------------------------------------------------------------------
(***************************************************************************)
(* Every action is one of five kinds of step: it touches no core, it takes *)
(* published cores, it closes held cores, it starts one, it publishes one. *)
(***************************************************************************)

\* The workers that do not step keep what they hold, and its binding.
LEMMA OtherHands ==
  ASSUME IInv, NEW q \in Workers, w'[q] = w[q], held'[q] = held[q],
         held[q] \subseteq running', \A c \in held[q] : bind'[c] = bind[c]
  PROVE  HandsOf(q)'
<1>1. HandsOf(q)
  BY DEF IInv, Hands, HandsOf
<1>2. CASE w[q].pc \in {"commit", "discard", "publish"}
  BY <1>1, <1>2 DEF HandsOf, EmptyHanded
<1>3. CASE w[q].pc \notin {"commit", "discard", "publish"}
  BY <1>1, <1>3 DEF HandsOf
<1> QED BY <1>2, <1>3

CoresUntouched == UNCHANGED <<proxy, fwd, bound, running, bind, held>>

LEMMA QuietStep ==
  ASSUME IInv, NEW p \in Workers, Moves(p), w'[p].pc \in EmptyHanded, held[p] = {},
         CoresUntouched, state' \in States, gen' \in Nat
  PROVE  IInv'
<1>1. TypeOK'
  BY DEF IInv, TypeOK, Moves, CoresUntouched
<1>2. Hands'
  <2> SUFFICES ASSUME NEW q \in Workers PROVE HandsOf(q)'
    BY DEF Hands
  <2>1. CASE q = p
    BY <2>1 DEF IInv, Hands, HandsOf, EmptyHanded, CoresUntouched
  <2>2. CASE q # p
    <3>1. w'[q] = w[q] /\ held[q] \subseteq running
      BY <2>2 DEF Moves, IInv, Hands, HandsOf
    <3> QED BY <3>1, OtherHands DEF CoresUntouched
  <2> QED BY <2>1, <2>2
<1>3. OneListener' /\ SingleOwner' /\ PublishedIsUp' /\ ListenerOwned'
  BY DEF IInv, OneListener, SingleOwner, PublishedIsUp, ListenerOwned, Published, CoresUntouched
<1> QED BY <1>1, <1>2, <1>3 DEF IInv

LEMMA TakeStep ==
  ASSUME IInv, NEW p \in Workers, Moves(p), held[p] = {},
         NEW T, T \subseteq Published,
         held' = [held EXCEPT ![p] = T],
         proxy' = (IF proxy \in T THEN None ELSE proxy),
         fwd' = (IF fwd \in T THEN None ELSE fwd),
         proxy' # None => bound' = bound,
         w'[p].pc # "closeFwd" => (w'[p].pc = "closeProxy" /\ T \subseteq ProxyCores),
         w'[p].pc = "closeFwd" =>
           (T \subseteq FwdCores \/ w'[p].op \in {"suspend", "shutdown"}),
         running' = running, bind' = bind, state' \in States, bound' \in Ifaces \cup {None},
         gen' \in Nat
  PROVE  IInv'
<1> USE ConstantsOK
<1>0. T \subseteq running /\ T \subseteq Cores
  BY DEF IInv, PublishedIsUp, Published, TypeOK, Cores
<1>1. TypeOK'
  BY <1>0 DEF IInv, TypeOK, Moves
<1>2. Hands'
  <2> SUFFICES ASSUME NEW q \in Workers PROVE HandsOf(q)'
    BY DEF Hands
  <2>1. CASE q = p
    BY <2>1, <1>0 DEF IInv, TypeOK, HandsOf, EmptyHanded
  <2>2. CASE q # p
    <3>1. w'[q] = w[q] /\ held'[q] = held[q] /\ held[q] \subseteq running
      BY <2>2 DEF Moves, IInv, TypeOK, Hands, HandsOf
    <3> QED BY <3>1, OtherHands
  <2> QED BY <2>1, <2>2
<1>3. OneListener'
  BY DEF IInv, OneListener
<1>4. Published' \subseteq Published \ T
  BY DEF Published
<1>5. SingleOwner'
  BY <1>4 DEF IInv, TypeOK, SingleOwner
<1>6. PublishedIsUp'
  BY DEF IInv, PublishedIsUp
<1>7. ListenerOwned'
  <2> SUFFICES ASSUME NEW c \in ProxyCores \cap running
               PROVE  c = proxy' \/ \E q \in Workers : c \in held'[q]
    BY DEF ListenerOwned
  <2>1. CASE c = proxy /\ proxy \in T
    BY <2>1 DEF IInv, TypeOK
  <2>2. CASE c = proxy /\ proxy \notin T
    BY <2>2
  <2>3. CASE c # proxy
    <3>1. PICK q \in Workers : c \in held[q]
      BY <2>3 DEF IInv, ListenerOwned
    <3>2. held'[q] = held[q]
      BY <3>1 DEF IInv, TypeOK
    <3> QED BY <3>1, <3>2
  <2> QED BY <2>1, <2>2, <2>3
<1> QED BY <1>1, <1>2, <1>3, <1>5, <1>6, <1>7 DEF IInv

\* Closing what p holds of S; p keeps only proxy cores, and only to close them next.
LEMMA CloseStep ==
  ASSUME IInv, NEW p \in Workers, Moves(p), NEW S, CloseHeld(p, S),
         w'[p].pc \in EmptyHanded => held[p] \subseteq S,
         w'[p].pc \notin EmptyHanded =>
           (w'[p].pc = "closeProxy" /\ held[p] \subseteq S \cup ProxyCores),
         UNCHANGED <<fields, bind>>
  PROVE  IInv'
<1>0. /\ held'[p] = held[p] \ S
      /\ \A q \in Workers \ {p} : held'[q] = held[q] /\ held[q] \subseteq running'
  BY DEF IInv, TypeOK, CloseHeld, Hands, HandsOf, SingleOwner
<1>1. TypeOK'
  BY DEF IInv, TypeOK, Moves, CloseHeld, fields
<1>2. Hands'
  <2> SUFFICES ASSUME NEW q \in Workers PROVE HandsOf(q)'
    BY DEF Hands
  <2>1. CASE q = p
    <3>1. held'[p] \subseteq running'
      BY <1>0 DEF IInv, Hands, HandsOf, CloseHeld
    <3> QED BY <2>1, <3>1, <1>0 DEF HandsOf, EmptyHanded
  <2>2. CASE q # p
    <3>1. w'[q] = w[q] /\ held'[q] = held[q] /\ held[q] \subseteq running' /\ bind' = bind
      BY <2>2, <1>0 DEF Moves
    <3> QED BY <3>1, OtherHands
  <2> QED BY <2>1, <2>2
<1>3. OneListener'
  BY DEF IInv, OneListener, CloseHeld
<1>4. SingleOwner'
  <2>1. \A q \in Workers : held'[q] \subseteq held[q]
    BY <1>0
  <2>2. Published' = Published
    BY DEF Published, fields
  <2> QED BY <2>1, <2>2 DEF IInv, SingleOwner
<1>5. PublishedIsUp'
  <2>1. /\ proxy # None => proxy \notin held[p]
        /\ fwd # None => fwd \notin held[p]
    BY DEF IInv, SingleOwner, Published
  <2> QED BY <2>1 DEF IInv, PublishedIsUp, CloseHeld, fields
<1>6. ListenerOwned'
  <2> SUFFICES ASSUME NEW c \in ProxyCores \cap running'
               PROVE  c = proxy' \/ \E q \in Workers : c \in held'[q]
    BY DEF ListenerOwned
  <2>1. c \in running /\ c \notin held[p] \cap S
    BY DEF CloseHeld
  <2>2. CASE c = proxy
    BY <2>2 DEF fields
  <2>3. CASE c # proxy
    <3>1. PICK q \in Workers : c \in held[q]
      BY <2>1, <2>3 DEF IInv, ListenerOwned
    <3> QED BY <3>1, <2>1, <1>0
  <2> QED BY <2>2, <2>3
<1> QED BY <1>1, <1>2, <1>3, <1>4, <1>5, <1>6 DEF IInv

\* A proxy core starts in p's hands while no listener runs.
LEMMA StartProxyStep ==
  ASSUME IInv, NEW p \in Workers, Moves(p), held[p] = {}, NEW c \in ProxyCores,
         ListenerFree, running' = running \cup {c},
         bind' = [bind EXCEPT ![c] = w'[p].target],
         held' = [held EXCEPT ![p] = {c}],
         w'[p].pc = "commit", UNCHANGED fields
  PROVE  IInv'
<1> USE ConstantsOK
<1>0. c \notin running
  BY DEF ListenerFree
<1>a. /\ held'[p] = {c}
      /\ \A q \in Workers \ {p} : held'[q] = held[q] /\ c \notin held[q]
  BY <1>0 DEF IInv, TypeOK, Hands, HandsOf
<1>b. c \notin Published /\ Published' = Published
  BY <1>0 DEF IInv, PublishedIsUp, Published, fields
<1>c. bind' \in [Cores -> Ifaces \cup {None}] /\ bind'[c] = w'[p].target
      /\ \A d \in Cores : d # c => bind'[d] = bind[d]
  BY DEF IInv, TypeOK, Cores, Moves, WorkerStates
<1>1. TypeOK'
  BY <1>c DEF IInv, TypeOK, Moves, fields, Cores
<1>2. Hands'
  <2> SUFFICES ASSUME NEW q \in Workers PROVE HandsOf(q)'
    BY DEF Hands
  <2>1. CASE q = p
    BY <2>1, <1>a, <1>c DEF HandsOf, EmptyHanded
  <2>2. CASE q # p
    <3>1. w'[q] = w[q] /\ held'[q] = held[q] /\ held[q] \subseteq running'
      BY <2>2, <1>a DEF Moves, IInv, Hands, HandsOf
    <3>2. \A d \in held[q] : bind'[d] = bind[d]
      BY <2>2, <1>a, <1>c DEF IInv, TypeOK
    <3> QED BY <3>1, <3>2, OtherHands
  <2> QED BY <2>1, <2>2
<1>3. OneListener'
  BY DEF OneListener, ListenerFree
<1>4. SingleOwner'
  BY <1>a, <1>b DEF IInv, SingleOwner
<1>5. PublishedIsUp'
  <2>1. proxy # None => proxy # c /\ proxy \in Cores
    BY <1>0 DEF IInv, PublishedIsUp, TypeOK, Cores
  <2> QED BY <2>1, <1>c DEF IInv, PublishedIsUp, fields
<1>6. ListenerOwned'
  BY <1>a DEF ListenerOwned, ListenerFree
<1> QED BY <1>1, <1>2, <1>3, <1>4, <1>5, <1>6 DEF IInv

\* A forwarder core starts in p's hands; others may be running.
LEMMA StartForwarderStep ==
  ASSUME IInv, NEW p \in Workers, Moves(p), held[p] = {}, NEW c \in FwdCores \ running,
         running' = running \cup {c}, held' = [held EXCEPT ![p] = {c}],
         w'[p].pc = "commitFwd", UNCHANGED <<fields, bind>>
  PROVE  IInv'
<1> USE ConstantsOK
<1>a. /\ held'[p] = {c}
      /\ \A q \in Workers \ {p} : held'[q] = held[q] /\ c \notin held[q]
  BY DEF IInv, TypeOK, Hands, HandsOf
<1>b. c \notin Published /\ Published' = Published
  BY DEF IInv, PublishedIsUp, Published, fields
<1>c. running' \cap ProxyCores = running \cap ProxyCores
  OBVIOUS
<1>1. TypeOK'
  BY DEF IInv, TypeOK, Moves, fields, Cores
<1>2. Hands'
  <2> SUFFICES ASSUME NEW q \in Workers PROVE HandsOf(q)'
    BY DEF Hands
  <2>1. CASE q = p
    BY <2>1, <1>a DEF HandsOf, EmptyHanded
  <2>2. CASE q # p
    <3>1. w'[q] = w[q] /\ held'[q] = held[q] /\ held[q] \subseteq running' /\ bind' = bind
      BY <2>2, <1>a DEF Moves, IInv, Hands, HandsOf
    <3> QED BY <3>1, OtherHands
  <2> QED BY <2>1, <2>2
<1>3. OneListener'
  BY <1>c DEF IInv, OneListener
<1>4. SingleOwner'
  BY <1>a, <1>b DEF IInv, SingleOwner
<1>5. PublishedIsUp'
  BY DEF IInv, PublishedIsUp, fields
<1>6. ListenerOwned'
  <2> SUFFICES ASSUME NEW d \in ProxyCores \cap running
               PROVE  d = proxy' \/ \E q \in Workers : d \in held'[q]
    BY <1>c DEF ListenerOwned
  <2>1. d = proxy \/ \E q \in Workers : d \in held[q]
    BY DEF IInv, ListenerOwned
  <2> QED BY <2>1, <1>a DEF fields
<1> QED BY <1>1, <1>2, <1>3, <1>4, <1>5, <1>6 DEF IInv

\* committed: p keeps the core it holds and moves on with the same target.
LEMMA CommitStep ==
  ASSUME IInv, NEW p \in Workers, Moves(p), CoresUntouched, UNCHANGED <<state, gen>>,
         w'[p].target = w[p].target,
         \/ w[p].pc = "commit" /\ w'[p].pc \in {"discard", "publish"}
         \/ w[p].pc = "commitFwd" /\ w'[p].pc \in {"discardFwd", "publishFwd"}
  PROVE  IInv'
<1>1. TypeOK'
  BY DEF IInv, TypeOK, Moves, CoresUntouched
<1>2. Hands'
  <2> SUFFICES ASSUME NEW q \in Workers PROVE HandsOf(q)'
    BY DEF Hands
  <2>1. CASE q = p
    BY <2>1 DEF IInv, Hands, HandsOf, EmptyHanded, CoresUntouched
  <2>2. CASE q # p
    <3>1. w'[q] = w[q] /\ held[q] \subseteq running
      BY <2>2 DEF Moves, IInv, Hands, HandsOf
    <3> QED BY <3>1, OtherHands DEF CoresUntouched
  <2> QED BY <2>1, <2>2
<1>3. OneListener' /\ SingleOwner' /\ PublishedIsUp' /\ ListenerOwned'
  BY DEF IInv, OneListener, SingleOwner, PublishedIsUp, ListenerOwned, Published, CoresUntouched
<1> QED BY <1>1, <1>2, <1>3 DEF IInv

\* A worker that goes empty-handed by publishing the core it held.
PublishHands(p) ==
  /\ held' = [held EXCEPT ![p] = {}]
  /\ w'[p].pc \in EmptyHanded
  /\ UNCHANGED <<gen, running, bind>>

LEMMA PublishKeepsHands ==
  ASSUME IInv, NEW p \in Workers, Moves(p), PublishHands(p)
  PROVE  /\ Hands'
         /\ held'[p] = {}
         /\ \A q \in Workers \ {p} : held'[q] = held[q]
<1>1. held'[p] = {} /\ \A q \in Workers \ {p} : held'[q] = held[q]
  BY DEF IInv, TypeOK, PublishHands
<1>2. Hands'
  <2> SUFFICES ASSUME NEW q \in Workers PROVE HandsOf(q)'
    BY DEF Hands
  <2>1. CASE q = p
    BY <2>1, <1>1 DEF PublishHands, HandsOf, EmptyHanded
  <2>2. CASE q # p
    <3>1. w'[q] = w[q] /\ held'[q] = held[q] /\ held[q] \subseteq running' /\ bind' = bind
      BY <2>2, <1>1 DEF Moves, PublishHands, IInv, Hands, HandsOf
    <3> QED BY <3>1, OtherHands
  <2> QED BY <2>1, <2>2
<1> QED BY <1>1, <1>2

\* dialProxy overwrites m.proxy without closing it; since p's core has the listener,
\* nothing was published there.
LEMMA PublishProxyStep ==
  ASSUME IInv, NEW p \in Workers, Moves(p), PublishHands(p),
         NEW c \in ProxyCores, held[p] = {c}, bind[c] = w[p].target,
         proxy' = c, bound' = w[p].target, UNCHANGED <<state, fwd>>
  PROVE  IInv'
<1> USE ConstantsOK
<1>0. c \in running /\ c # None
  BY DEF IInv, Hands, HandsOf, Cores
<1>a. proxy = None
  <2> SUFFICES ASSUME proxy # None PROVE FALSE
    OBVIOUS
  <2>1. proxy \in ProxyCores \cap running
    BY DEF IInv, TypeOK, PublishedIsUp
  <2>2. proxy = c
    BY <2>1, <1>0 DEF IInv, OneListener
  <2> QED BY <2>2, <1>0 DEF IInv, SingleOwner, Published
<1>h. Hands' /\ held'[p] = {} /\ \A q \in Workers \ {p} : held'[q] = held[q]
  BY PublishKeepsHands
<1>1. TypeOK'
  BY DEF IInv, TypeOK, Moves, PublishHands, WorkerStates
<1>2. OneListener'
  BY DEF IInv, OneListener, PublishHands
<1>3. SingleOwner'
  <2>1. \A q \in Workers : held'[q] \subseteq held[q] /\ c \notin held'[q]
    BY <1>h DEF IInv, SingleOwner
  <2>2. Published' \subseteq Published \cup {c}
    BY DEF Published
  <2> QED BY <2>1, <2>2 DEF IInv, SingleOwner
<1>4. PublishedIsUp'
  BY <1>0 DEF IInv, PublishedIsUp, PublishHands
<1>5. ListenerOwned'
  BY <1>0 DEF IInv, OneListener, ListenerOwned, PublishHands
<1> QED BY <1>h, <1>1, <1>2, <1>3, <1>4, <1>5 DEF IInv

LEMMA PublishForwarderStep ==
  ASSUME IInv, NEW p \in Workers, Moves(p), PublishHands(p),
         NEW c \in FwdCores, held[p] = {c}, fwd' = c, state' \in States,
         UNCHANGED <<proxy, bound>>
  PROVE  IInv'
<1> USE ConstantsOK
<1>0. c \in running /\ c # None
  BY DEF IInv, Hands, HandsOf, Cores
<1>h. Hands' /\ held'[p] = {} /\ \A q \in Workers \ {p} : held'[q] = held[q]
  BY PublishKeepsHands
<1>1. TypeOK'
  BY DEF IInv, TypeOK, Moves, PublishHands
<1>2. OneListener'
  BY DEF IInv, OneListener, PublishHands
<1>3. SingleOwner'
  <2>1. \A q \in Workers : held'[q] \subseteq held[q] /\ c \notin held'[q]
    BY <1>h DEF IInv, SingleOwner
  <2>2. Published' \subseteq Published \cup {c}
    BY DEF Published
  <2> QED BY <2>1, <2>2 DEF IInv, SingleOwner
<1>4. PublishedIsUp'
  BY <1>0 DEF IInv, PublishedIsUp, PublishHands
<1>5. ListenerOwned'
  <2> SUFFICES ASSUME NEW d \in ProxyCores \cap running
               PROVE  d = proxy \/ \E q \in Workers : d \in held'[q]
    BY DEF ListenerOwned, PublishHands
  <2>1. d # c
    OBVIOUS
  <2>2. d = proxy \/ \E q \in Workers : d \in held[q]
    BY DEF IInv, ListenerOwned
  <2> QED BY <2>1, <2>2, <1>h
<1> QED BY <1>h, <1>1, <1>2, <1>3, <1>4, <1>5 DEF IInv

-----------------------------------------------------------------------------
(***************************************************************************)
(* One lemma per action.                                                   *)
(***************************************************************************)

\* A step that only moves the worker to where it holds no core.
LEMMA FreeStep ==
  ASSUME IInv, NEW p \in Workers, held[p] = {}, NEW r \in Locals, r.pc \in Free,
         Step(p, r), CoresUntouched, state' \in States, gen' = gen
  PROVE  IInv'
  BY StepFree, QuietStep DEF IInv, TypeOK

LEMMA CheckKeeps ==
  ASSUME IInv, NEW p \in Workers, Check(p) PROVE IInv'
<1>0. w[p] \in Locals /\ TypeOK /\ held[p] = {} /\ w[p].target \in Ifaces \cup {None}
      /\ bound \in Ifaces \cup {None} /\ state \in States
  BY LocalOfWorker DEF IInv, Hands, HandsOf, EmptyHanded, Check, TypeOK, WorkerStates
<1>f. ASSUME NEW r \in Locals, r.pc \in Free, Step(p, r), UNCHANGED <<fields, held>>
      PROVE  IInv'
  <2>1. CoresUntouched /\ state' \in States /\ gen' = gen
    BY <1>0, <1>f DEF CoresUntouched, fields, Check
  <2> QED BY <1>0, <1>f, <2>1, FreeStep
<1>a. /\ At(w[p], "ok") \in Locals /\ At(w[p], "ok").pc \in Free
      /\ At(w[p], "err") \in Locals /\ At(w[p], "err").pc \in Free
  BY <1>0, AtType DEF Free, Results
<1>1. CASE CheckStartProxy(p)
  <2>1. At(w[p], "orphans") \in Locals /\ At(w[p], "orphans").pc \in Free
    BY <1>0, AtType DEF Free, EmptyHanded, PCs
  <2>2. CASE proxy # None
    BY <1>1, <1>a, <1>f, <2>2 DEF CheckStartProxy
  <2>3. CASE proxy = None
    BY <1>1, <1>f, <2>1, <2>3 DEF CheckStartProxy
  <2> QED BY <2>2, <2>3
<1>2. CASE CheckStartForwarder(p)
  <2> DEFINE r == [At(w[p], "probe") EXCEPT !.prev = bound]
  <2>1. r \in Locals /\ r.pc \in Free
    BY <1>0 DEF At, Locals, Free, EmptyHanded, PCs
  <2>2. CASE state = "vpn"
    <3>1. Step(p, At(w[p], "ok"))
      BY <1>2, <2>2 DEF CheckStartForwarder
    <3> QED BY <1>2, <1>a, <1>f, <3>1 DEF CheckStartForwarder
  <2>3. CASE state # "vpn" /\ proxy = None
    <3>1. Step(p, At(w[p], "err"))
      BY <1>2, <2>3 DEF CheckStartForwarder
    <3> QED BY <1>2, <1>a, <1>f, <3>1 DEF CheckStartForwarder
  <2>4. CASE state # "vpn" /\ proxy # None
    <3>1. Step(p, r)
      BY <1>2, <2>4 DEF CheckStartForwarder
    <3> QED BY <1>2, <2>1, <1>f, <3>1 DEF CheckStartForwarder
  <2> QED BY <2>2, <2>3, <2>4
<1>3. CASE CheckStopForwarder(p)
  <2>1. At(w[p], "takeFwd") \in Locals /\ At(w[p], "takeFwd").pc \in Free
    BY <1>0, AtType DEF Free, EmptyHanded, PCs
  <2>2. CASE state = "vpn"
    BY <1>3, <1>f, <2>1, <2>2 DEF CheckStopForwarder
  <2>3. CASE state # "vpn"
    BY <1>3, <1>a, <1>f, <2>3 DEF CheckStopForwarder
  <2> QED BY <2>2, <2>3
<1>4. CASE CheckSuspend(p)
  <2>1. /\ At(w[p], "closeFwd") \in Locals /\ At(w[p], "closeFwd").pc = "closeFwd"
        /\ At(w[p], "closeFwd").op = "suspend"
    BY <1>0, <1>4, AtType DEF PCs, CheckSuspend
  <2>2. Moves(p) /\ w'[p].pc = "closeFwd" /\ w'[p].op = "suspend"
    BY <1>0, <1>4, <2>1, StepMoves DEF CheckSuspend, Results
  <2>3. UNCHANGED <<running, bind, state, gen>> /\ held' = [held EXCEPT ![p] = Published]
        /\ proxy' = None /\ fwd' = None /\ bound' = None
    BY <1>4 DEF CheckSuspend, Check, TakeBoth, Published
  <2>4. proxy' = (IF proxy \in Published THEN None ELSE proxy)
        /\ fwd' = (IF fwd \in Published THEN None ELSE fwd)
    BY <2>3 DEF Published
  <2>5. /\ gen' \in Nat /\ state' \in States /\ bound' \in Ifaces \cup {None}
        /\ proxy' # None => bound' = bound
    BY <1>0, <2>3 DEF TypeOK
  <2>6. running' = running /\ bind' = bind
    BY <2>3
  <2> QED BY <1>0, <2>2, <2>3, <2>4, <2>5, <2>6, TakeStep
<1>5. CASE CheckResume(p)
  <2>1. At(w[p], "dial") \in Locals /\ At(w[p], "dial").pc \in Free
    BY <1>0, AtType DEF Free, EmptyHanded, PCs
  <2>2. CASE state = "suspended" /\ proxy = None
    BY <1>5, <1>f, <2>1, <2>2 DEF CheckResume
  <2>3. CASE ~(state = "suspended" /\ proxy = None)
    BY <1>5, <1>a, <1>f, <2>3 DEF CheckResume
  <2> QED BY <2>2, <2>3
<1>6. CASE CheckBindPhysical(p)
  <2> DEFINE r == [Recreate(w[p], w[p].target) EXCEPT !.prev = bound]
  <2>1. r \in Locals /\ r.pc \in Free
    BY <1>0 DEF Recreate, Locals, Free, EmptyHanded, PCs
  <2>2. CASE state # "proxyOnly" \/ proxy = None
    <3>1. Step(p, At(w[p], "ok"))
      BY <1>6, <2>2 DEF CheckBindPhysical
    <3> QED BY <1>6, <1>a, <1>f, <3>1 DEF CheckBindPhysical
  <2>3. CASE state = "proxyOnly" /\ proxy # None /\ w[p].target = None
    <3>1. Step(p, At(w[p], "err"))
      BY <1>6, <2>3 DEF CheckBindPhysical
    <3> QED BY <1>6, <1>a, <1>f, <3>1 DEF CheckBindPhysical
  <2>4. CASE state = "proxyOnly" /\ proxy # None /\ w[p].target # None /\ bound = w[p].target
    <3>1. Step(p, At(w[p], "ok"))
      BY <1>6, <2>4 DEF CheckBindPhysical
    <3> QED BY <1>6, <1>a, <1>f, <3>1 DEF CheckBindPhysical
  <2>5. CASE state = "proxyOnly" /\ proxy # None /\ w[p].target # None /\ bound # w[p].target
    <3>1. Step(p, r)
      BY <1>6, <2>5 DEF CheckBindPhysical
    <3> QED BY <1>6, <2>1, <1>f, <3>1 DEF CheckBindPhysical
  <2> QED BY <2>2, <2>3, <2>4, <2>5
<1>7. CASE CheckUnbind(p)
  <2>1. Recreate(w[p], None) \in Locals /\ Recreate(w[p], None).pc \in Free
    BY <1>0, RecreateType DEF Free, EmptyHanded
  <2>2. CASE state = "proxyOnly"
    BY <1>7, <1>f, <2>1, <2>2 DEF CheckUnbind
  <2>3. CASE state # "proxyOnly"
    BY <1>7, <1>a, <1>f, <2>3 DEF CheckUnbind
  <2> QED BY <2>2, <2>3
<1>8. CASE CheckRefresh(p)
  <2>1. Recreate(w[p], bound) \in Locals /\ Recreate(w[p], bound).pc \in Free
    BY <1>0, RecreateType DEF Free, EmptyHanded
  <2>2. CASE proxy = None
    BY <1>8, <1>a, <1>f, <2>2 DEF CheckRefresh
  <2>3. CASE proxy # None
    BY <1>8, <1>f, <2>1, <2>3 DEF CheckRefresh
  <2> QED BY <2>2, <2>3
<1> QED BY <1>1, <1>2, <1>3, <1>4, <1>5, <1>6, <1>7, <1>8 DEF Check

\* The facts about worker p that every action lemma starts from.
LEMMA Basics ==
  ASSUME IInv, NEW p \in Workers
  PROVE  /\ TypeOK /\ w[p] \in Locals
         /\ w[p].target \in Ifaces \cup {None} /\ state \in States /\ gen \in Nat
         /\ w[p].pc \in EmptyHanded => held[p] = {}
  BY LocalOfWorker DEF IInv, Hands, HandsOf, TypeOK, WorkerStates

LEMMA CleanupOrphansKeeps ==
  ASSUME IInv, NEW p \in Workers, CleanupOrphans(p) PROVE IInv'
<1>1. w[p] \in Locals /\ held[p] = {} /\ state \in States
  BY Basics DEF CleanupOrphans, EmptyHanded
<1>2. CoresUntouched /\ state' \in States /\ gen' = gen
  BY <1>1 DEF CleanupOrphans, CoresUntouched, fields
<1>3. PICK ok \in BOOLEAN : Step(p, At(w[p], IF ok THEN "dial" ELSE "err"))
  BY DEF CleanupOrphans
<1> DEFINE l == IF ok THEN "dial" ELSE "err"
<1>4. l \in PCs \cup Results /\ l \in Free
  BY DEF PCs, Results, Free, EmptyHanded
<1>5. At(w[p], l) \in Locals /\ At(w[p], l).pc \in Free
  BY <1>1, <1>4, AtType
<1> QED BY <1>1, <1>2, <1>3, <1>5, FreeStep

LEMMA SetStateKeeps ==
  ASSUME IInv, NEW p \in Workers, SetState(p) PROVE IInv'
<1>1. w[p] \in Locals /\ held[p] = {} /\ state \in States
  BY Basics DEF SetState, EmptyHanded
<1>2. CoresUntouched /\ state' \in States /\ gen' = gen
  BY <1>1 DEF SetState, CoresUntouched, Locals
<1> DEFINE l == IF w[p].stage = "rollback" \/ w[p].to = "stopped" THEN "err" ELSE "ok"
<1>3. l \in PCs \cup Results /\ l \in Free
  BY DEF Results, Free
<1>4. At(w[p], l) \in Locals /\ At(w[p], l).pc \in Free
  BY <1>1, <1>3, AtType
<1>5. Step(p, At(w[p], l))
  BY DEF SetState
<1> QED BY <1>1, <1>2, <1>4, <1>5, FreeStep

LEMMA ProbeInterfaceKeeps ==
  ASSUME IInv, NEW p \in Workers, ProbeInterface(p) PROVE IInv'
<1>1. w[p] \in Locals /\ held[p] = {} /\ state \in States
  BY Basics DEF ProbeInterface, EmptyHanded
<1>2. CoresUntouched /\ state' \in States /\ gen' = gen
  BY <1>1 DEF ProbeInterface, CoresUntouched, fields
<1>3. CASE Step(p, At(w[p], "err"))
  <2>1. At(w[p], "err") \in Locals /\ At(w[p], "err").pc \in Free
    BY <1>1, AtType DEF Results, Free
  <2> QED BY <1>1, <1>2, <1>3, <2>1, FreeStep
<1>4. CASE \E i \in Ifaces : Step(p, Recreate(w[p], i))
  <2>1. PICK i \in Ifaces : Step(p, Recreate(w[p], i))
    BY <1>4
  <2>2. Recreate(w[p], i) \in Locals /\ Recreate(w[p], i).pc \in Free
    BY <1>1, RecreateType DEF Free, EmptyHanded
  <2> QED BY <1>1, <1>2, <2>1, <2>2, FreeStep
<1> QED BY <1>3, <1>4 DEF ProbeInterface

LEMMA TakeProxyKeeps ==
  ASSUME IInv, NEW p \in Workers, TakeProxy(p) PROVE IInv'
<1> DEFINE T == {proxy} \ {None}
<1>1. TypeOK /\ w[p] \in Locals /\ held[p] = {} /\ state \in States /\ gen \in Nat
  BY Basics DEF TakeProxy, EmptyHanded
<1>2. At(w[p], "closeProxy") \in Locals /\ At(w[p], "closeProxy").pc = "closeProxy"
  BY <1>1, AtType DEF PCs
<1>3. Moves(p) /\ w'[p].pc = "closeProxy"
  BY <1>1, <1>2, StepMoves DEF TakeProxy, Results
<1>4. T \subseteq Published /\ T \subseteq ProxyCores
  BY <1>1 DEF Published, TypeOK
<1>5. /\ proxy' = (IF proxy \in T THEN None ELSE proxy)
      /\ fwd' = (IF fwd \in T THEN None ELSE fwd)
      /\ proxy' # None => bound' = bound
  BY <1>1, ConstantsOK DEF TakeProxy, TypeOK, Cores
<1>6. /\ held' = [held EXCEPT ![p] = T] /\ running' = running /\ bind' = bind
      /\ state' \in States /\ bound' \in Ifaces \cup {None} /\ gen' \in Nat
  BY <1>1 DEF TakeProxy, TypeOK
<1> HIDE DEF T
<1> QED BY <1>1, <1>3, <1>4, <1>5, <1>6, TakeStep

LEMMA TakeForwarderKeeps ==
  ASSUME IInv, NEW p \in Workers, TakeForwarder(p) PROVE IInv'
<1> DEFINE T == {fwd} \ {None}
<1>1. TypeOK /\ w[p] \in Locals /\ held[p] = {} /\ state \in States /\ gen \in Nat
  BY Basics DEF TakeForwarder, EmptyHanded
<1>2. At(w[p], "closeFwd") \in Locals /\ At(w[p], "closeFwd").pc = "closeFwd"
  BY <1>1, AtType DEF PCs
<1>3. Moves(p) /\ w'[p].pc = "closeFwd"
  BY <1>1, <1>2, StepMoves DEF TakeForwarder, Results
<1>4. T \subseteq Published /\ T \subseteq FwdCores
  BY <1>1 DEF Published, TypeOK
<1>5. /\ proxy' = (IF proxy \in T THEN None ELSE proxy)
      /\ fwd' = (IF fwd \in T THEN None ELSE fwd)
      /\ proxy' # None => bound' = bound
  BY <1>1, ConstantsOK DEF TakeForwarder, TypeOK, Cores
<1>6. /\ held' = [held EXCEPT ![p] = T] /\ running' = running /\ bind' = bind
      /\ state' \in States /\ bound' \in Ifaces \cup {None} /\ gen' \in Nat
  BY <1>1 DEF TakeForwarder, TypeOK
<1> HIDE DEF T
<1> QED BY <1>1, <1>3, <1>4, <1>5, <1>6, TakeStep

\* RefreshProxy's error path takes the forwarder only when no proxy is published.
LEMMA StrandKeeps ==
  ASSUME IInv, NEW p \in Workers, Strand(p) PROVE IInv'
<1>1. TypeOK /\ w[p] \in Locals /\ held[p] = {} /\ state \in States /\ gen \in Nat
  BY Basics DEF Strand, EmptyHanded
<1>2. CASE w[p].gen = gen /\ proxy = None
  <2> DEFINE T == {fwd} \ {None}
  <2>1. At(w[p], "closeFwd") \in Locals /\ At(w[p], "closeFwd").pc = "closeFwd"
    BY <1>1, AtType DEF PCs
  <2>2. Moves(p) /\ w'[p].pc = "closeFwd"
    BY <1>1, <1>2, <2>1, StepMoves DEF Strand, Results
  <2>3. T \subseteq Published /\ T \subseteq FwdCores
    BY <1>1 DEF Published, TypeOK
  <2>4. /\ proxy' = (IF proxy \in T THEN None ELSE proxy)
        /\ fwd' = (IF fwd \in T THEN None ELSE fwd)
        /\ proxy' # None => bound' = bound
    BY <1>2 DEF Strand
  <2>5. /\ held' = [held EXCEPT ![p] = T] /\ running' = running /\ bind' = bind
        /\ state' \in States /\ bound' \in Ifaces \cup {None} /\ gen' \in Nat
    BY <1>1, <1>2 DEF Strand, States
  <2> HIDE DEF T
  <2> QED BY <1>1, <2>2, <2>3, <2>4, <2>5, TakeStep
<1>3. CASE ~(w[p].gen = gen /\ proxy = None)
  <2>1. At(w[p], "err") \in Locals /\ At(w[p], "err").pc \in Free
    BY <1>1, AtType DEF Results, Free
  <2>2. CoresUntouched /\ state' \in States /\ gen' = gen /\ Step(p, At(w[p], "err"))
    BY <1>1, <1>3 DEF Strand, CoresUntouched
  <2> QED BY <1>1, <2>1, <2>2, FreeStep
<1> QED BY <1>2, <1>3

\* A worker that closes everything it holds and goes on empty-handed.
LEMMA CloseAll ==
  ASSUME IInv, NEW p \in Workers, NEW S, held[p] \subseteq S, CloseHeld(p, S),
         NEW r \in Locals, r.pc \in Free, Step(p, r), UNCHANGED <<fields, bind>>
  PROVE  IInv'
<1>1. Moves(p) /\ w'[p].pc \in EmptyHanded
  BY StepFree DEF IInv
<1> QED BY <1>1, CloseStep

LEMMA CloseProxyKeeps ==
  ASSUME IInv, NEW p \in Workers, CloseProxy(p) PROVE IInv'
<1>1. w[p] \in Locals /\ CloseHeld(p, ProxyCores) /\ UNCHANGED <<fields, bind>>
  BY Basics DEF CloseProxy
<1>2. held[p] \subseteq ProxyCores
  BY DEF CloseProxy, IInv, Hands, HandsOf
<1>3. CASE w[p].op = "suspend"
  <2>1. SetTo(w[p], "suspended") \in Locals /\ SetTo(w[p], "suspended").pc \in Free
    BY <1>1, SetToType DEF States, Free, EmptyHanded
  <2>2. Step(p, SetTo(w[p], "suspended"))
    BY <1>3 DEF CloseProxy
  <2> QED BY <1>1, <1>2, <2>1, <2>2, CloseAll
<1>4. CASE w[p].op = "shutdown"
  <2>1. PICK res \in {"ok", "err"} : Step(p, At(w[p], res))
    BY <1>4 DEF CloseProxy
  <2>2. At(w[p], res) \in Locals /\ At(w[p], res).pc \in Free
    BY <1>1, AtType DEF Results, Free
  <2> QED BY <1>1, <1>2, <2>1, <2>2, CloseAll
<1>5. CASE w[p].op \notin {"suspend", "shutdown"}
  <2>1. At(w[p], "dial") \in Locals /\ At(w[p], "dial").pc \in Free
    BY <1>1, AtType DEF PCs, Free, EmptyHanded
  <2>2. Step(p, At(w[p], "dial"))
    BY <1>5 DEF CloseProxy
  <2> QED BY <1>1, <1>2, <2>1, <2>2, CloseAll
<1> QED BY <1>3, <1>4, <1>5

LEMMA DiscardProxyKeeps ==
  ASSUME IInv, NEW p \in Workers, DiscardProxy(p) PROVE IInv'
<1>1. w[p] \in Locals /\ CloseHeld(p, ProxyCores) /\ UNCHANGED <<fields, bind>>
  BY Basics DEF DiscardProxy
<1>2. held[p] \subseteq ProxyCores
  BY DEF DiscardProxy, IInv, Hands, HandsOf
<1>3. AfterDial(w[p], FALSE) \in Locals /\ AfterDial(w[p], FALSE).pc \in Free
  BY <1>1, AfterDialType
<1>4. Step(p, AfterDial(w[p], FALSE))
  BY DEF DiscardProxy
<1> QED BY <1>1, <1>2, <1>3, <1>4, CloseAll

LEMMA DiscardForwarderKeeps ==
  ASSUME IInv, NEW p \in Workers, DiscardForwarder(p) PROVE IInv'
<1>1. w[p] \in Locals /\ CloseHeld(p, FwdCores) /\ UNCHANGED <<fields, bind>>
  BY Basics DEF DiscardForwarder
<1>2. held[p] \subseteq FwdCores
  BY DEF DiscardForwarder, IInv, Hands, HandsOf
<1>3. At(w[p], "err") \in Locals /\ At(w[p], "err").pc \in Free
  BY <1>1, AtType DEF Results, Free
<1>4. Step(p, At(w[p], "err"))
  BY DEF DiscardForwarder
<1> QED BY <1>1, <1>2, <1>3, <1>4, CloseAll

LEMMA DialProxyKeeps ==
  ASSUME IInv, NEW p \in Workers, DialProxy(p) PROVE IInv'
<1>1. TypeOK /\ w[p] \in Locals /\ held[p] = {} /\ state \in States /\ UNCHANGED fields
  BY Basics DEF DialProxy, EmptyHanded
<1>2. CASE Step(p, AfterDial(w[p], FALSE)) /\ UNCHANGED <<running, bind, held>>
  <2>1. AfterDial(w[p], FALSE) \in Locals /\ AfterDial(w[p], FALSE).pc \in Free
    BY <1>1, AfterDialType
  <2>2. CoresUntouched /\ state' \in States /\ gen' = gen
    BY <1>1, <1>2 DEF CoresUntouched, fields
  <2> QED BY <1>1, <1>2, <2>1, <2>2, FreeStep
<1>3. ASSUME NEW c \in ProxyCores, ListenerFree, running' = running \cup {c},
             bind' = [bind EXCEPT ![c] = w[p].target], held' = [held EXCEPT ![p] = {c}],
             Step(p, At(w[p], "commit"))
      PROVE  IInv'
  <2>1. At(w[p], "commit") \in Locals /\ At(w[p], "commit").pc = "commit"
        /\ At(w[p], "commit").target = w[p].target
    BY <1>1, AtType DEF PCs
  <2>2. Moves(p) /\ w'[p].pc = "commit" /\ w'[p].target = w[p].target
    BY <1>1, <1>3, <2>1, StepMoves DEF Results
  <2> QED BY <1>1, <1>3, <2>2, StartProxyStep
<1> QED BY <1>2, <1>3 DEF DialProxy

LEMMA DialForwarderKeeps ==
  ASSUME IInv, NEW p \in Workers, DialForwarder(p) PROVE IInv'
<1>1. /\ TypeOK /\ w[p] \in Locals /\ held[p] = {} /\ state \in States
      /\ UNCHANGED <<fields, bind>>
  BY Basics DEF DialForwarder, EmptyHanded
<1>2. CASE Step(p, Rollback(w[p])) /\ UNCHANGED <<running, held>>
  <2>1. Rollback(w[p]) \in Locals /\ Rollback(w[p]).pc \in Free
    BY <1>1, RollbackType DEF Free, EmptyHanded
  <2>2. CoresUntouched /\ state' \in States /\ gen' = gen
    BY <1>1, <1>2 DEF CoresUntouched, fields
  <2> QED BY <1>1, <1>2, <2>1, <2>2, FreeStep
<1>3. ASSUME NEW c \in FwdCores \ running, running' = running \cup {c},
             held' = [held EXCEPT ![p] = {c}], Step(p, At(w[p], "commitFwd"))
      PROVE  IInv'
  <2>1. At(w[p], "commitFwd") \in Locals /\ At(w[p], "commitFwd").pc = "commitFwd"
    BY <1>1, AtType DEF PCs
  <2>2. Moves(p) /\ w'[p].pc = "commitFwd"
    BY <1>1, <1>3, <2>1, StepMoves DEF Results
  <2> QED BY <1>1, <1>3, <2>2, StartForwarderStep
<1> QED BY <1>2, <1>3 DEF DialForwarder

LEMMA CommitProxyKeeps ==
  ASSUME IInv, NEW p \in Workers, CommitProxy(p) PROVE IInv'
<1> DEFINE l == IF w[p].gen = gen THEN "publish" ELSE "discard"
<1>1. TypeOK /\ w[p] \in Locals /\ Step(p, At(w[p], l)) /\ w[p].pc = "commit"
  BY Basics DEF CommitProxy
<1>2. l \in {"discard", "publish"} /\ l \in PCs \cup Results /\ l \notin Results
  BY DEF PCs, Results
<1> HIDE DEF l
<1>3. At(w[p], l) \in Locals /\ At(w[p], l).pc = l /\ At(w[p], l).target = w[p].target
  BY <1>1, <1>2, AtType
<1>4. Moves(p) /\ w'[p].pc \in {"discard", "publish"} /\ w'[p].target = w[p].target
  BY <1>1, <1>2, <1>3, StepMoves
<1>5. CoresUntouched /\ UNCHANGED <<state, gen>>
  BY DEF CommitProxy, CoresUntouched, fields
<1> QED BY <1>1, <1>4, <1>5, CommitStep

LEMMA CommitForwarderKeeps ==
  ASSUME IInv, NEW p \in Workers, CommitForwarder(p) PROVE IInv'
<1> DEFINE l == IF w[p].gen = gen THEN "publishFwd" ELSE "discardFwd"
<1>1. TypeOK /\ w[p] \in Locals /\ Step(p, At(w[p], l)) /\ w[p].pc = "commitFwd"
  BY Basics DEF CommitForwarder
<1>2. l \in {"discardFwd", "publishFwd"} /\ l \in PCs \cup Results /\ l \notin Results
  BY DEF PCs, Results
<1> HIDE DEF l
<1>3. At(w[p], l) \in Locals /\ At(w[p], l).pc = l /\ At(w[p], l).target = w[p].target
  BY <1>1, <1>2, AtType
<1>4. Moves(p) /\ w'[p].pc \in {"discardFwd", "publishFwd"} /\ w'[p].target = w[p].target
  BY <1>1, <1>2, <1>3, StepMoves
<1>5. CoresUntouched /\ UNCHANGED <<state, gen>>
  BY DEF CommitForwarder, CoresUntouched, fields
<1> QED BY <1>1, <1>4, <1>5, CommitStep

LEMMA PublishProxyKeeps ==
  ASSUME IInv, NEW p \in Workers, PublishProxy(p) PROVE IInv'
<1>1. TypeOK /\ w[p] \in Locals
  BY Basics
<1>2. AfterDial(w[p], TRUE) \in Locals /\ AfterDial(w[p], TRUE).pc \in Free
  BY <1>1, AfterDialType
<1>3. Moves(p) /\ w'[p].pc \in EmptyHanded
  BY <1>1, <1>2, StepFree DEF PublishProxy
<1>4. PICK c \in ProxyCores : held[p] = {c} /\ bind[c] = w[p].target
  BY DEF PublishProxy, IInv, Hands, HandsOf
<1>5. proxy' = c /\ bound' = w[p].target /\ UNCHANGED <<state, fwd>>
  BY <1>4 DEF PublishProxy
<1>6. PublishHands(p)
  BY <1>3 DEF PublishProxy, PublishHands
<1> QED BY <1>3, <1>4, <1>5, <1>6, PublishProxyStep

LEMMA PublishForwarderKeeps ==
  ASSUME IInv, NEW p \in Workers, PublishForwarder(p) PROVE IInv'
<1>1. TypeOK /\ w[p] \in Locals
  BY Basics
<1>2. At(w[p], "ok") \in Locals /\ At(w[p], "ok").pc \in Free
  BY <1>1, AtType DEF Results, Free
<1>3. Moves(p) /\ w'[p].pc \in EmptyHanded
  BY <1>1, <1>2, StepFree DEF PublishForwarder
<1>4. PICK c \in FwdCores : held[p] = {c}
  BY DEF PublishForwarder, IInv, Hands, HandsOf
<1>5. fwd' = c /\ state' \in States /\ UNCHANGED <<proxy, bound>>
  BY <1>4 DEF PublishForwarder, States
<1>6. PublishHands(p)
  BY <1>3 DEF PublishForwarder, PublishHands
<1> QED BY <1>3, <1>4, <1>5, <1>6, PublishForwarderStep

LEMMA CloseForwarderKeeps ==
  ASSUME IInv, NEW p \in Workers, CloseForwarder(p) PROVE IInv'
<1>1. /\ TypeOK /\ w[p] \in Locals /\ CloseHeld(p, FwdCores) /\ UNCHANGED <<fields, bind>>
      /\ held[p] \subseteq FwdCores \cup ProxyCores
  BY Basics DEF CloseForwarder, TypeOK, Cores
<1>2. CASE w[p].op \in {"suspend", "shutdown"}
  <2>1. At(w[p], "closeProxy") \in Locals /\ At(w[p], "closeProxy").pc = "closeProxy"
    BY <1>1, AtType DEF PCs
  <2>2. Step(p, At(w[p], "closeProxy"))
    BY <1>2 DEF CloseForwarder
  <2>3. Moves(p) /\ w'[p].pc = "closeProxy"
    BY <1>1, <2>1, <2>2, StepMoves DEF Results
  <2>4. w'[p].pc \notin EmptyHanded
    BY <2>3 DEF EmptyHanded
  <2> QED BY <1>1, <2>3, <2>4, CloseStep
<1>3. CASE w[p].op = "refresh"
  <2>1. At(w[p], "err") \in Locals /\ At(w[p], "err").pc \in Free
    BY <1>1, AtType DEF Results, Free
  <2>2. Step(p, At(w[p], "err"))
    BY <1>3 DEF CloseForwarder
  <2>3. held[p] \subseteq FwdCores
    BY <1>3 DEF CloseForwarder, IInv, Hands, HandsOf
  <2> QED BY <1>1, <2>1, <2>2, <2>3, CloseAll
<1>4. CASE w[p].op \notin {"suspend", "shutdown", "refresh"}
  <2>1. Recreate(w[p], None) \in Locals /\ Recreate(w[p], None).pc \in Free
    BY <1>1, RecreateType DEF Free, EmptyHanded
  <2>2. Step(p, Recreate(w[p], None))
    BY <1>4 DEF CloseForwarder
  <2>3. held[p] \subseteq FwdCores
    BY <1>4 DEF CloseForwarder, IInv, Hands, HandsOf
  <2> QED BY <1>1, <2>1, <2>2, <2>3, CloseAll
<1> QED BY <1>2, <1>3, <1>4

LEMMA TransitionKeeps ==
  ASSUME IInv, NEW c \in Clients, NEW p \in Workers, NEW op \in Ops,
         NEW t \in Ifaces \cup {None}, Transition(c, p, op, t)
  PROVE  IInv'
<1> DEFINE r == [Idle EXCEPT !.op = op, !.pc = "check", !.gen = gen, !.target = t]
<1>1. TypeOK /\ held[p] = {} /\ state \in States /\ gen \in Nat
  BY Basics DEF Transition, EmptyHanded
<1>2. r \in WorkerStates /\ r.pc = "check"
  BY <1>1, IdleType DEF Idle, WorkerStates, PCs
<1>3. w' = [w EXCEPT ![p] = r] /\ caller' = [caller EXCEPT ![c] = p]
  BY DEF Transition
<1> HIDE DEF r
<1>4. Moves(p) /\ w'[p].pc \in EmptyHanded
  BY <1>1, <1>2, <1>3 DEF TypeOK, Moves, EmptyHanded
<1>5. CoresUntouched /\ state' \in States /\ gen' \in Nat
  BY <1>1 DEF Transition, CoresUntouched, fields
<1> QED BY <1>1, <1>4, <1>5, QuietStep

LEMMA ShutdownKeeps ==
  ASSUME IInv, NEW c \in Clients, NEW p \in Workers, Shutdown(c, p) PROVE IInv'
<1> DEFINE r == [Idle EXCEPT !.op = "shutdown", !.pc = "closeFwd", !.gen = gen']
<1>1. TypeOK /\ held[p] = {} /\ gen \in Nat
  BY Basics DEF Shutdown, EmptyHanded
<1>2. gen' \in Nat
  BY <1>1 DEF Shutdown
<1>3. r \in WorkerStates /\ r.pc = "closeFwd" /\ r.op = "shutdown"
  BY <1>2, IdleType DEF Idle, WorkerStates, PCs
<1>4. w' = [w EXCEPT ![p] = r] /\ caller' = [caller EXCEPT ![c] = p]
  BY DEF Shutdown
<1> HIDE DEF r
<1>5. Moves(p) /\ w'[p].pc = "closeFwd" /\ w'[p].op = "shutdown"
  BY <1>1, <1>3, <1>4 DEF TypeOK, Moves
<1>6. /\ held' = [held EXCEPT ![p] = Published] /\ running' = running /\ bind' = bind
      /\ proxy' = None /\ fwd' = None /\ bound' = bound /\ state' \in States
  BY DEF Shutdown, TakeBoth, Published, States
<1>7. /\ proxy' = (IF proxy \in Published THEN None ELSE proxy)
      /\ fwd' = (IF fwd \in Published THEN None ELSE fwd)
      /\ bound' \in Ifaces \cup {None}
  BY <1>1, <1>6 DEF Published, TypeOK
<1> QED BY <1>1, <1>2, <1>5, <1>6, <1>7, TakeStep

LEMMA TimeOutKeeps ==
  ASSUME IInv, NEW c \in Clients, TimeOut(c) PROVE IInv'
<1>1. TypeOK'
  BY DEF IInv, TypeOK, TimeOut, fields, Results
<1>2. Hands' /\ OneListener' /\ SingleOwner' /\ PublishedIsUp' /\ ListenerOwned'
  BY DEF IInv, TimeOut, fields, Hands, HandsOf, OneListener, SingleOwner, PublishedIsUp,
         ListenerOwned, Published
<1> QED BY <1>1, <1>2 DEF IInv

LEMMA StutterKeeps == ASSUME IInv, UNCHANGED vars PROVE IInv'
<1>1. TypeOK'
  BY DEF IInv, TypeOK, vars, fields
<1>2. Hands' /\ OneListener' /\ SingleOwner' /\ PublishedIsUp' /\ ListenerOwned'
  BY DEF IInv, vars, fields, Hands, HandsOf, OneListener, SingleOwner, PublishedIsUp,
         ListenerOwned, Published
<1> QED BY <1>1, <1>2 DEF IInv

LEMMA WorkKeeps ==
  ASSUME IInv, NEW p \in Workers, Work(p) PROVE IInv'
  BY CheckKeeps, CleanupOrphansKeeps, SetStateKeeps, StrandKeeps, TakeProxyKeeps,
     CloseProxyKeeps, DialProxyKeeps, CommitProxyKeeps, DiscardProxyKeeps,
     PublishProxyKeeps, ProbeInterfaceKeeps, DialForwarderKeeps, CommitForwarderKeeps,
     DiscardForwarderKeeps, PublishForwarderKeeps, TakeForwarderKeeps,
     CloseForwarderKeeps DEF Work

-----------------------------------------------------------------------------
(***************************************************************************)
(* The invariant and what follows from it.                                 *)
(***************************************************************************)

\* A new manager has no core, published or held.
LEMMA InitIInv == ASSUME Init PROVE IInv
<1> USE ConstantsOK
<1>1. TypeOK
  BY IdleType DEF Init, TypeOK, States, Cores, Results
<1>2. Hands
  BY DEF Init, Hands, HandsOf, Idle
<1>3. OneListener /\ SingleOwner /\ PublishedIsUp /\ ListenerOwned
  BY DEF Init, OneListener, SingleOwner, PublishedIsUp, ListenerOwned, Published
<1> QED BY <1>1, <1>2, <1>3 DEF IInv

\* Every call, timeout and worker step of the manager preserves the invariant.
LEMMA NextKeeps == ASSUME IInv, [Next]_vars PROVE IInv'
<1>1. ASSUME NEW c \in Clients, NEW p \in Workers, Call(c, p) PROVE IInv'
  <2>1. ASSUME NEW op \in Ops, NEW t \in Targets(op), Transition(c, p, op, t)
        PROVE  IInv'
    <3>1. t \in Ifaces \cup {None}
      BY <2>1 DEF Targets
    <3> QED BY <2>1, <3>1, TransitionKeeps
  <2> QED BY <1>1, <2>1, ShutdownKeeps DEF Call
<1>2. ASSUME NEW c \in Clients, TimeOut(c) PROVE IInv'
  BY <1>2, TimeOutKeeps
<1>3. ASSUME NEW p \in Workers, Work(p) PROVE IInv'
  BY <1>3, WorkKeeps
<1>4. CASE UNCHANGED vars
  BY <1>4, StutterKeeps
<1> QED BY <1>1, <1>2, <1>3, <1>4 DEF Next

\* What every worker of the manager holds is determined by where it is in its
\* method, in every reachable state of any number of overlapping transitions.
THEOREM Invariance == Spec => []IInv
<1>1. Init => IInv
  BY InitIInv
<1>2. IInv /\ [Next]_vars => IInv'
  BY NextKeeps
<1> QED BY <1>1, <1>2, PTL DEF Spec

\* The fields of Manager, the cores and the goroutines' locals keep their types.
THEOREM TypeCorrect == Spec => []TypeOK
<1>1. IInv => TypeOK
  BY DEF IInv
<1> QED BY <1>1, Invariance, PTL

\* No core of the manager has two owners: none is closed twice, and none is closed
\* by one goroutine while another is about to publish it.
THEOREM CoreHasOneOwner == Spec => []SingleOwner
<1>1. IInv => SingleOwner
  BY DEF IInv
<1> QED BY <1>1, Invariance, PTL

\* m.proxy, m.fwd and m.bound never lie about a running core, although every method
\* drops the mutex around its slow calls and transitions overlap at will.
THEOREM FieldsTellTheTruth == Spec => []PublishedIsUp
<1>1. IInv => PublishedIsUp
  BY DEF IInv
<1> QED BY <1>1, Invariance, PTL

\* No interleaving of transitions, timeouts and Shutdowns leaks a proxy listener.
THEOREM ListenerNeverLeaks == Spec => []ListenerOwned
<1>1. IInv => ListenerOwned
  BY DEF IInv
<1> QED BY <1>1, Invariance, PTL

-----------------------------------------------------------------------------
(* One worker at a time. *)

OneWorker == \A p, q \in Workers : p = q

\* The state is what the published cores are.
Consistent ==
  /\ state = "vpn" => fwd # None /\ proxy # None /\ bound # None
  /\ state = "proxyOnly" => proxy # None /\ fwd = None
  /\ state = "suspended" => proxy = None /\ fwd = None
  /\ state = "stopped" => fwd = None

\* RefreshProxy keeps a forwarder up, and then gives the new proxy the old binding.
Refreshing(t) ==
  /\ state # "suspended"
  /\ state = "vpn" <=> fwd # None
  /\ state = "vpn" => t # None

\* A proxy is being replaced or started: dialProxy and recreateProxy, and the closing
\* of a proxy that was taken for good.
Dialling(p) ==
  /\ w[p].op # "none"
  /\ w[p].stage = "rollback" => w[p].op \in {"startForwarder", "bindPhysical"}
  /\ w[p].op # "refresh" => fwd = None
  /\ w[p].op \in {"startProxy", "resume"} => Consistent /\ w[p].pc # "take"
  /\ w[p].op = "startForwarder" /\ w[p].stage = "main" => w[p].target # None
  /\ w[p].op \in {"bindPhysical", "unbind"} /\ w[p].stage = "main" => state = "proxyOnly"
  /\ w[p].op = "refresh" => Refreshing(w[p].target)
  /\ w[p].op \in {"suspend", "shutdown"} => w[p].pc = "closeProxy"
  /\ w[p].op = "shutdown" => state = "stopped"

\* Where the only worker is tells what is published.
Place(p) ==
  /\ w[p].pc # "idle" => w[p].gen = gen
  /\ w[p].pc \notin {"discard", "discardFwd"}
  /\ w[p].pc \in {"idle", "check", "orphans", "probe", "takeFwd"} => Consistent
  /\ w[p].pc = "check" => w[p].op # "none" /\ w[p].stage = "main"
  /\ w[p].pc = "orphans" => w[p].op = "startProxy" /\ w[p].stage = "main" /\ proxy = None
  /\ w[p].pc = "probe" => w[p].op = "startForwarder" /\ w[p].stage = "main" /\ fwd = None
  /\ w[p].pc = "takeFwd" => w[p].op \in {"stopForwarder", "forwarderExited"} /\ w[p].stage = "main"
  /\ w[p].pc = "closeFwd" =>
       /\ fwd = None /\ w[p].stage = "main"
       /\ w[p].op \in {"suspend", "shutdown", "refresh", "stopForwarder", "forwarderExited"}
       /\ w[p].op \in {"suspend", "shutdown", "refresh"} => proxy = None
       /\ w[p].op \in {"shutdown", "refresh"} => state = "stopped"
  /\ w[p].pc \in {"take", "closeProxy", "dial", "commit", "publish"} => Dialling(p)
  /\ w[p].pc \in {"closeProxy", "dial", "commit", "publish"} => proxy = None
  /\ w[p].pc \in {"dialFwd", "commitFwd", "publishFwd"} =>
       /\ w[p].op = "startForwarder" /\ w[p].stage = "main"
       /\ proxy # None /\ bound # None /\ fwd = None
  /\ w[p].pc = "setState" =>
       /\ fwd = None /\ w[p].to # "vpn"
       /\ w[p].to = "proxyOnly" => proxy # None
       /\ w[p].to = "suspended" => proxy = None
  /\ w[p].pc = "strand" =>
       /\ w[p].op = "refresh" /\ w[p].stage = "main" /\ state # "suspended"
       /\ state = "vpn" <=> fwd # None
       /\ proxy # None /\ state = "vpn" => bound # None
       /\ state = "proxyOnly" => fwd = None

\* No core runs out of reach of the manager and its worker.
AllInReach == \A p \in Workers : running = Published \cup held[p]

SeqInv ==
  /\ IInv /\ AllInReach /\ NoTunLoop
  /\ \A p \in Workers : Place(p)

-----------------------------------------------------------------------------
(* Where the local updates of a worker lead. *)

LEMMA AtIs ==
  ASSUME NEW r \in Locals, NEW label \in PCs \cup Results
  PROVE  /\ At(r, label) \in Locals /\ At(r, label).pc = label
         /\ At(r, label).op = r.op /\ At(r, label).gen = r.gen
         /\ At(r, label).stage = r.stage /\ At(r, label).target = r.target
BY DEF At, Locals

LEMMA SetToIs ==
  ASSUME NEW r \in Locals, NEW s \in States
  PROVE  /\ SetTo(r, s) \in Locals /\ SetTo(r, s).pc = "setState"
         /\ SetTo(r, s).to = s /\ SetTo(r, s).gen = r.gen
BY DEF SetTo, Locals, PCs

LEMMA RecreateIs ==
  ASSUME NEW r \in Locals, NEW t \in Ifaces \cup {None}
  PROVE  /\ Recreate(r, t) \in Locals /\ Recreate(r, t).pc = "take"
         /\ Recreate(r, t).op = r.op /\ Recreate(r, t).gen = r.gen
         /\ Recreate(r, t).stage = r.stage /\ Recreate(r, t).target = t
BY DEF Recreate, Locals, PCs

LEMMA RollbackIs ==
  ASSUME NEW r \in Locals
  PROVE  /\ Rollback(r) \in Locals /\ Rollback(r).pc = "take"
         /\ Rollback(r).op = r.op /\ Rollback(r).gen = r.gen
         /\ Rollback(r).stage = "rollback"
BY DEF Rollback, Recreate, Locals, PCs

Stops == {"stopForwarder", "forwarderExited"}

LEMMA AfterRecreateIs ==
  ASSUME NEW r \in Locals, NEW ok \in BOOLEAN, NEW d, d = AfterRecreate(r, ok)
  PROVE  /\ d \in Locals /\ d.gen = r.gen
         /\ \/ /\ d.pc = "setState" /\ (r.stage = "rollback" \/ r.op \in Stops)
               /\ d.to = IF ok THEN "proxyOnly" ELSE "stopped"
            \/ d.pc = "setState" /\ d.to = "stopped" /\ r.op = "unbind"
            \/ /\ d.pc = "take" /\ d.op = r.op /\ d.stage = "rollback"
               /\ r.op \in {"startForwarder", "bindPhysical"}
            \/ /\ d.pc = "dialFwd" /\ d.op = r.op /\ d.stage = "main" /\ r.stage = "main"
               /\ r.op = "startForwarder" /\ ok
            \/ d.pc = "strand" /\ d.op = "refresh" /\ d.stage = "main" /\ r.op = "refresh" /\ ~ok
            \/ /\ d.pc = "ok" /\ r.stage = "main" /\ r.op \notin Stops \cup {"startForwarder"}
               /\ r.op \in {"bindPhysical", "unbind", "refresh"} => ok
<1>1. CASE r.stage = "rollback" \/ r.op \in Stops
  BY <1>1, SetToIs DEF AfterRecreate, Stops, States
<1>2. CASE ~(r.stage = "rollback" \/ r.op \in Stops)
  <2>1. r.stage = "main"
    BY <1>2 DEF Locals
  <2>2. CASE r.op \in {"startForwarder", "bindPhysical"} /\ ~ok
    BY <1>2, <2>1, <2>2, RollbackIs DEF AfterRecreate, Stops
  <2>3. CASE r.op = "startForwarder" /\ ok
    BY <1>2, <2>1, <2>3, AtIs DEF AfterRecreate, Stops, PCs
  <2>4. CASE r.op = "unbind" /\ ~ok
    BY <1>2, <2>1, <2>4, SetToIs DEF AfterRecreate, Stops, States
  <2>5. CASE r.op = "refresh" /\ ~ok
    BY <1>2, <2>1, <2>5, AtIs DEF AfterRecreate, Stops, PCs
  <2>6. CASE ~(r.op \in {"startForwarder", "bindPhysical", "unbind", "refresh"} /\ ~ok)
             /\ ~(r.op = "startForwarder" /\ ok)
    BY <1>2, <2>1, <2>6, AtIs DEF AfterRecreate, Stops, Results
  <2> QED
    BY <2>2, <2>3, <2>4, <2>5, <2>6
<1> QED
  BY <1>1, <1>2

\* dialProxy returned: the second attempt, or what the method does next.
LEMMA AfterDialIs ==
  ASSUME NEW r \in Locals, NEW ok \in BOOLEAN, NEW d, d = AfterDial(r, ok)
  PROVE  /\ d \in Locals /\ d.gen = r.gen
         /\ \/ /\ r.op \in {"startProxy", "resume"}
               /\ \/ ok /\ d.pc = "setState" /\ d.to = "proxyOnly"
                  \/ ~ok /\ d.pc = "err"
            \/ /\ r.op \notin {"startProxy", "resume"} /\ ~ok /\ d.pc = "dial"
               /\ d.op = r.op /\ d.stage = r.stage /\ d.target = r.target
            \/ /\ d.pc = "setState" /\ (r.stage = "rollback" \/ r.op \in Stops)
               /\ d.to \in {"proxyOnly", "stopped"} /\ (d.to = "proxyOnly" => ok)
            \/ d.pc = "setState" /\ d.to = "stopped" /\ r.op = "unbind"
            \/ /\ d.pc = "take" /\ d.op = r.op /\ d.stage = "rollback"
               /\ r.op \in {"startForwarder", "bindPhysical"}
            \/ /\ d.pc = "dialFwd" /\ d.op = r.op /\ d.stage = "main" /\ r.stage = "main"
               /\ r.op = "startForwarder" /\ ok
            \/ d.pc = "strand" /\ d.op = "refresh" /\ d.stage = "main" /\ r.op = "refresh"
            \/ /\ d.pc = "ok" /\ r.stage = "main"
               /\ r.op \notin Stops \cup {"startForwarder", "startProxy", "resume"}
               /\ r.op \in {"bindPhysical", "unbind", "refresh"} => ok
<1>1. CASE r.op \in {"startProxy", "resume"}
  BY <1>1, SetToIs, AtIs DEF AfterDial, States, Results
<1>2. CASE r.op \notin {"startProxy", "resume"} /\ r.try = 1 /\ ~ok
  <2>1. d = [r EXCEPT !.try = 2, !.pc = "dial"]
    BY <1>2 DEF AfterDial
  <2> QED
    BY <1>2, <2>1 DEF Locals, PCs
<1>3. CASE r.op \notin {"startProxy", "resume"} /\ ~(r.try = 1 /\ ~ok)
  <2> DEFINE first == ok /\ r.try = 1
  <2>1. d = AfterRecreate(r, first)
    BY <1>3 DEF AfterDial
  <2>2. first \in BOOLEAN /\ (first => ok)
    OBVIOUS
  <2> HIDE DEF first
  <2> QED
    BY <1>3, <2>1, <2>2, AfterRecreateIs
<1> QED
  BY <1>1, <1>2, <1>3

\* Whether it worked decides between going on and the second attempt or the error.
LEMMA AfterDialWorks ==
  ASSUME NEW r \in Locals, NEW ok \in BOOLEAN, NEW d, d = AfterDial(r, ok)
  PROVE  /\ d \in Locals /\ d.gen = r.gen
         /\ ok => d.pc \in {"setState", "take", "dialFwd", "strand", "ok"}
         /\ d.pc = "setState" =>
              /\ d.to \in {"proxyOnly", "stopped"}
              /\ r.op \in {"startProxy", "resume", "unbind"} \/ r.op \in Stops
                 \/ r.stage = "rollback"
         /\ d.pc = "take" =>
              /\ d.op = r.op /\ d.stage = "rollback"
              /\ r.op \in {"startForwarder", "bindPhysical"}
         /\ d.pc = "dialFwd" =>
              /\ d.op = r.op /\ d.stage = "main" /\ r.stage = "main"
              /\ r.op = "startForwarder"
         /\ d.pc = "strand" => d.op = "refresh" /\ d.stage = "main" /\ r.op = "refresh"
         /\ d.pc = "ok" =>
              /\ r.stage = "main" /\ r.op \notin Stops
              /\ r.op \notin {"startForwarder", "startProxy", "resume"}
BY AfterDialIs

-----------------------------------------------------------------------------
(* A step of the only worker. *)

LEMMA OnlyWorker ==
  ASSUME OneWorker, NEW p \in Workers, IInv', NoTunLoop', Place(p)',
         running' = Published' \cup held'[p]
  PROVE  SeqInv'
BY DEF OneWorker, SeqInv, AllInReach

LEMMA SeqQuiet ==
  ASSUME OneWorker, SeqInv, IInv', NEW p \in Workers, CoresUntouched, Place(p)'
  PROVE  SeqInv'
<1>1. NoTunLoop' /\ running' = Published' \cup held'[p]
  BY DEF SeqInv, NoTunLoop, AllInReach, Published, CoresUntouched
<1> QED
  BY <1>1, OnlyWorker

\* Cores that are published are taken.
LEMMA SeqTake ==
  ASSUME OneWorker, SeqInv, IInv', NEW p \in Workers, NEW T, T \subseteq Published,
         held[p] = {}, held' = [held EXCEPT ![p] = T], Published' = Published \ T,
         UNCHANGED <<running, bind>>, Place(p)'
  PROVE  SeqInv'
<1>1. held'[p] = T
  BY DEF SeqInv, IInv, TypeOK
<1>2. NoTunLoop' /\ running' = Published' \cup held'[p]
  BY <1>1 DEF SeqInv, NoTunLoop, AllInReach
<1> QED
  BY <1>2, OnlyWorker

\* Cores that are held are closed.
LEMMA SeqClose ==
  ASSUME OneWorker, SeqInv, IInv', NEW p \in Workers, NEW S, CloseHeld(p, S),
         UNCHANGED <<proxy, fwd, bind>>, Place(p)'
  PROVE  SeqInv'
<1>1. held'[p] = held[p] \ S /\ running' = running \ (held[p] \cap S)
  BY DEF SeqInv, IInv, TypeOK, CloseHeld
<1>2. Published' = Published /\ held[p] \cap Published = {}
  BY DEF Published, SeqInv, IInv, SingleOwner
<1>3. running' = Published' \cup held'[p]
  BY <1>1, <1>2 DEF SeqInv, AllInReach
<1>4. NoTunLoop'
  BY <1>1 DEF SeqInv, NoTunLoop
<1> QED
  BY <1>3, <1>4, OnlyWorker

\* The step of a worker, and what it may rely on.
LEMMA SeqFacts ==
  ASSUME SeqInv, NEW p \in Workers
  PROVE  /\ TypeOK /\ w[p] \in Locals /\ Place(p) /\ IInv
         /\ w[p].pc \in EmptyHanded => held[p] = {}
         /\ proxy \in ProxyCores \cup {None} /\ fwd \in FwdCores \cup {None}
         /\ None \notin Cores /\ ProxyCores \cap FwdCores = {}
         /\ running = Published \cup held[p]
BY Basics, ConstantsOK DEF SeqInv, AllInReach, IInv, TypeOK

\* A worker that returns leaves the manager as its state says.
LEMMA SeqReturns ==
  ASSUME SeqInv, NEW p \in Workers, NEW r \in Locals, Step(p, r), r.pc \in Results, Consistent'
  PROVE  Place(p)'
<1>1. w'[p].pc = "idle"
  BY SeqFacts, StepMoves
<1> QED
  BY <1>1 DEF Place

\* A worker that goes on is where its new local state says.
LEMMA SeqGoes ==
  ASSUME SeqInv, NEW p \in Workers, NEW r \in Locals, Step(p, r), r.pc \notin Results
  PROVE  w'[p] = r
BY SeqFacts, StepMoves

-----------------------------------------------------------------------------
(* One lemma per action. *)

LEMMA SeqCheck ==
  ASSUME OneWorker, SeqInv, IInv', NEW p \in Workers, Check(p)
  PROVE  SeqInv'
<1>0. /\ w[p] \in Locals /\ w[p].pc = "check" /\ w[p].op # "none" /\ w[p].stage = "main"
      /\ Consistent /\ held[p] = {} /\ w[p].gen = gen /\ TypeOK
      /\ w[p].target \in Ifaces \cup {None} /\ bound \in Ifaces \cup {None} /\ state \in States
  BY SeqFacts DEF Check, Place, EmptyHanded, TypeOK, Locals
<1>q. ASSUME UNCHANGED <<fields, held>>, Place(p)' PROVE SeqInv'
  BY <1>q, SeqQuiet DEF CoresUntouched, fields, Check
<1>r. ASSUME UNCHANGED <<fields, held>>, NEW res \in Results, Step(p, At(w[p], res))
      PROVE  SeqInv'
  <2>1. Consistent'
    BY <1>0, <1>r DEF Consistent, fields
  <2>2. At(w[p], res) \in Locals /\ At(w[p], res).pc \in Results
    BY <1>0, AtIs
  <2>3. Place(p)'
    BY <1>r, <2>1, <2>2, SeqReturns
  <2> QED
    BY <1>q, <1>r, <2>3
<1>g. ASSUME UNCHANGED <<fields, held>>, NEW label \in PCs, Step(p, At(w[p], label))
      PROVE  /\ w'[p].pc = label /\ w'[p].op = w[p].op /\ w'[p].gen = gen'
             /\ w'[p].stage = "main" /\ w'[p].target = w[p].target
  <2>1. At(w[p], label) \in Locals /\ At(w[p], label).pc \notin Results
    BY <1>0, AtIs DEF PCs, Results
  <2>2. w'[p] = At(w[p], label)
    BY <1>g, <2>1, SeqGoes
  <2> QED
    BY <1>0, <1>g, <2>2, AtIs DEF fields
<1>1. CASE CheckStartProxy(p)
  <2>1. CASE proxy # None
    BY <1>1, <1>r, <2>1 DEF CheckStartProxy, Results
  <2>2. CASE proxy = None
    <3>1. UNCHANGED <<fields, held>> /\ Step(p, At(w[p], "orphans")) /\ w[p].op = "startProxy"
      BY <1>1, <2>2 DEF CheckStartProxy
    <3>2. Place(p)'
      BY <1>0, <1>g, <2>2, <3>1 DEF Place, PCs, Consistent, fields
    <3> QED
      BY <1>q, <3>1, <3>2
  <2> QED
    BY <2>1, <2>2
<1>2. CASE CheckStartForwarder(p)
  <2>0. UNCHANGED <<fields, held>> /\ w[p].op = "startForwarder"
    BY <1>2 DEF CheckStartForwarder
  <2>1. CASE state = "vpn"
    <3>1. Step(p, At(w[p], "ok"))
      BY <1>2, <2>1 DEF CheckStartForwarder
    <3> QED
      BY <1>r, <2>0, <3>1 DEF Results
  <2>2. CASE state # "vpn" /\ proxy = None
    <3>1. Step(p, At(w[p], "err"))
      BY <1>2, <2>2 DEF CheckStartForwarder
    <3> QED
      BY <1>r, <2>0, <3>1 DEF Results
  <2>3. CASE state # "vpn" /\ proxy # None
    <3> DEFINE r == [At(w[p], "probe") EXCEPT !.prev = bound]
    <3>1. Step(p, r)
      BY <1>2, <2>3 DEF CheckStartForwarder
    <3>2. /\ r \in Locals /\ r.pc = "probe" /\ r.op = w[p].op /\ r.gen = w[p].gen
          /\ r.stage = w[p].stage
      BY <1>0 DEF At, Locals, PCs
    <3> HIDE DEF r
    <3>3. w'[p] = r
      BY <3>1, <3>2, SeqGoes DEF Results
    <3>4. Consistent' /\ fwd' = None /\ gen' = gen
      BY <1>0, <2>0, <2>3 DEF Consistent, fields, States
    <3>5. Place(p)'
      BY <1>0, <2>0, <3>2, <3>3, <3>4 DEF Place
    <3> QED
      BY <1>q, <2>0, <3>5
  <2> QED
    BY <2>1, <2>2, <2>3
<1>3. CASE CheckStopForwarder(p)
  <2>1. CASE state # "vpn"
    BY <1>3, <1>r, <2>1 DEF CheckStopForwarder, Results
  <2>2. CASE state = "vpn"
    <3>1. UNCHANGED <<fields, held>> /\ Step(p, At(w[p], "takeFwd")) /\ w[p].op \in Stops
      BY <1>3, <2>2 DEF CheckStopForwarder, Stops
    <3>2. Place(p)'
      BY <1>0, <1>g, <3>1 DEF Place, PCs, Consistent, fields, Stops
    <3> QED
      BY <1>q, <3>1, <3>2
  <2> QED
    BY <2>1, <2>2
<1>4. CASE CheckSuspend(p)
  <2>1. /\ held' = [held EXCEPT ![p] = Published] /\ fwd' = None /\ proxy' = None
        /\ UNCHANGED <<state, gen, running, bind>> /\ w[p].op = "suspend"
    BY <1>4 DEF CheckSuspend, TakeBoth, Published, Check
  <2>2. At(w[p], "closeFwd") \in Locals /\ At(w[p], "closeFwd").pc = "closeFwd"
    BY <1>0, AtIs DEF PCs
  <2>3. w'[p] = At(w[p], "closeFwd")
    BY <1>4, <2>2, SeqGoes DEF CheckSuspend, Results
  <2>4. w'[p].pc = "closeFwd" /\ w'[p].op = "suspend" /\ w'[p].gen = gen' /\ w'[p].stage = "main"
    BY <1>0, <2>1, <2>3, AtIs DEF PCs
  <2>5. Place(p)'
    BY <2>1, <2>4 DEF Place
  <2>6. Published' = Published \ Published
    BY <2>1 DEF Published
  <2> QED
    BY <1>0, <2>1, <2>5, <2>6, SeqTake
<1>5. CASE CheckResume(p)
  <2>1. CASE ~(state = "suspended" /\ proxy = None)
    BY <1>5, <1>r, <2>1 DEF CheckResume, Results
  <2>2. CASE state = "suspended" /\ proxy = None
    <3>1. UNCHANGED <<fields, held>> /\ Step(p, At(w[p], "dial")) /\ w[p].op = "resume"
      BY <1>5, <2>2 DEF CheckResume
    <3>2. Place(p)'
      BY <1>0, <1>g, <2>2, <3>1 DEF Place, PCs, Consistent, Dialling, fields
    <3> QED
      BY <1>q, <3>1, <3>2
  <2> QED
    BY <2>1, <2>2
<1>6. CASE CheckBindPhysical(p)
  <2>0. UNCHANGED <<fields, held>> /\ w[p].op = "bindPhysical"
    BY <1>6 DEF CheckBindPhysical
  <2>1. CASE state = "proxyOnly" /\ proxy # None /\ w[p].target # None /\ bound # w[p].target
    <3> DEFINE r == [Recreate(w[p], w[p].target) EXCEPT !.prev = bound]
    <3>1. Step(p, r)
      BY <1>6, <2>1 DEF CheckBindPhysical
    <3>2. /\ r \in Locals /\ r.pc = "take" /\ r.op = w[p].op /\ r.gen = w[p].gen
          /\ r.stage = w[p].stage
      BY <1>0 DEF Recreate, Locals, PCs
    <3> HIDE DEF r
    <3>3. w'[p] = r
      BY <3>1, <3>2, SeqGoes DEF Results
    <3>4. Place(p)'
      BY <1>0, <2>0, <2>1, <3>2, <3>3 DEF Place, Dialling, Consistent, fields
    <3> QED
      BY <1>q, <2>0, <3>4
  <2>2. CASE ~(state = "proxyOnly" /\ proxy # None /\ w[p].target # None /\ bound # w[p].target)
    <3>1. Step(p, At(w[p], "ok")) \/ Step(p, At(w[p], "err"))
      BY <1>6, <2>2 DEF CheckBindPhysical
    <3> QED
      BY <1>r, <2>0, <3>1 DEF Results
  <2> QED
    BY <2>1, <2>2
<1>7. CASE CheckUnbind(p) \/ CheckRefresh(p)
  <2>0. UNCHANGED <<fields, held>> /\ w[p].op \in {"unbind", "refresh"}
    BY <1>7 DEF CheckUnbind, CheckRefresh
  <2>1. ASSUME NEW t \in Ifaces \cup {None}, Step(p, Recreate(w[p], t)),
               w[p].op = "unbind" => state = "proxyOnly",
               w[p].op = "refresh" => t = bound /\ proxy # None
        PROVE  SeqInv'
    <3>1. Recreate(w[p], t) \in Locals /\ Recreate(w[p], t).pc = "take"
      BY <1>0, RecreateIs
    <3>2. w'[p] = Recreate(w[p], t)
      BY <2>1, <3>1, SeqGoes DEF Results
    <3>3. /\ w'[p].pc = "take" /\ w'[p].op = w[p].op /\ w'[p].gen = w[p].gen
          /\ w'[p].stage = "main" /\ w'[p].target = t
      BY <1>0, <3>2, RecreateIs
    <3>4. w[p].op = "refresh" => Refreshing(t)
      BY <1>0, <2>1 DEF Refreshing, Consistent, States
    <3>5. Place(p)'
      BY <1>0, <2>0, <2>1, <3>3, <3>4 DEF Place, Dialling, Refreshing, Consistent, fields
    <3> QED
      BY <1>q, <2>0, <3>5
  <2>2. CASE CheckUnbind(p)
    BY <1>r, <2>0, <2>1, <2>2 DEF CheckUnbind, Results
  <2>3. CASE CheckRefresh(p)
    BY <1>0, <1>r, <2>0, <2>1, <2>3 DEF CheckRefresh, Results
  <2> QED
    BY <1>7, <2>2, <2>3
<1> QED
  BY <1>1, <1>2, <1>3, <1>4, <1>5, <1>6, <1>7 DEF Check

LEMMA SeqOrphans ==
  ASSUME OneWorker, SeqInv, IInv', NEW p \in Workers, CleanupOrphans(p)
  PROVE  SeqInv'
<1>0. /\ w[p] \in Locals /\ w[p].op = "startProxy" /\ w[p].stage = "main" /\ proxy = None
      /\ Consistent /\ w[p].gen = gen /\ TypeOK /\ w[p].pc = "orphans"
  BY SeqFacts DEF CleanupOrphans, Place
<1>1. CoresUntouched /\ UNCHANGED <<fields>>
  BY DEF CleanupOrphans, CoresUntouched, fields
<1>2. PICK label \in {"dial", "err"} : Step(p, At(w[p], label))
  BY DEF CleanupOrphans
<1>3. CASE label = "dial"
  <2>1. At(w[p], "dial") \in Locals /\ At(w[p], "dial").pc = "dial"
    BY <1>0, AtIs DEF PCs
  <2>2. w'[p] = At(w[p], "dial")
    BY <1>2, <1>3, <2>1, SeqGoes DEF Results
  <2>3. w'[p].pc = "dial" /\ w'[p].op = "startProxy" /\ w'[p].gen = gen /\ w'[p].stage = "main"
    BY <1>0, <2>2, AtIs DEF PCs
  <2>4. fwd = None
    BY <1>0 DEF Consistent, TypeOK, States
  <2>5. Place(p)'
    BY <1>0, <1>1, <2>3, <2>4 DEF Place, Dialling, Consistent, fields
  <2> QED
    BY <1>1, <2>5, SeqQuiet
<1>4. CASE label = "err"
  <2>1. At(w[p], "err") \in Locals /\ At(w[p], "err").pc \in Results
    BY <1>0, AtIs DEF Results
  <2>2. Consistent'
    BY <1>0, <1>1 DEF Consistent, fields
  <2>3. Place(p)'
    BY <1>2, <1>4, <2>1, <2>2, SeqReturns
  <2> QED
    BY <1>1, <2>3, SeqQuiet
<1> QED
  BY <1>3, <1>4

LEMMA SeqSetState ==
  ASSUME OneWorker, SeqInv, IInv', NEW p \in Workers, SetState(p)
  PROVE  SeqInv'
<1>0. /\ w[p] \in Locals /\ w[p].gen = gen /\ fwd = None /\ w[p].to # "vpn"
      /\ w[p].to = "proxyOnly" => proxy # None
      /\ w[p].to = "suspended" => proxy = None
  BY SeqFacts DEF SetState, Place
<1>1. CoresUntouched /\ state' = w[p].to
  BY <1>0 DEF SetState, CoresUntouched
<1>2. PICK res \in {"ok", "err"} : Step(p, At(w[p], res))
  BY DEF SetState
<1>3. At(w[p], res) \in Locals /\ At(w[p], res).pc \in Results
  BY <1>0, AtIs DEF Results
<1>4. Consistent'
  BY <1>0, <1>1 DEF Consistent, CoresUntouched
<1>5. Place(p)'
  BY <1>2, <1>3, <1>4, SeqReturns
<1> QED
  BY <1>1, <1>5, SeqQuiet

LEMMA SeqStrand ==
  ASSUME OneWorker, SeqInv, IInv', NEW p \in Workers, Strand(p)
  PROVE  SeqInv'
<1>0. /\ w[p] \in Locals /\ w[p].gen = gen /\ w[p].op = "refresh" /\ w[p].stage = "main"
      /\ state # "suspended" /\ state \in States /\ held[p] = {}
      /\ state = "vpn" <=> fwd # None
      /\ proxy # None /\ state = "vpn" => bound # None
  BY SeqFacts DEF Strand, Place, TypeOK, EmptyHanded
<1>1. CASE proxy = None
  <2>1. /\ held' = [held EXCEPT ![p] = {fwd} \ {None}] /\ fwd' = None /\ state' = "stopped"
        /\ Step(p, At(w[p], "closeFwd")) /\ UNCHANGED <<proxy, gen, running, bind>>
    BY <1>0, <1>1 DEF Strand
  <2>2. At(w[p], "closeFwd") \in Locals /\ At(w[p], "closeFwd").pc = "closeFwd"
    BY <1>0, AtIs DEF PCs
  <2>3. w'[p] = At(w[p], "closeFwd")
    BY <2>1, <2>2, SeqGoes DEF Results
  <2>4. w'[p].pc = "closeFwd" /\ w'[p].op = "refresh" /\ w'[p].gen = gen /\ w'[p].stage = "main"
    BY <1>0, <2>3, AtIs DEF PCs
  <2>5. Place(p)'
    BY <1>1, <2>1, <2>4 DEF Place
  <2>6. {fwd} \ {None} \subseteq Published /\ Published' = Published \ ({fwd} \ {None})
    BY <1>1, <2>1 DEF Published
  <2>7. running' = running /\ bind' = bind
    BY <2>1
  <2> QED
    BY <1>0, <2>1, <2>5, <2>6, <2>7, SeqTake
<1>2. CASE proxy # None
  <2>1. Step(p, At(w[p], "err")) /\ CoresUntouched /\ UNCHANGED state
    BY <1>2 DEF Strand, CoresUntouched
  <2>2. At(w[p], "err") \in Locals /\ At(w[p], "err").pc \in Results
    BY <1>0, AtIs DEF Results
  <2>3. Consistent'
    BY <1>0, <1>2, <2>1 DEF Consistent, CoresUntouched
  <2>4. Place(p)'
    BY <2>1, <2>2, <2>3, SeqReturns
  <2> QED
    BY <2>1, <2>4, SeqQuiet
<1> QED
  BY <1>1, <1>2

LEMMA SeqTakeProxy ==
  ASSUME OneWorker, SeqInv, IInv', NEW p \in Workers, TakeProxy(p)
  PROVE  SeqInv'
<1>0. /\ w[p] \in Locals /\ Dialling(p) /\ held[p] = {} /\ w[p].gen = gen /\ w[p].pc = "take"
      /\ proxy \in ProxyCores \cup {None} /\ fwd \in FwdCores \cup {None}
      /\ None \notin Cores /\ ProxyCores \cap FwdCores = {}
  BY SeqFacts DEF TakeProxy, Place, EmptyHanded
<1>1. /\ held' = [held EXCEPT ![p] = {proxy} \ {None}] /\ proxy' = None
      /\ Step(p, At(w[p], "closeProxy")) /\ UNCHANGED <<state, fwd, gen, running, bind>>
  BY DEF TakeProxy
<1>2. At(w[p], "closeProxy") \in Locals /\ At(w[p], "closeProxy").pc = "closeProxy"
  BY <1>0, AtIs DEF PCs
<1>3. w'[p] = At(w[p], "closeProxy")
  BY <1>1, <1>2, SeqGoes DEF Results
<1>4. /\ w'[p].pc = "closeProxy" /\ w'[p].op = w[p].op /\ w'[p].gen = gen
      /\ w'[p].stage = w[p].stage /\ w'[p].target = w[p].target
  BY <1>0, <1>3, AtIs DEF PCs
<1>5. Dialling(p)'
  BY <1>0, <1>1, <1>4 DEF Dialling, Refreshing
<1>6. Place(p)'
  BY <1>1, <1>4, <1>5 DEF Place
<1>7. {proxy} \ {None} \subseteq Published /\ Published' = Published \ ({proxy} \ {None})
  BY <1>0, <1>1 DEF Published, Cores
<1>8. running' = running /\ bind' = bind
  BY <1>1
<1> QED
  BY <1>0, <1>1, <1>6, <1>7, <1>8, SeqTake

LEMMA SeqCloseProxy ==
  ASSUME OneWorker, SeqInv, IInv', NEW p \in Workers, CloseProxy(p)
  PROVE  SeqInv'
<1>0. /\ w[p] \in Locals /\ Dialling(p) /\ w[p].gen = gen /\ w[p].pc = "closeProxy"
      /\ proxy = None
  BY SeqFacts DEF CloseProxy, Place
<1>1. CloseHeld(p, ProxyCores) /\ UNCHANGED <<fields, bind>>
  BY DEF CloseProxy
<1>2. SUFFICES Place(p)'
  BY <1>1, SeqClose DEF fields
<1>3. CASE w[p].op = "suspend"
  <2>1. Step(p, SetTo(w[p], "suspended"))
    BY <1>3 DEF CloseProxy
  <2>2. SetTo(w[p], "suspended") \in Locals /\ SetTo(w[p], "suspended").pc = "setState"
    BY <1>0, SetToIs DEF States
  <2>3. w'[p] = SetTo(w[p], "suspended")
    BY <2>1, <2>2, SeqGoes DEF Results
  <2>4. w'[p].pc = "setState" /\ w'[p].to = "suspended" /\ w'[p].gen = gen
    BY <1>0, <2>3, SetToIs DEF States
  <2> QED
    BY <1>0, <1>1, <1>3, <2>4 DEF Place, Dialling, fields
<1>4. CASE w[p].op = "shutdown"
  <2>1. PICK res \in {"ok", "err"} : Step(p, At(w[p], res))
    BY <1>4 DEF CloseProxy
  <2>2. At(w[p], res) \in Locals /\ At(w[p], res).pc \in Results
    BY <1>0, AtIs DEF Results
  <2>3. Consistent'
    BY <1>0, <1>1, <1>4 DEF Consistent, Dialling, fields
  <2> QED
    BY <2>1, <2>2, <2>3, SeqReturns
<1>5. CASE w[p].op \notin {"suspend", "shutdown"}
  <2>1. Step(p, At(w[p], "dial"))
    BY <1>5 DEF CloseProxy
  <2>2. At(w[p], "dial") \in Locals /\ At(w[p], "dial").pc = "dial"
    BY <1>0, AtIs DEF PCs
  <2>3. w'[p] = At(w[p], "dial")
    BY <2>1, <2>2, SeqGoes DEF Results
  <2>4. /\ w'[p].pc = "dial" /\ w'[p].op = w[p].op /\ w'[p].gen = gen
        /\ w'[p].stage = w[p].stage /\ w'[p].target = w[p].target
    BY <1>0, <2>3, AtIs DEF PCs
  <2>5. Dialling(p)'
    BY <1>0, <1>1, <1>5, <2>4 DEF Dialling, Refreshing, Consistent, fields
  <2> QED
    BY <1>0, <1>1, <2>4, <2>5 DEF Place, fields
<1> QED
  BY <1>3, <1>4, <1>5

\* dialProxy failed, in either attempt, with no proxy published.
LEMMA SeqDialFailed ==
  ASSUME SeqInv, NEW p \in Workers, w[p].pc = "dial", Step(p, AfterDial(w[p], FALSE)),
         UNCHANGED fields
  PROVE  Place(p)'
<1>0. /\ w[p] \in Locals /\ Dialling(p) /\ w[p].gen = gen /\ proxy = None /\ state \in States
  BY SeqFacts DEF Place, TypeOK
<1>d. PICK ok \in BOOLEAN : ok = FALSE
  OBVIOUS
<1> DEFINE d == AfterDial(w[p], ok)
<1>1. /\ d \in Locals /\ d.gen = gen
      /\ \/ w[p].op \in {"startProxy", "resume"} /\ d.pc = "err"
         \/ /\ w[p].op \notin {"startProxy", "resume"} /\ d.pc = "dial"
            /\ d.op = w[p].op /\ d.stage = w[p].stage /\ d.target = w[p].target
         \/ d.pc = "setState" /\ d.to = "stopped" /\ w[p].op # "refresh"
         \/ /\ d.pc = "take" /\ d.op = w[p].op /\ d.stage = "rollback"
            /\ w[p].op \in {"startForwarder", "bindPhysical"}
         \/ d.pc = "strand" /\ d.op = "refresh" /\ d.stage = "main" /\ w[p].op = "refresh"
  <2>1. w[p].op \in Ops \cup {"none", "shutdown"}
    BY <1>0 DEF Locals
  <2> HIDE DEF d
  <2>2. d = AfterDial(w[p], ok)
    BY DEF d
  <2> QED
    BY <1>0, <1>d, <2>1, <2>2, AfterDialIs DEF Dialling, Stops, Ops
<1>4. Step(p, d)
  BY <1>d
<1> HIDE DEF d
<1>2. CASE d.pc = "err"
  <2>1. Consistent'
    BY <1>0, <1>1, <1>2 DEF Dialling, Consistent, fields
  <2> QED
    BY <1>1, <1>2, <1>4, <2>1, SeqReturns DEF Results
<1>3. CASE d.pc # "err"
  <2>1. w'[p] = d
    BY <1>1, <1>3, <1>4, SeqGoes DEF Results
  <2>2. CASE d.pc = "dial"
    <3>1. Dialling(p)'
      BY <1>0, <1>1, <2>1, <2>2 DEF Dialling, Refreshing, Consistent, fields
    <3> QED
      BY <1>0, <1>1, <2>1, <2>2, <3>1 DEF Place, fields
  <2>3. CASE d.pc = "setState"
    BY <1>0, <1>1, <2>1, <2>3 DEF Place, Dialling, fields
  <2>4. CASE d.pc = "take"
    <3>1. Dialling(p)'
      BY <1>0, <1>1, <2>1, <2>4 DEF Dialling, fields
    <3> QED
      BY <1>1, <2>1, <2>4, <3>1 DEF Place, fields
  <2>5. CASE d.pc = "strand"
    BY <1>0, <1>1, <2>1, <2>5 DEF Place, Dialling, Refreshing, States, fields
  <2> QED
    BY <1>1, <1>3, <2>2, <2>3, <2>4, <2>5
<1> QED
  BY <1>2, <1>3

LEMMA SeqDialProxy ==
  ASSUME OneWorker, SeqInv, IInv', NEW p \in Workers, DialProxy(p)
  PROVE  SeqInv'
<1>0. /\ w[p] \in Locals /\ Dialling(p) /\ w[p].gen = gen /\ w[p].pc = "dial" /\ held[p] = {}
      /\ proxy = None /\ fwd \in FwdCores \cup {None} /\ running = Published
      /\ TypeOK /\ ProxyCores \cap FwdCores = {}
  BY SeqFacts DEF DialProxy, Place, EmptyHanded
<1>1. CASE Step(p, AfterDial(w[p], FALSE)) /\ UNCHANGED <<running, bind, held>>
  <2>1. UNCHANGED fields
    BY DEF DialProxy
  <2>2. Place(p)' /\ CoresUntouched
    BY <1>0, <1>1, <2>1, SeqDialFailed DEF CoresUntouched, fields
  <2> QED
    BY <2>2, SeqQuiet
<1>2. ASSUME NEW c \in ProxyCores, running' = running \cup {c},
             bind' = [bind EXCEPT ![c] = w[p].target], held' = [held EXCEPT ![p] = {c}],
             Step(p, At(w[p], "commit")), UNCHANGED fields
      PROVE  SeqInv'
  <2>1. At(w[p], "commit") \in Locals /\ At(w[p], "commit").pc = "commit"
    BY <1>0, AtIs DEF PCs
  <2>2. w'[p] = At(w[p], "commit")
    BY <1>2, <2>1, SeqGoes DEF Results
  <2>3. /\ w'[p].pc = "commit" /\ w'[p].op = w[p].op /\ w'[p].gen = gen
        /\ w'[p].stage = w[p].stage /\ w'[p].target = w[p].target
    BY <1>0, <2>2, AtIs DEF PCs
  <2>4. Dialling(p)'
    BY <1>0, <1>2, <2>3 DEF Dialling, Refreshing, Consistent, fields
  <2>5. Place(p)'
    BY <1>0, <1>2, <2>3, <2>4 DEF Place, fields
  <2>6. held'[p] = {c} /\ Published' = Published
    BY <1>0, <1>2 DEF TypeOK, Published, fields
  <2>7. NoTunLoop'
    <3>1. running' \cap FwdCores # {} => w[p].target # None
      BY <1>0, <1>2 DEF Published, Dialling, Refreshing
    <3>2. ProxyCores \cap running' = {c} /\ bind'[c] = w[p].target
      BY <1>0, <1>2 DEF Published, TypeOK, Cores
    <3> QED
      BY <3>1, <3>2 DEF NoTunLoop
  <2> QED
    BY <1>0, <1>2, <2>5, <2>6, <2>7, OnlyWorker
<1> QED
  BY <1>1, <1>2 DEF DialProxy

\* The generation cannot have moved: the only worker is this one.
LEMMA SeqCommit ==
  ASSUME OneWorker, SeqInv, IInv', NEW p \in Workers, CommitProxy(p) \/ CommitForwarder(p)
  PROVE  SeqInv'
<1>0. w[p] \in Locals /\ Place(p) /\ w[p].gen = gen /\ w[p].pc \in {"commit", "commitFwd"}
  BY SeqFacts DEF CommitProxy, CommitForwarder, Place
<1>1. CoresUntouched /\ UNCHANGED fields
  BY DEF CommitProxy, CommitForwarder, CoresUntouched, fields
<1>2. PICK label : /\ label = IF w[p].pc = "commit" THEN "publish" ELSE "publishFwd"
                   /\ Step(p, At(w[p], label))
  BY <1>0 DEF CommitProxy, CommitForwarder
<1>3. At(w[p], label) \in Locals /\ At(w[p], label).pc = label /\ label \in PCs
  BY <1>0, <1>2, AtIs DEF PCs
<1>4. w'[p] = At(w[p], label)
  BY <1>2, <1>3, SeqGoes DEF Results
<1>5. /\ w'[p].pc = label /\ w'[p].op = w[p].op /\ w'[p].gen = gen
      /\ w'[p].stage = w[p].stage /\ w'[p].target = w[p].target
  BY <1>0, <1>3, <1>4, AtIs
<1>6. CASE label = "publish"
  <2>1. Dialling(p)'
    BY <1>0, <1>1, <1>2, <1>5, <1>6 DEF Place, Dialling, Refreshing, Consistent, fields
  <2>2. Place(p)'
    BY <1>0, <1>1, <1>2, <1>5, <1>6, <2>1 DEF Place, fields
  <2> QED
    BY <1>1, <2>2, SeqQuiet
<1>7. CASE label = "publishFwd"
  <2>1. Place(p)'
    BY <1>0, <1>1, <1>2, <1>5, <1>7 DEF Place, fields
  <2> QED
    BY <1>1, <2>1, SeqQuiet
<1> QED
  BY <1>2, <1>6, <1>7

LEMMA SeqDiscard ==
  ASSUME SeqInv, NEW p \in Workers
  PROVE  ~DiscardProxy(p) /\ ~DiscardForwarder(p)
BY SeqFacts DEF Place, DiscardProxy, DiscardForwarder

\* A proxy is published: the worker goes on as its method says.
LEMMA SeqPublishProxy ==
  ASSUME OneWorker, SeqInv, IInv', NEW p \in Workers, PublishProxy(p)
  PROVE  SeqInv'
<1>0. /\ w[p] \in Locals /\ Dialling(p) /\ w[p].gen = gen /\ w[p].pc = "publish"
      /\ proxy = None /\ fwd \in FwdCores \cup {None} /\ running = Published \cup held[p]
      /\ TypeOK /\ None \notin Cores /\ state \in States /\ HandsOf(p)
  BY SeqFacts DEF PublishProxy, Place, TypeOK, IInv, Hands
<1>1. PICK c \in ProxyCores : held[p] = {c}
  BY <1>0 DEF HandsOf
<1>2. /\ proxy' = c /\ bound' = w[p].target /\ held' = [held EXCEPT ![p] = {}]
      /\ UNCHANGED <<state, fwd, gen, running, bind>> /\ c # None
  BY <1>0, <1>1 DEF PublishProxy, Cores
<1>3. running' = Published' \cup held'[p] /\ NoTunLoop'
  BY <1>0, <1>1, <1>2 DEF Published, TypeOK, SeqInv, NoTunLoop
<1>4. SUFFICES Place(p)'
  BY <1>3, OnlyWorker
<1>5. PICK ok \in BOOLEAN : ok
  OBVIOUS
<1> DEFINE d == AfterDial(w[p], ok)
<1>6. Step(p, d)
  BY <1>5 DEF PublishProxy
<1>7. /\ d \in Locals /\ d.gen = gen
      /\ \/ /\ d.pc = "setState" /\ w[p].op # "refresh" /\ d.to \in {"proxyOnly", "stopped"}
         \/ /\ d.pc = "take" /\ d.op = w[p].op /\ d.stage = "rollback"
            /\ w[p].op \in {"startForwarder", "bindPhysical"}
         \/ /\ d.pc = "dialFwd" /\ d.op = "startForwarder" /\ d.stage = "main"
            /\ w[p].op = "startForwarder" /\ w[p].stage = "main"
         \/ d.pc = "strand" /\ d.op = "refresh" /\ d.stage = "main" /\ w[p].op = "refresh"
         \/ /\ d.pc = "ok" /\ w[p].stage = "main"
            /\ w[p].op \in {"bindPhysical", "unbind", "refresh"}
  <2>1. w[p].op \in Ops \cup {"none", "shutdown"}
    BY <1>0 DEF Locals
  <2> HIDE DEF d
  <2>2. d = AfterDial(w[p], ok)
    BY DEF d
  <2>3. /\ w[p].op \in {"startProxy", "resume", "startForwarder", "bindPhysical", "unbind",
                        "refresh"} \cup Stops
        /\ w[p].stage = "rollback" => w[p].op \in {"startForwarder", "bindPhysical"}
    BY <1>0, <2>1 DEF Dialling, Stops, Ops
  <2>4. /\ d \in Locals /\ d.gen = w[p].gen
        /\ ok => d.pc \in {"setState", "take", "dialFwd", "strand", "ok"}
        /\ d.pc = "setState" =>
             /\ d.to \in {"proxyOnly", "stopped"}
             /\ w[p].op \in {"startProxy", "resume", "unbind"} \/ w[p].op \in Stops
                \/ w[p].stage = "rollback"
        /\ d.pc = "take" =>
             /\ d.op = w[p].op /\ d.stage = "rollback"
             /\ w[p].op \in {"startForwarder", "bindPhysical"}
        /\ d.pc = "dialFwd" =>
             /\ d.op = w[p].op /\ d.stage = "main" /\ w[p].stage = "main"
             /\ w[p].op = "startForwarder"
        /\ d.pc = "strand" => d.op = "refresh" /\ d.stage = "main" /\ w[p].op = "refresh"
        /\ d.pc = "ok" =>
             /\ w[p].stage = "main" /\ w[p].op \notin Stops
             /\ w[p].op \notin {"startForwarder", "startProxy", "resume"}
    BY <1>0, <2>2, AfterDialWorks
  <2>5. d.pc \in {"setState", "take", "dialFwd", "strand", "ok"}
    BY <1>5, <2>4
  <2> QED
    BY <1>0, <2>3, <2>4, <2>5 DEF Stops
<1> HIDE DEF d
<1>8. CASE d.pc = "ok"
  <2>1. Consistent'
    BY <1>0, <1>2, <1>7, <1>8 DEF Dialling, Refreshing, Consistent, States
  <2> QED
    BY <1>6, <1>7, <1>8, <2>1, SeqReturns DEF Results
<1>9. CASE d.pc # "ok"
  <2>1. w'[p] = d
    BY <1>6, <1>7, <1>9, SeqGoes DEF Results
  <2>2. CASE d.pc = "setState"
    BY <1>0, <1>2, <1>7, <2>1, <2>2 DEF Place, Dialling
  <2>3. CASE d.pc = "take"
    <3>1. Dialling(p)'
      BY <1>0, <1>2, <1>7, <2>1, <2>3 DEF Dialling
    <3> QED
      BY <1>2, <1>7, <2>1, <2>3, <3>1 DEF Place
  <2>4. CASE d.pc = "dialFwd"
    BY <1>0, <1>2, <1>7, <2>1, <2>4 DEF Place, Dialling
  <2>5. CASE d.pc = "strand"
    BY <1>0, <1>2, <1>7, <2>1, <2>5 DEF Place, Dialling, Refreshing
  <2> QED
    BY <1>7, <1>9, <2>2, <2>3, <2>4, <2>5
<1> QED
  BY <1>8, <1>9

LEMMA SeqProbe ==
  ASSUME OneWorker, SeqInv, IInv', NEW p \in Workers, ProbeInterface(p)
  PROVE  SeqInv'
<1>0. /\ w[p] \in Locals /\ w[p].gen = gen /\ w[p].op = "startForwarder"
      /\ w[p].stage = "main" /\ fwd = None /\ Consistent
  BY SeqFacts DEF ProbeInterface, Place
<1>1. CoresUntouched /\ UNCHANGED fields
  BY DEF ProbeInterface, CoresUntouched, fields
<1>2. CASE Step(p, At(w[p], "err"))
  <2>1. At(w[p], "err") \in Locals /\ At(w[p], "err").pc \in Results
    BY <1>0, AtIs DEF Results
  <2>2. Consistent'
    BY <1>0, <1>1 DEF Consistent, fields
  <2>3. Place(p)'
    BY <1>2, <2>1, <2>2, SeqReturns
  <2> QED
    BY <1>1, <2>3, SeqQuiet
<1>3. ASSUME NEW i \in Ifaces, Step(p, Recreate(w[p], i)) PROVE SeqInv'
  <2>1. Recreate(w[p], i) \in Locals /\ Recreate(w[p], i).pc = "take"
    BY <1>0, RecreateIs
  <2>2. w'[p] = Recreate(w[p], i)
    BY <1>3, <2>1, SeqGoes DEF Results
  <2>3. /\ w'[p].pc = "take" /\ w'[p].op = "startForwarder" /\ w'[p].gen = gen
        /\ w'[p].stage = "main" /\ w'[p].target = i /\ i # None
    BY <1>0, <2>2, RecreateIs, ConstantsOK
  <2>4. Dialling(p)'
    BY <1>0, <1>1, <2>3 DEF Dialling, fields
  <2>5. Place(p)'
    BY <1>1, <2>3, <2>4 DEF Place, fields
  <2> QED
    BY <1>1, <2>5, SeqQuiet
<1> QED
  BY <1>2, <1>3 DEF ProbeInterface

\* The forwarder starts beside a proxy that is bound.
LEMMA SeqDialForwarder ==
  ASSUME OneWorker, SeqInv, IInv', NEW p \in Workers, DialForwarder(p)
  PROVE  SeqInv'
<1>0. /\ w[p] \in Locals /\ w[p].gen = gen /\ w[p].op = "startForwarder"
      /\ w[p].stage = "main" /\ fwd = None /\ proxy # None /\ bound # None /\ held[p] = {}
      /\ TypeOK /\ running = Published /\ ProxyCores \cap FwdCores = {} /\ PublishedIsUp
  BY SeqFacts DEF DialForwarder, Place, EmptyHanded, IInv
<1>1. UNCHANGED <<fields, bind>>
  BY DEF DialForwarder
<1>2. CASE Step(p, Rollback(w[p])) /\ UNCHANGED <<running, held>>
  <2>1. Rollback(w[p]) \in Locals /\ Rollback(w[p]).pc = "take"
    BY <1>0, RollbackIs
  <2>2. w'[p] = Rollback(w[p])
    BY <1>2, <2>1, SeqGoes DEF Results
  <2>3. /\ w'[p].pc = "take" /\ w'[p].op = "startForwarder" /\ w'[p].gen = gen
        /\ w'[p].stage = "rollback"
    BY <1>0, <2>2, RollbackIs
  <2>4. Dialling(p)'
    BY <1>0, <1>1, <2>3 DEF Dialling, fields
  <2>5. Place(p)' /\ CoresUntouched
    BY <1>1, <1>2, <2>3, <2>4 DEF Place, CoresUntouched, fields
  <2> QED
    BY <2>5, SeqQuiet
<1>3. ASSUME NEW c \in FwdCores, running' = running \cup {c}, held' = [held EXCEPT ![p] = {c}],
             Step(p, At(w[p], "commitFwd"))
      PROVE  SeqInv'
  <2>1. At(w[p], "commitFwd") \in Locals /\ At(w[p], "commitFwd").pc = "commitFwd"
    BY <1>0, AtIs DEF PCs
  <2>2. w'[p] = At(w[p], "commitFwd")
    BY <1>3, <2>1, SeqGoes DEF Results
  <2>3. /\ w'[p].pc = "commitFwd" /\ w'[p].op = "startForwarder" /\ w'[p].gen = gen
        /\ w'[p].stage = "main"
    BY <1>0, <2>2, AtIs DEF PCs
  <2>4. Place(p)'
    BY <1>0, <1>1, <2>3 DEF Place, fields
  <2>5. held'[p] = {c} /\ Published' = Published
    BY <1>0, <1>1, <1>3 DEF TypeOK, Published, fields
  <2>6. NoTunLoop'
    <3>1. ProxyCores \cap running' \subseteq {proxy}
      BY <1>0, <1>3 DEF Published
    <3> QED
      BY <1>0, <1>1, <3>1 DEF NoTunLoop, PublishedIsUp
  <2> QED
    BY <1>0, <1>3, <2>4, <2>5, <2>6, OnlyWorker
<1> QED
  BY <1>2, <1>3 DEF DialForwarder

LEMMA SeqPublishForwarder ==
  ASSUME OneWorker, SeqInv, IInv', NEW p \in Workers, PublishForwarder(p)
  PROVE  SeqInv'
<1>0. /\ w[p] \in Locals /\ fwd = None /\ proxy # None /\ bound # None
      /\ TypeOK /\ running = Published \cup held[p] /\ None \notin Cores /\ HandsOf(p)
  BY SeqFacts DEF PublishForwarder, Place, IInv, Hands
<1>1. PICK c \in FwdCores : held[p] = {c}
  BY <1>0 DEF HandsOf, PublishForwarder
<1>2. /\ fwd' = c /\ state' = "vpn" /\ held' = [held EXCEPT ![p] = {}] /\ c # None
      /\ Step(p, At(w[p], "ok")) /\ UNCHANGED <<proxy, bound, gen, running, bind>>
  BY <1>0, <1>1 DEF PublishForwarder, Cores
<1>3. running' = Published' \cup held'[p] /\ NoTunLoop'
  BY <1>0, <1>1, <1>2 DEF Published, TypeOK, SeqInv, NoTunLoop
<1>4. At(w[p], "ok") \in Locals /\ At(w[p], "ok").pc \in Results
  BY <1>0, AtIs DEF Results
<1>5. Consistent'
  BY <1>0, <1>2 DEF Consistent
<1>6. Place(p)'
  BY <1>2, <1>4, <1>5, SeqReturns
<1> QED
  BY <1>3, <1>6, OnlyWorker

LEMMA SeqTakeForwarder ==
  ASSUME OneWorker, SeqInv, IInv', NEW p \in Workers, TakeForwarder(p)
  PROVE  SeqInv'
<1>0. /\ w[p] \in Locals /\ w[p].gen = gen /\ w[p].op \in Stops /\ w[p].stage = "main"
      /\ held[p] = {} /\ proxy \in ProxyCores \cup {None} /\ fwd \in FwdCores \cup {None}
      /\ ProxyCores \cap FwdCores = {} /\ None \notin Cores
  BY SeqFacts DEF TakeForwarder, Place, EmptyHanded, Stops
<1>1. /\ held' = [held EXCEPT ![p] = {fwd} \ {None}] /\ fwd' = None
      /\ Step(p, At(w[p], "closeFwd")) /\ UNCHANGED <<state, proxy, gen, running, bind>>
  BY DEF TakeForwarder
<1>2. At(w[p], "closeFwd") \in Locals /\ At(w[p], "closeFwd").pc = "closeFwd"
  BY <1>0, AtIs DEF PCs
<1>3. w'[p] = At(w[p], "closeFwd")
  BY <1>1, <1>2, SeqGoes DEF Results
<1>4. w'[p].pc = "closeFwd" /\ w'[p].op \in Stops /\ w'[p].gen = gen /\ w'[p].stage = "main"
  BY <1>0, <1>3, AtIs DEF PCs
<1>5. Place(p)'
  BY <1>1, <1>4 DEF Place, Stops
<1>6. {fwd} \ {None} \subseteq Published /\ Published' = Published \ ({fwd} \ {None})
  BY <1>0, <1>1 DEF Published, Cores
<1>7. running' = running /\ bind' = bind
  BY <1>1
<1> QED
  BY <1>0, <1>1, <1>5, <1>6, <1>7, SeqTake

LEMMA SeqCloseForwarder ==
  ASSUME OneWorker, SeqInv, IInv', NEW p \in Workers, CloseForwarder(p)
  PROVE  SeqInv'
<1>0. /\ w[p] \in Locals /\ w[p].gen = gen /\ fwd = None /\ w[p].stage = "main"
      /\ w[p].op \in {"suspend", "shutdown", "refresh"} \cup Stops
      /\ w[p].op \in {"suspend", "shutdown", "refresh"} => proxy = None
      /\ w[p].op \in {"shutdown", "refresh"} => state = "stopped"
  BY SeqFacts DEF CloseForwarder, Place, Stops
<1>1. CloseHeld(p, FwdCores) /\ UNCHANGED <<fields, bind>>
  BY DEF CloseForwarder
<1>2. SUFFICES Place(p)'
  BY <1>1, SeqClose DEF fields
<1>3. CASE w[p].op \in {"suspend", "shutdown"}
  <2>1. Step(p, At(w[p], "closeProxy"))
    BY <1>3 DEF CloseForwarder
  <2>2. At(w[p], "closeProxy") \in Locals /\ At(w[p], "closeProxy").pc = "closeProxy"
    BY <1>0, AtIs DEF PCs
  <2>3. w'[p] = At(w[p], "closeProxy")
    BY <2>1, <2>2, SeqGoes DEF Results
  <2>4. w'[p].pc = "closeProxy" /\ w'[p].op = w[p].op /\ w'[p].gen = gen /\ w'[p].stage = "main"
    BY <1>0, <2>3, AtIs DEF PCs
  <2>5. Dialling(p)'
    BY <1>0, <1>1, <1>3, <2>4 DEF Dialling, fields
  <2> QED
    BY <1>0, <1>1, <1>3, <2>4, <2>5 DEF Place, fields
<1>4. CASE w[p].op = "refresh"
  <2>1. Step(p, At(w[p], "err"))
    BY <1>4 DEF CloseForwarder
  <2>2. At(w[p], "err") \in Locals /\ At(w[p], "err").pc \in Results
    BY <1>0, AtIs DEF Results
  <2>3. Consistent'
    BY <1>0, <1>1, <1>4 DEF Consistent, fields
  <2> QED
    BY <2>1, <2>2, <2>3, SeqReturns
<1>5. CASE w[p].op \in Stops
  <2>1. Step(p, Recreate(w[p], None))
    BY <1>5 DEF CloseForwarder, Stops
  <2>2. Recreate(w[p], None) \in Locals /\ Recreate(w[p], None).pc = "take"
    BY <1>0, RecreateIs
  <2>3. w'[p] = Recreate(w[p], None)
    BY <2>1, <2>2, SeqGoes DEF Results
  <2>4. w'[p].pc = "take" /\ w'[p].op = w[p].op /\ w'[p].gen = gen /\ w'[p].stage = "main"
    BY <1>0, <2>3, RecreateIs
  <2>5. Dialling(p)'
    BY <1>0, <1>1, <1>5, <2>4 DEF Dialling, Stops, fields
  <2> QED
    BY <1>1, <2>4, <2>5 DEF Place, fields
<1> QED
  BY <1>0, <1>3, <1>4, <1>5

LEMMA SeqWork ==
  ASSUME OneWorker, SeqInv, IInv', NEW p \in Workers, Work(p)
  PROVE  SeqInv'
BY SeqCheck, SeqOrphans, SeqSetState, SeqStrand, SeqTakeProxy, SeqCloseProxy, SeqDialProxy,
   SeqCommit, SeqDiscard, SeqPublishProxy, SeqProbe, SeqDialForwarder, SeqPublishForwarder,
   SeqTakeForwarder, SeqCloseForwarder
   DEF Work

\* A method is called when the worker before it has returned.
LEMMA SeqTransition ==
  ASSUME OneWorker, SeqInv, IInv', NEW c, NEW p \in Workers, NEW op \in Ops,
         NEW t \in Ifaces \cup {None}, Transition(c, p, op, t)
  PROVE  SeqInv'
<1>1. Consistent /\ TypeOK
  BY SeqFacts DEF Transition, Place
<1> DEFINE r == [Idle EXCEPT !.op = op, !.pc = "check", !.gen = gen, !.target = t]
<1>2. r.op = op /\ r.pc = "check" /\ r.gen = gen /\ r.stage = "main"
  BY DEF Idle
<1>3. w' = [w EXCEPT ![p] = r] /\ CoresUntouched /\ UNCHANGED <<state, gen>>
  BY DEF Transition, CoresUntouched, fields
<1> HIDE DEF r
<1>4. w'[p] = r
  BY <1>1, <1>3 DEF TypeOK
<1>5. Consistent'
  BY <1>1, <1>3 DEF Consistent, CoresUntouched
<1>6. Place(p)'
  BY <1>2, <1>3, <1>4, <1>5 DEF Place, Ops
<1> QED
  BY <1>3, <1>6, SeqQuiet

LEMMA SeqShutdown ==
  ASSUME OneWorker, SeqInv, IInv', NEW c, NEW p \in Workers, Shutdown(c, p)
  PROVE  SeqInv'
<1>1. held[p] = {} /\ TypeOK
  BY SeqFacts DEF Shutdown, EmptyHanded
<1> DEFINE r == [Idle EXCEPT !.op = "shutdown", !.pc = "closeFwd", !.gen = gen']
<1>2. r.op = "shutdown" /\ r.pc = "closeFwd" /\ r.gen = gen' /\ r.stage = "main"
  BY DEF Idle
<1>3. /\ w' = [w EXCEPT ![p] = r] /\ held' = [held EXCEPT ![p] = Published]
      /\ fwd' = None /\ proxy' = None /\ state' = "stopped" /\ UNCHANGED <<running, bind>>
  BY DEF Shutdown, TakeBoth, Published
<1>4. w'[p] = r
  BY <1>1, <1>3 DEF TypeOK
<1>5. w'[p].op = "shutdown" /\ w'[p].pc = "closeFwd" /\ w'[p].gen = gen' /\ w'[p].stage = "main"
  BY <1>2, <1>4
<1>6. Place(p)'
  BY <1>3, <1>5 DEF Place
<1>7. Published' = Published \ Published
  BY <1>3 DEF Published
<1> QED
  BY <1>1, <1>3, <1>6, <1>7, SeqTake

LEMMA SeqInit == ASSUME Init PROVE SeqInv
<1>1. IInv
  BY InitIInv
<1>2. \A p \in Workers : w[p].pc = "idle" /\ held[p] = {}
  BY DEF Init, Idle
<1>3. /\ state = "stopped" /\ fwd = None /\ proxy = None /\ running = {}
  BY DEF Init
<1>4. \A p \in Workers : Place(p)
  BY <1>2, <1>3 DEF Place, Consistent
<1>5. AllInReach /\ NoTunLoop
  BY <1>2, <1>3 DEF AllInReach, Published, NoTunLoop
<1> QED
  BY <1>1, <1>4, <1>5 DEF SeqInv

LEMMA SeqNext ==
  ASSUME OneWorker, SeqInv, [Next]_vars
  PROVE  SeqInv'
<1>0. IInv'
  BY NextKeeps DEF SeqInv
<1>1. ASSUME NEW c \in Clients, NEW p \in Workers, Call(c, p) PROVE SeqInv'
  <2>1. ASSUME NEW op \in Ops, NEW t \in Targets(op), Transition(c, p, op, t) PROVE SeqInv'
    <3>1. t \in Ifaces \cup {None}
      BY DEF Targets
    <3> QED
      BY <1>0, <2>1, <3>1, SeqTransition
  <2>2. CASE Shutdown(c, p)
    BY <1>0, <2>2, SeqShutdown
  <2> QED
    BY <1>1, <2>1, <2>2 DEF Call
<1>2. ASSUME NEW p \in Workers, Work(p) PROVE SeqInv'
  BY <1>0, <1>2, SeqWork
<1>3. ASSUME UNCHANGED <<fields, running, bind, w, held>> PROVE SeqInv'
  BY <1>0, <1>3 DEF SeqInv, fields, AllInReach, Published, NoTunLoop, Place, Dialling, Refreshing,
                    Consistent
<1>4. ASSUME NEW c \in Clients, TimeOut(c) PROVE SeqInv'
  BY <1>3, <1>4 DEF TimeOut
<1>5. CASE UNCHANGED vars
  BY <1>3, <1>5 DEF vars
<1> QED
  BY <1>1, <1>2, <1>4, <1>5 DEF Next

-----------------------------------------------------------------------------

\* With one transition at a time, where the worker is determines what is published, and
\* every running core is within reach.
THEOREM SequentialInvariance ==
  ASSUME OneWorker PROVE Spec => []SeqInv
<1>1. Init => SeqInv
  BY SeqInit
<1>2. SeqInv /\ [Next]_vars => SeqInv'
  BY SeqNext
<1> QED
  BY <1>1, <1>2, PTL DEF Spec

\* With one transition at a time, whatever fails, our TUN and an unpinned proxy never
\* run together: StartForwarder rebinds first, and RefreshProxy keeps the binding.
THEOREM TunNeverLoops ==
  ASSUME OneWorker PROVE Spec => []NoTunLoop
<1>1. SeqInv => NoTunLoop
  BY DEF SeqInv
<1> QED
  BY <1>1, SequentialInvariance, PTL

\* With one transition at a time the state between calls is what the cores are, and no
\* running core is out of the manager's reach.
THEOREM StateIsTrue ==
  ASSUME OneWorker, Workers # {} PROVE Spec => []StateMatchesCores
<1>1. SeqInv => StateMatchesCores
  <2> SUFFICES ASSUME SeqInv, Quiescent
               PROVE  /\ running = Published
                      /\ state = "vpn" => fwd # None /\ proxy # None /\ bound # None
                      /\ state = "proxyOnly" => proxy # None /\ fwd = None
                      /\ state = "suspended" => proxy = None /\ fwd = None
                      /\ state = "stopped" => fwd = None
    BY Zenon DEF StateMatchesCores
  <2>1. PICK p \in Workers : TRUE
    OBVIOUS
  <2>2. w[p].pc = "idle" /\ Place(p) /\ held[p] = {} /\ running = Published \cup held[p]
    BY SeqFacts DEF Quiescent, EmptyHanded
  <2>3. Consistent /\ running = Published
    BY <2>2 DEF Place
  <2> QED
    BY <2>3 DEF Consistent
<1> QED
  BY <1>1, SequentialInvariance, PTL

-----------------------------------------------------------------------------
(* What a result is worth. *)

\* What SeqInv leaves open of a worker on its way to its result: which methods record
\* which state, a resume before it records its own, and a proxy that is unbound.
Ending(r, s) ==
  /\ r.op = "unbind" => r.target = None
  /\ r.op = "resume" /\ r.pc # "check" => s = "suspended"
  /\ r.pc = "setState" =>
       /\ r.op \notin {"none", "refresh", "shutdown"}
       /\ r.op \in {"startProxy", "resume"} => r.stage = "main" /\ r.to = "proxyOnly"
       /\ r.op \in {"startForwarder", "bindPhysical"} => r.stage = "rollback"
       /\ r.op = "unbind" => r.to = "stopped"
       /\ r.op = "suspend" => r.to = "suspended"

EndInv == \A p \in Workers : Ending(w[p], state)

LEMMA IdleEnds ==
  ASSUME NEW s PROVE Ending(Idle, s)
BY DEF Ending, Idle

\* The only worker moves to r.
LEMMA EndMoves ==
  ASSUME OneWorker, SeqInv, NEW p \in Workers, NEW r \in Locals, Step(p, r), Ending(r, state')
  PROVE  EndInv'
<1>1. w'[p] = IF r.pc \in Results THEN Idle ELSE r
  BY SeqFacts DEF Step, TypeOK
<1>2. Ending(w'[p], state')
  BY <1>1, IdleEnds
<1> QED
  BY <1>2 DEF EndInv, OneWorker

LEMMA AtEnds ==
  ASSUME NEW r \in Locals, NEW s, Ending(r, s), NEW label \in PCs \cup Results, label # "setState",
         r.op = "resume" => s = "suspended" \/ label \in Results
  PROVE  At(r, label) \in Locals /\ (label \in Results \/ Ending(At(r, label), s))
BY AtIs DEF Ending

\* dialProxy returned to a method.
LEMMA AfterDialEnds ==
  ASSUME NEW r \in Locals, NEW s, Ending(r, s), NEW ok \in BOOLEAN, r.pc # "check",
         r.stage = "rollback" => r.op \in {"startForwarder", "bindPhysical"},
         r.op \notin {"none", "suspend", "shutdown"}
  PROVE  AfterDial(r, ok) \in Locals /\ Ending(AfterDial(r, ok), s)
<1> DEFINE d == AfterDial(r, ok)
<1>0. d \in Locals
  BY AfterDialIs
<1>1. CASE r.op \in {"startProxy", "resume"}
  <2>1. r.stage = "main"
    BY <1>1 DEF Locals
  <2>2. CASE ok
    <3>1. d = SetTo(r, "proxyOnly")
      BY <1>1, <2>2 DEF AfterDial
    <3> QED
      BY <1>0, <1>1, <2>1, <3>1 DEF SetTo, Ending, Locals
  <2>3. CASE ~ok
    <3>1. d = At(r, "err")
      BY <1>1, <2>3 DEF AfterDial
    <3> QED
      BY <1>0, <1>1, <3>1 DEF At, Ending, Locals
  <2> QED
    BY <2>2, <2>3
<1>2. CASE r.op \notin {"startProxy", "resume"} /\ r.try = 1 /\ ~ok
  <2>1. d = [r EXCEPT !.try = 2, !.pc = "dial"]
    BY <1>2 DEF AfterDial
  <2> QED
    BY <1>0, <1>2, <2>1 DEF Ending, Locals
<1>3. CASE r.op \notin {"startProxy", "resume"} /\ ~(r.try = 1 /\ ~ok)
  <2> DEFINE first == ok /\ r.try = 1
  <2>1. d = AfterRecreate(r, first)
    BY <1>3 DEF AfterDial
  <2>2. first \in BOOLEAN
    OBVIOUS
  <2> HIDE DEF d, first
  <2>3. CASE r.stage = "rollback" \/ r.op \in Stops
    <3>1. PICK t \in States : d = SetTo(r, t)
      BY <2>1, <2>3 DEF AfterRecreate, Stops, States
    <3> QED
      BY <1>0, <1>3, <2>3, <3>1 DEF SetTo, Ending, Locals, Stops, d
  <2>4. CASE r.stage # "rollback" /\ r.op \notin Stops
    <3>0. r.stage = "main"
      BY <2>4 DEF Locals
    <3>1. CASE r.op \in {"startForwarder", "bindPhysical"} /\ ~first
      <4>1. d = Rollback(r)
        BY <2>1, <2>4, <3>0, <3>1 DEF AfterRecreate, Stops
      <4> QED
        BY <1>0, <3>1, <4>1 DEF Rollback, Recreate, Ending, Locals, d
    <3>2. CASE r.op = "unbind" /\ ~first
      <4>1. d = SetTo(r, "stopped")
        BY <2>1, <2>4, <3>0, <3>2 DEF AfterRecreate, Stops
      <4> QED
        BY <1>0, <3>2, <4>1 DEF SetTo, Ending, Locals, d
    <3>3. CASE ~(r.op \in {"startForwarder", "bindPhysical"} /\ ~first) /\ ~(r.op = "unbind" /\ ~first)
      <4>1. PICK label \in {"dialFwd", "strand", "ok"} : d = At(r, label)
        BY <2>1, <2>4, <3>0, <3>3 DEF AfterRecreate, Stops
      <4> QED
        BY <1>0, <1>3, <4>1 DEF At, Ending, Locals, d
    <3> QED
      BY <3>1, <3>2, <3>3
  <2> QED
    BY <2>3, <2>4 DEF d
<1> QED
  BY <1>0, <1>1, <1>2, <1>3

\* What a worker may rely on.
LEMMA EndFacts ==
  ASSUME SeqInv, EndInv, NEW p \in Workers
  PROVE  /\ w[p] \in Locals /\ Place(p) /\ TypeOK /\ Ending(w[p], state)
         /\ w[p].target \in Ifaces \cup {None} /\ w[p].op \in Ops \cup {"none", "shutdown"}
BY SeqFacts DEF EndInv, Locals

LEMMA EndCheck ==
  ASSUME OneWorker, SeqInv, EndInv, NEW p \in Workers, Check(p) PROVE EndInv'
<1>0. /\ w[p] \in Locals /\ w[p].pc = "check" /\ Ending(w[p], state) /\ bound \in Ifaces \cup {None}
      /\ w[p].target \in Ifaces \cup {None}
  BY EndFacts DEF Check, TypeOK
<1>a. ASSUME NEW label \in PCs \cup Results, label # "setState", Step(p, At(w[p], label)), state' = state,
             w[p].op = "resume" => state = "suspended" \/ label \in Results
      PROVE  EndInv'
  <2>1. At(w[p], label) \in Locals /\ (label \in Results \/ Ending(At(w[p], label), state))
    BY <1>0, <1>a, AtEnds
  <2>2. CASE label \in Results
    <3>1. w'[p] = Idle
      BY <1>a, <2>1, <2>2, <1>0, AtIs, SeqFacts DEF Step, TypeOK
    <3> QED
      BY <3>1, IdleEnds DEF EndInv, OneWorker
  <2>3. CASE Ending(At(w[p], label), state)
    BY <1>a, <2>1, <2>3, EndMoves
  <2> QED
    BY <2>1, <2>2, <2>3
<1>b. ASSUME NEW r \in Locals, r.op = w[p].op, r.op \notin {"unbind", "resume"}, r.pc # "setState",
             Step(p, r)
      PROVE  EndInv'
  BY <1>b, EndMoves DEF Ending
<1>1. CASE CheckStartProxy(p)
  BY <1>1, <1>a DEF CheckStartProxy, fields, PCs, Results
<1>2. CASE CheckStartForwarder(p)
  <2>1. CASE state = "vpn"
    BY <1>2, <2>1, <1>a DEF CheckStartForwarder, fields, Results
  <2>2. CASE state # "vpn" /\ proxy = None
    BY <1>2, <2>2, <1>a DEF CheckStartForwarder, fields, Results
  <2>3. CASE state # "vpn" /\ proxy # None
    <3> DEFINE r == [At(w[p], "probe") EXCEPT !.prev = bound]
    <3>1. Step(p, r) /\ w[p].op = "startForwarder"
      BY <1>2, <2>3 DEF CheckStartForwarder
    <3>2. r \in Locals /\ r.pc = "probe" /\ r.op = w[p].op
      BY <1>0 DEF At, Locals, PCs
    <3> HIDE DEF r
    <3> QED
      BY <1>b, <3>1, <3>2
  <2> QED
    BY <2>1, <2>2, <2>3
<1>3. CASE CheckStopForwarder(p)
  BY <1>3, <1>a DEF CheckStopForwarder, fields, PCs, Results
<1>4. CASE CheckSuspend(p)
  BY <1>4, <1>a DEF CheckSuspend, PCs
<1>5. CASE CheckResume(p)
  BY <1>5, <1>a DEF CheckResume, fields, PCs, Results
<1>6. CASE CheckBindPhysical(p)
  <2>0. w[p].op = "bindPhysical" /\ state' = state
    BY <1>6 DEF CheckBindPhysical, fields
  <2>1. (\E res \in {"ok", "err"} : Step(p, At(w[p], res)))
        \/ Step(p, [Recreate(w[p], w[p].target) EXCEPT !.prev = bound])
    BY <1>6 DEF CheckBindPhysical
  <2>2. CASE \E res \in {"ok", "err"} : Step(p, At(w[p], res))
    BY <1>a, <2>0, <2>2 DEF Results
  <2>3. CASE Step(p, [Recreate(w[p], w[p].target) EXCEPT !.prev = bound])
    <3> DEFINE r == [Recreate(w[p], w[p].target) EXCEPT !.prev = bound]
    <3>1. r \in Locals /\ r.pc = "take" /\ r.op = w[p].op
      BY <1>0 DEF Recreate, Locals, PCs
    <3> HIDE DEF r
    <3> QED
      BY <1>b, <2>0, <2>3, <3>1 DEF r
  <2> QED
    BY <2>1, <2>2, <2>3
<1>7. CASE CheckUnbind(p)
  <2>0. w[p].op = "unbind" /\ state' = state
    BY <1>7 DEF CheckUnbind, fields
  <2>1. CASE state = "proxyOnly"
    <3>1. Step(p, Recreate(w[p], None))
      BY <1>7, <2>1 DEF CheckUnbind
    <3>2. /\ Recreate(w[p], None) \in Locals /\ Recreate(w[p], None).pc = "take"
          /\ Recreate(w[p], None).op = "unbind" /\ Recreate(w[p], None).target = None
      BY <1>0, <2>0, RecreateIs
    <3>3. Ending(Recreate(w[p], None), state')
      BY <3>2 DEF Ending
    <3> QED
      BY <3>1, <3>2, <3>3, EndMoves
  <2>2. CASE state # "proxyOnly"
    BY <1>7, <1>a, <2>0, <2>2 DEF CheckUnbind, Results
  <2> QED
    BY <2>1, <2>2
<1>8. CASE CheckRefresh(p)
  <2>0. w[p].op = "refresh" /\ state' = state
    BY <1>8 DEF CheckRefresh, fields
  <2>1. CASE proxy = None
    BY <1>8, <1>a, <2>0, <2>1 DEF CheckRefresh, Results
  <2>2. CASE proxy # None
    <3>1. Step(p, Recreate(w[p], bound))
      BY <1>8, <2>2 DEF CheckRefresh
    <3>2. /\ Recreate(w[p], bound) \in Locals /\ Recreate(w[p], bound).pc = "take"
          /\ Recreate(w[p], bound).op = w[p].op
      BY <1>0, RecreateIs
    <3> QED
      BY <1>b, <2>0, <3>1, <3>2
  <2> QED
    BY <2>1, <2>2
<1> QED
  BY <1>1, <1>2, <1>3, <1>4, <1>5, <1>6, <1>7, <1>8 DEF Check

LEMMA EndWork ==
  ASSUME OneWorker, SeqInv, EndInv, NEW p \in Workers, Work(p) PROVE EndInv'
<1>0. /\ w[p] \in Locals /\ Place(p) /\ TypeOK /\ Ending(w[p], state)
      /\ w[p].target \in Ifaces \cup {None}
  BY EndFacts
<1>a. ASSUME NEW label \in PCs \cup Results, label # "setState", Step(p, At(w[p], label)),
             state' = state \/ label \in Results \/ w[p].op # "resume",
             w[p].pc # "check"
      PROVE  EndInv'
  <2>1. /\ At(w[p], label) \in Locals /\ At(w[p], label).pc = label
        /\ At(w[p], label).op = w[p].op /\ At(w[p], label).target = w[p].target
    BY <1>0, AtIs
  <2>2. CASE label \in Results
    <3>1. w'[p] = Idle
      BY <1>0, <1>a, <2>1, <2>2 DEF Step, TypeOK
    <3> QED
      BY <3>1, IdleEnds DEF EndInv, OneWorker
  <2>3. CASE label \notin Results
    <3>1. Ending(At(w[p], label), state')
      BY <1>0, <1>a, <2>1, <2>3 DEF Ending
    <3> QED
      BY <1>a, <2>1, <3>1, EndMoves
  <2> QED
    BY <2>2, <2>3
<1>d. ASSUME w[p].pc \in {"dial", "publish"}, NEW ok \in BOOLEAN, Step(p, AfterDial(w[p], ok)), state' = state
      PROVE  EndInv'
  <2>1. /\ w[p].stage = "rollback" => w[p].op \in {"startForwarder", "bindPhysical"}
        /\ w[p].op \notin {"none", "suspend", "shutdown"}
    BY <1>0, <1>d DEF Place, Dialling
  <2>2. AfterDial(w[p], ok) \in Locals /\ Ending(AfterDial(w[p], ok), state)
    BY <1>0, <1>d, <2>1, AfterDialEnds
  <2> QED
    BY <1>d, <2>2, EndMoves
<1>t. ASSUME NEW t \in Ifaces \cup {None}, w[p].op \notin {"unbind", "resume"}, Step(p, Recreate(w[p], t))
      PROVE  EndInv'
  <2>1. /\ Recreate(w[p], t) \in Locals /\ Recreate(w[p], t).pc = "take"
        /\ Recreate(w[p], t).op = w[p].op
    BY <1>0, RecreateIs
  <2>2. Ending(Recreate(w[p], t), state')
    BY <1>t, <2>1 DEF Ending
  <2> QED
    BY <1>t, <2>1, <2>2, EndMoves
<1>1. CASE Check(p)
  BY <1>1, EndCheck
<1>2. CASE CleanupOrphans(p)
  BY <1>2, <1>a DEF CleanupOrphans, fields, PCs, Results
<1>3. CASE SetState(p)
  BY <1>3, <1>a DEF SetState, Results
<1>4. CASE Strand(p)
  <2>1. w[p].op = "refresh" /\ w[p].pc = "strand"
    BY <1>0, <1>4 DEF Strand, Place
  <2> QED
    BY <1>4, <1>a, <2>1 DEF Strand, PCs, Results
<1>5. CASE TakeProxy(p)
  BY <1>5, <1>a DEF TakeProxy, PCs
<1>6. CASE CloseProxy(p)
  <2>0. w[p].pc = "closeProxy" /\ state' = state
    BY <1>6 DEF CloseProxy, fields
  <2>1. CASE w[p].op = "suspend"
    <3>1. Step(p, SetTo(w[p], "suspended"))
      BY <1>6, <2>1 DEF CloseProxy
    <3>2. SetTo(w[p], "suspended") \in Locals /\ Ending(SetTo(w[p], "suspended"), state')
      BY <1>0, <2>1 DEF SetTo, Ending, Locals, PCs, States
    <3> QED
      BY <3>1, <3>2, EndMoves
  <2>2. CASE w[p].op # "suspend"
    BY <1>6, <1>a, <2>0, <2>2 DEF CloseProxy, PCs, Results
  <2> QED
    BY <2>1, <2>2
<1>7. CASE DialProxy(p)
  BY <1>7, <1>a, <1>d DEF DialProxy, fields, PCs
<1>8. CASE CommitProxy(p)
  BY <1>8, <1>a DEF CommitProxy, fields, PCs
<1>9. CASE DiscardProxy(p)
  BY <1>0, <1>9 DEF DiscardProxy, Place
<1>10. CASE PublishProxy(p)
  BY <1>10, <1>d DEF PublishProxy
<1>11. CASE ProbeInterface(p)
  <2>1. w[p].op = "startForwarder" /\ state' = state /\ w[p].pc = "probe"
    BY <1>0, <1>11 DEF ProbeInterface, Place, fields
  <2> QED
    BY <1>11, <1>a, <1>t, <2>1 DEF ProbeInterface, Results
<1>12. CASE DialForwarder(p)
  <2>1. w[p].op = "startForwarder" /\ state' = state /\ w[p].pc = "dialFwd"
    BY <1>0, <1>12 DEF DialForwarder, Place, fields
  <2>2. CASE Step(p, Rollback(w[p]))
    <3>1. Rollback(w[p]) \in Locals /\ Rollback(w[p]).pc = "take" /\ Rollback(w[p]).op = w[p].op
      BY <1>0, RollbackIs
    <3>2. Ending(Rollback(w[p]), state')
      BY <2>1, <3>1 DEF Ending
    <3> QED
      BY <2>2, <3>1, <3>2, EndMoves
  <2>3. CASE Step(p, At(w[p], "commitFwd"))
    BY <1>a, <2>1, <2>3 DEF PCs
  <2> QED
    BY <1>12, <2>2, <2>3 DEF DialForwarder
<1>13. CASE CommitForwarder(p)
  BY <1>13, <1>a DEF CommitForwarder, fields, PCs
<1>14. CASE DiscardForwarder(p)
  BY <1>0, <1>14 DEF DiscardForwarder, Place
<1>15. CASE PublishForwarder(p)
  BY <1>15, <1>a DEF PublishForwarder, Results
<1>16. CASE TakeForwarder(p)
  BY <1>16, <1>a DEF TakeForwarder, PCs
<1>17. CASE CloseForwarder(p)
  <2>0. /\ w[p].pc = "closeFwd" /\ state' = state
        /\ w[p].op \in {"suspend", "shutdown", "refresh", "stopForwarder", "forwarderExited"}
    BY <1>0, <1>17 DEF CloseForwarder, Place, fields
  <2>1. CASE w[p].op \in {"suspend", "shutdown"}
    BY <1>17, <1>a, <2>0, <2>1 DEF CloseForwarder, PCs
  <2>2. CASE w[p].op = "refresh"
    BY <1>17, <1>a, <2>0, <2>2 DEF CloseForwarder, Results
  <2>3. CASE w[p].op \in {"stopForwarder", "forwarderExited"}
    BY <1>17, <1>t, <2>0, <2>3 DEF CloseForwarder
  <2> QED
    BY <2>0, <2>1, <2>2, <2>3
<1> QED
  BY <1>1, <1>2, <1>3, <1>4, <1>5, <1>6, <1>7, <1>8, <1>9, <1>10, <1>11, <1>12, <1>13, <1>14,
     <1>15, <1>16, <1>17 DEF Work

LEMMA EndNext ==
  ASSUME OneWorker, SeqInv, EndInv, [Next]_vars PROVE EndInv'
<1>1. ASSUME NEW c \in Clients, NEW p \in Workers, NEW op \in Ops, NEW t \in Targets(op),
             Transition(c, p, op, t)
      PROVE  EndInv'
  <2>1. w'[p].op = op /\ w'[p].pc = "check" /\ w'[p].target = t
    BY <1>1, SeqFacts DEF Transition, TypeOK, Idle
  <2>2. op = "unbind" => t = None
    BY DEF Targets
  <2>3. Ending(w'[p], state')
    BY <2>1, <2>2 DEF Ending
  <2> QED
    BY <2>3 DEF EndInv, OneWorker
<1>2. ASSUME NEW c \in Clients, NEW p \in Workers, Shutdown(c, p) PROVE EndInv'
  <2>1. w'[p].op = "shutdown" /\ w'[p].pc = "closeFwd"
    BY <1>2, SeqFacts DEF Shutdown, TypeOK, Idle
  <2>2. Ending(w'[p], state')
    BY <2>1 DEF Ending
  <2> QED
    BY <2>2 DEF EndInv, OneWorker
<1>3. ASSUME NEW c \in Clients, TimeOut(c) PROVE EndInv'
  BY <1>3 DEF TimeOut, EndInv, fields
<1>4. CASE UNCHANGED vars
  BY <1>4 DEF vars, fields, EndInv
<1> QED
  BY <1>1, <1>2, <1>3, <1>4, EndWork DEF Next, Call

\* The result a waiting caller gets is the one the worker returns with.
LEMMA ResultOf ==
  ASSUME SeqInv, NEW p \in Workers, NEW r \in Locals, Step(p, r),
         NEW c \in Clients, caller[c] = p, caller'[c] \in {"ok", "err"}
  PROVE  r.pc \in Results /\ caller'[c] = r.pc
<1>1. p \notin Results
  BY ConstantsOK
<1> QED
  BY <1>1 DEF Step, Results

LEMMA LabelResult ==
  ASSUME SeqInv, NEW p \in Workers, NEW label \in PCs \cup Results, Step(p, At(w[p], label)),
         NEW c \in Clients, caller[c] = p, caller'[c] \in {"ok", "err"}
  PROVE  label \in {"ok", "err"} /\ caller'[c] = label
<1>1. At(w[p], label) \in Locals /\ At(w[p], label).pc = label
  BY SeqFacts, AtIs
<1> QED
  BY <1>1, ResultOf

LEMMA DoneCheck ==
  ASSUME SeqInv, EndInv, NEW p \in Workers, Check(p),
         NEW c \in Clients, caller[c] = p, caller'[c] \in {"ok", "err"}
  PROVE  Done(w[p].op, w[p].target, caller'[c])
<1> DEFINE op == w[p].op
           target == w[p].target
           res == caller'[c]
<1>0. /\ w[p] \in Locals /\ Consistent /\ state \in States /\ bound \in Ifaces \cup {None}
      /\ target \in Ifaces \cup {None}
  BY EndFacts DEF Check, Place, TypeOK
<1>a. ASSUME NEW label \in PCs \cup Results, Step(p, At(w[p], label))
      PROVE  label \in {"ok", "err"} /\ res = label
  BY <1>a, LabelResult
<1>b. ASSUME NEW r \in Locals, r.pc \in PCs, Step(p, r) PROVE FALSE
  BY <1>b, ResultOf DEF PCs, Results
<1> HIDE DEF op, target, res
<1>1. CASE CheckStartProxy(p)
  <2>1. op = "startProxy" /\ proxy' = proxy
    BY <1>1 DEF CheckStartProxy, fields, op
  <2>2. res = "ok" /\ proxy # None
    BY <1>1, <1>a DEF CheckStartProxy, PCs, Results
  <2> QED
    BY <2>1, <2>2 DEF Done, op, target, res
<1>2. CASE CheckStartForwarder(p)
  <2>1. op = "startForwarder" /\ UNCHANGED fields
    BY <1>2 DEF CheckStartForwarder, op
  <2>2. CASE state = "vpn"
    <3>1. res = "ok"
      BY <1>2, <1>a, <2>2 DEF CheckStartForwarder, Results
    <3> QED
      BY <1>0, <2>1, <2>2, <3>1 DEF Done, Consistent, fields, op, target, res
  <2>3. CASE state # "vpn" /\ proxy = None
    <3>1. res = "err"
      BY <1>2, <1>a, <2>3 DEF CheckStartForwarder, Results
    <3>2. fwd = None
      BY <1>0, <2>3 DEF Consistent, States
    <3> QED
      BY <2>1, <3>1, <3>2 DEF Done, fields, op, target, res
  <2>4. CASE state # "vpn" /\ proxy # None
    <3> DEFINE r == [At(w[p], "probe") EXCEPT !.prev = bound]
    <3>1. Step(p, r)
      BY <1>2, <2>4 DEF CheckStartForwarder
    <3>2. r \in Locals /\ r.pc = "probe"
      BY <1>0 DEF At, Locals, PCs
    <3> HIDE DEF r
    <3> QED
      BY <1>b, <3>1, <3>2 DEF PCs
  <2> QED
    BY <2>2, <2>3, <2>4
<1>3. CASE CheckStopForwarder(p)
  <2>1. op \in {"stopForwarder", "forwarderExited"} /\ UNCHANGED fields
    BY <1>3 DEF CheckStopForwarder, op
  <2>2. state # "vpn"
    BY <1>3, <1>a DEF CheckStopForwarder, PCs
  <2>3. fwd' = None
    BY <1>0, <2>1, <2>2 DEF Consistent, States, fields
  <2> QED
    BY <2>1, <2>3 DEF Done, op, target, res
<1>4. CASE CheckSuspend(p)
  BY <1>4, <1>a DEF CheckSuspend, PCs
<1>5. CASE CheckResume(p)
  <2>1. op = "resume" /\ UNCHANGED fields
    BY <1>5 DEF CheckResume, op
  <2>2. res = "ok" /\ ~(state = "suspended" /\ proxy = None)
    BY <1>5, <1>a DEF CheckResume, PCs, Results
  <2>3. state' # "suspended"
    BY <1>0, <2>1, <2>2 DEF Consistent, fields
  <2> QED
    BY <2>1, <2>2, <2>3 DEF Done, op, target, res
<1>6. CASE CheckBindPhysical(p)
  <2>1. op = "bindPhysical" /\ UNCHANGED fields
    BY <1>6 DEF CheckBindPhysical, op
  <2>2. CASE state # "proxyOnly" \/ proxy = None
    <3>1. state' # "proxyOnly"
      BY <1>0, <2>1, <2>2 DEF Consistent, fields
    <3> QED
      BY <2>1, <3>1 DEF Done, op, target, res
  <2>3. CASE state = "proxyOnly" /\ proxy # None /\ target = None
    <3>1. res = "err"
      BY <1>6, <1>a, <2>3 DEF CheckBindPhysical, Results, target
    <3> QED
      BY <2>1, <3>1 DEF Done, op, target, res
  <2>4. CASE state = "proxyOnly" /\ proxy # None /\ target # None /\ bound = target
    BY <2>1, <2>4 DEF Done, fields, op, target, res
  <2>5. CASE state = "proxyOnly" /\ proxy # None /\ target # None /\ bound # target
    <3> DEFINE r == [Recreate(w[p], w[p].target) EXCEPT !.prev = bound]
    <3>1. Step(p, r)
      BY <1>6, <2>5 DEF CheckBindPhysical, target
    <3>2. r \in Locals /\ r.pc = "take"
      BY <1>0 DEF Recreate, Locals, PCs, target
    <3> HIDE DEF r
    <3> QED
      BY <1>b, <3>1, <3>2 DEF PCs
  <2> QED
    BY <2>2, <2>3, <2>4, <2>5
<1>7. CASE CheckUnbind(p)
  <2>1. op = "unbind" /\ UNCHANGED fields
    BY <1>7 DEF CheckUnbind, op
  <2>2. state # "proxyOnly"
    <3>1. Recreate(w[p], None) \in Locals /\ Recreate(w[p], None).pc = "take"
      BY <1>0, RecreateIs
    <3> QED
      BY <1>7, <1>b, <3>1 DEF CheckUnbind, PCs
  <2> QED
    BY <2>1, <2>2 DEF Done, fields, op, target, res
<1>8. CASE CheckRefresh(p)
  <2>1. op = "refresh" /\ UNCHANGED fields
    BY <1>8 DEF CheckRefresh, op
  <2>2. proxy = None
    <3>1. Recreate(w[p], bound) \in Locals /\ Recreate(w[p], bound).pc = "take"
      BY <1>0, RecreateIs
    <3> QED
      BY <1>8, <1>b, <3>1 DEF CheckRefresh, PCs
  <2>3. res = "err"
    BY <1>8, <1>a, <2>2 DEF CheckRefresh, Results
  <2>4. fwd' = None
    BY <1>0, <2>1, <2>2 DEF Consistent, States, fields
  <2> QED
    BY <2>1, <2>3, <2>4 DEF Done, op, target, res
<1> QED
  BY <1>1, <1>2, <1>3, <1>4, <1>5, <1>6, <1>7, <1>8 DEF Check, op, target, res

LEMMA DoneWork ==
  ASSUME SeqInv, EndInv, NEW p \in Workers, Work(p),
         NEW c \in Clients, caller[c] = p, caller'[c] \in {"ok", "err"}
  PROVE  Done(w[p].op, w[p].target, caller'[c])
<1> DEFINE op == w[p].op
           target == w[p].target
           res == caller'[c]
<1>0. /\ w[p] \in Locals /\ Place(p) /\ TypeOK /\ Ending(w[p], state) /\ op \in Ops \cup {"none", "shutdown"}
      /\ target \in Ifaces \cup {None} /\ None \notin Cores /\ running = Published \cup held[p]
      /\ w[p].pc \in EmptyHanded => held[p] = {}
      /\ w[p].pc \in {"closeProxy", "publish"} => held[p] \subseteq ProxyCores
      /\ w[p].pc = "publishFwd" => held[p] \subseteq FwdCores
  BY EndFacts, SeqFacts DEF IInv, Hands, HandsOf
<1>a. ASSUME NEW label \in PCs \cup Results, Step(p, At(w[p], label))
      PROVE  label \in {"ok", "err"} /\ res = label
  BY <1>a, LabelResult
<1>b. ASSUME NEW r \in Locals, r.pc \in PCs, Step(p, r) PROVE FALSE
  BY <1>b, ResultOf DEF PCs, Results
<1> HIDE DEF op, target, res
<1>1. CASE Check(p)
  BY <1>1, DoneCheck DEF op, target, res
<1>2. CASE CleanupOrphans(p)
  <2>1. op = "startProxy" /\ proxy' = None
    BY <1>0, <1>2 DEF CleanupOrphans, Place, fields, op
  <2>2. res = "err"
    BY <1>2, <1>a DEF CleanupOrphans, PCs, Results
  <2> QED
    BY <2>1, <2>2 DEF Done, op, target, res
<1>3. CASE SetState(p)
  <2>1. /\ w[p].pc = "setState" /\ UNCHANGED <<proxy, fwd, bound, running>>
        /\ state' = w[p].to /\ fwd' = None
        /\ w[p].to = "proxyOnly" => proxy' # None
        /\ w[p].to = "suspended" => proxy' = None
    BY <1>0, <1>3 DEF SetState, Place
  <2>2. res = IF w[p].stage = "rollback" \/ w[p].to = "stopped" THEN "err" ELSE "ok"
    BY <1>3, <1>a DEF SetState, Results
  <2>3. w[p].to = "suspended" => running' = {}
    BY <1>0, <2>1 DEF Published, EmptyHanded
  <2>4. /\ op \notin {"none", "refresh", "shutdown"}
        /\ op \in {"startProxy", "resume"} => w[p].stage = "main" /\ w[p].to = "proxyOnly"
        /\ op \in {"startForwarder", "bindPhysical"} => w[p].stage = "rollback"
        /\ op = "unbind" => w[p].to = "stopped"
        /\ op = "suspend" => w[p].to = "suspended"
    BY <1>0, <2>1 DEF Ending, op
  <2> QED
    BY <1>0, <2>1, <2>2, <2>3, <2>4 DEF Done, Ops, op, target, res
<1>4. CASE Strand(p)
  <2>1. op = "refresh" /\ w[p].gen = gen
    BY <1>0, <1>4 DEF Strand, Place, op
  <2>2. proxy' # None /\ res = "err"
    BY <1>4, <1>a, <2>1 DEF Strand, PCs, Results
  <2> QED
    BY <2>1, <2>2 DEF Done, op, target, res
<1>5. CASE TakeProxy(p)
  BY <1>5, <1>a DEF TakeProxy, PCs
<1>6. CASE CloseProxy(p)
  <2>1. op # "suspend"
    <3>1. SetTo(w[p], "suspended") \in Locals /\ SetTo(w[p], "suspended").pc = "setState"
      BY <1>0, SetToIs DEF States
    <3> QED
      BY <1>6, <1>b, <3>1 DEF CloseProxy, PCs, op
  <2>2. op = "shutdown"
    BY <1>6, <1>a, <2>1 DEF CloseProxy, PCs, op
  <2>3. w[p].pc = "closeProxy" /\ proxy = None /\ fwd = None /\ state' = "stopped"
    BY <1>0, <1>6, <2>2 DEF CloseProxy, Place, Dialling, fields, op
  <2>4. running = held[p] /\ running' = running \ (held[p] \cap ProxyCores)
    BY <1>0, <1>6, <2>3 DEF CloseProxy, CloseHeld, Published
  <2>5. running' = {}
    BY <1>0, <2>3, <2>4
  <2> QED
    BY <2>2, <2>3, <2>5 DEF Done, op, target, res
<1>7. CASE DialProxy(p)
  <2>1. w[p].pc = "dial" /\ proxy = None /\ UNCHANGED fields /\ op \notin {"none", "suspend", "shutdown"}
    BY <1>0, <1>7 DEF DialProxy, Place, Dialling, op
  <2>2. Step(p, AfterDial(w[p], FALSE))
    <3>1. ~Step(p, At(w[p], "commit"))
      BY <1>a DEF PCs
    <3> QED
      BY <1>7, <3>1 DEF DialProxy
  <2> DEFINE d == AfterDial(w[p], FALSE)
  <2>3. d \in Locals /\ ((op \in {"startProxy", "resume"} /\ d.pc = "err") \/ d.pc \in PCs)
    BY <1>0, <2>1, AfterDialIs DEF PCs, Ops, Stops, op
  <2> HIDE DEF d
  <2>4. op \in {"startProxy", "resume"} /\ d.pc = "err"
    BY <1>b, <2>2, <2>3 DEF d
  <2>5. res = "err"
    BY <2>2, <2>3, <2>4, ResultOf DEF d, res
  <2>6. op = "resume" => state' = "suspended"
    BY <1>0, <2>1 DEF Ending, fields, op
  <2> QED
    BY <2>1, <2>4, <2>5, <2>6 DEF Done, fields, op, target, res
<1>8. CASE CommitProxy(p)
  BY <1>8, <1>a DEF CommitProxy, PCs
<1>9. CASE DiscardProxy(p)
  BY <1>0, <1>9 DEF DiscardProxy, Place
<1>10. CASE PublishProxy(p)
  <2>1. /\ w[p].pc = "publish" /\ proxy' # None /\ bound' = target
        /\ op \notin {"none", "suspend", "shutdown"} /\ Step(p, AfterDial(w[p], TRUE))
    BY <1>0, <1>10 DEF PublishProxy, Place, Dialling, Cores, op, target
  <2> DEFINE d == AfterDial(w[p], TRUE)
  <2>2. d \in Locals /\ ((op \in {"bindPhysical", "unbind", "refresh"} /\ d.pc = "ok") \/ d.pc \in PCs)
    <3>1. /\ d \in Locals /\ d.pc \in {"setState", "take", "dialFwd", "strand", "ok"}
          /\ d.pc = "ok" => op \notin Stops /\ op \notin {"startForwarder", "startProxy", "resume"}
      BY <1>0, AfterDialWorks DEF op
    <3>2. d.pc # "ok" => d.pc \in PCs
      BY <3>1 DEF PCs
    <3>3. d.pc = "ok" => op \in {"bindPhysical", "unbind", "refresh"}
      BY <1>0, <2>1, <3>1 DEF Ops, Stops
    <3> QED
      BY <3>1, <3>2, <3>3
  <2> HIDE DEF d
  <2>3. op \in {"bindPhysical", "unbind", "refresh"}
    BY <1>b, <2>1, <2>2 DEF d
  <2>4. op = "unbind" => target = None
    BY <1>0 DEF Ending, op, target
  <2> QED
    BY <2>1, <2>3, <2>4 DEF Done, op, target, res
<1>11. CASE ProbeInterface(p)
  <2>1. op = "startForwarder" /\ fwd' = None
    BY <1>0, <1>11 DEF ProbeInterface, Place, fields, op
  <2>2. \A i \in Ifaces : Recreate(w[p], i) \in Locals /\ Recreate(w[p], i).pc = "take"
    BY <1>0, RecreateIs
  <2>3. res = "err"
    BY <1>11, <1>a, <1>b, <2>2 DEF ProbeInterface, PCs, Results
  <2> QED
    BY <2>1, <2>3 DEF Done, op, target, res
<1>12. CASE DialForwarder(p)
  <2>1. Rollback(w[p]) \in Locals /\ Rollback(w[p]).pc = "take"
    BY <1>0, RollbackIs
  <2> QED
    BY <1>12, <1>a, <1>b, <2>1 DEF DialForwarder, PCs
<1>13. CASE CommitForwarder(p)
  BY <1>13, <1>a DEF CommitForwarder, PCs
<1>14. CASE DiscardForwarder(p)
  BY <1>0, <1>14 DEF DiscardForwarder, Place
<1>15. CASE PublishForwarder(p)
  <2>1. op = "startForwarder" /\ fwd' # None /\ state' = "vpn" /\ proxy' # None /\ bound' # None
    BY <1>0, <1>15 DEF PublishForwarder, Place, Cores, op
  <2>2. res = "ok"
    BY <1>15, <1>a DEF PublishForwarder, Results
  <2> QED
    BY <2>1, <2>2 DEF Done, op, target, res
<1>16. CASE TakeForwarder(p)
  BY <1>16, <1>a DEF TakeForwarder, PCs
<1>17. CASE CloseForwarder(p)
  <2>1. fwd' = None /\ op \in {"suspend", "shutdown", "refresh", "stopForwarder", "forwarderExited"}
    BY <1>0, <1>17 DEF CloseForwarder, Place, fields, op
  <2>2. op \notin {"suspend", "shutdown"}
    BY <1>17, <1>a DEF CloseForwarder, PCs, op
  <2>3. op = "refresh"
    <3>1. Recreate(w[p], None) \in Locals /\ Recreate(w[p], None).pc = "take"
      BY <1>0, RecreateIs
    <3> QED
      BY <1>17, <1>b, <2>2, <3>1 DEF CloseForwarder, PCs, op
  <2>4. res = "err"
    BY <1>17, <1>a, <2>3 DEF CloseForwarder, Results, op
  <2> QED
    BY <2>1, <2>3, <2>4 DEF Done, op, target, res
<1> QED
  BY <1>1, <1>2, <1>3, <1>4, <1>5, <1>6, <1>7, <1>8, <1>9, <1>10, <1>11, <1>12, <1>13, <1>14,
     <1>15, <1>16, <1>17 DEF Work, op, target, res

\* With one transition at a time, whatever fails, is tried again or rolled back: what a
\* caller is told is true of what runs.
THEOREM ResultsAreTrue ==
  ASSUME OneWorker PROVE Spec => ResultIsTrue
<1>1. Init => EndInv
  BY IdleEnds DEF Init, EndInv
<1>2. SeqInv /\ EndInv /\ [Next]_vars => EndInv'
  BY EndNext
<1>3. SeqInv /\ EndInv /\ [Next]_vars =>
        [\A c \in Clients : Waiting(c) /\ caller'[c] \in {"ok", "err"} =>
            Done(w[caller[c]].op, w[caller[c]].target, caller'[c])]_vars
  <2> SUFFICES ASSUME SeqInv, EndInv, Next,
                      NEW c \in Clients, Waiting(c), caller'[c] \in {"ok", "err"}
               PROVE  Done(w[caller[c]].op, w[caller[c]].target, caller'[c])
    OBVIOUS
  <2> DEFINE p == caller[c]
  <2>0. p \in Workers /\ p \notin Results
    BY ConstantsOK DEF Waiting
  <2>1. TypeOK
    BY <2>0, SeqFacts
  <2>2. ASSUME NEW d \in Clients, NEW q \in Workers, Call(d, q) PROVE FALSE
    <3>1. ~Waiting(d) /\ caller' = [caller EXCEPT ![d] = q]
      BY <2>2 DEF Call, Transition, Shutdown
    <3>2. c # d
      BY <3>1
    <3>3. caller'[c] = p
      BY <2>1, <3>1, <3>2 DEF TypeOK
    <3> QED
      BY <2>0, <3>3 DEF Results
  <2>3. ASSUME NEW d \in Clients, TimeOut(d) PROVE FALSE
    <3>1. caller' = [caller EXCEPT ![d] = "timeout"]
      BY <2>3 DEF TimeOut
    <3>2. caller'[c] \in {p, "timeout"}
      BY <2>1, <3>1 DEF TypeOK
    <3> QED
      BY <2>0, <3>2 DEF Results
  <2>4. ASSUME NEW q \in Workers, Work(q) PROVE Done(w[p].op, w[p].target, caller'[c])
    <3>1. q = p
      BY <2>0 DEF OneWorker
    <3> HIDE DEF p
    <3> QED
      BY <2>0, <2>4, <3>1, DoneWork DEF p
  <2> QED
    BY <2>2, <2>3, <2>4 DEF Next
<1> QED
  BY <1>1, <1>2, <1>3, SequentialInvariance, PTL DEF Spec, ResultIsTrue

-----------------------------------------------------------------------------
(***************************************************************************)
(* The manager between its two real callers.  What the monitor, Loop and a *)
(* command do to the manager is what some client of RuntimeManager may do, *)
(* so that what is proved of the manager holds beside them.  Only these    *)
(* theorems use CoexistConstantsOK.                                        *)
(***************************************************************************)

\* The one call a command or Apply makes is a call of the manager.
LEMMA Call1IsCall ==
  ASSUME NEW c \in Clients, NEW op \in Ops, Call1(c, op)
  PROVE  Next
<1>1. None \in Targets(op)
  BY DEF Targets
<1>2. PICK p \in Workers : Transition(c, p, op, None)
  BY DEF Call1
<1>3. Call(c, p)
  BY <1>1, <1>2 DEF Call
<1> QED
  BY <1>3 DEF Next

LEMMA CoStep ==
  ASSUME [CoNext]_cvars
  PROVE  [Next]_vars
<1> USE CoexistConstantsOK
<1>1. CASE CiscoFlips \/ PhysChanges
  BY <1>1 DEF CiscoFlips, PhysChanges
<1>2. CASE PollObserve \/ PollState \/ PollIface \/ PollDecide \/ PollSend
  BY <1>2 DEF PollObserve, PollState, PollIface, PollDecide, PollSend
<1>3. CASE ApplyBegin
  <2>1. ApplyOp(Head(out).act) \in Ops
    BY DEF ApplyOp, Ops
  <2>2. Call1(Loop, ApplyOp(Head(out).act))
    BY <1>3 DEF ApplyBegin
  <2> QED
    BY <2>1, <2>2, Call1IsCall
<1>4. CASE ApplyEnd \/ CommandReturns
  BY <1>4 DEF ApplyEnd, CommandReturns
<1>5. CASE EnableVPN \/ EnableVPNForwarder
  BY <1>5, Call1IsCall DEF EnableVPN, EnableVPNForwarder, Ops
<1>6. CASE EnableProxy
  <2>1. PICK op \in Ops : Call1(User, op)
    BY <1>6 DEF EnableProxy, Ops
  <2> QED
    BY <2>1, Call1IsCall
<1>7. CASE Stop
  BY <1>7 DEF Stop, Call, Next
<1>8. ASSUME NEW p \in Workers, CoWork(p) PROVE Next
  BY <1>8 DEF CoWork, Next
<1>9. ASSUME NEW c \in Clients, CoTimeOut(c) PROVE Next
  BY <1>9 DEF CoTimeOut, Next
<1>10. CASE UNCHANGED cvars
  BY <1>10 DEF cvars
<1> QED
  BY <1>1, <1>2, <1>3, <1>4, <1>5, <1>6, <1>7, <1>8, <1>9, <1>10 DEF CoNext

\* Monitor, Loop and commands, overlapping or not, use the manager only through its
\* methods: the composition implements the specification of the manager.
THEOREM CoexistenceImplementsManager == CoSpec => Spec
<1>1. CoInit => Init
  BY DEF CoInit
<1>2. [CoNext]_cvars => [Next]_vars
  BY CoStep
<1> QED
  BY <1>1, <1>2, PTL DEF CoSpec, Spec

\* While the manager's calls do not overlap, no decision of the monitor, however old it
\* is when Loop enacts it, makes our TUN and an unpinned proxy run together.
THEOREM StaleDecisionsNeverLoop ==
  ASSUME OneWorker PROVE CoSpec => []NoTunLoop
  BY CoexistenceImplementsManager, TunNeverLoops, PTL

\* While the manager's calls do not overlap, commands and stale decisions leave a state
\* that says what runs.
THEOREM StaleDecisionsKeepState ==
  ASSUME OneWorker, Workers # {} PROVE CoSpec => []StateMatchesCores
  BY CoexistenceImplementsManager, StateIsTrue, PTL

-----------------------------------------------------------------------------
(* Stop, and decisions enacted after it. *)

\* Until the next command nothing is published and no goroutine can start a core.
OffInv ==
  /\ cmd = "vpn" => asked
  /\ ~asked =>
       /\ state = "stopped" /\ proxy = None /\ fwd = None
       /\ \A p \in Workers :
            \/ w[p].pc = "idle"
            \/ w[p].pc = "check" /\ w[p].op \in {"stopForwarder", "unbind", "refresh"}
            \/ w[p].pc \in {"closeFwd", "closeProxy"} /\ w[p].op = "shutdown"

LEMMA OffWork ==
  ASSUME OneWorker, SeqInv, OffInv, ~asked, NEW p \in Workers, Work(p), UNCHANGED <<cmd, asked>>
  PROVE  OffInv'
<1>0. TypeOK /\ w[p] \in Locals
  BY SeqFacts
<1>1. CASE w[p].pc = "check"
  <2>1. w[p].op \in {"stopForwarder", "unbind", "refresh"} /\ state = "stopped" /\ proxy = None
    BY <1>1 DEF OffInv
  <2>2. Check(p)
    BY <1>1 DEF Work, CleanupOrphans, SetState, Strand, TakeProxy, CloseProxy, DialProxy, CommitProxy,
                DiscardProxy, PublishProxy, ProbeInterface, DialForwarder, CommitForwarder,
                DiscardForwarder, PublishForwarder, TakeForwarder, CloseForwarder
  <2>3. UNCHANGED fields /\ \E l \in {"ok", "err"} : Step(p, At(w[p], l))
    BY <2>1, <2>2 DEF Check, CheckStartProxy, CheckStartForwarder, CheckStopForwarder, CheckSuspend,
                      CheckResume, CheckBindPhysical, CheckUnbind, CheckRefresh
  <2>4. w'[p] = Idle
    BY <1>0, <2>3, AtIs DEF Step, TypeOK, Results
  <2> QED
    BY <2>3, <2>4 DEF OffInv, OneWorker, Idle, fields
<1>2. CASE w[p].pc = "closeFwd"
  <2>1. w[p].op = "shutdown"
    BY <1>2 DEF OffInv
  <2>2. CloseForwarder(p)
    BY <1>2 DEF Work, Check, CleanupOrphans, SetState, Strand, TakeProxy, CloseProxy, DialProxy,
                CommitProxy, DiscardProxy, PublishProxy, ProbeInterface, DialForwarder, CommitForwarder,
                DiscardForwarder, PublishForwarder, TakeForwarder
  <2>3. UNCHANGED fields /\ Step(p, At(w[p], "closeProxy"))
    BY <2>1, <2>2 DEF CloseForwarder
  <2>4. w'[p].pc = "closeProxy" /\ w'[p].op = "shutdown"
    BY <1>0, <2>1, <2>3, AtIs DEF Step, TypeOK, Results, PCs
  <2> QED
    BY <2>3, <2>4 DEF OffInv, OneWorker, fields
<1>3. CASE w[p].pc = "closeProxy"
  <2>1. w[p].op = "shutdown"
    BY <1>3 DEF OffInv
  <2>2. CloseProxy(p)
    BY <1>3 DEF Work, Check, CleanupOrphans, SetState, Strand, TakeProxy, DialProxy, CommitProxy,
                DiscardProxy, PublishProxy, ProbeInterface, DialForwarder, CommitForwarder,
                DiscardForwarder, PublishForwarder, TakeForwarder, CloseForwarder
  <2>3. UNCHANGED fields /\ \E l \in {"ok", "err"} : Step(p, At(w[p], l))
    BY <2>1, <2>2 DEF CloseProxy
  <2>4. w'[p] = Idle
    BY <1>0, <2>3, AtIs DEF Step, TypeOK, Results
  <2> QED
    BY <2>3, <2>4 DEF OffInv, OneWorker, Idle, fields
<1>4. CASE w[p].pc = "idle"
  BY <1>4 DEF Work, Check, CleanupOrphans, SetState, Strand, TakeProxy, CloseProxy, DialProxy,
              CommitProxy, DiscardProxy, PublishProxy, ProbeInterface, DialForwarder, CommitForwarder,
              DiscardForwarder, PublishForwarder, TakeForwarder, CloseForwarder
<1> QED
  BY <1>1, <1>2, <1>3, <1>4 DEF OffInv

LEMMA OffStep ==
  ASSUME OneWorker, SeqInv, OffInv, [CoNext]_cvars
  PROVE  OffInv'
<1> USE CoexistConstantsOK
<1>1. CASE CiscoFlips \/ PhysChanges \/ PollObserve \/ PollState \/ PollIface \/ PollDecide \/ PollSend
  BY <1>1 DEF CiscoFlips, PhysChanges, PollObserve, PollState, PollIface, PollDecide, PollSend, exeVars,
              vars, fields, OffInv
<1>2. CASE ApplyBegin
  <2>1. PICK p \in Workers : Transition(Loop, p, ApplyOp(Head(out).act), None)
    BY <1>2 DEF ApplyBegin, Call1
  <2>2. UNCHANGED <<cmd, asked, fields>>
    BY <1>2, <2>1 DEF ApplyBegin, Transition
  <2>3. ~asked => ApplyOp(Head(out).act) \in {"stopForwarder", "unbind", "refresh"}
    BY DEF OffInv, ApplyOp
  <2>4. w'[p].pc = "check" /\ w'[p].op = ApplyOp(Head(out).act)
    BY <2>1, SeqFacts DEF Transition, TypeOK, Idle
  <2> QED
    BY <2>2, <2>3, <2>4 DEF OffInv, OneWorker, fields
<1>3. CASE ApplyEnd \/ CommandReturns
  BY <1>3 DEF ApplyEnd, CommandReturns, Command, vars, fields, OffInv
<1>4. CASE EnableVPN \/ EnableVPNForwarder \/ EnableProxy
  BY <1>4 DEF EnableVPN, EnableVPNForwarder, EnableProxy, Command, OffInv
<1>5. CASE Stop
  <2>1. PICK p \in Workers : Shutdown(User, p)
    BY <1>5 DEF Stop
  <2>2. cmd' = "wait" /\ state' = "stopped" /\ proxy' = None /\ fwd' = None
    BY <1>5, <2>1 DEF Stop, Command, Shutdown
  <2>3. w'[p].pc = "closeFwd" /\ w'[p].op = "shutdown"
    BY <2>1, SeqFacts DEF Shutdown, TypeOK, Idle
  <2> QED
    BY <2>2, <2>3 DEF OffInv, OneWorker
<1>6. ASSUME NEW p \in Workers, CoWork(p) PROVE OffInv'
  <2>1. Work(p) /\ UNCHANGED <<cmd, asked>>
    BY <1>6 DEF CoWork, exeVars
  <2>2. CASE asked
    BY <2>1, <2>2 DEF OffInv
  <2> QED
    BY <2>1, <2>2, OffWork
<1>7. ASSUME NEW c \in Clients, CoTimeOut(c) PROVE OffInv'
  BY <1>7 DEF CoTimeOut, TimeOut, exeVars, fields, OffInv
<1>8. CASE UNCHANGED cvars
  BY <1>8 DEF cvars, exeVars, vars, fields, OffInv
<1> QED
  BY <1>1, <1>2, <1>3, <1>4, <1>5, <1>6, <1>7, <1>8 DEF CoNext

\* While the manager's calls do not overlap: after Stop no decision of the monitor,
\* waiting or new, brings a core up again.
THEOREM StopStaysFinal ==
  ASSUME OneWorker, Workers # {} PROVE CoSpec => []StopIsFinal
<1>1. CoInit => OffInv
  BY DEF CoInit, Init, Idle, OffInv
<1>2. SeqInv /\ OffInv /\ [CoNext]_cvars => OffInv'
  BY OffStep
<1>3. SeqInv /\ OffInv => StopIsFinal
  <2> SUFFICES ASSUME SeqInv, OffInv, ~asked, Quiescent PROVE running = {}
    BY DEF StopIsFinal
  <2>1. PICK p : p \in Workers
    OBVIOUS
  <2>2. w[p].pc = "idle" /\ proxy = None /\ fwd = None
    BY <2>1 DEF Quiescent, OffInv
  <2>3. held[p] = {} /\ running = Published \cup held[p]
    BY <2>1, <2>2, SeqFacts DEF EmptyHanded
  <2> QED
    BY <2>2, <2>3 DEF Published
<1> QED
  BY <1>1, <1>2, <1>3, CoexistenceImplementsManager, SequentialInvariance, PTL DEF CoSpec

-----------------------------------------------------------------------------
(* What the monitor makes of the changes of the network. *)

Actual == IF cisco THEN "active" ELSE "inactive"

Debouncers == [committed : CiscoStates, pending : CiscoStates, count : Nat]

\* The changes that no refresh has been decided for yet: the monitor is behind the
\* filter, the filter behind the network, the poll in progress has seen another
\* interface, or the next one will.
MonitorBehind == IF prevCisco \in {"unknown", deb.committed} THEN 0 ELSE 1
FilterBehind  == IF deb.committed \in {"unknown", Actual} THEN 0 ELSE 1
PollMoved     == IF poll.at \in {"state", "iface", "decide"} /\ poll.changed THEN 1 ELSE 0
NextMoves     == IF prevPhys \in {None, phys} THEN 0 ELSE 1
Unused        == MonitorBehind + FilterBehind + PollMoved + NextMoves

EarnInv ==
  /\ cisco \in BOOLEAN /\ changes \in Nat /\ refreshes \in Nat /\ deb \in Debouncers
  /\ prevCisco \in CiscoStates /\ (prevCisco # "unknown" => deb.committed # "unknown")
  /\ refreshes + Unused <= changes

LEMMA ObserveIs ==
  ASSUME NEW d \in Debouncers, NEW raw \in {"active", "inactive"}
  PROVE  LET e == Observe(d, raw, Threshold) IN
         /\ e \in Debouncers /\ e.committed \in {d.committed, raw} /\ e.committed # "unknown"
<1> USE CoexistConstantsOK
<1>0. d.committed \in CiscoStates /\ d.pending \in CiscoStates /\ d.count \in Nat
  BY DEF Debouncers
<1>1. CASE d.committed \in {"unknown", raw}
  BY <1>1 DEF Observe, Debouncers, CiscoStates
<1>2. CASE d.committed \notin {"unknown", raw}
  <2>0. Observe(d, raw, Threshold) = Confirm(d, raw, Threshold)
    BY <1>2 DEF Observe
  <2> DEFINE n == IF raw = d.pending THEN d.count + 1 ELSE 1
  <2>1. n \in Nat
    BY <1>0
  <2>2. CASE n >= Threshold
    <3>1. Confirm(d, raw, Threshold) = [committed |-> raw, pending |-> raw, count |-> 0]
      BY <2>2 DEF Confirm
    <3> QED
      BY <2>0, <3>1 DEF Debouncers, CiscoStates
  <2>3. CASE ~(n >= Threshold)
    <3>1. Confirm(d, raw, Threshold) = [d EXCEPT !.pending = raw, !.count = n]
      BY <2>3 DEF Confirm
    <3> HIDE DEF n
    <3>2. Confirm(d, raw, Threshold) \in Debouncers /\ Confirm(d, raw, Threshold).committed = d.committed
      BY <2>1, <3>1 DEF Debouncers, CiscoStates
    <3> QED
      BY <1>2, <2>0, <3>2
  <2> QED
    BY <2>2, <2>3
<1> QED
  BY <1>1, <1>2

LEMMA EarnNet ==
  ASSUME EarnInv, CiscoFlips \/ PhysChanges PROVE EarnInv'
<1>1. changes' = changes + 1 /\ UNCHANGED <<refreshes, deb, prevCisco, prevPhys, poll>>
  BY DEF CiscoFlips, PhysChanges, monVars
<1>2. cisco' \in BOOLEAN /\ (cisco' = cisco \/ phys' = phys)
  BY DEF CiscoFlips, PhysChanges, EarnInv
<1>3. MonitorBehind' = MonitorBehind /\ PollMoved' = PollMoved
  BY <1>1 DEF MonitorBehind, PollMoved
<1>4. FilterBehind' = FilterBehind \/ NextMoves' = NextMoves
  BY <1>1, <1>2 DEF FilterBehind, NextMoves, Actual
<1>5. refreshes' + Unused' <= changes'
  BY <1>1, <1>3, <1>4 DEF EarnInv, Unused, MonitorBehind, FilterBehind, PollMoved,
      NextMoves
<1> QED
  BY <1>1, <1>2, <1>5 DEF EarnInv

LEMMA EarnObserve ==
  ASSUME EarnInv, PollObserve PROVE EarnInv'
<1> USE CoexistConstantsOK
<1>1. /\ poll.at = "idle" /\ deb' = Observe(deb, Actual, Threshold)
      /\ poll'.changed = (phys # None /\ prevPhys \notin {None, phys})
      /\ prevPhys' = (IF phys # None THEN phys ELSE prevPhys)
      /\ UNCHANGED <<cisco, phys, changes, prevCisco, refreshes>>
  BY DEF PollObserve, NoPoll, netVars, Actual
<1>2. Actual \in {"active", "inactive"} /\ Actual' = Actual
  BY <1>1 DEF Actual
<1>3. deb' \in Debouncers /\ deb'.committed \in {deb.committed, Actual} /\ deb'.committed # "unknown"
  BY <1>1, <1>2, ObserveIs DEF EarnInv
<1>4. \/ MonitorBehind' = MonitorBehind /\ FilterBehind' = FilterBehind
      \/ FilterBehind' = 0 /\ (FilterBehind = 1 \/ MonitorBehind' = 0)
  <2>1. CASE deb'.committed = deb.committed
    <3>1. MonitorBehind' = MonitorBehind
      BY <1>1, <2>1 DEF MonitorBehind
    <3>2. FilterBehind' = FilterBehind
      BY <1>2, <2>1 DEF FilterBehind
    <3> QED
      BY <3>1, <3>2
  <2>2. CASE deb'.committed # deb.committed
    <3>1. FilterBehind' = 0
      BY <1>2, <1>3, <2>2 DEF FilterBehind
    <3>2. prevCisco # "unknown" => FilterBehind = 1
      BY <1>2, <1>3, <2>2 DEF FilterBehind, EarnInv
    <3>3. prevCisco = "unknown" => MonitorBehind' = 0
      BY <1>1 DEF MonitorBehind
    <3> QED
      BY <3>1, <3>2, <3>3
  <2> QED
    BY <2>1, <2>2
<1>5. \/ PollMoved' = 0 /\ NextMoves' = NextMoves
      \/ NextMoves' = 0 /\ (NextMoves = 1 \/ PollMoved' = 0)
  <2>1. CASE phys = None
    BY <1>1, <2>1 DEF PollMoved, NextMoves
  <2>2. CASE phys # None
    <3>1. NextMoves' = 0
      BY <1>1, <2>2 DEF NextMoves
    <3>2. NextMoves = 1 \/ PollMoved' = 0
      BY <1>1, <2>2 DEF PollMoved, NextMoves
    <3> QED
      BY <3>1, <3>2
  <2> QED
    BY <2>1, <2>2
<1>6. refreshes' + Unused' <= changes'
  BY <1>1, <1>4, <1>5 DEF EarnInv, Unused, MonitorBehind, FilterBehind, PollMoved,
      NextMoves
<1>7. cisco' \in BOOLEAN /\ changes' \in Nat /\ refreshes' \in Nat /\ prevCisco' \in CiscoStates
  BY <1>1 DEF EarnInv
<1> QED
  BY <1>3, <1>6, <1>7 DEF EarnInv

\* A refresh is decided only on an edge between two known states or another interface.
LEMMA RefreshHasCause ==
  ASSUME "refreshProxy" \in Decision.actions
  PROVE  prevCisco \notin {"unknown", deb.committed} \/ poll.changed
<1> DEFINE i == [mode |-> Mode, prevCisco |-> prevCisco, newCisco |-> deb.committed,
                 intent |-> "none", physChanged |-> poll.changed, boundPhys |-> poll.boundPhys]
<1>1. Decision = DecideObserved(i)
  BY DEF Decision, Decide
<1>2. \A m, a : Only(m, a).actions = a
  BY DEF Only
<1>3. CiscoChanged(i) \/ i.physChanged
  BY <1>1, <1>2 DEF DecideObserved
<1> QED
  BY <1>3 DEF CiscoChanged

LEMMA EarnDecide ==
  ASSUME EarnInv, PollDecide PROVE EarnInv'
<1>1. /\ poll.at = "decide" /\ prevCisco' = deb.committed
      /\ UNCHANGED <<cisco, phys, changes, deb, prevPhys>>
  BY DEF PollDecide, Decided, netVars
<1>2. \/ refreshes' = refreshes
      \/ refreshes' = refreshes + 1 /\ "refreshProxy" \in Decision.actions
  BY DEF PollDecide, Decided
<1>3. poll'.at \notin {"state", "iface", "decide"}
  <2>1. CASE Decision.actions = {}
    BY <2>1 DEF PollDecide, Decided, NoPoll
  <2>2. CASE Decision.actions # {}
    BY <2>2 DEF PollDecide, Decided
  <2> QED
    BY <2>1, <2>2
<1>4. MonitorBehind' = 0 /\ PollMoved' = 0
  BY <1>1, <1>3 DEF MonitorBehind, PollMoved
<1>5. FilterBehind' = FilterBehind /\ NextMoves' = NextMoves
  BY <1>1 DEF FilterBehind, NextMoves, Actual
<1>6. "refreshProxy" \in Decision.actions => MonitorBehind = 1 \/ PollMoved = 1
  BY <1>1, RefreshHasCause DEF MonitorBehind, PollMoved
<1>7. refreshes' \in Nat
  BY <1>2 DEF EarnInv
<1>8. refreshes' + Unused' <= changes'
  <2>1. CASE refreshes' = refreshes
    BY <1>1, <1>4, <1>5, <2>1 DEF EarnInv, Unused, MonitorBehind, FilterBehind,
        PollMoved, NextMoves
  <2>2. CASE refreshes' = refreshes + 1 /\ MonitorBehind = 1
    BY <1>1, <1>4, <1>5, <2>2 DEF EarnInv, Unused, MonitorBehind, FilterBehind,
        PollMoved, NextMoves
  <2>3. CASE refreshes' = refreshes + 1 /\ PollMoved = 1
    BY <1>1, <1>4, <1>5, <2>3 DEF EarnInv, Unused, MonitorBehind, FilterBehind,
        PollMoved, NextMoves
  <2> QED
    BY <1>2, <1>6, <2>1, <2>2, <2>3
<1>9. prevCisco' \in CiscoStates
  BY <1>1 DEF EarnInv, Debouncers
<1> QED
  BY <1>1, <1>7, <1>8, <1>9 DEF EarnInv

LEMMA EarnRest ==
  ASSUME EarnInv, UNCHANGED <<netVars, deb, prevCisco, prevPhys, refreshes>>,
         \/ UNCHANGED poll
         \/ poll'.at \in {"idle", "send"}
         \/ poll.at \in {"state", "iface"} /\ poll'.changed = poll.changed
  PROVE  EarnInv'
<1>1. PollMoved' = PollMoved \/ PollMoved' = 0
  BY DEF PollMoved
<1>2. MonitorBehind' = MonitorBehind /\ FilterBehind' = FilterBehind /\ NextMoves' = NextMoves
  BY DEF MonitorBehind, FilterBehind, NextMoves, Actual, netVars
<1>3. refreshes' + Unused' <= changes'
  BY <1>1, <1>2 DEF EarnInv, Unused, MonitorBehind, FilterBehind, PollMoved,
      NextMoves, netVars
<1> QED
  BY <1>3 DEF EarnInv, netVars

PollFields == "changed" \in DOMAIN poll

LEMMA PollKeepsFields ==
  ASSUME PollFields, [CoNext]_cvars PROVE PollFields'
<1>1. CASE PollObserve
  BY <1>1 DEF PollObserve, NoPoll, PollFields
<1>2. CASE PollState \/ PollIface
  BY <1>2 DEF PollState, PollIface, PollFields
<1>3. CASE PollDecide
  BY <1>3 DEF PollDecide, Decided, NoPoll, PollFields
<1>4. CASE PollSend
  BY <1>4 DEF PollSend, NoPoll, PollFields
<1>5. CASE UNCHANGED poll
  BY <1>5 DEF PollFields
<1>6. \/ PollObserve \/ PollState \/ PollIface \/ PollDecide \/ PollSend
      \/ UNCHANGED poll
  BY DEF CoNext, CiscoFlips, PhysChanges, ApplyBegin, ApplyEnd, EnableVPN, EnableVPNForwarder,
         EnableProxy, Stop, CommandReturns, Command, CoWork, CoTimeOut, cvars, monVars
<1> QED
  BY <1>1, <1>2, <1>3, <1>4, <1>5, <1>6

LEMMA EarnStep ==
  ASSUME EarnInv, PollFields, [CoNext]_cvars PROVE EarnInv'
<1>1. CASE CiscoFlips \/ PhysChanges
  BY <1>1, EarnNet
<1>2. CASE PollObserve
  BY <1>2, EarnObserve
<1>3. CASE PollDecide
  BY <1>3, EarnDecide
<1>4. CASE PollState \/ PollIface
  <2>1. poll.at \in {"state", "iface"} /\ poll'.changed = poll.changed
    BY <1>4 DEF PollState, PollIface, PollFields
  <2> QED
    BY <1>4, <2>1, EarnRest DEF PollState, PollIface
<1>5. CASE PollSend
  BY <1>5, EarnRest DEF PollSend, NoPoll
<1>6. CASE ApplyBegin \/ ApplyEnd
  BY <1>6, EarnRest DEF ApplyBegin, ApplyEnd, monVars
<1>7. CASE EnableVPN \/ EnableVPNForwarder \/ EnableProxy \/ Stop \/ CommandReturns
  BY <1>7, EarnRest DEF EnableVPN, EnableVPNForwarder, EnableProxy, Stop, CommandReturns, Command, monVars
<1>8. ASSUME NEW p \in Workers, CoWork(p) PROVE EarnInv'
  BY <1>8, EarnRest DEF CoWork, monVars
<1>9. ASSUME NEW c \in Clients, CoTimeOut(c) PROVE EarnInv'
  BY <1>9, EarnRest DEF CoTimeOut, monVars
<1>10. CASE UNCHANGED cvars
  BY <1>10, EarnRest DEF cvars, monVars
<1> QED
  BY <1>1, <1>2, <1>3, <1>4, <1>5, <1>6, <1>7, <1>8, <1>9, <1>10 DEF CoNext

\* For every threshold, any overlap of commands and decisions: the monitor asks for no
\* more refreshes than the network has changed.
THEOREM RefreshesAreEarned == CoSpec => []RefreshIsEarned
<1>1. CoInit => EarnInv /\ PollFields
  BY DEF CoInit, EarnInv, Unused, MonitorBehind, FilterBehind, PollMoved, NextMoves, NewDebouncer,
         Debouncers, CiscoStates, NoPoll, PollFields
<1>2. EarnInv /\ PollFields /\ [CoNext]_cvars => EarnInv' /\ PollFields'
  BY EarnStep, PollKeepsFields
<1>3. EarnInv => RefreshIsEarned
  BY DEF EarnInv, Unused, RefreshIsEarned, MonitorBehind, FilterBehind, PollMoved, NextMoves
<1> QED
  BY <1>1, <1>2, <1>3, PTL DEF CoSpec
=============================================================================
