------------------------- MODULE MachineEffectsProofs --------------------------
(***************************************************************************)
(* What others see of the Machine controller, for every value of its       *)
(* constants: who owns infrastructure, what runs on it when it is told to  *)
(* go, and that each Machine only goes forward: MachineController          *)
(* implements MachineLifecycle.                                            *)
(***************************************************************************)
EXTENDS MachineControllerProofs

(* Who writes infrastructure.                                              *)

\* The only steps that write infrastructure.
LEMMA InfraWriters ==
  ASSUME Typed, [Next]_vars, NEW i \in Infra, infra'[i] # infra[i]
  PROVE  \/ ProviderStep(i)
         \/ \E m \in Machine : /\ InfraRef[m] = i
                               /\ PatchInfra(m) \/ DeleteExternal(m)
<1> USE DEF apiVars, cacheVars, handlerVars, boundVars
<1>1. ASSUME NEW m \in Machine, PatchInfra(m) \/ DeleteExternal(m)
      PROVE  InfraRef[m] = i
  BY <1>1, InfraRefType
  DEF PatchInfra, CanAdopt, Adopted, DeleteExternal, InfraToDelete, Typed
<1>2. ASSUME NEW m \in Machine,
             StartOfReconcile(m) \/ InfraNotFound(m) \/ InfraAlreadyOwned(m) \/ GetInfra(m)
             \/ AdoptFails(m) \/ KindSeen(m) \/ FirstOfKind(m) \/ WatchAdded(m)
             \/ WatchFails(m) \/ NodeRef(m) \/ PatchMachine(m) \/ PatchStatus(m)
             \/ MarkTerminating(m) \/ Delete(m) \/ Cordon(m) \/ Evict(m)
             \/ DeleteExternalPanics(m) \/ DeleteNode(m) \/ RemoveFinalizer(m)
             \/ ApiError(m) \/ Deliver(m) \/ Resync(m) \/ DeleteMachine(m)
      PROVE  UNCHANGED infra
  BY <1>2 DEF StartOfReconcile, ReconcileGone, ReconcileNormal, ReconcileDeleting,
     InfraNotFound, InfraAlreadyOwned, GetInfra, AdoptFails, KindSeen, FirstOfKind,
     WatchAdded, TakesOver, WatchFails, NodeRef, PatchMachine, PatchStatus,
     MarkTerminating, Delete, Cordon, Evict, DeleteExternalPanics, DeleteNode,
     RemoveFinalizer, ApiError, Deliver, Resync, DeleteMachine
<1>3. ASSUME NEW j \in Infra, SyncNode(j) \/ NodeStep(j)
      PROVE  UNCHANGED infra
  BY <1>3 DEF SyncNode, NodeStep, RegisterNode, RemoveNode, NodeBecomes
<1>4. ASSUME NEW j \in Infra, ProviderStep(j)
      PROVE  j = i
  BY <1>4 DEF ProviderStep, ApplyInfra, ProviderProgress, ProviderRegress, ProviderFails,
     DeleteInfra, CollectInfra, FinishInfra, InfraBecomes, Typed
<1>5. Crash \/ Restart \/ UNCHANGED vars => UNCHANGED infra
  BY DEF Crash, Restart, vars
<1> QED BY <1>1, <1>2, <1>3, <1>4, <1>5 DEF Next, HandlerStep, NormalStep, DeletionStep

\* What a reconcile writes: an owner where there is an object, or the deletion.
LEMMA ReconcileWrites ==
  ASSUME Typed, NEW m \in Machine, infra'[InfraRef[m]] # infra[InfraRef[m]],
         PatchInfra(m) \/ DeleteExternal(m)
  PROVE  LET i == InfraRef[m]
         IN /\ i \in Infra /\ ~Missing(i)
            /\ \/ /\ AboutToAdopt(m, i) /\ infra'[i].owner = m
                  /\ infra'[i].st = infra[i].st
               \/ /\ DeleteExternal(m) /\ infra'[i].owner = infra[i].owner
                  /\ infra'[i].st = "deleting"
<1> DEFINE i == InfraRef[m]
<1>1. CASE PatchInfra(m)
  <2>1. i \in Infra /\ infra' = Adopted(m) /\ CanAdopt(m) /\ pc[m] = "patchInfra"
    BY <1>1, InfraRefType DEF PatchInfra, CanAdopt, Typed
  <2>2. got[m].owner # m
    BY <2>1 DEF Adopted
  <2>3. infra' = [infra EXCEPT ![i].owner = m] /\ ~Missing(i)
    BY <2>1, <2>2 DEF Adopted, CanAdopt
  <2> QED BY <2>1, <2>2, <2>3 DEF Typed, InfraObject, AboutToAdopt
<1>2. CASE DeleteExternal(m)
  <2>1. i \in Infra /\ ~Missing(i)
    BY <1>2, InfraRefType DEF DeleteExternal, InfraToDelete
  <2>2. infra' = [infra EXCEPT ![i].st = "deleting"]
    BY <1>2 DEF DeleteExternal
  <2> QED BY <1>2, <2>1, <2>2 DEF Typed, InfraObject
<1> QED BY <1>1, <1>2

\* What the environment writes: it applies an object, moves one that is present on,
\* or finishes one that goes.
LEMMA ProviderWrites ==
  ASSUME Typed, NEW i \in Infra, ProviderStep(i)
  PROVE  \/ /\ infra[i].st = "unapplied"
            /\ infra'[i].st = "present"
            /\ infra'[i].owner = None
         \/ /\ infra[i].st = "deleting"
            /\ infra'[i].st = "gone"
            /\ infra'[i].owner = None
         \/ /\ infra[i].st = "present"
            /\ infra'[i].owner = infra[i].owner
            /\ \/ infra'[i].st = "present"
               \/ /\ infra'[i].st = "deleting"
                  /\ DeleteInfra(i) \/ CollectInfra(i)
<1>0. infra \in [Infra -> InfraObject] /\ infra[i] \in InfraObject
  BY DEF Typed
<1>1. CASE ApplyInfra(i) \/ FinishInfra(i)
  BY <1>0, <1>1 DEF ApplyInfra, FinishInfra, InfraBecomes, NoInfra
<1>2. CASE ProviderProgress(i)
  <2>1. PICK s \in {"readyNoID", "ready"} : infra' = [infra EXCEPT ![i] = [infra[i] EXCEPT !.status = s]]
    BY <1>2 DEF ProviderProgress, InfraBecomes
  <2> QED BY <1>0, <1>2, <2>1 DEF ProviderProgress, InfraObject
<1>3. CASE ProviderRegress(i) \/ ProviderFails(i)
  BY <1>0, <1>3 DEF ProviderRegress, ProviderFails, InfraBecomes, InfraObject
<1>4. CASE DeleteInfra(i) \/ CollectInfra(i)
  BY <1>0, <1>4 DEF DeleteInfra, CollectInfra, InfraBecomes, InfraObject
<1> QED BY <1>1, <1>2, <1>3, <1>4 DEF ProviderStep

--------------------------------------------------------------------------------
(* The owners of infrastructure.                                           *)

\* What was never applied has no owner.
UnownedInv == \A i \in Infra : infra[i].st = "unapplied" => infra[i].owner = None

\* UnownedInv holds in the initial state.
LEMMA UnownedInit == Init => UnownedInv
<1> SUFFICES ASSUME Init, NEW i \in Infra, infra[i].st = "unapplied"
             PROVE  infra[i].owner = None
  BY DEF UnownedInv
<1> QED BY DEF Init, NoInfra

\* The way to the patch of an object leads through its read.
LEMMA PatchStage ==
  ASSUME Typed, [Next]_vars, NEW n \in Machine, pc'[n] = "patchInfra"
  PROVE  (pc[n] = "patchInfra" /\ got'[n] = got[n]) \/ GetInfra(n)
<1> USE DEF apiVars, cacheVars, handlerVars, boundVars
<1>1. CASE StartOfReconcile(n)
  BY <1>1 DEF StartOfReconcile, ReconcileGone, ReconcileNormal, ReconcileDeleting, Typed
<1>2. CASE NormalStep(n)
  BY <1>2 DEF NormalStep, InfraNotFound, InfraAlreadyOwned, AdoptFails, PatchInfra,
     KindSeen, FirstOfKind, WatchAdded, TakesOver, WatchFails, NodeRef, PatchMachine,
     PatchStatus, At, Return, Typed
<1>3. CASE DeletionStep(n)
  BY <1>3 DEF DeletionStep, MarkTerminating, Delete, Cordon, Evict, DeleteExternal,
     DeleteExternalPanics, DeleteNode, RemoveFinalizer, At, Return, Stops, Typed
<1>4. CASE ApiError(n)
  BY <1>4 DEF ApiError, At, Return, Typed
<1>5. ASSUME NEW m \in Machine, m # n, StartOfReconcile(m) \/ NormalStep(m) \/ ApiError(m)
      PROVE  pc'[n] = pc[n] /\ got'[n] = got[n]
  BY <1>5 DEF StartOfReconcile, ReconcileGone, ReconcileNormal, ReconcileDeleting,
     NormalStep, InfraNotFound, InfraAlreadyOwned, GetInfra, AdoptFails, PatchInfra,
     KindSeen, FirstOfKind, WatchAdded, TakesOver, WatchFails, NodeRef, PatchMachine,
     PatchStatus, ApiError, At, Return, Typed
<1>6. ASSUME NEW m \in Machine, m # n, DeletionStep(m)
      PROVE  pc'[n] = "idle" \/ (pc'[n] = pc[n] /\ got'[n] = got[n])
  BY <1>6 DEF DeletionStep, MarkTerminating, Delete, Cordon, Evict, DeleteExternal,
     DeleteExternalPanics, DeleteNode, RemoveFinalizer, At, Return, Stops, Typed
<1>7. ASSUME NEW m \in Machine, Deliver(m) \/ Resync(m) \/ DeleteMachine(m)
      PROVE  UNCHANGED <<pc, got>>
  BY <1>7 DEF Deliver, Resync, DeleteMachine, EnvUnchanged
<1>8. ASSUME NEW i \in Infra, SyncNode(i) \/ ProviderStep(i) \/ NodeStep(i)
      PROVE  UNCHANGED <<pc, got>>
  BY <1>8 DEF SyncNode, ProviderStep, ApplyInfra, ProviderProgress, ProviderRegress,
     ProviderFails, DeleteInfra, CollectInfra, FinishInfra, InfraBecomes, NodeStep,
     RegisterNode, RemoveNode, NodeBecomes, EnvUnchanged
<1>9. CASE Crash
  BY <1>9 DEF Crash, Stops
<1>10. CASE Restart \/ UNCHANGED vars
  BY <1>10 DEF Restart, vars
<1> QED
  BY <1>1, <1>2, <1>3, <1>4, <1>5, <1>6, <1>7, <1>8, <1>9, <1>10 DEF Next, HandlerStep

\* An object loses its owner only when it is first applied or gone, and gets
\* another one only from a reconcile that read it without itself as the owner.
LEMMA OwnerChange ==
  ASSUME Typed, [Next]_vars, NEW i \in Infra, infra'[i].owner # infra[i].owner
  PROVE  \/ infra'[i].st = "gone" \/ infra[i].st = "unapplied"
         \/ \E n \in Machine : AboutToAdopt(n, i) /\ infra'[i].owner = n
BY InfraWriters, ReconcileWrites, ProviderWrites

\* UnownedInv is preserved by every step.
LEMMA UnownedStep ==
  ASSUME Typed, UnownedInv, [Next]_vars
  PROVE  UnownedInv'
<1> SUFFICES ASSUME NEW i \in Infra, infra'[i].st = "unapplied"
             PROVE  infra'[i].owner = None
  BY DEF UnownedInv
<1>1. infra'[i] = infra[i]
  BY InfraWriters, ReconcileWrites, ProviderWrites DEF Missing
<1> QED BY <1>1 DEF UnownedInv

\* Who reads an object that has an owner does not come to the patch.
LEMMA NobodyElseAdopts ==
  ASSUME Typed, [Next]_vars, NEW m \in Machine, NEW i \in Infra, Owns(m, i),
         NEW n \in Machine \ {m}
  PROVE  ~AboutToAdopt(n, i)'
<1> SUFFICES ASSUME pc'[n] = "patchInfra", InfraRef[n] = i, got'[n].owner # n
             PROVE  FALSE
  BY DEF AboutToAdopt
<1>1. CASE pc[n] = "patchInfra" /\ got'[n] = got[n]
  BY <1>1 DEF Owns, AboutToAdopt
<1>2. CASE GetInfra(n)
  BY <1>2, ConstantsAssumption DEF GetInfra, OwnedByOther, Owns
<1> QED BY <1>1, <1>2, PatchStage

\* Once a Machine owns an object that nobody is about to adopt, it keeps it for good.
THEOREM OwnerOnceSettledStands == Spec => OwnerStands
<1>1. ASSUME Typed, UnownedInv, [Next]_vars, NEW m \in Machine, NEW i \in Infra,
             Owns(m, i), infra'[i].st # "gone"
      PROVE  Owns(m, i)'
  <2>1. infra[i].owner = m /\ infra[i].st # "unapplied"
    BY <1>1, ConstantsAssumption DEF Owns, UnownedInv
  <2>2. infra'[i].owner = m
    BY <1>1, <2>1, OwnerChange DEF Owns
  <2> QED BY <1>1, <2>2, NobodyElseAdopts DEF Owns
<1>2. TypeOK /\ UnownedInv /\ [Next]_vars => UnownedInv'
  BY UnownedStep DEF TypeOK
<1>3. TypeOK /\ UnownedInv /\ [Next]_vars
      => [\A m \in Machine, i \in Infra :
            Owns(m, i) => infra'[i].st = "gone" \/ Owns(m, i)']_vars
  BY <1>1 DEF TypeOK
<1> QED BY <1>2, <1>3, UnownedInit, TypeCorrect, PTL DEF Spec, OwnerStands

--------------------------------------------------------------------------------
(* The Nodes of worker Machines are drained before their infrastructure goes. *)

\* No two Machines are meant to become the same Node.
OwnNodes == \A m, n \in Machine : ID(m) # None /\ ID(m) = ID(n) => m = n

\* Nobody but the controller removes Nodes.
NodesAreLeftAlone == [][\A i \in Infra : ~RemoveNode(i)]_vars

\* There is a Node for i, unless its infrastructure is on its way out.
Registered(i) == node[i] # "none" \/ infra[i].st \in {"deleting", "gone"}

\* Whoever knows of a Node, from a cache or a copy however old, knows of one that
\* still is there; and what a worker Machine's reconcile has done to its Node by the
\* time it comes to the infrastructure is not undone.
DrainInv ==
  /\ \A i \in nodeCache : Registered(i)
  /\ \A m \in Machine : \A o \in {machine[m], cached[m], base[m], obj[m]} :
       o.nodeRef # None => Registered(o.nodeRef)
  /\ \A m \in Machine \ ControlPlane :
       InfraRef[m] # None =>
         /\ pc[m] = "evict" => node[InfraRef[m]] = "cordoned" \/ Torn(m)
         /\ pc[m] = "deleteExternal" => node[InfraRef[m]] = "drained" \/ Torn(m)

\* Initially the only Nodes known of are those of established Machines.
LEMMA DrainInvInit == Init => DrainInv
<1> SUFFICES ASSUME Init PROVE DrainInv
  OBVIOUS
<1>1. \A i \in nodeCache : Registered(i)
  BY DEF Init, Registered
<1>2. ASSUME NEW m \in Machine, NEW o \in {machine[m], cached[m], base[m], obj[m]},
             o.nodeRef # None
      PROVE  Registered(o.nodeRef)
  <2>1. o \in {Up(m), Applied(m)} /\ (o = Up(m) => m \in Established)
    BY <1>2, AppliedIsOf DEF Init
  <2>2. o = Up(m) /\ m \in Established
    BY <1>2, <2>1, AppliedIsOf
  <2>3. o.nodeRef = InfraRef[m] /\ InfraRef[m] \in Infra
    BY <2>2, ConstantsAssumption DEF Up
  <2>4. node[InfraRef[m]] = "active"
    BY <2>2, <2>3 DEF Init
  <2> QED BY <2>3, <2>4 DEF Registered
<1>3. \A m \in Machine : pc[m] = "idle"
  BY DEF Init
<1> QED BY <1>1, <1>2, <1>3 DEF DrainInv

\* Infrastructure on its way out stays on its way out, whoever refers to it.
LEMMA OutStays ==
  ASSUME Typed, [Next]_vars, NEW i \in Infra, infra[i].st \in {"deleting", "gone"}
  PROVE  infra'[i].st \in {"deleting", "gone"}
BY InfraWriters, ReconcileWrites, ProviderWrites DEF Missing

\* A Node that is there, as long as nobody else removes it, stays until its
\* infrastructure is told to go.
LEMMA RegisteredStays ==
  ASSUME Typed, ControllerInv, [Next]_vars, NEW i \in Infra, ~RemoveNode(i), Registered(i)
  PROVE  Registered(i)'
<1>1. CASE infra[i].st \in {"deleting", "gone"}
  BY <1>1, OutStays DEF Registered
<1>2. CASE node[i] # "none" /\ node'[i] = "none"
  <2>1. node \in [Infra -> {"none", "active", "cordoned", "drained"}]
    BY DEF Typed
  <2>2. PICK m \in Machine : (Cordon(m) \/ Evict(m) \/ DeleteNode(m)) /\ obj[m].nodeRef = i
    BY <1>2, NodeWriters DEF RegisterNode
  <2>3. ~Cordon(m) /\ ~Evict(m)
    BY <1>2, <2>1, <2>2 DEF Cordon, Evict
  <2>4. Torn(m) /\ obj[m].nodeRef \in {None, ID(m)}
    BY <2>2, <2>3, ControllerInvIsLocal DEF DeleteNode, Local, IsOf
  <2>5. infra[i].st \in {"deleting", "gone"}
    BY <2>2, <2>4, ConstantsAssumption DEF Torn, ID
  <2> QED BY <2>5, OutStays DEF Registered
<1> QED BY <1>1, <1>2 DEF Registered

\* The cache of Nodes only gets Nodes that are there.
LEMMA NodeCacheSources ==
  ASSUME Typed, [Next]_vars, NEW i \in nodeCache'
  PROVE  i \in nodeCache \/ (i \in Infra /\ node[i] # "none")
<1> USE DEF apiVars, cacheVars, handlerVars, boundVars
<1>1. ASSUME NEW m \in Machine, StartOfReconcile(m) \/ HandlerStep(m) \/ ApiError(m)
      PROVE  UNCHANGED nodeCache
  BY <1>1 DEF StartOfReconcile, ReconcileGone, ReconcileNormal, ReconcileDeleting,
     HandlerStep, NormalStep, InfraNotFound, InfraAlreadyOwned, GetInfra, AdoptFails,
     PatchInfra, KindSeen, FirstOfKind, WatchAdded, TakesOver, WatchFails, NodeRef,
     PatchMachine, PatchStatus, DeletionStep,
     MarkTerminating, Delete, Cordon, Evict, DeleteExternal, DeleteExternalPanics,
     DeleteNode, RemoveFinalizer, ApiError
<1>2. ASSUME NEW m \in Machine, Deliver(m) \/ Resync(m) \/ DeleteMachine(m)
      PROVE  UNCHANGED nodeCache
  BY <1>2 DEF Deliver, Resync, DeleteMachine, EnvUnchanged
<1>3. ASSUME NEW j \in Infra, ProviderStep(j) \/ NodeStep(j)
      PROVE  UNCHANGED nodeCache
  BY <1>3 DEF ProviderStep, ApplyInfra, ProviderProgress, ProviderRegress,
     ProviderFails, DeleteInfra, CollectInfra, FinishInfra, InfraBecomes, NodeStep,
     RegisterNode, RemoveNode, NodeBecomes, EnvUnchanged
<1>4. ASSUME NEW j \in Infra, SyncNode(j)
      PROVE  i \in nodeCache \/ (i \in Infra /\ node[i] # "none")
  BY <1>4 DEF SyncNode
<1>5. CASE Crash \/ Restart \/ UNCHANGED vars
  BY <1>5 DEF Crash, Restart, vars
<1> QED BY <1>1, <1>2, <1>3, <1>4, <1>5 DEF Next

\* A reconcile starts from the cache, and learns of Nodes from their cache.
LEMMA CopySources ==
  ASSUME Typed, [Next]_vars, NEW n \in Machine
  PROVE  /\ base'[n] \in {base[n], cached[n], obj[n], Applied(n)}
         /\ obj'[n].nodeRef \in {obj[n].nodeRef, cached[n].nodeRef, None} \cup nodeCache
<1> USE DEF apiVars, cacheVars, handlerVars, boundVars
<1> DEFINE Known == /\ base'[n] \in {base[n], cached[n], obj[n], Applied(n)}
                    /\ obj'[n].nodeRef \in {obj[n].nodeRef, cached[n].nodeRef, None} \cup nodeCache
<1>0. /\ base \in [Machine -> MachineObject] /\ obj \in [Machine -> MachineObject]
      /\ obj[n] \in MachineObject /\ cached[n] \in MachineObject /\ Applied(n).nodeRef = None
  BY AppliedIsOf DEF Typed
<1>1. CASE StartOfReconcile(n)
  BY <1>0, <1>1 DEF StartOfReconcile, ReconcileGone, ReconcileNormal, ReconcileDeleting,
     MachineObject
<1>2. CASE InfraNotFound(n) \/ InfraAlreadyOwned(n) \/ GetInfra(n) \/ AdoptFails(n)
           \/ PatchInfra(n) \/ FirstOfKind(n) \/ WatchFails(n) \/ PatchMachine(n)
  BY <1>0, <1>2 DEF InfraNotFound, InfraAlreadyOwned, GetInfra, AdoptFails, PatchInfra,
     FirstOfKind, WatchFails, PatchMachine, MachineObject
<1>3. CASE KindSeen(n) \/ WatchAdded(n)
  <2>1. TakenOver(n).nodeRef = obj[n].nodeRef
    BY <1>0 DEF TakenOver, MachineObject
  <2> QED BY <1>0, <1>3, <2>1 DEF KindSeen, WatchAdded, TakesOver
<1>4. CASE NodeRef(n)
  <2>1. ASSUME NEW o \in MachineObject PROVE ReconcilePhase(o).nodeRef = o.nodeRef
    BY DEF ReconcilePhase, MachineObject
  <2> DEFINE o == [obj[n] EXCEPT !.nodeRef =
                     IF NeedsNode(obj[n]) /\ obj[n].providerID \in nodeCache
                     THEN obj[n].providerID ELSE @]
  <2>2. o \in MachineObject /\ o.nodeRef \in {obj[n].nodeRef} \cup nodeCache
    BY <1>0 DEF MachineObject
  <2>3. obj'[n] = ReconcilePhase(o) /\ UNCHANGED base
    BY <1>0, <1>4 DEF NodeRef
  <2> QED BY <2>1, <2>2, <2>3
<1>5. CASE PatchStatus(n)
  BY <1>0, <1>5 DEF PatchStatus, Return
<1>6. CASE DeletionStep(n) \/ ApiError(n)
  BY <1>0, <1>6 DEF DeletionStep, MarkTerminating, Delete, Cordon, Evict, DeleteExternal,
     DeleteExternalPanics, DeleteNode, RemoveFinalizer, ApiError, Return, Stops
<1>7. ASSUME NEW m \in Machine, m # n, StartOfReconcile(m) \/ NormalStep(m) \/ ApiError(m)
      PROVE  base'[n] = base[n] /\ obj'[n] = obj[n]
  BY <1>0, <1>7 DEF StartOfReconcile, ReconcileGone, ReconcileNormal, ReconcileDeleting,
     NormalStep, InfraNotFound, InfraAlreadyOwned, GetInfra, AdoptFails, PatchInfra,
     KindSeen, FirstOfKind, WatchAdded, TakesOver, WatchFails, NodeRef, PatchMachine,
     PatchStatus, ApiError, Return
<1>8. ASSUME NEW m \in Machine, m # n, DeletionStep(m)
      PROVE  \/ base'[n] = base[n] /\ obj'[n] = obj[n]
             \/ base'[n] = Applied(n) /\ obj'[n] = Applied(n)
  BY <1>0, <1>8 DEF DeletionStep, MarkTerminating, Delete, Cordon, Evict, DeleteExternal,
     DeleteExternalPanics, DeleteNode, RemoveFinalizer, Return, Stops
<1>9. ASSUME NEW m \in Machine, Deliver(m) \/ Resync(m) \/ DeleteMachine(m)
      PROVE  UNCHANGED <<base, obj>>
  BY <1>9 DEF Deliver, Resync, DeleteMachine, EnvUnchanged
<1>10. ASSUME NEW i \in Infra, SyncNode(i) \/ ProviderStep(i) \/ NodeStep(i)
       PROVE  UNCHANGED <<base, obj>>
  BY <1>10 DEF SyncNode, ProviderStep, ApplyInfra, ProviderProgress, ProviderRegress,
     ProviderFails, DeleteInfra, CollectInfra, FinishInfra, InfraBecomes, NodeStep,
     RegisterNode, RemoveNode, NodeBecomes, EnvUnchanged
<1>11. CASE Crash
  BY <1>0, <1>11 DEF Crash, Stops
<1>12. CASE Restart \/ UNCHANGED vars
  BY <1>12 DEF Restart, vars
<1>13. CASE base'[n] = base[n] /\ obj'[n] = obj[n]
  BY <1>13
<1>14. CASE base'[n] = Applied(n) /\ obj'[n] = Applied(n)
  BY <1>0, <1>14
<1> QED
  BY <1>1, <1>2, <1>3, <1>4, <1>5, <1>6, <1>7, <1>8, <1>9, <1>10, <1>11, <1>12, <1>13, <1>14
  DEF Next, HandlerStep, NormalStep

\* A NodeRef at the API server comes from a copy, or stays.
LEMMA NodeRefSources ==
  ASSUME Typed, [Next]_vars, NEW n \in Machine
  PROVE  machine'[n].nodeRef \in {machine[n].nodeRef, obj[n].nodeRef, None}
<1>1. machine \in [Machine -> MachineObject] /\ machine[n] \in MachineObject
  BY DEF Typed
<1>2. CASE PatchMachine(n) \/ MarkTerminating(n)
  BY <1>1, <1>2 DEF PatchMachine, MarkTerminating, MachineObject
<1>3. CASE PatchStatus(n)
  BY <1>1, <1>3 DEF PatchStatus, Merged, MachineObject
<1>4. CASE RemoveFinalizer(n) \/ DeleteMachine(n)
  BY <1>1, <1>4 DEF RemoveFinalizer, DeleteMachine, Removed, Applied, MachineObject
<1> QED BY <1>2, <1>3, <1>4, MachineWriters

\* Every Node that is known of after a step is still there.
LEMMA KnownStays ==
  ASSUME Typed, ControllerInv, DrainInv, [Next]_vars, \A i \in Infra : ~RemoveNode(i)
  PROVE  /\ \A i \in nodeCache' : Registered(i)'
         /\ \A m \in Machine : \A o \in {machine[m], cached[m], base[m], obj[m]}' :
              o.nodeRef # None => Registered(o.nodeRef)'
<1>1. ASSUME NEW i \in Infra, Registered(i) PROVE Registered(i)'
  BY <1>1, RegisteredStays
<1>2. ASSUME NEW i \in nodeCache' PROVE i \in Infra /\ Registered(i)
  BY <1>2, NodeCacheSources DEF DrainInv, Registered, Typed
<1>3. ASSUME NEW m \in Machine, NEW r \in Infra \cup {None}, r # None,
             \/ r \in {machine[m].nodeRef, cached[m].nodeRef, base[m].nodeRef, obj[m].nodeRef}
             \/ r \in nodeCache
      PROVE  r \in Infra /\ Registered(r)
  BY <1>3 DEF DrainInv
<1>4. ASSUME NEW m \in Machine, NEW o \in {machine[m], cached[m], base[m], obj[m]}',
             o.nodeRef # None
      PROVE  Registered(o.nodeRef)'
  <2>1. \/ o.nodeRef \in {machine[m].nodeRef, cached[m].nodeRef, base[m].nodeRef, obj[m].nodeRef}
        \/ o.nodeRef \in nodeCache
    BY <1>4, AppliedIsOf, CopySources, NodeRefSources, CachedStays
  <2>2. o.nodeRef \in Infra \cup {None}
    BY <2>1 DEF Typed, MachineObject
  <2> QED BY <1>1, <1>3, <1>4, <2>1, <2>2
<1> QED BY <1>1, <1>2, <1>4

\* A worker Machine's reconcile comes to the infrastructure through the drain.
LEMMA DrainStep ==
  ASSUME Typed, ControllerInv, DrainInv, [Next]_vars, OwnNodes,
         \A i \in Infra : ~RemoveNode(i),
         NEW n \in Machine \ ControlPlane, InfraRef[n] # None
  PROVE  /\ pc'[n] = "evict" => node'[InfraRef[n]] = "cordoned" \/ Torn(n)'
         /\ pc'[n] = "deleteExternal" => node'[InfraRef[n]] = "drained" \/ Torn(n)'
<1> DEFINE i == InfraRef[n]
<1>0. /\ i \in Infra /\ ID(n) = i /\ Local(n) /\ (Torn(n) => Torn(n)')
      /\ node \in [Infra -> {"none", "active", "cordoned", "drained"}]
      /\ pc \in [Machine -> Stages]
  BY InfraRefType, ControllerInvIsLocal, TornStays DEF ID, Typed
<1>1. CASE Delete(n)
  BY <1>0, <1>1 DEF Delete, IsDeleteNodeAllowed, At
<1>2. CASE Cordon(n)
  <2>1. obj[n].nodeRef = i
    BY <1>0, <1>2 DEF Cordon, Local, IsOf
  <2>2. CASE node[i] = "none"
    <3>1. Registered(i)
      BY <2>1, ConstantsAssumption, <1>0 DEF DrainInv
    <3> QED BY <1>0, <2>2, <3>1 DEF Registered, Torn
  <2>3. CASE node[i] # "none"
    BY <1>0, <1>2, <2>1, <2>3 DEF Cordon, At
  <2> QED BY <2>2, <2>3
<1>3. CASE Evict(n)
  <2>1. obj[n].nodeRef = i
    BY <1>0, <1>3 DEF Evict, Local, IsOf
  <2>2. node[i] = "cordoned" \/ Torn(n)
    BY <1>3 DEF Evict, DrainInv
  <2> QED BY <1>0, <1>3, <2>1, <2>2 DEF Evict, At
<1>4. CASE pc'[n] = pc[n] /\ pc[n] \in {"evict", "deleteExternal"} /\ ~Evict(n)
  <2>1. CASE node'[i] = node[i]
    BY <1>0, <1>4, <2>1 DEF DrainInv
  <2>2. CASE node'[i] # node[i] /\ ~Torn(n)
    <3>1. node[i] \in {"cordoned", "drained"}
      BY <1>4, <2>2 DEF DrainInv
    <3>2. PICK m \in Machine : (Cordon(m) \/ Evict(m) \/ DeleteNode(m)) /\ obj[m].nodeRef = i
      BY <1>0, <2>2, <3>1, NodeWriters DEF RegisterNode
    <3>3. obj[m].nodeRef \in {None, ID(m)}
      BY ControllerInvIsLocal DEF Local, IsOf
    <3>4. m = n
      BY <1>0, <3>2, <3>3, ConstantsAssumption DEF OwnNodes
    <3> QED BY <1>4, <3>2, <3>4 DEF Cordon, DeleteNode
  <2>3. CASE Torn(n)
    BY <1>0, <2>3
  <2> QED BY <2>1, <2>2, <2>3
<1> QED BY <1>1, <1>2, <1>3, <1>4, NodeStages

\* Unless admins remove Nodes and so make room for new ones, or two Machines share
\* a Node, the infrastructure of a worker Machine goes only under a drained Node.
THEOREM WorkersDrainedFirst ==
  ASSUME OwnNodes
  PROVE  Spec /\ NodesAreLeftAlone => DrainedBeforeTeardown
<1>1. ASSUME Typed, ControllerInv, DrainInv, [Next]_vars,
             NEW n \in Machine \ ControlPlane,
             InfraRef[n] # None, machine[n].live, infra[InfraRef[n]].owner = n,
             infra[InfraRef[n]].st = "present", infra'[InfraRef[n]].st = "deleting",
             disruptions' = disruptions
      PROVE  node[InfraRef[n]] \in {"none", "drained"}
  <2> DEFINE i == InfraRef[n]
  <2>1. i \in Infra /\ infra'[i] # infra[i]
    BY <1>1, InfraRefType
  <2>2. ~ProviderStep(i)
    <3>1. ~DeleteInfra(i) /\ ~CollectInfra(i)
      BY <1>1, <2>1 DEF DeleteInfra, CollectInfra, Disrupts, Typed
    <3> QED BY <1>1, <2>1, <3>1, ProviderWrites
  <2>3. PICK m \in Machine : /\ InfraRef[m] = i
                             /\ PatchInfra(m) \/ DeleteExternal(m)
    BY <1>1, <2>1, <2>2, InfraWriters
  <2>4. DeleteExternal(m)
    BY <1>1, <2>1, <2>3, ReconcileWrites
  <2>5. m = n
    BY <2>1, <2>3, ConstantsAssumption DEF OwnNodes, ID
  <2> QED BY <1>1, <2>4, <2>5 DEF DeleteExternal, DrainInv, Torn
<1>2. TypeOK /\ ControllerInv /\ DrainInv /\ [Next]_vars
      /\ [\A i \in Infra : ~RemoveNode(i)]_vars => DrainInv'
  <2> SUFFICES ASSUME TypeOK, ControllerInv, DrainInv, [Next]_vars,
                      [\A i \in Infra : ~RemoveNode(i)]_vars
               PROVE  DrainInv'
    OBVIOUS
  <2>1. CASE \A i \in Infra : ~RemoveNode(i)
    BY <2>1, KnownStays, DrainStep DEF DrainInv, TypeOK
  <2>2. CASE UNCHANGED vars
    BY <2>2 DEF DrainInv, Registered, Torn, vars, apiVars, cacheVars, handlerVars
  <2> QED BY <2>1, <2>2
<1>3. TypeOK /\ ControllerInv /\ DrainInv /\ [Next]_vars
      => [\A m \in Machine \ ControlPlane :
            LET i == InfraRef[m]
            IN i # None /\ machine[m].live /\ infra[i].owner = m
                 /\ infra[i].st = "present" /\ infra'[i].st = "deleting"
                 /\ disruptions' = disruptions
                 => node[i] \in {"none", "drained"}]_vars
  BY <1>1 DEF TypeOK
<1> QED
  BY <1>2, <1>3, DrainInvInit, TypeCorrect, ControllerInvariant, PTL
  DEF Spec, NodesAreLeftAlone, DrainedBeforeTeardown

--------------------------------------------------------------------------------
(* MachineController implements MachineLifecycle: its workers, stale caches   *)
(* and crashes cannot be seen in what the Machines show.                     *)

NormalStages == {"getInfra", "patchInfra", "watchInfra", "addWatch", "nodeRef", "patch",
                 "patchStatus"}

\* A Machine that is being deleted has the finalizer; a reconcile of the normal
\* loop has put it on its copy, so that its patch never takes it off.
FinalizerInv ==
  \A m \in Machine :
    /\ BeingDeleted(machine[m]) => machine[m].finalizer
    /\ pc[m] \in NormalStages => obj[m].finalizer

\* Both loops are closed: nobody is in a stage in the initial state.
LEMMA FinalizerInit == Init => FinalizerInv
<1> SUFFICES ASSUME Init, NEW m \in Machine
             PROVE  ~BeingDeleted(machine[m]) /\ pc[m] \notin NormalStages
  BY DEF FinalizerInv
<1>1. machine[m] \in {Up(m), Applied(m)} /\ pc[m] = "idle"
  BY DEF Init
<1>2. ~Up(m).deleting /\ ~Applied(m).deleting
  BY DEF Up, Applied
<1> QED BY <1>1, <1>2 DEF BeingDeleted, NormalStages

\* reconcileInfrastructure leaves the finalizer of the copy alone.
LEMMA TakenOverFinalizer ==
  ASSUME NEW m \in Machine, Typed
  PROVE  TakenOver(m).finalizer = obj[m].finalizer
<1>1. obj[m] \in MachineObject
  BY DEF Typed
<1> QED BY <1>1 DEF TakenOver, MachineObject

\* So does reconcilePhase.
LEMMA PhaseFinalizer ==
  ASSUME NEW o \in MachineObject
  PROVE  ReconcilePhase(o).finalizer = o.finalizer
BY DEF ReconcilePhase, MachineObject

\* A copy in the normal loop has the finalizer after every step.
LEMMA CopyHasFinalizer ==
  ASSUME Typed, FinalizerInv, [Next]_vars, NEW n \in Machine, pc'[n] \in NormalStages
  PROVE  obj'[n].finalizer
<1> USE DEF apiVars, cacheVars, handlerVars, boundVars
<1>0. obj[n] \in MachineObject /\ cached[n] \in MachineObject
  BY DEF Typed
<1>1. CASE ReconcileNormal(n)
  BY <1>0, <1>1 DEF ReconcileNormal, Typed, MachineObject
<1>2. CASE InfraNotFound(n)
  <2>1. obj'[n] = [obj[n] EXCEPT !.failed = obj[n].failed \/ obj[n].infraReady]
        /\ obj[n].finalizer
    BY <1>2 DEF InfraNotFound, Typed, FinalizerInv, NormalStages
  <2> QED BY <1>0, <2>1 DEF MachineObject
<1>3. CASE KindSeen(n) \/ WatchAdded(n)
  <2>1. obj'[n] = TakenOver(n) /\ obj[n].finalizer
    BY <1>3 DEF KindSeen, WatchAdded, TakesOver, Typed, FinalizerInv, NormalStages
  <2> QED BY <2>1, TakenOverFinalizer
<1>4. CASE NodeRef(n)
  <2> DEFINE found == NeedsNode(obj[n]) /\ obj[n].providerID \in nodeCache
             o == [obj[n] EXCEPT !.nodeRef = IF found THEN obj[n].providerID ELSE @]
  <2>1. o \in MachineObject /\ o.finalizer = obj[n].finalizer
    <3> HIDE DEF found
    <3> QED BY <1>0 DEF MachineObject
  <2>2. obj'[n] = ReconcilePhase(o) /\ obj[n].finalizer
    BY <1>4 DEF NodeRef, Typed, FinalizerInv, NormalStages
  <2> HIDE DEF o, found
  <2> QED BY <2>1, <2>2, PhaseFinalizer
<1>5. CASE \/ InfraAlreadyOwned(n) \/ GetInfra(n) \/ AdoptFails(n) \/ PatchInfra(n)
           \/ FirstOfKind(n) \/ WatchFails(n) \/ PatchMachine(n)
  <2>1. obj' = obj /\ pc[n] \in NormalStages
    BY <1>5 DEF InfraAlreadyOwned, GetInfra, AdoptFails, PatchInfra, FirstOfKind, WatchFails,
       CanAdopt, PatchMachine, NormalStages
  <2> QED BY <2>1 DEF FinalizerInv
<1>6. CASE ApiError(n)
  <2>1. obj' = obj /\ pc[n] \in NormalStages
    BY <1>6 DEF ApiError, At, Return, Typed, NormalStages
  <2> QED BY <2>1 DEF FinalizerInv
<1>7. CASE PatchStatus(n) \/ DeletionStep(n) \/ ReconcileDeleting(n)
  BY <1>7 DEF PatchStatus, DeletionStep, MarkTerminating, Delete, Cordon, Evict, DeleteExternal,
     DeleteExternalPanics, DeleteNode, RemoveFinalizer, ReconcileDeleting, At, Return, Stops,
     Typed, NormalStages
<1>8. ASSUME NEW m \in Machine, m # n, StartOfReconcile(m) \/ NormalStep(m) \/ ApiError(m)
      PROVE  UNCHANGED <<pc[n], obj[n]>>
  BY <1>8 DEF StartOfReconcile, ReconcileGone, ReconcileNormal, ReconcileDeleting,
     NormalStep, InfraNotFound, InfraAlreadyOwned, GetInfra, AdoptFails, PatchInfra,
     KindSeen, FirstOfKind, WatchAdded, TakesOver, WatchFails, NodeRef, PatchMachine,
     PatchStatus, ApiError, At, Return, Typed
<1>9. ASSUME NEW m \in Machine, m # n, DeletionStep(m)
      PROVE  pc'[n] = "idle" \/ UNCHANGED <<pc[n], obj[n]>>
  BY <1>9 DEF DeletionStep, MarkTerminating, Delete, Cordon, Evict, DeleteExternal,
     DeleteExternalPanics, DeleteNode, RemoveFinalizer, At, Return, Stops, Typed
<1>10. ASSUME NEW m \in Machine, Deliver(m) \/ Resync(m) \/ DeleteMachine(m) \/ ReconcileGone(m)
       PROVE  UNCHANGED <<pc[n], obj[n]>>
  BY <1>10 DEF Deliver, Resync, DeleteMachine, EnvUnchanged, ReconcileGone
<1>11. ASSUME NEW i \in Infra, SyncNode(i) \/ ProviderStep(i) \/ NodeStep(i)
       PROVE  UNCHANGED <<pc[n], obj[n]>>
  BY <1>11 DEF SyncNode, ProviderStep, ApplyInfra, ProviderProgress, ProviderRegress,
     ProviderFails, DeleteInfra, CollectInfra, FinishInfra, InfraBecomes, NodeStep,
     RegisterNode, RemoveNode, NodeBecomes, EnvUnchanged
<1>12. CASE Crash
  BY <1>12 DEF Crash, Stops, NormalStages
<1>13. CASE Restart \/ UNCHANGED vars
  BY <1>13 DEF Restart, vars, FinalizerInv
<1>14. UNCHANGED <<pc[n], obj[n]>> => obj'[n].finalizer
  BY DEF FinalizerInv
<1>15. "idle" \notin NormalStages
  BY DEF NormalStages
<1> QED
  BY <1>1, <1>2, <1>3, <1>4, <1>5, <1>6, <1>7, <1>8, <1>9, <1>10, <1>11, <1>12, <1>13,
     <1>14, <1>15
  DEF Next, StartOfReconcile, HandlerStep, NormalStep

--------------------------------------------------------------------------------
(* What each writer of a Machine shows.                                      *)

\* Two lives with the same fields are the same.
LEMMA SameLife ==
  ASSUME NEW k \in Lifecycle!Life, NEW l \in Lifecycle!Life,
         k.exists <=> l.exists, k.managed <=> l.managed, k.deleting <=> l.deleting,
         k.noded <=> l.noded, k.ready <=> l.ready
  PROVE  k = l
BY DEF Lifecycle!Life

\* The lives that the steps of MachineLifecycle make of another one.
LEMMA LifeType ==
  ASSUME NEW l \in Lifecycle!Life, NEW d \in BOOLEAN, NEW r \in BOOLEAN
  PROVE  /\ Lifecycle!New \in Lifecycle!Life /\ Lifecycle!Provisioned \in Lifecycle!Life
         /\ Lifecycle!Gone \in Lifecycle!Life
         /\ [l EXCEPT !.managed = TRUE] \in Lifecycle!Life
         /\ [l EXCEPT !.deleting = TRUE] \in Lifecycle!Life
         /\ [l EXCEPT !.noded = d, !.ready = r] \in Lifecycle!Life
BY DEF Lifecycle!Life, Lifecycle!New, Lifecycle!Provisioned, Lifecycle!Gone

\* What a Machine shows, field by field.
LEMMA ShownFields ==
  ASSUME NEW n \in Machine, machine[n] \in MachineObject
  PROVE  /\ Shown(n) \in Lifecycle!Life
         /\ Shown(n).exists = machine[n].live /\ Shown(n).managed = machine[n].finalizer
         /\ Shown(n).deleting = machine[n].deleting
         /\ Shown(n).noded <=> machine[n].nodeRef # None
         /\ Shown(n).ready = machine[n].infraReady
BY DEF Shown, Lifecycle!Life, MachineObject

\* The same after a step.
LEMMA ShownFieldsNext ==
  ASSUME NEW n \in Machine, machine'[n] \in MachineObject
  PROVE  /\ Shown(n)' \in Lifecycle!Life
         /\ Shown(n)'.exists = machine'[n].live /\ Shown(n)'.managed = machine'[n].finalizer
         /\ Shown(n)'.deleting = machine'[n].deleting
         /\ Shown(n)'.noded <=> machine'[n].nodeRef # None
         /\ Shown(n)'.ready = machine'[n].infraReady
BY DEF Shown, Lifecycle!Life, MachineObject

\* The patch of the object shows nothing, or the finalizer.
LEMMA PatchShows ==
  ASSUME Typed, ControllerInv, FinalizerInv, [Next]_vars, NEW n \in Machine, PatchMachine(n)
  PROVE  \/ Shown(n)' = Shown(n)
         \/ /\ machine[n].live /\ ~machine[n].deleting
            /\ Shown(n)' = [Shown(n) EXCEPT !.managed = TRUE]
<1>1. machine \in [Machine -> MachineObject] /\ machine[n] \in MachineObject
  BY DEF Typed
<1>2. obj[n].finalizer /\ (BeingDeleted(machine[n]) => machine[n].finalizer)
      /\ obj[n] \in MachineObject /\ base[n] \in MachineObject
  BY DEF PatchMachine, FinalizerInv, NormalStages, Typed
<1> DEFINE f == Merged(machine[n].finalizer, base[n].finalizer, obj[n].finalizer)
           p == Merged(machine[n].providerID, base[n].providerID, obj[n].providerID)
<1>3. CASE machine'[n] = machine[n]
  BY <1>3 DEF Shown
<1>4. CASE machine'[n] # machine[n]
  <2>1. machine[n].live /\ machine'[n] = [machine[n] EXCEPT !.finalizer = f, !.providerID = p]
    BY <1>1, <1>4 DEF PatchMachine
  <2>2. f = machine[n].finalizer \/ f = TRUE
    BY <1>2 DEF Merged, MachineObject
  <2> HIDE DEF f, p
  <2>3. /\ machine'[n].live = machine[n].live /\ machine'[n].deleting = machine[n].deleting
        /\ machine'[n].nodeRef = machine[n].nodeRef
        /\ machine'[n].infraReady = machine[n].infraReady
        /\ machine'[n].finalizer = f
    BY <1>1, <2>1 DEF MachineObject
  <2>4. CASE f = machine[n].finalizer
    BY <2>3, <2>4 DEF Shown
  <2>5. CASE f # machine[n].finalizer
    <3>1. f = TRUE /\ ~machine[n].finalizer
      BY <1>1, <2>2, <2>5 DEF MachineObject
    <3>2. ~machine[n].deleting
      BY <1>2, <2>1, <3>1 DEF BeingDeleted
    <3>3. machine'[n] \in MachineObject
      BY TypedStep DEF Typed
    <3> DEFINE l == [Shown(n) EXCEPT !.managed = TRUE]
    <3>5. /\ l \in Lifecycle!Life /\ l.managed
          /\ l.exists = machine[n].live /\ l.deleting = machine[n].deleting
          /\ l.noded <=> machine[n].nodeRef # None
          /\ l.ready = machine[n].infraReady
      BY <1>1, ShownFields DEF Lifecycle!Life
    <3> HIDE DEF l
    <3>6. /\ Shown(n)' \in Lifecycle!Life
          /\ Shown(n)'.exists <=> l.exists
          /\ Shown(n)'.managed <=> l.managed
          /\ Shown(n)'.deleting <=> l.deleting
          /\ Shown(n)'.noded <=> l.noded
          /\ Shown(n)'.ready <=> l.ready
      BY <2>3, <3>1, <3>3, <3>5, ShownFieldsNext
    <3>4. Shown(n)' = l
      BY <3>5, <3>6, SameLife
    <3> QED BY <2>1, <3>2, <3>4 DEF l
  <2> QED BY <2>4, <2>5
<1> QED BY <1>3, <1>4

\* The patch of the status shows a Node, which then stays, and readiness.
LEMMA StatusShows ==
  ASSUME Typed, ControllerInv, [Next]_vars, NEW n \in Machine, PatchStatus(n),
         machine'[n] # machine[n]
  PROVE  /\ machine[n].live
         /\ \E d, r \in BOOLEAN :
              /\ machine[n].nodeRef # None => d
              /\ Shown(n)' = [Shown(n) EXCEPT !.noded = d, !.ready = r]
<1>1. /\ machine \in [Machine -> MachineObject] /\ machine[n] \in MachineObject
      /\ obj[n] \in MachineObject
  BY DEF Typed
<1>2. Local(n)
  BY ControllerInvIsLocal
<1> DEFINE d == Merged(machine[n].nodeRef, base[n].nodeRef, obj[n].nodeRef)
           h == Merged(machine[n].phase, base[n].phase, obj[n].phase)
           r == Merged(machine[n].infraReady, base[n].infraReady, obj[n].infraReady)
           f == Merged(machine[n].failed, base[n].failed, obj[n].failed)
<1>3. /\ machine[n].live
      /\ machine'[n] = [machine[n] EXCEPT !.nodeRef = d, !.phase = h, !.infraReady = r,
                                          !.failed = f]
  BY <1>1 DEF PatchStatus
<1>4. r \in BOOLEAN /\ (machine[n].nodeRef # None => d # None)
  BY <1>1, <1>2 DEF Merged, MachineObject, Local
<1> HIDE DEF d, h, r, f
<1>5. /\ machine'[n].live = machine[n].live /\ machine'[n].deleting = machine[n].deleting
      /\ machine'[n].finalizer = machine[n].finalizer
      /\ machine'[n].nodeRef = d /\ machine'[n].infraReady = r
  BY <1>1, <1>3 DEF MachineObject
<1>6. Shown(n)' = [Shown(n) EXCEPT !.noded = (d # None), !.ready = r]
  <2> DEFINE l == [Shown(n) EXCEPT !.noded = (d # None), !.ready = r]
  <2>1. /\ l \in Lifecycle!Life
        /\ l.exists = machine[n].live /\ l.deleting = machine[n].deleting
        /\ l.managed = machine[n].finalizer
        /\ l.noded <=> d # None
        /\ l.ready = r
    BY <1>1, <1>4, ShownFields DEF Lifecycle!Life
  <2> HIDE DEF l
  <2>2. machine'[n] \in MachineObject
    BY TypedStep DEF Typed
  <2>3. /\ Shown(n)' \in Lifecycle!Life
        /\ Shown(n)'.exists <=> l.exists
        /\ Shown(n)'.managed <=> l.managed
        /\ Shown(n)'.deleting <=> l.deleting
        /\ Shown(n)'.noded <=> l.noded
        /\ Shown(n)'.ready <=> l.ready
    BY <1>5, <2>1, <2>2, ShownFieldsNext
  <2>4. Shown(n)' = l
    BY <2>1, <2>3, SameLife
  <2> QED BY <2>4 DEF l
<1>7. (d # None) \in BOOLEAN
  OBVIOUS
<1> QED BY <1>3, <1>4, <1>6, <1>7

\* Writing the phase Terminating shows nothing.
LEMMA TerminatingShows ==
  ASSUME Typed, ControllerInv, NEW n \in Machine, MarkTerminating(n)
  PROVE  Shown(n)' = Shown(n)
<1>1. machine \in [Machine -> MachineObject] /\ base[n] \in MachineObject
  BY DEF Typed
<1>2. /\ pc[n] \in DeletionStages /\ Local(n)
      /\ machine' = machine \/ (machine[n] = base[n] /\ machine'[n] = obj[n])
  BY <1>1, ControllerInvIsLocal DEF MarkTerminating, Conflict, DeletionStages
<1>3. obj[n] = [base[n] EXCEPT !.phase = "Terminating"]
  BY <1>2 DEF Local
<1>4. CASE machine' = machine
  BY <1>4 DEF Shown
<1>5. CASE machine[n] = base[n] /\ machine'[n] = obj[n]
  BY <1>1, <1>3, <1>5 DEF Shown, MachineObject
<1> QED BY <1>2, <1>4, <1>5

\* A Machine that was removed shows Gone.
LEMMA RemovedShows ==
  ASSUME NEW n \in Machine, machine'[n] = Removed(n)
  PROVE  Shown(n)' = Lifecycle!Gone
<1>1. /\ ~machine'[n].live /\ ~machine'[n].deleting /\ ~machine'[n].finalizer
      /\ ~machine'[n].infraReady /\ ~(machine'[n].nodeRef # None)
      /\ machine'[n] \in MachineObject
  BY AppliedType DEF Removed, Applied
<1>2. /\ Lifecycle!Gone \in Lifecycle!Life
      /\ ~Lifecycle!Gone.exists /\ ~Lifecycle!Gone.managed /\ ~Lifecycle!Gone.deleting
      /\ ~Lifecycle!Gone.noded /\ ~Lifecycle!Gone.ready
  BY DEF Lifecycle!Gone, Lifecycle!New, Lifecycle!Life
<1> QED BY <1>1, <1>2, ShownFieldsNext, SameLife

--------------------------------------------------------------------------------
(* The refinement.                                                           *)

\* What the others see of all Machines, and the Machines without infrastructure.
Showing == [m \in Machine |-> Shown(m)]
Tearing == {m \in Machine : Torn(m)}

\* The writers of Machines do not touch infrastructure.
LEMMA WritersLeaveInfra ==
  ASSUME NEW n \in Machine,
         \/ PatchMachine(n) \/ PatchStatus(n) \/ MarkTerminating(n)
         \/ RemoveFinalizer(n) \/ DeleteMachine(n)
  PROVE  UNCHANGED Tearing /\ \A m \in Machine \ {n} : Typed => machine'[m] = machine[m]
BY DEF PatchMachine, PatchStatus, MarkTerminating, RemoveFinalizer, DeleteMachine, Tearing,
   Torn, Typed

\* FinalizerInv is preserved by every step.
LEMMA FinalizerStep ==
  ASSUME Typed, ControllerInv, FinalizerInv, [Next]_vars
  PROVE  FinalizerInv'
<1> SUFFICES ASSUME NEW n \in Machine PROVE BeingDeleted(machine'[n]) => machine'[n].finalizer
  BY CopyHasFinalizer DEF FinalizerInv, BeingDeleted
<1>0. machine \in [Machine -> MachineObject] /\ machine[n] \in MachineObject
      /\ (BeingDeleted(machine[n]) => machine[n].finalizer)
  BY DEF Typed, FinalizerInv
<1>1. CASE machine'[n] = machine[n]
  BY <1>0, <1>1
<1>2. CASE PatchMachine(n)
  BY <1>0, <1>2, PatchShows DEF Shown, BeingDeleted
<1>3. CASE PatchStatus(n) /\ machine'[n] # machine[n]
  <2>1. machine'[n].live = machine[n].live /\ machine'[n].deleting = machine[n].deleting
        /\ machine'[n].finalizer = machine[n].finalizer
    BY <1>0, <1>3 DEF PatchStatus, MachineObject
  <2> QED BY <1>0, <2>1 DEF BeingDeleted
<1>4. CASE MarkTerminating(n)
  BY <1>0, <1>4, TerminatingShows DEF Shown, BeingDeleted
<1>5. CASE RemoveFinalizer(n)
  BY <1>0, <1>5, AppliedIsOf DEF RemoveFinalizer
<1>6. CASE DeleteMachine(n)
  BY <1>0, <1>6, AppliedIsOf DEF DeleteMachine, BeingDeleted, MachineObject
<1> QED BY <1>1, <1>2, <1>3, <1>4, <1>5, <1>6, MachineWriters

\* One Machine changes what it shows, the others and the infrastructure do not.
LEMMA ShowsOne ==
  ASSUME Typed, NEW n \in Machine, \A m \in Machine \ {n} : machine'[m] = machine[m]
  PROVE  Showing' = [Showing EXCEPT ![n] = Shown(n)']
<1>1. ASSUME NEW m \in Machine, m # n PROVE Shown(m)' = Shown(m)
  BY <1>1 DEF Shown
<1> QED BY <1>1 DEF Showing

\* Every step of the controller is a step of the lifecycle, or shows nothing.
LEMMA StepShows ==
  ASSUME Typed, ControllerInv, FinalizerInv, [Next]_vars
  PROVE  Lifecycle!Next \/ UNCHANGED <<Showing, Tearing>>
<1>1. CASE UNCHANGED machine
  <2>1. Showing' = Showing
    BY <1>1 DEF Showing, Shown
  <2>2. Tearing \subseteq Tearing' /\ Tearing' \in SUBSET Machine
    BY TornStays DEF Tearing
  <2> QED BY <2>1, <2>2 DEF Lifecycle!Next, Lifecycle!TearDown, Showing, Tearing
<1>2. ASSUME NEW n \in Machine, machine'[n] # machine[n]
      PROVE  Lifecycle!Next \/ UNCHANGED <<Showing, Tearing>>
  <2>0. machine \in [Machine -> MachineObject] /\ machine[n] \in MachineObject /\ Local(n)
    BY ControllerInvIsLocal DEF Typed
  <2>1. \/ PatchMachine(n) \/ PatchStatus(n) \/ MarkTerminating(n)
        \/ RemoveFinalizer(n) \/ DeleteMachine(n)
    BY <1>2, MachineWriters
  <2>2. UNCHANGED Tearing /\ Showing' = [Showing EXCEPT ![n] = Shown(n)']
    BY <2>1, WritersLeaveInfra, ShowsOne
  <2>3. ASSUME NEW l, Shown(n)' = l PROVE Lifecycle!Becomes(n, l)
    BY <2>2, <2>3 DEF Lifecycle!Becomes, Showing, Tearing
  <2>9. /\ [m \in Machine |-> Shown(m)][n] = Shown(n)
        /\ Shown(n).exists = machine[n].live /\ Shown(n).deleting = machine[n].deleting
        /\ Shown(n).managed = machine[n].finalizer
        /\ Shown(n).noded <=> machine[n].nodeRef # None
    BY <2>0, ShownFields
  <2>4. CASE Shown(n)' = Shown(n)
    BY <2>2, <2>4 DEF Showing
  <2>5. CASE PatchMachine(n) /\ Shown(n)' # Shown(n)
    <3>1. Lifecycle!Manage(n)
      <4>1. /\ machine[n].live /\ ~machine[n].deleting
            /\ Shown(n)' = [Shown(n) EXCEPT !.managed = TRUE]
        BY <2>5, PatchShows
      <4>2. Lifecycle!Becomes(n, [Shown(n) EXCEPT !.managed = TRUE])
        BY <2>3, <4>1
      <4> QED BY <2>9, <4>1, <4>2 DEF Lifecycle!Manage
    <3> QED BY <3>1 DEF Lifecycle!Next
  <2>6. CASE PatchStatus(n)
    <3>1. Lifecycle!Report(n)
      <4>1. machine[n].live
        BY <1>2, <2>6, StatusShows
      <4>2. PICK d \in BOOLEAN, r \in BOOLEAN :
              /\ machine[n].nodeRef # None => d
              /\ Shown(n)' = [Shown(n) EXCEPT !.noded = d, !.ready = r]
        BY <1>2, <2>6, StatusShows
      <4>3. Lifecycle!Becomes(n, [Shown(n) EXCEPT !.noded = d, !.ready = r])
        BY <2>3, <4>2
      <4> QED BY <2>9, <4>1, <4>2, <4>3 DEF Lifecycle!Report
    <3> QED BY <3>1 DEF Lifecycle!Next
  <2>7. CASE RemoveFinalizer(n)
    <3>1. ~Conflict(n) /\ machine'[n] = Removed(n) /\ pc[n] = "removeFinalizer"
      BY <1>2, <2>0, <2>7 DEF RemoveFinalizer
    <3>2. /\ machine[n] = base[n] /\ BeingDeleted(base[n])
          /\ base[n].nodeRef # None => Torn(n)
      BY <2>0, <3>1 DEF Conflict, Local, DeletionStages
    <3>3. machine[n].live /\ machine[n].deleting /\ machine[n].finalizer
      BY <3>2 DEF BeingDeleted, FinalizerInv
    <3>4. Lifecycle!Becomes(n, Lifecycle!Gone)
      BY <2>3, <3>1, RemovedShows
    <3>5. Lifecycle!Release(n)
      BY <3>2, <3>3, <3>4 DEF Lifecycle!Release, Shown
    <3> QED BY <3>5 DEF Lifecycle!Next
  <2>8. CASE DeleteMachine(n)
    <3>1. CASE machine[n].finalizer
      <4>1. /\ machine[n].live /\ ~machine[n].deleting
            /\ machine'[n] = [machine[n] EXCEPT !.deleting = TRUE]
        BY <2>0, <2>8, <3>1 DEF DeleteMachine
      <4>2. Shown(n)' = [Shown(n) EXCEPT !.deleting = TRUE]
        <5> DEFINE l == [Shown(n) EXCEPT !.deleting = TRUE]
        <5>1. /\ l \in Lifecycle!Life /\ l.deleting
              /\ l.exists = machine[n].live /\ l.managed = machine[n].finalizer
              /\ l.noded <=> machine[n].nodeRef # None
              /\ l.ready = machine[n].infraReady
          BY <2>0, ShownFields DEF Lifecycle!Life
        <5>2. /\ machine'[n] \in MachineObject /\ machine'[n].deleting
              /\ machine'[n].live = machine[n].live
              /\ machine'[n].finalizer = machine[n].finalizer
              /\ machine'[n].nodeRef = machine[n].nodeRef
              /\ machine'[n].infraReady = machine[n].infraReady
          BY <2>0, <4>1 DEF MachineObject
        <5> HIDE DEF l
        <5>3. /\ Shown(n)' \in Lifecycle!Life
              /\ Shown(n)'.exists <=> l.exists
              /\ Shown(n)'.managed <=> l.managed
              /\ Shown(n)'.deleting <=> l.deleting
              /\ Shown(n)'.noded <=> l.noded
              /\ Shown(n)'.ready <=> l.ready
          BY <5>1, <5>2, ShownFieldsNext
        <5>4. Shown(n)' = l
          BY <5>1, <5>3, SameLife
        <5> QED BY <5>4 DEF l
      <4>4. Lifecycle!Becomes(n, [Shown(n) EXCEPT !.deleting = TRUE])
        BY <2>3, <4>2
      <4>3. Lifecycle!AskDeletion(n)
        BY <2>9, <3>1, <4>1, <4>4 DEF Lifecycle!AskDeletion
      <4> QED BY <4>3 DEF Lifecycle!Next
    <3>2. CASE ~machine[n].finalizer
      <4>1. machine[n].live /\ ~machine[n].deleting /\ machine'[n] = Removed(n)
        BY <2>0, <2>8, <3>2 DEF DeleteMachine
      <4>2. Shown(n)' = Lifecycle!Gone
        BY <4>1, RemovedShows
      <4>3. Lifecycle!AskDeletion(n)
        <5>1. Lifecycle!Becomes(n, Lifecycle!Gone)
          BY <2>3, <4>2
        <5> QED BY <2>9, <3>2, <4>1, <5>1 DEF Lifecycle!AskDeletion
      <4> QED BY <4>3 DEF Lifecycle!Next
    <3> QED BY <3>1, <3>2
  <2> QED BY <2>1, <2>4, <2>5, <2>6, <2>7, <2>8, TerminatingShows
<1>3. machine = [m \in Machine |-> machine[m]]
  BY DEF Typed
<1>4. (\A n \in Machine : machine'[n] = machine[n]) => UNCHANGED machine
  <2>1. Typed'
    BY TypedStep
  <2> QED BY <2>1 DEF Typed
<1> QED BY <1>1, <1>2, <1>4

\* MachineController implements MachineLifecycle.
THEOREM ImplementsLifecycle == Spec => LivesOneLife
<1>1. Init => Lifecycle!Init
  <2> SUFFICES ASSUME Init PROVE Lifecycle!Init
    OBVIOUS
  <2>0. \A m \in Machine : machine[m] \in MachineObject
    BY InitTyped DEF Typed
  <2>1. ASSUME NEW m \in Machine
        PROVE  Shown(m) \in {Lifecycle!New, Lifecycle!Provisioned}
    <3>1. CASE m \in Established
      <4>1. machine[m] = Up(m) /\ InfraRef[m] # None
        BY <3>1, ConstantsAssumption DEF Init
      <4>2. /\ machine[m].live /\ machine[m].finalizer /\ ~machine[m].deleting
            /\ machine[m].nodeRef # None /\ machine[m].infraReady
        BY <4>1 DEF Up
      <4>3. LET e == Lifecycle!Provisioned
            IN e \in Lifecycle!Life /\ e.exists /\ e.managed /\ ~e.deleting /\ e.noded /\ e.ready
        BY DEF Lifecycle!Provisioned, Lifecycle!New, Lifecycle!Life
      <4> QED BY <2>0, <4>2, <4>3, ShownFields, SameLife
    <3>2. CASE m \notin Established
      <4>1. machine[m] = Applied(m)
        BY <3>2 DEF Init
      <4>2. /\ machine[m].live /\ ~machine[m].finalizer /\ ~machine[m].deleting
            /\ ~(machine[m].nodeRef # None) /\ ~machine[m].infraReady
        <5>1. Applied(m).live /\ ~Applied(m).finalizer /\ ~Applied(m).deleting
          BY DEF Applied
        <5>2. Applied(m).nodeRef = None /\ ~Applied(m).infraReady
          BY DEF Applied
        <5> QED BY <4>1, <5>1, <5>2
      <4>3. LET e == Lifecycle!New
            IN e \in Lifecycle!Life /\ e.exists /\ ~e.managed /\ ~e.deleting /\ ~e.noded
               /\ ~e.ready
        BY DEF Lifecycle!New, Lifecycle!Life
      <4> QED BY <2>0, <4>2, <4>3, ShownFields, SameLife
    <3> QED BY <3>1, <3>2
  <2>2. ASSUME NEW m \in Machine PROVE ~Torn(m)
    BY ConstantsAssumption DEF Init, Torn, NoInfra
  <2> QED BY <2>1, <2>2 DEF Lifecycle!Init
<1>2. TypeOK /\ ControllerInv /\ FinalizerInv /\ [Next]_vars => FinalizerInv'
  BY FinalizerStep DEF TypeOK
<1>3. TypeOK /\ ControllerInv /\ FinalizerInv /\ [Next]_vars
      => [Lifecycle!Next]_(Lifecycle!vars)
  BY StepShows DEF TypeOK, Lifecycle!vars, Showing, Tearing
<1> QED
  BY <1>1, <1>2, <1>3, FinalizerInit, TypeCorrect, ControllerInvariant, PTL
  DEF Spec, LivesOneLife, Lifecycle!Spec

================================================================================
