------------------------ MODULE MachineControllerProofs ------------------------
(* What TLAPS proves of MachineController, for every value of its constants. *)
EXTENDS MachineController, FiniteSetTheorems, TLAPS

--------------------------------------------------------------------------------
(* The types of the operators that build objects. *)

LEMMA AppliedType ==
  ASSUME NEW m \in Machine
  PROVE  Applied(m) \in MachineObject /\ Removed(m) \in MachineObject
BY ConstantsAssumption DEF Applied, Removed, MachineObject, Phase

\* The infrastructure objects that NoInfra makes.
LEMMA NoInfraType ==
  ASSUME NEW s \in {"unapplied", "present", "deleting", "gone"}
  PROVE  NoInfra(s) \in InfraObject
BY DEF NoInfra, InfraObject

\* reconcilePhase changes nothing but the phase, and sets one of its values.
LEMMA ReconcilePhaseType ==
  ASSUME NEW o \in MachineObject
  PROVE  /\ ReconcilePhase(o) \in MachineObject
         /\ ReconcilePhase(o).nodeRef = o.nodeRef
         /\ ReconcilePhase(o).providerID = o.providerID
         /\ ReconcilePhase(o).live = o.live
         /\ ReconcilePhase(o).deleting = o.deleting
BY DEF ReconcilePhase, MachineObject, Phase

\* What reconcileInfrastructure makes of a Machine is a Machine.
LEMMA TakenOverType ==
  ASSUME NEW m \in Machine, Typed, InfraRef[m] \in Infra
  PROVE  /\ TakenOver(m) \in MachineObject
         /\ TakenOver(m).nodeRef = obj[m].nodeRef
         /\ TakenOver(m).providerID \in {obj[m].providerID, InfraRef[m]}
<1>1. obj[m] \in MachineObject /\ got[m] \in InfraObject
  BY DEF Typed
<1> DEFINE failed == obj[m].failed \/ got[m].failed
           o == [obj[m] EXCEPT !.failed = failed]
<1>2. failed \in BOOLEAN
  OBVIOUS
<1>3. o \in MachineObject /\ o.nodeRef = obj[m].nodeRef /\ o.providerID = obj[m].providerID
  <2> HIDE DEF failed
  <2> QED BY <1>1, <1>2 DEF MachineObject
<1>4. CASE got[m].st = "deleting"
  BY <1>3, <1>4 DEF TakenOver
<1>5. CASE got[m].st # "deleting"
  <2>1. TakenOver(m) = [o EXCEPT !.infraReady = got[m].status # "pending",
                          !.providerID = IF got[m].status = "ready" THEN InfraRef[m]
                                         ELSE obj[m].providerID]
    BY <1>1, <1>5 DEF TakenOver, MachineObject
  <2>2. (got[m].status # "pending") \in BOOLEAN
    OBVIOUS
  <2> HIDE DEF o
  <2> QED BY <1>1, <1>3, <2>1, <2>2 DEF MachineObject
<1> QED BY <1>4, <1>5

\* Adopting an object leaves the types of all infrastructure.
LEMMA AdoptedType ==
  ASSUME NEW m \in Machine, Typed, InfraRef[m] \in Infra
  PROVE  /\ Adopted(m) \in [Infra -> InfraObject]
         /\ \A i \in Infra : Adopted(m)[i].st = infra[i].st
<1>1. infra[InfraRef[m]] \in InfraObject /\ infra \in [Infra -> InfraObject]
  BY DEF Typed
<1>2. [infra[InfraRef[m]] EXCEPT !.owner = m] \in InfraObject
  BY <1>1 DEF InfraObject
<1> QED BY <1>1, <1>2 DEF Adopted, InfraObject

\* The part of Typed that is about pc, after a step.
PcTyped ==
  /\ pc \in [Machine -> Stages]
  /\ \A m \in Machine :
       pc[m] \in {"getInfra", "patchInfra", "watchInfra", "addWatch"} => InfraRef[m] # None

\* The end of a reconcile leaves the types of the local copies.
LEMMA ReturnType ==
  ASSUME Typed, NEW m \in Machine, NEW requeue \in BOOLEAN, Return(m, requeue)
  PROVE  /\ PcTyped'
         /\ base' \in [Machine -> MachineObject] /\ obj' \in [Machine -> MachineObject]
         /\ got' \in [Machine -> InfraObject]
         /\ again' \in [Machine -> BOOLEAN] /\ allowed' \in [Machine -> BOOLEAN]
         /\ queue' \subseteq Machine
<1>1. PcTyped'
  BY DEF Return, Typed, Stages, PcTyped
<1>2. base' \in [Machine -> MachineObject] /\ obj' \in [Machine -> MachineObject]
  BY AppliedType DEF Return, Typed
<1>3. got' \in [Machine -> InfraObject]
  BY NoInfraType DEF Return, Typed
<1>4. again' \in [Machine -> BOOLEAN] /\ allowed' \in [Machine -> BOOLEAN]
  BY DEF Return, Typed
<1>5. queue' \subseteq Machine
  BY DEF Return, Typed
<1> QED BY <1>1, <1>2, <1>3, <1>4, <1>5

\* The end of the process leaves the types of the local copies.
LEMMA StopsType ==
  ASSUME Stops
  PROVE  /\ PcTyped'
         /\ base' \in [Machine -> MachineObject] /\ obj' \in [Machine -> MachineObject]
         /\ got' \in [Machine -> InfraObject]
         /\ again' \in [Machine -> BOOLEAN] /\ allowed' \in [Machine -> BOOLEAN]
         /\ queue' \subseteq Machine
         /\ watch' \in {"none", "adding", "watching", "lost"}
BY AppliedType, NoInfraType DEF Stops, Stages, PcTyped

\* EnqueueRequestForOwner only ever adds Machines to the queue.
LEMMA NotifyType ==
  ASSUME Typed, NEW S, S \subseteq Machine \cup {None}, Notify(S)
  PROVE  queue' \subseteq Machine
BY DEF Notify, Typed

\* Where the reconcile looks for infrastructure, there is a reference.
LEMMA InfraRefType ==
  ASSUME NEW m \in Machine, InfraRef[m] # None
  PROVE  InfraRef[m] \in Infra
BY ConstantsAssumption

\* The initial state has the types.
LEMMA InitTyped == Init => Typed
<1> SUFFICES ASSUME Init PROVE Typed
  OBVIOUS
<1>1. machine \in [Machine -> MachineObject]
  <2>1. ASSUME NEW m \in Established PROVE Up(m) \in MachineObject
    BY ConstantsAssumption DEF Up, MachineObject, Phase
  <2> QED BY <2>1, AppliedType DEF Init
<1>2. infra \in [Infra -> InfraObject]
  BY ConstantsAssumption, NoInfraType DEF Init, InfraObject
<1> QED BY <1>1, <1>2, AppliedType, NoInfraType, ConstantsAssumption DEF Init, Typed, Stages

\* Every stage that an action enters is one of Stages.
LEMMA StageNames ==
  {"idle", "getInfra", "patchInfra", "watchInfra", "addWatch", "nodeRef", "patch", "patchStatus",
   "markTerminating", "delete", "drain", "evict", "deleteExternal", "deleteNode",
   "removeFinalizer"} = Stages
BY DEF Stages, DeletionStages

\* At moves one reconcile to the named stage.
LEMMA AtType ==
  ASSUME Typed, NEW m \in Machine, NEW s \in Stages, At(m, s),
         s \in {"getInfra", "patchInfra", "watchInfra", "addWatch"} => InfraRef[m] # None
  PROVE  PcTyped'
BY DEF At, Typed, PcTyped

\* Fails notes the error of one reconcile.
LEMMA FailsType ==
  ASSUME Typed, NEW m \in Machine, Fails(m)
  PROVE  again' \in [Machine -> BOOLEAN]
BY DEF Fails, Typed

\* Taking over what the object reports leaves the types of the local copies.
LEMMA TakesOverType ==
  ASSUME Typed, NEW m \in Machine, TakesOver(m), InfraRef[m] \in Infra
  PROVE  obj' \in [Machine -> MachineObject] /\ PcTyped' /\ again' \in [Machine -> BOOLEAN]
<1>1. obj' \in [Machine -> MachineObject]
  BY TakenOverType DEF TakesOver, Typed
<1>2. PcTyped'
  BY AtType, StageNames DEF TakesOver
<1>3. again' \in [Machine -> BOOLEAN]
  <2> DEFINE b == got[m].st # "deleting" /\ got[m].status # "ready"
  <2>1. b \in BOOLEAN /\ again' = [again EXCEPT ![m] = b]
    BY DEF TakesOver
  <2> HIDE DEF b
  <2> QED BY <2>1 DEF Typed
<1> QED BY <1>1, <1>2, <1>3

\* The types are preserved by every step.
LEMMA TypedStep == Typed /\ [Next]_vars => Typed'
<1> SUFFICES ASSUME Typed, [Next]_vars PROVE Typed'
  OBVIOUS
<1> USE DEF apiVars, cacheVars, handlerVars, boundVars
<1>1. ASSUME NEW m \in Machine, ReconcileGone(m) PROVE Typed'
  BY <1>1 DEF ReconcileGone, Take, Typed
<1>2. ASSUME NEW m \in Machine, ReconcileNormal(m) PROVE Typed'
  <2>1. PcTyped'
    BY <1>2, StageNames DEF ReconcileNormal, Typed, PcTyped
  <2>2. cached[m] \in MachineObject
    BY DEF Typed
  <2>3. [cached[m] EXCEPT !.finalizer = TRUE] \in MachineObject
    BY <2>2 DEF MachineObject
  <2>4. base' \in [Machine -> MachineObject] /\ obj' \in [Machine -> MachineObject]
    BY <1>2, <2>2, <2>3 DEF ReconcileNormal, Typed
  <2> QED BY <1>2, <2>1, <2>4 DEF ReconcileNormal, Take, Typed, PcTyped
<1>3. ASSUME NEW m \in Machine, ReconcileDeleting(m) PROVE Typed'
  <2>1. PcTyped'
    BY <1>3, StageNames DEF ReconcileDeleting, Typed, PcTyped
  <2>2. cached[m] \in MachineObject
    BY DEF Typed
  <2>3. [cached[m] EXCEPT !.phase = "Terminating"] \in MachineObject
    BY <2>2 DEF MachineObject, Phase
  <2>4. base' \in [Machine -> MachineObject] /\ obj' \in [Machine -> MachineObject]
    BY <1>3, <2>2, <2>3 DEF ReconcileDeleting, Typed
  <2> QED BY <1>3, <2>1, <2>4 DEF ReconcileDeleting, Take, Typed, PcTyped
<1>4. ASSUME NEW m \in Machine, InfraNotFound(m) PROVE Typed'
  <2> DEFINE f == obj[m].failed \/ obj[m].infraReady
             o == [obj[m] EXCEPT !.failed = f]
  <2>1. obj' = [obj EXCEPT ![m] = o]
    BY <1>4 DEF InfraNotFound
  <2>2. o \in MachineObject
    <3>1. f \in BOOLEAN /\ obj[m] \in MachineObject
      BY DEF Typed
    <3> HIDE DEF f
    <3> QED BY <3>1 DEF MachineObject
  <2>3. obj' \in [Machine -> MachineObject]
    <3> HIDE DEF o
    <3> QED BY <2>1, <2>2 DEF Typed
  <2>4. PcTyped' /\ again' \in [Machine -> BOOLEAN]
    BY <1>4, AtType, FailsType, StageNames DEF InfraNotFound
  <2> QED BY <1>4, <2>3, <2>4 DEF InfraNotFound, Typed, PcTyped
<1>5. ASSUME NEW m \in Machine, InfraAlreadyOwned(m) PROVE Typed'
  <2>1. PcTyped' /\ again' \in [Machine -> BOOLEAN]
    BY <1>5, AtType, FailsType, StageNames DEF InfraAlreadyOwned
  <2> QED BY <1>5, <2>1 DEF InfraAlreadyOwned, Typed, PcTyped
<1>6. ASSUME NEW m \in Machine, GetInfra(m) PROVE Typed'
  <2>1. InfraRef[m] # None /\ InfraRef[m] \in Infra
    BY <1>6, InfraRefType DEF GetInfra, Typed
  <2>2. PcTyped'
    BY <1>6, <2>1, AtType, StageNames DEF GetInfra
  <2>3. got' \in [Machine -> InfraObject]
    BY <1>6, <2>1 DEF GetInfra, Typed
  <2> QED BY <1>6, <2>2, <2>3 DEF GetInfra, Typed, PcTyped
<1>7. ASSUME NEW m \in Machine, AdoptFails(m) PROVE Typed'
  <2>1. PcTyped' /\ again' \in [Machine -> BOOLEAN]
    BY <1>7, AtType, FailsType, StageNames DEF AdoptFails
  <2> QED BY <1>7, <2>1 DEF AdoptFails, Typed, PcTyped
<1>8. ASSUME NEW m \in Machine, PatchInfra(m) PROVE Typed'
  <2>1. InfraRef[m] \in Infra /\ InfraRef[m] # None
    BY <1>8, InfraRefType DEF PatchInfra, CanAdopt, Typed
  <2>2. infra' \in [Infra -> InfraObject]
    BY <1>8, <2>1, AdoptedType DEF PatchInfra
  <2>3. PcTyped'
    BY <1>8, <2>1, AtType, StageNames DEF PatchInfra
  <2>4. queue' \subseteq Machine
    <3>1. CASE got[m].owner = m
      BY <1>8, <3>1 DEF PatchInfra, Typed
    <3>2. CASE got[m].owner # m
      <4>1. {infra[InfraRef[m]].owner, m} \subseteq Machine \cup {None}
        BY <2>1 DEF Typed, InfraObject
      <4> QED BY <1>8, <3>2, <4>1, NotifyType DEF PatchInfra
    <3> QED BY <3>1, <3>2
  <2> QED BY <1>8, <2>2, <2>3, <2>4 DEF PatchInfra, Typed, PcTyped
<1>9. ASSUME NEW m \in Machine, FirstOfKind(m) \/ WatchFails(m) PROVE Typed'
  <2>1. InfraRef[m] # None
    BY <1>9 DEF FirstOfKind, WatchFails, Typed
  <2>2. PcTyped'
    BY <1>9, <2>1, AtType, StageNames DEF FirstOfKind, WatchFails
  <2>3. again' \in [Machine -> BOOLEAN]
    BY <1>9, FailsType DEF FirstOfKind, WatchFails, Typed
  <2> QED BY <1>9, <2>2, <2>3 DEF FirstOfKind, WatchFails, Typed, PcTyped
<1>31. ASSUME NEW m \in Machine, KindSeen(m) \/ WatchAdded(m) PROVE Typed'
  <2>1. TakesOver(m) /\ InfraRef[m] \in Infra
    BY <1>31, InfraRefType DEF KindSeen, WatchAdded, Typed
  <2>2. queue' \subseteq Machine /\ watch' \in {"none", "adding", "watching", "lost"}
    <3>1. \A i \in Infra : infra[i].owner \in Machine \cup {None}
      BY DEF Typed, InfraObject
    <3> QED BY <1>31, <3>1 DEF KindSeen, WatchAdded, Typed
  <2> QED BY <2>1, <2>2, TakesOverType DEF TakesOver, Typed, PcTyped
<1>10. ASSUME NEW m \in Machine, NodeRef(m) PROVE Typed'
  <2> DEFINE found == NeedsNode(obj[m]) /\ obj[m].providerID \in nodeCache
             o == [obj[m] EXCEPT !.nodeRef = IF found THEN obj[m].providerID ELSE @]
  <2>1. obj[m] \in MachineObject
    BY DEF Typed
  <2>2. o \in MachineObject
    <3> HIDE DEF found
    <3> QED BY <2>1 DEF MachineObject
  <2>3. obj' = [obj EXCEPT ![m] = ReconcilePhase(o)]
    BY <1>10 DEF NodeRef
  <2>4. obj' \in [Machine -> MachineObject]
    <3> HIDE DEF o
    <3> QED BY <2>2, <2>3, ReconcilePhaseType DEF Typed
  <2>5. PcTyped'
    BY <1>10, AtType, StageNames DEF NodeRef
  <2>6. again' \in [Machine -> BOOLEAN]
    <3> DEFINE b == again[m] \/ (NeedsNode(obj[m]) /\ ~found)
    <3>1. b \in BOOLEAN /\ again' = [again EXCEPT ![m] = b]
      BY <1>10 DEF NodeRef
    <3> HIDE DEF b
    <3> QED BY <3>1 DEF Typed
  <2> QED BY <1>10, <2>4, <2>5, <2>6 DEF NodeRef, Typed, PcTyped
<1>11. ASSUME NEW m \in Machine, PatchMachine(m) PROVE Typed'
  <2> DEFINE o == [machine[m] EXCEPT
                     !.finalizer = Merged(@, base[m].finalizer, obj[m].finalizer),
                     !.providerID = Merged(@, base[m].providerID, obj[m].providerID)]
  <2>1. o \in MachineObject
    <3>1. machine[m] \in MachineObject /\ base[m] \in MachineObject /\ obj[m] \in MachineObject
      BY DEF Typed
    <3> QED BY <3>1 DEF MachineObject, Merged
  <2>2. machine' \in {machine, [machine EXCEPT ![m] = o]}
    BY <1>11 DEF PatchMachine
  <2>3. machine' \in [Machine -> MachineObject]
    <3> HIDE DEF o
    <3> QED BY <2>1, <2>2 DEF Typed
  <2>4. PcTyped'
    BY <1>11, AtType, StageNames DEF PatchMachine
  <2>5. again' \in [Machine -> BOOLEAN]
    <3> DEFINE b == again[m] \/ (SpecDiffers(m) /\ ~machine[m].live)
    <3>1. b \in BOOLEAN /\ again' = [again EXCEPT ![m] = b]
      BY <1>11 DEF PatchMachine
    <3> HIDE DEF b
    <3> QED BY <3>1 DEF Typed
  <2> QED BY <1>11, <2>3, <2>4, <2>5 DEF PatchMachine, Typed, PcTyped
<1>12. ASSUME NEW m \in Machine, PatchStatus(m) PROVE Typed'
  <2> DEFINE o == [machine[m] EXCEPT
                     !.nodeRef = Merged(@, base[m].nodeRef, obj[m].nodeRef),
                     !.phase = Merged(@, base[m].phase, obj[m].phase),
                     !.infraReady = Merged(@, base[m].infraReady, obj[m].infraReady),
                     !.failed = Merged(@, base[m].failed, obj[m].failed)]
             requeue == again[m] \/ (StatusDiffers(m) /\ ~machine[m].live)
  <2>1. o \in MachineObject
    <3>1. machine[m] \in MachineObject /\ base[m] \in MachineObject /\ obj[m] \in MachineObject
      BY DEF Typed
    <3>2. \A live, before, after : Merged(live, before, after) \in {live, after}
      BY DEF Merged
    <3>3. /\ Merged(machine[m].nodeRef, base[m].nodeRef, obj[m].nodeRef) \in Infra \cup {None}
          /\ Merged(machine[m].phase, base[m].phase, obj[m].phase) \in Phase
          /\ Merged(machine[m].infraReady, base[m].infraReady, obj[m].infraReady) \in BOOLEAN
          /\ Merged(machine[m].failed, base[m].failed, obj[m].failed) \in BOOLEAN
      BY <3>1, <3>2 DEF MachineObject
    <3> QED BY <3>1, <3>3 DEF MachineObject
  <2>2. machine' \in {machine, [machine EXCEPT ![m] = o]}
    BY <1>12 DEF PatchStatus
  <2>3. machine' \in [Machine -> MachineObject]
    <3> HIDE DEF o
    <3> QED BY <2>1, <2>2 DEF Typed
  <2>4. requeue \in BOOLEAN /\ Return(m, requeue)
    BY <1>12 DEF PatchStatus
  <2> HIDE DEF o, requeue
  <2> QED BY <1>12, <2>3, <2>4, ReturnType DEF PatchStatus, Typed, PcTyped
<1>13. ASSUME NEW m \in Machine, MarkTerminating(m) PROVE Typed'
  <2>1. CASE Conflict(m)
    BY <1>13, <2>1, ReturnType DEF MarkTerminating, Typed, PcTyped
  <2>2. CASE ~Conflict(m)
    <3>1. PcTyped'
      BY <1>13, <2>2, AtType, StageNames DEF MarkTerminating
    <3> QED BY <1>13, <2>2, <3>1 DEF MarkTerminating, Typed, PcTyped
  <2> QED BY <2>1, <2>2
<1>14. ASSUME NEW m \in Machine, Delete(m) PROVE Typed'
  <2>1. PcTyped'
    BY <1>14, AtType, StageNames DEF Delete
  <2>2. allowed' \in [Machine -> BOOLEAN]
    <3> DEFINE b == obj[m].nodeRef # None /\ IsDeleteNodeAllowed(m)
    <3>1. b \in BOOLEAN /\ allowed' = [allowed EXCEPT ![m] = b]
      BY <1>14 DEF Delete
    <3> HIDE DEF b
    <3> QED BY <3>1 DEF Typed
  <2> QED BY <1>14, <2>1, <2>2 DEF Delete, Typed, PcTyped
<1>15. ASSUME NEW m \in Machine, Cordon(m) PROVE Typed'
  <2>1. PcTyped'
    BY <1>15, AtType, StageNames DEF Cordon
  <2>2. node' \in [Infra -> {"none", "active", "cordoned", "drained"}]
    BY <1>15 DEF Cordon, Typed
  <2> QED BY <1>15, <2>1, <2>2 DEF Cordon, Typed, PcTyped
<1>16. ASSUME NEW m \in Machine, Evict(m) PROVE Typed'
  <2>1. PcTyped'
    BY <1>16, AtType, StageNames DEF Evict
  <2>2. node' \in [Infra -> {"none", "active", "cordoned", "drained"}]
    BY <1>16 DEF Evict, Typed
  <2> QED BY <1>16, <2>1, <2>2 DEF Evict, Typed, PcTyped
<1>17. ASSUME NEW m \in Machine, DeleteExternal(m) PROVE Typed'
  <2>1. PcTyped'
    BY <1>17, AtType, StageNames DEF DeleteExternal
  <2>2. InfraRef[m] \in Infra
    BY <1>17, InfraRefType DEF DeleteExternal, InfraToDelete
  <2>3. infra' \in [Infra -> InfraObject]
    <3>1. infra[InfraRef[m]] \in InfraObject
      BY <2>2 DEF Typed
    <3>2. [infra[InfraRef[m]] EXCEPT !.st = "deleting"] \in InfraObject
      BY <3>1 DEF InfraObject
    <3> QED BY <1>17, <2>2, <3>2 DEF DeleteExternal, Typed
  <2>4. queue' \subseteq Machine
    <3>1. {infra[InfraRef[m]].owner} \subseteq Machine \cup {None}
      BY <2>2 DEF Typed, InfraObject
    <3> QED BY <1>17, <3>1, NotifyType DEF DeleteExternal
  <2> QED BY <1>17, <2>1, <2>3, <2>4 DEF DeleteExternal, Typed, PcTyped
<1>18. ASSUME NEW m \in Machine, DeleteExternalPanics(m) PROVE Typed'
  BY <1>18, StopsType DEF DeleteExternalPanics, Typed, PcTyped
<1>19. ASSUME NEW m \in Machine, DeleteNode(m) PROVE Typed'
  <2>1. PcTyped'
    BY <1>19, AtType, StageNames DEF DeleteNode
  <2>2. node' \in [Infra -> {"none", "active", "cordoned", "drained"}]
    BY <1>19 DEF DeleteNode, Typed
  <2> QED BY <1>19, <2>1, <2>2 DEF DeleteNode, Typed, PcTyped
<1>20. ASSUME NEW m \in Machine, RemoveFinalizer(m) PROVE Typed'
  <2>1. machine' \in [Machine -> MachineObject]
    BY <1>20, AppliedType DEF RemoveFinalizer, Typed
  <2>2. Conflict(m) \in BOOLEAN /\ Return(m, Conflict(m))
    BY <1>20 DEF RemoveFinalizer, Conflict
  <2> QED BY <1>20, <2>1, <2>2, ReturnType DEF RemoveFinalizer, Typed, PcTyped
<1>21. ASSUME NEW m \in Machine, ApiError(m) PROVE Typed'
  <2>1. faults' \in Nat
    BY <1>21 DEF ApiError, Typed
  <2>2. CASE Return(m, TRUE)
    BY <1>21, <2>1, <2>2, ReturnType DEF ApiError, Typed, PcTyped
  <2>3. CASE Fails(m) /\ At(m, IF pc[m] = "patch" THEN "patchStatus" ELSE "nodeRef")
             /\ UNCHANGED <<base, obj, got, allowed, queue>>
    <3>1. PcTyped' /\ again' \in [Machine -> BOOLEAN]
      BY <2>3, AtType, FailsType, StageNames
    <3> QED BY <1>21, <2>1, <2>3, <3>1 DEF ApiError, Typed, PcTyped
  <2>4. CASE At(m, "removeFinalizer") /\ UNCHANGED <<base, obj, got, again, allowed, queue>>
    <3>1. PcTyped'
      BY <2>4, AtType, StageNames
    <3> QED BY <1>21, <2>1, <2>4, <3>1 DEF ApiError, Typed, PcTyped
  <2> QED BY <1>21, <2>2, <2>3, <2>4 DEF ApiError
<1>22. ASSUME NEW m \in Machine, Deliver(m) PROVE Typed'
  BY <1>22 DEF Deliver, Typed
<1>23. ASSUME NEW m \in Machine, Resync(m) PROVE Typed'
  BY <1>23 DEF Resync, Typed
<1>24. ASSUME NEW m \in Machine, DeleteMachine(m) PROVE Typed'
  <2>1. [machine[m] EXCEPT !.deleting = TRUE] \in MachineObject
    <3>1. machine[m] \in MachineObject
      BY DEF Typed
    <3> QED BY <3>1 DEF MachineObject
  <2>2. machine' \in [Machine -> MachineObject]
    BY <1>24, <2>1, AppliedType DEF DeleteMachine, Typed
  <2> QED BY <1>24, <2>2 DEF DeleteMachine, EnvUnchanged, Typed
<1>25. ASSUME NEW i \in Infra, SyncNode(i) PROVE Typed'
  BY <1>25 DEF SyncNode, Typed
<1>26. ASSUME NEW i \in Infra, ProviderStep(i) PROVE Typed'
  <2>1. ASSUME NEW o \in InfraObject, InfraBecomes(i, o), disruptions' \in Nat
        PROVE  Typed'
    <3>1. {infra[i].owner} \subseteq Machine \cup {None}
      BY DEF Typed, InfraObject
    <3>2. queue' \subseteq Machine
      BY <2>1, <3>1, NotifyType DEF InfraBecomes
    <3> QED BY <2>1, <3>2 DEF InfraBecomes, EnvUnchanged, Typed
  <2>2. infra[i] \in InfraObject
    BY DEF Typed
  <2>3. disruptions' \in Nat
    BY <1>26 DEF ProviderStep, ApplyInfra, ProviderProgress, ProviderRegress,
                 ProviderFails, DeleteInfra, CollectInfra, FinishInfra, Disrupts, Typed
  <2>4. /\ NoInfra("present") \in InfraObject /\ NoInfra("gone") \in InfraObject
        /\ \A s \in {"readyNoID", "ready", "pending"} :
             [infra[i] EXCEPT !.status = s] \in InfraObject
        /\ [infra[i] EXCEPT !.failed = ~@] \in InfraObject
        /\ [infra[i] EXCEPT !.st = "deleting"] \in InfraObject
    BY <2>2, NoInfraType DEF InfraObject
  <2> QED BY <1>26, <2>1, <2>3, <2>4
          DEF ProviderStep, ApplyInfra, ProviderProgress, ProviderRegress,
              ProviderFails, DeleteInfra, CollectInfra, FinishInfra
<1>27. ASSUME NEW i \in Infra, NodeStep(i) PROVE Typed'
  BY <1>27 DEF NodeStep, RegisterNode, RemoveNode, NodeBecomes, Disrupts, EnvUnchanged, Typed
<1>28. CASE Crash
  BY <1>28, StopsType DEF Crash, Typed, PcTyped
<1>29. CASE Restart
  BY <1>29 DEF Restart, Typed
<1>30. CASE UNCHANGED vars
  BY <1>30 DEF vars, Typed
<1> QED
  BY <1>1, <1>2, <1>3, <1>4, <1>5, <1>6, <1>7, <1>8, <1>9, <1>10, <1>11, <1>12, <1>13,
     <1>14, <1>15, <1>16, <1>17, <1>18, <1>19, <1>20, <1>21, <1>22, <1>23, <1>24,
     <1>25, <1>26, <1>27, <1>28, <1>29, <1>30, <1>31
  DEF Next, StartOfReconcile, HandlerStep, NormalStep, DeletionStep

--------------------------------------------------------------------------------
(* At most MaxConcurrent reconciles at a time. *)

\* Only a worker that takes a key adds to the active keys, and adds that key.
LEMMA ActiveStep ==
  ASSUME Typed, [Next]_vars
  PROVE  \/ Active' \subseteq Active
         \/ /\ Cardinality(Active) < MaxConcurrent
            /\ \E m \in Machine : Active' = Active \cup {m}
<1> USE DEF Active
<1> USE DEF apiVars, cacheVars, handlerVars, boundVars
<1>1. ASSUME NEW m \in Machine, StartOfReconcile(m)
      PROVE  \/ Active' \subseteq Active
             \/ Cardinality(Active) < MaxConcurrent /\ Active' = Active \cup {m}
  <2>1. CASE ReconcileGone(m)
    BY <2>1 DEF ReconcileGone
  <2>2. CASE ReconcileNormal(m)
    BY <2>2 DEF ReconcileNormal, Take, Typed
  <2>3. CASE ReconcileDeleting(m)
    BY <2>3 DEF ReconcileDeleting, Take, Typed
  <2> QED BY <1>1, <2>1, <2>2, <2>3 DEF StartOfReconcile
<1>2. ASSUME NEW m \in Machine, pc[m] # "idle",
             (\E s \in Stages : At(m, s)) \/ (\E b \in BOOLEAN : Return(m, b)) \/ Stops
      PROVE  Active' \subseteq Active
  BY <1>2 DEF At, Return, Stops, Typed
<1>3. ASSUME NEW m \in Machine, NormalStep(m) PROVE Active' \subseteq Active
  <2>1. CASE PatchStatus(m)
    <3>1. (again[m] \/ (StatusDiffers(m) /\ ~machine[m].live)) \in BOOLEAN
      OBVIOUS
    <3> QED BY <1>2, <2>1, <3>1 DEF PatchStatus
  <2>2. CASE ~PatchStatus(m)
    <3>1. pc[m] # "idle" /\ \E s \in Stages : At(m, s)
      BY <1>3, <2>2, StageNames
      DEF NormalStep, InfraNotFound, InfraAlreadyOwned, GetInfra, AdoptFails, PatchInfra,
          CanAdopt, KindSeen, FirstOfKind, WatchAdded, TakesOver, WatchFails, NodeRef,
          PatchMachine
    <3> QED BY <1>2, <3>1
  <2> QED BY <2>1, <2>2
<1>4. ASSUME NEW m \in Machine, DeletionStep(m) PROVE Active' \subseteq Active
  <2>1. CASE MarkTerminating(m)
    BY <1>2, <2>1, StageNames DEF MarkTerminating
  <2>2. CASE RemoveFinalizer(m)
    <3>1. Conflict(m) \in BOOLEAN
      BY DEF Conflict
    <3> QED BY <1>2, <2>2, <3>1 DEF RemoveFinalizer
  <2>3. CASE DeleteExternalPanics(m)
    BY <1>2, <2>3 DEF DeleteExternalPanics
  <2>4. CASE Delete(m) \/ Cordon(m) \/ Evict(m) \/ DeleteExternal(m) \/ DeleteNode(m)
    <3>1. pc[m] # "idle" /\ \E s \in Stages : At(m, s)
      BY <2>4, StageNames DEF Delete, Cordon, Evict, DeleteExternal, DeleteNode
    <3> QED BY <1>2, <3>1
  <2> QED BY <1>4, <2>1, <2>2, <2>3, <2>4 DEF DeletionStep
<1>5. ASSUME NEW m \in Machine, ApiError(m) PROVE Active' \subseteq Active
  <2>1. pc[m] # "idle" /\ ((\E s \in Stages : At(m, s)) \/ Return(m, TRUE))
    BY <1>5, StageNames DEF ApiError
  <2> QED BY <1>2, <2>1
<1>6. CASE Crash
  BY <1>6 DEF Crash, Stops
<1>7. CASE UNCHANGED pc
  BY <1>7
<1>8. ASSUME NEW m \in Machine, Deliver(m) \/ Resync(m) \/ DeleteMachine(m)
      PROVE  UNCHANGED pc
  BY <1>8 DEF Deliver, Resync, DeleteMachine, EnvUnchanged
<1>9. ASSUME NEW i \in Infra, SyncNode(i) \/ ProviderStep(i) \/ NodeStep(i)
      PROVE  UNCHANGED pc
  BY <1>9 DEF SyncNode, ProviderStep, ApplyInfra, ProviderProgress, ProviderRegress,
              ProviderFails, DeleteInfra, CollectInfra, FinishInfra, InfraBecomes,
              NodeStep, RegisterNode, RemoveNode, NodeBecomes, EnvUnchanged
<1>10. Restart \/ UNCHANGED vars => UNCHANGED pc
  BY DEF Restart, vars
<1> QED
  BY <1>1, <1>3, <1>4, <1>5, <1>6, <1>7, <1>8, <1>9, <1>10 DEF Next, HandlerStep

\* A worker takes a key only below the limit, so the limit stays.
LEMMA LimitStep ==
  ASSUME Typed, Cardinality(Active) <= MaxConcurrent, [Next]_vars
  PROVE  Cardinality(Active') <= MaxConcurrent
<1>1. Active \subseteq Machine /\ Active' \subseteq Machine
  BY DEF Active
<1>2. IsFiniteSet(Active) /\ IsFiniteSet(Active')
  BY <1>1, FS_Subset, ConstantsAssumption
<1>3. Cardinality(Active) \in Nat /\ Cardinality(Active') \in Nat /\ MaxConcurrent \in Nat
  BY <1>2, FS_CardinalityType, ConstantsAssumption
<1>4. CASE Active' \subseteq Active
  <2>1. Cardinality(Active') <= Cardinality(Active)
    BY <1>2, <1>4, FS_Subset
  <2> QED BY <1>3, <2>1
<1>5. CASE /\ Cardinality(Active) < MaxConcurrent
           /\ \E m \in Machine : Active' = Active \cup {m}
  <2>1. PICK m \in Machine : Active' = Active \cup {m}
    BY <1>5
  <2>2. Cardinality(Active \cup {m}) \in {Cardinality(Active), Cardinality(Active) + 1}
    BY <1>2, FS_AddElement
  <2> QED BY <1>3, <1>5, <2>1, <2>2
<1> QED BY <1>4, <1>5, ActiveStep

\* TypeOK holds throughout: every variable keeps its type, and never do more
\* than MaxConcurrent reconciles run.
THEOREM TypeCorrect == Spec => []TypeOK
<1>1. Init => TypeOK
  <2> SUFFICES ASSUME Init PROVE TypeOK
    OBVIOUS
  <2>1. Active = {}
    BY DEF Init, Active
  <2>2. Cardinality(Active) <= MaxConcurrent
    BY <2>1, FS_EmptySet, ConstantsAssumption
  <2> QED BY <2>2, InitTyped DEF TypeOK
<1>2. TypeOK /\ [Next]_vars => TypeOK'
  BY TypedStep, LimitStep DEF TypeOK
<1> QED BY <1>1, <1>2, PTL DEF Spec

--------------------------------------------------------------------------------
(* The invariant of the controller, one Machine at a time. *)

Lasting(n) == ~machine[n].live \/ machine[n].deleting

Local(n) ==
  /\ IsOf(n, machine[n]) /\ IsOf(n, cached[n]) /\ IsOf(n, base[n]) /\ IsOf(n, obj[n])
  /\ BeingDeleted(cached[n]) => Lasting(n)
  /\ pc[n] \in DeletionStages => BeingDeleted(base[n]) /\ Lasting(n)
  /\ base[n].nodeRef # None => obj[n].nodeRef = base[n].nodeRef
  /\ pc[n] \in DeletionStages => obj[n] = [base[n] EXCEPT !.phase = "Terminating"]
  /\ pc[n] \in DeletionStages \ {"markTerminating"} => obj[n] = base[n]
  /\ pc[n] \in {"drain", "evict", "deleteExternal", "deleteNode"} => obj[n].nodeRef # None
  /\ pc[n] = "deleteNode" => Torn(n)
  /\ pc[n] = "removeFinalizer" /\ base[n].nodeRef # None => Torn(n)

\* ControllerInv speaks of each Machine by itself, but for the one that adds the watch.
LEMMA ControllerInvIsLocal ==
  ControllerInv <=> (\A n \in Machine : Local(n)) /\ OneAdder
BY DEF ControllerInv, CopiesAgree, DeletionIsFinal, WorkingCopies, TeardownFirst,
       Local, Lasting

\* A freshly applied object, and any local copy after Return, fit any Machine.
LEMMA AppliedIsOf ==
  ASSUME NEW n \in Machine
  PROVE  /\ IsOf(n, Applied(n)) /\ IsOf(n, Removed(n))
         /\ ~BeingDeleted(Removed(n)) /\ ~Removed(n).live
         /\ Applied(n).nodeRef = None
BY ConstantsAssumption DEF IsOf, Applied, Removed, ID, BeingDeleted

\* Infrastructure on its way out stays on its way out.
LEMMA TornStays ==
  ASSUME Typed, [Next]_vars, NEW n \in Machine, Torn(n)
  PROVE  Torn(n)'
<1> USE DEF apiVars, cacheVars, handlerVars, boundVars
<1> DEFINE Out == {"deleting", "gone"}
<1>0. InfraRef[n] \in Infra /\ infra[InfraRef[n]].st \in Out
  BY InfraRefType DEF Torn
<1>1. SUFFICES infra'[InfraRef[n]].st \in Out
  BY DEF Torn
<1>2. CASE UNCHANGED infra
  BY <1>0, <1>2
<1>3. ASSUME NEW m \in Machine, PatchInfra(m)
      PROVE  infra'[InfraRef[n]].st \in Out
  <2>1. InfraRef[m] \in Infra
    BY <1>3, InfraRefType DEF PatchInfra, CanAdopt, Typed
  <2>2. infra' = Adopted(m)
    BY <1>3 DEF PatchInfra
  <2> QED BY <1>0, <2>1, <2>2, AdoptedType
<1>4. ASSUME NEW m \in Machine, DeleteExternal(m)
      PROVE  infra'[InfraRef[n]].st \in Out
  BY <1>0, <1>4 DEF DeleteExternal, InfraToDelete, Typed, InfraObject
<1>5. ASSUME NEW i \in Infra, ProviderStep(i)
      PROVE  infra'[InfraRef[n]].st \in Out
  <2>1. infra[i] \in InfraObject /\ infra \in [Infra -> InfraObject]
    BY DEF Typed
  <2>2. CASE FinishInfra(i)
    BY <1>0, <2>1, <2>2 DEF FinishInfra, InfraBecomes, NoInfra
  <2>3. CASE ~FinishInfra(i)
    <3>1. infra[i].st \in {"unapplied", "present"}
      BY <1>5, <2>3 DEF ProviderStep, ApplyInfra, ProviderProgress, ProviderRegress,
                        ProviderFails, DeleteInfra, CollectInfra
    <3>2. InfraRef[n] # i
      BY <1>0, <3>1
    <3>3. \E o : infra' = [infra EXCEPT ![i] = o]
      BY <1>5, <2>3 DEF ProviderStep, ApplyInfra, ProviderProgress, ProviderRegress,
                        ProviderFails, DeleteInfra, CollectInfra, InfraBecomes
    <3> QED BY <1>0, <2>1, <3>2, <3>3
  <2> QED BY <2>2, <2>3
<1>6. ASSUME NEW m \in Machine, ReconcileGone(m) \/ ReconcileNormal(m) \/ ReconcileDeleting(m)
                 \/ InfraNotFound(m) \/ InfraAlreadyOwned(m) \/ GetInfra(m) \/ AdoptFails(m)
                 \/ KindSeen(m) \/ FirstOfKind(m) \/ WatchAdded(m) \/ WatchFails(m)
                 \/ NodeRef(m) \/ PatchMachine(m) \/ PatchStatus(m)
      PROVE  UNCHANGED infra
  BY <1>6 DEF ReconcileGone, ReconcileNormal, ReconcileDeleting, InfraNotFound,
              InfraAlreadyOwned, GetInfra, AdoptFails, KindSeen, FirstOfKind, WatchAdded,
              TakesOver, WatchFails, NodeRef, PatchMachine, PatchStatus
<1>7. ASSUME NEW m \in Machine, MarkTerminating(m) \/ Delete(m) \/ Cordon(m) \/ Evict(m)
                 \/ DeleteExternalPanics(m) \/ DeleteNode(m) \/ RemoveFinalizer(m)
                 \/ ApiError(m) \/ Deliver(m) \/ Resync(m) \/ DeleteMachine(m)
      PROVE  UNCHANGED infra
  BY <1>7 DEF MarkTerminating, Delete, Cordon, Evict, DeleteExternalPanics, DeleteNode,
              RemoveFinalizer, ApiError, Deliver, Resync, DeleteMachine
<1>8. ASSUME NEW i \in Infra, SyncNode(i) \/ NodeStep(i) PROVE UNCHANGED infra
  BY <1>8 DEF SyncNode, NodeStep, RegisterNode, RemoveNode, NodeBecomes
<1>9. Crash \/ Restart \/ UNCHANGED vars => UNCHANGED infra
  BY DEF Crash, Restart, vars
<1> QED
  BY <1>2, <1>3, <1>4, <1>5, <1>6, <1>7, <1>8, <1>9
  DEF Next, StartOfReconcile, HandlerStep, NormalStep, DeletionStep

\* What Local(n) says of a Machine that a step leaves alone.
LEMMA Untouched ==
  ASSUME Typed, [Next]_vars, NEW n \in Machine, Local(n),
         UNCHANGED <<machine[n], cached[n], pc[n], base[n], obj[n]>>
  PROVE  Local(n)'
BY TornStays DEF Local, Lasting, IsOf, BeingDeleted

\* The end of a reconcile of n, and the end of the process, forget its copies.
LEMMA Forgotten ==
  ASSUME Typed, NEW n \in Machine, Local(n),
         (\E b \in BOOLEAN : Return(n, b)) \/ Stops,
         IsOf(n, machine'[n]), Lasting(n) => Lasting(n)',
         UNCHANGED cached
  PROVE  Local(n)'
<1>1. pc'[n] = "idle" /\ base'[n] = Applied(n) /\ obj'[n] = Applied(n)
  BY DEF Return, Stops, Typed
<1>2. pc'[n] \notin DeletionStages
  BY <1>1 DEF DeletionStages
<1> QED BY <1>1, <1>2, AppliedIsOf DEF Local, Lasting, BeingDeleted, IsOf

\* Every step preserves Local(n).
LEMMA LocalStep ==
  ASSUME Typed, [Next]_vars, NEW n \in Machine, Local(n)
  PROVE  Local(n)'
<1> USE DEF apiVars, cacheVars, handlerVars, boundVars
<1>1. CASE ReconcileNormal(n)
  <2>1. /\ base'[n] = cached[n] /\ obj'[n] = [cached[n] EXCEPT !.finalizer = TRUE]
        /\ pc'[n] \notin DeletionStages
    BY <1>1 DEF ReconcileNormal, Typed, DeletionStages
  <2>2. cached[n] \in MachineObject
    BY DEF Typed
  <2>3. /\ obj'[n].nodeRef = cached[n].nodeRef
        /\ obj'[n].providerID = cached[n].providerID
    BY <2>1, <2>2 DEF MachineObject
  <2>4. pc'[n] \notin {"drain", "evict", "deleteExternal", "deleteNode", "removeFinalizer"}
    BY <2>1 DEF DeletionStages
  <2>5. UNCHANGED <<machine, cached>>
    BY <1>1 DEF ReconcileNormal
  <2> QED BY <2>1, <2>3, <2>4, <2>5 DEF Local, IsOf, Lasting, BeingDeleted
<1>2. CASE ReconcileDeleting(n)
  <2>1. /\ base'[n] = cached[n] /\ obj'[n] = [cached[n] EXCEPT !.phase = "Terminating"]
        /\ pc'[n] = IF cached[n].phase = "Terminating" THEN "delete" ELSE "markTerminating"
        /\ BeingDeleted(cached[n])
        /\ UNCHANGED <<machine, cached>>
    BY <1>2 DEF ReconcileDeleting, Typed, BeingDeleted
  <2>2. cached[n] \in MachineObject
    BY DEF Typed
  <2>3. /\ obj'[n].nodeRef = cached[n].nodeRef
        /\ obj'[n].providerID = cached[n].providerID
        /\ cached[n].phase = "Terminating" => obj'[n] = cached[n]
    BY <2>1, <2>2 DEF MachineObject
  <2> QED BY <2>1, <2>3 DEF Local, IsOf, Lasting, BeingDeleted
<1>3. CASE InfraNotFound(n)
  <2>1. /\ obj'[n] = [obj[n] EXCEPT !.failed = obj[n].failed \/ obj[n].infraReady]
        /\ pc'[n] = "nodeRef" /\ UNCHANGED <<machine, cached, base>>
    BY <1>3 DEF InfraNotFound, At, Typed
  <2>2. obj[n] \in MachineObject
    BY DEF Typed
  <2>3. obj'[n].nodeRef = obj[n].nodeRef /\ obj'[n].providerID = obj[n].providerID
    BY <2>1, <2>2 DEF MachineObject
  <2> QED BY <2>1, <2>3 DEF Local, IsOf, Lasting, BeingDeleted, DeletionStages
<1>4. CASE InfraAlreadyOwned(n) \/ GetInfra(n) \/ AdoptFails(n) \/ PatchInfra(n)
           \/ FirstOfKind(n) \/ WatchFails(n)
  <2>1. /\ pc'[n] \in {"nodeRef", "patchInfra", "watchInfra", "addWatch"}
        /\ UNCHANGED <<machine, cached, base, obj>>
    BY <1>4 DEF InfraAlreadyOwned, GetInfra, AdoptFails, PatchInfra, FirstOfKind, WatchFails,
                At, Typed
  <2> QED BY <2>1 DEF Local, IsOf, Lasting, BeingDeleted, DeletionStages
<1>5. CASE KindSeen(n) \/ WatchAdded(n)
  <2>1. InfraRef[n] \in Infra /\ ID(n) = InfraRef[n]
    BY <1>5, InfraRefType DEF KindSeen, WatchAdded, Typed, ID
  <2>2. /\ obj'[n] = TakenOver(n) /\ pc'[n] = "nodeRef"
        /\ UNCHANGED <<machine, cached, base>>
    BY <1>5 DEF KindSeen, WatchAdded, TakesOver, At, Typed
  <2>3. obj'[n].nodeRef = obj[n].nodeRef /\ obj'[n].providerID \in {obj[n].providerID, ID(n)}
    BY <2>1, <2>2, TakenOverType
  <2> QED BY <2>2, <2>3 DEF Local, IsOf, Lasting, BeingDeleted, DeletionStages
<1>6. CASE NodeRef(n)
  <2> DEFINE found == NeedsNode(obj[n]) /\ obj[n].providerID \in nodeCache
             o == [obj[n] EXCEPT !.nodeRef = IF found THEN obj[n].providerID ELSE @]
  <2>1. obj[n] \in MachineObject
    BY DEF Typed
  <2>2. o \in MachineObject /\ o.providerID = obj[n].providerID
        /\ o.nodeRef = IF found THEN obj[n].providerID ELSE obj[n].nodeRef
    <3> HIDE DEF found
    <3> QED BY <2>1 DEF MachineObject
  <2>3. /\ obj'[n] = ReconcilePhase(o) /\ pc'[n] = "patch"
        /\ UNCHANGED <<machine, cached, base>>
    BY <1>6 DEF NodeRef, At, Typed
  <2>4. obj'[n].providerID = obj[n].providerID /\ obj'[n].nodeRef = o.nodeRef
    <3> HIDE DEF o
    <3> QED BY <2>2, <2>3, ReconcilePhaseType
  <2>5. obj[n].nodeRef # None => obj'[n].nodeRef = obj[n].nodeRef
    BY <2>2, <2>4 DEF NeedsNode
  <2>6. obj'[n].nodeRef \in {obj[n].nodeRef, obj[n].providerID}
    BY <2>2, <2>4
  <2> HIDE DEF o, found
  <2> QED BY <2>3, <2>4, <2>5, <2>6 DEF Local, IsOf, Lasting, BeingDeleted, DeletionStages
<1>7. CASE PatchMachine(n)
  <2>1. pc'[n] = "patchStatus" /\ UNCHANGED <<cached, base, obj>>
    BY <1>7 DEF PatchMachine, At, Typed
  <2>2. /\ machine'[n].live = machine[n].live /\ machine'[n].deleting = machine[n].deleting
        /\ machine'[n].nodeRef = machine[n].nodeRef
        /\ machine'[n].providerID \in {machine[n].providerID, obj[n].providerID}
    <3>1. machine \in [Machine -> MachineObject] /\ machine[n] \in MachineObject
      BY DEF Typed
    <3> QED BY <1>7, <3>1 DEF PatchMachine, Merged, MachineObject
  <2> QED BY <2>1, <2>2 DEF Local, IsOf, Lasting, BeingDeleted, DeletionStages
<1>8. CASE PatchStatus(n)
  <2>1. UNCHANGED cached /\ \E b \in BOOLEAN : Return(n, b)
    <3>1. (again[n] \/ (StatusDiffers(n) /\ ~machine[n].live)) \in BOOLEAN
      OBVIOUS
    <3> QED BY <1>8, <3>1 DEF PatchStatus
  <2>2. /\ machine'[n].live = machine[n].live /\ machine'[n].deleting = machine[n].deleting
        /\ machine'[n].nodeRef \in {machine[n].nodeRef, obj[n].nodeRef}
        /\ machine'[n].providerID = machine[n].providerID
    <3>1. machine \in [Machine -> MachineObject] /\ machine[n] \in MachineObject
      BY DEF Typed
    <3> QED BY <1>8, <3>1 DEF PatchStatus, Merged, MachineObject
  <2>3. IsOf(n, machine'[n]) /\ (Lasting(n) => Lasting(n)')
    BY <2>2 DEF Local, IsOf, Lasting
  <2> QED BY <2>1, <2>3, Forgotten
<1>9. CASE MarkTerminating(n)
  <2>1. CASE Conflict(n)
    <3>1. UNCHANGED <<machine, cached>> /\ Return(n, TRUE)
      BY <1>9, <2>1 DEF MarkTerminating
    <3>2. IsOf(n, machine'[n]) /\ (Lasting(n) => Lasting(n)')
      BY <3>1 DEF Local, Lasting
    <3> QED BY <3>1, <3>2, Forgotten
  <2>2. CASE ~Conflict(n)
    <3>1. /\ machine'[n] = obj[n] /\ base'[n] = obj[n] /\ pc'[n] = "delete"
          /\ UNCHANGED <<cached, obj>>
      BY <1>9, <2>2 DEF MarkTerminating, At, Typed
    <3>2. /\ pc[n] = "markTerminating" /\ BeingDeleted(base[n])
          /\ obj[n] = [base[n] EXCEPT !.phase = "Terminating"]
      BY <1>9 DEF MarkTerminating, Local, DeletionStages
    <3>3. BeingDeleted(obj[n]) /\ obj[n] = [obj[n] EXCEPT !.phase = "Terminating"]
      <4>1. base[n] \in MachineObject
        BY DEF Typed
      <4> QED BY <3>2, <4>1 DEF BeingDeleted, MachineObject
    <3> QED BY <3>1, <3>3 DEF Local, IsOf, Lasting, BeingDeleted, DeletionStages
  <2> QED BY <2>1, <2>2
<1>10. CASE Delete(n)
  <2>1. /\ pc[n] = "delete" /\ UNCHANGED <<machine, cached, base, obj>>
        /\ pc'[n] \in {"drain", "deleteExternal", "removeFinalizer"}
        /\ pc'[n] = "removeFinalizer" <=> obj[n].nodeRef = None
    BY <1>10 DEF Delete, At, Typed
  <2>2. obj[n] = base[n]
    BY <2>1 DEF Local, DeletionStages
  <2> QED BY <2>1, <2>2 DEF Local, IsOf, Lasting, BeingDeleted, DeletionStages
<1>11. CASE Cordon(n) \/ Evict(n)
  <2>1. /\ pc[n] \in {"drain", "evict"} /\ UNCHANGED <<machine, cached, base, obj>>
        /\ pc'[n] \in {"evict", "deleteExternal"}
    BY <1>11 DEF Cordon, Evict, At, Typed
  <2> QED BY <2>1 DEF Local, IsOf, Lasting, BeingDeleted, DeletionStages
<1>12. CASE DeleteExternal(n)
  <2>1. /\ pc[n] = "deleteExternal" /\ UNCHANGED <<machine, cached, base, obj>>
        /\ pc'[n] \in {"deleteNode", "removeFinalizer"}
    BY <1>12 DEF DeleteExternal, At, Typed
  <2>2. Torn(n)'
    <3>1. InfraRef[n] # None /\ InfraRef[n] \in Infra
      BY <1>12, InfraRefType DEF DeleteExternal, InfraToDelete
    <3>2. infra'[InfraRef[n]].st = "deleting"
      BY <1>12, <3>1 DEF DeleteExternal, Typed, InfraObject
    <3> QED BY <3>1, <3>2 DEF Torn
  <2> QED BY <2>1, <2>2 DEF Local, IsOf, Lasting, BeingDeleted, DeletionStages
<1>13. CASE DeleteNode(n)
  <2>1. /\ pc[n] = "deleteNode" /\ UNCHANGED <<machine, infra, cached, base, obj>>
        /\ pc'[n] = "removeFinalizer"
    BY <1>13 DEF DeleteNode, At, Typed
  <2> QED BY <2>1 DEF Local, IsOf, Lasting, BeingDeleted, Torn, DeletionStages
<1>14. CASE RemoveFinalizer(n)
  <2>1. Return(n, Conflict(n)) /\ Conflict(n) \in BOOLEAN /\ UNCHANGED cached
    BY <1>14 DEF RemoveFinalizer, Conflict
  <2>2. machine'[n] \in {machine[n], Removed(n)}
    BY <1>14 DEF RemoveFinalizer, Typed
  <2>3. IsOf(n, machine'[n]) /\ (Lasting(n) => Lasting(n)')
    BY <2>2, AppliedIsOf DEF Local, Lasting
  <2> QED BY <2>1, <2>3, Forgotten
<1>15. CASE ApiError(n)
  <2>1. UNCHANGED <<machine, infra, cached>>
    BY <1>15 DEF ApiError
  <2>2. CASE Return(n, TRUE)
    <3>1. IsOf(n, machine'[n]) /\ (Lasting(n) => Lasting(n)')
      BY <2>1 DEF Local, Lasting
    <3> QED BY <2>1, <2>2, <3>1, Forgotten
  <2>3. CASE pc'[n] \in {"patchStatus", "nodeRef"} /\ UNCHANGED <<base, obj>>
    BY <2>1, <2>3 DEF Local, IsOf, Lasting, BeingDeleted, DeletionStages
  <2>4. CASE pc[n] = "deleteNode" /\ pc'[n] = "removeFinalizer" /\ UNCHANGED <<base, obj>>
    BY <2>1, <2>4 DEF Local, IsOf, Lasting, BeingDeleted, Torn, DeletionStages
  <2> QED BY <1>15, <2>2, <2>3, <2>4 DEF ApiError, At, Typed
<1>16. ASSUME Stops, UNCHANGED <<machine, cached>> PROVE Local(n)'
  <2>1. IsOf(n, machine'[n]) /\ (Lasting(n) => Lasting(n)')
    BY <1>16 DEF Local, Lasting
  <2> QED BY <1>16, <2>1, Forgotten
<1>17. CASE Deliver(n)
  BY <1>17 DEF Deliver, Typed, Local, IsOf, Lasting, BeingDeleted, Torn
<1>18. CASE DeleteMachine(n)
  <2>1. /\ UNCHANGED <<infra, cached, pc, base, obj>>
        /\ machine'[n] \in {[machine[n] EXCEPT !.deleting = TRUE], Removed(n)}
    BY <1>18 DEF DeleteMachine, EnvUnchanged, Typed
  <2>2. IsOf(n, machine'[n]) /\ Lasting(n)'
    <3>1. machine[n] \in MachineObject
      BY DEF Typed
    <3> QED BY <2>1, <3>1, AppliedIsOf DEF Local, IsOf, Lasting, MachineObject
  <2> QED BY <2>1, <2>2 DEF Local, IsOf, Lasting, BeingDeleted, Torn
<1>19. CASE Restart
  BY <1>19 DEF Restart, Local, IsOf, Lasting, BeingDeleted, Torn
<1>20. ASSUME NEW m \in Machine, m # n,
              StartOfReconcile(m) \/ NormalStep(m)
       PROVE  UNCHANGED <<machine[n], cached[n], pc[n], base[n], obj[n]>>
  BY <1>20 DEF StartOfReconcile, ReconcileGone, ReconcileNormal, ReconcileDeleting,
     NormalStep, InfraNotFound, InfraAlreadyOwned, GetInfra, AdoptFails, PatchInfra,
     KindSeen, FirstOfKind, WatchAdded, TakesOver, WatchFails, NodeRef, PatchMachine,
     PatchStatus, At, Return, Typed
<1>21. ASSUME NEW m \in Machine, m # n,
              MarkTerminating(m) \/ Delete(m) \/ Cordon(m) \/ Evict(m) \/ DeleteExternal(m)
              \/ DeleteNode(m) \/ RemoveFinalizer(m) \/ ApiError(m) \/ Deliver(m)
              \/ DeleteMachine(m)
       PROVE  UNCHANGED <<machine[n], cached[n], pc[n], base[n], obj[n]>>
  BY <1>21 DEF MarkTerminating, Delete, Cordon, Evict, DeleteExternal, DeleteNode,
     RemoveFinalizer, ApiError, Deliver, DeleteMachine, EnvUnchanged, At, Return, Typed
<1>22. ASSUME NEW m \in Machine, ReconcileGone(m) \/ Resync(m)
       PROVE  UNCHANGED <<machine[n], cached[n], pc[n], base[n], obj[n]>>
  BY <1>22 DEF ReconcileGone, Resync
<1>23. ASSUME NEW i \in Infra, SyncNode(i) \/ ProviderStep(i) \/ NodeStep(i)
       PROVE  UNCHANGED <<machine[n], cached[n], pc[n], base[n], obj[n]>>
  BY <1>23 DEF SyncNode, ProviderStep, ApplyInfra, ProviderProgress, ProviderRegress,
     ProviderFails, DeleteInfra, CollectInfra, FinishInfra, InfraBecomes, NodeStep,
     RegisterNode, RemoveNode, NodeBecomes, EnvUnchanged
<1>24. CASE UNCHANGED vars
  BY <1>24, Untouched DEF vars
<1>25. ASSUME NEW m \in Machine, DeleteExternalPanics(m) PROVE Local(n)'
  BY <1>16, <1>25 DEF DeleteExternalPanics
<1>26. CASE Crash
  BY <1>16, <1>26 DEF Crash
<1>27. ASSUME NEW m \in Machine,
              \/ StartOfReconcile(m) \/ HandlerStep(m) \/ ApiError(m)
              \/ Deliver(m) \/ Resync(m) \/ DeleteMachine(m)
       PROVE  Local(n)'
  <2>1. CASE m = n
    BY <1>27, <2>1, <1>1, <1>2, <1>3, <1>4, <1>5, <1>6, <1>7, <1>8, <1>9, <1>10, <1>11,
       <1>12, <1>13, <1>14, <1>15, <1>17, <1>18, <1>22, <1>25, Untouched
    DEF StartOfReconcile, HandlerStep, NormalStep, DeletionStep
  <2>2. CASE m # n
    BY <1>27, <2>2, <1>20, <1>21, <1>22, <1>25, Untouched DEF HandlerStep, DeletionStep
  <2> QED BY <2>1, <2>2
<1> QED
  BY <1>19, <1>23, <1>24, <1>26, <1>27, Untouched DEF Next

\* Nobody adds a watch in the initial state.
LEMMA OneAdderInit == Init => OneAdder
BY DEF Init, OneAdder

\* Only the worker that finds the kind unknown goes to Controller.Watch, and it
\* leaves the kind known.
LEMMA OneAdderStep ==
  ASSUME Typed, OneAdder, [Next]_vars
  PROVE  OneAdder'
<1> USE DEF apiVars, cacheVars, handlerVars, boundVars
<1>1. ASSUME NEW m \in Machine, pc[m] # "addWatch", UNCHANGED watch,
             (\E s \in Stages \ {"addWatch"} : At(m, s)) \/ (\E b \in BOOLEAN : Return(m, b))
      PROVE  OneAdder'
  <2>1. pc'[m] # "addWatch" /\ \A n \in Machine \ {m} : pc'[n] = pc[n]
    BY <1>1 DEF At, Return, Typed
  <2> QED BY <1>1, <2>1 DEF OneAdder
<1>2. ASSUME UNCHANGED <<pc, watch>> PROVE OneAdder'
  BY <1>2 DEF OneAdder
<1>3. ASSUME Stops PROVE OneAdder'
  BY <1>3 DEF Stops, OneAdder
<1>4. ASSUME NEW m \in Machine, StartOfReconcile(m) PROVE OneAdder'
  <2>1. CASE ReconcileGone(m)
    BY <1>2, <2>1 DEF ReconcileGone
  <2>2. CASE ReconcileNormal(m) \/ ReconcileDeleting(m)
    <3>1. /\ pc[m] = "idle" /\ UNCHANGED watch
          /\ pc'[m] # "addWatch" /\ \A n \in Machine \ {m} : pc'[n] = pc[n]
      BY <2>2 DEF ReconcileNormal, ReconcileDeleting, Take, Typed
    <3> QED BY <3>1 DEF OneAdder
  <2> QED BY <1>4, <2>1, <2>2 DEF StartOfReconcile
<1>5. ASSUME NEW m \in Machine, NormalStep(m) PROVE OneAdder'
  <2>1. CASE FirstOfKind(m)
    <3>1. /\ watch = "none" /\ watch' = "adding" /\ pc'[m] = "addWatch"
          /\ \A n \in Machine \ {m} : pc'[n] = pc[n]
      BY <2>1 DEF FirstOfKind, At, Typed
    <3> QED BY <3>1 DEF OneAdder
  <2>2. CASE WatchAdded(m) \/ WatchFails(m)
    <3>1. /\ pc[m] = "addWatch" /\ watch' # "adding" /\ pc'[m] = "nodeRef"
          /\ \A n \in Machine \ {m} : pc'[n] = pc[n]
      BY <2>2 DEF WatchAdded, TakesOver, WatchFails, At, Typed
    <3> QED BY <3>1 DEF OneAdder
  <2>3. CASE PatchStatus(m)
    <3>1. (again[m] \/ (StatusDiffers(m) /\ ~machine[m].live)) \in BOOLEAN
      OBVIOUS
    <3> QED BY <1>1, <2>3, <3>1 DEF PatchStatus
  <2>4. CASE InfraNotFound(m) \/ InfraAlreadyOwned(m) \/ GetInfra(m) \/ AdoptFails(m)
             \/ PatchInfra(m) \/ KindSeen(m) \/ NodeRef(m) \/ PatchMachine(m)
    <3>1. /\ pc[m] # "addWatch" /\ UNCHANGED watch
          /\ \E s \in Stages \ {"addWatch"} : At(m, s)
      BY <2>4, StageNames
      DEF InfraNotFound, InfraAlreadyOwned, GetInfra, AdoptFails, PatchInfra, CanAdopt,
          KindSeen, TakesOver, NodeRef, PatchMachine
    <3> QED BY <1>1, <3>1
  <2> QED BY <1>5, <2>1, <2>2, <2>3, <2>4 DEF NormalStep
<1>6. ASSUME NEW m \in Machine, DeletionStep(m) PROVE OneAdder'
  <2>1. CASE MarkTerminating(m)
    BY <1>1, <2>1, StageNames DEF MarkTerminating
  <2>2. CASE RemoveFinalizer(m)
    <3>1. Conflict(m) \in BOOLEAN
      BY DEF Conflict
    <3> QED BY <1>1, <2>2, <3>1 DEF RemoveFinalizer
  <2>3. CASE DeleteExternalPanics(m)
    BY <1>3, <2>3 DEF DeleteExternalPanics
  <2>4. CASE Delete(m) \/ Cordon(m) \/ Evict(m) \/ DeleteExternal(m) \/ DeleteNode(m)
    <3>1. /\ pc[m] # "addWatch" /\ UNCHANGED watch
          /\ \E s \in Stages \ {"addWatch"} : At(m, s)
      BY <2>4, StageNames DEF Delete, Cordon, Evict, DeleteExternal, DeleteNode
    <3> QED BY <1>1, <3>1
  <2> QED BY <1>6, <2>1, <2>2, <2>3, <2>4 DEF DeletionStep
<1>7. ASSUME NEW m \in Machine, ApiError(m) PROVE OneAdder'
  <2>1. /\ pc[m] # "addWatch" /\ UNCHANGED watch
        /\ (\E s \in Stages \ {"addWatch"} : At(m, s)) \/ Return(m, TRUE)
    BY <1>7, StageNames DEF ApiError
  <2> QED BY <1>1, <2>1
<1>8. ASSUME NEW m \in Machine, Deliver(m) \/ Resync(m) \/ DeleteMachine(m)
      PROVE  OneAdder'
  BY <1>2, <1>8 DEF Deliver, Resync, DeleteMachine, EnvUnchanged
<1>9. ASSUME NEW i \in Infra, SyncNode(i) \/ ProviderStep(i) \/ NodeStep(i)
      PROVE  OneAdder'
  BY <1>2, <1>9 DEF SyncNode, ProviderStep, ApplyInfra, ProviderProgress, ProviderRegress,
     ProviderFails, DeleteInfra, CollectInfra, FinishInfra, InfraBecomes, NodeStep,
     RegisterNode, RemoveNode, NodeBecomes, EnvUnchanged
<1>10. CASE Crash
  BY <1>3, <1>10 DEF Crash
<1>11. CASE Restart \/ UNCHANGED vars
  BY <1>2, <1>11 DEF Restart, vars
<1> QED
  BY <1>4, <1>5, <1>6, <1>7, <1>8, <1>9, <1>10, <1>11 DEF Next, HandlerStep

\* Every copy of a Machine agrees with it, a deletion once seen is final, and
\* nothing is given up before the teardown of its infrastructure has begun.
THEOREM ControllerInvariant == Spec => []ControllerInv
<1>1. Init => ControllerInv
  <2> SUFFICES ASSUME Init, NEW n \in Machine PROVE Local(n)
    BY ControllerInvIsLocal, OneAdderInit
  <2>1. pc[n] = "idle" /\ base[n] = Applied(n) /\ obj[n] = Applied(n) /\ cached = machine
    BY DEF Init
  <2>2. IsOf(n, Up(n)) \/ n \notin Established
    BY ConstantsAssumption DEF IsOf, Up, ID
  <2>3. IsOf(n, machine[n])
    BY <2>2, AppliedIsOf DEF Init
  <2> QED BY <2>1, <2>3, AppliedIsOf DEF Local, Lasting, BeingDeleted, DeletionStages
<1>2. TypeOK /\ ControllerInv /\ [Next]_vars => ControllerInv'
  <2> SUFFICES ASSUME TypeOK, ControllerInv, [Next]_vars PROVE ControllerInv'
    OBVIOUS
  <2>1. ASSUME NEW n \in Machine PROVE Local(n)'
    BY LocalStep, ControllerInvIsLocal DEF TypeOK
  <2>2. OneAdder'
    BY OneAdderStep, ControllerInvIsLocal DEF TypeOK
  <2> QED
    BY <2>1, <2>2 DEF ControllerInv, CopiesAgree, DeletionIsFinal, WorkingCopies,
                      TeardownFirst, Local, Lasting
<1> QED BY <1>1, <1>2, TypeCorrect, PTL DEF Spec

--------------------------------------------------------------------------------
(* Who writes Machines and Nodes. *)

LEMMA MachineWriters ==
  ASSUME Typed, [Next]_vars, NEW n \in Machine, machine'[n] # machine[n]
  PROVE  \/ PatchMachine(n) \/ PatchStatus(n) \/ MarkTerminating(n)
         \/ RemoveFinalizer(n) \/ DeleteMachine(n)
<1> USE DEF apiVars, cacheVars, handlerVars, boundVars
<1>1. ASSUME NEW m \in Machine,
             StartOfReconcile(m) \/ InfraNotFound(m) \/ InfraAlreadyOwned(m) \/ GetInfra(m)
             \/ AdoptFails(m) \/ PatchInfra(m) \/ KindSeen(m) \/ FirstOfKind(m)
             \/ WatchAdded(m) \/ WatchFails(m) \/ NodeRef(m) \/ Delete(m)
             \/ Cordon(m) \/ Evict(m) \/ DeleteExternal(m) \/ DeleteExternalPanics(m)
             \/ DeleteNode(m) \/ ApiError(m) \/ Deliver(m) \/ Resync(m)
      PROVE  UNCHANGED machine
  BY <1>1 DEF StartOfReconcile, ReconcileGone, ReconcileNormal, ReconcileDeleting,
     InfraNotFound, InfraAlreadyOwned, GetInfra, AdoptFails, PatchInfra, KindSeen,
     FirstOfKind, WatchAdded, TakesOver, WatchFails, NodeRef,
     Delete, Cordon, Evict, DeleteExternal, DeleteExternalPanics, DeleteNode, ApiError,
     Deliver, Resync
<1>2. ASSUME NEW i \in Infra, SyncNode(i) \/ ProviderStep(i) \/ NodeStep(i)
      PROVE  UNCHANGED machine
  BY <1>2 DEF SyncNode, ProviderStep, ApplyInfra, ProviderProgress, ProviderRegress,
     ProviderFails, DeleteInfra, CollectInfra, FinishInfra, InfraBecomes, NodeStep,
     RegisterNode, RemoveNode, NodeBecomes, EnvUnchanged
<1>3. Crash \/ Restart \/ UNCHANGED vars => UNCHANGED machine
  BY DEF Crash, Restart, vars
<1>4. ASSUME NEW m \in Machine, m # n,
             PatchMachine(m) \/ PatchStatus(m) \/ MarkTerminating(m)
             \/ RemoveFinalizer(m) \/ DeleteMachine(m)
      PROVE  machine'[n] = machine[n]
  BY <1>4 DEF PatchMachine, PatchStatus, MarkTerminating, RemoveFinalizer, DeleteMachine, Typed
<1> QED BY <1>1, <1>2, <1>3, <1>4 DEF Next, HandlerStep, NormalStep, DeletionStep

\* The only steps that write Nodes.
LEMMA NodeWriters ==
  ASSUME Typed, [Next]_vars, NEW i \in Infra, node'[i] # node[i]
  PROVE  \/ RegisterNode(i) \/ RemoveNode(i)
         \/ \E m \in Machine : (Cordon(m) \/ Evict(m) \/ DeleteNode(m)) /\ obj[m].nodeRef = i
<1> USE DEF apiVars, cacheVars, handlerVars, boundVars
<1>1. ASSUME NEW m \in Machine,
             StartOfReconcile(m) \/ NormalStep(m) \/ MarkTerminating(m) \/ Delete(m)
             \/ DeleteExternal(m) \/ DeleteExternalPanics(m) \/ RemoveFinalizer(m)
             \/ ApiError(m) \/ Deliver(m) \/ Resync(m) \/ DeleteMachine(m)
      PROVE  UNCHANGED node
  BY <1>1 DEF StartOfReconcile, ReconcileGone, ReconcileNormal, ReconcileDeleting, NormalStep,
     InfraNotFound, InfraAlreadyOwned, GetInfra, AdoptFails, PatchInfra, KindSeen,
     FirstOfKind, WatchAdded, TakesOver, WatchFails, NodeRef,
     PatchMachine, PatchStatus, MarkTerminating, Delete, DeleteExternal,
     DeleteExternalPanics, RemoveFinalizer, ApiError, Deliver, Resync, DeleteMachine
<1>2. ASSUME NEW j \in Infra, SyncNode(j) \/ ProviderStep(j)
      PROVE  UNCHANGED node
  BY <1>2 DEF SyncNode, ProviderStep, ApplyInfra, ProviderProgress, ProviderRegress,
     ProviderFails, DeleteInfra, CollectInfra, FinishInfra, InfraBecomes, EnvUnchanged
<1>3. Crash \/ Restart \/ UNCHANGED vars => UNCHANGED node
  BY DEF Crash, Restart, vars
<1>4. ASSUME NEW j \in Infra, NodeStep(j) PROVE j = i
  BY <1>4 DEF NodeStep, RegisterNode, RemoveNode, NodeBecomes, Typed
<1>5. ASSUME NEW m \in Machine, Cordon(m) \/ Evict(m) \/ DeleteNode(m)
      PROVE  obj[m].nodeRef = i
  BY <1>5 DEF Cordon, Evict, DeleteNode, Typed
<1> QED BY <1>1, <1>2, <1>3, <1>4, <1>5 DEF Next, HandlerStep, DeletionStep, NodeStep

--------------------------------------------------------------------------------
(* The action properties. *)

\* A known NodeRef is never cleared nor changed, whatever copy was patched.
THEOREM NodeRefIsStable == Spec => NodeRefStable
<1>1. ASSUME Typed, ControllerInv, [Next]_vars, NEW n \in Machine,
             machine[n].live, machine'[n].live, machine[n].nodeRef # None
      PROVE  machine'[n].nodeRef = machine[n].nodeRef
  <2>1. Local(n)
    BY <1>1, ControllerInvIsLocal
  <2>2. machine \in [Machine -> MachineObject] /\ machine[n] \in MachineObject
    BY <1>1 DEF Typed
  <2>3. CASE PatchMachine(n)
    BY <2>2, <2>3 DEF PatchMachine, MachineObject
  <2>4. CASE PatchStatus(n)
    <3>1. machine'[n].nodeRef \in {machine[n].nodeRef, Merged(machine[n].nodeRef, base[n].nodeRef, obj[n].nodeRef)}
      BY <2>2, <2>4 DEF PatchStatus, MachineObject
    <3> QED BY <1>1, <2>1, <3>1 DEF Merged, Local, IsOf
  <2>5. CASE MarkTerminating(n)
    <3>1. machine'[n] = machine[n] \/ (machine'[n] = obj[n] /\ machine[n] = base[n])
      BY <2>2, <2>5 DEF MarkTerminating, Conflict, Typed
    <3> QED BY <1>1, <2>1, <3>1 DEF Local
  <2>6. CASE RemoveFinalizer(n)
    BY <1>1, <2>2, <2>6, AppliedIsOf DEF RemoveFinalizer
  <2>7. CASE DeleteMachine(n)
    BY <1>1, <2>2, <2>7, AppliedIsOf DEF DeleteMachine, MachineObject
  <2>8. CASE machine'[n] = machine[n]
    BY <2>8
  <2> QED BY <1>1, <2>3, <2>4, <2>5, <2>6, <2>7, <2>8, MachineWriters
<1>2. TypeOK /\ ControllerInv /\ [Next]_vars
      => [\A m \in Machine :
            machine[m].live /\ machine'[m].live /\ machine[m].nodeRef # None
              => machine'[m].nodeRef = machine[m].nodeRef]_vars
  BY <1>1 DEF TypeOK
<1> QED BY <1>2, TypeCorrect, ControllerInvariant, PTL DEF Spec, NodeRefStable

\* A Machine with a Node goes only after its infrastructure was told to go.
THEOREM TeardownBeforeRelease == Spec => ReleaseAfterTeardown
<1>1. ASSUME Typed, ControllerInv, [Next]_vars, NEW n \in Machine,
             machine[n].live, machine[n].finalizer, machine[n].nodeRef # None,
             ~machine'[n].live
      PROVE  Torn(n)
  <2>1. Local(n)
    BY <1>1, ControllerInvIsLocal
  <2>2. machine \in [Machine -> MachineObject] /\ machine[n] \in MachineObject
    BY <1>1 DEF Typed
  <2>3. CASE PatchMachine(n) \/ PatchStatus(n)
    <3>1. CASE PatchMachine(n)
      BY <1>1, <2>2, <3>1 DEF PatchMachine, MachineObject
    <3>2. CASE PatchStatus(n)
      <4>1. machine'[n].live = machine[n].live
        BY <2>2, <3>2 DEF PatchStatus, MachineObject
      <4> QED BY <1>1, <4>1
    <3> QED BY <2>3, <3>1, <3>2
  <2>4. CASE MarkTerminating(n)
    <3>1. machine'[n] = machine[n] \/ machine'[n] = obj[n]
      BY <2>2, <2>4 DEF MarkTerminating, Typed
    <3>2. obj[n].live
      <4>1. base[n] \in MachineObject
        BY <1>1 DEF Typed
      <4> QED BY <2>1, <2>4, <4>1
          DEF MarkTerminating, Local, BeingDeleted, DeletionStages, MachineObject
    <3> QED BY <1>1, <3>1, <3>2
  <2>5. CASE RemoveFinalizer(n)
    <3>1. machine[n] = base[n] /\ pc[n] = "removeFinalizer"
      BY <1>1, <2>5 DEF RemoveFinalizer, Conflict
    <3> QED BY <1>1, <2>1, <3>1 DEF Local
  <2>6. CASE DeleteMachine(n)
    BY <1>1, <2>2, <2>6 DEF DeleteMachine, MachineObject
  <2> QED BY <1>1, <2>3, <2>4, <2>5, <2>6, MachineWriters
<1>2. TypeOK /\ ControllerInv /\ [Next]_vars
      => [\A m \in Machine :
            /\ machine[m].live /\ machine[m].finalizer /\ machine[m].nodeRef # None
            /\ ~machine'[m].live
            => Torn(m)]_vars
  BY <1>1 DEF TypeOK
<1> QED BY <1>2, TypeCorrect, ControllerInvariant, PTL DEF Spec, ReleaseAfterTeardown

\* The controller deletes a Node only once its infrastructure was told to go.
THEOREM TeardownBeforeNode == Spec => InfraBeforeNode
<1>1. ASSUME Typed, ControllerInv, [Next]_vars, NEW i \in Infra,
             node[i] # "none", node'[i] = "none", disruptions' = disruptions
      PROVE  infra[i].st \in {"deleting", "gone"}
  <2>1. node \in [Infra -> {"none", "active", "cordoned", "drained"}]
    BY <1>1 DEF Typed
  <2>2. ~RegisterNode(i)
    BY <1>1 DEF RegisterNode
  <2>3. ~RemoveNode(i)
    BY <1>1 DEF RemoveNode, Disrupts, Typed
  <2>4. PICK m \in Machine : (Cordon(m) \/ Evict(m) \/ DeleteNode(m)) /\ obj[m].nodeRef = i
    BY <1>1, <2>2, <2>3, NodeWriters
  <2>5. ~Cordon(m) /\ ~Evict(m)
    BY <1>1, <2>1, <2>4 DEF Cordon, Evict
  <2>6. pc[m] = "deleteNode" /\ Local(m)
    BY <1>1, <2>4, <2>5, ControllerInvIsLocal DEF DeleteNode
  <2>7. Torn(m) /\ obj[m].nodeRef \in {None, ID(m)}
    BY <2>6 DEF Local, IsOf
  <2> QED BY <2>4, <2>7, ConstantsAssumption DEF Torn, ID
<1>2. TypeOK /\ ControllerInv /\ [Next]_vars
      => [\A i \in Infra :
            node[i] # "none" /\ node'[i] = "none" /\ disruptions' = disruptions
              => infra[i].st \in {"deleting", "gone"}]_vars
  BY <1>1 DEF TypeOK
<1> QED BY <1>2, TypeCorrect, ControllerInvariant, PTL DEF Spec, InfraBeforeNode

--------------------------------------------------------------------------------
(* The Node of the only control plane Machine.                             *)

\* Machines do not come back to life, so the cache has every Machine there is;
\* and the reconcile that deletes the only control plane Machine, as long as
\* the Machine exists, is not on the way to its Node.
SoleInv ==
  \A m \in Machine :
    machine[m].live =>
      /\ cached[m].live
      /\ ControlPlane = {m} =>
           /\ pc[m] \notin {"drain", "evict", "deleteNode"}
           /\ pc[m] = "deleteExternal" => ~allowed[m]

\* Nothing has been allowed in the initial state.
LEMMA SoleInvInit == Init => SoleInv
BY DEF Init, SoleInv

\* A name is not used again: what is gone stays gone.
LEMMA LiveStays ==
  ASSUME Typed, ControllerInv, [Next]_vars, NEW n \in Machine, machine'[n].live
  PROVE  machine[n].live
<1>1. Local(n) /\ machine \in [Machine -> MachineObject] /\ machine[n] \in MachineObject
      /\ base[n] \in MachineObject
  BY ControllerInvIsLocal DEF Typed
<1>2. CASE PatchMachine(n) \/ PatchStatus(n)
  BY <1>1, <1>2 DEF PatchMachine, PatchStatus, MachineObject
<1>3. CASE MarkTerminating(n)
  <2>1. CASE Conflict(n)
    BY <1>1, <1>3, <2>1 DEF MarkTerminating
  <2>2. CASE ~Conflict(n)
    BY <1>1, <1>3, <2>2 DEF MarkTerminating, Conflict, Local, BeingDeleted, DeletionStages
  <2> QED BY <2>1, <2>2
<1>4. CASE RemoveFinalizer(n)
  BY <1>1, <1>4, AppliedIsOf DEF RemoveFinalizer
<1>5. CASE DeleteMachine(n)
  BY <1>5 DEF DeleteMachine
<1> QED BY <1>2, <1>3, <1>4, <1>5, MachineWriters

\* The caches only copy: a Machine that lives was alive when it was copied.
LEMMA CachedStays ==
  ASSUME Typed, [Next]_vars, NEW n \in Machine
  PROVE  cached'[n] \in {cached[n], machine[n]}
<1> USE DEF apiVars, cacheVars, handlerVars, boundVars
<1>1. ASSUME NEW m \in Machine, StartOfReconcile(m) \/ HandlerStep(m) \/ ApiError(m)
      PROVE  UNCHANGED cached
  BY <1>1 DEF StartOfReconcile, ReconcileGone, ReconcileNormal, ReconcileDeleting,
     HandlerStep, NormalStep, InfraNotFound, InfraAlreadyOwned, GetInfra, AdoptFails,
     PatchInfra, KindSeen, FirstOfKind, WatchAdded, TakesOver, WatchFails, NodeRef,
     PatchMachine, PatchStatus, DeletionStep,
     MarkTerminating, Delete, Cordon, Evict, DeleteExternal, DeleteExternalPanics,
     DeleteNode, RemoveFinalizer, ApiError
<1>2. ASSUME NEW m \in Machine, Deliver(m) \/ Resync(m) \/ DeleteMachine(m)
      PROVE  cached'[n] \in {cached[n], machine[n]}
  BY <1>2 DEF Deliver, Resync, DeleteMachine, EnvUnchanged, Typed
<1>3. ASSUME NEW i \in Infra, SyncNode(i) \/ ProviderStep(i) \/ NodeStep(i)
      PROVE  UNCHANGED cached
  BY <1>3 DEF SyncNode, ProviderStep, ApplyInfra, ProviderProgress, ProviderRegress,
     ProviderFails, DeleteInfra, CollectInfra, FinishInfra, InfraBecomes, NodeStep,
     RegisterNode, RemoveNode, NodeBecomes, EnvUnchanged
<1>4. CASE Crash \/ Restart \/ UNCHANGED vars
  BY <1>4 DEF Crash, Restart, vars
<1> QED BY <1>1, <1>2, <1>3, <1>4 DEF Next

\* Which steps lead towards the Node of n.
LEMMA NodeStages ==
  ASSUME Typed, [Next]_vars, NEW n \in Machine
  PROVE  \/ pc'[n] \notin {"drain", "evict", "deleteExternal", "deleteNode"}
         \/ pc'[n] = pc[n] /\ allowed'[n] = allowed[n]
         \/ Delete(n)
         \/ pc[n] \in {"drain", "evict"} /\ (Cordon(n) \/ Evict(n))
         \/ pc[n] = "deleteExternal" /\ pc'[n] = "deleteNode" /\ allowed[n]
<1> USE DEF apiVars, cacheVars, handlerVars, boundVars
<1>1. CASE StartOfReconcile(n)
  BY <1>1 DEF StartOfReconcile, ReconcileGone, ReconcileNormal, ReconcileDeleting, Typed
<1>2. CASE NormalStep(n)
  BY <1>2 DEF NormalStep, InfraNotFound, InfraAlreadyOwned, GetInfra, AdoptFails,
     PatchInfra, KindSeen, FirstOfKind, WatchAdded, TakesOver, WatchFails, NodeRef,
     PatchMachine, PatchStatus, At, Return, Typed
<1>3. CASE DeletionStep(n)
  BY <1>3 DEF DeletionStep, MarkTerminating, Cordon, Evict, DeleteExternal,
     DeleteExternalPanics, DeleteNode, RemoveFinalizer, At, Return, Stops, Typed
<1>4. CASE ApiError(n)
  BY <1>4 DEF ApiError, At, Return, Typed
<1>5. ASSUME NEW m \in Machine, m # n, StartOfReconcile(m) \/ NormalStep(m) \/ ApiError(m)
      PROVE  pc'[n] = pc[n] /\ allowed'[n] = allowed[n]
  BY <1>5 DEF StartOfReconcile, ReconcileGone, ReconcileNormal, ReconcileDeleting,
     NormalStep, InfraNotFound, InfraAlreadyOwned, GetInfra, AdoptFails, PatchInfra,
     KindSeen, FirstOfKind, WatchAdded, TakesOver, WatchFails, NodeRef, PatchMachine,
     PatchStatus, ApiError, At, Return, Typed
<1>6. ASSUME NEW m \in Machine, m # n, DeletionStep(m)
      PROVE  pc'[n] = "idle" \/ (pc'[n] = pc[n] /\ allowed'[n] = allowed[n])
  BY <1>6 DEF DeletionStep, MarkTerminating, Delete, Cordon, Evict, DeleteExternal,
     DeleteExternalPanics, DeleteNode, RemoveFinalizer, At, Return, Stops, Typed
<1>7. ASSUME NEW m \in Machine, Deliver(m) \/ Resync(m) \/ DeleteMachine(m)
      PROVE  UNCHANGED <<pc, allowed>>
  BY <1>7 DEF Deliver, Resync, DeleteMachine, EnvUnchanged
<1>8. ASSUME NEW i \in Infra, SyncNode(i) \/ ProviderStep(i) \/ NodeStep(i)
      PROVE  UNCHANGED <<pc, allowed>>
  BY <1>8 DEF SyncNode, ProviderStep, ApplyInfra, ProviderProgress, ProviderRegress,
     ProviderFails, DeleteInfra, CollectInfra, FinishInfra, InfraBecomes, NodeStep,
     RegisterNode, RemoveNode, NodeBecomes, EnvUnchanged
<1>9. CASE Crash
  BY <1>9 DEF Crash, Stops
<1>10. CASE Restart \/ UNCHANGED vars
  BY <1>10 DEF Restart, vars
<1> QED
  BY <1>1, <1>2, <1>3, <1>4, <1>5, <1>6, <1>7, <1>8, <1>9, <1>10 DEF Next, HandlerStep

\* SoleInv is preserved by every step.
LEMMA SoleInvStep ==
  ASSUME Typed, ControllerInv, SoleInv, [Next]_vars
  PROVE  SoleInv'
<1> SUFFICES ASSUME NEW n \in Machine, machine'[n].live
             PROVE  /\ cached'[n].live
                    /\ ControlPlane = {n} =>
                         /\ pc'[n] \notin {"drain", "evict", "deleteNode"}
                         /\ pc'[n] = "deleteExternal" => ~allowed'[n]
  BY DEF SoleInv
<1>1. machine[n].live /\ cached[n].live
  BY LiveStays DEF SoleInv
<1>2. cached'[n].live
  BY <1>1, CachedStays
<1>3. ASSUME ControlPlane = {n}
      PROVE  /\ pc'[n] \notin {"drain", "evict", "deleteNode"}
             /\ pc'[n] = "deleteExternal" => ~allowed'[n]
  <2>1. /\ pc[n] \notin {"drain", "evict", "deleteNode"}
        /\ pc[n] = "deleteExternal" => ~allowed[n]
    BY <1>1, <1>3 DEF SoleInv
  <2>2. CASE Delete(n)
    <3>1. {m \in ControlPlane : cached[m].live} = {n}
      BY <1>1, <1>3
    <3>2. ~IsDeleteNodeAllowed(n)
      BY <1>3, <3>1, FS_Singleton DEF IsDeleteNodeAllowed
    <3> QED BY <2>2, <3>2 DEF Delete, At, Typed
  <2> QED BY <2>1, <2>2, NodeStages
<1> QED BY <1>2, <1>3

\* The only control plane Machine keeps its Node as long as it exists.
THEOREM SoleControlPlaneNodeKept == Spec => SoleControlPlaneKept
<1>1. ASSUME Typed, ControllerInv, SoleInv, [Next]_vars, NEW n \in Machine,
             ControlPlane = {n}, machine[n].live
      PROVE  NodeKept(n)
  <2> SUFFICES ASSUME ID(n) # None, \A m \in Machine \ {n} : ID(m) # ID(n),
                      node[ID(n)] # "none", disruptions' = disruptions,
                      node'[ID(n)] # node[ID(n)]
               PROVE  FALSE
    BY DEF NodeKept
  <2>1. ID(n) \in Infra
    BY ConstantsAssumption DEF ID
  <2>2. ~RegisterNode(ID(n))
    BY DEF RegisterNode
  <2>3. ~RemoveNode(ID(n))
    BY <1>1 DEF RemoveNode, Disrupts, Typed
  <2>4. PICK m \in Machine : /\ Cordon(m) \/ Evict(m) \/ DeleteNode(m)
                             /\ obj[m].nodeRef = ID(n)
    BY <1>1, <2>1, <2>2, <2>3, NodeWriters
  <2>5. obj[m].nodeRef \in {None, ID(m)}
    BY <1>1, ControllerInvIsLocal DEF Local, IsOf
  <2>6. m = n
    BY <2>4, <2>5
  <2>7. pc[n] \in {"drain", "evict", "deleteNode"}
    BY <2>4, <2>6 DEF Cordon, Evict, DeleteNode
  <2> QED BY <1>1, <2>7 DEF SoleInv
<1>2. TypeOK /\ ControllerInv /\ SoleInv /\ [Next]_vars => SoleInv'
  BY SoleInvStep DEF TypeOK
<1>3. TypeOK /\ ControllerInv /\ SoleInv /\ [Next]_vars
      => [\A m \in Machine : ControlPlane = {m} /\ machine[m].live => NodeKept(m)]_vars
  BY <1>1 DEF TypeOK
<1> QED
  BY <1>2, <1>3, SoleInvInit, TypeCorrect, ControllerInvariant, PTL
  DEF Spec, SoleControlPlaneKept

================================================================================
