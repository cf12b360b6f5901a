------------------------- MODULE MachineSettledProofs -------------------------
(***************************************************************************)
(* That the Machine controller loses no wake-up, for any number of         *)
(* Machines, workers, faults and disruptions: what is left of its liveness *)
(* when the fairness of the scheduler is taken away.                       *)
(***************************************************************************)
EXTENDS MachineEffectsProofs

\* A provider ID that the user gave is in every copy.
IDKept(m) ==
  GivenID[m] # None =>
    \A o \in {machine[m], cached[m], base[m], obj[m]} : o.providerID = GivenID[m]

\* What the normal loop works on: the copy in the cache, unless the key is queued
\* again; in memory it adds a finalizer and at most a provider ID.
NormalCopies(m) ==
  pc[m] \in NormalStages =>
    /\ base[m].live /\ ~base[m].deleting
    /\ obj[m].live /\ ~obj[m].deleting /\ obj[m].finalizer
    /\ m \notin queue => cached[m] = base[m]

\* After the first patch either it shows, or the Machine is gone, or the reconcile
\* will come back.
SpecSent(m) ==
  pc[m] = "patchStatus" /\ SpecDiffers(m) =>
    \/ again[m] \/ ~machine[m].live
    \/ machine[m].finalizer /\ ~base[m].finalizer
    \/ machine[m].providerID # base[m].providerID

\* What reconcileNodeRef and reconcilePhase leave in memory.
Phased(o) ==
  /\ o.failed => o.phase = "Failed"
  /\ o.nodeRef # None /\ ~o.failed => o.phase = "Running"

InMemory(m) ==
  pc[m] \in {"patch", "patchStatus"} =>
    /\ Phased(obj[m])
    /\ again[m] \/ obj[m].providerID = None \/ obj[m].nodeRef # None

Owned(m) ==
  InfraRef[m] # None /\ infra[InfraRef[m]].st = "present" /\ infra[InfraRef[m]].owner = m

Matches(m, o) ==
  /\ o.infraReady = (infra[InfraRef[m]].status # "pending")
  /\ infra[InfraRef[m]].status = "ready" => o.providerID = InfraRef[m]

\* What a reconcile holds of the infrastructure that its Machine owns, or took over
\* from it, is what the infrastructure is, unless the key is queued again.
HoldsPresent(m) ==
  /\ pc[m] \in {"patchInfra", "watchInfra", "addWatch"} /\ got[m].st = "deleting" => Torn(m)
  /\ Owned(m) /\ watch = "watching" /\ m \notin queue =>
       /\ (pc[m] = "patchInfra" /\ got[m].owner = m) \/ pc[m] = "watchInfra"
            => got[m].status = infra[InfraRef[m]].status
       /\ pc[m] \in {"nodeRef", "patch", "patchStatus"} => again[m] \/ Matches(m, obj[m])

\* The reconcile of a Machine with infrastructure finds the kind in the tracker or adds
\* the watch, or comes back.
WatchAsked(m) ==
  InfraRef[m] # None /\ pc[m] \in {"nodeRef", "patch", "patchStatus"}
    => again[m] \/ watch # "none"

\* What the controller sleeps on.
AtRest(m) ==
  /\ ~machine[m].deleting /\ machine[m].finalizer
  /\ Phased(machine[m])
  /\ machine[m].providerID = None \/ machine[m].nodeRef # None
  /\ InfraRef[m] # None => watch # "none"
  /\ Owned(m) /\ watch = "watching" => Matches(m, machine[m])

Sleeping(m) == Asleep(m) /\ machine[m].live

WakeParts(m) ==
  /\ IDKept(m) /\ NormalCopies(m) /\ SpecSent(m) /\ InMemory(m)
  /\ HoldsPresent(m) /\ WatchAsked(m)
  /\ Sleeping(m) => AtRest(m)

\* A process that ended holds nothing.
DownIsEmpty ==
  manager # "running" => queue = {} /\ watch = "none" /\ \A m \in Machine : pc[m] = "idle"

WakeInv == DownIsEmpty /\ \A m \in Machine : WakeParts(m)

--------------------------------------------------------------------------------
(* What the steps do to a Machine that is not theirs.                        *)

\* A step of the provider of i is an event of i, and nothing else.
LEMMA ProviderNotifies ==
  ASSUME NEW i \in Infra, ProviderStep(i)
  PROVE  Notify({infra[i].owner}) /\ UNCHANGED machine /\ EnvUnchanged
BY DEF ProviderStep, ApplyInfra, ProviderProgress, ProviderRegress, ProviderFails,
       DeleteInfra, CollectInfra, FinishInfra, InfraBecomes, EnvUnchanged

\* All that the reconcile of m, or its informer and its user, leave of n as it was.
Spared(n) ==
  /\ UNCHANGED <<machine[n], cached[n], pc[n], base[n], obj[n], got[n], again[n], manager>>
  /\ n \in queue => n \in queue'
  /\ watch' = watch \/ watch' # "none"

\* Only a reconcile of n, its informer, its user or the life of the manager touch it.
LEMMA OthersSpare ==
  ASSUME Typed, [Next]_vars, NEW n \in Machine
  PROVE  \/ Spared(n)
         \/ StartOfReconcile(n) \/ NormalStep(n) \/ ApiError(n)
         \/ (DeletionStep(n) /\ UNCHANGED manager)
         \/ Deliver(n) \/ DeleteMachine(n) \/ Restart
         \/ (Stops /\ manager' # "running" /\ UNCHANGED <<machine, cached>>)
<1> USE DEF apiVars, cacheVars, handlerVars, boundVars, Typed
<1>1. ASSUME NEW m \in Machine, m # n, StartOfReconcile(m) PROVE Spared(n)
  BY <1>1 DEF StartOfReconcile, ReconcileGone, ReconcileNormal, ReconcileDeleting, Take, Spared
<1>2. ASSUME NEW m \in Machine, m # n,
             InfraNotFound(m) \/ InfraAlreadyOwned(m) \/ GetInfra(m) \/ AdoptFails(m)
             \/ KindSeen(m) \/ FirstOfKind(m) \/ WatchAdded(m) \/ WatchFails(m) \/ NodeRef(m)
      PROVE  Spared(n)
  BY <1>2 DEF InfraNotFound, InfraAlreadyOwned, GetInfra, AdoptFails, KindSeen, FirstOfKind,
     WatchAdded, TakesOver, WatchFails, NodeRef, Fails, At, Spared
<1>3. ASSUME NEW m \in Machine, m # n, PatchInfra(m) PROVE Spared(n)
  BY <1>3 DEF PatchInfra, Notify, At, Spared
<1>4. ASSUME NEW m \in Machine, m # n,
             PatchMachine(m) \/ PatchStatus(m) \/ MarkTerminating(m) \/ RemoveFinalizer(m)
      PROVE  Spared(n)
  BY <1>4 DEF PatchMachine, PatchStatus, MarkTerminating, RemoveFinalizer, Return, At, Spared
<1>5. ASSUME NEW m \in Machine, m # n,
             Delete(m) \/ Cordon(m) \/ Evict(m) \/ DeleteExternal(m) \/ DeleteNode(m)
      PROVE  Spared(n)
  BY <1>5 DEF Delete, Cordon, Evict, DeleteExternal, DeleteNode, Notify, At, Spared
<1>6. ASSUME NEW m \in Machine, m # n, ApiError(m) PROVE Spared(n)
  BY <1>6 DEF ApiError, Fails, At, Return, Spared
<1>7. ASSUME NEW m \in Machine, DeleteExternalPanics(m)
      PROVE  Stops /\ manager' # "running" /\ UNCHANGED <<machine, cached>>
  BY <1>7 DEF DeleteExternalPanics
<1>8. ASSUME NEW m \in Machine, m # n, Deliver(m) \/ DeleteMachine(m) PROVE Spared(n)
  BY <1>8 DEF Deliver, DeleteMachine, EnvUnchanged, Spared
<1>9. ASSUME NEW m \in Machine, Resync(m) PROVE Spared(n)
  BY <1>9 DEF Resync, Spared
<1>10. ASSUME NEW i \in Infra, SyncNode(i) \/ NodeStep(i) PROVE Spared(n)
  BY <1>10 DEF SyncNode, NodeStep, RegisterNode, RemoveNode, NodeBecomes, EnvUnchanged, Spared
<1>11. ASSUME NEW i \in Infra, ProviderStep(i) PROVE Spared(n)
  BY <1>11, ProviderNotifies DEF EnvUnchanged, Notify, Spared
<1>12. CASE Crash
  BY <1>12 DEF Crash
<1>13. CASE UNCHANGED vars
  BY <1>13 DEF vars, Spared
<1>14. ASSUME DeletionStep(n), ~DeleteExternalPanics(n) PROVE manager' = manager
  BY <1>14 DEF DeletionStep, MarkTerminating, Delete, Cordon, Evict, DeleteExternal, DeleteNode,
     RemoveFinalizer
<1> QED
  BY <1>1, <1>2, <1>3, <1>4, <1>5, <1>6, <1>7, <1>8, <1>9, <1>10, <1>11, <1>12, <1>13, <1>14
  DEF Next, HandlerStep, NormalStep, DeletionStep

\* The informer on the kind, once it has started, has notified the owner of every
\* object that is there.
LEMMA WatchStarts ==
  ASSUME Typed, [Next]_vars, watch # "watching", watch' = "watching",
         NEW i \in Infra, ~Missing(i), infra[i].owner # None
  PROVE  infra[i].owner \in queue'
<1> USE DEF apiVars, cacheVars, handlerVars, boundVars
<1>1. PICK m \in Machine : WatchAdded(m)
  <2>1. ASSUME NEW m \in Machine,
               StartOfReconcile(m) \/ InfraNotFound(m) \/ InfraAlreadyOwned(m) \/ GetInfra(m)
               \/ AdoptFails(m) \/ PatchInfra(m) \/ KindSeen(m) \/ NodeRef(m)
               \/ PatchMachine(m) \/ PatchStatus(m) \/ MarkTerminating(m) \/ Delete(m) \/ Cordon(m) \/ Evict(m) \/ DeleteExternal(m)
               \/ DeleteNode(m) \/ RemoveFinalizer(m)
               \/ ApiError(m) \/ Deliver(m) \/ Resync(m) \/ DeleteMachine(m)
        PROVE  UNCHANGED watch
    BY <2>1 DEF StartOfReconcile, ReconcileGone, ReconcileNormal, ReconcileDeleting,
       InfraNotFound, InfraAlreadyOwned, GetInfra, AdoptFails, PatchInfra, KindSeen, NodeRef,
       PatchMachine, PatchStatus, MarkTerminating, Delete, Cordon, Evict, DeleteExternal, DeleteNode,
       RemoveFinalizer, ApiError, Deliver, Resync, DeleteMachine, EnvUnchanged
  <2>2. ASSUME NEW m \in Machine, FirstOfKind(m) \/ WatchFails(m) \/ DeleteExternalPanics(m)
        PROVE  watch' # "watching"
    BY <2>2 DEF FirstOfKind, WatchFails, DeleteExternalPanics, Stops
  <2>3. ASSUME NEW j \in Infra, SyncNode(j) \/ NodeStep(j) \/ ProviderStep(j)
        PROVE  UNCHANGED watch
    BY <2>3, ProviderNotifies
    DEF SyncNode, NodeStep, RegisterNode, RemoveNode, NodeBecomes, EnvUnchanged
  <2>4. Crash \/ Restart \/ UNCHANGED vars => watch' # "watching" \/ watch' = watch
    BY DEF Crash, Stops, Restart, vars
  <2> QED BY <2>1, <2>2, <2>3, <2>4 DEF Next, HandlerStep, NormalStep, DeletionStep
<1> QED BY <1>1 DEF WatchAdded

\* The infrastructure that a Machine owns after a step of others it owned before;
\* and it is what it was, unless an event queued the key.
LEMMA OwnedStep ==
  ASSUME Typed, [Next]_vars, NEW n \in Machine, ~PatchInfra(n), Owned(n)'
  PROVE  /\ Owned(n)
         /\ watch' = "watching" /\ n \notin queue'
              => watch = "watching" /\ infra'[InfraRef[n]] = infra[InfraRef[n]]
<1> DEFINE i == InfraRef[n]
<1>1. i \in Infra /\ n # None /\ infra'[i].st = "present" /\ infra'[i].owner = n
  BY InfraRefType, ConstantsAssumption DEF Owned
<1>2. infra'[i] = infra[i] \/ (Owned(n) /\ (watch' = "watching" => n \in queue'))
  <2>1. ASSUME ProviderStep(i) PROVE Owned(n) /\ (watch' = "watching" => n \in queue')
    <3>1. infra[i].st = "present" /\ infra[i].owner = n
      BY <1>1, <2>1, ProviderWrites
    <3>2. Notify({infra[i].owner}) /\ watch' = watch
      BY <2>1, <1>1, ProviderNotifies DEF EnvUnchanged
    <3> QED BY <1>1, <3>1, <3>2 DEF Owned, Notify
  <2>2. ASSUME infra'[i] # infra[i], NEW m \in Machine, InfraRef[m] = i,
               PatchInfra(m) \/ DeleteExternal(m)
        PROVE  FALSE
    BY <1>1, <2>2, ReconcileWrites DEF DeleteExternal, AboutToAdopt
  <2> QED BY <1>1, <2>1, <2>2, InfraWriters
<1>3. CASE infra'[i] = infra[i]
  <2>1. Owned(n) /\ ~Missing(i)
    BY <1>1, <1>3 DEF Owned, Missing
  <2> QED BY <1>1, <1>3, <2>1, WatchStarts
<1> QED BY <1>2, <1>3

--------------------------------------------------------------------------------
(* The steps of others.                                                      *)

\* What is spared keeps its parts of the invariant.
LEMMA SparedStep ==
  ASSUME Typed, [Next]_vars, NEW n \in Machine, WakeParts(n), Spared(n),
         ~PatchInfra(n)
  PROVE  WakeParts(n)'
<1>1. (IDKept(n) /\ NormalCopies(n) /\ SpecSent(n) /\ InMemory(n))'
  BY DEF WakeParts, Spared, IDKept, NormalCopies, SpecSent, SpecDiffers, InMemory
<1>2. WatchAsked(n)'
  BY DEF WakeParts, Spared, WatchAsked
<1>3. HoldsPresent(n)'
  <2>1. Torn(n) => Torn(n)'
    BY TornStays
  <2>2. Owned(n)' /\ watch' = "watching" /\ n \notin queue'
        => /\ Owned(n) /\ watch = "watching" /\ n \notin queue
           /\ infra'[InfraRef[n]] = infra[InfraRef[n]]
    BY OwnedStep DEF Spared
  <2> QED BY <2>1, <2>2 DEF WakeParts, Spared, HoldsPresent, Matches
<1>4. Sleeping(n)' => AtRest(n)'
  <2> SUFFICES ASSUME Sleeping(n)' PROVE AtRest(n)'
    OBVIOUS
  <2>1. Sleeping(n) /\ n \notin queue'
    BY DEF Sleeping, Asleep, Spared
  <2>2. AtRest(n)
    BY <2>1 DEF WakeParts
  <2>3. Owned(n)' /\ watch' = "watching"
        => Owned(n) /\ watch = "watching" /\ infra'[InfraRef[n]] = infra[InfraRef[n]]
    BY <2>1, OwnedStep
  <2> QED BY <2>2, <2>3 DEF AtRest, Spared, Phased, Matches
<1> QED BY <1>1, <1>2, <1>3, <1>4 DEF WakeParts

\* A copy that is made afresh has the provider ID that the user gave.
LEMMA AppliedID ==
  ASSUME NEW m \in Machine
  PROVE  /\ Applied(m).providerID = GivenID[m] /\ Removed(m).providerID = GivenID[m]
         /\ ~Removed(m).live
BY DEF Applied, Removed

\* Where there is no reconcile, or one that deletes, and the key is queued or the
\* Machine gone, nothing but the provider ID is at stake.
LEMMA NothingHeld ==
  ASSUME NEW n \in Machine, pc'[n] \notin NormalStages, ~Sleeping(n)', IDKept(n)'
  PROVE  WakeParts(n)'
BY DEF WakeParts, NormalStages, NormalCopies, SpecSent, InMemory, HoldsPresent, WatchAsked

\* The manager goes, or comes back.
LEMMA ManagerStep ==
  ASSUME Typed, NEW n \in Machine, WakeParts(n), DownIsEmpty,
         Restart \/ (Stops /\ manager' # "running" /\ UNCHANGED <<machine, cached>>)
  PROVE  WakeParts(n)'
<1> USE DEF apiVars, cacheVars, handlerVars, boundVars
<1>1. pc'[n] = "idle"
  BY DEF Restart, Stops, DownIsEmpty
<1>2. ~Sleeping(n)'
  BY DEF Restart, Stops, Sleeping, Asleep
<1>3. IDKept(n)'
  <2>1. CASE Restart
    BY <2>1 DEF WakeParts, IDKept, Restart
  <2>2. CASE Stops /\ UNCHANGED <<machine, cached>>
    <3>1. base'[n].providerID = GivenID[n] /\ obj'[n].providerID = GivenID[n]
      BY <2>2, AppliedID DEF Stops
    <3> QED BY <2>2, <3>1 DEF WakeParts, IDKept
  <2> QED BY <2>1, <2>2
<1> QED BY <1>1, <1>2, <1>3, NothingHeld DEF NormalStages

\* The informer brings the present version, and queues the key.
LEMMA DeliverStep ==
  ASSUME Typed, NEW n \in Machine, WakeParts(n), Deliver(n)
  PROVE  WakeParts(n)'
<1> USE DEF apiVars, cacheVars, handlerVars, boundVars
<1>1. /\ UNCHANGED <<machine, infra, pc, base, obj, got, again, watch>>
      /\ cached'[n] = machine[n] /\ n \in queue'
  BY DEF Deliver, Typed
<1>2. IDKept(n)' /\ NormalCopies(n)' /\ SpecSent(n)' /\ InMemory(n)' /\ WatchAsked(n)'
  BY <1>1 DEF WakeParts, IDKept, NormalCopies, SpecSent, SpecDiffers, InMemory, WatchAsked
<1>3. HoldsPresent(n)' /\ ~Sleeping(n)'
  BY <1>1 DEF WakeParts, HoldsPresent, Torn, Sleeping, Asleep
<1> QED BY <1>2, <1>3 DEF WakeParts

\* The user deletes the Machine: no copy that is older says so.
LEMMA UserStep ==
  ASSUME Typed, NEW n \in Machine, Local(n), WakeParts(n), DeleteMachine(n)
  PROVE  WakeParts(n)'
<1> USE DEF apiVars, cacheVars, handlerVars, boundVars
<1>1. UNCHANGED <<cached, infra, pc, base, obj, got, again, watch, queue>>
  BY DEF DeleteMachine, EnvUnchanged
<1>2. /\ machine'[n].providerID = machine[n].providerID \/ machine'[n].providerID = GivenID[n]
      /\ ~machine'[n].live \/ machine'[n] = [machine[n] EXCEPT !.deleting = TRUE]
  BY DEF DeleteMachine, Removed, Applied, Typed, MachineObject
<1>3. machine'[n].live => /\ machine'[n].deleting /\ machine'[n].finalizer = machine[n].finalizer
                          /\ machine'[n].providerID = machine[n].providerID
                          /\ machine[n].live
  BY <1>2 DEF DeleteMachine, Typed, MachineObject
<1>4. IDKept(n)' /\ NormalCopies(n)' /\ InMemory(n)' /\ WatchAsked(n)' /\ HoldsPresent(n)'
  BY <1>1, <1>2 DEF WakeParts, IDKept, NormalCopies, InMemory, WatchAsked, HoldsPresent, Torn,
     Owned, Matches
<1>5. SpecSent(n)'
  BY <1>1, <1>3 DEF WakeParts, SpecSent, SpecDiffers
<1>6. ~Sleeping(n)'
  BY <1>1, <1>3 DEF DeleteMachine, Sleeping, Asleep, Local, BeingDeleted, Lasting
<1> QED BY <1>4, <1>5, <1>6 DEF WakeParts

--------------------------------------------------------------------------------
(* The steps of the Machine's own reconcile.                                 *)

\* The start: a copy of what the cache has.
LEMMA StartStep ==
  ASSUME Typed, NEW n \in Machine, WakeParts(n), StartOfReconcile(n)
  PROVE  WakeParts(n)'
<1> USE DEF apiVars, cacheVars, handlerVars, boundVars
<1>0. cached[n] \in MachineObject
  BY DEF Typed
<1>1. CASE ReconcileGone(n)
  <2>1. pc'[n] = "idle" /\ UNCHANGED <<machine, cached, base, obj>> /\ ~cached[n].live
    BY <1>1 DEF ReconcileGone, Take
  <2>2. IDKept(n)' /\ ~Sleeping(n)'
    BY <2>1 DEF WakeParts, IDKept, Sleeping, Asleep
  <2> QED BY <2>1, <2>2, NothingHeld DEF NormalStages
<1>2. CASE ReconcileNormal(n)
  <2>1. /\ base'[n] = cached[n] /\ obj'[n] = [cached[n] EXCEPT !.finalizer = TRUE]
        /\ cached[n].live /\ ~cached[n].deleting
        /\ pc'[n] = IF InfraRef[n] = None THEN "nodeRef" ELSE "getInfra"
        /\ UNCHANGED <<machine, cached>>
    BY <1>2 DEF ReconcileNormal, Typed
  <2>2. /\ obj'[n].live /\ ~obj'[n].deleting /\ obj'[n].finalizer
        /\ obj'[n].providerID = cached[n].providerID
    BY <1>0, <2>1 DEF MachineObject
  <2>3. IDKept(n)' /\ NormalCopies(n)' /\ SpecSent(n)' /\ InMemory(n)'
    BY <2>1, <2>2 DEF WakeParts, IDKept, NormalCopies, SpecSent, InMemory
  <2>4. WatchAsked(n)' /\ HoldsPresent(n)' /\ ~Sleeping(n)'
    BY <2>1 DEF WatchAsked, HoldsPresent, Owned, Sleeping, Asleep
  <2> QED BY <2>3, <2>4 DEF WakeParts
<1>3. CASE ReconcileDeleting(n)
  <2>1. /\ base'[n] = cached[n] /\ obj'[n] = [cached[n] EXCEPT !.phase = "Terminating"]
        /\ pc'[n] \in {"delete", "markTerminating"}
        /\ UNCHANGED <<machine, cached>>
    BY <1>3 DEF ReconcileDeleting, Typed
  <2>2. obj'[n].providerID = cached[n].providerID
    BY <1>0, <2>1 DEF MachineObject
  <2>3. IDKept(n)' /\ ~Sleeping(n)'
    BY <2>1, <2>2 DEF WakeParts, IDKept, Sleeping, Asleep
  <2> QED BY <2>1, <2>3, NothingHeld DEF NormalStages
<1> QED BY <1>1, <1>2, <1>3 DEF StartOfReconcile

\* reconcileInfrastructure meets an error, or the patch does: the reconcile goes on,
\* and will come back.
LEMMA FailedStep ==
  ASSUME Typed, NEW n \in Machine, WakeParts(n),
         pc[n] \in {"getInfra", "patchInfra", "addWatch", "patch"},
         pc'[n] = IF pc[n] = "patch" THEN "patchStatus" ELSE "nodeRef",
         again'[n], UNCHANGED <<machine, cached, base, queue>>,
         obj'[n] = obj[n] \/ \E f \in BOOLEAN : pc[n] # "patch" /\ obj'[n] = [obj[n] EXCEPT !.failed = f]
  PROVE  WakeParts(n)'
<1>1. obj[n] \in MachineObject
  BY DEF Typed
<1>2. /\ obj'[n].live = obj[n].live /\ obj'[n].deleting = obj[n].deleting
      /\ obj'[n].finalizer = obj[n].finalizer /\ obj'[n].providerID = obj[n].providerID
  BY <1>1 DEF MachineObject
<1>3. IDKept(n)' /\ NormalCopies(n)'
  BY <1>2 DEF WakeParts, IDKept, NormalCopies, NormalStages
<1>4. InMemory(n)'
  BY DEF WakeParts, InMemory
<1>5. SpecSent(n)' /\ WatchAsked(n)' /\ HoldsPresent(n)' /\ ~Sleeping(n)'
  BY DEF SpecSent, WatchAsked, HoldsPresent, Sleeping, Asleep
<1> QED BY <1>3, <1>4, <1>5 DEF WakeParts

\* The read of the infrastructure.
LEMMA GetStep ==
  ASSUME Typed, NEW n \in Machine, WakeParts(n), GetInfra(n)
  PROVE  WakeParts(n)'
<1> USE DEF apiVars, cacheVars, handlerVars, boundVars
<1>1. /\ pc[n] = "getInfra" /\ pc'[n] = "patchInfra" /\ got'[n] = infra[InfraRef[n]]
      /\ InfraRef[n] # None
      /\ UNCHANGED <<machine, infra, cached, base, obj, queue>>
  BY DEF GetInfra, At, Typed
<1>2. IDKept(n)' /\ NormalCopies(n)' /\ HoldsPresent(n)'
  BY <1>1 DEF WakeParts, IDKept, NormalCopies, NormalStages, HoldsPresent, Torn
<1>3. SpecSent(n)' /\ InMemory(n)' /\ WatchAsked(n)' /\ ~Sleeping(n)'
  BY <1>1 DEF SpecSent, InMemory, WatchAsked, Sleeping, Asleep
<1> QED BY <1>2, <1>3 DEF WakeParts

\* The patch of the infrastructure: what the reconcile holds stays up to date, or the
\* key is queued again.
LEMMA AdoptStep ==
  ASSUME Typed, NEW n \in Machine, WakeParts(n), PatchInfra(n)
  PROVE  WakeParts(n)'
<1> USE DEF apiVars, cacheVars, handlerVars, boundVars
<1> DEFINE i == InfraRef[n]
<1>1. /\ pc[n] = "patchInfra" /\ i # None /\ i \in Infra /\ n # None
      /\ \A j \in Infra : infra'[j].st = infra[j].st
  BY ConstantsAssumption, AdoptedType DEF PatchInfra, CanAdopt, Typed
<1>2. /\ pc'[n] = "watchInfra" /\ queue \subseteq queue'
      /\ UNCHANGED <<machine, cached, base, obj, got, again, watch>>
  BY DEF PatchInfra, At, Notify, Typed
<1>3. IDKept(n)' /\ NormalCopies(n)' /\ SpecSent(n)' /\ InMemory(n)' /\ ~Sleeping(n)'
  BY <1>1, <1>2
  DEF WakeParts, IDKept, NormalCopies, NormalStages, SpecSent, InMemory, Sleeping, Asleep
<1>4. WatchAsked(n)'
  BY <1>2 DEF WatchAsked
<1>5. got'[n].st = "deleting" => Torn(n)'
  BY <1>1, <1>2 DEF WakeParts, HoldsPresent, Torn
<1>6. ASSUME Owned(n)', watch' = "watching", n \notin queue'
      PROVE  got'[n].status = infra'[i].status
  <2>1. infra'[i].owner = n /\ infra[i].st = "present"
    BY <1>1, <1>6 DEF Owned
  <2>2. got[n].owner = n
    BY <1>1, <1>2, <1>6 DEF PatchInfra, Notify
  <2>3. infra' = infra /\ Owned(n) /\ n \notin queue
    BY <1>1, <1>2, <1>6, <2>1, <2>2 DEF PatchInfra, Adopted, Owned
  <2> QED BY <1>1, <1>2, <1>6, <2>2, <2>3 DEF WakeParts, HoldsPresent
<1>7. HoldsPresent(n)'
  BY <1>2, <1>5, <1>6 DEF HoldsPresent
<1> QED BY <1>3, <1>4, <1>7 DEF WakeParts

\* The way to Controller.Watch: nothing is taken over yet.
LEMMA FirstOfKindStep ==
  ASSUME Typed, NEW n \in Machine, WakeParts(n), FirstOfKind(n)
  PROVE  WakeParts(n)'
<1> USE DEF apiVars, cacheVars, handlerVars, boundVars
<1>1. /\ pc[n] = "watchInfra" /\ pc'[n] = "addWatch" /\ watch' = "adding"
      /\ UNCHANGED <<machine, infra, cached, base, obj, got, queue>>
  BY DEF FirstOfKind, At, Typed
<1>2. IDKept(n)' /\ NormalCopies(n)' /\ HoldsPresent(n)'
  BY <1>1 DEF WakeParts, IDKept, NormalCopies, NormalStages, HoldsPresent, Torn
<1>3. SpecSent(n)' /\ InMemory(n)' /\ WatchAsked(n)' /\ ~Sleeping(n)'
  BY <1>1 DEF SpecSent, InMemory, WatchAsked, Sleeping, Asleep
<1> QED BY <1>2, <1>3 DEF WakeParts

\* What is taken over is up to date, or the key is queued again: by an event since
\* it was read, or by the initial list of the informer.
LEMMA TakeOverStep ==
  ASSUME Typed, NEW n \in Machine, WakeParts(n), KindSeen(n) \/ WatchAdded(n)
  PROVE  WakeParts(n)'
<1> USE DEF apiVars, cacheVars, handlerVars, boundVars
<1> DEFINE i == InfraRef[n]
<1>1. /\ pc[n] \in {"watchInfra", "addWatch"} /\ i # None /\ i \in Infra
      /\ GivenID[n] = None /\ n # None /\ obj[n] \in MachineObject
  BY ConstantsAssumption DEF KindSeen, WatchAdded, Typed
<1>2. /\ pc'[n] = "nodeRef" /\ obj'[n] = TakenOver(n)
      /\ again'[n] = (got[n].st # "deleting" /\ got[n].status # "ready")
      /\ watch' # "none" /\ queue \subseteq queue'
      /\ UNCHANGED <<machine, infra, cached, base, got>>
  BY DEF KindSeen, WatchAdded, TakesOver, At, Typed
<1>3. /\ obj'[n].live = obj[n].live /\ obj'[n].deleting = obj[n].deleting
      /\ obj'[n].finalizer = obj[n].finalizer
  BY <1>1, <1>2 DEF TakenOver, MachineObject
<1>4. got[n].st # "deleting" =>
        /\ obj'[n].infraReady = (got[n].status # "pending")
        /\ got[n].status = "ready" => obj'[n].providerID = i
  BY <1>1, <1>2 DEF TakenOver, MachineObject
<1>5. IDKept(n)' /\ NormalCopies(n)' /\ SpecSent(n)' /\ InMemory(n)' /\ ~Sleeping(n)'
  BY <1>1, <1>2, <1>3
  DEF WakeParts, IDKept, NormalCopies, NormalStages, SpecSent, InMemory, Sleeping, Asleep
<1>6. WatchAsked(n)'
  BY <1>2 DEF WatchAsked
<1>7. ASSUME Owned(n)', watch' = "watching", n \notin queue'
      PROVE  again'[n] \/ Matches(n, obj[n])'
  <2>1. Owned(n) /\ n \notin queue
    BY <1>2, <1>7 DEF Owned
  <2>2. ~WatchAdded(n)
    BY <1>1, <1>7, <2>1 DEF WatchAdded, Owned, Missing
  <2>3. watch = "watching" /\ pc[n] = "watchInfra"
    BY <1>7, <2>2 DEF KindSeen
  <2>4. got[n].status = infra[i].status /\ got[n].st # "deleting"
    BY <2>1, <2>3 DEF WakeParts, HoldsPresent, Torn, Owned
  <2> QED BY <1>2, <1>4, <2>4 DEF Matches
<1>8. HoldsPresent(n)'
  BY <1>2, <1>7 DEF HoldsPresent
<1> QED BY <1>5, <1>6, <1>8 DEF WakeParts

\* reconcilePhase of a Machine that is not being deleted.
LEMMA PhaseFollows ==
  ASSUME NEW o \in MachineObject, ~o.deleting
  PROVE  Phased(ReconcilePhase(o)) /\ ReconcilePhase(o).infraReady = o.infraReady
BY DEF ReconcilePhase, Phased, MachineObject

\* reconcileNodeRef and reconcilePhase: a provider ID has its Node, or the reconcile
\* will come back.
LEMMA NodeRefStep ==
  ASSUME Typed, NEW n \in Machine, WakeParts(n), NodeRef(n)
  PROVE  WakeParts(n)'
<1> USE DEF apiVars, cacheVars, handlerVars, boundVars
<1> DEFINE o == obj[n]
           found == NeedsNode(o) /\ o.providerID \in nodeCache
           p == [o EXCEPT !.nodeRef = IF found THEN o.providerID ELSE @]
<1>1. /\ pc[n] = "nodeRef" /\ pc'[n] = "patch" /\ obj'[n] = ReconcilePhase(p)
      /\ again'[n] = (again[n] \/ (NeedsNode(o) /\ ~found))
      /\ UNCHANGED <<machine, infra, cached, base, got, queue, watch>>
  BY DEF NodeRef, At, Typed
<1>2. o \in MachineObject /\ o.live /\ ~o.deleting /\ o.finalizer
  BY <1>1 DEF WakeParts, NormalCopies, NormalStages, Typed
<1>3. /\ p \in MachineObject /\ p.live /\ ~p.deleting /\ p.finalizer
      /\ p.providerID = o.providerID /\ p.infraReady = o.infraReady
      /\ p.nodeRef = IF found THEN o.providerID ELSE o.nodeRef
  BY <1>2 DEF MachineObject
<1> HIDE DEF p
<1>4. /\ obj'[n].live /\ ~obj'[n].deleting /\ obj'[n].finalizer /\ Phased(obj'[n])
      /\ obj'[n].providerID = o.providerID /\ obj'[n].infraReady = o.infraReady
      /\ obj'[n].nodeRef = IF found THEN o.providerID ELSE o.nodeRef
  BY <1>1, <1>3, ReconcilePhaseType, PhaseFinalizer, PhaseFollows
<1>5. IDKept(n)' /\ NormalCopies(n)' /\ SpecSent(n)' /\ ~Sleeping(n)'
  BY <1>1, <1>4 DEF WakeParts, IDKept, NormalCopies, NormalStages, SpecSent, Sleeping, Asleep
<1>6. InMemory(n)'
  <2>1. again'[n] \/ obj'[n].providerID = None \/ obj'[n].nodeRef # None
    BY <1>1, <1>4 DEF NeedsNode
  <2>2. Phased(obj[n])'
    BY <1>4 DEF Phased
  <2> QED BY <2>1, <2>2 DEF InMemory
<1>7. WatchAsked(n)' /\ HoldsPresent(n)'
  BY <1>1, <1>4 DEF WakeParts, WatchAsked, HoldsPresent, Owned, Matches
<1> QED BY <1>5, <1>6, <1>7 DEF WakeParts

\* The first patch: it shows, or the reconcile will come back.
LEMMA PatchStep ==
  ASSUME Typed, NEW n \in Machine, WakeParts(n), PatchMachine(n)
  PROVE  WakeParts(n)'
<1> USE DEF apiVars, cacheVars, handlerVars, boundVars
<1> DEFINE written == SpecDiffers(n) /\ machine[n].live
<1>1. /\ pc[n] = "patch" /\ pc'[n] = "patchStatus"
      /\ again'[n] = (again[n] \/ (SpecDiffers(n) /\ ~machine[n].live))
      /\ UNCHANGED <<infra, cached, base, obj, got, queue, watch>>
  BY DEF PatchMachine, At, Typed
<1>2. machine[n] \in MachineObject
  BY DEF Typed
<1>3. /\ ~written => machine'[n] = machine[n]
      /\ written =>
           /\ machine'[n].finalizer = Merged(machine[n].finalizer, base[n].finalizer, obj[n].finalizer)
           /\ machine'[n].providerID =
                Merged(machine[n].providerID, base[n].providerID, obj[n].providerID)
  BY <1>2 DEF PatchMachine, Typed, MachineObject
<1>4. IDKept(n)'
  BY <1>1, <1>3 DEF WakeParts, IDKept, Merged
<1>5. obj[n].finalizer
  BY <1>1 DEF WakeParts, NormalCopies, NormalStages
<1>6. SpecSent(n)'
  <2> SUFFICES ASSUME SpecDiffers(n), ~again'[n]
               PROVE  \/ machine'[n].finalizer /\ ~base[n].finalizer
                      \/ machine'[n].providerID # base[n].providerID
    BY <1>1 DEF SpecSent, SpecDiffers
  <2>1. written
    BY <1>1
  <2>2. base[n].finalizer \in BOOLEAN
    BY DEF Typed, MachineObject
  <2> QED BY <1>3, <1>5, <2>1, <2>2 DEF SpecDiffers, Merged
<1>7. NormalCopies(n)' /\ InMemory(n)' /\ WatchAsked(n)' /\ HoldsPresent(n)' /\ ~Sleeping(n)'
  BY <1>1 DEF WakeParts, NormalCopies, NormalStages, InMemory, WatchAsked, HoldsPresent, Owned,
     Matches, Sleeping, Asleep
<1> QED BY <1>4, <1>6, <1>7 DEF WakeParts

\* The second patch ends the reconcile. If nothing will bring it back then nothing
\* was written, and the Machine is what the reconcile made of it.
LEMMA PatchStatusStep ==
  ASSUME Typed, NEW n \in Machine, WakeParts(n), PatchStatus(n)
  PROVE  WakeParts(n)'
<1> USE DEF apiVars, cacheVars, handlerVars, boundVars
<1> DEFINE written == StatusDiffers(n) /\ machine[n].live
<1>1. /\ pc[n] = "patchStatus" /\ pc'[n] = "idle"
      /\ base'[n] = Applied(n) /\ obj'[n] = Applied(n)
      /\ queue' = IF again[n] \/ (StatusDiffers(n) /\ ~machine[n].live) THEN queue \cup {n} ELSE queue
      /\ UNCHANGED <<infra, cached, watch, manager>>
  BY DEF PatchStatus, Return, Typed
<1>2. machine[n] \in MachineObject
  BY DEF Typed
<1>3. /\ machine'[n].live = machine[n].live
      /\ machine'[n].providerID = machine[n].providerID
      /\ ~written => machine'[n] = machine[n]
      /\ written =>
           /\ machine'[n].nodeRef = Merged(machine[n].nodeRef, base[n].nodeRef, obj[n].nodeRef)
           /\ machine'[n].phase = Merged(machine[n].phase, base[n].phase, obj[n].phase)
           /\ machine'[n].infraReady =
                Merged(machine[n].infraReady, base[n].infraReady, obj[n].infraReady)
           /\ machine'[n].failed = Merged(machine[n].failed, base[n].failed, obj[n].failed)
  BY <1>2 DEF PatchStatus, Typed, MachineObject
<1>4. IDKept(n)'
  BY <1>1, <1>3, AppliedID DEF WakeParts, IDKept
<1>5. ASSUME Sleeping(n)' PROVE AtRest(n)'
  <2>1. n \notin queue /\ ~again[n] /\ machine[n].live /\ cached[n] = machine'[n]
    BY <1>1, <1>3, <1>5 DEF Sleeping, Asleep
  <2>2. base[n] = machine'[n] /\ ~base[n].deleting
    BY <1>1, <2>1 DEF WakeParts, NormalCopies, NormalStages
  <2>3. ~StatusDiffers(n)
    <3> SUFFICES ASSUME StatusDiffers(n) PROVE FALSE
      OBVIOUS
    <3> QED BY <1>3, <2>1, <2>2 DEF StatusDiffers, Merged
  <2>4. machine'[n] = machine[n]
    BY <1>3, <2>3
  <2>5. ~SpecDiffers(n)
    BY <1>1, <2>1, <2>2, <2>4 DEF WakeParts, SpecSent
  <2>6. /\ machine'[n].finalizer = obj[n].finalizer /\ machine'[n].providerID = obj[n].providerID
        /\ machine'[n].nodeRef = obj[n].nodeRef /\ machine'[n].phase = obj[n].phase
        /\ machine'[n].infraReady = obj[n].infraReady /\ machine'[n].failed = obj[n].failed
    BY <2>2, <2>3, <2>5 DEF StatusDiffers, SpecDiffers
  <2>7. obj[n].finalizer /\ Phased(obj[n]) /\ (obj[n].providerID = None \/ obj[n].nodeRef # None)
    BY <1>1, <2>1 DEF WakeParts, NormalCopies, NormalStages, InMemory
  <2>8. Phased(machine[n])'
    BY <2>6, <2>7 DEF Phased
  <2>9. /\ InfraRef[n] # None => watch' # "none"
        /\ Owned(n)' /\ watch' = "watching" => Matches(n, machine[n])'
    BY <1>1, <2>1, <2>6 DEF WakeParts, WatchAsked, HoldsPresent, Owned, Matches
  <2> QED BY <2>2, <2>6, <2>7, <2>8, <2>9 DEF AtRest
<1>6. /\ NormalCopies(n)' /\ SpecSent(n)' /\ InMemory(n)' /\ WatchAsked(n)' /\ HoldsPresent(n)'
  BY <1>1 DEF NormalCopies, NormalStages, SpecSent, InMemory, WatchAsked, HoldsPresent
<1> QED BY <1>4, <1>5, <1>6 DEF WakeParts

\* The deletion loop: it goes on, it comes back, or the Machine is gone.
LEMMA DeletionKeeps ==
  ASSUME Typed, NEW n \in Machine, WakeParts(n), DeletionStep(n), UNCHANGED manager
  PROVE  WakeParts(n)'
<1> USE DEF apiVars, cacheVars, handlerVars, boundVars
<1>1. CASE MarkTerminating(n)
  <2>1. CASE Conflict(n)
    <3>1. /\ pc'[n] = "idle" /\ n \in queue' /\ UNCHANGED <<machine, cached>>
          /\ base'[n] = Applied(n) /\ obj'[n] = Applied(n)
      BY <1>1, <2>1 DEF MarkTerminating, Return, Typed
    <3>2. IDKept(n)' /\ ~Sleeping(n)'
      BY <3>1, AppliedID DEF WakeParts, IDKept, Sleeping, Asleep
    <3> QED BY <3>1, <3>2, NothingHeld DEF NormalStages
  <2>2. CASE ~Conflict(n)
    <3>1. /\ pc'[n] = "delete" /\ UNCHANGED <<cached, obj>>
          /\ base'[n] = obj[n] /\ machine'[n] = obj[n]
      BY <1>1, <2>2 DEF MarkTerminating, At, Typed
    <3>2. IDKept(n)' /\ ~Sleeping(n)'
      BY <3>1 DEF WakeParts, IDKept, Sleeping, Asleep
    <3> QED BY <3>1, <3>2, NothingHeld DEF NormalStages
  <2> QED BY <2>1, <2>2
<1>2. CASE Delete(n) \/ Cordon(n) \/ Evict(n) \/ DeleteExternal(n) \/ DeleteNode(n)
  <2>1. /\ pc'[n] \in {"evict", "drain", "deleteExternal", "deleteNode", "removeFinalizer"}
        /\ UNCHANGED <<machine, cached, base, obj>>
    BY <1>2 DEF Delete, Cordon, Evict, DeleteExternal, DeleteNode, At, Typed
  <2>2. IDKept(n)' /\ ~Sleeping(n)'
    BY <2>1 DEF WakeParts, IDKept, Sleeping, Asleep
  <2> QED BY <2>1, <2>2, NothingHeld DEF NormalStages
<1>3. CASE RemoveFinalizer(n)
  <2>1. /\ pc'[n] = "idle" /\ UNCHANGED cached
        /\ base'[n] = Applied(n) /\ obj'[n] = Applied(n)
        /\ (machine'[n] = machine[n] /\ n \in queue') \/ machine'[n] = Removed(n)
    BY <1>3 DEF RemoveFinalizer, Return, Typed
  <2>2. IDKept(n)' /\ ~Sleeping(n)'
    BY <2>1, AppliedID DEF WakeParts, IDKept, Sleeping, Asleep
  <2> QED BY <2>1, <2>2, NothingHeld DEF NormalStages
<1>4. CASE DeleteExternalPanics(n)
  <2>1. /\ UNCHANGED <<machine, cached>> /\ pc'[n] = "idle" /\ manager' = "panicked"
        /\ base'[n] = Applied(n) /\ obj'[n] = Applied(n)
    BY <1>4 DEF DeleteExternalPanics, Stops
  <2>2. IDKept(n)' /\ ~Sleeping(n)'
    BY <2>1, AppliedID DEF WakeParts, IDKept, Sleeping, Asleep
  <2> QED BY <2>1, <2>2, NothingHeld DEF NormalStages
<1> QED BY <1>1, <1>2, <1>3, <1>4 DEF DeletionStep

\* A failed call never ends a reconcile for good.
LEMMA ErrorStep ==
  ASSUME Typed, NEW n \in Machine, WakeParts(n), ApiError(n)
  PROVE  WakeParts(n)'
<1> USE DEF apiVars, cacheVars, handlerVars, boundVars
<1>0. UNCHANGED <<machine, cached>>
  BY DEF ApiError
<1>1. CASE /\ pc[n] \in {"getInfra", "patchInfra", "patch"}
           /\ Fails(n) /\ At(n, IF pc[n] = "patch" THEN "patchStatus" ELSE "nodeRef")
           /\ UNCHANGED <<base, obj, got, allowed, queue>>
  <2>1. again'[n] /\ pc'[n] = IF pc[n] = "patch" THEN "patchStatus" ELSE "nodeRef"
    BY <1>1 DEF Fails, At, Typed
  <2> QED BY <1>0, <1>1, <2>1, FailedStep
<1>2. CASE Return(n, TRUE)
  <2>1. pc'[n] = "idle" /\ n \in queue' /\ base'[n] = Applied(n) /\ obj'[n] = Applied(n)
    BY <1>2 DEF Return, Typed
  <2>2. IDKept(n)' /\ ~Sleeping(n)'
    BY <1>0, <2>1, AppliedID DEF WakeParts, IDKept, Sleeping, Asleep
  <2> QED BY <2>1, <2>2, NothingHeld DEF NormalStages
<1>3. CASE At(n, "removeFinalizer") /\ UNCHANGED <<base, obj>>
  <2>1. pc'[n] = "removeFinalizer"
    BY <1>3 DEF At, Typed
  <2>2. IDKept(n)' /\ ~Sleeping(n)'
    BY <1>0, <1>3, <2>1 DEF WakeParts, IDKept, Sleeping, Asleep
  <2> QED BY <2>1, <2>2, NothingHeld DEF NormalStages
<1> QED BY <1>1, <1>2, <1>3 DEF ApiError

\* The other errors of reconcileInfrastructure.
LEMMA ErrorsCollected ==
  ASSUME Typed, NEW n \in Machine, WakeParts(n),
         InfraNotFound(n) \/ InfraAlreadyOwned(n) \/ AdoptFails(n) \/ WatchFails(n)
  PROVE  WakeParts(n)'
<1> USE DEF apiVars, cacheVars, handlerVars, boundVars
<1>1. /\ pc[n] \in {"getInfra", "patchInfra", "addWatch"} /\ pc'[n] = "nodeRef" /\ again'[n]
      /\ UNCHANGED <<machine, cached, base, queue>>
  BY DEF InfraNotFound, InfraAlreadyOwned, AdoptFails, WatchFails, CanAdopt, Fails, At, Typed
<1>2. obj'[n] = obj[n] \/ \E f \in BOOLEAN : obj'[n] = [obj[n] EXCEPT !.failed = f]
  <2>1. CASE InfraNotFound(n)
    <3>1. obj'[n] = [obj[n] EXCEPT !.failed = obj[n].failed \/ obj[n].infraReady]
      BY <2>1 DEF InfraNotFound, Typed
    <3>2. (obj[n].failed \/ obj[n].infraReady) \in BOOLEAN
      OBVIOUS
    <3> QED BY <3>1, <3>2
  <2>2. CASE InfraAlreadyOwned(n) \/ AdoptFails(n) \/ WatchFails(n)
    BY <2>2 DEF InfraAlreadyOwned, AdoptFails, WatchFails
  <2> QED BY <2>1, <2>2
<1> QED BY <1>1, <1>2, FailedStep

--------------------------------------------------------------------------------
(* The invariant, and the theorem.                                           *)

LEMMA WakePartsStep ==
  ASSUME Typed, ControllerInv, DownIsEmpty, [Next]_vars, NEW n \in Machine, WakeParts(n)
  PROVE  WakeParts(n)'
<1>1. CASE Spared(n) /\ ~PatchInfra(n)
  BY <1>1, SparedStep
<1>2. CASE StartOfReconcile(n)
  BY <1>2, StartStep
<1>3. CASE NormalStep(n)
  BY <1>3, ErrorsCollected, GetStep, AdoptStep, FirstOfKindStep, TakeOverStep, NodeRefStep,
     PatchStep, PatchStatusStep
  DEF NormalStep
<1>4. CASE PatchInfra(n)
  BY <1>4, AdoptStep
<1>5. CASE ApiError(n)
  BY <1>5, ErrorStep
<1>6. CASE DeletionStep(n) /\ UNCHANGED manager
  BY <1>6, DeletionKeeps
<1>7. CASE Deliver(n)
  BY <1>7, DeliverStep
<1>8. CASE DeleteMachine(n)
  BY <1>8, UserStep, ControllerInvIsLocal
<1>9. CASE Restart \/ (Stops /\ manager' # "running" /\ UNCHANGED <<machine, cached>>)
  BY <1>9, ManagerStep
<1> QED BY <1>1, <1>2, <1>3, <1>4, <1>5, <1>6, <1>7, <1>8, <1>9, OthersSpare

\* No worker runs, and no event arrives, while the manager is down.
LEMMA DownStep ==
  ASSUME Typed, DownIsEmpty, [Next]_vars
  PROVE  DownIsEmpty'
<1> USE DEF apiVars, cacheVars, handlerVars, boundVars
<1> SUFFICES ASSUME manager' # "running"
             PROVE  queue' = {} /\ watch' = "none" /\ \A m \in Machine : pc'[m] = "idle"
  BY DEF DownIsEmpty
<1>1. CASE Stops
  BY <1>1 DEF Stops
<1>2. CASE manager # "running" /\ ~Stops
  <2>1. queue = {} /\ watch = "none" /\ \A m \in Machine : pc[m] = "idle"
    BY <1>2 DEF DownIsEmpty
  <2>2. ASSUME NEW m \in Machine
        PROVE  ~(StartOfReconcile(m) \/ HandlerStep(m) \/ ApiError(m) \/ Deliver(m) \/ Resync(m))
    <3>1. ~StartOfReconcile(m) /\ ~ApiError(m) /\ ~Deliver(m) /\ ~Resync(m)
      BY <1>2, <2>1 DEF StartOfReconcile, ReconcileGone, ReconcileNormal, ReconcileDeleting, Take,
         ApiError, Deliver, Resync
    <3>2. ~NormalStep(m)
      BY <2>1 DEF NormalStep, InfraNotFound, InfraAlreadyOwned, GetInfra, AdoptFails, PatchInfra,
         CanAdopt, KindSeen, FirstOfKind, WatchAdded, TakesOver, WatchFails, NodeRef,
         PatchMachine, PatchStatus
    <3>3. ~DeletionStep(m)
      BY <2>1 DEF DeletionStep, MarkTerminating, Delete, Cordon, Evict, DeleteExternal,
         DeleteExternalPanics, DeleteNode, RemoveFinalizer
    <3> QED BY <3>1, <3>2, <3>3 DEF HandlerStep
  <2>3. ASSUME NEW m \in Machine, DeleteMachine(m)
        PROVE  UNCHANGED <<queue, watch, pc>>
    BY <2>3 DEF DeleteMachine, EnvUnchanged
  <2>4. ASSUME NEW i \in Infra, SyncNode(i) \/ NodeStep(i)
        PROVE  UNCHANGED <<queue, watch, pc>>
    BY <2>4 DEF SyncNode, NodeStep, RegisterNode, RemoveNode, NodeBecomes, EnvUnchanged
  <2>5. ASSUME NEW i \in Infra, ProviderStep(i)
        PROVE  UNCHANGED <<queue, watch, pc>>
    BY <2>1, <2>5, ProviderNotifies DEF EnvUnchanged, Notify
  <2>6. ~Crash /\ ~Restart
    BY <1>2 DEF Crash, Restart
  <2>7. CASE UNCHANGED vars
    BY <2>1, <2>7 DEF vars
  <2> QED BY <2>1, <2>2, <2>3, <2>4, <2>5, <2>6, <2>7 DEF Next
<1>3. CASE manager = "running" /\ ~Stops
  <2>1. ASSUME NEW m \in Machine,
               StartOfReconcile(m) \/ NormalStep(m) \/ ApiError(m) \/ Deliver(m) \/ Resync(m)
               \/ DeleteMachine(m)
        PROVE  UNCHANGED manager
    BY <2>1 DEF StartOfReconcile, ReconcileGone, ReconcileNormal, ReconcileDeleting, NormalStep,
       InfraNotFound, InfraAlreadyOwned, GetInfra, AdoptFails, PatchInfra, KindSeen,
       FirstOfKind, WatchAdded, TakesOver, WatchFails, NodeRef,
       PatchMachine, PatchStatus, ApiError, Deliver, Resync, DeleteMachine, EnvUnchanged
  <2>2. ASSUME NEW m \in Machine, DeletionStep(m)
        PROVE  UNCHANGED manager \/ Stops
    BY <2>2 DEF DeletionStep, MarkTerminating, Delete, Cordon, Evict, DeleteExternal,
       DeleteExternalPanics, DeleteNode, RemoveFinalizer
  <2>3. ASSUME NEW i \in Infra, SyncNode(i) \/ NodeStep(i) \/ ProviderStep(i)
        PROVE  UNCHANGED manager
    BY <2>3, ProviderNotifies
    DEF SyncNode, NodeStep, RegisterNode, RemoveNode, NodeBecomes, EnvUnchanged, ProviderStep,
        ApplyInfra, ProviderProgress, ProviderRegress, ProviderFails, DeleteInfra, CollectInfra,
        FinishInfra, InfraBecomes
  <2>4. (Crash => Stops) /\ ~Restart /\ (UNCHANGED vars => UNCHANGED manager)
    BY <1>3 DEF Crash, Restart, vars
  <2> QED BY <1>3, <2>1, <2>2, <2>3, <2>4 DEF Next, HandlerStep
<1> QED BY <1>1, <1>2, <1>3

\* At the start every key is queued.
LEMMA WakeInvInit == Init => WakeInv
<1> SUFFICES ASSUME Init PROVE WakeInv
  OBVIOUS
<1>1. DownIsEmpty
  BY DEF Init, DownIsEmpty
<1>2. ASSUME NEW n \in Machine PROVE WakeParts(n)
  <2>1. /\ pc[n] = "idle" /\ n \in queue /\ cached[n] = machine[n]
        /\ base[n] = Applied(n) /\ obj[n] = Applied(n)
        /\ machine[n] = IF n \in Established THEN Up(n) ELSE Applied(n)
    BY DEF Init
  <2>2. GivenID[n] # None => n \notin Established
    BY ConstantsAssumption
  <2>3. IDKept(n)
    BY <2>1, <2>2, AppliedID DEF IDKept
  <2> QED BY <2>1, <2>3 DEF WakeParts, NormalCopies, NormalStages, SpecSent, InMemory, WatchAsked,
          HoldsPresent, Sleeping, Asleep
<1> QED BY <1>1, <1>2 DEF WakeInv

\* What the controller sleeps on is settled.
LEMMA AtRestIsSettled ==
  ASSUME Typed, ControllerInv, NEW m \in Machine, IDKept(m), machine[m].live, AtRest(m),
         pc[m] = "idle", watch # "lost", \A n \in Machine \ {m} : pc[n] # "addWatch"
  PROVE  Settled(m)
<1> DEFINE o == machine[m]
<1>1. InfraRef[m] # None => watch = "watching"
  <2>1. watch # "adding"
    BY DEF ControllerInv, OneAdder
  <2> QED BY <2>1 DEF AtRest, Typed
<1>2. IsOf(m, o)
  BY DEF ControllerInv, CopiesAgree
<1>3. ASSUME o.providerID # None, ID(m) # None
      PROVE  o.nodeRef = ID(m) /\ o.phase \in {"Running", "Failed"}
  BY <1>2, <1>3 DEF AtRest, Phased, IsOf
<1>4. CASE InfraRef[m] = None
  <2>1. ID(m) # None => o.providerID # None
    BY <1>4 DEF ID, IDKept
  <2> QED BY <1>3, <1>4, <2>1 DEF Settled
<1>5. CASE InfraRef[m] # None
  <2>1. infra[InfraRef[m]].st = "present" /\ infra[InfraRef[m]].owner = m => Matches(m, o)
    BY <1>1, <1>5 DEF AtRest, Owned
  <2> QED BY <1>3, <1>5, <2>1 DEF Settled, Matches
<1> QED BY <1>4, <1>5

\* The controller never sleeps on a Machine that it still has to do something about,
\* whatever the order of the events and of the steps of the reconciles that they meet
\* (controllers/machine/controller.go, helpers.go and external/tracker.go).
THEOREM NoWakeUpIsLost == Spec => []NoWakeUpLost
<1>1. Typed /\ ControllerInv /\ WakeInv /\ [Next]_vars => WakeInv'
  BY WakePartsStep, DownStep DEF WakeInv
<1>2. Typed /\ ControllerInv /\ WakeInv => NoWakeUpLost
  <2> SUFFICES ASSUME Typed, ControllerInv, WakeInv, NEW m \in Machine,
                      Asleep(m), machine[m].live
               PROVE  /\ ~machine[m].deleting /\ machine[m].finalizer
                      /\ machine[m].failed => machine[m].phase = "Failed"
                      /\ \/ Settled(m) \/ watch = "lost"
                         \/ \E n \in Machine \ {m} : pc[n] = "addWatch"
    BY DEF NoWakeUpLost
  <2>1. AtRest(m) /\ IDKept(m)
    BY DEF WakeInv, WakeParts, Sleeping
  <2>2. \/ Settled(m) \/ watch = "lost"
        \/ \E n \in Machine \ {m} : pc[n] = "addWatch"
    BY <2>1, AtRestIsSettled DEF Asleep
  <2> QED BY <2>1, <2>2 DEF AtRest, Phased
<1>3. TypeOK => Typed
  BY DEF TypeOK
<1> QED BY <1>1, <1>2, <1>3, WakeInvInit, TypeCorrect, ControllerInvariant, PTL DEF Spec

================================================================================
