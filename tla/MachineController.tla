--------------------------- MODULE MachineController ---------------------------
(***************************************************************************)
(* The Machine controller (controllers/machine): one reconcile handler per *)
(* Machine key, run by a pool of workers, reading Machines and Nodes from  *)
(* an informer cache that lags the API server and reading infrastructure   *)
(* objects and writing everything at the API server itself.                *)
(*                                                                         *)
(* The handler is cut at its API calls: between two of them any other      *)
(* worker, the user, an infrastructure provider, a kubelet, the garbage    *)
(* collector or a crash of the manager may act.                            *)
(***************************************************************************)
EXTENDS Naturals, FiniteSets

CONSTANTS
  Machine,         \* names of the Machine objects
  Infra,           \* infrastructure objects; i also is the provider ID of i
                   \* and the name of the Node whose providerID is i
  None,            \* a nil pointer
  InfraRef,        \* [Machine -> Infra or None]: Spec.InfrastructureRef
  GivenID,         \* [Machine -> Infra or None]: Spec.ProviderID as applied
  ControlPlane,    \* the Machines that carry the control plane label
  MaxConcurrent,   \* controller.Options.MaxConcurrentReconciles
  \* The scenario, and the bounds of a run:
  Established,     \* Machines that are up and running when the manager starts
  Unclaimed,       \* infrastructure that is up by then, without an owner
  Deletable,       \* Machines the user may delete
  WatchMayFail,    \* may Controller.Watch return an error?
  Resyncs,         \* does the informers' periodic resync happen?
  MaxFaults,       \* API errors, drain timeouts and crashes of the manager
  MaxDisruptions   \* unsolicited acts of providers and admins

ASSUME ConstantsAssumption ==
  /\ IsFiniteSet(Machine)
  /\ None \notin Machine /\ None \notin Infra
  /\ InfraRef \in [Machine -> Infra \cup {None}]
  /\ GivenID \in [Machine -> Infra \cup {None}]
  \* A provider ID comes from the user or from the infrastructure, not both.
  \* Nothing in the code enforces this: with both, reconcileInfrastructure would
  \* replace the user's provider ID, and a Machine could be seen with either.
  /\ \A m \in Machine : InfraRef[m] # None => GivenID[m] = None
  /\ ControlPlane \subseteq Machine
  /\ MaxConcurrent \in Nat \ {0}
  /\ Established \subseteq Machine
  /\ \A m \in Established : InfraRef[m] # None
  /\ \A m, n \in Established : InfraRef[m] = InfraRef[n] => m = n
  /\ Unclaimed \subseteq Infra /\ Deletable \subseteq Machine
  /\ WatchMayFail \in BOOLEAN /\ Resyncs \in BOOLEAN
  /\ MaxFaults \in Nat /\ MaxDisruptions \in Nat

VARIABLES
  machine,     \* the Machine objects at the API server
  cached,      \* the Machine objects as the manager's informer has them
  infra,       \* the infrastructure objects at the API server
  node,        \* the Nodes at the API server
  nodeCache,   \* the Nodes the manager's informer has
  queue,       \* the keys in the controller's workqueue
  watch,       \* the kind of the infrastructure in the ObjectTracker
  manager,     \* the manager process
  pc,          \* where the reconcile of each Machine is
  base,        \* ... the Machine as it was read (the patch helper's copy)
  obj,         \* ... the Machine being modified in memory
  got,         \* ... the infrastructure object it read
  again,       \* ... has it met an error or a reason to requeue?
  allowed,     \* ... may it drain and delete the Node?
  faults,      \* faults so far
  disruptions  \* disruptions so far

apiVars == <<machine, infra, node>>
cacheVars == <<cached, nodeCache>>
handlerVars == <<pc, base, obj, got, again, allowed>>
boundVars == <<faults, disruptions>>
vars == <<apiVars, cacheVars, handlerVars, queue, watch, manager, boundVars>>

--------------------------------------------------------------------------------
(* The objects. *)

Phase == {"", "Pending", "Running", "Terminating", "Failed"}

MachineObject ==
  [live : BOOLEAN, deleting : BOOLEAN, finalizer : BOOLEAN,
   providerID : Infra \cup {None}, nodeRef : Infra \cup {None},
   infraReady : BOOLEAN, failed : BOOLEAN, phase : Phase]

\* A Machine as the user applies it: no finalizer, an empty status.
Applied(m) ==
  [live |-> TRUE, deleting |-> FALSE, finalizer |-> FALSE,
   providerID |-> GivenID[m], nodeRef |-> None,
   infraReady |-> FALSE, failed |-> FALSE, phase |-> ""]

\* No such Machine any more (its name is not used again).
Removed(m) == [Applied(m) EXCEPT !.live = FALSE]

\* A Machine an earlier manager brought up.
Up(m) ==
  [live |-> TRUE, deleting |-> FALSE, finalizer |-> TRUE,
   providerID |-> InfraRef[m], nodeRef |-> InfraRef[m],
   infraReady |-> TRUE, failed |-> FALSE, phase |-> "Running"]

\* status: not ready, ready before its provider ID is known, ready.
InfraObject ==
  [st : {"unapplied", "present", "deleting", "gone"},
   owner : Machine \cup {None},
   status : {"pending", "readyNoID", "ready"},
   failed : BOOLEAN]

NoInfra(s) == [st |-> s, owner |-> None, status |-> "pending", failed |-> FALSE]

Missing(i) == infra[i].st \in {"unapplied", "gone"}

Init ==
  /\ machine = [m \in Machine |-> IF m \in Established THEN Up(m) ELSE Applied(m)]
  /\ cached = machine
  /\ infra = [i \in Infra |->
       IF \E m \in Established : InfraRef[m] = i
       THEN [st |-> "present", status |-> "ready", failed |-> FALSE,
             owner |-> CHOOSE m \in Established : InfraRef[m] = i]
       ELSE IF i \in Unclaimed THEN [NoInfra("present") EXCEPT !.status = "ready"]
       ELSE NoInfra("unapplied")]
  /\ node = [i \in Infra |->
       IF \E m \in Established : InfraRef[m] = i THEN "active" ELSE "none"]
  /\ nodeCache = {i \in Infra : node[i] # "none"}
  /\ queue = Machine
  /\ watch = "none"
  /\ manager = "running"
  /\ pc = [m \in Machine |-> "idle"]
  /\ base = [m \in Machine |-> Applied(m)]
  /\ obj = [m \in Machine |-> Applied(m)]
  /\ got = [m \in Machine |-> NoInfra("gone")]
  /\ again = [m \in Machine |-> FALSE]
  /\ allowed = [m \in Machine |-> FALSE]
  /\ faults = 0
  /\ disruptions = 0

--------------------------------------------------------------------------------
(* The workqueue and the start of a reconcile.                             *)

Active == {m \in Machine : pc[m] # "idle"}

\* Mutant of Take: the limit on workers is forgotten.
TakeUnlimited(m) == pc[m] = "idle" /\ m \in queue /\ queue' = queue \ {m}

\* A worker takes key m: never while another worker has it, and at most
\* MaxConcurrent at a time.
Take(m) ==
  /\ pc[m] = "idle"
  /\ m \in queue
  /\ Cardinality(Active) < MaxConcurrent
  /\ queue' = queue \ {m}

\* Reconcile returns; its local variables are forgotten. A requeue, with or
\* without a delay, puts the key back: the length of the delay is not modelled.
Return(m, requeue) ==
  /\ pc' = [pc EXCEPT ![m] = "idle"]
  /\ base' = [base EXCEPT ![m] = Applied(m)]
  /\ obj' = [obj EXCEPT ![m] = Applied(m)]
  /\ got' = [got EXCEPT ![m] = NoInfra("gone")]
  /\ again' = [again EXCEPT ![m] = FALSE]
  /\ allowed' = [allowed EXCEPT ![m] = FALSE]
  /\ queue' = IF requeue THEN queue \cup {m} ELSE queue

\* Optimistic concurrency: an Update carries the resourceVersion that was read,
\* and fails when the object has changed since. No write of this system brings
\* an object back to an earlier content while a reconcile holds that content,
\* so comparing contents is comparing versions.
Conflict(m) == machine[m] # base[m]

\* The Machine is not in the cache: nothing to do.
ReconcileGone(m) ==
  /\ Take(m)
  /\ ~cached[m].live
  /\ UNCHANGED <<apiVars, cacheVars, handlerVars, watch, manager, boundVars>>

\* The normal loop: keep a copy for the patch, add the finalizer in memory.
ReconcileNormal(m) ==
  /\ Take(m)
  /\ cached[m].live /\ ~cached[m].deleting
  /\ pc' = [pc EXCEPT ![m] = IF InfraRef[m] = None THEN "nodeRef" ELSE "getInfra"]
  /\ base' = [base EXCEPT ![m] = cached[m]]
  /\ obj' = [obj EXCEPT ![m] = [cached[m] EXCEPT !.finalizer = TRUE]]
  /\ UNCHANGED <<apiVars, cacheVars, got, again, allowed, watch, manager, boundVars>>

\* The deletion loop: the phase is written first, unless it already is.
ReconcileDeleting(m) ==
  /\ Take(m)
  /\ cached[m].live /\ cached[m].deleting
  /\ pc' = [pc EXCEPT ![m] =
             IF cached[m].phase = "Terminating" THEN "delete" ELSE "markTerminating"]
  /\ base' = [base EXCEPT ![m] = cached[m]]
  /\ obj' = [obj EXCEPT ![m] = [cached[m] EXCEPT !.phase = "Terminating"]]
  /\ UNCHANGED <<apiVars, cacheVars, got, again, allowed, watch, manager, boundVars>>

--------------------------------------------------------------------------------
(* reconcileInfrastructure. Its errors are collected, never returned early: *)
(* reconcileNodeRef, reconcilePhase and the patch always follow.            *)

Fails(m) == again' = [again EXCEPT ![m] = TRUE]

At(m, step) == pc' = [pc EXCEPT ![m] = step]

\* Mutant of Notify: the event of a key that a worker has is dropped.
NotifyIdle(owners) ==
  queue' = IF watch = "watching"
           THEN queue \cup {m \in owners \cap Machine : pc[m] = "idle"} ELSE queue

\* Mutant of Notify: the watch is added without a handler that enqueues.
NotifyNobody(owners) == UNCHANGED queue

\* EnqueueRequestForOwner, once the informer on the kind runs.
Notify(owners) ==
  queue' = IF watch = "watching" THEN queue \cup (owners \ {None}) ELSE queue

\* Mutant of OwnedByOther: the owner is set without a look at the present one.
OwnerIgnored(m, o) == FALSE

\* controllerutil.SetControllerReference refuses a second controller.
OwnedByOther(m, o) == o.owner \notin {None, m}

\* Mutant of InfraNotFound: polls for the object, but records no failure.
InfraNotFoundPolls(m) ==
  /\ pc[m] = "getInfra"
  /\ Missing(InfraRef[m])
  /\ Fails(m)
  /\ At(m, "nodeRef")
  /\ UNCHANGED <<apiVars, cacheVars, base, obj, got, allowed, queue, watch, manager, boundVars>>

\* The object is not there: poll for it; if the Machine was ready, it failed.
InfraNotFound(m) ==
  /\ pc[m] = "getInfra"
  /\ Missing(InfraRef[m])
  /\ obj' = [obj EXCEPT ![m].failed = obj[m].failed \/ obj[m].infraReady]
  /\ Fails(m)
  /\ At(m, "nodeRef")
  /\ UNCHANGED <<apiVars, cacheVars, base, got, allowed, queue, watch, manager, boundVars>>

InfraAlreadyOwned(m) ==
  /\ pc[m] = "getInfra"
  /\ ~Missing(InfraRef[m])
  /\ OwnedByOther(m, infra[InfraRef[m]])
  /\ Fails(m)
  /\ At(m, "nodeRef")
  /\ UNCHANGED <<apiVars, cacheVars, base, obj, got, allowed, queue, watch, manager, boundVars>>

GetInfra(m) ==
  /\ pc[m] = "getInfra"
  /\ ~Missing(InfraRef[m])
  /\ ~OwnedByOther(m, infra[InfraRef[m]])
  /\ got' = [got EXCEPT ![m] = infra[InfraRef[m]]]
  /\ At(m, "patchInfra")
  /\ UNCHANGED <<apiVars, cacheVars, base, obj, again, allowed, queue, watch, manager, boundVars>>

\* The object went away between the read and the patch. (Without a difference
\* there is no patch to send, and nothing to fail.)
AdoptFails(m) ==
  /\ pc[m] = "patchInfra"
  /\ Missing(InfraRef[m]) /\ got[m].owner # m
  /\ Fails(m)
  /\ At(m, "nodeRef")
  /\ UNCHANGED <<apiVars, cacheVars, base, obj, got, allowed, queue, watch, manager, boundVars>>

\* The patch replaces the list of owners, whatever it has become meanwhile.
Adopted(m) ==
  IF got[m].owner = m THEN infra ELSE [infra EXCEPT ![InfraRef[m]].owner = m]

CanAdopt(m) == pc[m] = "patchInfra" /\ (~Missing(InfraRef[m]) \/ got[m].owner = m)

\* What reconcileInfrastructure takes over from the object it read.
TakenOver(m) ==
  LET failed == obj[m].failed \/ got[m].failed
  IN IF got[m].st = "deleting" THEN [obj[m] EXCEPT !.failed = failed]
     ELSE [obj[m] EXCEPT !.failed = failed,
             !.infraReady = got[m].status # "pending",
             !.providerID = IF got[m].status = "ready" THEN InfraRef[m] ELSE @]

\* Adopt the object, which is a call to the API server.
PatchInfra(m) ==
  /\ CanAdopt(m)
  /\ infra' = Adopted(m)
  /\ IF got[m].owner = m THEN UNCHANGED queue ELSE Notify({infra[InfraRef[m]].owner, m})
  /\ At(m, "watchInfra")
  /\ UNCHANGED <<machine, node, cacheVars, base, obj, got, again, allowed, watch,
                 manager, boundVars>>

\* ObjectTracker.Watch is done, and the rest of reconcileInfrastructure follows.
TakesOver(m) ==
  /\ obj' = [obj EXCEPT ![m] = TakenOver(m)]
  /\ again' = [again EXCEPT ![m] = got[m].st # "deleting" /\ got[m].status # "ready"]
  /\ At(m, "nodeRef")
  /\ UNCHANGED <<apiVars, cacheVars, base, got, allowed, manager, boundVars>>

\* LoadOrStore finds the kind: Watch returns at once, whether the informer runs,
\* another worker is still adding it, or could not add it.
KindSeen(m) ==
  /\ pc[m] = "watchInfra"
  /\ watch # "none"
  /\ TakesOver(m)
  /\ UNCHANGED <<queue, watch>>

\* Mutant of FirstOfKind: Load, then Store only once the watch has been added.
FirstOfKindLoads(m) ==
  /\ pc[m] = "watchInfra"
  /\ watch = "none"
  /\ At(m, "addWatch")
  /\ UNCHANGED <<apiVars, cacheVars, base, obj, got, again, allowed, queue, watch,
                 manager, boundVars>>

\* LoadOrStore stores the kind: this worker goes on to Controller.Watch.
FirstOfKind(m) ==
  /\ pc[m] = "watchInfra"
  /\ watch = "none"
  /\ watch' = "adding"
  /\ At(m, "addWatch")
  /\ UNCHANGED <<apiVars, cacheVars, base, obj, got, again, allowed, queue, manager, boundVars>>

\* Mutant of WatchAdded: the informer starts, the objects that it finds wake nobody.
WatchAddedSilently(m) ==
  /\ pc[m] = "addWatch"
  /\ watch' = "watching"
  /\ TakesOver(m)
  /\ UNCHANGED queue

\* Controller.Watch has started the informer: its initial list notifies the owners
\* of all the objects that are there by now.
WatchAdded(m) ==
  /\ pc[m] = "addWatch"
  /\ watch' = "watching"
  /\ queue' = queue \cup ({infra[i].owner : i \in {j \in Infra : ~Missing(j)}} \ {None})
  /\ TakesOver(m)

\* Controller.Watch returns an error. The tracker keeps the kind (it deletes
\* the object, not the kind, from its map), so nobody will try again.
WatchFails(m) ==
  /\ WatchMayFail
  /\ pc[m] = "addWatch"
  /\ faults < MaxFaults
  /\ faults' = faults + 1
  /\ watch' = "lost"
  /\ Fails(m)
  /\ At(m, "nodeRef")
  /\ UNCHANGED <<apiVars, cacheVars, base, obj, got, allowed, queue, manager, disruptions>>

--------------------------------------------------------------------------------
(* reconcileNodeRef, reconcilePhase and the deferred patch. *)

\* Mutant of ReconcilePhase: a Machine with a Node runs, whatever failed.
ReconcilePhaseByNode(o) ==
  [o EXCEPT !.phase = CASE o.deleting -> "Terminating"
                        [] o.nodeRef # None /\ ~o.deleting -> "Running"
                        [] OTHER -> IF o.failed THEN "Failed"
                                    ELSE IF o.phase = "" THEN "Pending" ELSE o.phase]

ReconcilePhase(o) ==
  [o EXCEPT !.phase = CASE o.deleting -> "Terminating"
                        [] o.failed /\ ~o.deleting -> "Failed"
                        [] o.nodeRef # None /\ ~o.failed /\ ~o.deleting -> "Running"
                        [] OTHER -> IF o.phase = "" THEN "Pending" ELSE o.phase]

NeedsNode(o) == o.nodeRef = None /\ o.providerID # None

NodeRef(m) ==
  /\ pc[m] = "nodeRef"
  /\ LET o == obj[m]
         found == NeedsNode(o) /\ o.providerID \in nodeCache
     IN /\ obj' = [obj EXCEPT ![m] = ReconcilePhase(
                     [o EXCEPT !.nodeRef = IF found THEN o.providerID ELSE @])]
        /\ again' = [again EXCEPT ![m] = @ \/ (NeedsNode(o) /\ ~found)]
  /\ At(m, "patch")
  /\ UNCHANGED <<apiVars, cacheVars, base, got, allowed, queue, watch, manager, boundVars>>

\* A merge patch carries the fields that differ from the copy that was read.
Merged(live, before, after) == IF before = after THEN live ELSE after

SpecDiffers(m) ==
  base[m].finalizer # obj[m].finalizer \/ base[m].providerID # obj[m].providerID

StatusDiffers(m) ==
  \/ base[m].nodeRef # obj[m].nodeRef \/ base[m].phase # obj[m].phase
  \/ base[m].infraReady # obj[m].infraReady \/ base[m].failed # obj[m].failed

\* Mutant of PatchMachine: the object in memory is written over the present one.
PatchMachineWhole(m) ==
  /\ pc[m] = "patch"
  /\ LET written == SpecDiffers(m) /\ machine[m].live
     IN machine' = IF written THEN [machine EXCEPT ![m] = obj[m]] ELSE machine
  /\ At(m, "patchStatus")
  /\ UNCHANGED <<infra, node, cacheVars, base, obj, got, again, allowed, queue, watch,
                 manager, boundVars>>

\* Patch the object without its status; a failure does not keep the status back.
PatchMachine(m) ==
  /\ pc[m] = "patch"
  /\ LET live == machine[m]
         written == SpecDiffers(m) /\ live.live
     IN /\ machine' = IF written
                      THEN [machine EXCEPT ![m] = [live EXCEPT
                             !.finalizer = Merged(@, base[m].finalizer, obj[m].finalizer),
                             !.providerID = Merged(@, base[m].providerID, obj[m].providerID)]]
                      ELSE machine
        /\ again' = [again EXCEPT ![m] = @ \/ (SpecDiffers(m) /\ ~live.live)]
  /\ At(m, "patchStatus")
  /\ UNCHANGED <<infra, node, cacheVars, base, obj, got, allowed, queue, watch, manager, boundVars>>

\* Mutant of PatchStatus: the whole status is sent, not what this reconcile changed.
PatchStatusWhole(m) ==
  /\ pc[m] = "patchStatus"
  /\ machine' = IF machine[m].live
                THEN [machine EXCEPT ![m] = [@ EXCEPT
                       !.nodeRef = obj[m].nodeRef, !.phase = obj[m].phase,
                       !.infraReady = obj[m].infraReady, !.failed = obj[m].failed]]
                ELSE machine
  /\ Return(m, again[m] \/ ~machine[m].live)
  /\ UNCHANGED <<infra, node, cacheVars, watch, manager, boundVars>>

PatchStatus(m) ==
  /\ pc[m] = "patchStatus"
  /\ LET live == machine[m]
         written == StatusDiffers(m) /\ live.live
     IN /\ machine' = IF written
                      THEN [machine EXCEPT ![m] = [live EXCEPT
                             !.nodeRef = Merged(@, base[m].nodeRef, obj[m].nodeRef),
                             !.phase = Merged(@, base[m].phase, obj[m].phase),
                             !.infraReady = Merged(@, base[m].infraReady, obj[m].infraReady),
                             !.failed = Merged(@, base[m].failed, obj[m].failed)]]
                      ELSE machine
        /\ Return(m, again[m] \/ (StatusDiffers(m) /\ ~live.live))
  /\ UNCHANGED <<infra, node, cacheVars, watch, manager, boundVars>>

--------------------------------------------------------------------------------
(* The deletion loop. *)

\* Mutant of MarkTerminating: the copy does not get the new resourceVersion.
MarkTerminatingOldCopy(m) ==
  /\ pc[m] = "markTerminating"
  /\ IF Conflict(m)
     THEN /\ Return(m, TRUE)
          /\ UNCHANGED machine
     ELSE /\ machine' = [machine EXCEPT ![m] = obj[m]]
          /\ At(m, "delete")
          /\ UNCHANGED <<base, obj, got, again, allowed, queue>>
  /\ UNCHANGED <<infra, node, cacheVars, watch, manager, boundVars>>

\* Write the phase. Gone or changed since it was read: an error, start over.
MarkTerminating(m) ==
  /\ pc[m] = "markTerminating"
  /\ IF Conflict(m)
     THEN /\ Return(m, TRUE)
          /\ UNCHANGED machine
     ELSE /\ machine' = [machine EXCEPT ![m] = obj[m]]
          /\ base' = [base EXCEPT ![m] = obj[m]]
          /\ At(m, "delete")
          /\ UNCHANGED <<obj, got, again, allowed, queue>>
  /\ UNCHANGED <<infra, node, cacheVars, watch, manager, boundVars>>

\* Mutant of IsDeleteNodeAllowed: the control plane is not counted.
DeleteNodeAlwaysAllowed(m) == TRUE

\* The last Machine of the control plane, as far as the cache knows, keeps its
\* Node. (Without a NodeRef reconcileDelete has returned before it asks.)
IsDeleteNodeAllowed(m) ==
  ~(m \in ControlPlane /\ Cardinality({n \in ControlPlane : cached[n].live}) = 1)

\* A Machine without a NodeRef leaves its infrastructure to the garbage collector.
Delete(m) ==
  /\ pc[m] = "delete"
  /\ allowed' = [allowed EXCEPT ![m] = obj[m].nodeRef # None /\ IsDeleteNodeAllowed(m)]
  /\ At(m, IF obj[m].nodeRef = None THEN "removeFinalizer"
           ELSE IF IsDeleteNodeAllowed(m) THEN "drain" ELSE "deleteExternal")
  /\ UNCHANGED <<apiVars, cacheVars, base, obj, got, again, queue, watch, manager, boundVars>>

\* Mutant of Cordon: the Node is made unschedulable, but its pods are left alone.
CordonOnly(m) ==
  /\ pc[m] = "drain"
  /\ At(m, "deleteExternal")
  /\ LET n == obj[m].nodeRef
     IN node' = [node EXCEPT ![n] = IF @ = "none" THEN @ ELSE "cordoned"]
  /\ UNCHANGED <<machine, infra, cacheVars, base, obj, got, again, allowed, queue,
                 watch, manager, boundVars>>

\* drainNode: get the Node and cordon it; nothing to drain if it is not there.
Cordon(m) ==
  /\ pc[m] = "drain"
  /\ LET n == obj[m].nodeRef
     IN IF node[n] = "none"
        THEN At(m, "deleteExternal") /\ UNCHANGED node
        ELSE At(m, "evict") /\ node' = [node EXCEPT ![n] = "cordoned"]
  /\ UNCHANGED <<machine, infra, cacheVars, base, obj, got, again, allowed, queue,
                 watch, manager, boundVars>>

\* Mutant of Evict: goes on with the Node instead of the infrastructure.
EvictThenNode(m) ==
  /\ pc[m] = "evict"
  /\ LET n == obj[m].nodeRef
     IN node' = [node EXCEPT ![n] = IF @ = "cordoned" THEN "drained" ELSE @]
  /\ At(m, "deleteNode")
  /\ UNCHANGED <<machine, infra, cacheVars, base, obj, got, again, allowed, queue,
                 watch, manager, boundVars>>

\* drainNode: evict the pods of the Node.
Evict(m) ==
  /\ pc[m] = "evict"
  /\ LET n == obj[m].nodeRef
     IN node' = [node EXCEPT ![n] = IF @ = "cordoned" THEN "drained" ELSE @]
  /\ At(m, "deleteExternal")
  /\ UNCHANGED <<machine, infra, cacheVars, base, obj, got, again, allowed, queue,
                 watch, manager, boundVars>>

InfraToDelete(m) == InfraRef[m] # None /\ ~Missing(InfraRef[m])

\* reconcileDeleteExternal asks for the deletion and does not wait for it. (Its
\* get and its delete are one step: between them the object may go, which the
\* delete tolerates, and has the outcome of the object going right after.)
DeleteExternal(m) ==
  /\ pc[m] = "deleteExternal"
  /\ InfraToDelete(m)
  /\ infra' = [infra EXCEPT ![InfraRef[m]].st = "deleting"]
  /\ Notify({infra[InfraRef[m]].owner})
  /\ At(m, IF allowed[m] THEN "deleteNode" ELSE "removeFinalizer")
  /\ UNCHANGED <<machine, node, cacheVars, base, obj, got, again, allowed, watch,
                 manager, boundVars>>

\* The manager's process ends: nothing in memory survives.
Stops ==
  /\ pc' = [m \in Machine |-> "idle"]
  /\ base' = [m \in Machine |-> Applied(m)]
  /\ obj' = [m \in Machine |-> Applied(m)]
  /\ got' = [m \in Machine |-> NoInfra("gone")]
  /\ again' = [m \in Machine |-> FALSE]
  /\ allowed' = [m \in Machine |-> FALSE]
  /\ queue' = {}
  /\ watch' = "none"

\* Without a reference, external.Get dereferences nil; when the object is not
\* found, Get has returned a nil object and Delete dereferences it. The panic
\* of one worker ends the process.
DeleteExternalPanics(m) ==
  /\ pc[m] = "deleteExternal"
  /\ ~InfraToDelete(m)
  /\ manager' = "panicked"
  /\ Stops
  /\ UNCHANGED <<apiVars, cacheVars, boundVars>>

DeleteNode(m) ==
  /\ pc[m] = "deleteNode"
  /\ node' = [node EXCEPT ![obj[m].nodeRef] = "none"]
  /\ At(m, "removeFinalizer")
  /\ UNCHANGED <<machine, infra, cacheVars, base, obj, got, again, allowed, queue,
                 watch, manager, boundVars>>

\* Update without the finalizer: the API server removes the object.
RemoveFinalizer(m) ==
  /\ pc[m] = "removeFinalizer"
  /\ machine' = IF Conflict(m) THEN machine ELSE [machine EXCEPT ![m] = Removed(m)]
  /\ Return(m, Conflict(m))
  /\ UNCHANGED <<infra, node, cacheVars, watch, manager, boundVars>>

--------------------------------------------------------------------------------
(* Faults. *)

\* Mutant of ApiError: the deletion goes on to the finalizer after an error.
ApiErrorReleases(m) ==
  /\ faults < MaxFaults
  /\ faults' = faults + 1
  /\ pc[m] \in {"drain", "evict", "deleteExternal", "deleteNode"}
  /\ At(m, "removeFinalizer")
  /\ UNCHANGED <<apiVars, cacheVars, base, obj, got, again, allowed, queue, watch,
                 manager, disruptions>>

\* Mutant of ApiError: the deletion loop logs the error and returns without it.
ApiErrorForgets(m) ==
  /\ faults < MaxFaults
  /\ faults' = faults + 1
  /\ pc[m] \in {"markTerminating", "drain", "evict", "deleteExternal", "removeFinalizer"}
  /\ Return(m, FALSE)
  /\ UNCHANGED <<apiVars, cacheVars, watch, manager, disruptions>>

\* A call to the API server fails for another reason than "not found". The
\* normal loop goes on and requeues; the deletion loop returns the error; the
\* deletion of the Node is retried for ten seconds and then skipped.
ApiError(m) ==
  /\ faults < MaxFaults
  /\ faults' = faults + 1
  /\ \/ /\ pc[m] \in {"getInfra", "patchInfra", "patch"}
        /\ pc[m] = "patchInfra" => got[m].owner # m
        /\ pc[m] = "patch" => SpecDiffers(m)
        /\ Fails(m)
        /\ At(m, IF pc[m] = "patch" THEN "patchStatus" ELSE "nodeRef")
        /\ UNCHANGED <<base, obj, got, allowed, queue>>
     \/ /\ \/ pc[m] = "patchStatus" /\ StatusDiffers(m)
           \/ pc[m] \in {"markTerminating", "drain", "evict", "deleteExternal",
                         "removeFinalizer"}
        /\ Return(m, TRUE)
     \/ /\ pc[m] = "deleteNode"
        /\ At(m, "removeFinalizer")
        /\ UNCHANGED <<base, obj, got, again, allowed, queue>>
  /\ UNCHANGED <<apiVars, cacheVars, watch, manager, disruptions>>

Crash ==
  /\ manager = "running"
  /\ faults < MaxFaults
  /\ faults' = faults + 1
  /\ manager' = "killed"
  /\ Stops
  /\ UNCHANGED <<apiVars, cacheVars, disruptions>>

\* The informers list everything again; every Machine is reconciled.
Restart ==
  /\ manager # "running"
  /\ manager' = "running"
  /\ cached' = machine
  /\ nodeCache' = {i \in Infra : node[i] # "none"}
  /\ queue' = {m \in Machine : machine[m].live}
  /\ UNCHANGED <<apiVars, handlerVars, watch, boundVars>>

--------------------------------------------------------------------------------
(* The informers. *)

\* The latest version of a Machine reaches the cache; the event enqueues its key.
Deliver(m) ==
  /\ manager = "running"
  /\ cached[m] # machine[m]
  /\ cached' = [cached EXCEPT ![m] = machine[m]]
  /\ queue' = queue \cup {m}
  /\ UNCHANGED <<apiVars, nodeCache, handlerVars, watch, manager, boundVars>>

\* A Node appears in the cache or leaves it; Nodes enqueue no Machine.
SyncNode(i) ==
  /\ manager = "running"
  /\ (i \in nodeCache) # (node[i] # "none")
  /\ nodeCache' = IF i \in nodeCache THEN nodeCache \ {i} ELSE nodeCache \cup {i}
  /\ UNCHANGED <<apiVars, cached, handlerVars, queue, watch, manager, boundVars>>

\* The informer's periodic resync enqueues every Machine it has.
Resync(m) ==
  /\ Resyncs
  /\ manager = "running"
  /\ cached[m].live
  /\ queue' = queue \cup {m}
  /\ UNCHANGED <<apiVars, cacheVars, handlerVars, watch, manager, boundVars>>

--------------------------------------------------------------------------------
(* The user, the infrastructure providers, the kubelets, the garbage         *)
(* collector: not part of this repository.                                   *)

EnvUnchanged == UNCHANGED <<cacheVars, handlerVars, watch, manager, faults>>

Disrupts ==
  /\ disruptions < MaxDisruptions
  /\ disruptions' = disruptions + 1

DeleteMachine(m) ==
  /\ m \in Deletable
  /\ machine[m].live /\ ~machine[m].deleting
  /\ machine' = [machine EXCEPT ![m] =
       IF @.finalizer THEN [@ EXCEPT !.deleting = TRUE] ELSE Removed(m)]
  /\ UNCHANGED <<infra, node, queue, disruptions>>
  /\ EnvUnchanged

\* An infrastructure object becomes o; its owner is notified of the event.
InfraBecomes(i, o) ==
  /\ infra' = [infra EXCEPT ![i] = o]
  /\ Notify({infra[i].owner})
  /\ UNCHANGED <<machine, node>>
  /\ EnvUnchanged

ApplyInfra(i) ==
  /\ infra[i].st = "unapplied"
  /\ InfraBecomes(i, NoInfra("present"))
  /\ UNCHANGED disruptions

\* The provider brings the object up; its provider ID may come after readiness.
ProviderProgress(i) ==
  /\ infra[i].st = "present"
  /\ \E s \in {"readyNoID", "ready"} :
       /\ infra[i].status # "ready" /\ s # infra[i].status
       /\ InfraBecomes(i, [infra[i] EXCEPT !.status = s])
  /\ UNCHANGED disruptions

ProviderRegress(i) ==
  /\ infra[i].st = "present" /\ infra[i].status # "pending"
  /\ Disrupts
  /\ InfraBecomes(i, [infra[i] EXCEPT !.status = "pending"])

\* The provider reports a failure, or withdraws its report.
ProviderFails(i) ==
  /\ infra[i].st = "present"
  /\ Disrupts
  /\ InfraBecomes(i, [infra[i] EXCEPT !.failed = ~@])

\* An admin deletes the object behind the Machine's back.
DeleteInfra(i) ==
  /\ infra[i].st = "present"
  /\ Disrupts
  /\ InfraBecomes(i, [infra[i] EXCEPT !.st = "deleting"])

\* The garbage collector: the owner is gone.
CollectInfra(i) ==
  /\ infra[i].st = "present"
  /\ infra[i].owner # None /\ ~machine[infra[i].owner].live
  /\ InfraBecomes(i, [infra[i] EXCEPT !.st = "deleting"])
  /\ UNCHANGED disruptions

\* The provider has torn the infrastructure down.
FinishInfra(i) ==
  /\ infra[i].st = "deleting"
  /\ InfraBecomes(i, NoInfra("gone"))
  /\ UNCHANGED disruptions

NodeBecomes(i, s) ==
  /\ node' = [node EXCEPT ![i] = s]
  /\ UNCHANGED <<machine, infra, queue>>
  /\ EnvUnchanged

\* The kubelet of running infrastructure (or of a machine that nobody's
\* infrastructure describes) registers its Node.
RegisterNode(i) ==
  /\ node[i] = "none"
  /\ ~Missing(i) \/ \A m \in Machine : InfraRef[m] # i
  /\ NodeBecomes(i, "active")
  /\ UNCHANGED disruptions

RemoveNode(i) ==
  /\ node[i] # "none"
  /\ Disrupts
  /\ NodeBecomes(i, "none")

--------------------------------------------------------------------------------
StartOfReconcile(m) ==
  ReconcileGone(m) \/ ReconcileNormal(m) \/ ReconcileDeleting(m)

NormalStep(m) ==
  \/ InfraNotFound(m) \/ InfraAlreadyOwned(m) \/ GetInfra(m)
  \/ AdoptFails(m) \/ PatchInfra(m)
  \/ KindSeen(m) \/ FirstOfKind(m) \/ WatchAdded(m) \/ WatchFails(m)
  \/ NodeRef(m) \/ PatchMachine(m) \/ PatchStatus(m)

DeletionStep(m) ==
  \/ MarkTerminating(m) \/ Delete(m) \/ Cordon(m) \/ Evict(m)
  \/ DeleteExternal(m) \/ DeleteExternalPanics(m)
  \/ DeleteNode(m) \/ RemoveFinalizer(m)

HandlerStep(m) == NormalStep(m) \/ DeletionStep(m)

ProviderStep(i) ==
  \/ ApplyInfra(i) \/ ProviderProgress(i) \/ ProviderRegress(i) \/ ProviderFails(i)
  \/ DeleteInfra(i) \/ CollectInfra(i) \/ FinishInfra(i)

NodeStep(i) == RegisterNode(i) \/ RemoveNode(i)

Next ==
  \/ \E m \in Machine :
       \/ StartOfReconcile(m) \/ HandlerStep(m) \/ ApiError(m)
       \/ Deliver(m) \/ Resync(m) \/ DeleteMachine(m)
  \/ \E i \in Infra : SyncNode(i) \/ ProviderStep(i) \/ NodeStep(i)
  \/ Crash \/ Restart

Spec == Init /\ [][Next]_vars

\* A worker that has a key finishes; no key waits in the queue for ever, the queue
\* being first in first out, although workers are now free, now busy; the
\* informers catch up; Kubernetes restarts the manager's pod.
Fairness ==
  /\ \A m \in Machine :
       /\ WF_vars(HandlerStep(m))
       /\ SF_vars(StartOfReconcile(m))
       /\ WF_vars(Deliver(m))
  /\ \A i \in Infra : WF_vars(SyncNode(i))
  /\ WF_vars(Restart)

FairSpec == Spec /\ Fairness

--------------------------------------------------------------------------------
(* What every reconcile relies on.                                         *)

DeletionStages == {"markTerminating", "delete", "drain", "evict", "deleteExternal",
                   "deleteNode", "removeFinalizer"}

Stages == DeletionStages \cup
          {"idle", "getInfra", "patchInfra", "watchInfra", "addWatch",
           "nodeRef", "patch", "patchStatus"}

Typed ==
  /\ machine \in [Machine -> MachineObject] /\ cached \in [Machine -> MachineObject]
  /\ infra \in [Infra -> InfraObject]
  /\ node \in [Infra -> {"none", "active", "cordoned", "drained"}]
  /\ nodeCache \subseteq Infra
  /\ queue \subseteq Machine
  /\ watch \in {"none", "adding", "watching", "lost"}
  /\ manager \in {"running", "killed", "panicked"}
  /\ pc \in [Machine -> Stages]
  /\ \A m \in Machine :
       pc[m] \in {"getInfra", "patchInfra", "watchInfra", "addWatch"} => InfraRef[m] # None
  /\ base \in [Machine -> MachineObject] /\ obj \in [Machine -> MachineObject]
  /\ got \in [Machine -> InfraObject]
  /\ again \in [Machine -> BOOLEAN] /\ allowed \in [Machine -> BOOLEAN]
  /\ faults \in Nat /\ disruptions \in Nat

\* The types of the variables, and the limit on concurrent reconciles
\* (main.go passes it as MaxConcurrentReconciles).
TypeOK == Typed /\ Cardinality(Active) <= MaxConcurrent

\* The only provider ID, and hence the only Node, a Machine can ever have.
ID(m) == IF InfraRef[m] = None THEN GivenID[m] ELSE InfraRef[m]

IsOf(m, o) == o.providerID \in {None, ID(m)} /\ o.nodeRef \in {None, ID(m)}

\* Every copy of a Machine, however old, names the Machine's own Node.
CopiesAgree ==
  \A m \in Machine :
    IsOf(m, machine[m]) /\ IsOf(m, cached[m]) /\ IsOf(m, base[m]) /\ IsOf(m, obj[m])

BeingDeleted(o) == o.live /\ o.deleting

\* A Machine that some reconcile has seen being deleted is being deleted, or
\* gone: it is not written back to life by a patch that began before.
DeletionIsFinal ==
  \A m \in Machine :
    LET lasting == ~machine[m].live \/ machine[m].deleting
    IN /\ BeingDeleted(cached[m]) => lasting
       /\ pc[m] \in DeletionStages => BeingDeleted(base[m]) /\ lasting

\* In memory a reconcile only ever adds a NodeRef; and once the phase is
\* written, the deletion loop works on the very content that it read.
WorkingCopies ==
  \A m \in Machine :
    /\ base[m].nodeRef # None => obj[m].nodeRef = base[m].nodeRef
    /\ pc[m] \in DeletionStages => obj[m] = [base[m] EXCEPT !.phase = "Terminating"]
    /\ pc[m] \in DeletionStages \ {"markTerminating"} => obj[m] = base[m]
    /\ pc[m] \in {"drain", "evict", "deleteExternal", "deleteNode"}
         => obj[m].nodeRef # None

Torn(m) == InfraRef[m] # None /\ infra[InfraRef[m]].st \in {"deleting", "gone"}

\* A reconcile deletes the Node, and gives up the Machine, only after it asked
\* for the deletion of the infrastructure.
TeardownFirst ==
  \A m \in Machine :
    /\ pc[m] = "deleteNode" => Torn(m)
    /\ pc[m] = "removeFinalizer" /\ base[m].nodeRef # None => Torn(m)

\* The kind is being added to the watched ones as long as one worker, and one
\* only, is inside Controller.Watch.
OneAdder ==
  /\ watch = "adding" <=> \E m \in Machine : pc[m] = "addWatch"
  /\ \A m, n \in Machine : pc[m] = "addWatch" /\ pc[n] = "addWatch" => m = n

\* The invariant of the controller: what any interleaving of workers, caches
\* and crashes leaves true of the objects and of every reconcile under way.
ControllerInv ==
  CopiesAgree /\ DeletionIsFinal /\ WorkingCopies /\ TeardownFirst /\ OneAdder

--------------------------------------------------------------------------------
(* Safety. *)

\* The Node of a Machine, once known, is known for good: neither a reconcile
\* that works from an old copy nor a Node that comes and goes makes the merge
\* patch (util/patch) or the Update of the deletion clear or change it.
NodeRefStable ==
  [][\A m \in Machine :
       machine[m].live /\ machine'[m].live /\ machine[m].nodeRef # None
         => machine'[m].nodeRef = machine[m].nodeRef]_vars

\* A Machine with the finalizer that got a Node is not removed before the
\* deletion of its infrastructure was asked for, whatever fails on the way. The
\* comment in reconcileDelete promises more, "Return early and don't remove the
\* finalizer if we got an error or the external reconciliation deletion isn't
\* ready": its second half is ReleaseAwaitsTeardown, which the code does not keep.
ReleaseAfterTeardown ==
  [][\A m \in Machine :
       /\ machine[m].live /\ machine[m].finalizer /\ machine[m].nodeRef # None
       /\ ~machine'[m].live
       => Torn(m)]_vars

\* The controller (no admin being at work) deletes a Node only once its
\* infrastructure is on its way out.
InfraBeforeNode ==
  [][\A i \in Infra :
       node[i] # "none" /\ node'[i] = "none" /\ disruptions' = disruptions
         => infra[i].st \in {"deleting", "gone"}]_vars

\* The infrastructure of a worker Machine is not deleted under a Node that
\* still runs pods (reconcileDelete drains "before deletion").
DrainedBeforeTeardown ==
  [][\A m \in Machine \ ControlPlane :
       LET i == InfraRef[m]
       IN i # None /\ machine[m].live /\ infra[i].owner = m
            /\ infra[i].st = "present" /\ infra'[i].st = "deleting"
            /\ disruptions' = disruptions
            => node[i] \in {"none", "drained"}]_vars

\* Neither cordoned nor drained nor deleted by the controller, no admin being
\* at work: the Node of m, which is no other Machine's.
NodeKept(m) ==
  /\ ID(m) # None /\ \A n \in Machine \ {m} : ID(n) # ID(m)
  /\ node[ID(m)] # "none"
  /\ disruptions' = disruptions
  => node'[ID(m)] = node[ID(m)]

\* The only control plane Machine, as long as it exists, keeps its Node
\* (isDeleteNodeAllowed, called with a cache that may be behind).
SoleControlPlaneKept ==
  [][\A m \in Machine : ControlPlane = {m} /\ machine[m].live => NodeKept(m)]_vars

\* A reconcile of m has read the infrastructure without m as its owner, and is
\* about to write m into it.
AboutToAdopt(m, i) == pc[m] = "patchInfra" /\ InfraRef[m] = i /\ got[m].owner # m

\* m owns i, and nobody else read it before m did and has yet to write.
Owns(m, i) ==
  infra[i].owner = m /\ \A n \in Machine \ {m} : ~AboutToAdopt(n, i)

\* Workers that read an object without an owner take it from each other, because
\* the merge patch replaces the owner that SetControllerReference did not see. But
\* once the last of them has written, its Machine keeps the object for good,
\* however many workers and Machines compete for it: nobody who reads it from
\* then on gets to the patch.
OwnerStands ==
  [][\A m \in Machine, i \in Infra :
       Owns(m, i) => infra'[i].st = "gone" \/ Owns(m, i)']_vars

--------------------------------------------------------------------------------
(* What others see of the Machines.                                        *)

Shown(m) ==
  LET o == machine[m]
  IN [exists |-> o.live, managed |-> o.finalizer, deleting |-> o.deleting,
      noded |-> o.nodeRef # None, ready |-> o.infraReady]

Lifecycle ==
  INSTANCE MachineLifecycle WITH
    life <- [m \in Machine |-> Shown(m)], torn <- {m \in Machine : Torn(m)}

\* Workers, stale caches and crashes never show: each Machine only goes forward,
\* from applied to managed, with a Node, being deleted, torn down and gone.
LivesOneLife == Lifecycle!Spec

--------------------------------------------------------------------------------
(* Liveness, under FairSpec. *)

\* Provided that the providers finish what they were told to tear down, a Machine
\* whose deletion was asked for goes, whatever calls fail, unless the manager
\* panics over and over (see DeletionToleratesMissing).
DeletionCompletes ==
  (\A i \in Infra : WF_vars(FinishInfra(i)))
  => \/ []<>(manager = "panicked")
     \/ \A m \in Machine : BeingDeleted(machine[m]) ~> ~machine[m].live

\* The Machine's status catches up with its infrastructure and its Node,
\* whatever the order of events, stale reads and crashes.
Settled(m) ==
  LET o == machine[m]
      i == InfraRef[m]
      adopted == i # None /\ infra[i].st = "present" /\ infra[i].owner = m
      up == i = None \/ (adopted /\ infra[i].status = "ready")
  IN o.live /\ ~o.deleting
     => /\ adopted => o.infraReady = (infra[i].status # "pending")
        /\ up /\ ID(m) # None /\ node[ID(m)] # "none"
             => o.nodeRef = ID(m) /\ o.phase \in {"Running", "Failed"}

StatusSettles == \A m \in Machine : <>[]Settled(m)

\* Nothing is queued, under way or on its way for the Machine: the controller
\* comes back to it with the next event only.
Asleep(m) ==
  manager = "running" /\ pc[m] = "idle" /\ m \notin queue /\ cached[m] = machine[m]

\* No wake-up is lost. The controller never sleeps on a Machine that is being
\* deleted, that has no finalizer yet, whose failure is not in its phase or, unless
\* the watch on its infrastructure could not be added, whose status is behind its
\* infrastructure and its Node: although no Node enqueues a Machine, a patch may
\* fail in part, and the infrastructure may change while a reconcile holds an old
\* copy of it, while another Machine takes it, and before it is watched. Only while
\* another worker is still inside Controller.Watch may a Machine that found its kind
\* in the tracker sleep on an old status: the initial list will wake it.
NoWakeUpLost ==
  \A m \in Machine :
    Asleep(m) /\ machine[m].live
      => /\ ~machine[m].deleting /\ machine[m].finalizer
         /\ machine[m].failed => machine[m].phase = "Failed"
         /\ Settled(m) \/ watch = "lost" \/ \E n \in Machine \ {m} : pc[n] = "addWatch"

\* A failure, once recorded, ends up as the phase that is shown (reconcilePhase),
\* although a reconcile with an old copy may first write another phase over it.
FailureShown ==
  \A m \in Machine :
    <>[](machine[m].live /\ machine[m].failed => machine[m].phase \in {"Failed", "Terminating"})

\* Provided that the informers resync, infrastructure that goes missing while the
\* Machine is recorded as ready ends up as a failure of the Machine
\* (reconcileInfrastructure).
LostInfra(m) ==
  /\ machine[m].live /\ ~machine[m].deleting /\ machine[m].infraReady
  /\ InfraRef[m] # None /\ infra[InfraRef[m]].st = "gone"

LostInfraReported ==
  (\A m \in Machine : WF_vars(Resync(m)))
  => \A m \in Machine : <>[](LostInfra(m) => machine[m].failed)

--------------------------------------------------------------------------------
(* What comments of the code say and the code does not do.                 *)

\* The deletion of a Machine whose infrastructure is gone goes through:
\* reconcileDeleteExternal tolerates "not found" (controllers/machine/helpers.go).
DeletionToleratesMissing == manager # "panicked"

\* "Return early and don't remove the finalizer if we got an error or the external
\* reconciliation deletion isn't ready", "We only delete the node after the underlying
\* infrastructure is gone" (reconcileDelete, controllers/machine/controller.go): a
\* Machine with a Node outlives its infrastructure.
ReleaseAwaitsTeardown ==
  [][\A m \in Machine :
       /\ machine[m].live /\ machine[m].finalizer /\ machine[m].nodeRef # None
       /\ ~machine'[m].live
       => InfraRef[m] = None \/ infra[InfraRef[m]].st = "gone"]_vars

\* "returns nil only if the Machine's NodeRef is not nil and if the Machine is
\* not the last control plane node in the cluster" (isDeleteNodeAllowed,
\* controllers/machine/helpers.go): the last Node of the control plane stays.
ControlPlaneRemains ==
  ControlPlane # {} => \E m \in ControlPlane : node[ID(m)] # "none"

\* "Ensure we add a watcher to the external object."
\* (controllers/machine/helpers.go)
WatcherAdded ==
  \A i \in Infra :
    infra[i].st = "present" /\ infra[i].owner # None
      ~> (watch = "watching" \/ infra[i].st # "present")

================================================================================
