----------------------- MODULE InfraProviderController -----------------------
(***************************************************************************)
(* The InfrastructureProvider controller (controllers/infraprovider): it   *)
(* adopts the object that Spec.InfrastructureRef names and reports its     *)
(* readiness. The handler is cut at its API calls; it reads the provider   *)
(* from an informer cache, the object at the API server, and writes the    *)
(* status with an Update.                                                  *)
(***************************************************************************)
EXTENDS Naturals

CONSTANTS
  Provider,      \* names of the InfrastructureProvider objects
  Object,        \* the objects they refer to, all of one kind
  None,          \* no owner
  Ref,           \* [Provider -> Object]: Spec.InfrastructureRef
  WatchMayFail,  \* may Controller.Watch return an error?
  MaxFaults,     \* bound of a run: API errors, lost replies and restarts
  MaxChanges     \* bound of a run: what users and operators do

ASSUME ProviderAssumption ==
  /\ None \notin Provider
  /\ Ref \in [Provider -> Object]
  /\ WatchMayFail \in BOOLEAN
  /\ MaxFaults \in Nat /\ MaxChanges \in Nat

VARIABLES
  provider,  \* the InfrastructureProviders at the API server
  cache,     \* what the informer has of each: its latest version, an older one,
             \* or the knowledge that it is gone
  object,    \* the objects at the API server
  queue,     \* the keys in the controller's workqueue
  watch,     \* the informer on the kind of the objects
  task,      \* the reconcile of each key
  faults,    \* faults so far
  changes    \* changes so far

vars == <<provider, cache, object, queue, watch, task, faults, changes>>

--------------------------------------------------------------------------------
ProviderObject == [live : BOOLEAN, ready : BOOLEAN]

ExternalObject ==
  [st : {"absent", "present", "deleting"}, ready : BOOLEAN, owner : Provider \cup {None}]

Absent == [st |-> "absent", ready |-> FALSE, owner |-> None]

\* current: the copy of the provider that was read is still its latest version.
Task ==
  [at : {"idle", "read", "patch", "status"}, current : BOOLEAN, got : ExternalObject]

Idle == [at |-> "idle", current |-> FALSE, got |-> Absent]

Init ==
  /\ provider = [p \in Provider |-> [live |-> TRUE, ready |-> FALSE]]
  /\ cache = [p \in Provider |-> "latest"]
  /\ object = [o \in Object |-> Absent]
  /\ queue = Provider
  /\ watch = "none"
  /\ task = [p \in Provider |-> Idle]
  /\ faults = 0 /\ changes = 0

--------------------------------------------------------------------------------
(* The workqueue. *)

\* Mutant of Take: the options main.go passes are honoured.
TakeConcurrently(p) ==
  /\ p \in queue /\ task[p] = Idle
  /\ queue' = queue \ {p}
  /\ task' = [task EXCEPT ![p].at = "read"]
  /\ UNCHANGED <<provider, cache, object, watch, faults, changes>>

\* SetupWithManager drops the options it is given: there is one worker, whatever
\* main.go passes as MaxConcurrentReconciles.
Take(p) ==
  /\ p \in queue /\ \A q \in Provider : task[q] = Idle
  /\ queue' = queue \ {p}
  /\ task' = [task EXCEPT ![p].at = "read"]
  /\ UNCHANGED <<provider, cache, object, watch, faults, changes>>

\* Reconcile returns. Errors and RequeueAfter put the key back; the length of
\* the delay is not modelled.
Return(p, requeue) ==
  /\ task' = [task EXCEPT ![p] = Idle]
  /\ queue' = IF requeue THEN queue \cup {p} ELSE queue

\* Mutant of Notify: the event of a key that a worker has is dropped.
NotifyIdle(owners) ==
  queue' = IF watch = "watching"
           THEN queue \cup {p \in owners \cap Provider : task[p] = Idle} ELSE queue

\* EnqueueRequestForOwner, once the informer on the kind runs.
Notify(owners) ==
  queue' = IF watch = "watching" THEN queue \cup (owners \ {None}) ELSE queue

--------------------------------------------------------------------------------
(* Reconcile and reconcileExternal.                                        *)

\* Not in the cache: Get returns NotFound, which Reconcile returns as an error.
ProviderGone(p) ==
  /\ task[p].at = "read" /\ cache[p] = "gone"
  /\ Return(p, TRUE)
  /\ UNCHANGED <<provider, cache, object, watch, faults, changes>>

Readable(p) == task[p].at = "read" /\ cache[p] # "gone"

\* Mutant of ObjectNotFound: nobody comes back for the object.
ObjectNotFoundOnce(p) ==
  /\ Readable(p) /\ object[Ref[p]].st = "absent"
  /\ Return(p, FALSE)
  /\ UNCHANGED <<provider, cache, object, watch, faults, changes>>

\* external.Get does not find the object: come back after externalReadyWait.
ObjectNotFound(p) ==
  /\ Readable(p) /\ object[Ref[p]].st = "absent"
  /\ Return(p, TRUE)
  /\ UNCHANGED <<provider, cache, object, watch, faults, changes>>

OwnedByOther(p) == object[Ref[p]].owner \notin {None, p}

\* SetControllerReference refuses a second controller.
ObjectOwned(p) ==
  /\ Readable(p) /\ object[Ref[p]].st # "absent" /\ OwnedByOther(p)
  /\ Return(p, TRUE)
  /\ UNCHANGED <<provider, cache, object, watch, faults, changes>>

\* Mutant of ReadObject: that another one owns the object is tolerated.
ReadAnyObject(p) ==
  /\ Readable(p) /\ object[Ref[p]].st # "absent"
  /\ LET read == [object[Ref[p]] EXCEPT !.owner = IF OwnedByOther(p) THEN p ELSE @]
     IN task' = [task EXCEPT ![p] =
          [at |-> "patch", current |-> cache[p] = "latest", got |-> read]]
  /\ UNCHANGED <<provider, cache, object, queue, watch, faults, changes>>

\* The copies for the rest of the reconcile.
ReadObject(p) ==
  /\ Readable(p) /\ object[Ref[p]].st # "absent" /\ ~OwnedByOther(p)
  /\ task' = [task EXCEPT ![p] = [at |-> "patch", current |-> cache[p] = "latest",
                                  got |-> object[Ref[p]]]]
  /\ UNCHANGED <<provider, cache, object, queue, watch, faults, changes>>

\* The patch sets the owner, if it was not set, on whatever object is there.
Adopted(p) ==
  IF task[p].got.owner = p THEN object ELSE [object EXCEPT ![Ref[p]].owner = p]

CanAdopt(p) ==
  task[p].at = "patch" /\ (object[Ref[p]].st # "absent" \/ task[p].got.owner = p)

\* The object went away since it was read, and there is something to patch.
AdoptFails(p) ==
  /\ task[p].at = "patch" /\ ~CanAdopt(p)
  /\ Return(p, TRUE)
  /\ UNCHANGED <<provider, cache, object, watch, faults, changes>>

\* Patch and Watch: the first success starts the informer, whose initial list
\* notifies the owners of all objects. An object that is being deleted is
\* adopted too, but its readiness is not looked at.
Adopt(p) ==
  /\ CanAdopt(p)
  /\ object' = Adopted(p)
  /\ LET present == {o \in Object : object[o].st # "absent"}
         woken == IF watch = "none" THEN {Adopted(p)[o].owner : o \in present} \ {None}
                  ELSE IF watch = "watching" /\ task[p].got.owner # p
                  THEN {object[Ref[p]].owner, p} \ {None} ELSE {}
     IN queue' = queue \cup woken
  /\ watch' = IF watch = "none" THEN "watching" ELSE watch
  /\ task' = IF task[p].got.st = "deleting" THEN [task EXCEPT ![p] = Idle]
             ELSE [task EXCEPT ![p].at = "status"]
  /\ UNCHANGED <<provider, cache, faults, changes>>

\* Controller.Watch returns an error; the tracker will not try again.
WatchFails(p) ==
  /\ WatchMayFail /\ watch = "none" /\ CanAdopt(p)
  /\ faults < MaxFaults /\ faults' = faults + 1
  /\ object' = Adopted(p)
  /\ watch' = "lost"
  /\ Return(p, TRUE)
  /\ UNCHANGED <<provider, cache, changes>>

\* The status that Update writes; other readers now have an older version.
Written(p) ==
  /\ provider' = [provider EXCEPT ![p].ready = task[p].got.ready]
  /\ cache' = [cache EXCEPT ![p] = IF provider' # provider THEN "stale" ELSE @]

Writable(p) == task[p].at = "status" /\ task[p].current

\* Mutant of UpdateStatus: the readiness is only ever switched on.
UpdateStatusOn(p) ==
  /\ Writable(p)
  /\ IF task[p].got.ready THEN Written(p) ELSE UNCHANGED <<provider, cache>>
  /\ Return(p, FALSE)
  /\ UNCHANGED <<object, watch, faults, changes>>

\* Status().Update; ready or not, nobody comes back without an event.
UpdateStatus(p) ==
  /\ Writable(p)
  /\ Written(p)
  /\ Return(p, FALSE)
  /\ UNCHANGED <<object, watch, faults, changes>>

\* The provider was written, or removed, since its copy was made: a conflict.
UpdateConflicts(p) ==
  /\ task[p].at = "status" /\ ~task[p].current
  /\ Return(p, TRUE)
  /\ UNCHANGED <<provider, cache, object, watch, faults, changes>>

--------------------------------------------------------------------------------
(* Faults.                                                                 *)

\* A call fails, an answer is lost after the call took effect, or status.ready
\* is not a boolean: Reconcile returns the error.
ApiError(p) ==
  /\ task[p].at # "idle"
  /\ faults < MaxFaults /\ faults' = faults + 1
  /\ \/ UNCHANGED <<provider, cache, object>>
     \/ CanAdopt(p) /\ object' = Adopted(p) /\ UNCHANGED <<provider, cache>>
     \/ Writable(p) /\ Written(p) /\ UNCHANGED object
  /\ Return(p, TRUE)
  /\ UNCHANGED <<watch, changes>>

\* The manager is killed and started again: its informers list everything.
Restart ==
  /\ faults < MaxFaults /\ faults' = faults + 1
  /\ task' = [p \in Provider |-> Idle]
  /\ queue' = {p \in Provider : provider[p].live}
  /\ cache' = [p \in Provider |-> IF provider[p].live THEN "latest" ELSE "gone"]
  /\ watch' = "none"
  /\ UNCHANGED <<provider, object, changes>>

--------------------------------------------------------------------------------
(* The informer of the providers, the users, the operators of the objects,  *)
(* the garbage collector.                                                   *)

Deliver(p) ==
  /\ cache[p] = "stale"
  /\ cache' = [cache EXCEPT ![p] = IF provider[p].live THEN "latest" ELSE "gone"]
  /\ queue' = queue \cup {p}
  /\ UNCHANGED <<provider, object, watch, task, faults, changes>>

Changes == changes < MaxChanges /\ changes' = changes + 1

DeleteProvider(p) ==
  /\ Changes
  /\ provider[p].live
  /\ provider' = [provider EXCEPT ![p] = [live |-> FALSE, ready |-> FALSE]]
  /\ cache' = [cache EXCEPT ![p] = "stale"]
  /\ task' = [task EXCEPT ![p].current = FALSE]
  /\ UNCHANGED <<object, queue, watch, faults>>

\* The object becomes x; its owner is notified of the event.
Becomes(o, x) ==
  /\ object' = [object EXCEPT ![o] = x]
  /\ Notify({object[o].owner})
  /\ UNCHANGED <<provider, cache, watch, task, faults>>

ApplyObject(o) ==
  /\ object[o].st = "absent" /\ Changes
  /\ Becomes(o, [Absent EXCEPT !.st = "present"])

\* Its operator finds it ready, or not any more.
Turn(o) ==
  /\ object[o].st = "present" /\ Changes
  /\ Becomes(o, [object[o] EXCEPT !.ready = ~@])

DeleteObject(o) ==
  /\ object[o].st = "present" /\ Changes
  /\ Becomes(o, [object[o] EXCEPT !.st = "deleting"])

\* The garbage collector: the owner is gone.
CollectObject(o) ==
  /\ object[o].st = "present" /\ UNCHANGED changes
  /\ object[o].owner # None /\ ~provider[object[o].owner].live
  /\ Becomes(o, [object[o] EXCEPT !.st = "deleting"])

FinishObject(o) ==
  /\ object[o].st = "deleting" /\ UNCHANGED changes
  /\ Becomes(o, Absent)

--------------------------------------------------------------------------------
Step(p) ==
  \/ ProviderGone(p) \/ ObjectNotFound(p) \/ ObjectOwned(p) \/ ReadObject(p)
  \/ AdoptFails(p) \/ Adopt(p) \/ UpdateStatus(p) \/ UpdateConflicts(p)

ObjectStep(o) ==
  ApplyObject(o) \/ Turn(o) \/ DeleteObject(o) \/ CollectObject(o) \/ FinishObject(o)

Next ==
  \/ \E p \in Provider :
       Take(p) \/ Step(p) \/ WatchFails(p) \/ ApiError(p) \/ Deliver(p) \/ DeleteProvider(p)
  \/ \E o \in Object : ObjectStep(o)
  \/ Restart

Spec == Init /\ [][Next]_vars

\* The worker goes on; no key waits for ever, the queue being first in first out
\* although the worker is now free, now busy; the informer catches up.
Fairness ==
  \A p \in Provider : WF_vars(Step(p)) /\ SF_vars(Take(p)) /\ WF_vars(Deliver(p))

FairSpec == Spec /\ Fairness

--------------------------------------------------------------------------------
TypeOK ==
  /\ provider \in [Provider -> ProviderObject]
  /\ cache \in [Provider -> {"latest", "stale", "gone"}]
  /\ object \in [Object -> ExternalObject]
  /\ queue \subseteq Provider
  /\ watch \in {"none", "watching", "lost"}
  /\ task \in [Provider -> Task]
  /\ faults \in Nat /\ changes \in Nat

\* With its one worker the controller has one reconcile under way, whose object
\* nobody else has taken over since it was read; a copy that is marked as the
\* latest version is one, so that no removed provider is written.
OneAtATime ==
  /\ \A p, q \in Provider : task[p] # Idle /\ task[q] # Idle => p = q
  /\ \A o \in Object : object[o].st = "absent" => object[o].owner = None
  /\ \A p \in Provider :
       /\ task[p].at \in {"patch", "status"} => ~OwnedByOther(p)
       /\ task[p].current \/ cache[p] = "latest" => provider[p].live

ProviderInv == TypeOK /\ OneAtATime

\* No provider takes an object that another one owns, although the read that
\* SetControllerReference judges and the patch are two calls.
OwnerNeverStolen ==
  [][\A o \in Object :
       object[o].owner # None /\ object'[o].st # "absent"
         => object'[o].owner = object[o].owner]_vars

\* A provider is never reported ready through an object that another provider
\* owns at that moment.
ReadyByOwnObject ==
  [][\A p \in Provider : ~provider[p].ready /\ provider'[p].ready => ~OwnedByOther(p)]_vars

\* What is reported of an object that a provider owns is its readiness in the
\* end, whatever lags, conflicts, fails or restarts, as long as the kind is
\* watched.
Settled(p) ==
  LET o == object[Ref[p]]
  IN provider[p].live /\ o.st = "present" /\ o.owner = p /\ watch # "lost"
     => provider[p].ready = o.ready

ReadySettles == \A p \in Provider : <>[]Settled(p)

\* Nothing is queued, under way or on its way for the provider: the controller
\* comes back to it with the next event only.
Asleep(p) == task[p].at = "idle" /\ p \notin queue /\ cache[p] # "stale"

\* No event is missed: with the kind of its object watched, the controller never
\* sleeps on a provider whose status is not what its object says, although the
\* object may change while a reconcile holds an old copy of it, before the informer
\* on its kind runs, and while the manager is down.
NoEventMissed == \A p \in Provider : Asleep(p) => Settled(p)

\* An object that is applied late is polled for and adopted in the end. (One that
\* is deleted and applied again may be missed: it can go, unseen, after it was
\* read as being deleted and before the informer on its kind runs.)
AdoptedInTheEnd ==
  [](\A o \in Object : object[o].st # "deleting")
  => \A p \in Provider :
       <>[](provider[p].live /\ object[Ref[p]].st = "present" => object[Ref[p]].owner # None)

================================================================================
