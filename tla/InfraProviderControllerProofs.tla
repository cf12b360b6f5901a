--------------------- MODULE InfraProviderControllerProofs ---------------------
(* What TLAPS proves of InfraProviderController, for every value of its      *)
(* constants.                                                                *)
EXTENDS InfraProviderController, TLAPS

--------------------------------------------------------------------------------
(* Types.                                                                    *)

\* An absent object and an idle worker have their types.
LEMMA IdleType == Absent \in ExternalObject /\ Idle \in Task /\ Idle.at = "idle" /\ ~Idle.current
BY DEF Absent, Idle, ExternalObject, Task

\* The end of a reconcile leaves the types.
LEMMA ReturnType ==
  ASSUME TypeOK, NEW p \in Provider, NEW b \in BOOLEAN, Return(p, b)
  PROVE  /\ task' \in [Provider -> Task] /\ queue' \subseteq Provider
         /\ task' = [task EXCEPT ![p] = Idle]
BY IdleType DEF TypeOK, Return

\* Adopting an object leaves the types, and sets no owner but p.
LEMMA AdoptedType ==
  ASSUME TypeOK, NEW p \in Provider
  PROVE  /\ Adopted(p) \in [Object -> ExternalObject]
         /\ \A o \in Object : /\ Adopted(p)[o].owner \in {object[o].owner, p}
                              /\ Adopted(p)[o].st = object[o].st
                              /\ o # Ref[p] => Adopted(p)[o] = object[o]
<1>1. object[Ref[p]] \in ExternalObject /\ Ref[p] \in Object
  BY ProviderAssumption DEF TypeOK
<1> DEFINE x == [object[Ref[p]] EXCEPT !.owner = p]
<1>2. x \in ExternalObject /\ x.owner = p /\ x.st = object[Ref[p]].st
  BY <1>1 DEF ExternalObject
<1>3. Adopted(p) = object \/ Adopted(p) = [object EXCEPT ![Ref[p]] = x]
  BY <1>1 DEF Adopted, TypeOK, ExternalObject
<1> HIDE DEF x
<1> QED BY <1>1, <1>2, <1>3 DEF TypeOK

\* Writing the status leaves the types, and no provider is brought to life.
LEMMA WrittenType ==
  ASSUME TypeOK, NEW p \in Provider, Written(p)
  PROVE  /\ provider' \in [Provider -> ProviderObject]
         /\ \A q \in Provider : provider'[q].live = provider[q].live
         /\ cache' \in [Provider -> {"latest", "stale", "gone"}]
         /\ \A q \in Provider : cache'[q] \in {cache[q], "stale"}
<1>1. provider[p] \in ProviderObject /\ task[p].got.ready \in BOOLEAN
  BY DEF TypeOK, Task, ExternalObject
<1> DEFINE x == [provider[p] EXCEPT !.ready = task[p].got.ready]
<1>2. x \in ProviderObject /\ x.live = provider[p].live
  BY <1>1 DEF ProviderObject
<1>3. provider' = [provider EXCEPT ![p] = x]
  BY <1>1 DEF Written, TypeOK, ProviderObject
<1> HIDE DEF x
<1>4. /\ provider' \in [Provider -> ProviderObject]
      /\ \A q \in Provider : provider'[q].live = provider[q].live
  BY <1>2, <1>3 DEF TypeOK
<1>5. /\ cache' \in [Provider -> {"latest", "stale", "gone"}]
      /\ \A q \in Provider : cache'[q] \in {cache[q], "stale"}
  BY DEF Written, TypeOK
<1> QED BY <1>4, <1>5

\* An event of an object that becomes x.
LEMMA BecomesType ==
  ASSUME TypeOK, NEW o \in Object, NEW x \in ExternalObject, Becomes(o, x)
  PROVE  object' \in [Object -> ExternalObject] /\ queue' \subseteq Provider
<1>1. object[o].owner \in Provider \cup {None}
  BY DEF TypeOK, ExternalObject
<1> QED BY <1>1 DEF Becomes, Notify, TypeOK

\* What becomes of an object, other than by adoption, has its owner or none.
LEMMA ObjectStepType ==
  ASSUME TypeOK, NEW o \in Object, ObjectStep(o)
  PROVE  \E x \in ExternalObject :
           /\ Becomes(o, x)
           /\ x.owner = None \/ x.owner = object[o].owner
           /\ x.st = "absent" \/ object[o].st = "absent" \/ x.owner = object[o].owner
           /\ changes' \in Nat
<1>1. object[o] \in ExternalObject
  BY DEF TypeOK
<1>2. changes' \in Nat
  BY DEF ObjectStep, ApplyObject, Turn, DeleteObject, CollectObject, FinishObject, Changes, TypeOK
<1>3. CASE ApplyObject(o)
  <2>1. [Absent EXCEPT !.st = "present"] \in ExternalObject
        /\ [Absent EXCEPT !.st = "present"].owner = None
    BY DEF Absent, ExternalObject
  <2> QED BY <1>2, <1>3, <2>1 DEF ApplyObject
<1>4. CASE Turn(o)
  <2>1. [object[o] EXCEPT !.ready = ~@] \in ExternalObject
        /\ [object[o] EXCEPT !.ready = ~@].owner = object[o].owner
    BY <1>1 DEF ExternalObject
  <2> QED BY <1>2, <1>4, <2>1 DEF Turn
<1>5. CASE DeleteObject(o) \/ CollectObject(o)
  <2>1. [object[o] EXCEPT !.st = "deleting"] \in ExternalObject
        /\ [object[o] EXCEPT !.st = "deleting"].owner = object[o].owner
    BY <1>1 DEF ExternalObject
  <2> QED BY <1>2, <1>5, <2>1 DEF DeleteObject, CollectObject
<1>6. CASE FinishObject(o)
  BY <1>2, <1>6, IdleType DEF FinishObject, Absent
<1> QED BY <1>3, <1>4, <1>5, <1>6 DEF ObjectStep

\* The types hold initially.
LEMMA TypeInit == Init => TypeOK
<1> SUFFICES ASSUME Init PROVE TypeOK
  OBVIOUS
<1>1. provider \in [Provider -> ProviderObject]
  BY DEF Init, ProviderObject
<1> QED BY <1>1, IdleType DEF Init, TypeOK

\* The types are preserved by every step.
LEMMA TypeStep == TypeOK /\ [Next]_vars => TypeOK'
<1> SUFFICES ASSUME TypeOK, [Next]_vars PROVE TypeOK'
  OBVIOUS
<1>1. ASSUME NEW p \in Provider, Take(p) PROVE TypeOK'
  <2>1. task[p] \in Task
    BY DEF TypeOK
  <2>2. [task[p] EXCEPT !.at = "read"] \in Task
    BY <2>1 DEF Task
  <2> QED BY <1>1, <2>2 DEF Take, TypeOK
<1>2. ASSUME NEW p \in Provider,
             ProviderGone(p) \/ ObjectNotFound(p) \/ ObjectOwned(p) \/ AdoptFails(p)
             \/ UpdateConflicts(p)
      PROVE  TypeOK'
  <2>1. Return(p, TRUE) /\ UNCHANGED <<provider, cache, object, watch, faults, changes>>
    BY <1>2 DEF ProviderGone, ObjectNotFound, ObjectOwned, AdoptFails, UpdateConflicts
  <2> QED BY <2>1, ReturnType DEF TypeOK
<1>3. ASSUME NEW p \in Provider, ReadObject(p) PROVE TypeOK'
  <2>1. object[Ref[p]] \in ExternalObject
    BY ProviderAssumption DEF TypeOK
  <2>2. [at |-> "patch", current |-> cache[p] = "latest", got |-> object[Ref[p]]] \in Task
    BY <2>1 DEF Task
  <2>3. task' \in [Provider -> Task]
    BY <1>3, <2>2 DEF ReadObject, TypeOK
  <2> QED BY <1>3, <2>3 DEF ReadObject, TypeOK
<1>4. ASSUME NEW p \in Provider, Adopt(p) PROVE TypeOK'
  <2>1. task[p] \in Task /\ [task[p] EXCEPT !.at = "status"] \in Task
    BY DEF TypeOK, Task
  <2>2. task' \in [Provider -> Task]
    BY <1>4, <2>1, IdleType DEF Adopt, TypeOK
  <2>3. \A o \in Object : object[o].owner \in Provider \cup {None}
                          /\ Adopted(p)[o].owner \in Provider \cup {None}
    BY AdoptedType DEF TypeOK, ExternalObject
  <2>4. queue' \subseteq Provider
    BY <1>4, <2>3, ProviderAssumption DEF Adopt, TypeOK
  <2> QED BY <1>4, <2>2, <2>4, AdoptedType DEF Adopt, TypeOK
<1>5. ASSUME NEW p \in Provider, WatchFails(p) PROVE TypeOK'
  <2>1. task' \in [Provider -> Task] /\ queue' \subseteq Provider
    BY <1>5, ReturnType DEF WatchFails
  <2> QED BY <1>5, <2>1, AdoptedType DEF WatchFails, TypeOK
<1>6. ASSUME NEW p \in Provider, UpdateStatus(p) PROVE TypeOK'
  BY <1>6, ReturnType, WrittenType DEF UpdateStatus, TypeOK
<1>7. ASSUME NEW p \in Provider, ApiError(p) PROVE TypeOK'
  <2>1. Return(p, TRUE) /\ UNCHANGED <<watch, changes>> /\ faults' = faults + 1
    BY <1>7 DEF ApiError
  <2>2. /\ provider' \in [Provider -> ProviderObject]
        /\ cache' \in [Provider -> {"latest", "stale", "gone"}]
        /\ object' \in [Object -> ExternalObject]
    BY <1>7, AdoptedType, WrittenType DEF ApiError, TypeOK
  <2>3. task' \in [Provider -> Task] /\ queue' \subseteq Provider
    BY <2>1, ReturnType
  <2> QED BY <2>1, <2>2, <2>3 DEF TypeOK
<1>8. ASSUME NEW p \in Provider, Deliver(p) PROVE TypeOK'
  BY <1>8 DEF Deliver, TypeOK
<1>9. ASSUME NEW p \in Provider, DeleteProvider(p) PROVE TypeOK'
  <2>1. task[p] \in Task /\ [task[p] EXCEPT !.current = FALSE] \in Task
    BY DEF TypeOK, Task
  <2>2. [live |-> FALSE, ready |-> FALSE] \in ProviderObject
    BY DEF ProviderObject
  <2> QED BY <1>9, <2>1, <2>2 DEF DeleteProvider, Changes, TypeOK
<1>10. ASSUME NEW o \in Object, ObjectStep(o) PROVE TypeOK'
  <2>1. PICK x \in ExternalObject : Becomes(o, x)
    BY <1>10, ObjectStepType
  <2> QED BY <1>10, <2>1, ObjectStepType, BecomesType DEF Becomes, TypeOK
<1>11. CASE Restart
  BY <1>11, IdleType DEF Restart, TypeOK
<1>12. CASE UNCHANGED vars
  BY <1>12 DEF vars, TypeOK
<1> QED
  BY <1>1, <1>2, <1>3, <1>4, <1>5, <1>6, <1>7, <1>8, <1>9, <1>10, <1>11, <1>12
  DEF Next, Step

--------------------------------------------------------------------------------
(* One reconcile at a time.                                                  *)

\* No step gives a provider a task that it had not, but Take and the steps of
\* the reconcile itself.
LEMMA TaskStays ==
  ASSUME TypeOK, [Next]_vars, NEW p \in Provider, task'[p] # task[p]
  PROVE  \/ task'[p] = Idle
         \/ task[p] = Idle /\ Take(p)
         \/ task[p] # Idle /\ (ReadObject(p) \/ Adopt(p) \/ DeleteProvider(p))
<1> USE DEF TypeOK
<1>1. ASSUME NEW q \in Provider, Take(q) PROVE q = p /\ task[p] = Idle
  BY <1>1 DEF Take
<1>2. ASSUME NEW q \in Provider, Return(q, TRUE) \/ Return(q, FALSE) PROVE task'[p] = Idle
  BY <1>2 DEF Return
<1>3. ASSUME NEW q \in Provider, ReadObject(q) PROVE q = p /\ task[p] # Idle
  BY <1>3 DEF ReadObject, Readable, Idle
<1>4. ASSUME NEW q \in Provider, Adopt(q) PROVE q = p /\ task[p] # Idle
  BY <1>4 DEF Adopt, CanAdopt, Idle
<1>5. ASSUME NEW q \in Provider, DeleteProvider(q) PROVE q = p /\ task[p] # Idle
  <2>1. q = p /\ task'[p] = [task[p] EXCEPT !.current = FALSE]
    BY <1>5 DEF DeleteProvider
  <2>2. CASE task[p] # Idle
    BY <2>1, <2>2
  <2>3. CASE task[p] = Idle
    <3>1. ~Idle.current /\ Idle \in [at : {"idle", "read", "patch", "status"},
                                    current : BOOLEAN, got : ExternalObject]
      BY IdleType DEF Task
    <3>2. [Idle EXCEPT !.current = FALSE] = Idle
      BY <3>1
    <3> QED BY <2>1, <2>3, <3>2
  <2> QED BY <2>2, <2>3
<1>6. ASSUME NEW o \in Object, ObjectStep(o) PROVE FALSE
  BY <1>6, ObjectStepType DEF Becomes
<1>7. CASE Restart
  BY <1>7 DEF Restart
<1> QED
  BY <1>1, <1>2, <1>3, <1>4, <1>5, <1>6, <1>7
  DEF Next, Step, ProviderGone, ObjectNotFound, ObjectOwned, AdoptFails, UpdateStatus,
      UpdateConflicts, WatchFails, ApiError, Deliver, vars

\* An owner is only replaced by the one reconcile that is adopting the object, or
\* with the object.
LEMMA OwnerWriters ==
  ASSUME TypeOK, [Next]_vars, NEW o \in Object, object'[o].owner # object[o].owner
  PROVE  \/ object'[o].owner = None /\ (object'[o].st = "absent" \/ object[o].st = "absent")
         \/ \E p \in Provider : /\ task[p].at = "patch" /\ Ref[p] = o /\ object'[o].owner = p
<1>1. ASSUME NEW p \in Provider, CanAdopt(p), object' = Adopted(p)
      PROVE  task[p].at = "patch" /\ Ref[p] = o /\ object'[o].owner = p
  BY <1>1, AdoptedType DEF CanAdopt
<1>2. ASSUME NEW q \in Object, ObjectStep(q)
      PROVE  object'[o].owner = None /\ (object'[o].st = "absent" \/ object[o].st = "absent")
  <2>1. PICK x \in ExternalObject :
          /\ Becomes(q, x)
          /\ x.owner = None \/ x.owner = object[q].owner
          /\ x.st = "absent" \/ object[q].st = "absent" \/ x.owner = object[q].owner
    BY <1>2, ObjectStepType
  <2> QED BY <2>1 DEF Becomes, TypeOK
<1> QED
  BY <1>1, <1>2
  DEF Next, Step, Take, ProviderGone, ObjectNotFound, ObjectOwned, ReadObject, AdoptFails, Adopt,
      UpdateStatus, UpdateConflicts, WatchFails, ApiError, Deliver, DeleteProvider, Restart, vars

\* An object that goes has no owner any more.
LEMMA AbsentStep ==
  ASSUME TypeOK, OneAtATime, [Next]_vars, NEW o \in Object, object'[o].st = "absent"
  PROVE  object'[o].owner = None
<1>0. object[o].st = "absent" => object[o].owner = None
  BY DEF OneAtATime
<1>1. ASSUME NEW p \in Provider, CanAdopt(p), object' = Adopted(p)
      PROVE  object'[o].owner = None
  <2>1. Adopted(p)[o].st = object[o].st
    BY AdoptedType
  <2>2. object[o].st = "absent" /\ object[o].owner = None
    BY <1>0, <1>1, <2>1
  <2>3. Adopted(p)[o] = object[o]
    BY <1>1, <2>2, AdoptedType DEF CanAdopt, Adopted
  <2> QED BY <1>1, <2>2, <2>3
<1>2. ASSUME NEW q \in Object, ObjectStep(q) PROVE object'[o].owner = None
  <2>1. CASE q = o
    <3>1. PICK x \in ExternalObject : object' = [object EXCEPT ![o] = x]
                                     /\ (x.owner = None \/ x.owner = object[o].owner)
      BY <1>2, <2>1, ObjectStepType DEF Becomes
    <3>2. object'[o] = x
      BY <3>1 DEF TypeOK
    <3>3. CASE FinishObject(o)
      BY <3>3 DEF FinishObject, Becomes, Absent, TypeOK
    <3>4. CASE ApplyObject(o)
      BY <1>0, <3>1, <3>2, <3>4 DEF ApplyObject
    <3>5. CASE Turn(o) \/ DeleteObject(o) \/ CollectObject(o)
      <4>1. object[o] \in ExternalObject
        BY DEF TypeOK
      <4>2. object'[o] = [object[o] EXCEPT !.ready = ~@]
            \/ object'[o] = [object[o] EXCEPT !.st = "deleting"]
        BY <3>5 DEF Turn, DeleteObject, CollectObject, Becomes, TypeOK
      <4>3. object'[o].st \in {"present", "deleting"}
        BY <3>5, <4>1, <4>2 DEF Turn, DeleteObject, CollectObject, ExternalObject
      <4> QED BY <4>3
    <3> QED BY <1>2, <2>1, <3>3, <3>4, <3>5 DEF ObjectStep
  <2>2. CASE q # o
    BY <1>0, <1>2, <2>2, ObjectStepType DEF Becomes, TypeOK
  <2> QED BY <2>1, <2>2
<1> QED
  BY <1>0, <1>1, <1>2
  DEF Next, Step, Take, ProviderGone, ObjectNotFound, ObjectOwned, ReadObject, AdoptFails, Adopt,
      UpdateStatus, UpdateConflicts, WatchFails, ApiError, Deliver, DeleteProvider, Restart, vars

\* What is marked as the latest version of a provider is one of a live provider.
LEMMA LatestStep ==
  ASSUME TypeOK, OneAtATime, [Next]_vars, NEW p \in Provider,
         task'[p].current \/ cache'[p] = "latest"
  PROVE  provider'[p].live
<1> USE DEF TypeOK
<1>0. task[p].current \/ cache[p] = "latest" => provider[p].live
  BY DEF OneAtATime
<1>1. ASSUME NEW q \in Provider, DeleteProvider(q) PROVE provider'[p].live
  <2>1. task[q] \in Task
    OBVIOUS
  <2>2. q # p
    BY <1>1, <2>1 DEF DeleteProvider, Task
  <2> QED BY <1>0, <1>1, <2>2 DEF DeleteProvider
<1>2. ASSUME NEW q \in Provider, Deliver(q) PROVE provider'[p].live
  BY <1>0, <1>2 DEF Deliver
<1>3. CASE Restart
  BY <1>3, IdleType DEF Restart
<1>4. ASSUME NEW q \in Provider, Return(q, TRUE) \/ Return(q, FALSE),
             (provider' = provider /\ cache' = cache) \/ Written(q)
      PROVE  provider'[p].live
  <2>1. task'[p].current => task[p].current
    BY <1>4, IdleType DEF Return
  <2>2. provider'[p].live = provider[p].live /\ cache'[p] \in {cache[p], "stale"}
    BY <1>4, WrittenType
  <2> QED BY <1>0, <2>1, <2>2
<1>5. ASSUME NEW q \in Provider, Take(q) \/ Adopt(q) PROVE provider'[p].live
  <2>1. task[q] \in Task /\ task'[p].current => task[p].current
    BY <1>5, IdleType DEF Take, Adopt, Task
  <2> QED BY <1>0, <1>5, <2>1 DEF Take, Adopt
<1>6. ASSUME NEW q \in Provider, ReadObject(q) PROVE provider'[p].live
  <2>1. task'[p].current => task[p].current \/ cache[p] = "latest"
    BY <1>6 DEF ReadObject
  <2> QED BY <1>0, <1>6, <2>1 DEF ReadObject
<1>7. ASSUME NEW o \in Object, ObjectStep(o) PROVE provider'[p].live
  BY <1>0, <1>7, ObjectStepType DEF Becomes
<1> QED
  BY <1>0, <1>1, <1>2, <1>3, <1>4, <1>5, <1>6, <1>7
  DEF Next, Step, ProviderGone, ObjectNotFound, ObjectOwned, AdoptFails, UpdateStatus,
      UpdateConflicts, WatchFails, ApiError, vars

\* There is one reconcile at a time, and its object stays free or its own.
THEOREM ProviderInvariant == Spec => []ProviderInv
<1>1. Init => ProviderInv
  <2> SUFFICES ASSUME Init PROVE OneAtATime
    BY TypeInit DEF ProviderInv
  <2>1. \A p \in Provider : task[p] = Idle /\ provider[p].live
    BY DEF Init
  <2>2. \A o \in Object : object[o].owner = None
    BY DEF Init, Absent
  <2> QED BY <2>1, <2>2, IdleType DEF OneAtATime
<1>2. ProviderInv /\ [Next]_vars => ProviderInv'
  <2> SUFFICES ASSUME TypeOK, OneAtATime, [Next]_vars PROVE OneAtATime'
    BY TypeStep DEF ProviderInv
  <2>1. ASSUME NEW p \in Provider, NEW q \in Provider, task'[p] # Idle, task'[q] # Idle
        PROVE  p = q
    <3>1. ASSUME NEW r \in Provider, task'[r] # Idle
          PROVE  task[r] # Idle \/ Take(r)
      BY <3>1, TaskStays
    <3>2. CASE Take(p) \/ Take(q)
      BY <2>1, <3>2 DEF Take, TypeOK
    <3>3. CASE task[p] # Idle /\ task[q] # Idle
      BY <3>3 DEF OneAtATime
    <3> QED BY <2>1, <3>1, <3>2, <3>3
  <2>2. ASSUME NEW p \in Provider, task'[p].at \in {"patch", "status"}
        PROVE  object'[Ref[p]].owner \in {None, p}
    <3>1. Ref[p] \in Object /\ task'[p] # Idle
      BY <2>2, ProviderAssumption, IdleType
    <3>2. object[Ref[p]].owner \in {None, p}
      <4>1. CASE ReadObject(p)
        BY <4>1 DEF ReadObject, OwnedByOther
      <4>2. CASE task[p].at \in {"patch", "status"}
        BY <4>2 DEF OneAtATime, OwnedByOther
      <4>3. CASE Take(p)
        <5>1. task[p] \in Task /\ task'[p] = [task[p] EXCEPT !.at = "read"]
          BY <4>3 DEF Take, TypeOK
        <5> QED BY <2>2, <5>1 DEF Task
      <4>4. CASE Adopt(p)
        BY <4>2, <4>4 DEF Adopt, CanAdopt
      <4>5. CASE DeleteProvider(p)
        <5>1. task[p] \in Task /\ task'[p] = [task[p] EXCEPT !.current = FALSE]
          BY <4>5 DEF DeleteProvider, TypeOK
        <5> QED BY <2>2, <4>2, <5>1 DEF Task
      <4> QED BY <2>2, <3>1, <4>1, <4>2, <4>3, <4>4, <4>5, TaskStays
    <3>3. ASSUME NEW q \in Provider, task[q].at = "patch" PROVE q = p
      <4>1. task[q] # Idle
        BY <3>3, IdleType
      <4>2. task[p] # Idle
        BY <3>1, <4>1, TaskStays DEF Take
      <4> QED BY <4>1, <4>2 DEF OneAtATime
    <3> QED BY <3>1, <3>2, <3>3, OwnerWriters
  <2>3. ASSUME NEW p \in Provider, task'[p].current \/ cache'[p] = "latest"
        PROVE  provider'[p].live
    BY <2>3, LatestStep
  <2> QED BY <2>1, <2>2, <2>3, AbsentStep DEF OneAtATime, OwnedByOther
<1> QED BY <1>1, <1>2, PTL DEF Spec

--------------------------------------------------------------------------------
(* No event is missed.                                                       *)

\* The informer's cache knows of a removal only after it.
Informed(p) == cache[p] = "gone" => ~provider[p].live

\* A reconcile does not get past Watch, nor end without coming back, before the
\* informer on the kind was asked for.
WatchAsked(p) ==
  /\ task[p].at = "status" => watch # "none"
  /\ Asleep(p) /\ provider[p].live => watch # "none"

Owned(p) == object[Ref[p]].st = "present" /\ object[Ref[p]].owner = p

\* What a reconcile holds of the object it owns is what the object is, unless the
\* key is queued again; and an object that was read as being deleted has no way back.
HoldsPresent(p) ==
  Owned(p) =>
    /\ task[p].at = "patch" /\ task[p].got.owner = p => task[p].got.st = "present"
    /\ watch = "watching" /\ p \notin queue
         => /\ task[p].at = "patch" /\ task[p].got.owner = p
                 => task[p].got.ready = object[Ref[p]].ready
            /\ task[p].at = "status" => task[p].got.ready = object[Ref[p]].ready

WakeInv ==
  \A p \in Provider :
    Informed(p) /\ WatchAsked(p) /\ HoldsPresent(p) /\ (Asleep(p) => Settled(p))

\* An event leaves a provider with the object it owned, and queues its key when
\* the object changed and its kind is watched.
LEMMA EventOfOwned ==
  ASSUME TypeOK, OneAtATime, NEW p \in Provider, NEW o \in Object, ObjectStep(o), Owned(p)'
  PROVE  /\ Owned(p)
         /\ object'[Ref[p]] # object[Ref[p]] /\ watch = "watching" => p \in queue'
<1>1. Ref[p] \in Object /\ p # None /\ object[o] \in ExternalObject
  BY ProviderAssumption DEF TypeOK
<1>2. CASE Ref[p] # o
  <2>1. object'[Ref[p]] = object[Ref[p]]
    BY <1>1, <1>2, ObjectStepType DEF Becomes, TypeOK
  <2> QED BY <2>1 DEF Owned
<1>3. CASE Ref[p] = o
  <2>1. ASSUME NEW x \in ExternalObject, Becomes(o, x)
        PROVE  /\ object'[o] = x /\ x.st = "present" /\ x.owner = p
               /\ object[o].owner = p /\ watch = "watching" => p \in queue'
    <3>1. object'[o] = x
      BY <2>1 DEF Becomes, TypeOK
    <3> QED BY <1>1, <1>3, <2>1, <3>1 DEF Becomes, Notify, Owned
  <2>2. [Absent EXCEPT !.st = "present"] \in ExternalObject
        /\ [Absent EXCEPT !.st = "present"].owner = None
    BY DEF Absent, ExternalObject
  <2>3. CASE Turn(o)
    <3>1. [object[o] EXCEPT !.ready = ~@] \in ExternalObject
          /\ [object[o] EXCEPT !.ready = ~@].owner = object[o].owner
          /\ object[o].st = "present" /\ Becomes(o, [object[o] EXCEPT !.ready = ~@])
      BY <1>1, <2>3 DEF ExternalObject, Turn
    <3> QED BY <1>3, <2>1, <3>1 DEF Owned
  <2>4. CASE DeleteObject(o) \/ CollectObject(o)
    <3>1. [object[o] EXCEPT !.st = "deleting"] \in ExternalObject
          /\ [object[o] EXCEPT !.st = "deleting"].st = "deleting"
          /\ Becomes(o, [object[o] EXCEPT !.st = "deleting"])
      BY <1>1, <2>4 DEF ExternalObject, DeleteObject, CollectObject
    <3> QED BY <2>1, <3>1
  <2>5. CASE FinishObject(o)
    BY <2>1, <2>5, IdleType DEF FinishObject, Absent
  <2>6. CASE ApplyObject(o)
    BY <1>1, <2>1, <2>2, <2>6 DEF ApplyObject
  <2> QED BY <2>3, <2>4, <2>5, <2>6 DEF ObjectStep
<1> QED BY <1>2, <1>3

\* The patch of a reconcile leaves to another provider the object that it owns;
\* and gives its own provider nothing but the ownership.
LEMMA PatchOfOwned ==
  ASSUME TypeOK, NEW p \in Provider, NEW q \in Provider, object' = Adopted(q), Owned(p)'
  PROVE  /\ q # p \/ task[q].got.owner = p => object'[Ref[p]] = object[Ref[p]]
         /\ object'[Ref[p]].ready = object[Ref[p]].ready
         /\ object'[Ref[p]].st = object[Ref[p]].st
<1>1. object[Ref[p]] \in ExternalObject /\ Ref[p] \in Object /\ Ref[q] \in Object
  BY ProviderAssumption DEF TypeOK
<1>2. CASE object' = object
  BY <1>2
<1>3. CASE task[q].got.owner # q /\ object' = [object EXCEPT ![Ref[q]].owner = q]
  <2>1. CASE Ref[q] = Ref[p]
    <3>1. object'[Ref[p]] = [object[Ref[p]] EXCEPT !.owner = q]
      BY <1>1, <1>3, <2>1 DEF TypeOK
    <3>2. object'[Ref[p]].owner = q /\ object'[Ref[p]].ready = object[Ref[p]].ready
          /\ object'[Ref[p]].st = object[Ref[p]].st
      BY <1>1, <3>1 DEF ExternalObject
    <3> QED BY <1>3, <3>2 DEF Owned
  <2>2. CASE Ref[q] # Ref[p]
    BY <1>1, <1>3, <2>2 DEF TypeOK
  <2> QED BY <2>1, <2>2
<1> QED BY <1>2, <1>3 DEF Adopted

\* When nothing about the provider changes but that its key may be queued, the
\* invariant stays.
LEMMA WakeKept ==
  ASSUME TypeOK, NEW p \in Provider, WakeInv,
         task'[p].at = task[p].at, task'[p].got = task[p].got,
         provider'[p] = provider[p], cache'[p] = cache[p],
         p \in queue => p \in queue',
         watch' = watch \/ watch' = "lost" \/ (watch = "none" /\ watch' = "watching"),
         Owned(p)' => /\ Owned(p)
                      /\ watch' = "watching" /\ p \notin queue'
                           => watch = "watching" /\ object'[Ref[p]] = object[Ref[p]]
  PROVE  (Informed(p) /\ WatchAsked(p) /\ HoldsPresent(p) /\ (Asleep(p) => Settled(p)))'
<1>1. Informed(p)' /\ WatchAsked(p)'
  BY DEF WakeInv, Informed, WatchAsked, Asleep, TypeOK
<1>2. HoldsPresent(p)'
  BY DEF WakeInv, HoldsPresent
<1>3. ASSUME Asleep(p)', ~Settled(p)' PROVE FALSE
  <2>1. Asleep(p)
    BY <1>3 DEF Asleep
  <2>2. provider'[p].live /\ Owned(p)' /\ watch' # "lost"
    BY <1>3 DEF Settled, Owned
  <2>3. watch # "none"
    BY <2>1, <2>2 DEF WakeInv, WatchAsked
  <2>4. watch' = "watching" /\ p \notin queue'
    BY <1>3, <2>2, <2>3 DEF Asleep, TypeOK
  <2> QED BY <1>3, <2>1, <2>2, <2>4 DEF WakeInv, Settled, Owned
<1> QED BY <1>1, <1>2, <1>3

\* A reconcile that starts, or returns to come back, leaves nothing to check.
LEMMA WakeQueued ==
  ASSUME NEW p \in Provider, Informed(p)',
         task'[p].at = "read" \/ (task'[p].at = "idle" /\ p \in queue')
  PROVE  (Informed(p) /\ WatchAsked(p) /\ HoldsPresent(p) /\ (Asleep(p) => Settled(p)))'
BY DEF WatchAsked, HoldsPresent, Asleep

\* The reconcile of another provider.
LEMMA WakeOthers ==
  ASSUME TypeOK, OneAtATime, WakeInv, NEW p \in Provider, NEW q \in Provider, q # p,
         \/ Take(q) \/ Step(q) \/ WatchFails(q) \/ ApiError(q) \/ Deliver(q) \/ DeleteProvider(q)
  PROVE  (Informed(p) /\ WatchAsked(p) /\ HoldsPresent(p) /\ (Asleep(p) => Settled(p)))'
<1>1. CASE Take(q) \/ ReadObject(q) \/ DeleteProvider(q) \/ Deliver(q)
  <2>1. /\ task'[p] = task[p] /\ provider'[p] = provider[p] /\ cache'[p] = cache[p]
        /\ p \in queue => p \in queue'
        /\ watch' = watch /\ object' = object
    BY <1>1 DEF Take, ReadObject, DeleteProvider, Deliver, TypeOK
  <2> QED BY <2>1, WakeKept DEF Owned
<1>2. CASE Adopt(q)
  <2>1. /\ task'[p] = task[p] /\ provider'[p] = provider[p] /\ cache'[p] = cache[p]
        /\ p \in queue => p \in queue'
        /\ watch' = watch \/ (watch = "none" /\ watch' = "watching")
        /\ object' = Adopted(q)
    BY <1>2 DEF Adopt, TypeOK
  <2>2. ASSUME Owned(p)' PROVE object'[Ref[p]] = object[Ref[p]]
    BY <2>1, <2>2, PatchOfOwned
  <2>3. ASSUME Owned(p)', watch = "none" PROVE p \in queue'
    <3>1. Ref[p] \in Object /\ p # None
      BY ProviderAssumption
    <3>2. object[Ref[p]].st # "absent" /\ Adopted(q)[Ref[p]].owner = p
      BY <2>1, <2>2, <2>3 DEF Owned
    <3> QED BY <1>2, <2>3, <3>1, <3>2 DEF Adopt
  <2> QED BY <2>1, <2>2, <2>3, WakeKept DEF Owned, TypeOK
<1>3. CASE WatchFails(q)
  <2>1. /\ task'[p] = task[p] /\ provider'[p] = provider[p] /\ cache'[p] = cache[p]
        /\ p \in queue => p \in queue'
        /\ watch' = "lost" /\ object' = Adopted(q)
    BY <1>3 DEF WatchFails, Return, TypeOK
  <2> QED BY <2>1, PatchOfOwned, WakeKept DEF Owned
<1>4. CASE Step(q) /\ ~ReadObject(q) /\ ~Adopt(q)
  <2>1. /\ UNCHANGED <<object, watch>>
        /\ Return(q, TRUE) \/ Return(q, FALSE)
        /\ UNCHANGED <<provider, cache>> \/ Written(q)
    BY <1>4 DEF Step, ProviderGone, ObjectNotFound, ObjectOwned, AdoptFails, UpdateStatus,
                UpdateConflicts
  <2>2. /\ task'[p] = task[p] /\ provider'[p] = provider[p] /\ cache'[p] = cache[p]
        /\ p \in queue => p \in queue'
    BY <2>1 DEF Return, Written, TypeOK
  <2> QED BY <2>1, <2>2, WakeKept DEF Owned
<1>5. CASE ApiError(q)
  <2>1. /\ task'[p] = task[p] /\ provider'[p] = provider[p] /\ cache'[p] = cache[p]
        /\ p \in queue => p \in queue'
        /\ watch' = watch /\ (object' = object \/ object' = Adopted(q))
    BY <1>5 DEF ApiError, Return, Written, TypeOK
  <2> QED BY <2>1, PatchOfOwned, WakeKept DEF Owned
<1> QED BY <1>1, <1>2, <1>3, <1>4, <1>5

\* The reconcile of the provider itself.
LEMMA WakeOwn ==
  ASSUME TypeOK, OneAtATime, WakeInv, NEW p \in Provider,
         \/ Take(p) \/ Step(p) \/ WatchFails(p) \/ ApiError(p) \/ Deliver(p) \/ DeleteProvider(p)
  PROVE  (Informed(p) /\ WatchAsked(p) /\ HoldsPresent(p) /\ (Asleep(p) => Settled(p)))'
<1>0. Informed(p) /\ WatchAsked(p) /\ HoldsPresent(p) /\ (Asleep(p) => Settled(p))
  BY DEF WakeInv
<1>1. Informed(p)'
  <2>1. CASE Deliver(p)
    BY <2>1 DEF Deliver, Informed, TypeOK
  <2>2. CASE DeleteProvider(p)
    BY <2>2 DEF DeleteProvider, Informed, TypeOK
  <2>3. CASE UNCHANGED <<provider, cache>>
    BY <1>0, <2>3 DEF Informed
  <2>4. CASE Written(p)
    BY <1>0, <2>4, WrittenType DEF Informed
  <2> QED
    BY <2>1, <2>2, <2>3, <2>4
    DEF Take, Step, WatchFails, ApiError, ProviderGone, ObjectNotFound, ObjectOwned, ReadObject,
        AdoptFails, Adopt, UpdateStatus, UpdateConflicts
<1>2. CASE Take(p)
  <2>1. task'[p].at = "read"
    BY <1>2 DEF Take, TypeOK, Task
  <2> QED BY <1>1, <2>1, WakeQueued
<1>3. CASE \/ WatchFails(p) \/ ApiError(p)
           \/ Step(p) /\ ~ReadObject(p) /\ ~Adopt(p) /\ ~UpdateStatus(p)
  <2>1. Return(p, TRUE)
    BY <1>3 DEF WatchFails, ApiError, Step, ProviderGone, ObjectNotFound, ObjectOwned,
                AdoptFails, UpdateConflicts
  <2>2. task'[p].at = "idle" /\ p \in queue'
    BY <2>1, IdleType DEF Return, TypeOK
  <2> QED BY <1>1, <2>2, WakeQueued
<1>4. CASE ReadObject(p)
  <2>1. task'[p] = [at |-> "patch", current |-> cache[p] = "latest", got |-> object[Ref[p]]]
        /\ object' = object
    BY <1>4 DEF ReadObject, TypeOK
  <2>2. task'[p].at = "patch" /\ task'[p].got = object'[Ref[p]]
    BY <2>1
  <2> QED BY <1>1, <2>2 DEF WatchAsked, HoldsPresent, Owned, Asleep
<1>5. CASE Adopt(p)
  <2>1. task[p] \in Task /\ task[p].at = "patch" /\ object' = Adopted(p)
        /\ provider' = provider /\ cache' = cache
    BY <1>5 DEF Adopt, CanAdopt, TypeOK
  <2>2. IF task[p].got.st = "deleting" THEN task'[p].at = "idle"
        ELSE task'[p].got = task[p].got /\ task'[p].at = "status"
    BY <1>5, <2>1, IdleType DEF Adopt, TypeOK, Task
  <2>3. watch' # "none" /\ (watch' = "watching" => watch \in {"none", "watching"})
    BY <1>5 DEF Adopt, TypeOK
  <2>4. ASSUME Owned(p)', watch' = "watching", p \notin queue'
        PROVE  /\ Owned(p) /\ object'[Ref[p]] = object[Ref[p]]
               /\ task[p].got.owner = p /\ watch = "watching" /\ p \notin queue
    <3>1. Ref[p] \in Object /\ p # None
      BY ProviderAssumption
    <3>2. object[Ref[p]].st # "absent" /\ Adopted(p)[Ref[p]].owner = p
      BY <2>1, <2>4, PatchOfOwned DEF Owned
    <3>3. watch # "none"
      BY <1>5, <2>4, <3>1, <3>2 DEF Adopt
    <3>4. watch = "watching" /\ task[p].got.owner = p
      BY <1>5, <2>3, <2>4, <3>1, <3>3 DEF Adopt
    <3> QED BY <1>5, <2>1, <2>4, <3>4, PatchOfOwned DEF Adopt, Owned
  <2>5. WatchAsked(p)'
    BY <2>3 DEF WatchAsked
  <2>6. HoldsPresent(p)'
    BY <1>0, <2>1, <2>2, <2>4 DEF HoldsPresent
  <2>7. Asleep(p)' => Settled(p)'
    <3>1. ASSUME Asleep(p)', ~Settled(p)' PROVE FALSE
      <4>1. Owned(p)' /\ watch' = "watching" /\ p \notin queue' /\ task'[p].at = "idle"
        BY <1>5, <2>3, <3>1 DEF Settled, Owned, Asleep, Adopt, TypeOK
      <4> QED BY <1>0, <2>1, <2>2, <2>4, <4>1 DEF HoldsPresent
    <3> QED BY <3>1
  <2> QED BY <1>1, <2>5, <2>6, <2>7
<1>6. CASE UpdateStatus(p)
  <2>1. task'[p].at = "idle" /\ queue' = queue /\ object' = object /\ watch' = watch
        /\ task[p].at = "status"
    BY <1>6, IdleType DEF UpdateStatus, Writable, Return, TypeOK
  <2>2. watch # "none"
    BY <1>0, <2>1 DEF WatchAsked
  <2>3. ASSUME Asleep(p)', Owned(p)', watch' # "lost" PROVE provider'[p].ready = object'[Ref[p]].ready
    <3>1. Owned(p) /\ watch = "watching" /\ p \notin queue
      BY <2>1, <2>2, <2>3 DEF Owned, Asleep, TypeOK
    <3>2. task[p].got.ready = object[Ref[p]].ready
      BY <1>0, <2>1, <3>1 DEF HoldsPresent
    <3>3. provider'[p].ready = task[p].got.ready
      <4>1. provider[p] \in ProviderObject
        BY DEF TypeOK
      <4> QED BY <1>6, <4>1 DEF UpdateStatus, Written, TypeOK, ProviderObject
    <3> QED BY <2>1, <3>2, <3>3
  <2>4. WatchAsked(p)' /\ HoldsPresent(p)'
    BY <2>1, <2>2 DEF WatchAsked, HoldsPresent
  <2> QED BY <1>1, <2>3, <2>4 DEF Settled, Owned
<1>7. CASE Deliver(p)
  <2>1. task'[p] = task[p] /\ object' = object /\ watch' = watch /\ p \in queue'
    BY <1>7 DEF Deliver
  <2> QED BY <1>0, <1>1, <2>1 DEF WatchAsked, HoldsPresent, Owned, Asleep
<1>8. CASE DeleteProvider(p)
  <2>1. task[p] \in Task
    BY DEF TypeOK
  <2>2. /\ task'[p].at = task[p].at /\ task'[p].got = task[p].got
        /\ cache'[p] = "stale" /\ ~provider'[p].live
        /\ object' = object /\ watch' = watch /\ queue' = queue
    BY <1>8, <2>1 DEF DeleteProvider, Task, TypeOK
  <2> QED BY <1>0, <1>1, <2>2 DEF WatchAsked, HoldsPresent, Owned, Asleep
<1> QED BY <1>2, <1>3, <1>4, <1>5, <1>6, <1>7, <1>8 DEF Step

\* With its object watched, the controller sleeps on a provider only when the
\* status of the provider is what the object says.
THEOREM NoEventIsMissed == Spec => []NoEventMissed
<1>1. Init => WakeInv
  <2> SUFFICES ASSUME Init PROVE WakeInv
    OBVIOUS
  <2>1. \A p \in Provider : task[p].at = "idle" /\ p \in queue /\ cache[p] = "latest"
    BY IdleType DEF Init
  <2> QED BY <2>1 DEF WakeInv, Informed, WatchAsked, HoldsPresent, Asleep
<1>2. ProviderInv /\ WakeInv /\ [Next]_vars => WakeInv'
  <2> SUFFICES ASSUME TypeOK, OneAtATime, WakeInv, [Next]_vars, NEW p \in Provider
               PROVE  (/\ Informed(p) /\ WatchAsked(p) /\ HoldsPresent(p)
                       /\ Asleep(p) => Settled(p))'
    BY DEF ProviderInv, WakeInv
  <2>1. ASSUME NEW q \in Provider,
               \/ Take(q) \/ Step(q) \/ WatchFails(q) \/ ApiError(q)
               \/ Deliver(q) \/ DeleteProvider(q)
        PROVE  (Informed(p) /\ WatchAsked(p) /\ HoldsPresent(p) /\ (Asleep(p) => Settled(p)))'
    BY <2>1, WakeOthers, WakeOwn
  <2>2. ASSUME NEW o \in Object, ObjectStep(o)
        PROVE  (Informed(p) /\ WatchAsked(p) /\ HoldsPresent(p) /\ (Asleep(p) => Settled(p)))'
    <3>1. PICK x \in ExternalObject : Becomes(o, x)
      BY <2>2, ObjectStepType
    <3>2. /\ UNCHANGED <<provider, cache, watch, task>>
          /\ p \in queue => p \in queue'
      BY <3>1 DEF Becomes, Notify
    <3> QED BY <2>2, <3>2, EventOfOwned, WakeKept
  <2>3. CASE Restart
    <3>1. task'[p] = Idle /\ provider' = provider /\ watch' = "none"
          /\ (provider[p].live => p \in queue')
          /\ (cache'[p] = "gone" => ~provider[p].live)
      BY <2>3 DEF Restart
    <3> QED
      BY <3>1, IdleType DEF Informed, WatchAsked, HoldsPresent, Asleep, Settled
  <2>4. CASE UNCHANGED vars
    BY <2>4, WakeKept DEF vars, Owned
  <2> QED BY <2>1, <2>2, <2>3, <2>4 DEF Next
<1>3. WakeInv => NoEventMissed
  BY DEF WakeInv, NoEventMissed
<1> QED BY <1>1, <1>2, <1>3, ProviderInvariant, PTL DEF Spec

--------------------------------------------------------------------------------
(* The action properties.                                                    *)

\* The owner of an object is never replaced.
THEOREM OwnerIsNeverStolen == Spec => OwnerNeverStolen
<1>1. ASSUME ProviderInv, [Next]_vars, NEW o \in Object,
             object[o].owner # None, object'[o].st # "absent"
      PROVE  object'[o].owner = object[o].owner
  <2> SUFFICES ASSUME object'[o].owner # object[o].owner PROVE FALSE
    OBVIOUS
  <2>1. object[o].st # "absent"
    BY <1>1 DEF ProviderInv, OneAtATime
  <2>2. ASSUME NEW p \in Provider, task[p].at = "patch", Ref[p] = o, object'[o].owner = p
        PROVE  FALSE
    BY <1>1, <2>2 DEF ProviderInv, OneAtATime, OwnedByOther
  <2> QED BY <1>1, <2>1, <2>2, OwnerWriters DEF ProviderInv
<1>2. ProviderInv /\ [Next]_vars
      => [\A o \in Object : object[o].owner # None /\ object'[o].st # "absent"
            => object'[o].owner = object[o].owner]_vars
  BY <1>1
<1> QED BY <1>2, ProviderInvariant, PTL DEF Spec, OwnerNeverStolen

\* A provider becomes ready through an object that no other provider owns.
THEOREM ReadyThroughOwnObject == Spec => ReadyByOwnObject
<1>1. ASSUME ProviderInv, [Next]_vars, NEW p \in Provider,
             ~provider[p].ready, provider'[p].ready
      PROVE  ~OwnedByOther(p)
  <2>1. ASSUME NEW q \in Provider, Writable(q), Written(q) PROVE ~OwnedByOther(p)
    <3>1. q = p
      BY <1>1, <2>1 DEF Written, ProviderInv, TypeOK
    <3>2. task[p].at = "status"
      BY <2>1, <3>1 DEF Writable
    <3> QED BY <1>1, <3>2 DEF ProviderInv, OneAtATime
  <2>2. ASSUME NEW q \in Provider, DeleteProvider(q) PROVE FALSE
    BY <1>1, <2>2 DEF DeleteProvider, ProviderInv, TypeOK
  <2>3. ASSUME NEW o \in Object, ObjectStep(o) PROVE FALSE
    BY <1>1, <2>3, ObjectStepType DEF Becomes, ProviderInv
  <2> QED
    BY <1>1, <2>1, <2>2, <2>3
    DEF Next, Step, Take, ProviderGone, ObjectNotFound, ObjectOwned, ReadObject, AdoptFails,
        Adopt, UpdateStatus, UpdateConflicts, WatchFails, ApiError, Deliver, Restart, vars
<1>2. ProviderInv /\ [Next]_vars
      => [\A p \in Provider : ~provider[p].ready /\ provider'[p].ready
            => ~OwnedByOther(p)]_vars
  BY <1>1
<1> QED BY <1>2, ProviderInvariant, PTL DEF Spec, ReadyByOwnObject

================================================================================
