------------------------ MODULE ConfigControllerProofs -------------------------
(***************************************************************************)
(* Proofs about ConfigController, for any number of managers, Specs, names *)
(* and faults. BootstrapInv with the types is inductive; the two action    *)
(* properties follow from it step by step.                                 *)
(***************************************************************************)
EXTENDS ConfigController, TLAPS

Inv == TypeOK /\ BootstrapInv

\* The initial state: every cache holds the Config, no Secret exists.
LEMMA InitInv == Init => Inv
<1> SUFFICES ASSUME Init PROVE Inv
  OBVIOUS
<1> USE ConfigAssumption
<1>1. config \in ConfigObject /\ ~config.ready /\ config.version = 0
  BY DEF Init, ConfigObject
<1>2. secret \in [Name -> SecretObject]
  BY DEF Init, SecretObject, NoSecret
<1>3. TypeOK
  BY <1>1, <1>2 DEF Init, TypeOK
<1>4. CopyAgrees(config)
  BY <1>1 DEF CopyAgrees, ConfigObject
<1>5. BootstrapInv
  BY <1>1, <1>4 DEF Init, BootstrapInv, AttemptSound, CopyAgrees
<1> QED BY <1>3, <1>5 DEF Inv

\* A copy that agrees with the Config still does after the Config is written
\* under a new version, or loses its life.
LEMMA CopyStays ==
  ASSUME NEW c \in ConfigObject, config \in ConfigObject, config' \in ConfigObject,
         CopyAgrees(c),
         \/ config'.version = config.version + 1
         \/ config' = [config EXCEPT !.live = FALSE]
         \/ config' = config
  PROVE  CopyAgrees(c)'
<1>1. CASE config'.version = config.version + 1
  BY <1>1 DEF CopyAgrees, ConfigObject
<1>2. CASE config' = [config EXCEPT !.live = FALSE]
  BY <1>2 DEF CopyAgrees, ConfigObject
<1>3. CASE config' = config
  BY <1>3 DEF CopyAgrees
<1> QED BY <1>1, <1>2, <1>3

\* What an attempt to publish knows when no other write came between.
LEMMA NoConflict ==
  ASSUME Inv, NEW g \in Manager, pc[g] = "status", ~Conflict(g)
  PROVE  /\ config.live /\ ~config.ready
         /\ name[g] \in Name
         /\ secret[name[g]].data = config.spec
BY ConfigAssumption DEF Inv, TypeOK, BootstrapInv, CopyAgrees, AttemptSound, Conflict, ConfigObject

\* A Config is still one after its status or its Spec is written.
LEMMA WriteType ==
  ASSUME NEW o \in ConfigObject
  PROVE  /\ \A n \in Name \cup {None} :
              [o EXCEPT !.ready = TRUE, !.dataSecret = n, !.version = @ + 1] \in ConfigObject
         /\ \A c \in Content : [o EXCEPT !.spec = c, !.version = @ + 1] \in ConfigObject
         /\ [o EXCEPT !.live = FALSE] \in ConfigObject
<1>1. o.version + 1 \in Nat
  BY DEF ConfigObject
<1> QED BY <1>1 DEF ConfigObject

\* What each kind of step does to the types.
LEMMA StatusType ==
  ASSUME TypeOK, NEW g \in Manager, pc[g] = "status", StatusWritten(g)
  PROVE  config' \in ConfigObject /\ config'.dataSecret # None
<1>1. name[g] \in Name \cup {None} /\ name[g] # None /\ config \in ConfigObject
  BY DEF TypeOK
<1>2. config' \in ConfigObject
  BY <1>1, WriteType DEF StatusWritten
<1>3. config'.dataSecret = name[g]
  BY <1>1 DEF StatusWritten, ConfigObject
<1> QED BY <1>1, <1>2, <1>3

\* The end of a reconcile.
LEMMA ReturnType ==
  ASSUME TypeOK, NEW g \in Manager, ReturnError(g)
  PROVE  /\ pc' \in [Manager -> {"idle", "create", "status"}]
         /\ queue' \subseteq Manager
         /\ base' \in [Manager -> ConfigObject]
         /\ name' \in [Manager -> Name \cup {None}]
         /\ \A h \in Manager : pc'[h] = "status" => name'[h] # None
BY DEF TypeOK, ReturnError

\* A bootstrap Secret under some name.
LEMMA SecretType ==
  ASSUME TypeOK, NEW g \in Manager, NEW n \in Name,
         secret' = [secret EXCEPT ![n] = BootstrapSecret(g)]
  PROVE  secret' \in [Name -> SecretObject]
<1>1. base[g].spec \in Content
  BY DEF TypeOK, ConfigObject
<1>2. BootstrapSecret(g) \in SecretObject
  BY <1>1 DEF BootstrapSecret, SecretObject
<1> QED BY <1>2 DEF TypeOK

\* The types are preserved by every step.
LEMMA TypeStep == TypeOK /\ [Next]_vars => TypeOK'
<1> SUFFICES ASSUME TypeOK, [Next]_vars PROVE TypeOK'
  OBVIOUS
<1>1. ASSUME NEW g \in Manager, StartOfReconcile(g) PROVE TypeOK'
  BY <1>1 DEF TypeOK, StartOfReconcile, NothingToDo, CannotRender, Render, Take, vars,
     informerVars, handlerVars
<1>2. ASSUME NEW g \in Manager, CreateSecret(g) PROVE TypeOK'
  <2>1. PICK n \in Name : /\ secret' = [secret EXCEPT ![n] = BootstrapSecret(g)]
                          /\ name' = [name EXCEPT ![g] = n]
    BY <1>2 DEF CreateSecret
  <2>2. secret' \in [Name -> SecretObject]
    BY <2>1, SecretType
  <2>3. /\ name' \in [Manager -> Name \cup {None}]
        /\ pc' \in [Manager -> {"idle", "create", "status"}]
        /\ \A h \in Manager : pc'[h] = "status" => name'[h] # None
    BY <1>2, <2>1, ConfigAssumption DEF TypeOK, CreateSecret
  <2> QED BY <1>2, <2>2, <2>3 DEF TypeOK, CreateSecret, informerVars
<1>3. ASSUME NEW g \in Manager, UpdateStatus(g) PROVE TypeOK'
  <2>1. CASE Conflict(g)
    BY <1>3, <2>1, ReturnType DEF TypeOK, UpdateStatus, informerVars
  <2>2. CASE ~Conflict(g)
    <3>1. config' \in ConfigObject /\ config'.dataSecret # None
      BY <1>3, <2>2, StatusType DEF UpdateStatus
    <3> QED BY <1>3, <2>2, <3>1 DEF TypeOK, UpdateStatus, informerVars
  <2> QED BY <2>1, <2>2
<1>4. ASSUME NEW g \in Manager, CreateFails(g) PROVE TypeOK'
  <2>1. secret' \in [Name -> SecretObject]
    BY <1>4, SecretType DEF CreateFails, TypeOK
  <2> QED BY <1>4, <2>1, ReturnType DEF TypeOK, CreateFails, Fault, informerVars
<1>5. ASSUME NEW g \in Manager, UpdateFails(g) PROVE TypeOK'
  <2>1. config' \in ConfigObject /\ (config'.ready => config'.dataSecret # None)
    BY <1>5, StatusType DEF UpdateFails, TypeOK
  <2> QED BY <1>5, <2>1, ReturnType DEF TypeOK, UpdateFails, Fault, informerVars
<1>6. ASSUME NEW g \in Manager, Deliver(g) PROVE TypeOK'
  BY <1>6 DEF TypeOK, Deliver, handlerVars
<1>7. ASSUME NEW g \in Manager, Restart(g) PROVE TypeOK'
  BY <1>7 DEF TypeOK, Restart, Fault
<1>8. ASSUME NEW g \in Manager, NEW s \in Source, SourceAppears(g, s) PROVE TypeOK'
  BY <1>8 DEF TypeOK, SourceAppears, handlerVars
<1>9. CASE Edit
  <2>1. PICK c \in Content : config' = [config EXCEPT !.spec = c, !.version = @ + 1]
    BY <1>9 DEF Edit
  <2>2. config' \in ConfigObject
    BY <2>1, WriteType DEF TypeOK
  <2>3. config'.ready = config.ready /\ config'.dataSecret = config.dataSecret
    BY <2>1 DEF TypeOK, ConfigObject
  <2> QED BY <1>9, <2>2, <2>3 DEF TypeOK, Edit, informerVars, handlerVars
<1>10. CASE DeleteConfig
  <2>1. config' \in ConfigObject /\ config'.ready = config.ready
        /\ config'.dataSecret = config.dataSecret
    BY <1>10, WriteType DEF DeleteConfig, TypeOK, ConfigObject
  <2> QED BY <1>10, <2>1 DEF TypeOK, DeleteConfig, informerVars, handlerVars
<1>11. ASSUME NEW n \in Name, CollectSecret(n) PROVE TypeOK'
  <2>1. secret' \in [Name -> SecretObject]
    BY <1>11 DEF CollectSecret, NoSecret, SecretObject, TypeOK
  <2> QED BY <1>11, <2>1 DEF TypeOK, CollectSecret, informerVars, handlerVars
<1>12. CASE UNCHANGED vars
  BY <1>12 DEF TypeOK, vars, informerVars, handlerVars
<1> QED BY <1>1, <1>2, <1>3, <1>4, <1>5, <1>6, <1>7, <1>8, <1>9, <1>10, <1>11, <1>12
        DEF Next, Step

\* Every write to the Config is one that copies of it survive; nobody takes a
\* Secret away while the Config lives.
LEMMA Writers ==
  ASSUME Inv, [Next]_vars
  PROVE  /\ \/ config'.version = config.version + 1
            \/ config' = [config EXCEPT !.live = FALSE]
            \/ config' = config
         /\ config'.live => config.live
         /\ config.live => \A n \in Name : ~Free(n) => secret'[n] = secret[n]
<1> USE ConfigAssumption DEF Inv, TypeOK, ConfigObject, SecretObject, Free
<1>1. ASSUME NEW g \in Manager,
             StartOfReconcile(g) \/ Deliver(g) \/ Restart(g)
             \/ \E s \in Source : SourceAppears(g, s)
      PROVE  config' = config /\ secret' = secret
  BY <1>1 DEF StartOfReconcile, NothingToDo, CannotRender, Render, Deliver, Restart,
     SourceAppears, vars
<1>2. ASSUME NEW g \in Manager, CreateSecret(g) \/ CreateFails(g)
      PROVE  /\ config' = config
             /\ \A n \in Name : ~Free(n) => secret'[n] = secret[n]
  BY <1>2 DEF CreateSecret, CreateFails
<1>3. ASSUME NEW g \in Manager, UpdateStatus(g) \/ UpdateFails(g)
      PROVE  /\ config' = config \/ StatusWritten(g)
             /\ secret' = secret
  BY <1>3 DEF UpdateStatus, UpdateFails
<1>4. ASSUME NEW g \in Manager, StatusWritten(g)
      PROVE  config'.version = config.version + 1 /\ config'.live = config.live
  BY <1>4 DEF StatusWritten
<1>5. CASE Edit
  <2>1. PICK c \in Content : config' = [config EXCEPT !.spec = c, !.version = @ + 1]
    BY <1>5 DEF Edit
  <2> QED BY <1>5, <2>1 DEF Edit
<1>6. CASE DeleteConfig
  BY <1>6 DEF DeleteConfig
<1>7. ASSUME NEW n \in Name, CollectSecret(n)
      PROVE  config' = config /\ ~config.live
  BY <1>7 DEF CollectSecret
<1>8. CASE UNCHANGED vars
  BY <1>8 DEF vars
<1> QED BY <1>1, <1>2, <1>3, <1>4, <1>5, <1>6, <1>7, <1>8 DEF Next, Step

\* The only step that makes the Config ready publishes the Secret of an attempt
\* that met no conflict; a ready Config is not published again.
LEMMA Publication ==
  ASSUME Inv, [Next]_vars, config' # config, config'.ready
  PROVE  /\ config.ready => config'.dataSecret = config.dataSecret
         /\ ~config.ready => /\ config.live /\ config'.dataSecret \in Name
                            /\ secret'[config'.dataSecret].data = config'.spec
                            /\ config'.spec \in Content
<1>1. ASSUME NEW g \in Manager, UpdateStatus(g) \/ UpdateFails(g)
      PROVE  /\ pc[g] = "status" /\ ~Conflict(g) /\ StatusWritten(g)
             /\ secret' = secret
  BY <1>1 DEF UpdateStatus, UpdateFails
<1>2. ASSUME NEW g \in Manager, UpdateStatus(g) \/ UpdateFails(g)
      PROVE  /\ ~config.ready /\ config.live
             /\ config'.dataSecret \in Name
             /\ secret'[config'.dataSecret].data = config'.spec
             /\ config'.spec \in Content
  <2>1. /\ ~config.ready /\ config.live
        /\ name[g] \in Name /\ secret[name[g]].data = config.spec
    BY <1>1, <1>2, NoConflict
  <2>2. config'.dataSecret = name[g] /\ config'.spec = config.spec
    BY <1>1, <1>2 DEF StatusWritten, Inv, TypeOK, ConfigObject
  <2> QED BY <1>1, <1>2, <2>1, <2>2 DEF Inv, TypeOK, ConfigObject
<1>3. CASE Edit
  <2>1. PICK c \in Content : config' = [config EXCEPT !.spec = c, !.version = @ + 1]
    BY <1>3 DEF Edit
  <2> QED BY <2>1 DEF Inv, TypeOK, ConfigObject
<1>4. CASE DeleteConfig
  BY <1>4 DEF DeleteConfig, Inv, TypeOK, ConfigObject
<1>5. ASSUME NEW g \in Manager,
             \/ StartOfReconcile(g) \/ Deliver(g) \/ Restart(g)
             \/ CreateSecret(g) \/ CreateFails(g)
             \/ \E s \in Source : SourceAppears(g, s)
      PROVE  FALSE
  BY <1>5 DEF StartOfReconcile, NothingToDo, CannotRender, Render, Deliver, Restart,
     SourceAppears, CreateSecret, CreateFails, vars
<1>6. ASSUME NEW n \in Name, CollectSecret(n) PROVE FALSE
  BY <1>6 DEF CollectSecret
<1> QED BY <1>2, <1>3, <1>4, <1>5, <1>6 DEF Next, Step, vars

\* No step takes the readiness back.
LEMMA ReadyStays ==
  ASSUME Inv, [Next]_vars, config.ready
  PROVE  config'.ready
<1> USE DEF Inv, TypeOK, ConfigObject
<1>1. ASSUME NEW g \in Manager, UpdateStatus(g) \/ UpdateFails(g) PROVE config'.ready
  BY <1>1 DEF UpdateStatus, UpdateFails, StatusWritten
<1>2. ASSUME NEW g \in Manager,
             \/ StartOfReconcile(g) \/ Deliver(g) \/ Restart(g)
             \/ CreateSecret(g) \/ CreateFails(g)
             \/ \E s \in Source : SourceAppears(g, s)
      PROVE  config' = config
  BY <1>2 DEF StartOfReconcile, NothingToDo, CannotRender, Render, Deliver, Restart,
     SourceAppears, CreateSecret, CreateFails, vars
<1>3. CASE Edit
  <2>1. PICK c \in Content : config' = [config EXCEPT !.spec = c, !.version = @ + 1]
    BY <1>3 DEF Edit
  <2> QED BY <2>1
<1>4. CASE DeleteConfig \/ (\E n \in Name : CollectSecret(n)) \/ UNCHANGED vars
  BY <1>4 DEF DeleteConfig, CollectSecret, vars
<1> QED BY <1>1, <1>2, <1>3, <1>4 DEF Next, Step

\* Any copy of the Config outlives any step; what a worker that waits to write
\* the status knows outlives the steps of all others.
LEMMA CopiesStay ==
  ASSUME Inv, [Next]_vars, TypeOK', NEW c \in ConfigObject, CopyAgrees(c)
  PROVE  /\ c.version <= config'.version
         /\ c.version = config'.version => [c EXCEPT !.live = config'.live] = config'
<1>1. config \in ConfigObject /\ config' \in ConfigObject
  BY DEF Inv, TypeOK
<1> QED BY <1>1, Writers, CopyStays DEF CopyAgrees

\* Every step preserves what one manager knows.
LEMMA AttemptStep ==
  ASSUME Inv, [Next]_vars, TypeOK', NEW g \in Manager
  PROVE  (CopyAgrees(cached[g]) /\ AttemptSound(g))'
<1> DEFINE Agrees(c) ==
             /\ c.version <= config'.version
             /\ c.version = config'.version => [c EXCEPT !.live = config'.live] = config'
           Same == /\ cached'[g] = cached[g] /\ pc'[g] = pc[g]
                   /\ base'[g] = base[g] /\ name'[g] = name[g]
<1>1. /\ cached[g] \in ConfigObject /\ base[g] \in ConfigObject /\ config \in ConfigObject
      /\ pc[g] = "status" => name[g] \in Name
  BY DEF Inv, TypeOK
<1>2. CopyAgrees(cached[g]) /\ AttemptSound(g) /\ CopyAgrees(config)
  BY <1>1 DEF Inv, BootstrapInv, CopyAgrees, ConfigObject
<1>3. Agrees(cached[g]) /\ Agrees(config) /\ (pc[g] # "idle" => Agrees(base[g]))
  <2> HIDE DEF Agrees
  <2>1. \A c \in ConfigObject : CopyAgrees(c) => Agrees(c)
    BY CopiesStay DEF Agrees
  <2> QED BY <1>1, <1>2, <2>1 DEF AttemptSound
<1> SUFFICES /\ Agrees(cached'[g])
             /\ pc'[g] # "idle" => ~base'[g].ready /\ Agrees(base'[g])
             /\ pc'[g] = "status" /\ config'.live => secret'[name'[g]].data = base'[g].spec
  BY DEF CopyAgrees, AttemptSound
<1> HIDE DEF Agrees
<1>4. config.live /\ pc[g] = "status" => secret'[name[g]] = secret[name[g]]
  <2>1. config.live /\ pc[g] = "status" => ~Free(name[g])
    BY <1>1, <1>2, ConfigAssumption DEF AttemptSound, Free, ConfigObject
  <2> QED BY <1>1, <2>1, Writers
<1>5. config'.live => config.live
  BY Writers
<1>6. CASE Same
  BY <1>2, <1>3, <1>4, <1>5, <1>6 DEF AttemptSound
<1>7. CASE pc'[g] = "idle" /\ cached'[g] \in {cached[g], config}
  BY <1>3, <1>7
<1>8. CASE Render(g)
  BY <1>3, <1>8 DEF Render, Take, informerVars, Inv, TypeOK
<1>9. CASE CreateSecret(g)
  <2>1. PICK n \in Name : /\ secret' = [secret EXCEPT ![n] = BootstrapSecret(g)]
                          /\ name' = [name EXCEPT ![g] = n]
    BY <1>9 DEF CreateSecret
  <2>2. secret'[name'[g]].data = base[g].spec
    BY <2>1 DEF Inv, TypeOK, BootstrapSecret
  <2>3. pc[g] # "idle" /\ base' = base /\ cached' = cached
    BY <1>9 DEF CreateSecret, informerVars
  <2> QED BY <1>2, <1>3, <2>2, <2>3 DEF AttemptSound
<1>10. ASSUME Deliver(g)
       PROVE  /\ cached'[g] = config /\ pc'[g] = pc[g]
              /\ base'[g] = base[g] /\ name'[g] = name[g]
  BY <1>10 DEF Deliver, handlerVars, Inv, TypeOK
<1>11. CASE Deliver(g)
  BY <1>2, <1>3, <1>4, <1>5, <1>10, <1>11 DEF AttemptSound
<1>12. ASSUME NEW h \in Manager, h # g,
              \/ Render(h) \/ CreateSecret(h) \/ UpdateStatus(h) \/ CreateFails(h)
              \/ UpdateFails(h) \/ Deliver(h) \/ Restart(h)
       PROVE  Same
  BY <1>12 DEF Render, CreateSecret, UpdateStatus, CreateFails, UpdateFails, Deliver,
     Restart, ReturnError, Take, informerVars, handlerVars, Inv, TypeOK
<1>13. ASSUME NEW h \in Manager,
              NothingToDo(h) \/ CannotRender(h) \/ \E s \in Source : SourceAppears(h, s)
       PROVE  Same
  BY <1>13 DEF NothingToDo, CannotRender, SourceAppears, vars, informerVars, handlerVars
<1>14. ASSUME UpdateStatus(g) \/ CreateFails(g) \/ UpdateFails(g) \/ Restart(g)
       PROVE  pc'[g] = "idle" /\ cached'[g] \in {cached[g], config}
  BY <1>14 DEF UpdateStatus, CreateFails, UpdateFails, Restart, ReturnError, informerVars,
     Inv, TypeOK
<1>15. ASSUME Edit \/ DeleteConfig \/ (\E n \in Name : CollectSecret(n)) \/ UNCHANGED vars
       PROVE  Same
  BY <1>15 DEF Edit, DeleteConfig, CollectSecret, vars, informerVars, handlerVars
<1> HIDE DEF Same
<1> QED BY <1>6, <1>7, <1>8, <1>9, <1>11, <1>12, <1>13, <1>14, <1>15
        DEF Next, StartOfReconcile, Step

\* A Config that is ready keeps the Secret that its status names.
LEMMA BackedStep ==
  ASSUME Inv, [Next]_vars, config'.live, config'.ready
  PROVE  /\ secret'[config'.dataSecret].data # None
         /\ config.ready => /\ config'.dataSecret = config.dataSecret
                           /\ secret'[config.dataSecret] = secret[config.dataSecret]
<1>1. config.live
  BY Writers
<1>2. config.ready => config.dataSecret \in Name /\ ~Free(config.dataSecret)
  BY <1>1 DEF Inv, TypeOK, BootstrapInv, ConfigObject
<1>3. CASE config.ready
  <2>1. config'.dataSecret = config.dataSecret
    BY <1>3, Publication
  <2> QED BY <1>1, <1>2, <1>3, <2>1, Writers DEF Free
<1>4. CASE ~config.ready
  <2>1. config' # config
    BY <1>4
  <2> QED BY <1>4, <2>1, Publication, ConfigAssumption
<1> QED BY <1>3, <1>4

\* The invariant is inductive.
LEMMA InvStep == Inv /\ [Next]_vars => Inv'
<1> SUFFICES ASSUME Inv, [Next]_vars PROVE Inv'
  OBVIOUS
<1>1. TypeOK'
  BY TypeStep DEF Inv
<1>2. \A g \in Manager : (CopyAgrees(cached[g]) /\ AttemptSound(g))'
  BY <1>1, AttemptStep
<1>3. config'.live /\ config'.ready => ~Free(config.dataSecret)'
  BY BackedStep DEF Free
<1> QED BY <1>1, <1>2, <1>3 DEF Inv, BootstrapInv

\* The types, and that a Config never becomes ready without a reference.
THEOREM ConfigTypeCorrect == Spec => []TypeOK
BY InitInv, InvStep, PTL DEF Spec, Inv

\* A Config that is ready names a bootstrap Secret that exists, whatever other
\* managers, stale caches, conflicts, lost replies and crashes do.
THEOREM BootstrapInvariant == Spec => []BootstrapInv
BY InitInv, InvStep, PTL DEF Spec, Inv

\* A Config becomes ready with the rendering of its current Spec.
THEOREM RenderedFromCurrent == Spec => RenderedFromCurrentSpec
<1>1. ASSUME Inv, [Next]_vars, ~config.ready, config'.ready
      PROVE  config.live /\ secret'[config'.dataSecret].data = config'.spec
  <2>1. config' # config
    BY <1>1
  <2> QED BY <1>1, <2>1, Publication
<1>2. Inv /\ [Next]_vars
        => [~config.ready /\ config'.ready
              => config.live /\ secret'[config'.dataSecret].data = config'.spec]_vars
  BY <1>1
<1> QED BY <1>2, InitInv, InvStep, PTL DEF Spec, RenderedFromCurrentSpec

\* What a Config was published with is what it keeps.
THEOREM PublishedOnceAndForAll == Spec => PublishedOnce
<1>1. ASSUME Inv, [Next]_vars, config.ready, config'.live
      PROVE  /\ config'.ready /\ config'.dataSecret = config.dataSecret
             /\ secret'[config.dataSecret] = secret[config.dataSecret]
  <2>1. config'.ready
    BY <1>1, ReadyStays
  <2> QED BY <1>1, <2>1, BackedStep
<1>2. Inv /\ [Next]_vars
        => [config.ready /\ config'.live
              => /\ config'.ready /\ config'.dataSecret = config.dataSecret
                 /\ secret'[config.dataSecret] = secret[config.dataSecret]]_vars
  BY <1>1
<1> QED BY <1>2, InitInv, InvStep, PTL DEF Spec, PublishedOnce

\* The Config that a manager has as it is now was so before the step, unless the
\* step brought it: no write leads back to an older version.
LEMMA NoWayBack ==
  ASSUME Inv, [Next]_vars, NEW g \in Manager, config'.live, cached[g] = config'
  PROVE  config' = config
<1>1. /\ config \in ConfigObject /\ cached[g] \in ConfigObject /\ CopyAgrees(cached[g])
      /\ config.live
  BY Writers DEF Inv, TypeOK, BootstrapInv
<1>2. CASE config'.version = config.version + 1
  BY <1>1, <1>2 DEF CopyAgrees, ConfigObject
<1>3. CASE config' = [config EXCEPT !.live = FALSE]
  BY <1>1, <1>3 DEF ConfigObject
<1> QED BY <1>2, <1>3, Writers

\* The controller never sleeps on a Config that is not ready.
THEOREM ConfigNeverGivenUp == Spec => []NeverGivenUp
<1>1. Init => NeverGivenUp
  BY DEF Init, NeverGivenUp
<1>2. Inv /\ NeverGivenUp /\ [Next]_vars => NeverGivenUp'
  <2> SUFFICES ASSUME Inv, NeverGivenUp, [Next]_vars, NEW g \in Manager,
                      config'.live, ~config'.ready, cached'[g] = config', pc'[g] = "idle",
                      g \notin queue'
               PROVE  FALSE
    BY DEF NeverGivenUp
  <2> USE DEF Inv, TypeOK
  <2>1. CASE cached'[g] # cached[g]
    BY <2>1
    DEF Next, StartOfReconcile, NothingToDo, CannotRender, Render, Step, CreateSecret,
        UpdateStatus, CreateFails, UpdateFails, Deliver, Restart, SourceAppears, Edit,
        DeleteConfig, CollectSecret, ReturnError, informerVars, vars
  <2>2. CASE cached'[g] = cached[g]
    <3>1. config' = config
      BY <2>2, NoWayBack
    <3>2. pc[g] = "idle" => g \in queue
      BY <2>2, <3>1 DEF NeverGivenUp
    <3>3. CASE pc[g] = "idle" /\ g \in queue
      BY <2>2, <3>1, <3>3
      DEF Next, StartOfReconcile, NothingToDo, CannotRender, Render, Step, CreateSecret,
          UpdateStatus, CreateFails, UpdateFails, Deliver, Restart, SourceAppears, Edit,
          DeleteConfig, CollectSecret, ReturnError, Take, handlerVars, vars
    <3>4. CASE pc[g] # "idle"
      <4>1. ASSUME StatusWritten(g) PROVE FALSE
        BY <4>1 DEF StatusWritten, ConfigObject
      <4> QED BY <3>4, <4>1
      DEF Next, StartOfReconcile, NothingToDo, CannotRender, Render, Step, CreateSecret,
          UpdateStatus, CreateFails, UpdateFails, Deliver, Restart, SourceAppears, Edit,
          DeleteConfig, CollectSecret, ReturnError, Take, handlerVars, vars
    <3> QED BY <3>2, <3>3, <3>4
  <2> QED BY <2>1, <2>2
<1> QED BY <1>1, <1>2, InitInv, InvStep, PTL DEF Spec

================================================================================
