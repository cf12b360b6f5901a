---------------------------- MODULE ConfigController ----------------------------
(***************************************************************************)
(* The Config controller (controllers/config): it renders a Config into a  *)
(* bootstrap Secret under a generated name and then points the Config's    *)
(* status at it. Reconciles of different Configs share no state, so the    *)
(* module follows a single one; several managers may serve it at once,     *)
(* since leader election is optional (main.go).                            *)
(*                                                                         *)
(* The handler is cut at its two writes; its reads come from an informer   *)
(* cache and lag.                                                          *)
(***************************************************************************)
EXTENDS Naturals

CONSTANTS
  Manager,    \* the managers that run the controller
  Content,    \* what Spec may hold
  Valid,      \* ... a crit ControlPlaneConfiguration or WorkerConfiguration
  Source,     \* the Secrets that SecretFiles of a Spec may name
  Uses,       \* [Content -> SUBSET Source]: the ones each Spec names
  Name,       \* the names GenerateName can give: the bound on bootstrap Secrets
  None,       \* a nil pointer
  MaxEdits,   \* bounds of a run: edits of the Spec by the user,
  MaxFaults   \* API errors, lost replies and crashes

ASSUME ConfigAssumption ==
  /\ Valid \subseteq Content /\ Content # {}
  /\ Uses \in [Content -> SUBSET Source]
  /\ None \notin Content /\ None \notin Name
  /\ MaxEdits \in Nat /\ MaxFaults \in Nat

VARIABLES
  config,    \* the Config at the API server
  secret,    \* the bootstrap Secrets at the API server
  cached,    \* the Config as each manager's informer has it
  sources,   \* the source Secrets each manager's informer has
  queue,     \* the managers whose workqueue holds the Config's key
  pc,        \* where the reconcile of each manager is
  base,      \* ... the Config that it read
  name,      \* ... the name of the Secret that it created
  edits,     \* edits so far
  faults     \* faults so far

handlerVars == <<pc, base, name>>
informerVars == <<cached, sources>>
vars == <<config, secret, informerVars, queue, handlerVars, edits, faults>>

--------------------------------------------------------------------------------
ConfigObject ==
  [live : BOOLEAN, version : Nat, spec : Content, ready : BOOLEAN,
   dataSecret : Name \cup {None}]

SecretObject == [data : Content \cup {None}, owned : BOOLEAN]

NoSecret == [data |-> None, owned |-> FALSE]

Free(n) == secret[n].data = None

Init ==
  /\ \E c \in Content :
       config = [live |-> TRUE, version |-> 0, spec |-> c, ready |-> FALSE,
                 dataSecret |-> None]
  /\ secret = [n \in Name |-> NoSecret]
  /\ cached = [g \in Manager |-> config]
  /\ sources = [g \in Manager |-> {}]
  /\ queue = Manager
  /\ pc = [g \in Manager |-> "idle"]
  /\ base = cached
  /\ name = [g \in Manager |-> None]
  /\ edits = 0
  /\ faults = 0

--------------------------------------------------------------------------------
(* Reconcile. *)

Take(g) ==
  /\ pc[g] = "idle"
  /\ g \in queue

\* The early returns without an error: the Config is gone, or done.
NothingToDo(g) ==
  /\ Take(g)
  /\ ~cached[g].live \/ cached[g].ready
  /\ queue' = queue \ {g}
  /\ UNCHANGED <<config, secret, informerVars, handlerVars, edits, faults>>

Renders(g, c) == c.spec \in Valid /\ Uses[c.spec] \subseteq sources[g]

\* Mutant of CannotRender: Reconcile returns no error.
CannotRenderGivesUp(g) ==
  /\ Take(g)
  /\ cached[g].live /\ ~cached[g].ready
  /\ ~Renders(g, cached[g])
  /\ queue' = queue \ {g}
  /\ UNCHANGED <<config, secret, informerVars, handlerVars, edits, faults>>

\* The early returns with an error: the Spec is malformed or of the wrong type,
\* or a source Secret is missing. The key goes back to the queue, nothing else.
CannotRender(g) ==
  /\ Take(g)
  /\ cached[g].live /\ ~cached[g].ready
  /\ ~Renders(g, cached[g])
  /\ UNCHANGED vars

\* Everything up to the Secret to create is computed from the caches.
Render(g) ==
  /\ Take(g)
  /\ cached[g].live /\ ~cached[g].ready
  /\ Renders(g, cached[g])
  /\ queue' = queue \ {g}
  /\ pc' = [pc EXCEPT ![g] = "create"]
  /\ base' = [base EXCEPT ![g] = cached[g]]
  /\ UNCHANGED <<config, secret, informerVars, name, edits, faults>>

\* Reconcile returns an error: the key is queued again. Nothing is cleaned up.
ReturnError(g) ==
  /\ pc' = [pc EXCEPT ![g] = "idle"]
  /\ queue' = queue \cup {g}
  /\ UNCHANGED <<base, name>>

Fault ==
  /\ faults < MaxFaults
  /\ faults' = faults + 1

\* Mutant of BootstrapSecret: SetOwnerReference is left out.
BootstrapSecretUnowned(g) == [data |-> base[g].spec, owned |-> FALSE]

BootstrapSecret(g) == [data |-> base[g].spec, owned |-> TRUE]

\* Mutants of CreateSecret: the error of Create is not looked at; the name that
\* the server generated is not read back.
CreateSecretUnchecked(g) ==
  /\ pc[g] = "create"
  /\ \E n \in Name :
       /\ Free(n)
       /\ secret' = secret \/ secret' = [secret EXCEPT ![n] = BootstrapSecret(g)]
       /\ name' = [name EXCEPT ![g] = n]
  /\ pc' = [pc EXCEPT ![g] = "status"]
  /\ UNCHANGED <<config, informerVars, base, queue, edits, faults>>

CreateSecretNameless(g) ==
  /\ pc[g] = "create"
  /\ \E n \in Name : Free(n) /\ secret' = [secret EXCEPT ![n] = BootstrapSecret(g)]
  /\ pc' = [pc EXCEPT ![g] = "status"]
  /\ UNCHANGED <<config, informerVars, base, name, queue, edits, faults>>

CreateSecret(g) ==
  /\ pc[g] = "create"
  /\ \E n \in Name :
       /\ Free(n)
       /\ secret' = [secret EXCEPT ![n] = BootstrapSecret(g)]
       /\ name' = [name EXCEPT ![g] = n]
  /\ pc' = [pc EXCEPT ![g] = "status"]
  /\ UNCHANGED <<config, informerVars, base, queue, edits, faults>>

\* The call fails (the generated name is taken, say), or its reply is lost.
CreateFails(g) ==
  /\ pc[g] = "create"
  /\ Fault
  /\ \/ UNCHANGED secret
     \/ \E n \in Name : Free(n) /\ secret' = [secret EXCEPT ![n] = BootstrapSecret(g)]
  /\ ReturnError(g)
  /\ UNCHANGED <<config, informerVars, edits>>

\* The update carries the resourceVersion that was read.
Conflict(g) == ~config.live \/ config.version # base[g].version

StatusWritten(g) ==
  config' = [config EXCEPT !.ready = TRUE, !.dataSecret = name[g], !.version = @ + 1]

\* Mutant of UpdateStatus: a patch, which no resourceVersion guards, in place of
\* the Update.
PatchStatusInstead(g) ==
  /\ pc[g] = "status"
  /\ IF config.live THEN StatusWritten(g) ELSE UNCHANGED config
  /\ pc' = [pc EXCEPT ![g] = "idle"]
  /\ UNCHANGED <<secret, informerVars, edits, faults, queue, base, name>>

UpdateStatus(g) ==
  /\ pc[g] = "status"
  /\ IF Conflict(g)
     THEN ReturnError(g) /\ UNCHANGED config
     ELSE /\ StatusWritten(g)
          /\ pc' = [pc EXCEPT ![g] = "idle"]
          /\ UNCHANGED <<queue, base, name>>
  /\ UNCHANGED <<secret, informerVars, edits, faults>>

UpdateFails(g) ==
  /\ pc[g] = "status"
  /\ Fault
  /\ UNCHANGED config \/ (~Conflict(g) /\ StatusWritten(g))
  /\ ReturnError(g)
  /\ UNCHANGED <<secret, informerVars, edits>>

--------------------------------------------------------------------------------
(* The manager's informers and process; the user; the garbage collector. *)

Deliver(g) ==
  /\ cached[g] # config
  /\ cached' = [cached EXCEPT ![g] = config]
  /\ queue' = queue \cup {g}
  /\ UNCHANGED <<config, secret, sources, handlerVars, edits, faults>>

\* A source Secret gets into the cache. No event of a Secret enqueues a Config.
SourceAppears(g, s) ==
  /\ s \notin sources[g]
  /\ sources' = [sources EXCEPT ![g] = @ \cup {s}]
  /\ UNCHANGED <<config, secret, cached, queue, handlerVars, edits, faults>>

\* The manager dies and comes back: it lists the Config again.
Restart(g) ==
  /\ Fault
  /\ pc' = [pc EXCEPT ![g] = "idle"]
  /\ cached' = [cached EXCEPT ![g] = config]
  /\ queue' = queue \cup {g}
  /\ UNCHANGED <<config, secret, sources, base, name, edits>>

Edit ==
  /\ config.live
  /\ edits < MaxEdits
  /\ edits' = edits + 1
  /\ \E c \in Content \ {config.spec} :
       config' = [config EXCEPT !.spec = c, !.version = @ + 1]
  /\ UNCHANGED <<secret, informerVars, queue, handlerVars, faults>>

\* A Config has no finalizer.
DeleteConfig ==
  /\ config.live
  /\ config' = [config EXCEPT !.live = FALSE]
  /\ UNCHANGED <<secret, informerVars, queue, handlerVars, edits, faults>>

\* The garbage collector: the owner of the Secret is gone.
CollectSecret(n) ==
  /\ ~config.live
  /\ secret[n].owned
  /\ secret' = [secret EXCEPT ![n] = NoSecret]
  /\ UNCHANGED <<config, informerVars, queue, handlerVars, edits, faults>>

--------------------------------------------------------------------------------
StartOfReconcile(g) == NothingToDo(g) \/ CannotRender(g) \/ Render(g)

Step(g) == CreateSecret(g) \/ UpdateStatus(g)

Next ==
  \/ \E g \in Manager :
       \/ StartOfReconcile(g) \/ Step(g) \/ CreateFails(g) \/ UpdateFails(g)
       \/ Deliver(g) \/ Restart(g) \/ \E s \in Source : SourceAppears(g, s)
  \/ Edit \/ DeleteConfig \/ \E n \in Name : CollectSecret(n)

Spec == Init /\ [][Next]_vars

\* A worker that has the key finishes, a key in the queue is taken, informers
\* and the garbage collector catch up. Nobody has to create a source Secret.
Fairness ==
  /\ \A g \in Manager :
       WF_vars(Step(g)) /\ WF_vars(StartOfReconcile(g)) /\ WF_vars(Deliver(g))
  /\ \A n \in Name : WF_vars(CollectSecret(n))

FairSpec == Spec /\ Fairness

--------------------------------------------------------------------------------
\* The types of the variables; a name is never used before it is generated, nor
\* a reference to a Secret left out (DataSecretName is a pointer).
TypeOK ==
  /\ config \in ConfigObject /\ (config.ready => config.dataSecret # None)
  /\ secret \in [Name -> SecretObject]
  /\ cached \in [Manager -> ConfigObject]
  /\ sources \in [Manager -> SUBSET Source]
  /\ queue \subseteq Manager
  /\ pc \in [Manager -> {"idle", "create", "status"}]
  /\ base \in [Manager -> ConfigObject]
  /\ name \in [Manager -> Name \cup {None}]
  /\ \A g \in Manager : pc[g] = "status" => name[g] # None
  /\ edits \in Nat /\ faults \in Nat

\* A copy of the Config with the current version is a current copy.
CopyAgrees(c) ==
  /\ c.version <= config.version
  /\ c.version = config.version => [c EXCEPT !.live = config.live] = config

\* A manager about to point a Config at a Secret created that Secret from the
\* very copy it read, when the Config was not ready yet.
AttemptSound(g) ==
  /\ pc[g] # "idle" => ~base[g].ready /\ CopyAgrees(base[g])
  /\ pc[g] = "status" /\ config.live => secret[name[g]].data = base[g].spec

\* A Config that is ready names a bootstrap Secret that exists; and what every
\* manager holds, however old, is fit to be written or refused.
BootstrapInv ==
  /\ config.live /\ config.ready => ~Free(config.dataSecret)
  /\ \A g \in Manager : CopyAgrees(cached[g]) /\ AttemptSound(g)

\* A Config becomes ready with the Secret that was rendered from the Spec it has
\* at that moment, not from one edited since: the optimistic Status().Update.
RenderedFromCurrentSpec ==
  [][~config.ready /\ config'.ready
       => config.live /\ secret'[config'.dataSecret].data = config'.spec]_vars

\* Once published, neither the reference to the bootstrap Secret nor the Secret
\* changes, although other managers or retries may have created more of them.
PublishedOnce ==
  [][config.ready /\ config'.live
       => /\ config'.ready /\ config'.dataSecret = config.dataSecret
          /\ secret'[config.dataSecret] = secret[config.dataSecret]]_vars

\* The controller never sleeps on a Config that is not ready yet: a manager that
\* has its present version and no reconcile of it under way has its key queued,
\* after a conflict, an error that no retry can cure or a lost reply, too. (No
\* event of a source Secret would wake it up.)
NeverGivenUp ==
  \A g \in Manager :
    config.live /\ ~config.ready /\ cached[g] = config /\ pc[g] = "idle" => g \in queue

\* A Config that can be rendered becomes ready, whatever came in the way:
\* source Secrets that were missing, stale caches, conflicts, faults. (Each
\* failed attempt leaves a Secret behind; Name bounds how many there may be.)
BecomesReady ==
  <>[](config.live /\ config.spec \in Valid
         /\ (\A g \in Manager : Uses[config.spec] \subseteq sources[g])
         => config.ready \/ \A n \in Name : ~Free(n))

\* When a Config is deleted all its bootstrap Secrets go, the ones that no
\* status ever named included: SetOwnerReference comes before Create.
SecretsGoWithConfig == <>[](~config.live => \A n \in Name : Free(n))

================================================================================
