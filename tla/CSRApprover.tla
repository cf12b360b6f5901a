----------------------------- MODULE CSRApprover ------------------------------
(***************************************************************************)
(* The CSR approver (controllers/csrapprover) follows the certificate      *)
(* signing request of one Node, from when the kubelet sends it until it is *)
(* decided or removed. Managers read the request, the Node and the Machine *)
(* from caches that lag, and decide with one UpdateApproval. Without       *)
(* leader election, which is optional, several managers may be at it.      *)
(*                                                                         *)
(* The Machines live as MachineLifecycle says, which MachineController     *)
(* implements.                                                             *)
(***************************************************************************)
EXTENDS Naturals

CONSTANTS
  Manager,      \* manager processes
  Machine,      \* the Machines
  Subject,      \* the Machine whose NodeRef names the Node of the request
  MaxFaults,    \* bound of a run: failed calls, lost answers and restarts
  MaxDropped    \* bound of a run: failed Node lookups and reviews

ASSUME ApproverAssumption ==
  Subject \in Machine /\ MaxFaults \in Nat /\ MaxDropped \in Nat

VARIABLES
  life, torn,   \* the Machines (MachineLifecycle)
  form,         \* what kind of request it is
  csr,          \* the request at the API server
  csrView,      \* the informers of each manager: the request,
  lifeView,     \* ... the status of the Machine Subject
  queued,       \* the managers that have the request in their workqueue
  at,           \* where the reconcile of each manager is
  faults,       \* faults so far
  dropped       \* Node lookups and SubjectAccessReviews that failed so far

machineVars == <<life, torn>>
viewVars == <<csrView, lifeView>>
boundVars == <<faults, dropped>>
vars == <<machineVars, form, csr, viewVars, queued, at, boundVars>>

Machines == INSTANCE MachineLifecycle

--------------------------------------------------------------------------------
(* The request: what validateCSR tells apart.                              *)

Form ==
  {"foreign",       \* its user is not a node
   "incomplete",    \* no node name, or groups that are missing
   "usage",         \* a usage that is not in allowedUsages
   "empty",         \* no PEM block
   "addresses",     \* not parsable, or not only addresses of the Machine
   "unpermitted",   \* the SubjectAccessReview says no
   "regular"}       \* none of these

\* "approved" is the controller's answer, "answered" an admin's, either way.
State == {"unsent", "pending", "approved", "answered", "gone"}

Decided == {"approved", "answered"}

\* What the readers find of a request, and of a Machine.
Shown(s) ==
  IF s \in Decided THEN "decided" ELSE IF s = "pending" THEN "pending" ELSE "absent"

Status(l) == [noded |-> l.noded, ready |-> l.ready]

Init ==
  /\ Machines!Init
  /\ form \in Form
  /\ csr = "unsent"
  /\ csrView = [g \in Manager |-> "absent"]
  /\ lifeView = [g \in Manager |-> Status(life[Subject])]
  /\ queued = {}
  /\ at = [g \in Manager |-> "idle"]
  /\ faults = 0 /\ dropped = 0

--------------------------------------------------------------------------------
(* Reconcile.                                                              *)

Stage == {"idle", "node", "machine", "review", "approve"}

Goto(g, s) == at' = [at EXCEPT ![g] = s]

\* Reconcile returns; errors and RequeueAfter put the request back.
Return(g, requeue) ==
  /\ Goto(g, "idle")
  /\ queued' = IF requeue THEN queued \cup {g} ELSE queued

\* Nothing to do: the request is gone, not for a node, or decided already.
NotForUs(g) == csrView[g] # "pending" \/ form = "foreign"

\* Take the request from the queue and look at it. Of a request without node name
\* or groups validateCSR has no more to verify: it returns nil.
Start(g) ==
  /\ at[g] = "idle" /\ g \in queued
  /\ queued' = queued \ {g}
  /\ Goto(g, IF NotForUs(g) THEN "idle"
             ELSE IF form = "incomplete" THEN "approve" ELSE "node")
  /\ UNCHANGED <<machineVars, form, csr, viewVars, boundVars>>

\* The error of a usage that is not allowed is logged and dropped: nobody comes back.
CheckNode(g) ==
  /\ at[g] = "node"
  /\ Goto(g, IF form = "usage" THEN "idle" ELSE "machine")
  /\ UNCHANGED <<machineVars, form, csr, viewVars, queued, boundVars>>

Drop == dropped < MaxDropped /\ dropped' = dropped + 1 /\ UNCHANGED faults

\* So is the one of a Node that is not in the cache, or not yet.
NodeNotFound(g) ==
  /\ Drop
  /\ at[g] = "node"
  /\ Goto(g, "idle")
  /\ UNCHANGED <<machineVars, form, csr, viewVars, queued>>

\* getMachine finds the Machine by its NodeRef, and its infrastructure is ready.
Found(l) == l.noded /\ l.ready

\* Mutant of AwaitMachine: the error is dropped as the others are.
AwaitMachineOnce(g) ==
  /\ at[g] = "machine" /\ ~Found(lifeView[g])
  /\ Return(g, FALSE)
  /\ UNCHANGED <<machineVars, form, csr, viewVars, boundVars>>

\* Not yet: come back in five seconds.
AwaitMachine(g) ==
  /\ at[g] = "machine" /\ ~Found(lifeView[g])
  /\ Return(g, TRUE)
  /\ UNCHANGED <<machineVars, form, csr, viewVars, boundVars>>

\* Mutant of CheckMachine: any Machine will do, with a Node or not.
CheckAnyMachine(g) ==
  /\ at[g] = "machine"
  /\ Goto(g, "review")
  /\ UNCHANGED <<machineVars, form, csr, viewVars, queued, boundVars>>

\* The content of the request against the addresses of the Machine.
CheckMachine(g) ==
  /\ at[g] = "machine" /\ Found(lifeView[g])
  /\ Goto(g, CASE form = "empty" -> "approve"
               [] form = "addresses" -> "idle"
               [] OTHER -> "review")
  /\ UNCHANGED <<machineVars, form, csr, viewVars, queued, boundVars>>

\* The SubjectAccessReview; a refusal is dropped.
Review(g) ==
  /\ at[g] = "review"
  /\ Goto(g, IF form = "unpermitted" THEN "idle" ELSE "approve")
  /\ UNCHANGED <<machineVars, form, csr, viewVars, queued, boundVars>>

\* So is the error when the call fails.
ReviewFails(g) ==
  /\ Drop
  /\ at[g] = "review"
  /\ Goto(g, "idle")
  /\ UNCHANGED <<machineVars, form, csr, viewVars, queued>>

\* Mutant of Approve: a patch, that no version guards.
ApprovePatched(g) ==
  /\ at[g] = "approve"
  /\ csr' = IF csr = "gone" THEN csr ELSE "approved"
  /\ Return(g, csr = "gone")
  /\ UNCHANGED <<machineVars, form, viewVars, boundVars>>

\* UpdateApproval conflicts when the request was decided, or removed, since it
\* was read: an error that is retried.
Approve(g) ==
  /\ at[g] = "approve"
  /\ csr' = IF csr = "pending" THEN "approved" ELSE csr
  /\ Return(g, csr # "pending")
  /\ UNCHANGED <<machineVars, form, viewVars, boundVars>>

--------------------------------------------------------------------------------
(* Faults: calls that fail, answers that are lost, managers that restart.  *)

Fault == faults < MaxFaults /\ faults' = faults + 1 /\ UNCHANGED dropped

ApproveFails(g) ==
  /\ Fault
  /\ at[g] = "approve"
  /\ csr' \in {csr, IF csr = "pending" THEN "approved" ELSE csr}
  /\ Return(g, TRUE)
  /\ UNCHANGED <<machineVars, form, viewVars>>

Restart(g) ==
  /\ Fault
  /\ Goto(g, "idle")
  /\ csrView' = [csrView EXCEPT ![g] = Shown(csr)]
  /\ lifeView' = [lifeView EXCEPT ![g] = Status(life[Subject])]
  /\ queued' = IF Shown(csr) = "absent" THEN queued \ {g} ELSE queued \cup {g}
  /\ UNCHANGED <<machineVars, form, csr>>

--------------------------------------------------------------------------------
(* The informers; only requests enqueue.                                   *)

SyncRequest(g) ==
  /\ csrView[g] # Shown(csr)
  /\ csrView' = [csrView EXCEPT ![g] = Shown(csr)]
  /\ queued' = queued \cup {g}
  /\ UNCHANGED <<machineVars, form, csr, lifeView, at, boundVars>>

SyncMachine(g) ==
  /\ lifeView[g] # Status(life[Subject])
  /\ lifeView' = [lifeView EXCEPT ![g] = Status(life[Subject])]
  /\ UNCHANGED <<machineVars, form, csr, csrView, queued, at, boundVars>>

--------------------------------------------------------------------------------
(* The kubelet, the admins, the cleaner of old requests, the Machines.     *)

Requests(s) ==
  csr' = s /\ UNCHANGED <<machineVars, form, viewVars, queued, at, boundVars>>

Send == csr = "unsent" /\ Requests("pending")

\* An admin approves or denies the request before the controller gets to it.
Answer == csr = "pending" /\ Requests("answered")

RemoveRequest == csr \notin {"unsent", "gone"} /\ Requests("gone")

MachineStep ==
  /\ Machines!Next
  /\ UNCHANGED <<form, csr, viewVars, queued, at, boundVars>>

--------------------------------------------------------------------------------
HandlerStep(g) ==
  \/ CheckNode(g) \/ AwaitMachine(g) \/ CheckMachine(g) \/ Review(g) \/ Approve(g)

Next ==
  \/ \E g \in Manager :
       \/ Start(g) \/ HandlerStep(g) \/ NodeNotFound(g) \/ ReviewFails(g) \/ ApproveFails(g) \/ Restart(g)
       \/ SyncRequest(g) \/ SyncMachine(g)
  \/ Send \/ Answer \/ RemoveRequest \/ MachineStep

Spec == Init /\ [][Next]_vars

\* Workers go on, and the informers catch up.
Fairness ==
  \A g \in Manager :
    WF_vars(Start(g) \/ HandlerStep(g)) /\ WF_vars(SyncRequest(g)) /\ WF_vars(SyncMachine(g))

FairSpec == Spec /\ Fairness

--------------------------------------------------------------------------------
TypeOK ==
  /\ life \in [Machine -> Machines!Life] /\ torn \subseteq Machine
  /\ form \in Form /\ csr \in State 
  /\ csrView \in [Manager -> {"absent", "pending", "decided"}]
  /\ lifeView \in [Manager -> [noded : BOOLEAN, ready : BOOLEAN]]
  /\ queued \subseteq Manager /\ at \in [Manager -> Stage]
  /\ faults \in Nat /\ dropped \in Nat

\* The Machine that a cached copy shows with a Node has it still, or is gone.
HasNode == life[Subject].noded \/ ~life[Subject].exists

\* The forms that validateCSR logs as invalid or missing something, and then returns
\* nil for: they are approved without a review, against the comment that the controller
\* "is only designed to auto-approve certificates for nodes" (controller.go:74-75).
Unreviewed == {"incomplete", "empty"}

\* Of the other requests only a regular one is approved, and only when the Machine of
\* its Node has its NodeRef, however old the copy is that the review looked at. Nothing
\* of the kind holds of the forms Unreviewed.
ApprovedHasMachine ==
  /\ TypeOK
  /\ ~life[Subject].exists => ~life[Subject].noded
  /\ csr = "approved" /\ form \notin Unreviewed => form = "regular" /\ HasNode
  /\ \A g \in Manager :
       /\ lifeView[g].noded => HasNode
       /\ at[g] = "node" => form \notin {"foreign", "incomplete"}
       /\ at[g] = "machine" => form \notin {"foreign", "incomplete", "usage"}
       /\ at[g] = "review" => form \in {"unpermitted", "regular"} /\ HasNode
       /\ at[g] = "approve" /\ form \notin Unreviewed => form = "regular" /\ HasNode

\* What an admin, or another manager, decided stands: nobody decides again.
OneDecision == [][(csr \in Decided) => csr' \in {csr, "gone"}]_vars

\* The forms of the requests that the approver approves, the unreviewed ones included.
Approvable == Unreviewed \cup {"regular"}

\* A pending request that will be approved is never put aside: it is queued or
\* under way, or its event is on its way, at every manager, as long as none of the
\* errors occurred that are dropped.
NeverPutAside ==
  csr = "pending" /\ form \in Approvable /\ dropped = 0
    => \A g \in Manager : g \in queued \/ at[g] # "idle" \/ csrView[g] # "pending"

\* A regular request does not wait for ever once the Machine of its Node stays ready,
\* as long as the Node is found and no review fails: those errors are dropped, and
\* no event of the Node or of the Machine wakes the controller up.
NotForgotten ==
  [](dropped = 0) /\ <>[]Found(life[Subject])
  => <>[]~(csr = "pending" /\ form = "regular")

================================================================================
