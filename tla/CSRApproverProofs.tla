-------------------------- MODULE CSRApproverProofs --------------------------
(* What TLAPS proves of CSRApprover, for every value of its constants: any   *)
(* number of managers, Machines, faults and failed reviews.                  *)
EXTENDS CSRApprover, TLAPS

\* The Machines as the lifecycle has them, Subject with its NodeRef while it is there.
MachinesInv ==
  /\ life \in [Machine -> Machines!Life] /\ torn \subseteq Machine
  /\ ~life[Subject].exists => ~life[Subject].noded

\* A step of the Machines keeps that, and no NodeRef is lost but with its Machine.
LEMMA MachinesStep ==
  ASSUME MachinesInv, Machines!Next
  PROVE  MachinesInv' /\ (HasNode => HasNode')
<1> USE ApproverAssumption
<1>1. ASSUME NEW m \in Machine, NEW l \in Machines!Life, Machines!Becomes(m, l), life[m].exists,
             ~l.exists => ~l.noded, life[m].noded => l.noded \/ ~l.exists
      PROVE  MachinesInv' /\ (HasNode => HasNode')
  <2>1. life' \in [Machine -> Machines!Life] /\ torn' \subseteq Machine
    BY <1>1 DEF MachinesInv, Machines!Becomes
  <2>2. life'[Subject] = life[Subject] \/ (m = Subject /\ life'[Subject] = l)
    BY <1>1 DEF MachinesInv, Machines!Becomes
  <2> QED BY <1>1, <2>1, <2>2 DEF MachinesInv, HasNode
<1>2. ASSUME NEW m \in Machine, Machines!Manage(m)
      PROVE  MachinesInv' /\ (HasNode => HasNode')
  <2> DEFINE l == [life[m] EXCEPT !.managed = TRUE]
  <2>1. /\ l \in Machines!Life /\ l.exists = life[m].exists /\ l.noded = life[m].noded
        /\ life[m].exists /\ Machines!Becomes(m, l)
    BY <1>2 DEF MachinesInv, Machines!Life, Machines!Manage
  <2> HIDE DEF l
  <2> QED BY <1>1, <2>1
<1>3. ASSUME NEW m \in Machine, Machines!Report(m)
      PROVE  MachinesInv' /\ (HasNode => HasNode')
  <2>1. PICK n \in BOOLEAN, r \in BOOLEAN :
          /\ life[m].noded => n
          /\ Machines!Becomes(m, [life[m] EXCEPT !.noded = n, !.ready = r])
    BY <1>3 DEF Machines!Report
  <2> DEFINE l == [life[m] EXCEPT !.noded = n, !.ready = r]
  <2>2. l \in Machines!Life /\ l.exists = life[m].exists /\ l.noded = n /\ life[m].exists
    BY <1>3 DEF MachinesInv, Machines!Life, Machines!Report
  <2>3. Machines!Becomes(m, l)
    BY <2>1
  <2> HIDE DEF l
  <2> QED BY <1>1, <2>1, <2>2, <2>3
<1>4. /\ Machines!Gone \in Machines!Life
      /\ ~Machines!Gone.exists /\ ~Machines!Gone.noded
  BY DEF Machines!Gone, Machines!New, Machines!Life
<1>5. ASSUME NEW m \in Machine, Machines!AskDeletion(m)
      PROVE  MachinesInv' /\ (HasNode => HasNode')
  <2> DEFINE l == [life[m] EXCEPT !.deleting = TRUE]
  <2>1. /\ l \in Machines!Life /\ l.exists = life[m].exists /\ l.noded = life[m].noded
        /\ life[m].exists
        /\ Machines!Becomes(m, l) \/ Machines!Becomes(m, Machines!Gone)
    BY <1>5 DEF MachinesInv, Machines!Life, Machines!AskDeletion
  <2> HIDE DEF l
  <2> QED BY <1>1, <1>4, <2>1
<1>6. ASSUME NEW m \in Machine, Machines!Release(m)
      PROVE  MachinesInv' /\ (HasNode => HasNode')
  BY <1>1, <1>4, <1>6 DEF Machines!Release
<1>7. CASE Machines!TearDown
  BY <1>7 DEF Machines!TearDown, MachinesInv, HasNode
<1> QED BY <1>2, <1>3, <1>5, <1>6, <1>7 DEF Machines!Next

--------------------------------------------------------------------------------
\* The stages of the managers, with what each of them knows by then.
Known(g, s) ==
  /\ s = "node" => form \notin {"foreign", "incomplete"}
  /\ s = "machine" => form \notin {"foreign", "incomplete", "usage"}
  /\ s = "review" => form \in {"unpermitted", "regular"} /\ HasNode
  /\ s = "approve" /\ form \notin Unreviewed => form = "regular" /\ HasNode

\* A manager that goes on to a stage with what it has to know there.
LEMMA GotoKnown ==
  ASSUME ApprovedHasMachine, NEW g \in Manager, NEW s \in Stage, Goto(g, s),
         UNCHANGED form, HasNode => HasNode', Known(g, s)
  PROVE  at' \in [Manager -> Stage] /\ \A h \in Manager : Known(h, at[h])'
<1>1. at' = [at EXCEPT ![g] = s] /\ at \in [Manager -> Stage]
  BY DEF Goto, ApprovedHasMachine, TypeOK
<1>2. \A h \in Manager : Known(h, at[h])
  BY DEF ApprovedHasMachine, Known
<1>3. ASSUME NEW h \in Manager PROVE Known(h, at[h])'
  BY <1>1, <1>2 DEF Known
<1> QED BY <1>1, <1>3

--------------------------------------------------------------------------------
(* The theorems.                                                             *)

\* What a step that leaves the Machines alone has to keep.
Kept ==
  /\ form' \in Form /\ csr' \in State
  /\ csrView' \in [Manager -> {"absent", "pending", "decided"}]
  /\ lifeView' \in [Manager -> [noded : BOOLEAN, ready : BOOLEAN]]
  /\ queued' \subseteq Manager /\ at' \in [Manager -> Stage]
  /\ faults' \in Nat /\ dropped' \in Nat
  /\ csr' = "approved" /\ form' \notin Unreviewed => form' = "regular" /\ HasNode'
  /\ \A g \in Manager : lifeView'[g].noded => HasNode'
  /\ \A g \in Manager : Known(g, at[g])'

\* The invariant in the parts above.
LEMMA InvParts == ApprovedHasMachine' <=> MachinesInv' /\ Kept
BY DEF ApprovedHasMachine, TypeOK, MachinesInv, Kept, Known

\* The Machines stay as they are.
LEMMA SameMachines ==
  ASSUME ApprovedHasMachine, UNCHANGED machineVars
  PROVE  MachinesInv' /\ (HasNode <=> HasNode')
BY DEF machineVars, ApprovedHasMachine, TypeOK, MachinesInv, HasNode

\* A manager moves on in its handler, or lets go of the request.
LEMMA HandlerKeeps ==
  ASSUME ApprovedHasMachine, NEW g \in Manager,
         Start(g) \/ HandlerStep(g) \/ NodeNotFound(g) \/ ReviewFails(g)
  PROVE  ApprovedHasMachine'
<1>1. /\ UNCHANGED <<machineVars, form, viewVars>>
      /\ faults' \in Nat /\ dropped' \in Nat /\ queued' \subseteq Manager
      /\ csr' \in {csr, "approved"} /\ (csr' # csr => at[g] = "approve")
  BY DEF Start, HandlerStep, CheckNode, AwaitMachine, CheckMachine, Review, Approve,
         NodeNotFound, ReviewFails, Return, Drop, boundVars, ApprovedHasMachine, TypeOK
<1>2. PICK s \in Stage : Goto(g, s) /\ Known(g, s)
  <2>1. ASSUME NEW b \in BOOLEAN, Return(g, b) PROVE Goto(g, "idle")
    BY <2>1 DEF Return
  <2>2. Known(g, "idle") /\ "idle" \in Stage
    BY DEF Known, Stage
  <2>3. Known(g, at[g]) /\ (lifeView[g].noded => HasNode) /\ form \in Form
    BY DEF ApprovedHasMachine, TypeOK, Known
  <2>4. CASE Start(g)
    BY <2>2, <2>4 DEF Start, Known, Stage, NotForUs, Unreviewed
  <2>5. CASE CheckNode(g)
    BY <2>2, <2>3, <2>5 DEF CheckNode, Known, Stage
  <2>6. CASE CheckMachine(g)
    <3>1. form \in {"empty", "addresses", "unpermitted", "regular"} /\ HasNode
      BY <2>3, <2>6 DEF CheckMachine, Known, Form, Found
    <3>2. CASE form = "empty"
      BY <2>6, <3>2 DEF CheckMachine, Known, Stage, Unreviewed
    <3>3. CASE form = "addresses"
      BY <2>2, <2>6, <3>3 DEF CheckMachine
    <3>4. CASE form \in {"unpermitted", "regular"}
      BY <2>6, <3>1, <3>4 DEF CheckMachine, Known, Stage
    <3> QED BY <3>1, <3>2, <3>3, <3>4
  <2>7. CASE Review(g)
    BY <2>2, <2>3, <2>7 DEF Review, Known, Stage
  <2>8. CASE AwaitMachine(g) \/ Approve(g)
    BY <2>1, <2>2, <2>8 DEF AwaitMachine, Approve
  <2>9. CASE NodeNotFound(g) \/ ReviewFails(g)
    BY <2>2, <2>9 DEF NodeNotFound, ReviewFails
  <2> QED BY <2>4, <2>5, <2>6, <2>7, <2>8, <2>9 DEF HandlerStep
<1>3. at' \in [Manager -> Stage] /\ \A h \in Manager : Known(h, at[h])'
  BY <1>1, <1>2, SameMachines, GotoKnown
<1>4. csr' \in State /\ (csr' = "approved" /\ form' \notin Unreviewed => form' = "regular" /\ HasNode')
  BY <1>1, SameMachines DEF ApprovedHasMachine, TypeOK, State, Unreviewed
<1> QED BY <1>1, <1>3, <1>4, InvParts, SameMachines DEF Kept, viewVars, ApprovedHasMachine, TypeOK

\* Failed calls, restarts and the informers.
LEMMA FaultKeeps ==
  ASSUME ApprovedHasMachine, NEW g \in Manager,
         ApproveFails(g) \/ Restart(g) \/ SyncRequest(g) \/ SyncMachine(g)
  PROVE  ApprovedHasMachine'
<1>1. /\ UNCHANGED <<machineVars, form>>
      /\ faults' \in Nat /\ dropped' \in Nat /\ queued' \subseteq Manager
      /\ csr' \in {csr, "approved"} /\ (csr' # csr => at[g] = "approve")
  BY DEF ApproveFails, Restart, SyncRequest, SyncMachine, Return, Fault, boundVars,
         ApprovedHasMachine, TypeOK
<1>2. at' = at \/ Goto(g, "idle")
  BY DEF ApproveFails, Restart, SyncRequest, SyncMachine, Return
<1>3. at' \in [Manager -> Stage] /\ \A h \in Manager : Known(h, at[h])'
  <2>1. CASE Goto(g, "idle")
    <3>1. "idle" \in Stage /\ Known(g, "idle")
      BY DEF Stage, Known
    <3> QED BY <1>1, <2>1, <3>1, SameMachines, GotoKnown
  <2>2. CASE at' = at
    BY <1>1, <2>2, SameMachines DEF ApprovedHasMachine, TypeOK, Known
  <2> QED BY <1>2, <2>1, <2>2
<1>4. csr' \in State /\ (csr' = "approved" /\ form' \notin Unreviewed => form' = "regular" /\ HasNode')
  BY <1>1, SameMachines DEF ApprovedHasMachine, TypeOK, State, Unreviewed
<1>5. csrView' \in [Manager -> {"absent", "pending", "decided"}]
  BY DEF ApproveFails, Restart, SyncRequest, SyncMachine, viewVars, Shown,
         ApprovedHasMachine, TypeOK
<1>6. /\ lifeView' \in [Manager -> [noded : BOOLEAN, ready : BOOLEAN]]
      /\ \A h \in Manager : lifeView'[h].noded => HasNode'
  <2> DEFINE x == Status(life[Subject])
  <2>1. x \in [noded : BOOLEAN, ready : BOOLEAN] /\ (x.noded => HasNode)
    BY ApproverAssumption DEF Status, HasNode, ApprovedHasMachine, TypeOK, Machines!Life
  <2>2. lifeView' = lifeView \/ lifeView' = [lifeView EXCEPT ![g] = x]
    BY DEF ApproveFails, Restart, SyncRequest, SyncMachine, viewVars
  <2> HIDE DEF x
  <2> QED BY <1>1, <2>1, <2>2, SameMachines DEF ApprovedHasMachine, TypeOK
<1> QED BY <1>1, <1>3, <1>4, <1>5, <1>6, InvParts, SameMachines DEF Kept, ApprovedHasMachine, TypeOK

\* The others.
LEMMA OthersKeep ==
  ASSUME ApprovedHasMachine, Send \/ Answer \/ RemoveRequest \/ MachineStep \/ UNCHANGED vars
  PROVE  ApprovedHasMachine'
<1>1. /\ UNCHANGED <<form, csrView, lifeView, queued, at, faults, dropped>>
      /\ csr' \in {csr, "pending", "answered", "gone"}
  BY DEF Send, Answer, RemoveRequest, MachineStep, Requests, viewVars, boundVars, vars
<1>2. MachinesInv' /\ (HasNode => HasNode')
  <2>1. CASE MachineStep
    BY <2>1, MachinesStep DEF MachineStep, MachinesInv, ApprovedHasMachine, TypeOK
  <2>2. CASE UNCHANGED machineVars
    BY <2>2, SameMachines
  <2> QED BY <2>1, <2>2 DEF Send, Answer, RemoveRequest, Requests, vars
<1> QED BY <1>1, <1>2, InvParts DEF Kept, Known, State, ApprovedHasMachine, TypeOK

\* ApprovedHasMachine holds in every state: of the requests that are reviewed at all,
\* those of the forms Unreviewed apart, what the controller approved is regular and for
\* a Node whose Machine has its NodeRef, or is gone since.
THEOREM ApprovedInvariant == Spec => []ApprovedHasMachine
<1>1. Init => ApprovedHasMachine
  <2> SUFFICES ASSUME Init PROVE ApprovedHasMachine
    OBVIOUS
  <2>1. Machines!New \in Machines!Life /\ Machines!New.exists
    BY DEF Machines!New, Machines!Life
  <2>2. Machines!Provisioned \in Machines!Life /\ Machines!Provisioned.exists
    BY <2>1 DEF Machines!Provisioned, Machines!Life
  <2>3. /\ life \in [Machine -> Machines!Life] /\ torn = {}
        /\ life[Subject].exists /\ life[Subject] \in Machines!Life
    BY <2>1, <2>2, ApproverAssumption DEF Init, Machines!Init
  <2>4. /\ lifeView \in [Manager -> [noded : BOOLEAN, ready : BOOLEAN]]
        /\ \A g \in Manager : lifeView[g].noded => HasNode
    BY <2>3 DEF Init, Status, HasNode, Machines!Life
  <2> QED BY <2>3, <2>4 DEF Init, ApprovedHasMachine, TypeOK, State, Stage
<1>2. ApprovedHasMachine /\ [Next]_vars => ApprovedHasMachine'
  BY HandlerKeeps, FaultKeeps, OthersKeep DEF Next
<1> QED BY <1>1, <1>2, PTL DEF Spec

\* A decision stands: no other answer replaces it, whoever gave it.
THEOREM DecisionStands == Spec => OneDecision
<1>1. [Next]_vars => [(csr \in Decided) => csr' \in {csr, "gone"}]_vars
  BY DEF Next, Start, HandlerStep, CheckNode, AwaitMachine, CheckMachine, Review, Approve,
         NodeNotFound, ReviewFails, ApproveFails, Restart, SyncRequest, SyncMachine, Send,
         Answer, RemoveRequest, Requests, MachineStep, Decided, vars
<1> QED BY <1>1, PTL DEF Spec, OneDecision

--------------------------------------------------------------------------------
(* No request is put aside.                                                  *)

\* No informer shows a request before it is sent.
UnsentUnseen == csr = "unsent" => \A g \in Manager : csrView[g] = "absent"

\* Reconcile lets go of a pending request that it will approve only to come back.
LEMMA LetGo ==
  ASSUME ApprovedHasMachine, NeverPutAside, UnsentUnseen, NEW g \in Manager,
         Start(g) \/ HandlerStep(g) \/ NodeNotFound(g) \/ ReviewFails(g) \/ ApproveFails(g),
         csr' = "pending", form \in Approvable, dropped' = 0
  PROVE  /\ g \in queued' \/ at'[g] # "idle" \/ csrView'[g] # "pending"
         /\ \A h \in Manager \ {g} :
              h \in queued' \/ at'[h] # "idle" \/ csrView'[h] # "pending"
<1> USE DEF ApprovedHasMachine, TypeOK, Approvable, Unreviewed
<1>1. csr = "pending" /\ form \in {"incomplete", "empty", "regular"} /\ dropped = 0
      /\ form' = form /\ csrView' = csrView
  <2>1. form' = form /\ csrView' = csrView
    BY DEF Start, HandlerStep, CheckNode, AwaitMachine, CheckMachine, Review, Approve,
           NodeNotFound, ReviewFails, ApproveFails, viewVars
  <2>2. csr' = csr \/ csr' = "approved"
    BY DEF Start, HandlerStep, CheckNode, AwaitMachine, CheckMachine, Review, Approve,
           NodeNotFound, ReviewFails, ApproveFails
  <2>3. dropped' = dropped \/ dropped' = dropped + 1
    BY DEF Start, HandlerStep, CheckNode, AwaitMachine, CheckMachine, Review, Approve,
           NodeNotFound, ReviewFails, ApproveFails, Drop, Fault, boundVars
  <2> QED BY <2>1, <2>2, <2>3
<1>2. at[g] = "idle" => g \in queued \/ csrView[g] # "pending"
  BY <1>1 DEF NeverPutAside
<1>3. ASSUME NEW s \in Stage \ {"idle"}, Goto(g, s) PROVE at'[g] # "idle"
  BY <1>3 DEF Goto
<1>4. ASSUME Return(g, TRUE) PROVE g \in queued'
  BY <1>4 DEF Return
<1>5. g \in queued' \/ at'[g] # "idle" \/ csrView'[g] # "pending"
  <2>1. CASE Start(g)
    BY <1>1, <1>3, <2>1 DEF Start, NotForUs, Stage
  <2>2. CASE CheckNode(g)
    BY <1>1, <1>3, <2>2 DEF CheckNode, Stage
  <2>3. CASE AwaitMachine(g) \/ ApproveFails(g)
    BY <1>4, <2>3 DEF AwaitMachine, ApproveFails
  <2>4. CASE CheckMachine(g)
    <3>1. CASE form = "empty"
      BY <1>3, <2>4, <3>1 DEF CheckMachine, Stage
    <3>2. CASE form = "regular"
      BY <1>3, <2>4, <3>2 DEF CheckMachine, Stage
    <3>3. form # "incomplete"
      BY <2>4 DEF CheckMachine
    <3> QED BY <1>1, <3>1, <3>2, <3>3
  <2>5. CASE Review(g)
    BY <1>1, <1>3, <2>5 DEF Review, Stage
  <2>6. CASE Approve(g)
    BY <1>1, <2>6 DEF Approve
  <2>7. CASE NodeNotFound(g) \/ ReviewFails(g)
    BY <1>1, <2>7 DEF NodeNotFound, ReviewFails, Drop
  <2> QED BY <2>1, <2>2, <2>3, <2>4, <2>5, <2>6, <2>7 DEF HandlerStep
<1>6. \A h \in Manager \ {g} : at'[h] = at[h] /\ (h \in queued => h \in queued')
  BY DEF Start, HandlerStep, CheckNode, AwaitMachine, CheckMachine, Review, Approve,
         NodeNotFound, ReviewFails, ApproveFails, Return, Goto
<1> QED BY <1>1, <1>5, <1>6 DEF NeverPutAside

\* A pending request that will be approved waits nowhere without an event to come.
THEOREM RequestNeverPutAside == Spec => []NeverPutAside
<1>1. Init => NeverPutAside /\ UnsentUnseen
  BY DEF Init, NeverPutAside, UnsentUnseen
<1>2. ApprovedHasMachine /\ NeverPutAside /\ UnsentUnseen /\ [Next]_vars
      => NeverPutAside' /\ UnsentUnseen'
  <2> SUFFICES ASSUME ApprovedHasMachine, NeverPutAside, UnsentUnseen, [Next]_vars
               PROVE  NeverPutAside' /\ UnsentUnseen'
    OBVIOUS
  <2>1. UnsentUnseen'
    BY DEF UnsentUnseen, Shown, Decided, ApprovedHasMachine, TypeOK, Next, Start, HandlerStep,
           CheckNode, AwaitMachine, CheckMachine, Review, Approve, NodeNotFound, ReviewFails,
           ApproveFails, Restart, SyncRequest, SyncMachine, Send, Answer, RemoveRequest,
           Requests, MachineStep, viewVars, vars
  <2>2. SUFFICES ASSUME csr' = "pending", form' \in Approvable, dropped' = 0,
                        NEW g \in Manager
                 PROVE  g \in queued' \/ at'[g] # "idle" \/ csrView'[g] # "pending"
    BY <2>1 DEF NeverPutAside
  <2>3. ASSUME NEW h \in Manager,
               Start(h) \/ HandlerStep(h) \/ NodeNotFound(h) \/ ReviewFails(h) \/ ApproveFails(h)
        PROVE  g \in queued' \/ at'[g] # "idle" \/ csrView'[g] # "pending"
    <3>1. form' = form
      BY <2>3 DEF Start, HandlerStep, CheckNode, AwaitMachine, CheckMachine, Review, Approve,
                  NodeNotFound, ReviewFails, ApproveFails
    <3> QED BY <2>2, <2>3, <3>1, LetGo
  <2>4. ASSUME NEW h \in Manager, Restart(h) \/ SyncRequest(h) \/ SyncMachine(h)
        PROVE  g \in queued' \/ at'[g] # "idle" \/ csrView'[g] # "pending"
    <3>1. /\ csr' = csr /\ form' = form /\ dropped' = dropped
          /\ g \in queued \/ at[g] # "idle" \/ csrView[g] # "pending"
      BY <2>2, <2>4 DEF Restart, SyncRequest, SyncMachine, Fault, boundVars, NeverPutAside
    <3>2. CASE h = g
      BY <2>2, <2>4, <3>1, <3>2
      DEF Restart, SyncRequest, SyncMachine, Shown, Decided, Goto
    <3>3. CASE h # g
      BY <2>4, <3>1, <3>3
      DEF Restart, SyncRequest, SyncMachine, Goto, ApprovedHasMachine, TypeOK
    <3> QED BY <3>2, <3>3
  <2>5. CASE Send
    BY <2>5 DEF Send, Requests, viewVars, UnsentUnseen
  <2>6. CASE Answer \/ RemoveRequest
    BY <2>2, <2>6 DEF Answer, RemoveRequest, Requests
  <2>7. CASE MachineStep \/ UNCHANGED vars
    BY <2>2, <2>7 DEF MachineStep, viewVars, boundVars, vars, NeverPutAside
  <2> QED BY <2>3, <2>4, <2>5, <2>6, <2>7 DEF Next
<1> QED BY <1>1, <1>2, ApprovedInvariant, PTL DEF Spec

================================================================================
