--------------------------- MODULE MachineLifecycle ---------------------------
(***************************************************************************)
(* What a Machine goes through as its user and the other controllers see   *)
(* it: applied, managed (it has the finalizer), with a Node, ready or not, *)
(* being deleted, gone. MachineController implements this, whatever its    *)
(* workers, caches and crashes do; CSRApprover relies on nothing else.     *)
(***************************************************************************)
CONSTANT Machine

VARIABLES
  life,  \* the Machines: what their objects show
  torn   \* the Machines whose infrastructure was told to go, or is gone

vars == <<life, torn>>

Life == [exists : BOOLEAN, managed : BOOLEAN, deleting : BOOLEAN,
         noded : BOOLEAN, ready : BOOLEAN]

New == [exists |-> TRUE, managed |-> FALSE, deleting |-> FALSE,
        noded |-> FALSE, ready |-> FALSE]

Gone == [New EXCEPT !.exists = FALSE]

Provisioned == [New EXCEPT !.managed = TRUE, !.noded = TRUE, !.ready = TRUE]

Init == life \in [Machine -> {New, Provisioned}] /\ torn = {}

Becomes(m, l) == life' = [life EXCEPT ![m] = l] /\ UNCHANGED torn

\* The finalizer is only put on a Machine that is not being deleted yet.
Manage(m) ==
  /\ life[m].exists /\ ~life[m].deleting
  /\ Becomes(m, [life[m] EXCEPT !.managed = TRUE])

\* The status moves, but a NodeRef that is known stays known.
Report(m) ==
  /\ life[m].exists
  /\ \E n, r \in BOOLEAN :
       /\ life[m].noded => n
       /\ Becomes(m, [life[m] EXCEPT !.noded = n, !.ready = r])

\* The user deletes the Machine: without the finalizer it is gone at once.
AskDeletion(m) ==
  /\ life[m].exists /\ ~life[m].deleting
  /\ Becomes(m, IF life[m].managed THEN [life[m] EXCEPT !.deleting = TRUE] ELSE Gone)

\* Machines that share infrastructure lose it together.
TearDown ==
  /\ \E t \in SUBSET Machine : torn \subseteq t /\ torn' = t
  /\ UNCHANGED life

\* A managed Machine that got a Node is given up after its infrastructure only.
Release(m) ==
  /\ life[m].exists /\ life[m].managed /\ life[m].deleting
  /\ life[m].noded => m \in torn
  /\ Becomes(m, Gone)

Next ==
  \/ TearDown
  \/ \E m \in Machine : Manage(m) \/ Report(m) \/ AskDeletion(m) \/ Release(m)

Spec == Init /\ [][Next]_vars

================================================================================
