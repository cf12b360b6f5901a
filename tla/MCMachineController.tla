-------------------------- MODULE MCMachineController --------------------------
(* Values of the constants of MachineController for TLC. *)
EXTENDS MachineController, TLC

CONSTANTS m1, m2, m3, i1, i2

\* Each Machine has infrastructure of its own, except m3, which has none.
OwnInfraRef ==
  [m \in Machine |-> IF m = m1 THEN i1 ELSE IF m = m2 THEN i2 ELSE None]

\* All Machines refer to the same infrastructure object.
SharedInfraRef == [m \in Machine |-> i1]

\* m2 has no infrastructure, only the provider ID the user gave it.
OneInfraRef == [m \in Machine |-> IF m = m1 THEN i1 ELSE None]
OneGivenID == [m \in Machine |-> IF m = m1 THEN None ELSE i2]

NoGivenID == [m \in Machine |-> None]

\* Machines that are alike in all constants may change places.
Alike == Permutations(Machine)

================================================================================
