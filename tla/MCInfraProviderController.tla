----------------------- MODULE MCInfraProviderController -----------------------
(* Values of the constants of InfraProviderController for TLC.               *)
EXTENDS InfraProviderController

CONSTANTS p1, p2, o1

\* Both providers refer to the same object.
SharedRef == [p \in Provider |-> o1]

================================================================================
