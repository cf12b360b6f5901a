---------------------------- MODULE MCCSRApprover -----------------------------
(* Values of the constants of CSRApprover for TLC.                           *)
EXTENDS CSRApprover

CONSTANTS g1, m1

================================================================================
