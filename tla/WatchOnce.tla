------------------------------- MODULE WatchOnce -------------------------------
(***************************************************************************)
(* What the controllers may rely on of external.ObjectTracker: each kind   *)
(* of object gets at most one informer watch per controller, and one whose *)
(* addition failed is never added again. Adding it takes time, and nobody  *)
(* but the caller that adds it waits: whoever asks for a kind that is not  *)
(* in state "none" is sent on at once. The variable "watch" of             *)
(* MachineController is watch[k] of the only kind of its Infra, until the  *)
(* process ends: FirstOfKind is Begin, WatchAdded is Establish, WatchFails *)
(* is Lose, and KindSeen is a caller that is sent on.                      *)
(***************************************************************************)
CONSTANT Kind

VARIABLE watch

Init == watch = [k \in Kind |-> "none"]

Moves(k, before, after) == watch[k] = before /\ watch' = [watch EXCEPT ![k] = after]

Begin(k) == Moves(k, "none", "adding")

Establish(k) == Moves(k, "adding", "watching")

Lose(k) == Moves(k, "adding", "lost")

Next == \E k \in Kind : Begin(k) \/ Establish(k) \/ Lose(k)

Spec == Init /\ [][Next]_watch

================================================================================
