----------------------------- MODULE ObjectTracker -----------------------------
(***************************************************************************)
(* external.ObjectTracker (util/external/tracker.go): the workers of one   *)
(* controller ask it, each time they reconcile an external object, to      *)
(* watch the object's kind. The kinds it has seen are the keys of a        *)
(* sync.Map; adding the watch is a call that may block and may fail.       *)
(***************************************************************************)
EXTENDS Naturals

CONSTANTS
  Worker,  \* the goroutines of the controller
  Kind,    \* the kinds (group and kind; versions share a key) of the objects
  NoKind

ASSUME TrackerAssumption == NoKind \notin Kind

VARIABLES
  seen,      \* the keys of the map
  watches,   \* how many watches Controller.Watch has started on each kind
  adding     \* the kind a worker is inside Controller.Watch for

vars == <<seen, watches, adding>>

Init ==
  /\ seen = {}
  /\ watches = [k \in Kind |-> 0]
  /\ adding = [w \in Worker |-> NoKind]

\* LoadOrStore is atomic. If the key was there, Watch returns at once, whether
\* or not the other worker's watch has been added yet.
SeenBefore(w, k) ==
  /\ adding[w] = NoKind
  /\ k \in seen
  /\ UNCHANGED vars

\* Mutant of FirstSeen: Load, then Store only once the watch has been added.
FirstSeenLoads(w, k) ==
  /\ adding[w] = NoKind
  /\ k \notin seen
  /\ adding' = [adding EXCEPT ![w] = k]
  /\ UNCHANGED <<seen, watches>>

FirstSeen(w, k) ==
  /\ adding[w] = NoKind
  /\ k \notin seen
  /\ seen' = seen \cup {k}
  /\ adding' = [adding EXCEPT ![w] = k]
  /\ UNCHANGED watches

WatchAdded(w) ==
  /\ adding[w] # NoKind
  /\ watches' = [watches EXCEPT ![adding[w]] = @ + 1]
  /\ adding' = [adding EXCEPT ![w] = NoKind]
  /\ UNCHANGED seen

\* The error path deletes the object from a map whose keys are the names of
\* kinds: nothing is deleted.
WatchFailed(w) ==
  /\ adding[w] # NoKind
  /\ adding' = [adding EXCEPT ![w] = NoKind]
  /\ UNCHANGED <<seen, watches>>

Watch(w) ==
  \/ \E k \in Kind : SeenBefore(w, k) \/ FirstSeen(w, k)
  \/ WatchAdded(w)
  \/ WatchFailed(w)

Next == \E w \in Worker : Watch(w)

Spec == Init /\ [][Next]_vars

--------------------------------------------------------------------------------
TypeOK ==
  /\ seen \subseteq Kind
  /\ watches \in [Kind -> Nat]
  /\ adding \in [Worker -> Kind \cup {NoKind}]

\* No two workers add a watch on the same kind, and nobody adds a second one,
\* although nothing is locked while the watch is being added.
OneAdder ==
  \A w \in Worker : adding[w] # NoKind =>
    /\ adding[w] \in seen /\ watches[adding[w]] = 0
    /\ \A v \in Worker : adding[v] = adding[w] => v = w

OnlySeenWatched == \A k \in Kind : watches[k] <= 1 /\ (watches[k] = 1 => k \in seen)

TrackerInv == TypeOK /\ OneAdder /\ OnlySeenWatched

\* The tracker as its callers see it.
Outcome ==
  [k \in Kind |->
     IF watches[k] > 1 THEN "twice"
     ELSE IF watches[k] = 1 THEN "watching"
     ELSE IF k \notin seen THEN "none"
     ELSE IF \E w \in Worker : adding[w] = k THEN "adding"
     ELSE "lost"]

Abstract == INSTANCE WatchOnce WITH watch <- Outcome

\* However its callers interleave, the tracker starts one watch per kind at
\* most ("issue a Watch only if the object hasn't been seen before"), and a kind is
\* known to all of them from before the watch is added until the process ends.
WatchesOnce == Abstract!Spec

================================================================================
