-------------------------- MODULE ObjectTrackerProofs --------------------------
(* ObjectTracker implements WatchOnce, for any number of workers and kinds. *)
EXTENDS ObjectTracker, TLAPS

\* The tracker starts with nothing seen.
LEMMA InvInit == Init => TrackerInv
BY TrackerAssumption DEF Init, TrackerInv, TypeOK, OneAdder, OnlySeenWatched

\* LoadOrStore makes the worker that stores a kind its only adder.
LEMMA InvStep == TrackerInv /\ [Next]_vars => TrackerInv'
<1> SUFFICES ASSUME TrackerInv, [Next]_vars PROVE TrackerInv'
  OBVIOUS
<1> USE TrackerAssumption DEF TrackerInv, TypeOK, OneAdder, OnlySeenWatched
<1>1. ASSUME NEW w \in Worker, NEW k \in Kind, SeenBefore(w, k) PROVE TrackerInv'
  BY <1>1 DEF SeenBefore, vars
<1>2. ASSUME NEW w \in Worker, NEW k \in Kind, FirstSeen(w, k) PROVE TrackerInv'
  BY <1>2 DEF FirstSeen
<1>3. ASSUME NEW w \in Worker, WatchAdded(w) PROVE TrackerInv'
  <2> DEFINE a == adding[w]
  <2>1. a \in Kind /\ a \in seen /\ watches[a] = 0
    BY <1>3 DEF WatchAdded
  <2>2. watches' \in [Kind -> Nat] /\ \A k \in Kind : watches'[k] = IF k = a THEN 1 ELSE watches[k]
    BY <1>3, <2>1 DEF WatchAdded
  <2>3. /\ seen' = seen
        /\ adding' \in [Worker -> Kind \cup {NoKind}]
        /\ \A v \in Worker : adding'[v] = IF v = w THEN NoKind ELSE adding[v]
    BY <1>3 DEF WatchAdded
  <2>4. \A v \in Worker : adding'[v] # NoKind => adding[v] # a
    BY <1>3, <2>3 DEF WatchAdded
  <2>5. TypeOK'
    BY <2>2, <2>3
  <2>6. OneAdder'
    BY <2>2, <2>3, <2>4
  <2>7. OnlySeenWatched'
    BY <2>1, <2>2, <2>3
  <2> QED BY <2>5, <2>6, <2>7
<1>4. ASSUME NEW w \in Worker, WatchFailed(w) PROVE TrackerInv'
  BY <1>4 DEF WatchFailed
<1>5. CASE UNCHANGED vars
  BY <1>5 DEF vars
<1> QED BY <1>1, <1>2, <1>3, <1>4, <1>5 DEF Next, Watch

\* Two workers are never inside Controller.Watch for the same kind.
THEOREM TrackerInvariant == Spec => []TrackerInv
BY InvInit, InvStep, PTL DEF Spec

\* Every step of the tracker is a step of WatchOnce, or none at all.
LEMMA StepRefines ==
  ASSUME TrackerInv, [Next]_vars
  PROVE  [Abstract!Next]_Outcome
<1> USE TrackerAssumption DEF TrackerInv, TypeOK, OneAdder, OnlySeenWatched
<1>0. ASSUME NEW a \in Kind, NEW s, \A k \in Kind : Outcome'[k] = IF k = a THEN s ELSE Outcome[k]
      PROVE  Outcome' = [Outcome EXCEPT ![a] = s]
  <2>1. Outcome' = [k \in Kind |-> Outcome'[k]]
    BY DEF Outcome
  <2>2. Outcome = [k \in Kind |-> Outcome[k]]
    BY DEF Outcome
  <2> HIDE DEF TypeOK, TrackerInv, OneAdder, OnlySeenWatched
  <2> QED BY <1>0, <2>1, <2>2, Zenon
<1>1. ASSUME NEW w \in Worker, NEW k \in Kind, SeenBefore(w, k) PROVE UNCHANGED Outcome
  BY <1>1 DEF SeenBefore, vars, Outcome
<1>2. ASSUME NEW w \in Worker, NEW a \in Kind, FirstSeen(w, a) PROVE Abstract!Begin(a)
  <2>1. a \notin seen /\ seen' = seen \cup {a} /\ watches' = watches /\ watches[a] = 0
    BY <1>2 DEF FirstSeen
  <2>2. /\ adding[w] = NoKind
        /\ \A v \in Worker : adding'[v] = IF v = w THEN a ELSE adding[v]
    BY <1>2 DEF FirstSeen
  <2>3. ASSUME NEW k \in Kind
        PROVE  Outcome'[k] = IF k = a THEN "adding" ELSE Outcome[k]
    <3>1. CASE k = a
      BY <2>1, <2>2, <3>1 DEF Outcome
    <3>2. CASE k # a
      <4>1. (\E v \in Worker : adding'[v] = k) <=> (\E v \in Worker : adding[v] = k)
        BY <2>2, <3>2
      <4> QED BY <2>1, <3>2, <4>1 DEF Outcome
    <3> QED BY <3>1, <3>2
  <2>4. Outcome[a] = "none"
    BY <2>1 DEF Outcome
  <2> QED BY <1>0, <2>3, <2>4 DEF Abstract!Begin, Abstract!Moves
<1>3. ASSUME NEW w \in Worker, WatchAdded(w)
      PROVE  \E k \in Kind : Abstract!Establish(k)
  <2> DEFINE a == adding[w]
  <2>1. a \in Kind /\ watches[a] = 0 /\ a \in seen
    BY <1>3 DEF WatchAdded
  <2>2. Outcome[a] = "adding"
    BY <2>1 DEF Outcome
  <2>3. /\ watches' = [watches EXCEPT ![a] = 1] /\ seen' = seen
        /\ \A v \in Worker : adding'[v] = IF v = w THEN NoKind ELSE adding[v]
    BY <1>3, <2>1 DEF WatchAdded
  <2>4. ASSUME NEW k \in Kind
        PROVE  Outcome'[k] = IF k = a THEN "watching" ELSE Outcome[k]
    <3>1. CASE k = a
      <4>1. watches'[k] = 1
        BY <2>1, <2>3, <3>1
      <4> QED BY <3>1, <4>1 DEF Outcome
    <3>2. CASE k # a
      <4>1. watches'[k] = watches[k] /\ seen' = seen
        BY <2>3, <3>2
      <4>2. (\E v \in Worker : adding'[v] = k) <=> (\E v \in Worker : adding[v] = k)
        BY <2>3, <3>2
      <4> QED BY <3>2, <4>1, <4>2 DEF Outcome
    <3> QED BY <3>1, <3>2
  <2> QED BY <1>0, <2>1, <2>2, <2>4 DEF Abstract!Establish, Abstract!Moves
<1>4. ASSUME NEW w \in Worker, WatchFailed(w)
      PROVE  \E k \in Kind : Abstract!Lose(k)
  <2> DEFINE a == adding[w]
  <2>1. a \in Kind /\ watches[a] = 0 /\ a \in seen
    BY <1>4 DEF WatchFailed
  <2>2. Outcome[a] = "adding"
    BY <2>1 DEF Outcome
  <2>3. /\ seen' = seen /\ watches' = watches
        /\ \A v \in Worker : adding'[v] = IF v = w THEN NoKind ELSE adding[v]
    BY <1>4 DEF WatchFailed
  <2>4. \A v \in Worker : adding'[v] # a
    BY <1>4, <2>1, <2>3 DEF WatchFailed
  <2>5. ASSUME NEW k \in Kind
        PROVE  Outcome'[k] = IF k = a THEN "lost" ELSE Outcome[k]
    <3>1. CASE k = a
      BY <2>1, <2>3, <2>4, <3>1 DEF Outcome
    <3>2. CASE k # a
      <4>1. (\E v \in Worker : adding'[v] = k) <=> (\E v \in Worker : adding[v] = k)
        BY <2>3, <3>2
      <4> QED BY <2>3, <3>2, <4>1 DEF Outcome
    <3> QED BY <3>1, <3>2
  <2> QED BY <1>0, <2>1, <2>2, <2>5 DEF Abstract!Lose, Abstract!Moves
<1>5. UNCHANGED vars => UNCHANGED Outcome
  BY DEF vars, Outcome
<1> QED BY <1>1, <1>2, <1>3, <1>4, <1>5 DEF Next, Watch, Abstract!Next

\* The tracker implements WatchOnce.
THEOREM TrackerWatchesOnce == Spec => WatchesOnce
<1>1. Init => Abstract!Init
  BY TrackerAssumption DEF Init, Abstract!Init, Outcome
<1> QED
  BY <1>1, StepRefines, TrackerInvariant, PTL DEF Spec, WatchesOnce, Abstract!Spec

================================================================================
