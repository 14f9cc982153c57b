--------------------------- MODULE TokenRingProofs --------------------------
(* What a token ring promises, for any number of stations and laps. *)
EXTENDS TokenRing, TLAPS

LEMMA Constants ==
  N \in Nat /\ N > 0 /\ Laps \in Nat /\ Laps > 0 /\ First \in Station
BY RingAssumption DEF Station

\* The next station is the next place, or the first one after the last.
LEMMA NextPlace ==
  \A i \in Station :
    /\ Following(i) \in Station
    /\ Place(i) \in 0..(N - 1)
    /\ Place(i) < N - 1 => Place(Following(i)) = Place(i) + 1
    /\ Place(i) = N - 1 => Place(Following(i)) = 0
BY Constants DEF Station, Following, Place

\* Two stations have different places.
LEMMA PlaceInjective ==
  \A i, j \in Station : Place(i) = Place(j) => i = j
BY Constants DEF Station, Place

LEMMA PlaceFirst == Place(First) = 0
BY Constants DEF Place, Station

LEMMA InitOK == Init => TypeOK /\ InStep
<1> SUFFICES ASSUME Init
             PROVE  TypeOK /\ InStep
  OBVIOUS
<1>1. TypeOK
  BY Constants DEF Init, TypeOK
<1>2. \A k \in Station : Ahead(k) = 0 /\ laps[k] = 0
  BY Constants, NextPlace, PlaceFirst DEF Init, Ahead
<1> QED
  BY <1>1, <1>2 DEF InStep

LEMMA NextTypeOK == TypeOK /\ [Next]_ringVars => TypeOK'
<1> SUFFICES ASSUME TypeOK, [Next]_ringVars
             PROVE  TypeOK'
  OBVIOUS
<1> USE Constants
<1>1. ASSUME NEW s \in Station, Pass(s)
      PROVE  TypeOK'
  <2>1. laps[s] + 1 \in 0..Laps
    BY <1>1 DEF TypeOK, Pass
  <2>2. turn' \in Station
    BY <1>1, NextPlace DEF Pass
  <2> QED
    BY <1>1, <2>1, <2>2 DEF TypeOK, Pass
<1>2. CASE Restart
  BY <1>2 DEF TypeOK, Restart
<1>3. CASE UNCHANGED ringVars
  BY <1>3 DEF TypeOK, ringVars
<1> QED
  BY <1>1, <1>2, <1>3 DEF Next

LEMMA NextInStep == TypeOK /\ InStep /\ [Next]_ringVars => InStep'
<1> SUFFICES ASSUME TypeOK, InStep, [Next]_ringVars
             PROVE  InStep'
  OBVIOUS
<1> USE Constants
<1>1. ASSUME NEW s \in Station, Pass(s)
      PROVE  InStep'
  <2>1. turn = s /\ turn' = Following(s) /\ laps' = [laps EXCEPT ![s] = @ + 1]
    BY <1>1 DEF Pass
  <2> SUFFICES ASSUME NEW i \in Station, NEW j \in Station
               PROVE  laps'[i] - laps'[j] = Ahead(i)' - Ahead(j)'
    BY DEF InStep
  <2>2. laps[i] - laps[j] = Ahead(i) - Ahead(j)
    BY DEF InStep
  <2>3. laps[i] \in Int /\ laps[j] \in Int
    BY DEF TypeOK
  <2>4. \A k \in Station :
          /\ laps'[k] = laps[k] + (IF k = s THEN 1 ELSE 0)
          /\ Ahead(k) = IF Place(k) < Place(s) THEN 1 ELSE 0
          /\ Ahead(k)' = IF Place(k) < Place(Following(s)) THEN 1 ELSE 0
    BY <2>1 DEF TypeOK, Ahead, Place
  <2>5. CASE Place(s) < N - 1
    <3>1. \A k \in Station : Ahead(k)' = Ahead(k) + (IF k = s THEN 1 ELSE 0)
      BY SMTT(60), <2>4, <2>5, NextPlace, PlaceInjective
    <3> QED
      BY <2>2, <2>3, <2>4, <3>1
  <2>6. CASE Place(s) = N - 1
    <3>1. \A k \in Station :
            Ahead(k)' = 0 /\ Ahead(k) = IF k = s THEN 0 ELSE 1
      BY <2>4, <2>6, NextPlace, PlaceInjective
    <3> QED
      BY <2>2, <2>3, <2>4, <3>1
  <2> QED
    BY <2>5, <2>6, NextPlace
<1>2. CASE Restart
  <2>1. \A k \in Station : Ahead(k)' = 0 /\ laps'[k] = 0
    BY <1>2, NextPlace, PlaceFirst DEF Restart, Ahead, Place
  <2> QED
    BY <2>1 DEF InStep
<1>3. CASE UNCHANGED ringVars
  BY <1>3 DEF InStep, Ahead, Place, ringVars
<1> QED
  BY <1>1, <1>2, <1>3 DEF Next

\* No station of a token ring is ever more than the one lap ahead that its place
\* in the round accounts for.
THEOREM RoundRobin == Spec => [](TypeOK /\ InStep)
BY InitOK, NextTypeOK, NextInStep, PTL DEF Spec

=============================================================================
