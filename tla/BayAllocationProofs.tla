------------------------- MODULE BayAllocationProofs ------------------------
(***************************************************************************)
(* Proofs about BayAllocation, for any plates and bays.                    *)
(***************************************************************************)
EXTENDS BayAllocation, TLAPS

\* Every variable of the allocation keeps its type.
THEOREM TypeCorrect == Spec => []TypeOK
<1>1. Init => TypeOK
  BY DEF Init, TypeOK
<1>2. TypeOK /\ [Next]_vars => TypeOK'
  BY DEF TypeOK, Next, Give, TakeBack, Park, Leave, vars
<1>3. QED
  BY <1>1, <1>2, PTL DEF Spec

\* The two properties with the types are inductive.
IInv == TypeOK /\ Exclusive /\ StandsInGiven

LEMMA GiveKeeps ==
  ASSUME IInv, NEW p \in Plates, NEW b \in BayNames, Give(p, b)
  PROVE  Exclusive' /\ StandsInGiven'
<1>1. given' = [given EXCEPT ![p] = b] /\ stands' = stands
  BY DEF Give
<1>2. Exclusive'
  BY <1>1 DEF IInv, TypeOK, Exclusive, Give
<1>3. stands[p] = "none"
  BY DEF IInv, StandsInGiven, Give
<1>4. StandsInGiven'
  BY <1>1, <1>3 DEF IInv, TypeOK, StandsInGiven
<1>5. QED
  BY <1>2, <1>4

LEMMA TakeBackKeeps ==
  ASSUME IInv, NEW ps \in SUBSET Plates, TakeBack(ps)
  PROVE  Exclusive' /\ StandsInGiven'
<1>1. Exclusive'
  BY DEF IInv, TypeOK, Exclusive, TakeBack
<1>2. StandsInGiven'
  BY DEF IInv, TypeOK, StandsInGiven, TakeBack
<1>3. QED
  BY <1>1, <1>2

\* However bays are given, taken back, parked in and left, no bay is given to two
\* cars, and a car stands nowhere but in the bay it was given, so that no two cars
\* meet in one bay.
THEOREM OneCarPerBay == Spec => [](Exclusive /\ StandsInGiven)
<1>1. Init => IInv
  BY DEF Init, IInv, TypeOK, Exclusive, StandsInGiven
<1>2. IInv /\ [Next]_vars => IInv'
  <2> SUFFICES ASSUME IInv, [Next]_vars
               PROVE  IInv'
    OBVIOUS
  <2>1. TypeOK'
    BY DEF IInv, TypeOK, Next, Give, TakeBack, Park, Leave, vars
  <2>2. Exclusive' /\ StandsInGiven'
    <3>1. CASE \E p \in Plates, b \in BayNames : Give(p, b)
      BY <3>1, GiveKeeps
    <3>2. CASE \E ps \in SUBSET Plates : TakeBack(ps)
      BY <3>2, TakeBackKeeps
    <3>3. CASE \E p \in Plates : Park(p) \/ Leave(p)
      BY <3>3 DEF IInv, TypeOK, Exclusive, StandsInGiven, Park, Leave
    <3>4. CASE UNCHANGED vars
      BY <3>4 DEF IInv, TypeOK, Exclusive, StandsInGiven, vars
    <3>5. QED
      BY <3>1, <3>2, <3>3, <3>4 DEF Next
  <2>3. QED
    BY <2>1, <2>2 DEF IInv
<1>3. IInv => Exclusive /\ StandsInGiven
  BY DEF IInv
<1>4. QED
  BY <1>1, <1>2, <1>3, PTL DEF Spec
=============================================================================
