--------------------------- MODULE BayAllocation ----------------------------
(***************************************************************************)
(* What the dispatcher promises about bays, without how it keeps it: a bay *)
(* is given to one car at a time, never while a car stands in it, and is   *)
(* taken back from no car that stands in it.  Bays implements it, as long  *)
(* as cars park where they are sent.                                       *)
(***************************************************************************)
CONSTANTS
  Plates,     \* number plates
  BayNames    \* the bays

VARIABLES
  given,      \* given[p]: the bay car p was given, or "none"
  stands      \* stands[p]: the bay car p stands in, or "none"

vars == <<given, stands>>

TypeOK ==
  /\ given \in [Plates -> BayNames \cup {"none"}]
  /\ stands \in [Plates -> BayNames \cup {"none"}]

Init ==
  /\ given = [p \in Plates |-> "none"]
  /\ stands = [p \in Plates |-> "none"]

Give(p, b) ==
  /\ given[p] = "none"
  /\ \A q \in Plates : b \notin {given[q], stands[q]}
  /\ given' = [given EXCEPT ![p] = b] /\ UNCHANGED stands

\* Cars that are given up on, neglected, or gone.
TakeBack(ps) ==
  /\ \A p \in ps : stands[p] = "none"
  /\ given' = [p \in Plates |-> IF p \in ps THEN "none" ELSE given[p]]
  /\ UNCHANGED stands

Park(p) ==
  /\ given[p] # "none" /\ stands[p] = "none"
  /\ stands' = [stands EXCEPT ![p] = given[p]] /\ UNCHANGED given

Leave(p) ==
  /\ stands[p] # "none"
  /\ stands' = [stands EXCEPT ![p] = "none"] /\ UNCHANGED given

Next ==
  \/ \E p \in Plates, b \in BayNames : Give(p, b)
  \/ \E ps \in SUBSET Plates : TakeBack(ps)
  \/ \E p \in Plates : Park(p) \/ Leave(p)

Spec == Init /\ [][Next]_vars

-----------------------------------------------------------------------------
(* Properties.                                                             *)

\* No bay is given to two cars (reserve_spot, state.py:451).
Exclusive ==
  \A p, q \in Plates : given[p] = given[q] /\ given[p] # "none" => p = q

\* A car stands in the bay it was given, so that no two cars meet in one bay
\* (mark_parked, state.py:769).
StandsInGiven == \A p \in Plates : stands[p] \in {"none", given[p]}
=============================================================================
