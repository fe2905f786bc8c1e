------------------------------- MODULE MCBays -------------------------------
(* Instances of Bays for TLC.                                              *)
EXTENDS Bays, TLC

Up(n, ks) == [k \in Rare |-> IF k = "all" THEN n ELSE IF k \in ks THEN 1 ELSE 0]
\* Two visits of each car: a bay breaks or is worn, a gate fails, cars give up.
BaseLimit == [Up(9, {"break", "noGate"}) EXCEPT !["neglect"] = 2]
\* Any two of: a car where it was not sent, a bay that breaks or is worn, a
\* sync, staff, a car so slow that it is taken for gone.
DisorderLimit == Up(2, {"astray", "break", "sync", "staff", "slow"})
\* One bay, one visit: it breaks or is worn twice, and a repair may get lost as well.
LiveLimit == [BaseLimit EXCEPT !["repairLost"] = 1, !["break"] = 2]
Symmetry == Permutations(Plates) \cup Permutations(BayNames)
=============================================================================
