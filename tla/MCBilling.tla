----------------------------- MODULE MCBilling -----------------------------
(***************************************************************************)
(* Small instances of Billing for TLC: how often each rare event happens.  *)
(* Two exits are needed where a car can drive past one of them.            *)
(***************************************************************************)
EXTENDS Billing, TLC

Up(n, ks) == [k \in Rare |-> IF k = "all" THEN n ELSE IF k \in ks THEN 1 ELSE 0]

\* One visit: any two of a crash, a forged or wrong payment, a correction, a
\* staff request, a release that is lost.
VisitLimit == Up(2, Rare \ {"early"})
\* Two visits: a crash, or a sync before a row is deleted.
VisitsLimit == Up(1, {"restart", "early"})
Symmetry == Permutations(Exits)
=============================================================================
