----------------------------- MODULE MCIngress -----------------------------
(***************************************************************************)
(* Small instances of Ingress for TLC: events 1 and 2 are about one car,   *)
(* and 3 about another, or about a gate, so that two can overtake each     *)
(* other and one can have two webhooks under way.                          *)
(***************************************************************************)
EXTENDS Ingress

MCEvents == 1..3
MCSubject == <<"car", "car", "other">>
MCCarEvents == 1..2
=============================================================================
