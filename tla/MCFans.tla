------------------------------- MODULE MCFans -------------------------------
(* Instances of Fans for TLC.                                              *)
EXTENDS Fans

\* What may happen in one behaviour, besides wear.
MCTroubles == {{"break"}, {"staff"}, {"behind"}, {"lost"}}
\* Nothing but wear.
Calm == {{}}
=============================================================================
