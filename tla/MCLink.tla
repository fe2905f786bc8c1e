------------------------------- MODULE MCLink -------------------------------
(* Small instances of Link for TLC.                                        *)
EXTENDS Link

Calm == {{}}
\* Any one Rare event.
MCTroubles == {{k} : k \in Rare}
=============================================================================
