---------------------------- MODULE MCZoneGates ----------------------------
(* Instances of ZoneGates for TLC.                                         *)
EXTENDS ZoneGates

\* One car or two, and what may go wrong together.
MCTroubles ==
  {{"crowd", k} : k \in {"suspect", "slow", "lost", "neglect", "behind"}}
    \cup {{"due", k} : k \in {"stuck", "shut", "lost"}}
    \cup {{"suspect", k} : k \in {"staff", "shut", "break", "lost"}}
    \cup {{"shut", "lost"}}
=============================================================================
