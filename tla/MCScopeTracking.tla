--------------------------- MODULE MCScopeTracking ---------------------------
(* Small instances of ScopeTracking: see the .cfg files.                   *)
EXTENDS ScopeTracking

\* A behaviour loses events or has files, not both: file events move nothing of
\* the scope, and of drops nothing is claimed once an event was lost.
LossOrFiles ==
  \/ lost = {}
  \/ /\ written = {} /\ observed = {}
     /\ \A i \in DOMAIN stream : stream[i].kind \in {"started", "stopped"}

MCSpec == Init /\ [][Next /\ LossOrFiles']_vars /\ Fairness
=============================================================================
