----------------------------- MODULE MCEvidence -----------------------------
(* What a session has to show: the score of Telemetry and the screenshots of *)
(* UserActor, in small instances.  The two share nothing, so a behaviour is  *)
(* one of the bus or one of the user actor.                                  *)
EXTENDS Telemetry, UserActor

VARIABLE kind

\* Weights that tell the signals apart.
MCWeights == [cli |-> 1, drop |-> 1, runkey |-> 2, injection |-> 3, ransomware |-> 4]

\* How focus changes are noticed and what becomes of a frame are apart: every
\* choice of either occurs, not every pair.  Where the user actor takes no step
\* one configuration will do.
EvidenceInit ==
  /\ Init /\ ActorInit
  /\ setup.method = IF setup.save THEN "polling" ELSE "winevents"
  /\ \/ kind = "screenshots"
     \/ kind = "score" /\ setup.capture /\ setup.save /\ setup.upload

EvidenceNext ==
  /\ \/ kind = "score" /\ Next /\ UNCHANGED actorVars
     \/ kind = "screenshots" /\ ActorNext /\ UNCHANGED vars
  /\ UNCHANGED kind

\* No task of the user actor is due in its initial state; those of the bus are.
EvidenceSpec ==
  /\ EvidenceInit /\ [][EvidenceNext]_<<kind, vars, actorVars>>
  /\ WF_vars(kind = "score" /\ Scoring) /\ WF_vars(kind = "score" /\ Manager)
  /\ ActorFairness
=============================================================================
