----------------------------- MODULE StudyLedger -----------------------------
(***************************************************************************)
(* What the session manager promises of a study, without its tasks, its    *)
(* files and their races: a ledger of sessions.  A boot opens exactly one  *)
(* session after the durable ones; persisting is a single step that        *)
(* records the open session and never takes a recorded one back; a boot    *)
(* asks at most once to be bounced, and asks for the end of the study      *)
(* exactly when the plan is exhausted.                                     *)
(***************************************************************************)
EXTENDS Naturals

CONSTANT Planned   \* sessions in the uptimes table; 0 for a dynamic study

VARIABLES
  count,    \* sessions in the running agent's scope state
  durable,  \* sessions in scope.json
  up,       \* the agent is running
  asked     \* what the current boot asked the Controller for

vars == <<count, durable, up, asked>>

Init == count = 0 /\ durable = 0 /\ up = FALSE /\ asked = "none"

Boot ==
  /\ ~up
  /\ up' = TRUE
  /\ count' = durable + 1
  /\ asked' = "none"
  /\ UNCHANGED durable

Persist ==
  /\ up
  /\ durable' = count
  /\ UNCHANGED <<count, up, asked>>

Ask ==
  /\ up
  /\ asked = "none"
  /\ asked' = IF Planned = 0 \/ count >= Planned THEN "shutdown" ELSE "reboot"
  /\ UNCHANGED <<count, durable, up>>

Down == up /\ up' = FALSE /\ UNCHANGED <<count, durable, asked>>

Next == Boot \/ Persist \/ Ask \/ Down

Spec == Init /\ [][Next]_vars
=============================================================================
