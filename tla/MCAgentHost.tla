----------------------------- MODULE MCAgentHost -----------------------------
EXTENDS AgentHost

\* The config of a deployment; the local host overrides skip.
Deployed == {[skip |-> FALSE, full |-> TRUE]}
=============================================================================
