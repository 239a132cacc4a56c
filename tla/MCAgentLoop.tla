----------------------------- MODULE MCAgentLoop -----------------------------
EXTENDS AgentLoop

CONSTANTS s1, s2

MCEndpoints == <<s1, s2>>
MCBackoff == <<2, 4, 6>>
=============================================================================
