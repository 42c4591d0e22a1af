--------------------------- MODULE MCAgentSession ---------------------------
(* Instances of AgentSession for TLC.                                      *)
EXTENDS AgentSession

Confirm == {"CONFIRM"}
ConfirmOrReject == {"CONFIRM", "REJECT"}
NoCommands == {}
=============================================================================
