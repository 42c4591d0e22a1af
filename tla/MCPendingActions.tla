-------------------------- MODULE MCPendingActions --------------------------
(* Instances of PendingActions for TLC.                                    *)
EXTENDS PendingActions

CONSTANTS a1, a2, app1, applied, offer

MCApps == {app1}
MCStatuses == {applied, offer}
\* Two actions that disagree about one application.
MCTargetApp == [a \in Actions |-> app1]
MCTargetStatus == [a \in Actions |-> IF a = a1 THEN applied ELSE offer]
=============================================================================
