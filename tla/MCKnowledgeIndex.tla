-------------------------- MODULE MCKnowledgeIndex --------------------------
(* Instances of KnowledgeIndex for TLC.                                    *)
EXTENDS KnowledgeIndex

CONSTANTS d1, d2

MCDocs == {d1, d2}
=============================================================================
