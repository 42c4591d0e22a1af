--------------------------- MODULE MCMailPipeline ---------------------------
(* Instances of MailPipeline for TLC.                                      *)
EXTENDS MailPipeline

\* The second mail of a numbering has no job vocabulary.
MCJobMails == {<<1, 1>>}

Undamaged == {}
AnyDamage == {"UNPARSABLE", "UNDECODABLE"}
=============================================================================
