----------------------------- MODULE MCToolLoop -----------------------------
(* Instances of ToolLoop for TLC.                                          *)
EXTENDS ToolLoop

\* Reads and writes in both orders, a malformed write beside them, and the
\* removal of a document that is not there.
Batches == {<<"READ">>, <<"READ", "STATUS">>, <<"KNOWLEDGE", "READ">>,
            <<"STATUS", "MALFORMED">>, <<"UNKNOWN">>}
OneWrite == {<<"STATUS">>}
=============================================================================
