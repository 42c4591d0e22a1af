----------------------------- MODULE MCService -----------------------------
(* Instances of Service: two messages with the same file of the provider   *)
(* and one with text; for the invariants besides one with a file that is   *)
(* refused and one of no interest.                                         *)
EXTENDS Service

KindOf ==
    [e1 |-> "FILE", e2 |-> "FILE", e3 |-> "TEXT", e4 |-> "BADFILE", e5 |-> "IGNORED"]
FileIdOf == [e1 |-> "f", e2 |-> "f", e3 |-> "none", e4 |-> "g", e5 |-> "none"]

Messages == {"e1", "e2", "e3"}
KindOfMessage == [e \in Messages |-> KindOf[e]]
FileIdOfMessage == [e \in Messages |-> FileIdOf[e]]
=============================================================================
