---------------------------- MODULE MCEventQueue ----------------------------
(* Instances of EventQueue for TLC. *)
EXTENDS EventQueue

CONSTANTS i1, i2

\* the second event is about the issue of the first, the third is not
MCIssueOf == [e \in 1 .. 3 |-> IF e = 3 THEN i2 ELSE i1]
============================================================================
