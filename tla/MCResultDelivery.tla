-------------------------- MODULE MCResultDelivery --------------------------
(* Instances of ResultDelivery for TLC. *)
EXTENDS ResultDelivery

CONSTANTS j1, j2, a1, p1, p2

MCJobs == {j1, j2}
NoSpawns == {}
NoTools == {}
MCToolOf == [j \in NoSpawns |-> a1]
NoPermits == [t \in NoTools |-> 1]
MCOwners == {a1}
MCOwnerOf == [j \in MCJobs |-> a1]
OnePoll == {p1}
TwoPolls == {p1, p2}
============================================================================
