------------------------- MODULE MCAsyncJobManager -------------------------
(* Instances of AsyncJobManager for TLC. *)
EXTENDS AsyncJobManager

CONSTANTS j1, j2, j3, a1, a2, t1

MCJobs == {j1, j2}
MCJobs3 == {j1, j2, j3}
MCSpawns == {j2}
MCSpawns3 == {j2, j3}
MCOwners == {a1, a2}
MCOwnerOf == [j \in MCJobs |-> IF j = j1 THEN a1 ELSE a2]
MCOwnerOf3 == [j \in MCJobs3 |-> IF j = j1 THEN a1 ELSE a2]
OneTool == {t1}
MCToolOf == [j \in MCSpawns |-> t1]
MCToolOf3 == [j \in MCSpawns3 |-> t1]
OnePermit == [t \in OneTool |-> 1]
============================================================================
