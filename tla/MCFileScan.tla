----------------------------- MODULE MCFileScan -----------------------------
(* Instances of FileScan for TLC.                                          *)
EXTENDS FileScan

\* Files 1 and 2 are below the first directory, 3 is below the second.
MCFiles == 1..3
MCUnder == [d \in Dirs |-> IF d = "a_b/" THEN {1, 2} ELSE {3}]
MCTaskDirs == <<"a_b/", "a-b/">>
MCFirstDir == <<"a_b/">>
=============================================================================
