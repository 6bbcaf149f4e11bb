--------------------------- MODULE MCCoordinator ---------------------------
(* Small instances of Coordinator for TLC.                                 *)
EXTENDS Coordinator

\* AddFiles and AddAll.
MCCalls == {<<"files">>, <<"metadata", "contents", "faces">>}
MCScanCalls == {<<"files">>}

MCStopIds == [stage : {"files", "metadata"}, collection : Collections]
MCNoIds == {}
=============================================================================
