---------------------------- MODULE MCSyncServer ----------------------------
(***************************************************************************)
(* Values of the constants of SyncServer for TLC: two manifests of the     *)
(* same chunks in another order, so that a mix shows, and an empty file.    *)
(***************************************************************************)
EXTENDS SyncServer

CONSTANTS t1, t2
MCThread == {t1, t2}

MCManifests == {<<>>, <<"a", "b">>, <<"b", "a">>}
=============================================================================
