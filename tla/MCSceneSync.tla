---------------------------- MODULE MCSceneSync ----------------------------
(* SceneSync on few scenes, windows and revisions.                         *)
EXTENDS SceneSync, TLC
=============================================================================
