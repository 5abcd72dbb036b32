-------------------------- MODULE MCSceneSchedule --------------------------
(* SceneSchedule on few scenes, windows and revisions.  The rows of        *)
(* scene_schedules are interchangeable: TLC fills them in order.           *)
EXTENDS SceneSchedule

FilledInOrder ==
  \A j, k \in Slots : j < k /\ schedules[k] # None => schedules[j] # None
=============================================================================
