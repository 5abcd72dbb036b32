------------------------- MODULE MCExperienceStore -------------------------
(* ExperienceStore on a few revisions.                                     *)
EXTENDS ExperienceStore
=============================================================================
