------------------------- MODULE MCTargetTrajectories -------------------------
(***************************************************************************)
(* The stick with goals, and the stance switch: what the two do only meets *)
(* in the observations.                                                    *)
(***************************************************************************)
EXTENDS TargetTrajectories

MCSessions == {{"stick", "goal"}, {"switch"}}
=============================================================================
