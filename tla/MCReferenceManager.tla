------------------------- MODULE MCReferenceManager -------------------------
(***************************************************************************)
(* Times in a unit of about 0.07 s, so that swing, stance, horizon and the *)
(* default template keep the ratios 0.3 : 0.5 : 0.8 : 1.0 of the code      *)
(* roughly. An MPC step, 0.01 s in the code, is 2 or 3 units here, so that *)
(* a few steps cross a whole phase.                                        *)
(***************************************************************************)
EXTENDS ReferenceManager

MCStance  == [times |-> <<0, 7>>, modes |-> <<STANCE>>]
MCTrot    == [times |-> <<0, 5, 10>>, modes |-> <<L, R>>]
MCDefault == [times |-> <<0, 13>>, modes |-> <<STANCE>>]
MCInitial == [events |-> <<7>>, modes |-> <<STANCE, STANCE>>]
=============================================================================
