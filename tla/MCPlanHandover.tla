---------------------------- MODULE MCPlanHandover ----------------------------
(***************************************************************************)
(* A swing lasts four units of the clock of the real-time thread, and the  *)
(* solver begins an iteration at least every unit. A transition stance of  *)
(* two units is longer than that.                                          *)
(***************************************************************************)
EXTENDS PlanHandover

MCStance  == [times |-> <<0, 6>>, modes |-> <<STANCE>>]
MCTrot    == [times |-> <<0, 4, 8>>, modes |-> <<L, R>>]
MCDefault == [times |-> <<0, 8>>, modes |-> <<STANCE>>]
MCInitial == [events |-> <<2>>, modes |-> <<STANCE, STANCE>>]
=============================================================================
