----------------------------- MODULE MCSimulators -----------------------------
(***************************************************************************)
(* The controller runs in one of the two simulators: in Gazebo with its    *)
(* delayed commands (DelayedCommands), or next to MuJoCo (LcmBridge).      *)
(***************************************************************************)
EXTENDS DelayedCommands, LcmBridge

VARIABLE simulator

SimInit == simulator \in {"gazebo", "mujoco"} /\ DelayInit /\ BridgeInit

SimNext ==
  \/ simulator = "gazebo" /\ DelayNext /\ UNCHANGED <<simulator, lbVars>>
  \/ simulator = "mujoco" /\ BridgeNext /\ UNCHANGED <<simulator, dcVars>>

SimSpec == SimInit /\ [][SimNext]_<<simulator, dcVars, lbVars>>
=============================================================================
