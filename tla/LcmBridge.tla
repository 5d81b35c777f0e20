------------------------------- MODULE LcmBridge -------------------------------
(***************************************************************************)
(* The MuJoCo simulator and the controller's hardware node, two processes  *)
(* that send each other the last state and the last command over LCM:      *)
(* messages get lost, are doubled and overtake others. In each process a   *)
(* receiving thread keeps the newest message by its stamp, and the thread  *)
(* that simulates or controls takes it from there. Either process may be   *)
(* restarted, the simulator may be paused and may load a model again.      *)
(* A message is its stamp; 0 is no message.                                *)
(***************************************************************************)
EXTENDS Integers

CONSTANTS
  MaxClock,                 \* bound on the stamps
  MaxRestart                \* bound on restarts and loads together

VARIABLES
  clock,                    \* the computer's clock: the last stamp given
  lowCmd, lowState,         \* messages sent on the two channels
  (* simulator *)
  recvCmd_, lastCmd, new_msg,   \* of its MujocoLcm
  recvCmd,                  \* the command mycontroller applies
  simTime,                  \* d->time, in steps
  (* hardware node *)
  recvState_, lastState,    \* of its MujocoLcm
  state,                    \* what read() has given to the controller
  control,                  \* "read" or "write"
  restarts

lbSimulator == <<recvCmd_, lastCmd, new_msg, recvCmd, simTime>>
lbNode      == <<recvState_, lastState, state, control>>
lbVars      == <<clock, lowCmd, lowState, lbSimulator, lbNode, restarts>>

BridgeInit ==
  /\ clock = 0 /\ lowCmd = {} /\ lowState = {} /\ restarts = 0
  /\ recvCmd_ = 0 /\ lastCmd = 0 /\ new_msg = FALSE /\ recvCmd = 0 /\ simTime = 0
  /\ recvState_ = 0 /\ lastState = 0 /\ state = 0 /\ control = "read"

-----------------------------------------------------------------------------
(* The simulator.                                                          *)

(* Mutant: whatever comes is taken, also late.                             *)
NewerAlways(stamp, last) == stamp > 0

Newer(stamp, last) == stamp > last

(* A message that is handled may come again.                               *)
HandleLowCmd ==
  /\ \E m \in lowCmd :
       /\ Newer(m, lastCmd)
       /\ recvCmd_' = m /\ lastCmd' = m
  /\ new_msg' = TRUE
  /\ UNCHANGED <<clock, lowCmd, lowState, recvCmd, simTime, lbNode, restarts>>

(* Mutant: states are stamped with the time of the simulation.             *)
StateStampSimulated == simTime + 1

StateStamp == clock + 1

(* One iteration of PhysicsLoop while it is not paused: the state is sent, *)
(* a command that has come is taken, and the model moves by it.            *)
Iterate ==
  /\ clock < MaxClock /\ clock' = clock + 1
  /\ lowState' = lowState \cup {StateStamp}
  /\ recvCmd' = IF new_msg THEN recvCmd_ ELSE recvCmd
  /\ new_msg' = FALSE /\ simTime' = simTime + 1
  /\ UNCHANGED <<lowCmd, recvCmd_, lastCmd, lbNode, restarts>>

(* The model is loaded again: init_cmd clears the command the model moves  *)
(* by, not the one that waits.                                             *)
LoadModel ==
  /\ restarts < MaxRestart /\ restarts' = restarts + 1
  /\ recvCmd' = 0 /\ simTime' = 0
  /\ UNCHANGED <<clock, lowCmd, lowState, recvCmd_, lastCmd, new_msg, lbNode>>

RestartSimulator ==
  /\ restarts < MaxRestart /\ restarts' = restarts + 1
  /\ recvCmd_' = 0 /\ lastCmd' = 0 /\ new_msg' = FALSE /\ recvCmd' = 0 /\ simTime' = 0
  /\ UNCHANGED <<clock, lowCmd, lowState, lbNode>>

-----------------------------------------------------------------------------
(* The hardware node.                                                      *)

HandleLowState ==
  /\ \E m \in lowState :
       /\ Newer(m, lastState)
       /\ recvState_' = m /\ lastState' = m
  /\ UNCHANGED <<clock, lowCmd, lowState, lbSimulator, state, control, restarts>>

Read ==
  /\ control = "read" /\ control' = "write"
  /\ state' = recvState_
  /\ UNCHANGED <<clock, lowCmd, lowState, lbSimulator, recvState_, lastState, restarts>>

CmdStamp == clock + 1

Write ==
  /\ control = "write" /\ control' = "read"
  /\ clock < MaxClock /\ clock' = clock + 1
  /\ lowCmd' = lowCmd \cup {CmdStamp}
  /\ UNCHANGED <<lowState, lbSimulator, recvState_, lastState, state, restarts>>

RestartNode ==
  /\ restarts < MaxRestart /\ restarts' = restarts + 1
  /\ recvState_' = 0 /\ lastState' = 0 /\ state' = 0 /\ control' = "read"
  /\ UNCHANGED <<clock, lowCmd, lowState, lbSimulator>>

BridgeNext == \/ HandleLowCmd \/ Iterate \/ LoadModel \/ RestartSimulator
              \/ HandleLowState \/ Read \/ Write \/ RestartNode

BridgeSpec == BridgeInit /\ [][BridgeNext]_lbVars

-----------------------------------------------------------------------------
(* Neither the model nor the controller goes back to an older message than *)
(* the one it has, whatever order they come in, but to none at a restart   *)
(* or when a model is loaded.                                              *)
NeverOlder ==
  [][/\ recvCmd' >= recvCmd \/ recvCmd' = 0
     /\ state' >= state \/ state' = 0]_lbVars

(* What either process sends next is newer than all the other has taken:   *)
(* after restarts of either, and of the simulation's time, nobody refuses  *)
(* the other's messages.                                                   *)
NextIsTaken == Newer(CmdStamp, lastCmd) /\ Newer(StateStamp, lastState)
=============================================================================
