-------------------------- MODULE OutputSupervisor --------------------------
(***************************************************************************)
(* What the control stack promises about the commands that reach the       *)
(* motors, whatever its threads do:                                        *)
(*   - before the controller is armed by /load_controller no joint gets a  *)
(*     whole-body-control torque;                                          *)
(*   - once the stack has tripped, every later output is passive on every  *)
(*     joint, for ever.                                                    *)
(* LeggedController implements this specification.                         *)
(***************************************************************************)
EXTENDS Naturals

CONSTANT NumJoints          \* actuated joints: a positive natural number

VARIABLES
  armed,                    \* /load_controller has been received
  tripped,                  \* a control cycle began with the stop flag set
  out                       \* what each motor was last told to do

absVars == <<armed, tripped, out>>

Joint    == 1..NumJoints
OutMode  == {"passive", "hold", "wbc"}
AllPassive(o) == \A j \in Joint : o[j] = "passive"

AbsInit ==
  /\ armed   = FALSE
  /\ tripped = FALSE
  /\ out     = [j \in Joint |-> "passive"]

Arm ==
  /\ armed' = TRUE
  /\ UNCHANGED <<tripped, out>>

Trip ==
  /\ tripped' = TRUE
  /\ UNCHANGED <<armed, out>>

Output ==
  /\ out' \in [Joint -> OutMode]
  /\ (\E j \in Joint : out'[j] = "wbc") => armed
  /\ tripped => AllPassive(out')
  /\ UNCHANGED <<armed, tripped>>

AbsNext == Arm \/ Trip \/ Output

AbsSpec == AbsInit /\ [][AbsNext]_absVars
=============================================================================
