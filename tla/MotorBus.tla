------------------------------- MODULE MotorBus -------------------------------
(***************************************************************************)
(* One cycle of the control loop on the motor bus:                         *)
(*   - EtherCAT_Get_State receives the process image and decodes it slave  *)
(*     by slave. The slaves of both legs are decoded into ONE table        *)
(*     rv_motor_msg, copied to motorDate_recv after each slave, and only   *)
(*     the angles of the table are cleared before the next slave;          *)
(*   - the controller computes a command for every joint;                  *)
(*   - EtherCAT_Send_Command packs the commands motor by motor and hands   *)
(*     each leg's message to its slave.                                    *)
(* One datagram takes the commands to the slaves and brings their frames.  *)
(* Nobody looks whether it was sent or arrived: a slave it does not reach  *)
(* goes on with the commands it has, and one whose frames do not come back *)
(* keeps its old image. A slave is a CAN gateway and reports per channel a *)
(* frame of the motor there, or none.                                      *)
(* A measurement is the cycle and the motor it was taken at.               *)
(***************************************************************************)
EXTENDS Naturals

CONSTANTS
  SlaveCount,               \* ec_slavecount: legs are slaves 0 and 1, IMU is 2
  MotorsPerLeg,             \* 5 on the robot, with identifiers 1 to 5
  GapAfter,                 \* the channel after that many motors is free: 2
  MaxCycle                  \* bound on the cycles of a run

ASSUME BusAssumption ==
  /\ SlaveCount \in 1..3    \* SLAVE_NUMBER; one more has no Rx_Message
  /\ MotorsPerLeg \in Nat \ {0} /\ GapAfter \in 0..MotorsPerLeg
  /\ MaxCycle \in Nat

Leg   == {0, 1}
Motor == 1..MotorsPerLeg
Slave == 0..(SlaveCount - 1)
Imu   == 2

(* What a channel of the gateway may report, by its effect on the decoder:  *)
(*   none     dlc = 0, or a response without a field that is used here      *)
(*   state    response 1, the answer to a control frame                    *)
(*   current  responses 2 and 3, and parameter 3 of response 5             *)
(*   alien    a setting reply that failed, or response 4 of a wrong length: *)
(*            the decoder returns                                          *)
Kind  == {"none", "state", "current", "alien"}
Frame == [kind : Kind, at : 0..MaxCycle]

Zero        == [leg |-> 2, motor |-> 0, at |-> 0]
Own(l, m)   == [leg : {l}, motor : {m}, at : 0..MaxCycle]
Measurement == {Zero} \cup UNION {Own(l, m) : l \in Leg, m \in Motor}
Message     == [angle : Measurement, speed : Measurement, current : Measurement]
AllZero     == [angle |-> Zero, speed |-> Zero, current |-> Zero]

(* A control command by the joint and the cycle it was computed for.       *)
Idle    == [leg |-> 2, motor |-> 0, at |-> 0]
Command == {Idle} \cup [leg : Leg, motor : Motor, at : 0..MaxCycle]

VARIABLES
  pc,                       \* where the control loop is
  cycle,                    \* number of the cycle
  slave,                    \* loop counter of EtherCAT_Get_State
  inputs,                   \* process image: the frames of each leg's slave
  imuInput,                 \* process image: cycle of the IMU's last data
  complete,                 \* every slave took the commands and answered:
                            \* wkc >= expectedWKC
  msg,                      \* rv_motor_msg
  recv,                     \* motorDate_recv, 0..4 as leg 0, 5..9 as leg 1
  imu,                      \* imuData_recv
  cmd,                      \* jointData_: the command of each joint
  outputs,                  \* Tx_Message and its image, by channel
  drives,                   \* what the drives of each leg hold, by channel
  taken                     \* every slave found has taken the last outputs

busVars == <<drives, taken>>
vars == <<pc, cycle, slave, inputs, imuInput, complete, msg, recv, imu, cmd,
          outputs, busVars>>

-----------------------------------------------------------------------------
(* Channel 3 of the six of a gateway carries no motor.                     *)
Channel      == 1..(MotorsPerLeg + 1)
ChannelOf(m) == IF m <= GapAfter THEN m ELSE m + 1
MotorAt(c)   == IF c <= GapAfter THEN c ELSE c - 1
Wired(c)     == c # GapAfter + 1 /\ MotorAt(c) \in Motor

NoFrames == [m \in Motor |-> [kind |-> "none", at |-> 0]]
NoOutput == [c \in Channel |-> Idle]

(* BridgeHW::init sends a zero command to every joint. That it also calls    *)
(* EtherCAT_Get_State once before the first read() is left out.             *)
Init ==
  /\ pc = "send" /\ cycle = 0 /\ slave = 0
  /\ inputs = [l \in Leg |-> NoFrames] /\ imuInput = 0
  /\ complete = FALSE
  /\ msg = [m \in Motor |-> AllZero]
  /\ recv = [l \in Leg |-> [m \in Motor |-> AllZero]]
  /\ imu = 0
  /\ cmd = [l \in Leg |-> [m \in Motor |-> [leg |-> l, motor |-> m, at |-> 0]]]
  /\ outputs = [l \in Leg |-> NoOutput]
  /\ drives = [l \in Leg |-> NoOutput] /\ taken = FALSE

-----------------------------------------------------------------------------
(* ec_receive_processdata: each slave found answers with new frames, or its *)
(* answer is lost and its image stays. In SAFE_OP it answers and takes no   *)
(* outputs.                                                                *)
Receive ==
  /\ pc = "receive"
  /\ \E answered \in SUBSET Slave :
       \E kinds \in [answered \cap Leg -> [Motor -> Kind]] :
         /\ inputs' = [l \in Leg |->
              IF l \in answered
                THEN [m \in Motor |-> [kind |-> kinds[l][m], at |-> cycle]]
                ELSE inputs[l]]
         /\ imuInput' = IF Imu \in answered THEN cycle ELSE imuInput
         /\ complete' = (taken /\ answered = Slave)
  /\ slave' = 0
  /\ pc' = "decode"
  /\ UNCHANGED <<cycle, msg, recv, imu, cmd, outputs, busVars>>

(* RV_can_data_repack stops at an alien frame: the channels behind it are   *)
(* not looked at.                                                          *)
Reached(frames, m) == \A k \in 1..m : frames[k].kind # "alien"

(* Mutant: a state frame does not bring the speed.                         *)
RepackSpeedOfCurrent(l) ==
  [m \in Motor |->
     LET sample == [leg |-> l, motor |-> m, at |-> inputs[l][m].at]
         kind   == inputs[l][m].kind
     IN IF ~Reached(inputs[l], m) THEN msg[m]
        ELSE IF kind = "state"
               THEN [angle |-> sample, speed |-> msg[m].speed, current |-> sample]
        ELSE IF kind = "current" THEN [msg[m] EXCEPT !.current = sample]
        ELSE msg[m]]

(* RV_can_data_repack in response mode, for the slave of leg l.             *)
Repack(l) ==
  [m \in Motor |->
     LET sample == [leg |-> l, motor |-> m, at |-> inputs[l][m].at]
         kind   == inputs[l][m].kind
     IN IF ~Reached(inputs[l], m) THEN msg[m]
        ELSE IF kind = "state"
               THEN [angle |-> sample, speed |-> sample, current |-> sample]
        ELSE IF kind = "current" THEN [msg[m] EXCEPT !.current = sample]
        ELSE msg[m]]

(* Mutant: the table goes to the next slave as it is.                      *)
KeepTable(table) == table

(* The end of the loop over the slaves clears the angles, nothing else.     *)
ClearAngles(table) == [m \in Motor |-> [table[m] EXCEPT !.angle = Zero]]

NextSlave ==
  IF slave + 1 < SlaveCount
    THEN slave' = slave + 1 /\ pc' = "decode"
    ELSE slave' = 0         /\ pc' = "control"

(* Mutant: the table is copied before the frames are decoded into it.       *)
DecodeLegCopyFirst ==
  /\ pc = "decode" /\ slave \in Leg
  /\ recv' = [recv EXCEPT ![slave] = msg]
  /\ msg' = ClearAngles(Repack(slave))
  /\ NextSlave
  /\ UNCHANGED <<cycle, inputs, imuInput, complete, imu, cmd, outputs, busVars>>

DecodeLeg ==
  /\ pc = "decode" /\ slave \in Leg
  /\ LET table == Repack(slave)
     IN /\ recv' = [recv EXCEPT ![slave] = table]
        /\ msg' = ClearAngles(table)
  /\ NextSlave
  /\ UNCHANGED <<cycle, inputs, imuInput, complete, imu, cmd, outputs, busVars>>

(* The third slave is the IMU; its frame is decoded without a length test.  *)
DecodeImu ==
  /\ pc = "decode" /\ slave = Imu
  /\ imu' = imuInput
  /\ msg' = ClearAngles(msg)
  /\ NextSlave
  /\ UNCHANGED <<cycle, inputs, imuInput, complete, recv, cmd, outputs, busVars>>

(* The controller commands every joint, BridgeHW::write hands them over.    *)
Control ==
  /\ pc = "control"
  /\ cmd' = [l \in Leg |-> [m \in Motor |->
               [leg |-> l, motor |-> m, at |-> cycle]]]
  /\ pc' = "send"
  /\ UNCHANGED <<cycle, slave, inputs, imuInput, complete, msg, recv, imu,
                 outputs, busVars>>

(* Mutant: the commands go to the channels without the gap.                *)
PackWithoutGap(l) ==
  [c \in Channel |-> IF c \in Motor THEN cmd[l][c] ELSE outputs[l][c]]

(* send_motor_ctrl_cmd for each motor of the leg: a message keeps what it   *)
(* had on the channel without a motor.                                     *)
Pack(l) ==
  [c \in Channel |-> IF Wired(c) THEN cmd[l][MotorAt(c)] ELSE outputs[l][c]]

(* A slave that was not found has no output image.                         *)
HandOver == [l \in Leg |-> IF l \in Slave THEN Pack(l) ELSE outputs[l]]

(* EtherCAT_Send_Command. The datagram reaches some of the slaves, and a    *)
(* drive does what its slave last took.                                    *)
Send ==
  /\ pc = "send"
  /\ outputs' = HandOver
  /\ \E reached \in SUBSET Slave :
       /\ drives' = [l \in Leg |-> IF l \in reached THEN outputs'[l] ELSE drives[l]]
       /\ taken' = (reached = Slave)
  /\ IF cycle < MaxCycle
       THEN cycle' = cycle + 1 /\ pc' = "receive"
       ELSE UNCHANGED cycle    /\ pc' = "end"
  /\ UNCHANGED <<slave, inputs, imuInput, complete, msg, recv, imu, cmd>>

(* The bound on the cycles has been reached.                               *)
Ended == pc = "end" /\ UNCHANGED vars

Next == Receive \/ DecodeLeg \/ DecodeImu \/ Control \/ Send \/ Ended

Spec == Init /\ [][Next]_vars

-----------------------------------------------------------------------------
TypeOK ==
  /\ pc \in {"receive", "decode", "control", "send", "end"}
  /\ cycle \in 0..MaxCycle /\ slave \in Slave
  /\ inputs \in [Leg -> [Motor -> Frame]] /\ imuInput \in 0..MaxCycle
  /\ complete \in BOOLEAN
  /\ msg \in [Motor -> Message]
  /\ recv \in [Leg -> [Motor -> Message]]
  /\ imu \in 0..MaxCycle
  /\ cmd \in [Leg -> [Motor -> Command]]
  /\ outputs \in [Leg -> [Channel -> Command]]
  /\ drives \in [Leg -> [Channel -> Command]] /\ taken \in BOOLEAN

(* The angle the controller reads for a joint is zero or was measured at    *)
(* that joint, although both legs are decoded into one table, frames are    *)
(* missing and decoding stops at alien frames.                             *)
AngleIsOwn ==
  \A l \in Leg, m \in Motor :
    recv[l][m].angle \in {Zero} \cup Own(l, m)

(* A joint whose angle is known has the speed and the current of the same   *)
(* frame: the controller never combines an angle with the speed of another  *)
(* cycle or of the other leg.                                              *)
AngleBringsSpeed ==
  \A l \in Leg, m \in Motor :
    recv[l][m].angle # Zero =>
      /\ recv[l][m].speed = recv[l][m].angle
      /\ recv[l][m].current = recv[l][m].angle

(* When the cycle is complete and every motor sent its state, the           *)
(* controller computes from measurements of this very cycle only.          *)
CompleteIsFresh ==
  pc \in {"control", "send"} /\ complete =>
    /\ \A l \in Leg \cap Slave :
         (\A m \in Motor : inputs[l][m].kind = "state") =>
           \A m \in Motor :
             LET sample == [leg |-> l, motor |-> m, at |-> cycle]
             IN recv[l][m] = [angle |-> sample, speed |-> sample,
                              current |-> sample]
    /\ Imu \in Slave => imu = cycle

(* The drives of leg l hold the commands of cycle n, each that of its own  *)
(* joint, and the channel without a motor none.                            *)
HoldsCycle(l, n) ==
  \A c \in Channel :
    \/ \E m \in Motor : c = ChannelOf(m) /\ drives[l][c] = [leg |-> l, motor |-> m, at |-> n]
    \/ (\A m \in Motor : c # ChannelOf(m)) /\ drives[l][c] = Idle

(* Whatever datagrams are lost, and whichever slaves one reaches: the       *)
(* drives of one leg hold the commands of one and the same cycle, and after *)
(* a complete cycle those of both legs are of the last one. Otherwise the   *)
(* legs may hold commands of different cycles.                             *)
CommandsTogether ==
  /\ \A l \in Leg \cap Slave : drives[l] = NoOutput \/ \E n \in 0..cycle : HoldsCycle(l, n)
  /\ pc \in {"decode", "control", "send"} /\ complete =>
       \A l \in Leg \cap Slave : HoldsCycle(l, cycle - 1)

(* "Function: get the state information of the slave devices on the bus":   *)
(* speed and current of a joint are, like its angle, nobody else's. They    *)
(* are not: the table keeps them from one slave to the next.               *)
FeedbackIsOwn ==
  \A l \in Leg, m \in Motor :
    /\ recv[l][m].speed   \in {Zero} \cup Own(l, m)
    /\ recv[l][m].current \in {Zero} \cup Own(l, m)

=============================================================================
