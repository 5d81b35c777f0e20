----------------------------- MODULE MotorFrames -----------------------------
(***************************************************************************)
(* The CAN frames of motor_control.c. Every function writes into the frame  *)
(* of one motor, which keeps what the last call left there: the bytes a     *)
(* function does not write, and all data bytes when a function returns      *)
(* early. Requested physical values are integers in tenths of their unit;   *)
(* float_to_uint is exact on them (the rounding of 32-bit floats is left     *)
(* out). A 32-bit float handed through is its four bytes. Requests are      *)
(* within the ranges the comments document, control requests also outside.  *)
(***************************************************************************)
EXTENDS Integers, Sequences

CONSTANTS
  CtrlRequests,             \* [id, kp, kd, pos, spd, tor]
  PositionRequests,         \* [pos, spd, cur, ack]
  SpeedRequests,            \* [spd, cur, ack]
  CurTorRequests,           \* [cur, ctrl, ack]
  AccRequests,              \* [acc, ack]
  PairRequests,             \* [code, first, second, ack]
  MaxCalls                  \* bound on the calls into one frame

Byte   == 0..255
Float4 == [0..3 -> Byte]    \* buf[0] is the least significant byte

ASSUME CtrlAssumption ==
  CtrlRequests \subseteq
    [id : Nat, kp : Int, kd : Int, pos : Int, spd : Int, tor : Int]

(* The documented ranges; any number where a function limits its argument  *)
(* or refuses it.                                                          *)
SpeedRange   == 0..18000
CurrentRange == 0..3000
PositionRequest == [pos : Float4, spd : SpeedRange, cur : CurrentRange, ack : Nat]
SpeedRequest    == [spd : Float4, cur : CurrentRange, ack : 0..3]
CurTorRequest   == [cur : Int, ctrl : Nat, ack : Nat]
AccRequest      == [acc : Nat, ack : Nat]
PairRequest     == [code : {2, 3}, first : Nat, second : Nat, ack : Nat]

ASSUME RequestsAssumption ==
  /\ MaxCalls \in Nat
  /\ PositionRequests \subseteq PositionRequest
  /\ SpeedRequests \subseteq SpeedRequest
  /\ CurTorRequests \subseteq CurTorRequest
  /\ AccRequests \subseteq AccRequest
  /\ PairRequests \subseteq PairRequest

VARIABLES
  dlc,                      \* length of the frame
  data,                     \* its eight bytes
  asked,                    \* the request of the last call
  refused,                  \* the last call returned early
  calls                     \* number of calls so far

framesVars == <<dlc, data, asked, refused, calls>>

-----------------------------------------------------------------------------
Clamp(x, lo, hi) == IF x > hi THEN hi ELSE IF x < lo THEN lo ELSE x

FloatToUint(x, lo, hi, top) == ((x - lo) * top) \div (hi - lo)

Top9  == 511
Top12 == 4095
Top16 == 65535

(* The ranges, in tenths. Motors 3 and 4 have three times the torque.       *)
KpMax      == 5000
KdMax      == 50
PosMax     == 125
SpdMax     == 180
TorMax(id) == IF id \in {3, 4} THEN 900 ELSE 300

KpInt(r)  == FloatToUint(Clamp(r.kp, 0, KpMax), 0, KpMax, Top12)
KdInt(r)  == FloatToUint(Clamp(r.kd, 0, KdMax), 0, KdMax, Top9)
PosInt(r) == FloatToUint(Clamp(r.pos, -PosMax, PosMax), -PosMax, PosMax, Top16)
SpdInt(r) == FloatToUint(Clamp(r.spd, -SpdMax, SpdMax), -SpdMax, SpdMax, Top12)
TorInt(r) == FloatToUint(Clamp(r.tor, -TorMax(r.id), TorMax(r.id)),
                         -TorMax(r.id), TorMax(r.id), Top12)

(* Mutant: the upper bit of kd is masked with 0xFF before it is shifted.     *)
CtrlBytesKdCut(kp, kd, pos, spd, tor) ==
  <<kp \div 128, (kp % 128) * 2, kd % 256, pos \div 256, pos % 256,
    spd \div 16, (spd % 16) * 16 + tor \div 256, tor % 256>>

(* 3 bits of mode 0, then kp 12, kd 9, pos 16, spd 12 and tor 12 bits.       *)
CtrlBytes(kp, kd, pos, spd, tor) ==
  <<kp \div 128, (kp % 128) * 2 + ((kd \div 256) % 2), kd % 256,
    pos \div 256, pos % 256, spd \div 16, (spd % 16) * 16 + tor \div 256,
    tor % 256>>

(* Mutant: the speed of a position frame is masked with 0xFC, not 0x3FC.     *)
PositionBytesNarrowMask(r) ==
  <<32 + r.pos[3] \div 8,
    ((r.pos[3] * 32) % 256) + r.pos[2] \div 8,
    ((r.pos[2] * 32) % 256) + r.pos[1] \div 8,
    ((r.pos[1] * 32) % 256) + r.pos[0] \div 8,
    ((r.pos[0] * 32) % 256) + r.spd \div 1024,
    (r.spd % 256) \div 4, (r.spd % 4) * 64 + r.cur \div 64,
    (r.cur % 64) * 4 + r.ack>>

(* 3 bits of mode 1, then pos 32, spd 15, cur 12 and ack 2 bits.             *)
PositionBytes(r) ==
  <<32 + r.pos[3] \div 8,
    ((r.pos[3] * 32) % 256) + r.pos[2] \div 8,
    ((r.pos[2] * 32) % 256) + r.pos[1] \div 8,
    ((r.pos[1] * 32) % 256) + r.pos[0] \div 8,
    ((r.pos[0] * 32) % 256) + r.spd \div 1024,
    (r.spd % 1024) \div 4, (r.spd % 4) * 64 + r.cur \div 64,
    (r.cur % 64) * 4 + r.ack>>

SpeedBytes(r) ==
  <<64 + r.ack, r.spd[3], r.spd[2], r.spd[1], r.spd[0],
    r.cur \div 256, r.cur % 256>>

LimitedCurrent(r) ==
  LET limit == IF r.ctrl # 0 THEN 3000 ELSE 2000
  IN Clamp(r.cur, -limit, limit)

(* A signed 16-bit value: >> 8 keeps the sign, the store keeps 8 bits.      *)
CurTorBytes(r) ==
  <<96 + r.ctrl * 4 + r.ack, (LimitedCurrent(r) \div 256) % 256,
    LimitedCurrent(r) % 256>>

AccBytes(r) ==
  LET acc == Clamp(r.acc, 0, 2000)
  IN <<192 + r.ack, 1, acc \div 256, acc % 256>>

(* set_motor_linkage_speedKI (code 2) and set_motor_feedbackKP_KD (code 3).  *)
PairBytes(r) ==
  LET first  == Clamp(r.first, 0, 10000)
      second == Clamp(r.second, 0, 10000)
  IN <<192 + r.ack, r.code, first \div 256, first % 256,
       second \div 256, second % 256>>

-----------------------------------------------------------------------------
FramesInit ==
  /\ dlc = 0 /\ data = [i \in 1..8 |-> 0]
  /\ asked = [fn |-> "none"] /\ refused = FALSE /\ calls = 0

(* The bytes a function does not write keep their values.                   *)
Fill(request, bytes) ==
  /\ calls < MaxCalls /\ calls' = calls + 1
  /\ asked' = request /\ refused' = FALSE
  /\ dlc' = Len(bytes)
  /\ data' = [i \in 1..8 |-> IF i <= Len(bytes) THEN bytes[i] ELSE data[i]]

(* The length is set before the arguments are tested.                       *)
Refuse(request, length) ==
  /\ calls < MaxCalls /\ calls' = calls + 1
  /\ asked' = request /\ refused' = TRUE
  /\ dlc' = length
  /\ UNCHANGED data

SendMotorCtrlCmd(r) ==
  Fill([fn |-> "ctrl", r |-> r],
       CtrlBytes(KpInt(r), KdInt(r), PosInt(r), SpdInt(r), TorInt(r)))

SetMotorPosition(r) ==
  IF r.ack > 3 THEN Refuse([fn |-> "pos", r |-> r], 8)
               ELSE Fill([fn |-> "pos", r |-> r], PositionBytes(r))

SetMotorSpeed(r) == Fill([fn |-> "spd", r |-> r], SpeedBytes(r))

SetMotorCurTor(r) ==
  IF r.ack > 3 \/ r.ctrl > 7 THEN Refuse([fn |-> "cur", r |-> r], 3)
                             ELSE Fill([fn |-> "cur", r |-> r], CurTorBytes(r))

SetMotorAcceleration(r) ==
  IF r.ack > 2 THEN Refuse([fn |-> "acc", r |-> r], 4)
               ELSE Fill([fn |-> "acc", r |-> r], AccBytes(r))

SetMotorPair(r) ==
  IF r.ack > 2 THEN Refuse([fn |-> "pair", r |-> r], 6)
               ELSE Fill([fn |-> "pair", r |-> r], PairBytes(r))

FramesNext ==
  \/ \E r \in CtrlRequests     : SendMotorCtrlCmd(r)
  \/ \E r \in PositionRequests : SetMotorPosition(r)
  \/ \E r \in SpeedRequests    : SetMotorSpeed(r)
  \/ \E r \in CurTorRequests   : SetMotorCurTor(r)
  \/ \E r \in AccRequests      : SetMotorAcceleration(r)
  \/ \E r \in PairRequests     : SetMotorPair(r)
  \/ calls = MaxCalls /\ UNCHANGED framesVars

FramesSpec == FramesInit /\ [][FramesNext]_framesVars

-----------------------------------------------------------------------------
(* The drive's side: the fields of a frame as one number after the other.   *)

Mode      == data[1] \div 32
KpField   == (data[1] % 32) * 128 + data[2] \div 2
KdField   == (data[2] % 2) * 256 + data[3]
PosField  == data[4] * 256 + data[5]
SpdField  == data[6] * 16 + data[7] \div 16
TorField  == (data[7] % 16) * 256 + data[8]

FloatField == [i \in 0..3 |->
  (data[4 - i] % 32) * 8 + data[5 - i] \div 32]
PosSpdField == (data[5] % 32) * 1024 + data[6] * 4 + data[7] \div 64
PosCurField == (data[7] % 64) * 64 + data[8] \div 4

Signed16(n) == IF n >= 32768 THEN n - 65536 ELSE n

(* field is what x, limited to lo..hi, is on a scale of 0..top: less than    *)
(* one step below it.                                                      *)
OnScale(field, x, lo, hi, top) ==
  LET rest == (Clamp(x, lo, hi) - lo) * top - field * (hi - lo)
  IN field \in 0..top /\ 0 <= rest /\ rest < hi - lo

(* What a control frame says to the drive is what was asked for, limited to *)
(* the motor's range and rounded down by less than one step, whatever was in *)
(* the frame before.                                                       *)
CtrlArrives ==
  asked.fn = "ctrl" =>
    LET r == asked.r IN
    /\ Mode = 0 /\ dlc = 8
    /\ OnScale(KpField,  r.kp,  0, 5000, Top12)
    /\ OnScale(KdField,  r.kd,  0, 50, Top9)
    /\ OnScale(PosField, r.pos, -125, 125, Top16)
    /\ OnScale(SpdField, r.spd, -180, 180, Top12)
    /\ IF r.id \in {3, 4} THEN OnScale(TorField, r.tor, -900, 900, Top12)
                          ELSE OnScale(TorField, r.tor, -300, 300, Top12)

(* A position frame that was not refused carries the float, the speed, the  *)
(* current and the acknowledge mode that were asked for, bit by bit.        *)
PositionArrives ==
  asked.fn = "pos" /\ ~refused =>
    LET r == asked.r IN
    /\ Mode = 1 /\ dlc = 8
    /\ FloatField = r.pos
    /\ PosSpdField = r.spd /\ PosCurField = r.cur /\ data[8] % 4 = r.ack

(* A current or torque frame carries the request with its sign, within 2000 *)
(* for current control and 3000 for the other modes.                       *)
CurrentArrives ==
  asked.fn = "cur" /\ ~refused =>
    LET r     == asked.r
        value == Signed16(data[2] * 256 + data[3])
        limit == IF r.ctrl = 0 THEN 2000 ELSE 3000
    IN
    /\ Mode = 3 /\ dlc = 3
    /\ (data[1] \div 4) % 8 = r.ctrl /\ data[1] % 4 = r.ack
    /\ value \in -limit..limit
    /\ r.cur \in -limit..limit => value = r.cur
    /\ r.cur < 0 => value < 0

(* A speed or a setting that was not refused arrives, settings limited to    *)
(* the documented range.                                                   *)
SettingArrives ==
  ~refused =>
    /\ asked.fn = "spd" =>
         /\ \A i \in 0..3 : data[5 - i] = asked.r.spd[i]
         /\ data[6] * 256 + data[7] = asked.r.cur /\ data[1] = 64 + asked.r.ack
    /\ asked.fn = "acc" =>
         data[3] * 256 + data[4] = Clamp(asked.r.acc, 0, 2000)
    /\ asked.fn = "pair" =>
         /\ data[3] * 256 + data[4] = Clamp(asked.r.first, 0, 10000)
         /\ data[5] * 256 + data[6] = Clamp(asked.r.second, 0, 10000)

(* The length a drive sees belongs to the command it sees, in every frame    *)
(* whose last call was not refused.                                        *)
LengthOfMode ==
  ~refused /\ dlc # 0 =>
    \/ Mode \in {0, 1} /\ dlc = 8
    \/ Mode = 2 /\ dlc = 7
    \/ Mode = 3 /\ dlc = 3
    \/ Mode = 6 /\ dlc = (IF data[2] = 1 THEN 4 ELSE 6)

(* All four: what the drive decodes of any frame but a control frame is     *)
(* what was asked for, and its length and mode are of one call, whatever    *)
(* earlier calls, refused ones too, have left in the bytes.                 *)
RequestsArrive == PositionArrives /\ CurrentArrives /\ SettingArrives /\ LengthOfMode
===============================================================================
