---------------------------- MODULE Motors_proofs ----------------------------
(***************************************************************************)
(* The frames of the motors and the bus that carries them.                 *)
(* For every request and any number of calls into a frame: what the drive  *)
(* reads is what was asked for. The argument is arithmetic: float_to_uint  *)
(* is a division with remainder (Scaled), and each field is put together   *)
(* again from the parts it was cut into (CtrlSplit).                       *)
(* For any number of slaves, motors per leg and cycles: types, the origin  *)
(* of the angles, what comes with an angle, and the channels of commands.  *)
(* Between two slaves every angle of the table is zero (TableClear), so a  *)
(* leg's angles are those of its own frames; only a state frame brings an  *)
(* angle, and it brings speed and current with it. In a complete cycle the *)
(* image is of this cycle, and the loop copies it slave by slave           *)
(* (FreshInv).                                                             *)
(***************************************************************************)
EXTENDS MotorFrames, MotorBus, TLAPS

-----------------------------------------------------------------------------
(* What is written into a frame (MotorFrames).                             *)

(* Division with remainder.                                               *)
LEMMA Division ==
  ASSUME NEW n \in Int, NEW d \in Nat \ {0}
  PROVE  /\ n \div d \in Int
         /\ 0 <= n - (n \div d) * d /\ n - (n \div d) * d < d
<1>1. n \div d \in Int /\ n % d \in 0..(d - 1) /\ n = d * (n \div d) + (n % d)
  BY SMT
<1>2. QED
  BY <1>1, SMT

(* A quotient of a product that is at most d * top is at most top.           *)
LEMMA ScaleBound ==
  ASSUME NEW a \in Nat, NEW d \in Nat \ {0}, a <= d, NEW top \in Nat,
         NEW q \in Int, NEW n \in Nat, n = a * top, 0 <= n - q * d, n - q * d < d
  PROVE  q \in 0..top
<1>1. q >= 0
  <2> SUFFICES ASSUME q <= -1 PROVE FALSE
    OBVIOUS
  <2>1. q * d <= -d
    BY SMT
  <2>2. QED
    BY <2>1, SMT
<1>2. q <= top
  <2> SUFFICES ASSUME q >= top + 1 PROVE FALSE
    OBVIOUS
  <2>1. q * d >= (top + 1) * d
    BY SMT
  <2>2. a * top <= d * top
    BY SMT
  <2>3. QED
    BY <2>1, <2>2, SMT
<1>3. QED
  BY <1>1, <1>2

(* A saturated value is placed on its scale, rounded down.                   *)
LEMMA Scaled ==
  ASSUME NEW x \in Int, NEW lo \in Int, NEW hi \in Int, lo < hi, NEW top \in Nat
  PROVE  OnScale(FloatToUint(Clamp(x, lo, hi), lo, hi, top), x, lo, hi, top)
<1> DEFINE y == Clamp(x, lo, hi)
           n == (y - lo) * top
           d == hi - lo
           q == n \div d
<1>1. y \in Int /\ y - lo \in Nat /\ y - lo <= d /\ d \in Nat \ {0}
  BY DEF Clamp
<1> HIDE DEF y, d
<1>2. n \in Nat
  BY <1>1, SMT
<1> HIDE DEF n
<1>3. q \in Int /\ 0 <= n - q * d /\ n - q * d < d
  BY <1>1, <1>2, Division
<1> HIDE DEF q
<1>4. q \in 0..top
  BY <1>1, <1>2, <1>3, ScaleBound DEF n
<1>5. FloatToUint(Clamp(x, lo, hi), lo, hi, top) = q
  BY DEF FloatToUint, q, n, d, y
<1>6. QED
  BY <1>3, <1>4, <1>5 DEF OnScale, n, d, y

-----------------------------------------------------------------------------
(* The scales have natural numbers of steps.                                *)
LEMMA TopsNat == Top9 \in Nat /\ Top12 \in Nat /\ Top16 \in Nat
BY SMT DEF Top9, Top12, Top16

(* A number is put together again from its quotient and remainder, for the  *)
(* divisors the frames use.                                                *)
LEMMA Cut ==
  ASSUME NEW n \in Nat
  PROVE  /\ n \div 16 \in Nat /\ n % 16 \in 0..15
         /\ (n \div 16) * 16 + (n % 16) = n
         /\ n \div 128 \in Nat /\ n % 128 \in 0..127
         /\ (n \div 128) * 128 + (n % 128) = n
         /\ n \div 256 \in Nat /\ n % 256 \in 0..255
         /\ (n \div 256) * 256 + (n % 256) = n
<1>1. n \div 16 \in Nat
  BY SMT
<1>2. n % 16 \in 0..15
  BY SMT
<1>3. (n \div 16) * 16 + (n % 16) = n
  BY SMT
<1>4. n \div 128 \in Nat
  BY SMT
<1>5. n % 128 \in 0..127
  BY SMT
<1>6. (n \div 128) * 128 + (n % 128) = n
  BY SMT
<1>7. n \div 256 \in Nat
  BY SMT
<1>8. n % 256 \in 0..255
  BY SMT
<1>9. (n \div 256) * 256 + (n % 256) = n
  BY SMT
<1> QED BY <1>1, <1>2, <1>3, <1>4, <1>5, <1>6, <1>7, <1>8, <1>9

(* Both fields are full at the end of a scale, so the upper one never       *)
(* overflows.                                                              *)
LEMMA KpFields ==
  ASSUME NEW n \in Nat, n <= Top12
  PROVE  /\ n \div 128 \in 0..31 /\ n % 128 \in 0..127
         /\ (n \div 128) * 128 + (n % 128) = n
<1> DEFINE q == n \div 128
           r == n % 128
<1>1. q \in Nat /\ r \in 0..127 /\ q * 128 + r = n
  BY Cut
<1> HIDE DEF q, r
<1>2. Top12 = 31 * 128 + 127
  BY SMT DEF Top12
<1>3. q <= 31
  BY <1>1, <1>2, SMT
<1>4. q \in 0..31 /\ r \in 0..127 /\ q * 128 + r = n
  BY <1>1, <1>3
<1> QED BY <1>4 DEF q, r

LEMMA KdFields ==
  ASSUME NEW n \in Nat, n <= Top9
  PROVE  /\ n \div 256 \in 0..1 /\ n % 256 \in 0..255
         /\ (n \div 256) * 256 + (n % 256) = n
<1> DEFINE q == n \div 256
           r == n % 256
<1>1. q \in Nat /\ r \in 0..255 /\ q * 256 + r = n
  BY Cut
<1> HIDE DEF q, r
<1>2. Top9 = 1 * 256 + 255
  BY SMT DEF Top9
<1>3. q <= 1
  BY <1>1, <1>2, SMT
<1>4. q \in 0..1 /\ r \in 0..255 /\ q * 256 + r = n
  BY <1>1, <1>3
<1> QED BY <1>4 DEF q, r

LEMMA SpdFields ==
  ASSUME NEW n \in Nat, n <= Top12
  PROVE  /\ n \div 16 \in 0..255 /\ n % 16 \in 0..15
         /\ (n \div 16) * 16 + (n % 16) = n
<1> DEFINE q == n \div 16
           r == n % 16
<1>1. q \in Nat /\ r \in 0..15 /\ q * 16 + r = n
  BY Cut
<1> HIDE DEF q, r
<1>2. Top12 = 255 * 16 + 15
  BY SMT DEF Top12
<1>3. q <= 255
  BY <1>1, <1>2, SMT
<1>4. q \in 0..255 /\ r \in 0..15 /\ q * 16 + r = n
  BY <1>1, <1>3
<1> QED BY <1>4 DEF q, r

LEMMA TorFields ==
  ASSUME NEW n \in Nat, n <= Top12
  PROVE  /\ n \div 256 \in 0..15 /\ n % 256 \in 0..255
         /\ (n \div 256) * 256 + (n % 256) = n
<1> DEFINE q == n \div 256
           r == n % 256
<1>1. q \in Nat /\ r \in 0..255 /\ q * 256 + r = n
  BY Cut
<1> HIDE DEF q, r
<1>2. Top12 = 15 * 256 + 255
  BY SMT DEF Top12
<1>3. q <= 15
  BY <1>1, <1>2, SMT
<1>4. q \in 0..15 /\ r \in 0..255 /\ q * 256 + r = n
  BY <1>1, <1>3
<1> QED BY <1>4 DEF q, r

LEMMA PosFields ==
  ASSUME NEW n \in Nat, n <= Top16
  PROVE  /\ n \div 256 \in 0..255 /\ n % 256 \in 0..255
         /\ (n \div 256) * 256 + (n % 256) = n
<1> DEFINE q == n \div 256
           r == n % 256
<1>1. q \in Nat /\ r \in 0..255 /\ q * 256 + r = n
  BY Cut
<1> HIDE DEF q, r
<1>2. Top16 = 255 * 256 + 255
  BY SMT DEF Top16
<1>3. q <= 255
  BY <1>1, <1>2, SMT
<1>4. q \in 0..255 /\ r \in 0..255 /\ q * 256 + r = n
  BY <1>1, <1>3
<1> QED BY <1>4 DEF q, r

(* Two halves of a byte.                                                   *)
LEMMA TwoHalves ==
  ASSUME NEW a \in 0..15, NEW b \in 0..15
  PROVE  (a * 16 + b) \div 16 = a /\ (a * 16 + b) % 16 = b
BY SMTT(30)

(* The fields of a control frame are read back from its bytes.               *)
LEMMA CtrlSplit ==
  ASSUME NEW kp \in 0..Top12, NEW kd \in 0..Top9, NEW pos \in 0..Top16,
         NEW spd \in 0..Top12, NEW tor \in 0..Top12,
         NEW b, b = CtrlBytes(kp, kd, pos, spd, tor)
  PROVE  /\ Len(b) = 8
         /\ b[1] \div 32 = 0
         /\ (b[1] % 32) * 128 + b[2] \div 2 = kp
         /\ (b[2] % 2) * 256 + b[3] = kd
         /\ b[4] * 256 + b[5] = pos
         /\ b[6] * 16 + b[7] \div 16 = spd
         /\ (b[7] % 16) * 256 + b[8] = tor
<1> DEFINE kh == kp \div 128  kl == kp % 128
           dh == kd \div 256  dl == kd % 256
           sh == spd \div 16  sl == spd % 16
           th == tor \div 256 tl == tor % 256
           ph == pos \div 256 pl == pos % 256
<1>0. /\ kp \in Nat /\ kp <= Top12 /\ kd \in Nat /\ kd <= Top9
      /\ pos \in Nat /\ pos <= Top16 /\ spd \in Nat /\ spd <= Top12
      /\ tor \in Nat /\ tor <= Top12
  BY TopsNat
<1>1. kh \in 0..31 /\ kl \in 0..127 /\ kh * 128 + kl = kp
  BY <1>0, KpFields
<1>2. dh \in 0..1 /\ dl \in 0..255 /\ dh * 256 + dl = kd
  BY <1>0, KdFields
<1>3. sh \in 0..255 /\ sl \in 0..15 /\ sh * 16 + sl = spd
  BY <1>0, SpdFields
<1>4. th \in 0..15 /\ tl \in 0..255 /\ th * 256 + tl = tor
  BY <1>0, TorFields
<1>5. ph \in 0..255 /\ pl \in 0..255 /\ ph * 256 + pl = pos
  BY <1>0, PosFields
<1>6. b = <<kh, kl * 2 + (dh % 2), dl, ph, pl, sh, sl * 16 + th, tl>>
  BY DEF CtrlBytes
<1> HIDE DEF kh, kl, dh, dl, sh, sl, th, tl, ph, pl
<1>7. dh % 2 = dh /\ kh % 32 = kh /\ kh \div 32 = 0
  BY <1>1, <1>2, SMT
<1>8. (kl * 2 + dh) \div 2 = kl /\ (kl * 2 + dh) % 2 = dh
  BY <1>1, <1>2, SMT
<1>9. (sl * 16 + th) \div 16 = sl /\ (sl * 16 + th) % 16 = th
  BY <1>3, <1>4, TwoHalves, ZenonT(30)
<1>10. /\ Len(b) = 8 /\ b[1] = kh /\ b[2] = kl * 2 + dh /\ b[3] = dl
       /\ b[4] = ph /\ b[5] = pl /\ b[6] = sh /\ b[7] = sl * 16 + th
       /\ b[8] = tl
  BY <1>6, <1>7, SMT
<1>11. QED
  BY <1>1, <1>2, <1>3, <1>4, <1>5, <1>7, <1>8, <1>9, <1>10

(* A value on a scale is one of its steps.                                  *)
LEMMA ScaleRange ==
  ASSUME NEW field, NEW x, NEW lo, NEW hi, NEW top,
         OnScale(field, x, lo, hi, top)
  PROVE  field \in 0..top
BY Zenon DEF OnScale

(* A control frame says what was asked for, for every request.               *)
LEMMA CtrlStep ==
  ASSUME NEW r \in CtrlRequests, SendMotorCtrlCmd(r)
  PROVE  CtrlArrives'
<1> DEFINE kp == KpInt(r) kd == KdInt(r) pos == PosInt(r) spd == SpdInt(r)
           tor == TorInt(r)
           b  == CtrlBytes(kp, kd, pos, spd, tor)
<1>1. /\ r.kp \in Int /\ r.kd \in Int /\ r.pos \in Int /\ r.spd \in Int
      /\ r.tor \in Int
  <2>1. CtrlRequests \subseteq
          [id : Nat, kp : Int, kd : Int, pos : Int, spd : Int, tor : Int]
    BY CtrlAssumption
  <2>2. r \in [id : Nat, kp : Int, kd : Int, pos : Int, spd : Int, tor : Int]
    BY <2>1, Zenon
  <2>3. QED
    BY <2>2
<1>2. OnScale(kp, r.kp, 0, 5000, Top12)
  BY <1>1, Scaled, TopsNat DEF KpInt, KpMax
<1>3. OnScale(kd, r.kd, 0, 50, Top9)
  BY <1>1, Scaled, TopsNat DEF KdInt, KdMax
<1>4. OnScale(pos, r.pos, -125, 125, Top16)
  BY <1>1, Scaled, TopsNat DEF PosInt, PosMax
<1>5. OnScale(spd, r.spd, -180, 180, Top12)
  BY <1>1, Scaled, TopsNat DEF SpdInt, SpdMax
<1>6. IF r.id \in {3, 4} THEN OnScale(tor, r.tor, -900, 900, Top12)
                         ELSE OnScale(tor, r.tor, -300, 300, Top12)
  BY <1>1, Scaled, TopsNat DEF TorInt, TorMax
<1>7. /\ kp \in 0..Top12 /\ kd \in 0..Top9 /\ pos \in 0..Top16
      /\ spd \in 0..Top12 /\ tor \in 0..Top12
  <2>1. kp \in 0..Top12 /\ kd \in 0..Top9 /\ pos \in 0..Top16
    BY <1>2, <1>3, <1>4, ScaleRange, SMT
  <2>2. spd \in 0..Top12
    BY <1>5, ScaleRange, SMT
  <2>3. tor \in 0..Top12
    <3>1. CASE r.id \in {3, 4}
      BY <1>6, <3>1, ScaleRange, SMT
    <3>2. CASE r.id \notin {3, 4}
      BY <1>6, <3>2, ScaleRange, SMT
    <3>3. QED
      BY <3>1, <3>2
  <2>4. QED
    BY <2>1, <2>2, <2>3
<1>8. asked' = [fn |-> "ctrl", r |-> r] /\ dlc' = Len(b)
      /\ data' = [i \in 1..8 |-> IF i <= Len(b) THEN b[i] ELSE data[i]]
  BY Zenon DEF SendMotorCtrlCmd, Fill
<1>8a. b = CtrlBytes(kp, kd, pos, spd, tor)
  OBVIOUS
<1> HIDE DEF b, kp, kd, pos, spd, tor
<1>9. /\ Len(b) = 8
      /\ b[1] \div 32 = 0
      /\ (b[1] % 32) * 128 + b[2] \div 2 = kp
      /\ (b[2] % 2) * 256 + b[3] = kd
      /\ b[4] * 256 + b[5] = pos
      /\ b[6] * 16 + b[7] \div 16 = spd
      /\ (b[7] % 16) * 256 + b[8] = tor
  BY <1>7, <1>8a, CtrlSplit, SMT
<1>10. \A i \in 1..8 : data'[i] = b[i]
  BY <1>8, <1>9
<1>11. /\ Mode' = 0 /\ dlc' = 8 /\ KpField' = kp /\ KdField' = kd
       /\ PosField' = pos /\ SpdField' = spd /\ TorField' = tor
  BY <1>8, <1>9, <1>10
     DEF Mode, KpField, KdField, PosField, SpdField, TorField
<1>12. asked'.r = r
  BY <1>8
<1>13. QED
  BY <1>2, <1>3, <1>4, <1>5, <1>6, <1>11, <1>12 DEF CtrlArrives

(* For every request whatever, also far outside the ranges, and whatever the *)
(* frame held before: the drive reads the request, saturated and rounded.    *)
THEOREM CtrlCorrect == FramesSpec => []CtrlArrives
<1>1. FramesInit => CtrlArrives
  BY DEF FramesInit, CtrlArrives
<1>2. CtrlArrives /\ [FramesNext]_framesVars => CtrlArrives'
  <2> SUFFICES ASSUME CtrlArrives, [FramesNext]_framesVars PROVE CtrlArrives'
    OBVIOUS
  <2>1. ASSUME NEW r \in CtrlRequests, SendMotorCtrlCmd(r) PROVE CtrlArrives'
    BY <2>1, CtrlStep
  <2>2. ASSUME NEW r \in PositionRequests, SetMotorPosition(r)
        PROVE  CtrlArrives'
    BY <2>2 DEF SetMotorPosition, Fill, Refuse, CtrlArrives
  <2>3. ASSUME NEW r \in SpeedRequests, SetMotorSpeed(r) PROVE CtrlArrives'
    BY <2>3 DEF SetMotorSpeed, Fill, CtrlArrives
  <2>4. ASSUME NEW r \in CurTorRequests, SetMotorCurTor(r) PROVE CtrlArrives'
    BY <2>4 DEF SetMotorCurTor, Fill, Refuse, CtrlArrives
  <2>5. ASSUME NEW r \in AccRequests, SetMotorAcceleration(r)
        PROVE  CtrlArrives'
    BY <2>5 DEF SetMotorAcceleration, Fill, Refuse, CtrlArrives
  <2>6. ASSUME NEW r \in PairRequests, SetMotorPair(r) PROVE CtrlArrives'
    BY <2>6 DEF SetMotorPair, Fill, Refuse, CtrlArrives
  <2>7. CASE UNCHANGED framesVars
    BY <2>7 DEF framesVars, CtrlArrives, Mode, KpField, KdField, PosField, SpdField,
                TorField
  <2>8. QED
    BY <2>1, <2>2, <2>3, <2>4, <2>5, <2>6, <2>7 DEF FramesNext
<1>3. QED
  BY <1>1, <1>2, PTL DEF FramesSpec

-----------------------------------------------------------------------------
(* The other frames. A byte of the float is cut into five and three bits.   *)
LEMMA FloatCut ==
  ASSUME NEW a \in Byte
  PROVE  /\ a \div 8 \in 0..31 /\ a % 8 \in 0..7 /\ (a \div 8) * 8 + (a % 8) = a
         /\ (a * 32) % 256 = (a % 8) * 32
<1> DEFINE q == a \div 8
           r == a % 8
<1>1. q \in 0..31 /\ r \in 0..7 /\ q * 8 + r = a
  BY SMTT(30) DEF Byte
<1>2. (a * 32) % 256 = r * 32
  BY SMTT(30) DEF Byte
<1> QED BY <1>1, <1>2

(* Three bits in front of five.                                            *)
LEMMA ThreeFive ==
  ASSUME NEW a \in 0..7, NEW b \in 0..31
  PROVE  (a * 32 + b) \div 32 = a /\ (a * 32 + b) % 32 = b
BY SMTT(30)

(* As Cut, for the divisors of the position frame.                          *)
LEMMA Cut4 ==
  ASSUME NEW n \in Nat
  PROVE  n \div 4 \in Nat /\ n % 4 \in 0..3 /\ (n \div 4) * 4 + (n % 4) = n
<1>1. n \div 4 \in Nat
  BY SMT
<1>2. n % 4 \in 0..3
  BY SMT
<1>3. (n \div 4) * 4 + (n % 4) = n
  BY SMT
<1> QED BY <1>1, <1>2, <1>3

LEMMA Cut1024 ==
  ASSUME NEW n \in Nat
  PROVE  /\ n \div 1024 \in Nat /\ n % 1024 \in 0..1023
         /\ (n \div 1024) * 1024 + (n % 1024) = n
<1>1. n \div 1024 \in Nat
  BY SMT
<1>2. n % 1024 \in 0..1023
  BY SMT
<1>3. (n \div 1024) * 1024 + (n % 1024) = n
  BY SMT
<1> QED BY <1>1, <1>2, <1>3

LEMMA Cut64 ==
  ASSUME NEW n \in Nat
  PROVE  n \div 64 \in Nat /\ n % 64 \in 0..63 /\ (n \div 64) * 64 + (n % 64) = n
<1>1. n \div 64 \in Nat
  BY SMT
<1>2. n % 64 \in 0..63
  BY SMT
<1>3. (n \div 64) * 64 + (n % 64) = n
  BY SMT
<1> QED BY <1>1, <1>2, <1>3

LEMMA Rest4 ==
  ASSUME NEW k \in Nat, NEW t \in 0..3
  PROVE  (k * 4 + t) % 4 = t
BY SMT

(* The speed of a position frame lies in three bytes, the current in two.   *)
SpeedParts(n) ==
  /\ n \div 1024 \in 0..31 /\ (n % 1024) \div 4 \in 0..255 /\ n % 4 \in 0..3
  /\ (n \div 1024) * 1024 + ((n % 1024) \div 4) * 4 + (n % 4) = n

LEMMA SpeedCut ==
  ASSUME NEW n \in Nat, n <= 18000
  PROVE  SpeedParts(n)
<1> DEFINE q == n \div 1024
           r == n % 1024
           s == r \div 4
           t == r % 4
<1>1. q \in Nat /\ r \in 0..1023 /\ q * 1024 + r = n
  BY Cut1024
<1> HIDE DEF q, r
<1>2. r \in Nat /\ r <= 1023
  BY <1>1
<1>3. s \in Nat /\ t \in 0..3 /\ s * 4 + t = r
  BY <1>2, Cut4
<1> HIDE DEF s, t
<1>4. q \in 0..31 /\ s \in 0..255
  BY <1>1, <1>2, <1>3, SMT
<1>5. n = (q * 256 + s) * 4 + t /\ q * 256 + s \in Nat
  BY <1>1, <1>3, <1>4, SMT
<1>6. n % 4 = t
  BY <1>3, <1>5, Rest4
<1>7. q \in 0..31 /\ s \in 0..255 /\ t \in 0..3 /\ q * 1024 + s * 4 + t = n
  BY <1>1, <1>3, <1>4, SMT
<1> QED BY <1>6, <1>7 DEF SpeedParts, q, r, s

LEMMA CurrentCut ==
  ASSUME NEW n \in Nat, n <= 3000
  PROVE  n \div 64 \in 0..63 /\ n % 64 \in 0..63 /\ (n \div 64) * 64 + (n % 64) = n
<1> DEFINE q == n \div 64
           r == n % 64
<1>1. q \in Nat /\ r \in 0..63 /\ q * 64 + r = n
  BY Cut64
<1> HIDE DEF q, r
<1>2. q \in 0..63
  BY <1>1, SMT
<1>3. q \in 0..63 /\ r \in 0..63 /\ q * 64 + r = n
  BY <1>1, <1>2
<1> QED BY <1>3 DEF q, r

LEMMA TwoSix ==
  ASSUME NEW a \in 0..3, NEW b \in 0..63
  PROVE  /\ (a * 64 + b) \div 64 = a /\ (a * 64 + b) % 64 = b
         /\ (b * 4 + a) \div 4 = b /\ (b * 4 + a) % 4 = a
BY SMTT(30)

(* The first byte holds the mode in front of five bits.                     *)
LEMMA ModeBits ==
  ASSUME NEW mode \in 0..7, NEW n \in 0..31
  PROVE  (mode * 32 + n) \div 32 = mode /\ (mode * 32 + n) % 32 = n
BY SMTT(30)

(* A signed number of 16 bits, from the two bytes it is stored in.          *)
LEMMA SignedBytes ==
  ASSUME NEW n \in Int, -3000 <= n, n <= 3000
  PROVE  Signed16(((n \div 256) % 256) * 256 + (n % 256)) = n
<1> DEFINE q == n \div 256
           r == n % 256
<1>1. q \in -12..11 /\ r \in 0..255 /\ q * 256 + r = n
  BY SMTT(30)
<1> HIDE DEF q, r
<1>2. CASE n >= 0
  <2>1. q \in 0..11
    BY <1>1, <1>2
  <2>2. q % 256 = q
    BY <2>1, SMTT(30)
  <2> QED BY <1>1, <1>2, <2>1, <2>2 DEF Signed16, q, r
<1>3. CASE n < 0
  <2>1. q \in -12..-1
    BY <1>1, <1>3
  <2>2. q % 256 = q + 256
    BY <2>1, SMTT(30)
  <2> QED BY <1>1, <1>3, <2>1, <2>2 DEF Signed16, q, r
<1> QED BY <1>2, <1>3

-----------------------------------------------------------------------------
(* The first byte of a current frame: mode 3, status and acknowledge mode.  *)
LEMMA CurTorBits ==
  ASSUME NEW c \in 0..7, NEW a \in 0..3
  PROVE  /\ (96 + c * 4 + a) \div 32 = 3
         /\ ((96 + c * 4 + a) \div 4) % 8 = c
         /\ (96 + c * 4 + a) % 4 = a
<1>1. (96 + c * 4 + a) \div 32 = 3
  BY SMT
<1>2. (96 + c * 4 + a) \div 4 = 24 + c
  BY SMT
<1>3. (24 + c) % 8 = c
  BY SMT
<1>4. (96 + c * 4 + a) % 4 = a
  BY SMT
<1> QED BY <1>1, <1>2, <1>3, <1>4

(* The fields of a request are numbers in their ranges.                     *)
LEMMA PositionTypes ==
  ASSUME NEW r \in PositionRequests
  PROVE  /\ r.spd \in Nat /\ r.spd <= 18000 /\ r.cur \in Nat /\ r.cur <= 3000
         /\ r.ack \in Nat
<1> DEFINE spd == r.spd
           cur == r.cur
           ack == r.ack
<1>1. r \in PositionRequest
  BY RequestsAssumption
<1>2. spd \in SpeedRange
  BY <1>1 DEF PositionRequest
<1>3. cur \in CurrentRange
  BY <1>1 DEF PositionRequest
<1>4. ack \in Nat
  BY <1>1 DEF PositionRequest
<1> HIDE DEF spd, cur, ack
<1>5. spd \in Nat /\ spd <= 18000 /\ cur \in Nat /\ cur <= 3000 /\ ack \in Nat
  BY <1>2, <1>3, <1>4 DEF SpeedRange, CurrentRange
<1> QED BY <1>5 DEF spd, cur, ack

LEMMA PositionFloat ==
  ASSUME NEW r \in PositionRequests
  PROVE  r.pos \in Float4
<1>1. r \in PositionRequest
  BY RequestsAssumption
<1> QED BY <1>1 DEF PositionRequest

LEMMA SpeedTypes ==
  ASSUME NEW r \in SpeedRequests
  PROVE  r.cur \in Nat /\ r.ack \in Nat /\ r.ack <= 3
<1> DEFINE cur == r.cur
           ack == r.ack
<1>1. r \in SpeedRequest
  BY RequestsAssumption
<1>2. cur \in CurrentRange
  BY <1>1 DEF SpeedRequest
<1>3. ack \in 0..3
  BY <1>1 DEF SpeedRequest
<1> HIDE DEF cur, ack
<1>4. cur \in Nat /\ ack \in Nat /\ ack <= 3
  BY <1>2, <1>3 DEF CurrentRange
<1> QED BY <1>4 DEF cur, ack

LEMMA CurTorTypes ==
  ASSUME NEW r \in CurTorRequests
  PROVE  r.cur \in Int /\ r.ctrl \in Nat /\ r.ack \in Nat
<1>1. r \in CurTorRequest
  BY RequestsAssumption
<1> QED BY <1>1 DEF CurTorRequest

LEMMA AccTypes ==
  ASSUME NEW r \in AccRequests
  PROVE  r.acc \in Nat /\ r.ack \in Nat
<1>1. r \in AccRequest
  BY RequestsAssumption
<1> QED BY <1>1 DEF AccRequest

LEMMA PairTypes ==
  ASSUME NEW r \in PairRequests
  PROVE  r.code \in {2, 3} /\ r.first \in Nat /\ r.second \in Nat /\ r.ack \in Nat
<1>1. r \in PairRequest
  BY RequestsAssumption
<1> QED BY <1>1 DEF PairRequest

(* A call that returns early leaves nothing to be decoded.                  *)
LEMMA RefusedArrives ==
  ASSUME NEW request, NEW length, Refuse(request, length)
  PROVE  RequestsArrive'
BY DEF Refuse, RequestsArrive, PositionArrives, CurrentArrives, SettingArrives, LengthOfMode

(* The fields of a position frame are read back from its bytes.             *)
LEMMA PositionSplit ==
  ASSUME NEW r \in PositionRequests, r.ack <= 3, NEW b, b = PositionBytes(r)
  PROVE  /\ Len(b) = 8
         /\ b[1] \div 32 = 1
         /\ (b[4] % 32) * 8 + b[5] \div 32 = r.pos[0]
         /\ (b[3] % 32) * 8 + b[4] \div 32 = r.pos[1]
         /\ (b[2] % 32) * 8 + b[3] \div 32 = r.pos[2]
         /\ (b[1] % 32) * 8 + b[2] \div 32 = r.pos[3]
         /\ (b[5] % 32) * 1024 + b[6] * 4 + b[7] \div 64 = r.spd
         /\ (b[7] % 64) * 64 + b[8] \div 4 = r.cur
         /\ b[8] % 4 = r.ack
<1> DEFINE spd == r.spd  cur == r.cur  ack == r.ack
           p0 == r.pos[0]  p1 == r.pos[1]  p2 == r.pos[2]  p3 == r.pos[3]
           h0 == p0 \div 8  h1 == p1 \div 8  h2 == p2 \div 8  h3 == p3 \div 8
           l0 == p0 % 8  l1 == p1 % 8  l2 == p2 % 8  l3 == p3 % 8
           sh == spd \div 1024  sm == (spd % 1024) \div 4  sl == spd % 4
           ch == cur \div 64  cl == cur % 64
<1>1. p0 \in Byte /\ p1 \in Byte /\ p2 \in Byte /\ p3 \in Byte
  BY PositionFloat DEF Float4
<1>2. spd \in Nat /\ spd <= 18000 /\ cur \in Nat /\ cur <= 3000 /\ ack \in 0..3
  BY PositionTypes
<1>3. b = <<32 + h3, ((p3 * 32) % 256) + h2, ((p2 * 32) % 256) + h1, ((p1 * 32) % 256) + h0,
            ((p0 * 32) % 256) + sh, sm, sl * 64 + ch, cl * 4 + ack>>
  BY DEF PositionBytes
<1> HIDE DEF spd, cur, ack, p0, p1, p2, p3
<1>4. /\ h0 \in 0..31 /\ l0 \in 0..7 /\ h0 * 8 + l0 = p0 /\ (p0 * 32) % 256 = l0 * 32
      /\ h1 \in 0..31 /\ l1 \in 0..7 /\ h1 * 8 + l1 = p1 /\ (p1 * 32) % 256 = l1 * 32
  BY <1>1, FloatCut
<1>5. /\ h2 \in 0..31 /\ l2 \in 0..7 /\ h2 * 8 + l2 = p2 /\ (p2 * 32) % 256 = l2 * 32
      /\ h3 \in 0..31 /\ l3 \in 0..7 /\ h3 * 8 + l3 = p3 /\ (p3 * 32) % 256 = l3 * 32
  BY <1>1, FloatCut
<1>6. sh \in 0..31 /\ sm \in 0..255 /\ sl \in 0..3 /\ sh * 1024 + sm * 4 + sl = spd
  <2>1. SpeedParts(spd)
    BY <1>2, SpeedCut
  <2> QED BY <2>1 DEF SpeedParts
<1>7. ch \in 0..63 /\ cl \in 0..63 /\ ch * 64 + cl = cur
  BY <1>2, CurrentCut
<1> HIDE DEF h0, h1, h2, h3, l0, l1, l2, l3, sh, sm, sl, ch, cl
<1>8. /\ Len(b) = 8 /\ b[1] = 1 * 32 + h3 /\ b[2] = l3 * 32 + h2 /\ b[3] = l2 * 32 + h1
      /\ b[4] = l1 * 32 + h0 /\ b[5] = l0 * 32 + sh /\ b[6] = sm
      /\ b[7] = sl * 64 + ch /\ b[8] = cl * 4 + ack
  BY <1>3, <1>4, <1>5
<1>9. /\ (1 * 32 + h3) \div 32 = 1 /\ (1 * 32 + h3) % 32 = h3
      /\ (l3 * 32 + h2) \div 32 = l3 /\ (l3 * 32 + h2) % 32 = h2
      /\ (l2 * 32 + h1) \div 32 = l2 /\ (l2 * 32 + h1) % 32 = h1
  BY <1>4, <1>5, ThreeFive
<1>10. /\ (l1 * 32 + h0) \div 32 = l1 /\ (l1 * 32 + h0) % 32 = h0
       /\ (l0 * 32 + sh) \div 32 = l0 /\ (l0 * 32 + sh) % 32 = sh
  BY <1>4, <1>6, ThreeFive
<1>11. /\ (sl * 64 + ch) \div 64 = sl /\ (sl * 64 + ch) % 64 = ch
       /\ (cl * 4 + ack) \div 4 = cl /\ (cl * 4 + ack) % 4 = ack
  BY <1>2, <1>6, <1>7, TwoSix
<1>12. /\ b[1] \div 32 = 1
       /\ (b[4] % 32) * 8 + b[5] \div 32 = p0 /\ (b[3] % 32) * 8 + b[4] \div 32 = p1
       /\ (b[2] % 32) * 8 + b[3] \div 32 = p2 /\ (b[1] % 32) * 8 + b[2] \div 32 = p3
  BY <1>4, <1>5, <1>8, <1>9, <1>10
<1>13. /\ (b[5] % 32) * 1024 + b[6] * 4 + b[7] \div 64 = spd
       /\ (b[7] % 64) * 64 + b[8] \div 4 = cur /\ b[8] % 4 = ack
  BY <1>6, <1>7, <1>8, <1>10, <1>11
<1> QED BY <1>8, <1>12, <1>13 DEF spd, cur, ack, p0, p1, p2, p3

LEMMA PositionStep ==
  ASSUME NEW r \in PositionRequests, SetMotorPosition(r)
  PROVE  RequestsArrive'
<1> DEFINE b == PositionBytes(r)
<1>1. r.pos \in Float4 /\ r.ack \in Nat
  BY PositionTypes, PositionFloat
<1>2. CASE r.ack > 3
  BY <1>2, RefusedArrives DEF SetMotorPosition
<1>3. CASE r.ack <= 3
  <2>1. Fill([fn |-> "pos", r |-> r], b)
    BY <1>1, <1>3 DEF SetMotorPosition
  <2>2. /\ Len(b) = 8
        /\ b[1] \div 32 = 1
        /\ (b[4] % 32) * 8 + b[5] \div 32 = r.pos[0]
        /\ (b[3] % 32) * 8 + b[4] \div 32 = r.pos[1]
        /\ (b[2] % 32) * 8 + b[3] \div 32 = r.pos[2]
        /\ (b[1] % 32) * 8 + b[2] \div 32 = r.pos[3]
        /\ (b[5] % 32) * 1024 + b[6] * 4 + b[7] \div 64 = r.spd
        /\ (b[7] % 64) * 64 + b[8] \div 4 = r.cur
        /\ b[8] % 4 = r.ack
    BY <1>3, PositionSplit, ZenonT(30)
  <2> HIDE DEF b
  <2>3. /\ asked' = [fn |-> "pos", r |-> r] /\ refused' = FALSE /\ dlc' = 8
        /\ \A i \in 1..8 : data'[i] = b[i]
    BY <2>1, <2>2 DEF Fill
  <2>4. Mode' = 1 /\ PosSpdField' = r.spd /\ PosCurField' = r.cur /\ data'[8] % 4 = r.ack
    BY <2>2, <2>3 DEF Mode, PosSpdField, PosCurField
  <2>5. FloatField' = r.pos
    <3>1. /\ FloatField'[0] = r.pos[0] /\ FloatField'[1] = r.pos[1]
          /\ FloatField'[2] = r.pos[2] /\ FloatField'[3] = r.pos[3]
      BY <2>2, <2>3 DEF FloatField
    <3>2. \A i \in 0..3 : FloatField'[i] = r.pos[i]
      BY <3>1
    <3> QED BY <1>1, <3>2 DEF FloatField, Float4
  <2> QED BY <2>3, <2>4, <2>5
          DEF RequestsArrive, PositionArrives, CurrentArrives, SettingArrives, LengthOfMode
<1> QED BY <1>1, <1>2, <1>3

LEMMA SpeedStep ==
  ASSUME NEW r \in SpeedRequests, SetMotorSpeed(r)
  PROVE  RequestsArrive'
<1> DEFINE b == SpeedBytes(r)
           cur == r.cur
           high == cur \div 256
           low  == cur % 256
<1>1. cur \in Nat /\ r.ack \in 0..3
  BY SpeedTypes
<1>2. b = <<64 + r.ack, r.spd[3], r.spd[2], r.spd[1], r.spd[0], high, low>>
  BY DEF SpeedBytes
<1>3. Fill([fn |-> "spd", r |-> r], b)
  BY DEF SetMotorSpeed
<1> HIDE DEF b, cur
<1>4. high * 256 + low = cur
  BY <1>1, Cut
<1> HIDE DEF high, low
<1>5. /\ Len(b) = 7 /\ b[1] = 64 + r.ack /\ b[2] = r.spd[3] /\ b[3] = r.spd[2]
      /\ b[4] = r.spd[1] /\ b[5] = r.spd[0] /\ b[6] = high /\ b[7] = low
  BY <1>2
<1>6. /\ asked' = [fn |-> "spd", r |-> r] /\ refused' = FALSE /\ dlc' = 7
      /\ \A i \in 1..7 : data'[i] = b[i]
  BY <1>3, <1>5 DEF Fill
<1>7. Mode' = 2
  <2>1. data'[1] = 2 * 32 + r.ack
    BY <1>1, <1>5, <1>6
  <2> QED BY <1>1, <2>1, ModeBits DEF Mode
<1>8. \A i \in 0..3 : data'[5 - i] = r.spd[i]
  <2>1. data'[5] = r.spd[0] /\ data'[4] = r.spd[1] /\ data'[3] = r.spd[2] /\ data'[2] = r.spd[3]
    BY <1>5, <1>6
  <2> QED BY <2>1
<1>9. data'[6] * 256 + data'[7] = r.cur /\ data'[1] = 64 + r.ack
  BY <1>4, <1>5, <1>6 DEF cur
<1> QED BY <1>6, <1>7, <1>8, <1>9
        DEF RequestsArrive, PositionArrives, CurrentArrives, SettingArrives, LengthOfMode

LEMMA CurTorStep ==
  ASSUME NEW r \in CurTorRequests, SetMotorCurTor(r)
  PROVE  RequestsArrive'
<1>1. r.cur \in Int /\ r.ctrl \in Nat /\ r.ack \in Nat
  BY CurTorTypes
<1>2. CASE r.ack > 3 \/ r.ctrl > 7
  BY <1>2, RefusedArrives DEF SetMotorCurTor
<1>3. CASE r.ack <= 3 /\ r.ctrl <= 7
  <2> DEFINE b == CurTorBytes(r)
             c == LimitedCurrent(r)
             limit == IF r.ctrl = 0 THEN 2000 ELSE 3000
             high == (c \div 256) % 256
             low  == c % 256
  <2>1. /\ r.ack \in 0..3 /\ r.ctrl \in 0..7
        /\ c \in Int /\ -3000 <= c /\ c <= 3000 /\ -limit <= c /\ c <= limit
        /\ r.cur \in -limit..limit => c = r.cur
        /\ r.cur < 0 => c < 0
    BY <1>1, <1>3 DEF LimitedCurrent, Clamp
  <2>2. Fill([fn |-> "cur", r |-> r], b)
    BY <1>1, <1>3 DEF SetMotorCurTor
  <2>3. b = <<96 + r.ctrl * 4 + r.ack, high, low>>
    BY DEF CurTorBytes
  <2> HIDE DEF b, c
  <2>4. Signed16(high * 256 + low) = c
    BY <2>1, SignedBytes
  <2> HIDE DEF high, low
  <2>5. Len(b) = 3 /\ b[1] = 96 + r.ctrl * 4 + r.ack /\ b[2] = high /\ b[3] = low
    BY <2>3
  <2>6. /\ asked' = [fn |-> "cur", r |-> r] /\ refused' = FALSE /\ dlc' = 3
        /\ \A i \in 1..3 : data'[i] = b[i]
    BY <2>2, <2>5 DEF Fill
  <2>7. /\ (96 + r.ctrl * 4 + r.ack) \div 32 = 3
        /\ ((96 + r.ctrl * 4 + r.ack) \div 4) % 8 = r.ctrl
        /\ (96 + r.ctrl * 4 + r.ack) % 4 = r.ack
    BY <2>1, CurTorBits
  <2>8. /\ Mode' = 3 /\ (data'[1] \div 4) % 8 = r.ctrl /\ data'[1] % 4 = r.ack
        /\ Signed16(data'[2] * 256 + data'[3]) = c
    BY <2>4, <2>5, <2>6, <2>7 DEF Mode
  <2>9. c \in -limit..limit
    BY <2>1
  <2>10. CurrentArrives'
    BY <2>1, <2>6, <2>8, <2>9 DEF CurrentArrives
  <2> QED BY <2>6, <2>8, <2>10
          DEF RequestsArrive, PositionArrives, SettingArrives, LengthOfMode
<1> QED BY <1>1, <1>2, <1>3

(* A setting frame begins with mode 6 and the number of the setting.        *)
LEMMA SettingMode ==
  ASSUME NEW ack \in 0..2
  PROVE  (192 + ack) \div 32 = 6
BY SMT

(* A limited number is a number.                                            *)
LEMMA ClampNat ==
  ASSUME NEW x \in Nat
  PROVE  Clamp(x, 0, 2000) \in Nat /\ Clamp(x, 0, 10000) \in Nat
BY DEF Clamp

LEMMA AccStep ==
  ASSUME NEW r \in AccRequests, SetMotorAcceleration(r)
  PROVE  RequestsArrive'
<1>1. r.acc \in Nat /\ r.ack \in Nat
  BY AccTypes
<1>2. CASE r.ack > 2
  BY <1>2, RefusedArrives DEF SetMotorAcceleration
<1>3. CASE r.ack <= 2
  <2> DEFINE b == AccBytes(r)
             a == Clamp(r.acc, 0, 2000)
             high == a \div 256
             low  == a % 256
  <2>1. r.ack \in 0..2 /\ a \in Nat
    <3>1. r.ack \in 0..2
      BY <1>1, <1>3
    <3> QED BY <1>1, <3>1, ClampNat
  <2>2. Fill([fn |-> "acc", r |-> r], b)
    BY <1>1, <1>3 DEF SetMotorAcceleration
  <2>3. b = <<192 + r.ack, 1, high, low>>
    BY DEF AccBytes
  <2> HIDE DEF b, a
  <2>4. high * 256 + low = a
    BY <2>1, Cut
  <2> HIDE DEF high, low
  <2>5. Len(b) = 4 /\ b[1] = 192 + r.ack /\ b[2] = 1 /\ b[3] = high /\ b[4] = low
    BY <2>3
  <2>6. /\ asked' = [fn |-> "acc", r |-> r] /\ refused' = FALSE /\ dlc' = 4
        /\ \A i \in 1..4 : data'[i] = b[i]
    BY <2>2, <2>5 DEF Fill
  <2>7. Mode' = 6 /\ data'[2] = 1
    BY <2>1, <2>5, <2>6, SettingMode DEF Mode
  <2>8. data'[3] * 256 + data'[4] = Clamp(r.acc, 0, 2000)
    BY <2>4, <2>5, <2>6 DEF a
  <2> QED BY <2>6, <2>7, <2>8
          DEF RequestsArrive, PositionArrives, CurrentArrives, SettingArrives, LengthOfMode
<1> QED BY <1>1, <1>2, <1>3

LEMMA PairStep ==
  ASSUME NEW r \in PairRequests, SetMotorPair(r)
  PROVE  RequestsArrive'
<1>1. r.code \in {2, 3} /\ r.first \in Nat /\ r.second \in Nat /\ r.ack \in Nat
  BY PairTypes
<1>2. CASE r.ack > 2
  BY <1>2, RefusedArrives DEF SetMotorPair
<1>3. CASE r.ack <= 2
  <2> DEFINE b  == PairBytes(r)
             x  == Clamp(r.first, 0, 10000)
             y  == Clamp(r.second, 0, 10000)
             xh == x \div 256
             xl == x % 256
             yh == y \div 256
             yl == y % 256
  <2>1. r.ack \in 0..2 /\ x \in Nat /\ y \in Nat
    <3>1. r.ack \in 0..2
      BY <1>1, <1>3
    <3> QED BY <1>1, <3>1, ClampNat
  <2>2. Fill([fn |-> "pair", r |-> r], b)
    BY <1>1, <1>3 DEF SetMotorPair
  <2>3. b = <<192 + r.ack, r.code, xh, xl, yh, yl>>
    BY DEF PairBytes
  <2> HIDE DEF b, x, y
  <2>4. xh * 256 + xl = x /\ yh * 256 + yl = y
    BY <2>1, Cut
  <2> HIDE DEF xh, xl, yh, yl
  <2>5. /\ Len(b) = 6 /\ b[1] = 192 + r.ack /\ b[2] = r.code
        /\ b[3] = xh /\ b[4] = xl /\ b[5] = yh /\ b[6] = yl
    BY <2>3
  <2>6. /\ asked' = [fn |-> "pair", r |-> r] /\ refused' = FALSE /\ dlc' = 6
        /\ \A i \in 1..6 : data'[i] = b[i]
    BY <2>2, <2>5 DEF Fill
  <2>7. Mode' = 6 /\ data'[2] # 1
    BY <1>1, <2>1, <2>5, <2>6, SettingMode DEF Mode
  <2>8. /\ data'[3] * 256 + data'[4] = Clamp(r.first, 0, 10000)
        /\ data'[5] * 256 + data'[6] = Clamp(r.second, 0, 10000)
    BY <2>4, <2>5, <2>6 DEF x, y
  <2> QED BY <2>6, <2>7, <2>8
          DEF RequestsArrive, PositionArrives, CurrentArrives, SettingArrives, LengthOfMode
<1> QED BY <1>1, <1>2, <1>3

(* For every request, and whatever calls, refused ones too, the frame has   *)
(* seen before: the drive reads what was asked for, and length and mode are *)
(* of one call.                                                            *)
THEOREM RequestsCorrect == FramesSpec => []RequestsArrive
<1>1. FramesInit => RequestsArrive
  BY DEF FramesInit, RequestsArrive, PositionArrives, CurrentArrives, SettingArrives, LengthOfMode
<1>2. RequestsArrive /\ [FramesNext]_framesVars => RequestsArrive'
  <2> SUFFICES ASSUME RequestsArrive, [FramesNext]_framesVars PROVE RequestsArrive'
    OBVIOUS
  <2>1. ASSUME NEW r \in CtrlRequests, SendMotorCtrlCmd(r) PROVE RequestsArrive'
    <3>1. CtrlArrives' /\ asked'.fn = "ctrl"
      BY <2>1, CtrlStep DEF SendMotorCtrlCmd, Fill
    <3>2. Mode' = 0 /\ dlc' = 8
      BY <3>1 DEF CtrlArrives
    <3> QED BY <3>1, <3>2 DEF RequestsArrive, PositionArrives, CurrentArrives,
                              SettingArrives, LengthOfMode
  <2>2. CASE UNCHANGED framesVars
    BY <2>2 DEF framesVars, RequestsArrive, PositionArrives, CurrentArrives, SettingArrives,
                LengthOfMode, Mode, FloatField, PosSpdField, PosCurField
  <2> QED BY <2>1, <2>2, PositionStep, SpeedStep, CurTorStep, AccStep, PairStep DEF FramesNext
<1> QED BY <1>1, <1>2, PTL DEF FramesSpec

-----------------------------------------------------------------------------
(* Which frames the slaves carry (MotorBus).                               *)

(* Between the decoding of two slaves the table holds no angle.             *)
TableClear == \A m \in Motor : msg[m].angle = Zero

(* Commands about to be sent are those of this cycle, for their own joints. *)
CommandsOfCycle ==
  pc = "send" => \A l \in Leg, m \in Motor :
    cmd[l][m] = [leg |-> l, motor |-> m, at |-> cycle]

GapEmpty == \A l \in Leg, c \in Channel : ~Wired(c) => outputs[l][c] = Idle

LegsTogether ==
  \A l \in Leg \cap Slave : drives[l] = NoOutput \/ \E n \in 0..cycle : HoldsCycle(l, n)

(* What every slave has taken is the commands of the cycle before.         *)
LastTaken ==
  (\/ pc = "receive" /\ taken
   \/ pc \in {"decode", "control", "send"} /\ complete) =>
    \A l \in Leg \cap Slave : HoldsCycle(l, cycle - 1)

BInv ==
  /\ TypeOK /\ TableClear
  /\ AngleIsOwn /\ AngleBringsSpeed
  /\ CommandsOfCycle /\ GapEmpty /\ LegsTogether /\ LastTaken

-----------------------------------------------------------------------------
(* A measurement of a joint is a measurement.                              *)
LEMMA OwnMeasured ==
  ASSUME NEW l \in Leg, NEW m \in Motor
  PROVE  Own(l, m) \subseteq Measurement
BY DEF Measurement

(* What decoding a leg leaves in the table.                                *)
LEMMA RepackShape ==
  ASSUME TypeOK, TableClear, NEW l \in Leg
  PROVE  /\ Repack(l) \in [Motor -> Message]
         /\ \A m \in Motor :
              \/ Repack(l)[m].angle = Zero
              \/ /\ Repack(l)[m].angle \in Own(l, m)
                 /\ Repack(l)[m].speed = Repack(l)[m].angle
                 /\ Repack(l)[m].current = Repack(l)[m].angle
<1> SUFFICES ASSUME NEW m \in Motor
    PROVE  /\ Repack(l)[m] \in Message
           /\ \/ Repack(l)[m].angle = Zero
              \/ /\ Repack(l)[m].angle \in Own(l, m)
                 /\ Repack(l)[m].speed = Repack(l)[m].angle
                 /\ Repack(l)[m].current = Repack(l)[m].angle
  BY DEF Repack
<1> DEFINE sample == [leg |-> l, motor |-> m, at |-> inputs[l][m].at]
           kind   == inputs[l][m].kind
<1>1. sample \in Own(l, m) /\ sample \in Measurement
  BY OwnMeasured DEF TypeOK, Frame, Own
<1>2. msg[m] \in Message /\ msg[m].angle = Zero
  BY DEF TypeOK, TableClear
<1>3. Repack(l)[m] = IF ~Reached(inputs[l], m) THEN msg[m]
        ELSE IF kind = "state"
               THEN [angle |-> sample, speed |-> sample, current |-> sample]
        ELSE IF kind = "current" THEN [msg[m] EXCEPT !.current = sample]
        ELSE msg[m]
  BY DEF Repack
<1> HIDE DEF sample, kind
<1>4. QED
  BY <1>1, <1>2, <1>3 DEF Message

(* Clearing the angles keeps the type and clears the table.                 *)
LEMMA ClearShape ==
  ASSUME NEW table \in [Motor -> Message]
  PROVE  /\ ClearAngles(table) \in [Motor -> Message]
         /\ \A m \in Motor : ClearAngles(table)[m].angle = Zero
BY DEF ClearAngles, Message, Measurement

(* The loop over the slaves keeps its counter in range.                     *)
LEMMA NextSlaveInRange ==
  ASSUME TypeOK, NextSlave
  PROVE  slave' \in Slave /\ pc' \in {"decode", "control"}
BY BusAssumption DEF TypeOK, NextSlave, Slave

(* The channel of a motor carries that motor.                               *)
LEMMA ChannelsMatch ==
  ASSUME NEW m \in Motor
  PROVE  /\ ChannelOf(m) \in Channel /\ Wired(ChannelOf(m))
         /\ MotorAt(ChannelOf(m)) = m
BY BusAssumption DEF Motor, Channel, ChannelOf, MotorAt, Wired

-----------------------------------------------------------------------------
(* A step that touches neither the drives nor the cycle.                    *)
LEMMA DrivesKept ==
  ASSUME LegsTogether, LastTaken, UNCHANGED <<drives, cycle>>,
         pc' \in {"decode", "control", "send"} /\ complete' =>
           \/ pc = "receive" /\ taken
           \/ pc \in {"decode", "control", "send"} /\ complete,
         pc' # "receive"
  PROVE  LegsTogether' /\ LastTaken'
<1>1. \A l, n : HoldsCycle(l, n)' = HoldsCycle(l, n)
  BY DEF HoldsCycle
<1> QED BY <1>1 DEF LegsTogether, LastTaken

LEMMA SendKeepsTogether ==
  ASSUME BInv, Send PROVE LegsTogether' /\ LastTaken'
<1> USE DEF BInv
<1>1. PICK reached \in SUBSET Slave :
        /\ drives' = [l \in Leg |-> IF l \in reached THEN outputs'[l] ELSE drives[l]]
        /\ taken' = (reached = Slave)
  BY DEF Send
<1>2. pc = "send" /\ cycle \in Nat /\ cycle' \in Nat /\ cycle <= cycle'
      /\ (pc' = "receive" => cycle' = cycle + 1) /\ pc' \in {"receive", "end"}
  BY BusAssumption DEF Send, TypeOK
<1>3. ASSUME NEW n \in Nat, n = cycle, NEW l \in reached \cap Leg
      PROVE  HoldsCycle(l, n)'
  <2>1. l \in Leg /\ l \in Slave /\ drives'[l] = Pack(l)
    BY <1>1, <1>3 DEF Send, HandOver
  <2> SUFFICES ASSUME NEW c \in Channel
      PROVE  \/ \E m \in Motor : c = ChannelOf(m) /\ Pack(l)[c] = [leg |-> l, motor |-> m, at |-> n]
             \/ (\A m \in Motor : c # ChannelOf(m)) /\ Pack(l)[c] = Idle
    BY <2>1 DEF HoldsCycle
  <2>2. CASE Wired(c)
    <3>1. MotorAt(c) \in Motor /\ c = ChannelOf(MotorAt(c))
      BY <2>2, BusAssumption DEF Wired, MotorAt, ChannelOf, Channel, Motor
    <3>2. Pack(l)[c] = [leg |-> l, motor |-> MotorAt(c), at |-> n]
      BY <1>2, <1>3, <2>1, <2>2, <3>1 DEF Pack, CommandsOfCycle
    <3> QED BY <3>1, <3>2
  <2>3. CASE ~Wired(c)
    <3>1. \A m \in Motor : c # ChannelOf(m)
      BY <2>3, ChannelsMatch
    <3>2. Pack(l)[c] = Idle
      BY <2>1, <2>3 DEF Pack, GapEmpty
    <3> QED BY <3>1, <3>2
  <2> QED BY <2>2, <2>3
<1>4. ASSUME NEW l \in Leg \cap Slave
      PROVE  drives'[l] = NoOutput \/ \E n \in 0..cycle' : HoldsCycle(l, n)'
  <2>1. CASE l \in reached
    <3>1. PICK n \in 0..cycle' : n = cycle /\ n \in Nat
      BY <1>2
    <3>2. HoldsCycle(l, n)'
      BY <1>3, <2>1, <3>1
    <3> QED BY <3>1, <3>2
  <2>2. CASE l \notin reached
    <3>1. drives'[l] = drives[l]
      BY <1>1, <2>2
    <3>2. \A n : HoldsCycle(l, n)' = HoldsCycle(l, n)
      BY <3>1 DEF HoldsCycle
    <3>3. \A n \in 0..cycle : n \in 0..cycle'
      BY <1>2
    <3> QED BY <3>1, <3>2, <3>3 DEF LegsTogether
  <2> QED BY <2>1, <2>2
<1>5. LastTaken'
  <2> SUFFICES ASSUME pc' = "receive", taken', NEW l \in Leg \cap Slave
               PROVE  HoldsCycle(l, cycle - 1)'
    BY <1>2 DEF LastTaken
  <2>1. l \in reached \cap Leg
    BY <1>1
  <2>2. PICK n \in Nat : n = cycle /\ n = cycle' - 1
    BY <1>2
  <2>3. HoldsCycle(l, n)'
    BY <1>3, <2>1, <2>2
  <2> QED BY <2>2, <2>3 DEF HoldsCycle
<1> QED BY <1>4, <1>5 DEF LegsTogether

LEMMA Inductive == Spec => []BInv
<1>1. Init => BInv
  <2> SUFFICES ASSUME Init PROVE BInv
    OBVIOUS
  <2>1. AllZero \in Message /\ Zero \in Measurement /\ 0 \in Slave
    BY BusAssumption DEF AllZero, Message, Measurement, Slave
  <2>2. TypeOK
    <3>1. inputs \in [Leg -> [Motor -> Frame]]
      BY BusAssumption DEF Init, NoFrames, Frame, Kind
    <3>2. /\ msg \in [Motor -> Message]
          /\ recv \in [Leg -> [Motor -> Message]]
      BY <2>1 DEF Init
    <3>3. cmd \in [Leg -> [Motor -> Command]]
      BY BusAssumption DEF Init, Command
    <3>4. outputs \in [Leg -> [Channel -> Command]]
      BY DEF Init, NoOutput, Command
    <3>5. 0 \in 0..MaxCycle
      BY BusAssumption
    <3>6. QED
      BY <2>1, <3>1, <3>2, <3>3, <3>4, <3>5 DEF Init, TypeOK, NoOutput, Command
  <2>3. QED
    BY <2>2 DEF Init, BInv, TableClear, AngleIsOwn, AngleBringsSpeed, AllZero,
                CommandsOfCycle, GapEmpty, LegsTogether, LastTaken, NoOutput
<1>2. BInv /\ [Next]_vars => BInv'
  <2> SUFFICES ASSUME BInv, [Next]_vars PROVE BInv'
    OBVIOUS
  <2> USE DEF BInv
  <2>1. CASE Receive
    <3>1. TypeOK'
      <4>1. inputs' \in [Leg -> [Motor -> Frame]]
        BY <2>1 DEF Receive, TypeOK, Frame
      <4>2. QED
        BY <2>1, <4>1, BusAssumption DEF Receive, TypeOK, Slave, busVars
    <3>2. pc = "receive" /\ pc' = "decode" /\ UNCHANGED <<drives, cycle>>
          /\ (complete' => taken)
      BY <2>1 DEF Receive, busVars
    <3>3. LegsTogether' /\ LastTaken'
      BY <3>2, DrivesKept
    <3>4. QED
      BY <2>1, <3>1, <3>3 DEF Receive, TableClear, AngleIsOwn, AngleBringsSpeed,
                              CommandsOfCycle, GapEmpty
  <2>2. CASE DecodeLeg
    <3>1. slave \in Leg /\ recv' = [recv EXCEPT ![slave] = Repack(slave)]
          /\ msg' = ClearAngles(Repack(slave))
      BY <2>2 DEF DecodeLeg
    <3>2. msg' \in [Motor -> Message] /\ TableClear'
      BY <3>1, RepackShape, ClearShape DEF TableClear
    <3>3. recv' \in [Leg -> [Motor -> Message]]
      BY <3>1, RepackShape DEF TypeOK
    <3>4. TypeOK'
      BY <2>2, <3>2, <3>3, NextSlaveInRange DEF DecodeLeg, TypeOK, busVars
    <3>5. AngleIsOwn' /\ AngleBringsSpeed'
      BY <3>1, RepackShape DEF AngleIsOwn, AngleBringsSpeed, TypeOK
    <3>6. LegsTogether' /\ LastTaken'
      BY <2>2, NextSlaveInRange, DrivesKept DEF DecodeLeg, busVars
    <3>7. QED
      BY <2>2, <3>2, <3>4, <3>5, <3>6, NextSlaveInRange
         DEF DecodeLeg, CommandsOfCycle, GapEmpty
  <2>3. CASE DecodeImu
    <3>1. msg' \in [Motor -> Message] /\ TableClear'
      BY <2>3, ClearShape DEF DecodeImu, TypeOK, TableClear
    <3>2. TypeOK'
      BY <2>3, <3>1, NextSlaveInRange DEF DecodeImu, TypeOK, busVars
    <3>3. LegsTogether' /\ LastTaken'
      BY <2>3, NextSlaveInRange, DrivesKept DEF DecodeImu, busVars
    <3>4. QED
      BY <2>3, <3>1, <3>2, <3>3, NextSlaveInRange
         DEF DecodeImu, AngleIsOwn, AngleBringsSpeed, CommandsOfCycle, GapEmpty
  <2>4. CASE Control
    <3>1. TypeOK'
      BY <2>4 DEF Control, TypeOK, Command, busVars
    <3>2. CommandsOfCycle'
      BY <2>4 DEF Control, CommandsOfCycle
    <3>3. LegsTogether' /\ LastTaken'
      BY <2>4, DrivesKept DEF Control, busVars
    <3>4. QED
      BY <2>4, <3>1, <3>2, <3>3
         DEF Control, TableClear, AngleIsOwn, AngleBringsSpeed, GapEmpty
  <2>5. CASE Send
    <3>1. \A l \in Leg : Pack(l) \in [Channel -> Command]
      BY DEF Pack, TypeOK, Wired
    <3>2. outputs' \in [Leg -> [Channel -> Command]]
      BY <2>5, <3>1 DEF Send, HandOver, TypeOK
    <3>3. drives' \in [Leg -> [Channel -> Command]] /\ taken' \in BOOLEAN
      BY <2>5, <3>2 DEF Send, TypeOK
    <3>4. TypeOK'
      BY <2>5, <3>2, <3>3, BusAssumption DEF Send, TypeOK
    <3>5. GapEmpty'
      BY <2>5 DEF Send, HandOver, Pack, GapEmpty
    <3>6. pc' # "send"
      BY <2>5 DEF Send
    <3>7. QED
      BY <2>5, <3>4, <3>5, <3>6, SendKeepsTogether
         DEF Send, TableClear, AngleIsOwn, AngleBringsSpeed, CommandsOfCycle
  <2>6. CASE Ended \/ UNCHANGED vars
    <3>1. \A l, n : HoldsCycle(l, n)' = HoldsCycle(l, n)
      BY <2>6 DEF Ended, vars, busVars, HoldsCycle
    <3>2. QED
      BY <2>6, <3>1 DEF Ended, vars, busVars, TypeOK, TableClear, AngleIsOwn, AngleBringsSpeed,
                        CommandsOfCycle, GapEmpty, LegsTogether, LastTaken
  <2>7. QED
    BY <2>1, <2>2, <2>3, <2>4, <2>5, <2>6 DEF Next
<1>3. QED
  BY <1>1, <1>2, PTL DEF Spec

(* The decoding loop stays within the slaves and motors that exist, and what *)
(* it stores are measurements.                                             *)
THEOREM BusTypeCorrect == Spec => []TypeOK
<1>1. BInv => TypeOK
  BY DEF BInv
<1>2. QED
  BY <1>1, Inductive, PTL

(* No leg is ever given an angle of the other leg.                          *)
THEOREM AngleCorrect == Spec => []AngleIsOwn
<1>1. BInv => AngleIsOwn
  BY DEF BInv
<1>2. QED
  BY <1>1, Inductive, PTL

(* An angle comes with the speed and the current of the same frame.         *)
THEOREM FrameCorrect == Spec => []AngleBringsSpeed
<1>1. BInv => AngleBringsSpeed
  BY DEF BInv
<1>2. QED
  BY <1>1, Inductive, PTL

(* Whatever datagrams are lost, the drives of a leg hold commands of their  *)
(* own joints and of one cycle, and after a complete cycle the last ones.   *)
THEOREM ChannelsCorrect == Spec => []CommandsTogether
<1>1. BInv => CommandsTogether
  BY DEF BInv, LegsTogether, LastTaken, CommandsTogether
<1>2. QED
  BY <1>1, Inductive, PTL

-----------------------------------------------------------------------------
(* The loop of EtherCAT_Get_State is through with a slave.                  *)
Done(s) == pc # "decode" \/ s < slave

AllStates(l) == \A m \in Motor : inputs[l][m].kind = "state"

OfThisCycle(l) ==
  \A m \in Motor :
    LET sample == [leg |-> l, motor |-> m, at |-> cycle]
    IN recv[l][m] = [angle |-> sample, speed |-> sample, current |-> sample]

(* When every slave has answered: the image, and what has been decoded.     *)
FreshInv ==
  pc \in {"decode", "control", "send"} /\ complete =>
    /\ \A l \in Leg \cap Slave : \A m \in Motor : inputs[l][m].at = cycle
    /\ \A l \in Leg \cap Slave : Done(l) /\ AllStates(l) => OfThisCycle(l)
    /\ Imu \in Slave => imuInput = cycle /\ (Done(Imu) => imu = cycle)

(* When a slave is decoded, the others stay done or not done.               *)
LEMMA NextDone ==
  ASSUME TypeOK, pc = "decode", NextSlave, NEW s \in Slave, s # slave, Done(s)'
  PROVE  Done(s)
BY BusAssumption DEF TypeOK, NextSlave, Done, Slave

(* Six state frames of a cycle give the measurements of that cycle.         *)
LEMMA RepackFresh ==
  ASSUME TypeOK, NEW l \in Leg, AllStates(l), NEW m \in Motor, inputs[l][m].at = cycle
  PROVE  LET sample == [leg |-> l, motor |-> m, at |-> cycle]
         IN Repack(l)[m] = [angle |-> sample, speed |-> sample, current |-> sample]
<1>1. \A k \in 1..m : k \in Motor
  BY BusAssumption DEF Motor
<1>2. Reached(inputs[l], m)
  BY <1>1 DEF Reached, AllStates
<1> QED BY <1>2 DEF Repack, AllStates

LEMMA FreshStep ==
  ASSUME BInv, FreshInv, [Next]_vars PROVE FreshInv'
<1> USE DEF FreshInv
<1>0. TypeOK
  BY DEF BInv
<1>1. CASE Receive
  <2> SUFFICES ASSUME complete' PROVE FreshInv'
    OBVIOUS
  <2>1. /\ \A l \in Leg \cap Slave : \A m \in Motor : inputs'[l][m].at = cycle
        /\ Imu \in Slave => imuInput' = cycle
    <3>1. PICK answered \in SUBSET Slave :
            /\ \E kinds \in [answered \cap Leg -> [Motor -> Kind]] :
                 inputs' = [l \in Leg |->
                   IF l \in answered
                     THEN [m \in Motor |-> [kind |-> kinds[l][m], at |-> cycle]]
                     ELSE inputs[l]]
            /\ imuInput' = IF Imu \in answered THEN cycle ELSE imuInput
            /\ complete' = (taken /\ answered = Slave)
      BY <1>1 DEF Receive
    <3>2. answered = Slave
      BY <3>1
    <3>3. PICK kinds : inputs' = [l \in Leg |->
                         IF l \in answered
                           THEN [m \in Motor |-> [kind |-> kinds[l][m], at |-> cycle]]
                           ELSE inputs[l]]
      BY <3>1
    <3>4. \A l \in Leg \cap Slave : \A m \in Motor : inputs'[l][m].at = cycle
      BY <3>2, <3>3
    <3> QED BY <3>1, <3>2, <3>4
  <2>2. pc' = "decode" /\ slave' = 0 /\ cycle' = cycle
    BY <1>1 DEF Receive
  <2>3. \A s \in Slave : ~Done(s)'
    BY <2>2, BusAssumption DEF Done, Slave
  <2> QED BY <2>1, <2>2, <2>3
<1>2. CASE DecodeLeg
  <2>1. /\ pc = "decode" /\ slave \in Leg /\ NextSlave
        /\ recv' = [recv EXCEPT ![slave] = Repack(slave)]
        /\ UNCHANGED <<cycle, inputs, imuInput, complete, imu>>
    BY <1>2 DEF DecodeLeg
  <2> SUFFICES ASSUME complete PROVE FreshInv'
    BY <2>1
  <2>2. ASSUME NEW l \in Leg \cap Slave, Done(l)', AllStates(l)
        PROVE  OfThisCycle(l)'
    <3>1. CASE l = slave
      <4>1. \A m \in Motor : recv'[l][m] = Repack(l)[m] /\ inputs[l][m].at = cycle
        BY <1>0, <2>1, <3>1 DEF TypeOK
      <4>2. ASSUME NEW m \in Motor
            PROVE  LET sample == [leg |-> l, motor |-> m, at |-> cycle]
                   IN recv'[l][m] = [angle |-> sample, speed |-> sample, current |-> sample]
        BY <1>0, <2>2, <4>1, RepackFresh
      <4> QED BY <2>1, <4>2 DEF OfThisCycle
    <3>2. CASE l # slave
      <4>1. Done(l)
        BY <1>0, <2>1, <2>2, <3>2, NextDone
      <4>2. recv'[l] = recv[l]
        BY <1>0, <2>1, <3>2 DEF TypeOK
      <4> QED BY <2>1, <2>2, <4>1, <4>2 DEF OfThisCycle
    <3> QED BY <3>1, <3>2
  <2>3. Imu \in Slave /\ Done(Imu)' => Done(Imu)
    BY <1>0, <2>1, NextDone DEF Imu, Leg
  <2> QED BY <2>1, <2>2, <2>3 DEF AllStates
<1>3. CASE DecodeImu
  <2>1. /\ pc = "decode" /\ slave = Imu /\ NextSlave /\ imu' = imuInput
        /\ UNCHANGED <<cycle, inputs, imuInput, complete, recv>>
    BY <1>3 DEF DecodeImu
  <2>2. \A l \in Leg \cap Slave : Done(l)' => Done(l)
    BY <1>0, <2>1, NextDone DEF Imu, Leg
  <2> QED BY <2>1, <2>2 DEF AllStates, OfThisCycle
<1>4. CASE Control
  BY <1>4 DEF Control, Done, AllStates, OfThisCycle
<1>5. CASE Send
  BY <1>5 DEF Send
<1>6. CASE Ended \/ UNCHANGED vars
  BY <1>6 DEF Ended, vars, Done, AllStates, OfThisCycle
<1> QED BY <1>1, <1>2, <1>3, <1>4, <1>5, <1>6 DEF Next

(* In a cycle in which every slave answered and every motor sent its state, *)
(* the controller is given the measurements of this very cycle, and the     *)
(* IMU's with them.                                                        *)
THEOREM FreshCorrect == Spec => []CompleteIsFresh
<1>1. Init => FreshInv
  BY DEF Init, FreshInv
<1>2. BInv /\ FreshInv => CompleteIsFresh
  BY DEF FreshInv, CompleteIsFresh, Done, AllStates, OfThisCycle
<1> QED BY <1>1, <1>2, FreshStep, Inductive, PTL DEF Spec
==============================================================================
