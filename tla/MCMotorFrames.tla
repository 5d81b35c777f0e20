---------------------------- MODULE MCMotorFrames ----------------------------
(***************************************************************************)
(* Requests for MotorFrames: values at and around the limits of the ranges  *)
(* and the bit boundaries of the fields, one field varied at a time while   *)
(* the others are all low or all high.                                     *)
(***************************************************************************)
EXTENDS MotorFrames

Low  == [id |-> 1, kp |-> -1, kd |-> 0, pos |-> -126, spd |-> -180, tor |-> -300]
High == [id |-> 3, kp |-> 5001, kd |-> 500, pos |-> 125, spd |-> 181, tor |-> 900]

Ctrl ==
  UNION {
    {[b EXCEPT !.kp = x]  : x \in {-1, 0, 1, 155, 156, 157, 2500, 4999, 5001}}
    \cup {[b EXCEPT !.kd = x]  : x \in {-1, 0, 1, 24, 25, 26, 49, 50, 51, 60}}
    \cup {[b EXCEPT !.pos = x] : x \in {-126, -125, -1, 0, 1, 124, 126}}
    \cup {[b EXCEPT !.spd = x] : x \in {-181, -180, -1, 0, 1, 179, 181}}
    \cup {[b EXCEPT !.tor = x, !.id = i] :
            x \in {-901, -900, -301, -1, 0, 1, 299, 300, 301, 899, 901},
            i \in {2, 4}}
    : b \in {Low, High}}

(* Bytes of 1.0, -1.0, the largest number, and all bits alternating.         *)
Floats ==
  {[i \in 0..3 |-> <<0, 0, 128, 63>>[i + 1]],
   [i \in 0..3 |-> <<0, 0, 128, 191>>[i + 1]],
   [i \in 0..3 |-> <<255, 255, 127, 127>>[i + 1]],
   [i \in 0..3 |-> <<85, 170, 85, 170>>[i + 1]]}

Position ==
  {[pos |-> f, spd |-> s, cur |-> c, ack |-> a] :
     f \in Floats, s \in {0, 3, 1023, 1024, 17999}, c \in {0, 63, 64, 3000},
     a \in {0, 3, 4}}

Speed ==
  {[spd |-> f, cur |-> c, ack |-> a] :
     f \in Floats, c \in {0, 255, 256, 3000}, a \in {0, 3}}

CurTor ==
  {[cur |-> c, ctrl |-> k, ack |-> a] :
     c \in {-32768, -3001, -3000, -2001, -2000, -257, -256, -1, 0, 1, 255,
            256, 2001, 3000, 3001, 32767},
     k \in {0, 1, 7, 8}, a \in {0, 3, 4}}

Acc == {[acc |-> c, ack |-> a] :
          c \in {0, 255, 256, 2000, 2001, 65535}, a \in {0, 2, 3}}

Pair == {[code |-> k, first |-> x, second |-> y, ack |-> a] :
           k \in {2, 3}, x \in {0, 256, 10000, 10001}, y \in {255, 65535},
           a \in {0, 2, 3}}

=============================================================================
