------------------------- MODULE GaitSchedule_proofs -------------------------
(***************************************************************************)
(* What the algorithms of GaitSchedule return, for schedules and templates *)
(* of any length and for every time.                                       *)
(***************************************************************************)
EXTENDS GaitSchedule, SequenceTheorems, WellFoundedInduction, TLAPS

(* Every nonempty set of natural numbers has a least element: what the     *)
(* arguments by the smallest counterexample below rest on.                 *)
LEMMA Least ==
  ASSUME NEW T \in SUBSET Nat, T # {}
  PROVE  \E x \in T : \A y \in T : x <= y
<1> DEFINE Less == OpToRel(<, Nat)
<1>1. IsWellFoundedOn(Less, Nat)
  BY NatLessThanWellFounded
<1> HIDE DEF Less
<1>2. PICK x \in T : \A y \in T : ~(<<y, x>> \in Less)
  BY <1>1, WFMin
<1>3. \A y \in T : y < x => <<y, x>> \in Less
  BY DEF Less, OpToRel
<1>4. ASSUME NEW y \in T PROVE x <= y
  <2>1. x \in Int /\ y \in Int
    OBVIOUS
  <2>2. ~(y < x)
    BY <1>2, <1>3, Zenon
  <2> QED BY <2>1, <2>2
<1> QED BY <1>4

(* Times that increase from each to the next increase altogether.          *)
Rises(s) == \A i \in 1..(Len(s) - 1) : s[i] < s[i + 1]

LEMMA RisesFar ==
  ASSUME NEW s \in Seq(Int), Rises(s), NEW i \in 1..Len(s), NEW j \in (i + 1)..Len(s)
  PROVE  s[i] < s[j]
<1> DEFINE T == {k \in (i + 1)..Len(s) : ~(s[i] < s[k])}
<1>1. SUFFICES ASSUME T # {} PROVE FALSE
  OBVIOUS
<1>2. Len(s) \in Nat /\ \A k \in 1..Len(s) : s[k] \in Int
  BY LenProperties, ElementOfSeq
<1>3. PICK k \in T : \A m \in T : k <= m
  <2>1. T \in SUBSET Nat
    BY <1>2
  <2> HIDE DEF T
  <2> QED BY <1>1, <2>1, Least
<1>4. k \in (i + 1)..Len(s) /\ ~(s[i] < s[k]) /\ k - 1 \notin T
  BY <1>2, <1>3
<1>5. s[k - 1] < s[(k - 1) + 1]
  BY <1>2, <1>4 DEF Rises
<1>6. k - 1 = i \/ s[i] < s[k - 1]
  BY <1>2, <1>4
<1> QED BY <1>2, <1>4, <1>5, <1>6

-----------------------------------------------------------------------------
(* std::lower_bound: its CHOOSE always has a value, and with rising times  *)
(* only one.                                                               *)
LEMMA LowerBoundIs ==
  ASSUME NEW s \in Seq(Int), NEW t \in Int
  PROVE  /\ LowerBound(s, t) \in 1..(Len(s) + 1)
         /\ \A k \in 1..(LowerBound(s, t) - 1) : s[k] < t
         /\ LowerBound(s, t) <= Len(s) => s[LowerBound(s, t)] >= t
<1> DEFINE T == {i \in 1..(Len(s) + 1) : i <= Len(s) => s[i] >= t}
<1>1. Len(s) \in Nat /\ \A k \in 1..Len(s) : s[k] \in Int
  BY LenProperties, ElementOfSeq
<1>2. Len(s) + 1 \in T /\ T \in SUBSET Nat
  BY <1>1
<1>3. PICK i \in T : \A k \in T : i <= k
  BY <1>2, Least
<1>4. /\ i \in 1..(Len(s) + 1)
      /\ \A k \in 1..(i - 1) : s[k] < t
      /\ i <= Len(s) => s[i] >= t
  <2>1. \A k \in 1..(i - 1) : k \notin T /\ k \in 1..Len(s)
    BY <1>1, <1>3
  <2> QED BY <1>1, <1>3, <2>1
<1> QED BY <1>4 DEF LowerBound

LEMMA LowerBoundOnly ==
  ASSUME NEW s \in Seq(Int), Rises(s), NEW t \in Int, NEW i \in 1..(Len(s) + 1),
         i > 1 => s[i - 1] < t, i <= Len(s) => s[i] >= t
  PROVE  LowerBound(s, t) = i
<1> DEFINE j == LowerBound(s, t)
<1>1. Len(s) \in Nat /\ \A k \in 1..Len(s) : s[k] \in Int
  BY LenProperties, ElementOfSeq
<1>2. /\ j \in 1..(Len(s) + 1) /\ \A k \in 1..(j - 1) : s[k] < t
      /\ j <= Len(s) => s[j] >= t
  BY LowerBoundIs
<1> HIDE DEF j
<1>3. ~(i < j)
  BY <1>1, <1>2
<1>4. ~(j < i)
  <2> SUFFICES ASSUME j < i PROVE FALSE
    OBVIOUS
  <2>1. i - 1 \in 1..Len(s) /\ j \in 1..Len(s) /\ s[i - 1] < t /\ s[j] >= t
    BY <1>1, <1>2
  <2>2. j = i - 1 \/ i - 1 \in (j + 1)..Len(s)
    BY <1>1, <2>1
  <2>3. j = i - 1 \/ s[j] < s[i - 1]
    BY <2>1, <2>2, RisesFar
  <2> QED BY <1>1, <2>1, <2>3
<1> QED BY <1>1, <1>2, <1>3, <1>4 DEF j

-----------------------------------------------------------------------------
(* Division with remainder, by what it is needed for.                      *)
LEMMA Divided ==
  ASSUME NEW k \in Nat \ {0}, NEW x \in Nat
  PROVE  x \div k \in Nat /\ x % k \in 0..(k - 1) /\ x = k * (x \div k) + (x % k)
<1>1. x \div k \in Int /\ x % k \in 0..(k - 1) /\ x = k * (x \div k) + (x % k)
  OBVIOUS
<1>2. ~(x \div k <= -1)
  <2> SUFFICES ASSUME x \div k <= -1 PROVE FALSE
    OBVIOUS
  <2>1. k * (x \div k) <= k * (-1)
    BY <1>1
  <2> QED BY <1>1, <2>1
<1> QED BY <1>1, <1>2

LEMMA DividedOnly ==
  ASSUME NEW k \in Nat \ {0}, NEW x \in Nat, NEW q \in Nat, NEW r \in 0..(k - 1),
         x = k * q + r
  PROVE  x \div k = q /\ x % k = r
<1> DEFINE d == x \div k
           m == x % k
<1>1. d \in Nat /\ m \in 0..(k - 1) /\ k * d + m = k * q + r
  BY Divided
<1> HIDE DEF d, m
<1>2. k * (d - q) = r - m
  BY <1>1
<1>3. ~(d - q >= 1)
  <2> SUFFICES ASSUME d - q >= 1 PROVE FALSE
    OBVIOUS
  <2>1. k * (d - q) >= k * 1
    BY <1>1
  <2> QED BY <1>1, <1>2, <2>1
<1>4. ~(q - d >= 1)
  <2> SUFFICES ASSUME q - d >= 1 PROVE FALSE
    OBVIOUS
  <2>1. k * (q - d) >= k * 1
    BY <1>1
  <2>2. k * (q - d) = m - r
    BY <1>1
  <2> QED BY <1>1, <2>1, <2>2
<1>5. d = q /\ m = r
  BY <1>1, <1>3, <1>4
<1> QED BY <1>5 DEF d, m

LEMMA DividedNext ==
  ASSUME NEW k \in Nat \ {0}, NEW x \in Nat
  PROVE  \/ x % k = k - 1 /\ (x + 1) \div k = x \div k + 1 /\ (x + 1) % k = 0
         \/ x % k < k - 1 /\ (x + 1) \div k = x \div k /\ (x + 1) % k = (x % k) + 1
<1> DEFINE d == x \div k
           m == x % k
<1>1. d \in Nat /\ m \in 0..(k - 1) /\ x = k * d + m
  BY Divided
<1> HIDE DEF d, m
<1>2. CASE m = k - 1
  <2>1. x + 1 = k * (d + 1) + 0
    BY <1>1, <1>2
  <2>2. (x + 1) \div k = d + 1 /\ (x + 1) % k = 0
    BY <1>1, <2>1, DividedOnly
  <2> QED BY <1>2, <2>2 DEF d, m
<1>3. CASE m < k - 1
  <2>1. x + 1 = k * d + (m + 1) /\ m + 1 \in 0..(k - 1)
    BY <1>1, <1>3
  <2>2. (x + 1) \div k = d /\ (x + 1) % k = m + 1
    BY <1>1, <2>1, DividedOnly
  <2> QED BY <1>3, <2>2 DEF d, m
<1> QED BY <1>1, <1>2, <1>3

-----------------------------------------------------------------------------
(* Tiling. The i-th event and mode it appends after the start time.        *)
Schedules == [events : Seq(Int), modes : Seq(Mode)]

TileEvent(tpl, start, i) ==
  start + ((i - 1) \div Len(tpl.modes)) * Period(tpl)
    + tpl.times[((i - 1) % Len(tpl.modes)) + 2] - tpl.times[1]

TileMode(tpl, i) == tpl.modes[((i - 1) % Len(tpl.modes)) + 1]

LEMMA TemplateIs ==
  ASSUME NEW tpl \in Templates
  PROVE  /\ tpl.times \in Seq(Int) /\ tpl.modes \in Seq(Mode)
         /\ Len(tpl.modes) \in Nat \ {0} /\ Len(tpl.times) = Len(tpl.modes) + 1
         /\ \A i \in 1..(Len(tpl.modes) + 1) : tpl.times[i] \in Int
         /\ \A i \in 1..Len(tpl.modes) : tpl.modes[i] \in Mode
         /\ \A i \in 1..Len(tpl.modes) : tpl.times[i] < tpl.times[i + 1]
         /\ Period(tpl) \in Nat \ {0} /\ tpl.times[Len(tpl.modes) + 1] = tpl.times[1] + Period(tpl)
<1>1. /\ tpl.times \in Seq(Int) /\ tpl.modes \in Seq(Mode)
      /\ Len(tpl.modes) > 0 /\ Len(tpl.times) = Len(tpl.modes) + 1
      /\ \A i \in 1..Len(tpl.modes) : tpl.times[i] < tpl.times[i + 1]
  BY DEF Templates
<1>2. /\ Len(tpl.modes) \in Nat \ {0}
      /\ \A i \in 1..(Len(tpl.modes) + 1) : tpl.times[i] \in Int
      /\ \A i \in 1..Len(tpl.modes) : tpl.modes[i] \in Mode
  BY <1>1, LenProperties, ElementOfSeq
<1>3. tpl.times[1] < tpl.times[Len(tpl.times)]
  <2>1. 1 \in 1..Len(tpl.times) /\ Len(tpl.times) \in (1 + 1)..Len(tpl.times)
    BY <1>1, <1>2
  <2>2. Rises(tpl.times)
    BY <1>1, <1>2 DEF Rises
  <2> QED BY <1>1, <2>1, <2>2, RisesFar
<1> QED BY <1>1, <1>2, <1>3, SMTT(30) DEF Period, Back

LEMMA TileEventIs ==
  ASSUME NEW tpl \in Templates, NEW start \in Int
  PROVE  /\ \A i \in Nat \ {0} : TileEvent(tpl, start, i) \in Int /\ TileMode(tpl, i) \in Mode
         /\ TileEvent(tpl, start, 1) > start
         /\ \A i \in Nat \ {0} : TileEvent(tpl, start, i) < TileEvent(tpl, start, i + 1)
         /\ \A q \in Nat \ {0} :
              TileEvent(tpl, start, q * Len(tpl.modes)) = start + q * Period(tpl)
<1> DEFINE k == Len(tpl.modes)
           T == tpl.times
           P == Period(tpl)
<1>1. /\ k \in Nat \ {0} /\ P \in Nat \ {0} /\ T[k + 1] = T[1] + P
      /\ \A i \in 1..(k + 1) : T[i] \in Int
      /\ \A i \in 1..k : T[i] < T[i + 1] /\ tpl.modes[i] \in Mode
  BY TemplateIs
<1>2. \A i : /\ TileEvent(tpl, start, i) = start + ((i - 1) \div k) * P + T[((i - 1) % k) + 2] - T[1]
             /\ TileMode(tpl, i) = tpl.modes[((i - 1) % k) + 1]
  BY DEF TileEvent, TileMode
<1> HIDE DEF k, P, T
<1>3. ASSUME NEW i \in Nat \ {0}
      PROVE  /\ TileEvent(tpl, start, i) \in Int /\ TileMode(tpl, i) \in Mode
             /\ TileEvent(tpl, start, i) < TileEvent(tpl, start, i + 1)
  <2> DEFINE d == (i - 1) \div k
             m == (i - 1) % k
  <2>1. d \in Nat /\ m \in 0..(k - 1) /\ d * P \in Int
    <3>1. i - 1 \in Nat
      OBVIOUS
    <3>2. d \in Nat /\ m \in 0..(k - 1)
      BY <1>1, <3>1, Divided
    <3> QED BY <1>1, <3>2
  <2>2. T[m + 2] \in Int /\ T[1] \in Int /\ m + 1 \in 1..k
    BY <1>1, <2>1
  <2>3. \/ m = k - 1 /\ i \div k = d + 1 /\ i % k = 0
        \/ m < k - 1 /\ i \div k = d /\ i % k = m + 1
    <3>1. i - 1 \in Nat /\ (i - 1) + 1 = i
      OBVIOUS
    <3> QED BY <1>1, <3>1, DividedNext
  <2>4. /\ TileEvent(tpl, start, i) = start + d * P + T[m + 2] - T[1]
        /\ TileMode(tpl, i) = tpl.modes[m + 1]
    BY <1>2
  <2>5. TileEvent(tpl, start, i + 1) = start + (i \div k) * P + T[(i % k) + 2] - T[1]
    <3>1. (i + 1) - 1 = i
      OBVIOUS
    <3> QED BY <1>2, <3>1
  <2> HIDE DEF d, m
  <2>6. CASE m = k - 1 /\ i \div k = d + 1 /\ i % k = 0
    <3>1. TileEvent(tpl, start, i) = start + d * P + P
      BY <1>1, <2>1, <2>2, <2>4, <2>6
    <3>2. TileEvent(tpl, start, i + 1) = start + (d * P + P) + T[2] - T[1]
      BY <1>1, <2>1, <2>5, <2>6
    <3>3. T[1] < T[2] /\ T[2] \in Int
      BY <1>1
    <3> QED BY <1>1, <2>1, <2>2, <2>4, <3>1, <3>2, <3>3
  <2>7. CASE m < k - 1 /\ i \div k = d /\ i % k = m + 1
    <3>1. TileEvent(tpl, start, i + 1) = start + d * P + T[m + 3] - T[1]
      BY <2>1, <2>5, <2>7
    <3>2. T[m + 2] < T[m + 3] /\ T[m + 3] \in Int
      BY <1>1, <2>1, <2>7
    <3> QED BY <1>1, <2>1, <2>2, <2>4, <3>1, <3>2
  <2> QED BY <2>3, <2>6, <2>7
<1>4. TileEvent(tpl, start, 1) > start
  <2>1. 0 \div k = 0 /\ 0 % k = 0
    BY <1>1, DividedOnly
  <2>2. TileEvent(tpl, start, 1) = start + 0 * P + T[0 + 2] - T[1]
    BY <1>2, <2>1
  <2>3. T[1] < T[2] /\ T[1] \in Int /\ T[2] \in Int
    BY <1>1
  <2> QED BY <1>1, <2>2, <2>3
<1>5. ASSUME NEW q \in Nat \ {0}
      PROVE  TileEvent(tpl, start, q * k) = start + q * P
  <2>1. q * k - 1 \in Nat /\ q * k - 1 = k * (q - 1) + (k - 1)
    BY <1>1
  <2>2. (q * k - 1) \div k = q - 1 /\ (q * k - 1) % k = k - 1
    <3>1. q - 1 \in Nat /\ k - 1 \in 0..(k - 1)
      BY <1>1
    <3> QED BY <1>1, <2>1, <3>1, DividedOnly
  <2>3. TileEvent(tpl, start, q * k) = start + (q - 1) * P + T[(k - 1) + 2] - T[1]
    BY <1>2, <2>2
  <2>4. T[(k - 1) + 2] = T[1] + P /\ T[1] \in Int /\ (q - 1) * P = q * P - P /\ q * P \in Int
    BY <1>1
  <2> QED BY <1>1, <2>3, <2>4
<1> QED BY <1>3, <1>4, <1>5 DEF k, P

(* The whole repetitions reach the final time, and no more than needed.    *)
LEMMA RepetitionsIs ==
  ASSUME NEW tpl \in Templates, NEW start \in Int, NEW final \in Int
  PROVE  /\ Repetitions(tpl, start, final) \in Nat
         /\ start + Repetitions(tpl, start, final) * Period(tpl) >= final
         /\ Repetitions(tpl, start, final) > 0 =>
              start + Repetitions(tpl, start, final) * Period(tpl) < final + Period(tpl)
<1> DEFINE P == Period(tpl)
           x == final - start + P - 1
<1>1. P \in Nat \ {0}
  BY TemplateIs
<1>2. CASE final <= start
  BY <1>1, <1>2 DEF Repetitions
<1>3. CASE final > start
  <2>1. x \in Nat
    BY <1>1, <1>3
  <2>2. Repetitions(tpl, start, final) = x \div P
    BY <1>3 DEF Repetitions
  <2>3. x \div P \in Nat /\ (x % P) \in 0..(P - 1) /\ x = P * (x \div P) + (x % P)
    BY <1>1, <2>1, Divided
  <2>4. PICK d \in Nat, m \in 0..(P - 1) :
          d = x \div P /\ final - start + P - 1 = P * d + m
    BY <2>3
  <2> HIDE DEF P, x
  <2>5. P * d = d * P /\ d * P \in Int
    BY <1>1
  <2>6. start + d * P >= final /\ start + d * P < final + P
    BY <1>1, <2>4, <2>5
  <2> QED BY <2>2, <2>4, <2>6 DEF P
<1> QED BY <1>2, <1>3

LEMMA IsSeq ==
  ASSUME NEW S, NEW n \in Nat, NEW f \in [1..n -> S]
  PROVE  f \in Seq(S) /\ Len(f) = n
<1>1. f \in Seq(S)
  BY SeqDef
<1> QED BY <1>1, LenProperties

Paired(s) == s \in Schedules /\ Len(s.modes) = Len(s.events) + 1

Tiled(tpl, start, final) == Repetitions(tpl, start, final) * Len(tpl.modes)

(* Whole templates only.                                                   *)
Multiples(tpl) == {q * Len(tpl.modes) : q \in Nat}

(* The schedule t that tiling s makes: n events and modes after the start. *)
TileShape(s, m, tpl, start, t, n) ==
  /\ Paired(t) /\ m \in Nat /\ n \in Nat /\ Len(t.events) = m + 1 + n
  /\ n \in Multiples(tpl)
  /\ \A i \in 1..m : t.events[i] = s.events[i]
  /\ t.events[m + 1] = start
  /\ \A i \in 1..n : t.events[m + 1 + i] = TileEvent(tpl, start, i)
  /\ \A i \in 1..(m + 1) : t.modes[i] = s.modes[i]
  /\ \A i \in 1..n : t.modes[m + 1 + i] = TileMode(tpl, i)
  /\ t.modes[m + 2 + n] = STANCE

LEMMA TileIs ==
  ASSUME NEW s, Paired(s), NEW tpl \in Templates, NEW start \in Int, NEW final \in Int
  PROVE  TileShape(s, Len(s.events), tpl, start, Tile(s, tpl, start, final),
                   Tiled(tpl, start, final))
<1> DEFINE t  == Tile(s, tpl, start, final)
           m  == Len(s.events)
           n  == Tiled(tpl, start, final)
           ev == [i \in 1..n |-> TileEvent(tpl, start, i)]
           mo == [i \in 1..n |-> TileMode(tpl, i)]
<1>1. /\ s.events \in Seq(Int) /\ s.modes \in Seq(Mode) /\ Len(s.modes) = m + 1
      /\ Len(s.events) = m /\ m \in Nat /\ STANCE \in Mode
  BY LenProperties DEF Paired, Schedules, Mode
<1>2. n \in Nat /\ Len(tpl.modes) # 0
  BY RepetitionsIs, TemplateIs DEF Tiled
<1>3. ev \in Seq(Int) /\ Len(ev) = n /\ \A i \in 1..n : ev[i] = TileEvent(tpl, start, i)
  <2>1. ev \in [1..n -> Int]
    BY <1>2, TileEventIs
  <2> QED BY <1>2, <2>1, IsSeq
<1>4. mo \in Seq(Mode) /\ Len(mo) = n /\ \A i \in 1..n : mo[i] = TileMode(tpl, i)
  <2>1. mo \in [1..n -> Mode]
    BY <1>2, TileEventIs
  <2> QED BY <1>2, <2>1, IsSeq
<1>5. t = [events |-> Append(s.events, start) \o ev, modes |-> Append(s.modes \o mo, STANCE)]
  BY <1>2 DEF Tile, Tiled, TileEvent, TileMode
<1> HIDE DEF ev, mo, t, n, m
<1>6. t.events = Append(s.events, start) \o ev /\ t.modes = Append(s.modes \o mo, STANCE)
      /\ DOMAIN t = {"events", "modes"} /\ t = [events |-> t.events, modes |-> t.modes]
  BY <1>5
<1>7. /\ Append(s.events, start) \in Seq(Int) /\ Len(Append(s.events, start)) = m + 1
      /\ \A i \in 1..m : Append(s.events, start)[i] = s.events[i]
      /\ Append(s.events, start)[m + 1] = start
  BY <1>1, AppendProperties
<1>8. /\ t.events \in Seq(Int) /\ Len(t.events) = m + 1 + n
      /\ \A i \in 1..(m + 1 + n) :
           t.events[i] = IF i <= m + 1 THEN Append(s.events, start)[i] ELSE ev[i - (m + 1)]
  <2> DEFINE a == Append(s.events, start)
  <2>1. a \in Seq(Int) /\ Len(a) = m + 1 /\ t.events = a \o ev
    BY <1>6, <1>7
  <2> HIDE DEF a
  <2>2. /\ a \o ev \in Seq(Int) /\ Len(a \o ev) = Len(a) + Len(ev)
        /\ \A i \in 1..(Len(a) + Len(ev)) :
             (a \o ev)[i] = IF i <= Len(a) THEN a[i] ELSE ev[i - Len(a)]
    BY <1>3, <2>1, ConcatProperties
  <2>3. /\ a \o ev \in Seq(Int) /\ Len(a \o ev) = m + 1 + n
        /\ \A i \in 1..(m + 1 + n) :
             (a \o ev)[i] = IF i <= m + 1 THEN a[i] ELSE ev[i - (m + 1)]
    BY <1>1, <1>2, <1>3, <2>1, <2>2
  <2> QED BY <2>1, <2>3 DEF a
<1>9. /\ s.modes \o mo \in Seq(Mode) /\ Len(s.modes \o mo) = m + 1 + n
      /\ \A i \in 1..(m + 1 + n) :
           (s.modes \o mo)[i] = IF i <= m + 1 THEN s.modes[i] ELSE mo[i - (m + 1)]
  <2>1. /\ s.modes \o mo \in Seq(Mode) /\ Len(s.modes \o mo) = Len(s.modes) + Len(mo)
        /\ \A i \in 1..(Len(s.modes) + Len(mo)) :
             (s.modes \o mo)[i] = IF i <= Len(s.modes) THEN s.modes[i] ELSE mo[i - Len(s.modes)]
    BY <1>1, <1>4, ConcatProperties
  <2> QED BY <1>1, <1>4, <2>1
<1>10. /\ t.modes \in Seq(Mode) /\ Len(t.modes) = m + 2 + n /\ t.modes[m + 2 + n] = STANCE
       /\ \A i \in 1..(m + 1 + n) : t.modes[i] = (s.modes \o mo)[i]
  <2>1. /\ Append(s.modes \o mo, STANCE) \in Seq(Mode)
        /\ Len(Append(s.modes \o mo, STANCE)) = (m + 1 + n) + 1
        /\ \A i \in 1..(m + 1 + n) : Append(s.modes \o mo, STANCE)[i] = (s.modes \o mo)[i]
        /\ Append(s.modes \o mo, STANCE)[(m + 1 + n) + 1] = STANCE
    BY <1>1, <1>9, AppendProperties
  <2>2. (m + 1 + n) + 1 = m + 2 + n
    BY <1>1, <1>2
  <2> QED BY <1>6, <2>1, <2>2
<1>11. Paired(t)
  <2>1. t \in Schedules
    BY <1>6, <1>8, <1>10 DEF Schedules
  <2> QED BY <1>1, <1>2, <1>8, <1>10, <2>1 DEF Paired
<1>12. /\ \A i \in 1..m : i \in 1..(m + 1 + n) /\ i <= m + 1
       /\ m + 1 \in 1..(m + 1 + n)
       /\ \A i \in 1..(m + 1) : i \in 1..(m + 1 + n) /\ i <= m + 1
       /\ \A i \in 1..n : /\ m + 1 + i \in 1..(m + 1 + n) /\ ~(m + 1 + i <= m + 1)
                          /\ (m + 1 + i) - (m + 1) = i
  BY <1>1, <1>2
<1>13. \A i \in 1..n : t.events[m + 1 + i] = TileEvent(tpl, start, i)
  BY <1>3, <1>8, <1>12
<1>14. \A i \in 1..n : t.modes[m + 1 + i] = TileMode(tpl, i)
  <2> SUFFICES ASSUME NEW i \in 1..n PROVE t.modes[m + 1 + i] = TileMode(tpl, i)
    OBVIOUS
  <2>1. m + 1 + i \in 1..(m + 1 + n) /\ ~(m + 1 + i <= m + 1) /\ (m + 1 + i) - (m + 1) = i
    BY <1>12
  <2>2. t.modes[m + 1 + i] = (s.modes \o mo)[m + 1 + i]
    BY <1>10, <2>1
  <2>3. (s.modes \o mo)[m + 1 + i] = mo[i]
    BY <1>9, <2>1
  <2> QED BY <1>4, <2>2, <2>3
<1>15. /\ \A i \in 1..m : t.events[i] = s.events[i]
       /\ t.events[m + 1] = start
       /\ \A i \in 1..(m + 1) : t.modes[i] = s.modes[i]
  BY <1>1, <1>7, <1>8, <1>9, <1>10, <1>12
<1>16. n \in Multiples(tpl)
  BY RepetitionsIs DEF n, Tiled, Multiples
<1>17. TileShape(s, m, tpl, start, t, n)
  BY <1>1, <1>2, <1>8, <1>10, <1>11, <1>13, <1>14, <1>15, <1>16 DEF TileShape
<1> QED BY <1>17 DEF t, n, m

(* A schedule that may be tiled from a later time on.                      *)
Open(s) == Paired(s) /\ Rises(s.events) /\ s.modes[1] = STANCE

LEMMA TileWellFormed ==
  ASSUME NEW s, Open(s), NEW tpl \in Templates, NEW start \in Int, NEW final \in Int,
         Len(s.events) > 0 => Back(s.events) < start
  PROVE  /\ Tile(s, tpl, start, final) \in Schedules /\ WellFormed(Tile(s, tpl, start, final))
         /\ Back(Tile(s, tpl, start, final).events) >= final
         /\ Back(Tile(s, tpl, start, final).events) >= start
         /\ ~TilingThrows(s, tpl, start)
<1> DEFINE t == Tile(s, tpl, start, final)
           m == Len(s.events)
           n == Tiled(tpl, start, final)
<1>1. /\ Paired(t) /\ m \in Nat /\ n \in Nat /\ Len(t.events) = m + 1 + n
      /\ \A i \in 1..m : t.events[i] = s.events[i]
      /\ t.events[m + 1] = start
      /\ \A i \in 1..n : t.events[m + 1 + i] = TileEvent(tpl, start, i)
      /\ \A i \in 1..(m + 1) : t.modes[i] = s.modes[i]
      /\ t.modes[m + 2 + n] = STANCE
  <2>1. Paired(s)
    BY DEF Open
  <2>2. TileShape(s, m, tpl, start, t, n)
    BY <2>1, TileIs
  <2> HIDE DEF t, n, m
  <2> QED BY <2>2 DEF TileShape
<1> HIDE DEF t, n, m
<1>2. t \in Schedules /\ Len(t.modes) = m + 2 + n /\ \A i \in 1..(m + 1 + n) : t.events[i] \in Int
  <2>1. t \in Schedules /\ Len(t.modes) = m + 1 + n + 1 /\ t.events \in Seq(Int)
    BY <1>1 DEF Paired, Schedules
  <2> QED BY <1>1, <2>1, ElementOfSeq
<1>3. ASSUME NEW i \in 1..(m + n) PROVE t.events[i] < t.events[i + 1]
  <2>1. CASE i < m
    <3>1. i \in 1..m /\ i + 1 \in 1..m /\ i \in 1..(m - 1)
      BY <1>1, <2>1
    <3> QED BY <1>1, <3>1 DEF Open, Rises, m
  <2>2. CASE i = m
    <3>1. s.events[m] < start
      BY <1>1, <2>2 DEF Back, m
    <3> QED BY <1>1, <2>2, <3>1
  <2>3. CASE i = m + 1
    <3>1. t.events[i + 1] = TileEvent(tpl, start, 1)
      BY <1>1, <2>3
    <3> QED BY <1>1, <2>3, <3>1, TileEventIs
  <2>4. CASE i > m + 1
    <3>1. i \in Int /\ i <= m + n /\ m \in Int /\ n \in Int
      BY <1>1
    <3>2. i - m - 1 \in 1..(n - 1) /\ i = m + 1 + (i - m - 1)
      BY <2>4, <3>1
    <3>3. PICK j \in 1..(n - 1) : i = m + 1 + j
      BY <3>2
    <3>4. j \in Nat \ {0} /\ j \in 1..n /\ j + 1 \in 1..n /\ i + 1 = m + 1 + (j + 1)
      BY <3>1, <3>3
    <3>5. t.events[i] = TileEvent(tpl, start, j) /\ t.events[i + 1] = TileEvent(tpl, start, j + 1)
      BY <1>1, <3>3, <3>4
    <3> QED BY <3>4, <3>5, TileEventIs
  <2>5. i \in Int /\ m \in Int
    BY <1>1
  <2> QED BY <2>1, <2>2, <2>3, <2>4, <2>5
<1>4. t.modes[1] = STANCE /\ t.modes[Len(t.modes)] = STANCE
  BY <1>1, <1>2 DEF Open
<1>5. WellFormed(t)
  BY <1>1, <1>2, <1>3, <1>4 DEF WellFormed
<1>6. Back(t.events) >= final /\ Back(t.events) >= start
  <2> DEFINE q == Repetitions(tpl, start, final)
             P == Period(tpl)
             k == Len(tpl.modes)
  <2>1. q \in Nat /\ k \in Nat \ {0} /\ P \in Nat \ {0} /\ n = q * k
        /\ start + q * P >= final
    BY RepetitionsIs, TemplateIs DEF n, Tiled
  <2>2. q # 0 => TileEvent(tpl, start, q * k) = start + q * P
    BY <2>1, TileEventIs
  <2> HIDE DEF q, P, k
  <2>3. q * P \in Nat
    BY <2>1
  <2>4. CASE q = 0
    <3>1. n = 0 /\ start + 0 >= final
      BY <2>1, <2>4
    <3> QED BY <1>1, <3>1 DEF Back
  <2>5. CASE q # 0
    <3>1. n \in 1..n
      BY <2>1, <2>5
    <3>2. Back(t.events) = start + q * P
      BY <1>1, <2>1, <2>2, <2>5, <3>1 DEF Back
    <3> QED BY <2>1, <2>3, <3>2
  <2> QED BY <2>4, <2>5
<1>7. ~TilingThrows(s, tpl, start)
  <2> SUFFICES ASSUME Len(s.events) > 0 PROVE ~(start <= Back(s.events))
    BY DEF TilingThrows
  <2>1. s.events \in Seq(Int) /\ Len(s.events) \in 1..Len(s.events)
    BY <1>1 DEF Open, Paired, Schedules, m
  <2>2. Back(s.events) \in Int
    BY <2>1, ElementOfSeq DEF Back
  <2> QED BY <2>2
<1> QED BY <1>2, <1>5, <1>6, <1>7 DEF t

-----------------------------------------------------------------------------
(* Inserting a template. What is kept of the schedule, with the transition *)
(* to stance, ends before the tiling starts.                               *)
LEMMA ScheduleIs ==
  ASSUME NEW s \in Schedules, WellFormed(s)
  PROVE  /\ s.events \in Seq(Int) /\ s.modes \in Seq(Mode) /\ Len(s.events) \in Nat \ {0}
         /\ Len(s.modes) = Len(s.events) + 1 /\ Rises(s.events)
         /\ \A i \in 1..Len(s.events) : s.events[i] \in Int
         /\ \A i \in 1..(Len(s.events) + 1) : s.modes[i] \in Mode
         /\ s.modes[1] = STANCE /\ s.modes[Len(s.events) + 1] = STANCE
         /\ Back(s.events) \in Int /\ Back(s.events) = s.events[Len(s.events)]
<1>1. /\ s.events \in Seq(Int) /\ s.modes \in Seq(Mode) /\ Len(s.events) >= 1
      /\ Len(s.modes) = Len(s.events) + 1 /\ Rises(s.events)
      /\ s.modes[1] = STANCE /\ s.modes[Len(s.events) + 1] = STANCE
  BY DEF Schedules, WellFormed, Rises
<1>2. /\ Len(s.events) \in Nat \ {0}
      /\ \A i \in 1..Len(s.events) : s.events[i] \in Int
      /\ \A i \in 1..(Len(s.events) + 1) : s.modes[i] \in Mode
  BY <1>1, LenProperties, ElementOfSeq
<1> QED BY <1>1, <1>2 DEF Back

(* x is s up to event j - 1 and mode j.                                    *)
SameUpTo(s, x, j) ==
  /\ \A i \in 1..(j - 1) : x.events[i] = s.events[i]
  /\ \A i \in 1..j : x.modes[i] = s.modes[i]

LEMMA CutIs ==
  ASSUME NEW s \in Schedules, WellFormed(s), NEW start \in Int,
         NEW j, j = LowerBound(s.events, start), NEW c, c = CutAt(s, start)
  PROVE  /\ Open(c) /\ Len(c.events) = j - 1 /\ Len(c.modes) = j /\ SameUpTo(s, c, j)
         /\ Len(c.events) > 0 => Back(c.events) < start
<1>1. /\ j \in 1..(Len(s.events) + 1) /\ \A k \in 1..(j - 1) : s.events[k] < start
      /\ Len(s.events) \in Nat /\ Rises(s.events) /\ s.modes[1] = STANCE
      /\ \A i \in 1..Len(s.events) : s.events[i] \in Int
      /\ \A i \in 1..(Len(s.events) + 1) : s.modes[i] \in Mode
  BY ScheduleIs, LowerBoundIs
<1>2. c = [events |-> SubSeq(s.events, 1, j - 1), modes |-> SubSeq(s.modes, 1, j)]
  BY DEF CutAt
<1>3. /\ c.events \in Seq(Int) /\ Len(c.events) = j - 1
      /\ \A i \in 1..(j - 1) : c.events[i] = s.events[i]
  <2>1. /\ SubSeq(s.events, 1, j - 1) \in Seq(Int)
        /\ Len(SubSeq(s.events, 1, j - 1)) = IF 1 <= j - 1 THEN (j - 1) - 1 + 1 ELSE 0
        /\ \A i \in 1..((j - 1) - 1 + 1) : SubSeq(s.events, 1, j - 1)[i] = s.events[1 + i - 1]
    <3>1. 1 \in Int /\ j - 1 \in Int /\ \A i \in 1..(j - 1) : s.events[i] \in Int
      BY <1>1
    <3> QED BY <3>1, SubSeqProperties
  <2> QED BY <1>1, <1>2, <2>1
<1>4. /\ c.modes \in Seq(Mode) /\ Len(c.modes) = j
      /\ \A i \in 1..j : c.modes[i] = s.modes[i]
  <2>1. /\ SubSeq(s.modes, 1, j) \in Seq(Mode)
        /\ Len(SubSeq(s.modes, 1, j)) = IF 1 <= j THEN j - 1 + 1 ELSE 0
        /\ \A i \in 1..(j - 1 + 1) : SubSeq(s.modes, 1, j)[i] = s.modes[1 + i - 1]
    <3>1. 1 \in Int /\ j \in Int /\ \A i \in 1..j : s.modes[i] \in Mode
      BY <1>1
    <3> QED BY <3>1, SubSeqProperties
  <2> QED BY <1>1, <1>2, <2>1
<1>5. SameUpTo(s, c, j)
  BY <1>3, <1>4 DEF SameUpTo
<1>6. Open(c)
  <2>1. c \in Schedules
    BY <1>2, <1>3, <1>4 DEF Schedules
  <2>2. Rises(c.events)
    <3> SUFFICES ASSUME NEW i \in 1..((j - 1) - 1) PROVE c.events[i] < c.events[i + 1]
      BY <1>3 DEF Rises
    <3>1. i \in 1..(j - 1) /\ i + 1 \in 1..(j - 1) /\ i \in 1..(Len(s.events) - 1)
      BY <1>1
    <3> QED BY <1>1, <1>3, <3>1 DEF Rises
  <2> QED BY <1>1, <1>3, <1>4, <2>1, <2>2 DEF Open, Paired
<1>7. Len(c.events) > 0 => Back(c.events) < start
  BY <1>1, <1>3 DEF Back
<1> QED BY <1>3, <1>4, <1>5, <1>6, <1>7

LEMMA TransitionIs ==
  ASSUME NEW s \in Schedules, WellFormed(s), NEW start \in Int,
         NEW j, j = LowerBound(s.events, start),
         NEW T, T = TransitionTime(CutAt(s, start)),
         NEW w, w = WithTransition(CutAt(s, start), start)
  PROVE  /\ Open(w) /\ T \in Nat /\ SameUpTo(s, w, j)
         /\ Len(w.events) > 0 => Back(w.events) < start + T
         /\ \/ Len(w.events) = j - 1 /\ (T = 0)
            \/ T > 0 /\ Len(w.events) = j /\ w.events[j] = start /\ w.modes[j + 1] = STANCE
         /\ s.modes[j] # STANCE => T = TransitionStance
         /\ s.modes[j] = STANCE => T = 0
<1> DEFINE c == CutAt(s, start)
<1>1. /\ Open(c) /\ Len(c.events) = j - 1 /\ Len(c.modes) = j /\ SameUpTo(s, c, j)
      /\ Len(c.events) > 0 => Back(c.events) < start
  BY CutIs
<1>2. j \in Nat \ {0} /\ j \in 1..(Len(s.events) + 1)
  <2>1. s.events \in Seq(Int) /\ Len(s.events) \in Nat
    BY ScheduleIs
  <2>2. j \in 1..(Len(s.events) + 1)
    BY <2>1, LowerBoundIs
  <2> QED BY <2>1, <2>2
<1>3. Back(c.modes) = s.modes[j]
  BY <1>1, <1>2 DEF Back, SameUpTo
<1>4. T = (IF s.modes[j] = STANCE THEN 0 ELSE TransitionStance) /\ T \in Nat
  BY <1>3, TransitionAssumption DEF TransitionTime
<1>5. CASE T = 0
  <2>1. w = c
    BY <1>5 DEF WithTransition
  <2> HIDE DEF c
  <2> QED BY <1>1, <1>4, <1>5, <2>1
<1>6. CASE T > 0
  <2>1. w = [events |-> Append(c.events, start), modes |-> Append(c.modes, STANCE)]
    BY <1>6 DEF WithTransition
  <2> HIDE DEF c
  <2>2. /\ c.events \in Seq(Int) /\ c.modes \in Seq(Mode) /\ STANCE \in Mode
        /\ \A i \in 1..(j - 1) : c.events[i] \in Int
    <3>1. c.events \in Seq(Int) /\ c.modes \in Seq(Mode)
      BY <1>1 DEF Open, Paired, Schedules
    <3> QED BY <1>1, <3>1, ElementOfSeq DEF Mode
  <2>3. /\ w.events \in Seq(Int) /\ Len(w.events) = j /\ w.events[j] = start
        /\ \A i \in 1..(j - 1) : w.events[i] = c.events[i]
    BY <1>1, <1>2, <2>1, <2>2, AppendProperties
  <2>4. /\ w.modes \in Seq(Mode) /\ Len(w.modes) = j + 1 /\ w.modes[j + 1] = STANCE
        /\ \A i \in 1..j : w.modes[i] = c.modes[i]
    BY <1>1, <1>2, <2>1, <2>2, AppendProperties
  <2>5. SameUpTo(s, w, j)
    BY <1>1, <2>3, <2>4 DEF SameUpTo
  <2>6. Open(w)
    <3>1. w \in Schedules
      BY <2>1, <2>3, <2>4 DEF Schedules
    <3>2. Rises(w.events)
      <4> SUFFICES ASSUME NEW i \in 1..(j - 1) PROVE w.events[i] < w.events[i + 1]
        BY <2>3 DEF Rises
      <4>1. CASE i = j - 1
        <5>1. c.events[i] < start
          BY <1>1, <1>2, <4>1 DEF Back
        <5> QED BY <1>2, <2>3, <4>1, <5>1, SMTT(30)
      <4>2. CASE i < j - 1
        <5>1. i \in 1..(Len(c.events) - 1) /\ i + 1 \in 1..(j - 1)
          BY <1>1, <1>2, <4>2
        <5>2. c.events[i] < c.events[i + 1]
          BY <1>1, <5>1 DEF Open, Rises
        <5> QED BY <2>3, <5>1, <5>2
      <4> QED BY <1>2, <4>1, <4>2
    <3>3. 1 \in 1..j /\ c.modes[1] = STANCE
      BY <1>1, <1>2 DEF Open
    <3>4. Paired(w) /\ w.modes[1] = STANCE
      BY <2>3, <2>4, <3>1, <3>3 DEF Paired
    <3> QED BY <3>2, <3>4 DEF Open
  <2>7. Back(w.events) < start + T
    BY <1>4, <1>6, <2>3 DEF Back
  <2> QED BY <1>4, <1>6, <2>3, <2>4, <2>5, <2>6, <2>7
<1> QED BY <1>4, <1>5, <1>6

(* Whatever is inserted, and wherever: nothing changes up to the start,    *)
(* the result is well formed, and tiling does not throw.                   *)
LEMMA InsertIs ==
  ASSUME NEW s \in Schedules, WellFormed(s), NEW tpl \in Templates,
         NEW start \in Int, NEW final \in Int,
         NEW x, x = InsertTemplate(s, tpl, start, final),
         NEW j, j = LowerBound(s.events, start)
  PROVE  /\ x \in Schedules /\ WellFormed(x) /\ ~InsertThrows(s, tpl, start)
         /\ Back(x.events) >= final /\ Back(x.events) >= start
         /\ j \in 1..Len(x.events) /\ x.events[j] >= start /\ SameUpTo(s, x, j)
<1> DEFINE T == TransitionTime(CutAt(s, start))
           w == WithTransition(CutAt(s, start), start)
<1>1. /\ Open(w) /\ T \in Nat /\ SameUpTo(s, w, j)
      /\ Len(w.events) > 0 => Back(w.events) < start + T
      /\ \/ Len(w.events) = j - 1 /\ (T = 0)
         \/ Len(w.events) = j /\ w.events[j] = start
  BY TransitionIs
<1>2. x = Tile(w, tpl, start + T, final)
      /\ (InsertThrows(s, tpl, start) = TilingThrows(w, tpl, start + T))
  BY DEF InsertTemplate, InsertThrows
<1> HIDE DEF T, w
<1>3. j \in Nat \ {0}
  <2>1. s.events \in Seq(Int) /\ Len(s.events) \in Nat
    BY ScheduleIs
  <2>2. j \in 1..(Len(s.events) + 1)
    BY <2>1, LowerBoundIs
  <2> QED BY <2>1, <2>2
<1>4. start + T \in Int
  BY <1>1
<1>5. /\ x \in Schedules /\ WellFormed(x) /\ Back(x.events) >= final
      /\ Back(x.events) >= start + T /\ ~InsertThrows(s, tpl, start)
  BY <1>1, <1>2, <1>4, TileWellFormed
<1>6. PICK n : TileShape(w, Len(w.events), tpl, start + T, x, n)
  BY <1>1, <1>2, <1>4, TileIs DEF Open
<1>7. Back(x.events) \in Int
  BY <1>5, ScheduleIs
<1>8. SameUpTo(s, x, j) /\ j \in 1..Len(x.events) /\ x.events[j] >= start
  <2>1. CASE Len(w.events) = j - 1 /\ (T = 0)
    <3>1. /\ n \in Nat /\ Len(x.events) = (j - 1) + 1 + n /\ x.events[(j - 1) + 1] = start + T
          /\ \A i \in 1..(j - 1) : x.events[i] = w.events[i]
          /\ \A i \in 1..((j - 1) + 1) : x.modes[i] = w.modes[i]
      BY <1>6, <2>1 DEF TileShape
    <3>2. (j - 1) + 1 = j /\ start + T = start
      BY <1>3, <2>1
    <3>3. SameUpTo(s, x, j)
      BY <1>1, <3>1, <3>2 DEF SameUpTo
    <3>4. x.events[j] = start /\ Len(x.events) = j + n /\ n \in Nat
      BY <1>3, <3>1, <3>2
    <3> QED BY <1>3, <3>3, <3>4
  <2>2. CASE Len(w.events) = j /\ w.events[j] = start
    <3>1. /\ n \in Nat /\ Len(x.events) = j + 1 + n
          /\ \A i \in 1..j : x.events[i] = w.events[i]
          /\ \A i \in 1..(j + 1) : x.modes[i] = w.modes[i]
      BY <1>6, <2>2 DEF TileShape
    <3>2. j \in 1..j /\ \A i \in 1..(j - 1) : i \in 1..j
      BY <1>3
    <3>3. \A i \in 1..j : i \in 1..(j + 1)
      BY <1>3
    <3>4. SameUpTo(s, x, j)
      BY <1>1, <3>1, <3>2, <3>3 DEF SameUpTo
    <3>5. x.events[j] = start
      BY <2>2, <3>1, <3>2
    <3> QED BY <1>3, <3>1, <3>4, <3>5, SMTT(30)
  <2> QED BY <1>1, <2>1, <2>2
<1> QED BY <1>1, <1>5, <1>7, <1>8

(* Up to the start the modes are those of the schedule.                    *)
LEMMA InsertKeepsModes ==
  ASSUME NEW s \in Schedules, WellFormed(s), NEW tpl \in Templates,
         NEW start \in Int, NEW final \in Int, NEW t \in Int, t <= start
  PROVE  ModeAt(InsertTemplate(s, tpl, start, final), t) = ModeAt(s, t)
<1> DEFINE x == InsertTemplate(s, tpl, start, final)
           j == LowerBound(s.events, start)
           i == LowerBound(s.events, t)
<1>1. /\ x \in Schedules /\ WellFormed(x) /\ j \in 1..Len(x.events) /\ x.events[j] >= start
      /\ SameUpTo(s, x, j)
  BY InsertIs
<1>2. /\ s.events \in Seq(Int) /\ Len(s.events) \in Nat
      /\ \A k \in 1..Len(s.events) : s.events[k] \in Int
  BY ScheduleIs
<1>3. /\ x.events \in Seq(Int) /\ Rises(x.events) /\ Len(x.events) \in Nat
      /\ \A k \in 1..Len(x.events) : x.events[k] \in Int
  BY <1>1, ScheduleIs
<1>4. /\ i \in 1..(Len(s.events) + 1) /\ \A k \in 1..(i - 1) : s.events[k] < t
      /\ i <= Len(s.events) => s.events[i] >= t
  BY <1>2, LowerBoundIs
<1>5. /\ j \in 1..(Len(s.events) + 1) /\ \A k \in 1..(j - 1) : s.events[k] < start
      /\ j <= Len(s.events) => s.events[j] >= start
  BY <1>2, LowerBoundIs
<1> HIDE DEF x, i, j
<1>6. i <= j
  BY <1>2, <1>4, <1>5
<1>7. i > 1 => x.events[i - 1] < t
  <2> SUFFICES ASSUME i > 1 PROVE x.events[i - 1] < t
    OBVIOUS
  <2>1. i - 1 \in 1..(i - 1) /\ i - 1 \in 1..(j - 1)
    BY <1>2, <1>3, <1>1, <1>4, <1>6, SMTT(30)
  <2> QED BY <1>1, <1>4, <2>1 DEF SameUpTo
<1>8. x.events[i] >= t
  <2>1. CASE i = j
    <3>1. x.events[j] \in Int
      BY <1>1, <1>3
    <3> QED BY <1>1, <2>1, <3>1
  <2>2. CASE i < j
    <3>1. i \in 1..(j - 1) /\ i <= Len(s.events)
      BY <1>2, <1>4, <1>5, <2>2
    <3> QED BY <1>1, <1>4, <3>1 DEF SameUpTo
  <2> QED BY <1>1, <1>3, <1>4, <1>6, <2>1, <2>2
<1>9. LowerBound(x.events, t) = i
  <2>1. i \in 1..(Len(x.events) + 1)
    BY <1>1, <1>3, <1>4, <1>6
  <2> QED BY <1>3, <1>7, <1>8, <2>1, LowerBoundOnly
<1>10. x.modes[i] = s.modes[i]
  BY <1>1, <1>3, <1>4, <1>6 DEF SameUpTo
<1>11. ModeAt(x, t) = x.modes[i] /\ ModeAt(s, t) = s.modes[i]
  BY <1>9 DEF ModeAt, i
<1> QED BY <1>10, <1>11 DEF x

-----------------------------------------------------------------------------
(* Extending. kept is s without its first o events, the last of which is   *)
(* older than the lower bound.                                             *)
KeptShape(s, lower, kept, o) ==
  /\ Paired(kept) /\ o \in 0..(Len(s.events) - 1) /\ Len(kept.events) = Len(s.events) - o
  /\ \A i \in 1..(Len(s.events) - o) : kept.events[i] = s.events[o + i]
  /\ \A i \in 1..(Len(s.events) - o + 1) : kept.modes[i] = IF i = 1 THEN STANCE ELSE s.modes[o + i]
  /\ o > 0 => s.events[o + 1] < lower

LEMMA ForgetIs ==
  ASSUME NEW s \in Schedules, WellFormed(s), NEW lower \in Int
  PROVE  \E o \in Nat : KeptShape(s, lower, ForgetBefore(s, lower), o)
<1> DEFINE e == s.events
           n == Len(s.events)
           a == LowerBound(s.events, lower) - 1
           k == ForgetBefore(s, lower)
<1>1. /\ e \in Seq(Int) /\ s.modes \in Seq(Mode) /\ n \in Nat \ {0} /\ Len(s.modes) = n + 1
      /\ s.modes[1] = STANCE /\ STANCE \in Mode
      /\ \A i \in 1..n : e[i] \in Int
      /\ \A i \in 1..(n + 1) : s.modes[i] \in Mode
  BY ScheduleIs DEF Mode
<1>2. a \in 0..n /\ (a > 0 => e[a] < lower)
  <2>1. /\ LowerBound(e, lower) \in 1..(n + 1)
        /\ \A i \in 1..(LowerBound(e, lower) - 1) : e[i] < lower
    BY <1>1, LowerBoundIs
  <2> QED BY <1>1, <2>1
<1>3. CASE a > 0
  <2>1. k = [events |-> SubSeq(e, a, n),
             modes  |-> [SubSeq(s.modes, a, n + 1) EXCEPT ![1] = STANCE]]
    BY <1>1, <1>3 DEF ForgetBefore
  <2> HIDE DEF e, n, a, k
  <2>2. /\ SubSeq(e, a, n) \in Seq(Int) /\ Len(SubSeq(e, a, n)) = n - a + 1
        /\ \A i \in 1..(n - a + 1) : SubSeq(e, a, n)[i] = e[a + i - 1]
    <3>1. a \in Int /\ n \in Int /\ a <= n /\ \A i \in a..n : e[i] \in Int
      BY <1>1, <1>2, <1>3
    <3> QED BY <3>1, SubSeqProperties
  <2>3. /\ SubSeq(s.modes, a, n + 1) \in Seq(Mode) /\ Len(SubSeq(s.modes, a, n + 1)) = n - a + 2
        /\ \A i \in 1..(n - a + 2) : SubSeq(s.modes, a, n + 1)[i] = s.modes[a + i - 1]
    <3>1. a \in Int /\ n + 1 \in Int /\ a <= n + 1 /\ \A i \in a..(n + 1) : s.modes[i] \in Mode
          /\ (n + 1) - a + 1 = n - a + 2
      BY <1>1, <1>2, <1>3
    <3>2. /\ SubSeq(s.modes, a, n + 1) \in Seq(Mode)
          /\ Len(SubSeq(s.modes, a, n + 1)) = (n + 1) - a + 1
          /\ \A i \in 1..((n + 1) - a + 1) : SubSeq(s.modes, a, n + 1)[i] = s.modes[a + i - 1]
      BY <3>1, SubSeqProperties
    <3> QED BY <3>1, <3>2
  <2>4. /\ k.modes \in Seq(Mode) /\ Len(k.modes) = n - a + 2
        /\ \A i \in 1..(n - a + 2) : k.modes[i] = IF i = 1 THEN STANCE ELSE s.modes[a + i - 1]
    <3> DEFINE b == SubSeq(s.modes, a, n + 1)
    <3>1. b \in Seq(Mode) /\ Len(b) = n - a + 2 /\ 1 \in 1..Len(b)
      BY <1>1, <1>2, <2>3
    <3>2. k.modes = [b EXCEPT ![1] = STANCE]
      BY <2>1
    <3> HIDE DEF b
    <3>3. /\ k.modes \in Seq(Mode) /\ Len(k.modes) = n - a + 2
          /\ \A i \in 1..(n - a + 2) : k.modes[i] = IF i = 1 THEN STANCE ELSE b[i]
      BY <1>1, <3>1, <3>2, ExceptSeq
    <3> QED BY <2>3, <3>3 DEF b
  <2>5. k.events \in Seq(Int) /\ Len(k.events) = n - (a - 1)
        /\ \A i \in 1..(n - (a - 1)) : k.events[i] = e[(a - 1) + i]
    <3>1. n - a + 1 = n - (a - 1)
      BY <1>1, <1>2
    <3>2. ASSUME NEW i \in 1..(n - a + 1) PROVE k.events[i] = e[(a - 1) + i]
      <4>1. a + i - 1 = (a - 1) + i
        BY <1>1, <1>2
      <4> QED BY <2>1, <2>2, <4>1
    <3>3. \A i \in 1..(n - (a - 1)) : k.events[i] = e[(a - 1) + i]
      BY <3>1, <3>2
    <3> QED BY <2>1, <2>2, <3>1, <3>3
  <2>6. \A i \in 1..(n - (a - 1) + 1) : k.modes[i] = IF i = 1 THEN STANCE ELSE s.modes[(a - 1) + i]
    <3>1. n - a + 2 = n - (a - 1) + 1
      BY <1>1, <1>2
    <3>2. ASSUME NEW i \in 1..(n - a + 2)
          PROVE  k.modes[i] = IF i = 1 THEN STANCE ELSE s.modes[(a - 1) + i]
      <4>1. a + i - 1 = (a - 1) + i
        BY <1>1, <1>2
      <4> QED BY <2>4, <4>1
    <3> QED BY <3>1, <3>2
  <2>7. Paired(k)
    <3>1. k \in Schedules
      BY <2>1, <2>4, <2>5 DEF Schedules
    <3> QED BY <1>1, <1>2, <2>4, <2>5, <3>1 DEF Paired
  <2>8. a - 1 \in Nat /\ a - 1 \in 0..(n - 1) /\ (a - 1) + 1 = a
    BY <1>1, <1>2, <1>3
  <2>9. KeptShape(s, lower, k, a - 1)
    BY <1>2, <1>3, <2>5, <2>6, <2>7, <2>8 DEF KeptShape, n, e
  <2> QED BY <2>8, <2>9 DEF k
<1>4. CASE ~(a > 0)
  <2>1. k = s
    BY <1>4 DEF ForgetBefore
  <2>2. Paired(s)
    BY <1>1 DEF Paired
  <2>3. KeptShape(s, lower, s, 0)
    BY <1>1, <2>2 DEF KeptShape
  <2> QED BY <2>1, <2>3
<1> QED BY <1>3, <1>4

(* x is s without its first o events, continued by the template from its   *)
(* last event on.                                                          *)
ExtendShape(s, lower, tpl, x, o, m, n) ==
  /\ x \in Schedules /\ WellFormed(x) /\ n \in Nat /\ n \in Multiples(tpl)
  /\ o \in 0..(Len(s.events) - 1) /\ m = Len(s.events) - o /\ Len(x.events) = m + n
  /\ \A i \in 1..m : x.events[i] = s.events[o + i]
  /\ \A i \in 1..m : x.modes[i] = IF i = 1 THEN STANCE ELSE s.modes[o + i]
  /\ \A i \in 1..n : x.events[m + i] = TileEvent(tpl, Back(s.events), i)
  /\ \A i \in 1..n : x.modes[m + i] = TileMode(tpl, i)
  /\ o > 0 => s.events[o + 1] < lower

LEMMA ExtendIs ==
  ASSUME NEW s \in Schedules, WellFormed(s), NEW tpl \in Templates,
         NEW lower \in Int, NEW upper \in Int
  PROVE  /\ \E o \in Nat, m \in Nat, n \in Nat :
              ExtendShape(s, lower, tpl, Extend(s, tpl, lower, upper), o, m, n)
         /\ Extend(s, tpl, lower, upper) \in Schedules
         /\ WellFormed(Extend(s, tpl, lower, upper)) /\ ~ExtendThrows(s, tpl, lower)
         /\ Back(Extend(s, tpl, lower, upper).events) >= upper
<1> DEFINE k == ForgetBefore(s, lower)
           d == DropTail(k)
           x == Extend(s, tpl, lower, upper)
           N == Len(s.events)
<1>1. /\ N \in Nat \ {0} /\ Rises(s.events)
      /\ \A i \in 1..N : s.events[i] \in Int
      /\ \A i \in 1..(N + 1) : s.modes[i] \in Mode
      /\ Back(s.events) = s.events[N] /\ Back(s.events) \in Int
  BY ScheduleIs
<1>2. PICK o \in Nat : KeptShape(s, lower, k, o)
  BY ForgetIs
<1>3. /\ x = Tile(d, tpl, Back(k.events), upper)
      /\ (ExtendThrows(s, tpl, lower) = TilingThrows(d, tpl, Back(k.events)))
      /\ d = [events |-> SubSeq(k.events, 1, Len(k.events) - 1),
              modes  |-> SubSeq(k.modes, 1, Len(k.modes) - 1)]
  BY DEF Extend, ExtendThrows, DropTail
<1> DEFINE m == N - o
<1> HIDE DEF k, d, x, N
<1>4. /\ Paired(k) /\ o \in 0..(N - 1) /\ Len(k.events) = m
      /\ \A i \in 1..m : k.events[i] = s.events[o + i]
      /\ \A i \in 1..(m + 1) : k.modes[i] = IF i = 1 THEN STANCE ELSE s.modes[o + i]
      /\ o > 0 => s.events[o + 1] < lower
  BY <1>2 DEF KeptShape, N
<1>5. m \in Nat \ {0} /\ \A i \in 1..m : o + i \in 1..N /\ i \in 1..(m + 1)
  BY <1>1, <1>4
<1>6. Back(k.events) = Back(s.events)
  <2>1. o + m = N /\ m \in 1..m
    BY <1>1, <1>4, <1>5
  <2> QED BY <1>1, <1>4, <2>1 DEF Back
<1>7. /\ d.events \in Seq(Int) /\ Len(d.events) = m - 1
      /\ \A i \in 1..(m - 1) : d.events[i] = s.events[o + i]
  <2>1. k.events \in Seq(Int) /\ \A i \in 1..(m - 1) : k.events[i] \in Int
    <3>1. k.events \in Seq(Int)
      BY <1>4 DEF Paired, Schedules
    <3> QED BY <1>4, <1>5, <3>1, ElementOfSeq
  <2>2. /\ SubSeq(k.events, 1, m - 1) \in Seq(Int)
        /\ Len(SubSeq(k.events, 1, m - 1)) = IF 1 <= m - 1 THEN (m - 1) - 1 + 1 ELSE 0
        /\ \A i \in 1..((m - 1) - 1 + 1) : SubSeq(k.events, 1, m - 1)[i] = k.events[1 + i - 1]
    <3>1. 1 \in Int /\ m - 1 \in Int
      BY <1>5
    <3> QED BY <2>1, <3>1, SubSeqProperties
  <2>3. /\ SubSeq(k.events, 1, m - 1) \in Seq(Int) /\ Len(SubSeq(k.events, 1, m - 1)) = m - 1
        /\ \A i \in 1..(m - 1) : SubSeq(k.events, 1, m - 1)[i] = k.events[i]
    BY <1>5, <2>2
  <2> QED BY <1>3, <1>4, <1>5, <2>3
<1>8. /\ d.modes \in Seq(Mode) /\ Len(d.modes) = m
      /\ \A i \in 1..m : d.modes[i] = IF i = 1 THEN STANCE ELSE s.modes[o + i]
  <2>1. k.modes \in Seq(Mode) /\ Len(k.modes) = m + 1 /\ \A i \in 1..m : k.modes[i] \in Mode
    <3>1. k.modes \in Seq(Mode) /\ Len(k.modes) = m + 1
      BY <1>4 DEF Paired, Schedules
    <3> QED BY <1>5, <3>1, ElementOfSeq
  <2>2. /\ SubSeq(k.modes, 1, m) \in Seq(Mode)
        /\ Len(SubSeq(k.modes, 1, m)) = IF 1 <= m THEN m - 1 + 1 ELSE 0
        /\ \A i \in 1..(m - 1 + 1) : SubSeq(k.modes, 1, m)[i] = k.modes[1 + i - 1]
    <3>1. 1 \in Int /\ m \in Int
      BY <1>5
    <3> QED BY <2>1, <3>1, SubSeqProperties
  <2>3. /\ SubSeq(k.modes, 1, m) \in Seq(Mode) /\ Len(SubSeq(k.modes, 1, m)) = m
        /\ \A i \in 1..m : SubSeq(k.modes, 1, m)[i] = k.modes[i]
    BY <1>5, <2>2
  <2>4. d.modes = SubSeq(k.modes, 1, m)
    <3>1. Len(k.modes) - 1 = m
      BY <1>5, <2>1
    <3> QED BY <1>3, <3>1
  <2> QED BY <1>4, <1>5, <2>3, <2>4
<1>9. Open(d) /\ (Len(d.events) > 0 => Back(d.events) < Back(s.events))
  <2>1. Paired(d)
    <3>1. d \in Schedules
      BY <1>3, <1>7, <1>8 DEF Schedules
    <3> QED BY <1>5, <1>7, <1>8, <3>1 DEF Paired
  <2>2. \A i \in 1..(m - 1) : s.events[o + i] < s.events[o + (i + 1)]
    <3> SUFFICES ASSUME NEW i \in 1..(m - 1) PROVE s.events[o + i] < s.events[o + (i + 1)]
      OBVIOUS
    <3>1. o + i \in 1..(N - 1) /\ o + (i + 1) = (o + i) + 1
      BY <1>1, <1>4
    <3> QED BY <1>1, <3>1 DEF Rises, N
  <2>3. Rises(d.events)
    <3> SUFFICES ASSUME NEW i \in 1..((m - 1) - 1) PROVE d.events[i] < d.events[i + 1]
      BY <1>7 DEF Rises
    <3>1. i \in 1..(m - 1) /\ i + 1 \in 1..(m - 1)
      BY <1>5
    <3> QED BY <1>7, <2>2, <3>1
  <2>4. ASSUME Len(d.events) > 0 PROVE Back(d.events) < Back(s.events)
    <3>1. m - 1 \in 1..(m - 1) /\ o + ((m - 1) + 1) = N
      BY <1>1, <1>4, <1>5, <1>7, <2>4
    <3>2. Back(d.events) = s.events[o + (m - 1)]
      BY <1>7, <3>1 DEF Back
    <3>3. s.events[o + (m - 1)] < s.events[o + ((m - 1) + 1)]
      BY <2>2, <3>1
    <3> QED BY <1>1, <3>1, <3>2, <3>3
  <2>5. d.modes[1] = STANCE
    BY <1>5, <1>8
  <2> QED BY <2>1, <2>3, <2>4, <2>5 DEF Open
<1>10. /\ x \in Schedules /\ WellFormed(x) /\ ~ExtendThrows(s, tpl, lower)
       /\ Back(x.events) >= upper
  BY <1>1, <1>3, <1>6, <1>9, TileWellFormed
<1>11. PICK n : TileShape(d, Len(d.events), tpl, Back(s.events), x, n)
  BY <1>1, <1>3, <1>6, <1>9, TileIs DEF Open
<1>12. /\ n \in Nat /\ n \in Multiples(tpl) /\ Len(x.events) = m + n
       /\ \A i \in 1..(m - 1) : x.events[i] = d.events[i]
       /\ x.events[m] = Back(s.events)
       /\ \A i \in 1..n : x.events[m + i] = TileEvent(tpl, Back(s.events), i)
       /\ \A i \in 1..m : x.modes[i] = d.modes[i]
       /\ \A i \in 1..n : x.modes[m + i] = TileMode(tpl, i)
  <2>1. (m - 1) + 1 = m
    BY <1>5
  <2> QED BY <1>7, <1>11, <2>1 DEF TileShape
<1>13. \A i \in 1..m : x.events[i] = s.events[o + i]
  <2>1. x.events[m] = s.events[o + m]
    <3>1. o + m = N
      BY <1>1, <1>4
    <3> QED BY <1>1, <1>12, <3>1
  <2>2. ASSUME NEW i \in 1..m, i # m PROVE x.events[i] = s.events[o + i]
    <3>1. i \in 1..(m - 1)
      BY <1>5, <2>2
    <3> QED BY <1>7, <1>12, <3>1
  <2> QED BY <2>1, <2>2
<1>14. ExtendShape(s, lower, tpl, x, o, m, n)
  BY <1>4, <1>8, <1>10, <1>12, <1>13 DEF ExtendShape, N
<1> QED BY <1>5, <1>10, <1>12, <1>14 DEF x

(* From the lower bound to its last event the modes of the schedule stay.  *)
LEMMA ExtendKeepsModes ==
  ASSUME NEW s \in Schedules, WellFormed(s), NEW tpl \in Templates,
         NEW lower \in Int, NEW upper \in Int,
         NEW t \in Int, lower <= t, t <= Back(s.events)
  PROVE  ModeAt(Extend(s, tpl, lower, upper), t) = ModeAt(s, t)
<1> DEFINE x == Extend(s, tpl, lower, upper)
           N == Len(s.events)
           i == LowerBound(s.events, t)
<1>1. /\ s.events \in Seq(Int) /\ N \in Nat \ {0} /\ Back(s.events) = s.events[N]
      /\ s.modes[1] = STANCE /\ \A k \in 1..N : s.events[k] \in Int
  BY ScheduleIs
<1>2. PICK o \in Nat, m \in Nat, n \in Nat : ExtendShape(s, lower, tpl, x, o, m, n)
  BY ExtendIs
<1>3. /\ x \in Schedules /\ WellFormed(x) /\ o \in 0..(N - 1) /\ m = N - o
      /\ Len(x.events) = m + n
      /\ \A k \in 1..m : x.events[k] = s.events[o + k]
      /\ \A k \in 1..m : x.modes[k] = IF k = 1 THEN STANCE ELSE s.modes[o + k]
      /\ o > 0 => s.events[o + 1] < lower
  BY <1>2 DEF ExtendShape
<1>4. /\ i \in 1..(N + 1) /\ \A k \in 1..(i - 1) : s.events[k] < t
      /\ i <= N => s.events[i] >= t
  BY <1>1, LowerBoundIs
<1>5. ModeAt(s, t) = s.modes[i] /\ ModeAt(x, t) = x.modes[LowerBound(x.events, t)]
  BY DEF ModeAt
<1>6. x.events \in Seq(Int) /\ Rises(x.events)
  BY <1>3, ScheduleIs
<1> HIDE DEF x, i, N
<1>7. N \in Nat \ {0} /\ o \in 0..(N - 1) /\ i \in 1..(N + 1)
  BY <1>1, <1>3, <1>4
<1>8. o + 1 \in 1..N
  BY <1>7
<1>9. i <= N
  <2>1. N \in 1..N /\ ~(s.events[N] < t)
    BY <1>1
  <2> QED BY <1>1, <1>4, <2>1
<1>10. i > o /\ (o > 0 => i > o + 1)
  <2> SUFFICES ASSUME o > 0 PROVE i > o + 1
    BY <1>1, <1>3, <1>4
  <2>1. s.events[o + 1] < t /\ o + 1 \in 1..N
    <3>1. s.events[o + 1] < lower /\ o + 1 \in 1..N
      BY <1>3, <1>8
    <3>2. s.events[o + 1] \in Int
      BY <1>1, <3>1
    <3> QED BY <3>1, <3>2
  <2>2. i # o + 1
    BY <1>1, <1>4, <1>9, <2>1
  <2>3. ~(i < o + 1)
    <3> SUFFICES ASSUME i < o + 1 PROVE FALSE
      OBVIOUS
    <3>1. i \in 1..N /\ o + 1 \in (i + 1)..N /\ s.events \in Seq(Int) /\ Rises(s.events)
      BY <1>1, <1>4, <1>9, <2>1, ScheduleIs
    <3>2. s.events[i] < s.events[o + 1]
      BY <3>1, RisesFar DEF N
    <3> QED BY <1>1, <1>4, <1>9, <2>1, <3>1, <3>2
  <2> QED BY <1>1, <1>3, <1>4, <2>2, <2>3
<1>11. i - o \in 1..m /\ o + (i - o) = i /\ i - o \in 1..(Len(x.events) + 1)
      /\ m <= Len(x.events)
  BY <1>1, <1>3, <1>4, <1>9, <1>10
<1>12. x.events[i - o] >= t
  BY <1>3, <1>4, <1>9, <1>11
<1>13. i - o > 1 => x.events[(i - o) - 1] < t
  <2> SUFFICES ASSUME i - o > 1 PROVE x.events[(i - o) - 1] < t
    OBVIOUS
  <2>1. (i - o) - 1 \in 1..m /\ o + ((i - o) - 1) = i - 1 /\ i - 1 \in 1..(i - 1)
    BY <1>7, <1>11
  <2> QED BY <1>3, <1>4, <2>1
<1>14. LowerBound(x.events, t) = i - o
  BY <1>6, <1>11, <1>12, <1>13, LowerBoundOnly
<1>15. x.modes[i - o] = s.modes[i]
  <2>1. x.modes[i - o] = IF i - o = 1 THEN STANCE ELSE s.modes[i]
    BY <1>3, <1>11
  <2>2. i - o = 1 => i = 1
    BY <1>1, <1>3, <1>4, <1>10
  <2> QED BY <1>1, <2>1, <2>2
<1> QED BY <1>5, <1>14, <1>15 DEF x

-----------------------------------------------------------------------------
(* The length of swings. The i-th phase that tiling appends is one of the  *)
(* template's.                                                             *)
TileStart(tpl, start, i) == IF i = 1 THEN start ELSE TileEvent(tpl, start, i - 1)

LEMMA TilePhase ==
  ASSUME NEW tpl \in Templates, NEW start \in Int, NEW i \in Nat \ {0}
  PROVE  \E p \in 1..Len(tpl.modes) :
           /\ TileMode(tpl, i) = tpl.modes[p]
           /\ TileEvent(tpl, start, i) - TileStart(tpl, start, i) = tpl.times[p + 1] - tpl.times[p]
<1> DEFINE k == Len(tpl.modes)
           T == tpl.times
           P == Period(tpl)
           d == (i - 1) \div k
           m == (i - 1) % k
<1>1. /\ k \in Nat \ {0} /\ P \in Nat \ {0} /\ T[k + 1] = T[1] + P
      /\ \A p \in 1..(k + 1) : T[p] \in Int
  BY TemplateIs
<1>2. d \in Nat /\ m \in 0..(k - 1) /\ i - 1 = k * d + m
  <2>1. i - 1 \in Nat
    OBVIOUS
  <2> HIDE DEF k
  <2> QED BY <1>1, <2>1, Divided
<1>3. /\ TileEvent(tpl, start, i) = start + d * P + T[m + 2] - T[1]
      /\ TileMode(tpl, i) = tpl.modes[m + 1]
  BY DEF TileEvent, TileMode
<1>4. \A j : TileEvent(tpl, start, j) = start + ((j - 1) \div k) * P + T[((j - 1) % k) + 2] - T[1]
  BY DEF TileEvent
<1> HIDE DEF k, T, P, d, m
<1>5. d * P \in Int /\ m + 1 \in 1..k /\ T[m + 1] \in Int /\ T[m + 2] \in Int /\ T[1] \in Int
  BY <1>1, <1>2
<1>6. TileStart(tpl, start, i) = start + d * P + T[m + 1] - T[1]
  <2>1. CASE i = 1
    <3>1. d = 0 /\ m = 0
      <4>1. 0 = k * 0 + 0 /\ 0 \in 0..(k - 1)
        BY <1>1
      <4>2. 0 \div k = 0 /\ 0 % k = 0
        BY <1>1, <4>1, DividedOnly
      <4> QED BY <2>1, <4>2 DEF d, m
    <3>2. 0 * P = 0
      BY <1>1
    <3> QED BY <1>5, <2>1, <3>1, <3>2 DEF TileStart
  <2>2. CASE i # 1
    <3> DEFINE e == (i - 2) \div k
               q == (i - 2) % k
    <3>1. i - 2 \in Nat /\ (i - 2) + 1 = i - 1 /\ (i - 1) - 1 = i - 2
      BY <2>2
    <3>2. e \in Nat /\ q \in 0..(k - 1)
      BY <1>1, <3>1, Divided
    <3>3. \/ q = k - 1 /\ d = e + 1 /\ m = 0
          \/ q < k - 1 /\ d = e /\ m = q + 1
      BY <1>1, <3>1, DividedNext DEF d, m
    <3>4. TileStart(tpl, start, i) = start + e * P + T[q + 2] - T[1]
      BY <1>4, <2>2, <3>1 DEF TileStart
    <3> HIDE DEF e, q
    <3>5. CASE q = k - 1 /\ d = e + 1 /\ m = 0
      <4>1. d * P = e * P + P /\ e * P \in Int /\ T[q + 2] = T[1] + P
        BY <1>1, <3>2, <3>5
      <4> QED BY <1>1, <1>5, <3>4, <3>5, <4>1
    <3>6. CASE q < k - 1 /\ d = e /\ m = q + 1
      <4>1. q + 2 = m + 1
        BY <3>2, <3>6
      <4> QED BY <3>4, <3>6, <4>1
    <3> QED BY <3>3, <3>5, <3>6
  <2> QED BY <2>1, <2>2
<1>7. TileEvent(tpl, start, i) - TileStart(tpl, start, i) = T[(m + 1) + 1] - T[m + 1]
  <2>1. (m + 1) + 1 = m + 2
    BY <1>2
  <2> QED BY <1>3, <1>5, <1>6, <2>1
<1> QED BY <1>3, <1>5, <1>7 DEF k, T

(* The phases of a schedule that has a beginning and an end, and of a      *)
(* template: all of them are pairs of a mode and a length in A.            *)
PhasesIn(s, A) ==
  \A i \in 2..Len(s.events) : <<s.modes[i], s.events[i] - s.events[i - 1]>> \in A

TemplateIn(tpl, A) ==
  \A i \in 1..Len(tpl.modes) : <<tpl.modes[i], tpl.times[i + 1] - tpl.times[i]>> \in A

LEMMA TiledPhase ==
  ASSUME NEW tpl \in Templates, NEW start \in Int, NEW i \in Nat \ {0},
         NEW A, TemplateIn(tpl, A)
  PROVE  <<TileMode(tpl, i), TileEvent(tpl, start, i) - TileStart(tpl, start, i)>> \in A
<1>1. PICK p \in 1..Len(tpl.modes) :
        /\ TileMode(tpl, i) = tpl.modes[p]
        /\ TileEvent(tpl, start, i) - TileStart(tpl, start, i) = tpl.times[p + 1] - tpl.times[p]
  BY TilePhase
<1> QED BY <1>1 DEF TemplateIn

(* Extending adds only phases of the template.                             *)
LEMMA ExtendPhases ==
  ASSUME NEW s \in Schedules, WellFormed(s), NEW tpl \in Templates,
         NEW lower \in Int, NEW upper \in Int,
         NEW A, PhasesIn(s, A), TemplateIn(tpl, A)
  PROVE  PhasesIn(Extend(s, tpl, lower, upper), A)
<1> DEFINE x == Extend(s, tpl, lower, upper)
           N == Len(s.events)
<1>1. PICK o \in Nat, m \in Nat, n \in Nat : ExtendShape(s, lower, tpl, x, o, m, n)
  BY ExtendIs
<1>2. /\ o \in 0..(N - 1) /\ m = N - o /\ Len(x.events) = m + n
      /\ \A k \in 1..m : x.events[k] = s.events[o + k]
      /\ \A k \in 1..m : x.modes[k] = IF k = 1 THEN STANCE ELSE s.modes[o + k]
      /\ \A k \in 1..n : x.events[m + k] = TileEvent(tpl, Back(s.events), k)
      /\ \A k \in 1..n : x.modes[m + k] = TileMode(tpl, k)
  BY <1>1 DEF ExtendShape
<1>3. N \in Nat \ {0} /\ Back(s.events) = s.events[N] /\ Back(s.events) \in Int
  BY ScheduleIs
<1> HIDE DEF x, N
<1>4. o + m = N /\ m \in Nat \ {0}
  BY <1>2, <1>3
<1> SUFFICES ASSUME NEW i \in 2..(m + n)
             PROVE  <<x.modes[i], x.events[i] - x.events[i - 1]>> \in A
  BY <1>2 DEF PhasesIn, x
<1>5. CASE i <= m
  <2>1. i \in 1..m /\ i - 1 \in 1..m /\ i # 1
    BY <1>5
  <2>2. o + i \in 2..N /\ o + (i - 1) = (o + i) - 1
    BY <1>3, <1>4, <1>5
  <2>3. <<s.modes[o + i], s.events[o + i] - s.events[(o + i) - 1]>> \in A
    BY <2>2 DEF PhasesIn, N
  <2> QED BY <1>2, <2>1, <2>2, <2>3
<1>6. CASE i > m
  <2>1. i - m \in 1..n /\ m + (i - m) = i /\ i - m \in Nat \ {0}
    BY <1>4, <1>6
  <2>2. PICK j \in 1..n : i = m + j /\ j \in Nat \ {0}
    BY <2>1
  <2>3. x.modes[i] = TileMode(tpl, j) /\ x.events[i] = TileEvent(tpl, Back(s.events), j)
    BY <1>2, <2>2
  <2>4. x.events[i - 1] = TileStart(tpl, Back(s.events), j)
    <3>1. CASE j = 1
      <4>1. i - 1 = m /\ m \in 1..m
        BY <1>4, <2>2, <3>1
      <4> QED BY <1>2, <1>3, <1>4, <3>1, <4>1 DEF TileStart
    <3>2. CASE j # 1
      <4>1. i - 1 = m + (j - 1) /\ j - 1 \in 1..n
        BY <1>4, <2>2, <3>2
      <4> QED BY <1>2, <3>2, <4>1 DEF TileStart
    <3> QED BY <3>1, <3>2
  <2> QED BY <1>3, <2>2, <2>3, <2>4, TiledPhase
<1> QED BY <1>4, <1>5, <1>6

(* x is s up to the start, then a stance of length T if a swing was        *)
(* running there, then the template.                                       *)
InsertShape(s, j, tpl, start, x, b, T, n) ==
  /\ j \in 1..(Len(s.events) + 1) /\ n \in Nat /\ n \in Multiples(tpl)
  /\ Len(x.events) = b + 1 + n
  /\ SameUpTo(s, x, j) /\ x.events[j] = start
  /\ \/ b = j - 1 /\ T = 0 /\ (s.modes[j] = STANCE \/ TransitionStance = 0)
     \/ /\ b = j /\ T = TransitionStance /\ s.modes[j] # STANCE
        /\ x.modes[j + 1] = STANCE
  /\ x.events[b + 1] = start + T
  /\ \A i \in 1..n : x.events[b + 1 + i] = TileEvent(tpl, start + T, i)
  /\ \A i \in 1..n : x.modes[b + 1 + i] = TileMode(tpl, i)

LEMMA InsertShapeIs ==
  ASSUME NEW s \in Schedules, WellFormed(s), NEW tpl \in Templates,
         NEW start \in Int, NEW final \in Int,
         NEW j, j = LowerBound(s.events, start)
  PROVE  \E b \in Nat, T \in Nat, n \in Nat :
           InsertShape(s, j, tpl, start, InsertTemplate(s, tpl, start, final), b, T, n)
<1> DEFINE T == TransitionTime(CutAt(s, start))
           w == WithTransition(CutAt(s, start), start)
           x == InsertTemplate(s, tpl, start, final)
           b == Len(w.events)
           N == Len(s.events)
<1>1. /\ Open(w) /\ T \in Nat /\ SameUpTo(s, w, j)
      /\ \/ b = j - 1 /\ (T = 0)
         \/ T > 0 /\ b = j /\ w.events[j] = start /\ w.modes[j + 1] = STANCE
      /\ s.modes[j] # STANCE => T = TransitionStance
      /\ s.modes[j] = STANCE => T = 0
  BY TransitionIs
<1>2. x = Tile(w, tpl, start + T, final)
  BY DEF InsertTemplate
<1>3. N \in Nat \ {0} /\ j \in 1..(N + 1)
  <2>1. s.events \in Seq(Int) /\ N \in Nat \ {0}
    BY ScheduleIs
  <2>2. j \in 1..(N + 1)
    BY <2>1, LowerBoundIs
  <2> QED BY <2>1, <2>2
<1> HIDE DEF T, w, x, N
<1>4. start + T \in Int
  BY <1>1
<1>5. PICK n : TileShape(w, b, tpl, start + T, x, n)
  BY <1>1, <1>2, <1>4, TileIs DEF Open
<1> HIDE DEF b
<1>6. /\ b \in Nat /\ n \in Nat /\ n \in Multiples(tpl) /\ Len(x.events) = b + 1 + n
      /\ \A i \in 1..b : x.events[i] = w.events[i]
      /\ x.events[b + 1] = start + T
      /\ \A i \in 1..n : x.events[b + 1 + i] = TileEvent(tpl, start + T, i)
      /\ \A i \in 1..(b + 1) : x.modes[i] = w.modes[i]
      /\ \A i \in 1..n : x.modes[b + 1 + i] = TileMode(tpl, i)
  BY <1>5 DEF TileShape
<1>7. SameUpTo(s, x, j)
  <2>1. ASSUME NEW i \in 1..(j - 1) PROVE x.events[i] = s.events[i]
    <3>1. i \in 1..b
      BY <1>1, <1>3, <1>6
    <3> QED BY <1>1, <1>6, <3>1 DEF SameUpTo
  <2>2. ASSUME NEW i \in 1..j PROVE x.modes[i] = s.modes[i]
    <3>1. i \in 1..(b + 1)
      BY <1>1, <1>3, <1>6, SMTT(30)
    <3> QED BY <1>1, <1>6, <3>1 DEF SameUpTo
  <2> QED BY <2>1, <2>2 DEF SameUpTo
<1>8. /\ x.events[j] = start
      /\ \/ b = j - 1 /\ T = 0 /\ (s.modes[j] = STANCE \/ TransitionStance = 0)
         \/ b = j /\ T = TransitionStance /\ s.modes[j] # STANCE /\ x.modes[j + 1] = STANCE
  <2>1. CASE b = j - 1 /\ (T = 0)
    <3>1. b + 1 = j /\ start + T = start
      BY <1>3, <2>1
    <3> QED BY <1>1, <1>6, <2>1, <3>1
  <2>2. CASE T > 0 /\ b = j /\ w.events[j] = start /\ w.modes[j + 1] = STANCE
    <3>1. j \in 1..b /\ j + 1 \in 1..(b + 1) /\ ~(T = 0)
      BY <1>3, <2>2
    <3> QED BY <1>1, <1>6, <2>2, <3>1
  <2> QED BY <1>1, <2>1, <2>2
<1>9. InsertShape(s, j, tpl, start, x, b, T, n)
  BY <1>3, <1>6, <1>7, <1>8 DEF InsertShape, N
<1> QED BY <1>1, <1>6, <1>9 DEF x

(* An insertion adds phases of the template, the transition, and what is   *)
(* left of the phase it ends.                                              *)
LEMMA InsertPhases ==
  ASSUME NEW s \in Schedules, WellFormed(s), NEW tpl \in Templates,
         NEW start \in Int, NEW final \in Int,
         NEW A, PhasesIn(s, A), TemplateIn(tpl, A), <<STANCE, TransitionStance>> \in A,
         NEW j, j = LowerBound(s.events, start),
         j > 1 => <<s.modes[j], start - s.events[j - 1]>> \in A
  PROVE  PhasesIn(InsertTemplate(s, tpl, start, final), A)
<1> DEFINE x == InsertTemplate(s, tpl, start, final)
           N == Len(s.events)
<1>1. PICK b \in Nat, T \in Nat, n \in Nat : InsertShape(s, j, tpl, start, x, b, T, n)
  BY InsertShapeIs
<1>2. /\ j \in 1..(N + 1) /\ Len(x.events) = b + 1 + n
      /\ SameUpTo(s, x, j) /\ x.events[j] = start
      /\ \/ b = j - 1 /\ T = 0
         \/ b = j /\ T = TransitionStance /\ x.modes[j + 1] = STANCE
      /\ x.events[b + 1] = start + T
      /\ \A i \in 1..n : x.events[b + 1 + i] = TileEvent(tpl, start + T, i)
      /\ \A i \in 1..n : x.modes[b + 1 + i] = TileMode(tpl, i)
  BY <1>1 DEF InsertShape
<1>3. N \in Nat \ {0}
  BY ScheduleIs
<1> HIDE DEF x, N
<1> SUFFICES ASSUME NEW i \in 2..(b + 1 + n)
             PROVE  <<x.modes[i], x.events[i] - x.events[i - 1]>> \in A
  BY <1>2 DEF PhasesIn, x
<1>4. CASE i < j
  <2>1. i \in 1..(j - 1) /\ i - 1 \in 1..(j - 1) /\ i \in 1..j /\ i \in 2..N
    BY <1>2, <1>3, <1>4
  <2>2. x.events[i] = s.events[i] /\ x.events[i - 1] = s.events[i - 1] /\ x.modes[i] = s.modes[i]
    BY <1>2, <2>1 DEF SameUpTo
  <2> QED BY <2>1, <2>2 DEF PhasesIn, N
<1>5. CASE i = j
  <2>1. i - 1 \in 1..(j - 1) /\ i \in 1..j
    BY <1>2, <1>3, <1>5, SMTT(30)
  <2>2. x.events[i - 1] = s.events[i - 1] /\ x.modes[i] = s.modes[i]
    BY <1>2, <2>1 DEF SameUpTo
  <2> QED BY <1>2, <1>5, <2>2, SMTT(30)
<1>6. CASE i > j /\ i <= b + 1
  <2>1. b = j /\ i = j + 1 /\ i = b + 1 /\ i - 1 = j
    BY <1>2, <1>3, <1>6
  <2>2. x.modes[i] = STANCE /\ x.events[i] = start + T /\ x.events[i - 1] = start
        /\ T = TransitionStance
    <3>1. ~(b = j - 1)
      BY <1>2, <1>3, <2>1
    <3> QED BY <1>2, <2>1, <3>1
  <2> QED BY <2>2
<1>7. CASE i > b + 1
  <2>1. i - (b + 1) \in 1..n /\ b + 1 + (i - (b + 1)) = i /\ i - (b + 1) \in Nat \ {0}
    BY <1>7
  <2>2. PICK k \in 1..n : i = b + 1 + k /\ k \in Nat \ {0}
    BY <2>1
  <2>3. x.modes[i] = TileMode(tpl, k) /\ x.events[i] = TileEvent(tpl, start + T, k)
    BY <1>2, <2>2
  <2>4. x.events[i - 1] = TileStart(tpl, start + T, k)
    <3>1. CASE k = 1
      <4>1. i - 1 = b + 1
        BY <2>2, <3>1
      <4> QED BY <1>2, <3>1, <4>1 DEF TileStart
    <3>2. CASE k # 1
      <4>1. i - 1 = b + 1 + (k - 1) /\ k - 1 \in 1..n
        BY <2>2, <3>2
      <4> QED BY <1>2, <3>2, <4>1 DEF TileStart
    <3> QED BY <3>1, <3>2
  <2>5. start + T \in Int
    OBVIOUS
  <2> QED BY <2>2, <2>3, <2>4, <2>5, TiledPhase
<1> QED BY <1>2, <1>3, <1>4, <1>5, <1>6, <1>7

-----------------------------------------------------------------------------
(* When the last swing of a schedule is over, and where one begins.        *)
StopsBy(s, e) == \A i \in 2..Len(s.events) : s.modes[i] # STANCE => s.events[i] <= e

SwingFrom(s, a, e) ==
  \E i \in 2..Len(s.events) : s.modes[i] # STANCE /\ s.events[i - 1] \in a..e

(* The same, or the schedule ends at the event where it is to begin.       *)
StartsBy(s, a, e) ==
  \E i \in 1..Len(s.events) :
    s.events[i] \in a..e /\ (i = Len(s.events) \/ s.modes[i + 1] # STANCE)

AllStance(tpl) == \A i \in 1..Len(tpl.modes) : tpl.modes[i] = STANCE

LEMMA ExtendStops ==
  ASSUME NEW s \in Schedules, WellFormed(s), NEW tpl \in Templates, AllStance(tpl),
         NEW lower \in Int, NEW upper \in Int, NEW e \in Int, StopsBy(s, e)
  PROVE  StopsBy(Extend(s, tpl, lower, upper), e)
<1> DEFINE x == Extend(s, tpl, lower, upper)
           N == Len(s.events)
<1>1. PICK o \in Nat, m \in Nat, n \in Nat : ExtendShape(s, lower, tpl, x, o, m, n)
  BY ExtendIs
<1>2. /\ o \in 0..(N - 1) /\ m = N - o /\ Len(x.events) = m + n
      /\ \A k \in 1..m : x.events[k] = s.events[o + k]
      /\ \A k \in 1..m : x.modes[k] = IF k = 1 THEN STANCE ELSE s.modes[o + k]
      /\ \A k \in 1..n : x.modes[m + k] = TileMode(tpl, k)
  BY <1>1 DEF ExtendShape
<1>3. N \in Nat \ {0}
  BY ScheduleIs
<1> HIDE DEF x, N
<1> SUFFICES ASSUME NEW i \in 2..(m + n), x.modes[i] # STANCE
             PROVE  x.events[i] <= e
  BY <1>2 DEF StopsBy, x
<1>4. CASE i <= m
  <2>1. i \in 1..m /\ i # 1
    BY <1>4
  <2>2. o + i \in 2..N
    BY <1>2, <1>3, <1>4
  <2>3. s.modes[o + i] # STANCE => s.events[o + i] <= e
    BY <2>2 DEF StopsBy, N
  <2> QED BY <1>2, <2>1, <2>3
<1>5. CASE i > m
  <2>1. i - m \in 1..n /\ m + (i - m) = i /\ i - m \in Nat \ {0}
    BY <1>5
  <2>2. PICK j \in 1..n : i = m + j /\ j \in Nat \ {0}
    BY <2>1
  <2>3. PICK p \in 1..Len(tpl.modes) : TileMode(tpl, j) = tpl.modes[p]
    BY <1>3, <2>2, TilePhase
  <2> QED BY <1>2, <2>2, <2>3 DEF AllStance
<1> QED BY <1>4, <1>5

LEMMA InsertStops ==
  ASSUME NEW s \in Schedules, WellFormed(s), NEW tpl \in Templates, AllStance(tpl),
         NEW start \in Int, NEW final \in Int, NEW e \in Int,
         NEW j, j = LowerBound(s.events, start),
         j > 1 => s.events[j - 1] <= e, s.modes[j] # STANCE => start <= e
  PROVE  StopsBy(InsertTemplate(s, tpl, start, final), e)
<1> DEFINE x == InsertTemplate(s, tpl, start, final)
           N == Len(s.events)
<1>1. PICK b \in Nat, T \in Nat, n \in Nat : InsertShape(s, j, tpl, start, x, b, T, n)
  BY InsertShapeIs
<1>2. /\ j \in 1..(N + 1) /\ Len(x.events) = b + 1 + n
      /\ SameUpTo(s, x, j) /\ x.events[j] = start
      /\ b = j - 1 \/ (b = j /\ x.modes[j + 1] = STANCE)
      /\ \A i \in 1..n : x.modes[b + 1 + i] = TileMode(tpl, i)
  BY <1>1 DEF InsertShape
<1>3. N \in Nat \ {0} /\ Rises(s.events) /\ s.events \in Seq(Int)
      /\ \A i \in 1..N : s.events[i] \in Int
  BY ScheduleIs
<1> HIDE DEF x, N
<1> SUFFICES ASSUME NEW i \in 2..(b + 1 + n), x.modes[i] # STANCE
             PROVE  x.events[i] <= e
  BY <1>2 DEF StopsBy, x
<1>4. CASE i < j
  <2>1. i \in 1..(j - 1) /\ j - 1 \in 1..N /\ i \in 1..N /\ j > 1
    BY <1>2, <1>3, <1>4
  <2>2. x.events[i] = s.events[i]
    BY <1>2, <2>1 DEF SameUpTo
  <2>3. s.events[i] <= s.events[j - 1]
    <3>1. CASE i = j - 1
      BY <1>3, <2>1, <3>1
    <3>2. CASE i # j - 1
      <4>1. i \in 1..Len(s.events) /\ j - 1 \in (i + 1)..Len(s.events)
        BY <1>2, <1>3, <2>1, <3>2 DEF N
      <4>2. s.events[i] < s.events[j - 1]
        BY <1>3, <4>1, RisesFar
      <4> QED BY <1>3, <2>1, <4>2, SMTT(30)
    <3> QED BY <3>1, <3>2
  <2> QED BY <1>3, <2>1, <2>2, <2>3, SMTT(30)
<1>5. CASE i = j
  <2>1. x.modes[i] = s.modes[j]
    BY <1>2, <1>5 DEF SameUpTo
  <2> QED BY <1>2, <1>5, <2>1
<1>6. CASE i > j /\ i <= b + 1
  <2>1. b = j /\ i = j + 1
    BY <1>2, <1>3, <1>6
  <2>2. b # j - 1
    BY <1>2, <2>1
  <2> QED BY <1>2, <2>1, <2>2
<1>7. CASE i > b + 1
  <2>1. i - (b + 1) \in 1..n /\ b + 1 + (i - (b + 1)) = i /\ i - (b + 1) \in Nat \ {0}
    BY <1>7
  <2>2. PICK k \in 1..n : i = b + 1 + k /\ k \in Nat \ {0}
    BY <2>1
  <2>3. PICK p \in 1..Len(tpl.modes) : TileMode(tpl, k) = tpl.modes[p]
    BY <2>2, TilePhase
  <2> QED BY <1>2, <2>2, <2>3 DEF AllStance
<1> QED BY <1>2, <1>3, <1>4, <1>5, <1>6, <1>7

LEMMA FirstTile ==
  ASSUME NEW tpl \in Templates
  PROVE  TileMode(tpl, 1) = tpl.modes[1]
<1> DEFINE k == Len(tpl.modes)
<1>1. k \in Nat \ {0}
  BY TemplateIs
<1>2. PICK i \in Nat : i = 1
  OBVIOUS
<1> DEFINE m == (i - 1) % k
<1>3. TileMode(tpl, i) = tpl.modes[m + 1]
  BY DEF TileMode
<1> HIDE DEF k
<1>4. m = 0
  <2>1. 0 = k * 0 + 0 /\ 0 \in 0..(k - 1)
    BY <1>1
  <2>2. 0 % k = 0
    BY <1>1, <2>1, DividedOnly
  <2> QED BY <1>2, <2>2
<1> HIDE DEF m
<1> QED BY <1>2, <1>3, <1>4

(* A template that begins with a swing begins it where it is inserted, or  *)
(* after the transition.                                                   *)
LEMMA InsertStarts ==
  ASSUME NEW s \in Schedules, WellFormed(s), NEW tpl \in Templates, tpl.modes[1] # STANCE,
         NEW start \in Int, NEW final \in Int, NEW a \in Int, NEW e \in Int, a <= start,
         NEW j, j = LowerBound(s.events, start),
         start <= e, s.modes[j] # STANCE => start + TransitionStance <= e
  PROVE  StartsBy(InsertTemplate(s, tpl, start, final), a, e)
<1> DEFINE x == InsertTemplate(s, tpl, start, final)
<1>1. PICK b \in Nat, T \in Nat, n \in Nat : InsertShape(s, j, tpl, start, x, b, T, n)
  BY InsertShapeIs
<1>2. /\ Len(x.events) = b + 1 + n /\ x.events[b + 1] = start + T
      /\ T = 0 \/ (T = TransitionStance /\ s.modes[j] # STANCE)
      /\ \A i \in 1..n : x.modes[b + 1 + i] = TileMode(tpl, i)
  BY <1>1 DEF InsertShape
<1> HIDE DEF x
<1>3. start + T \in a..e
  BY <1>2
<1>4. b + 1 = Len(x.events) \/ x.modes[(b + 1) + 1] # STANCE
  <2>1. CASE n = 0
    BY <1>2, <2>1
  <2>2. CASE n # 0
    <3>1. 1 \in 1..n
      BY <2>2
    <3>2. TileMode(tpl, 1) = tpl.modes[1]
      BY FirstTile
    <3> QED BY <1>2, <3>1, <3>2
  <2> QED BY <2>1, <2>2
<1>5. b + 1 \in 1..Len(x.events)
  BY <1>2
<1> QED BY <1>2, <1>3, <1>4, <1>5 DEF StartsBy, x

(* Extending shows it, and forgets nothing from the lower bound on.        *)
LEMMA ExtendStarts ==
  ASSUME NEW s \in Schedules, WellFormed(s), NEW tpl \in Templates, tpl.modes[1] # STANCE,
         NEW lower \in Int, NEW upper \in Int, NEW a \in Int, NEW e \in Int,
         lower <= a, e < upper, StartsBy(s, a, e)
  PROVE  SwingFrom(Extend(s, tpl, lower, upper), a, e)
<1> DEFINE x == Extend(s, tpl, lower, upper)
           N == Len(s.events)
<1>1. PICK o \in Nat, m \in Nat, n \in Nat : ExtendShape(s, lower, tpl, x, o, m, n)
  BY ExtendIs
<1>2. /\ o \in 0..(N - 1) /\ m = N - o /\ Len(x.events) = m + n
      /\ \A k \in 1..m : x.events[k] = s.events[o + k]
      /\ \A k \in 1..m : x.modes[k] = IF k = 1 THEN STANCE ELSE s.modes[o + k]
      /\ \A k \in 1..n : x.modes[m + k] = TileMode(tpl, k)
      /\ o > 0 => s.events[o + 1] < lower
  BY <1>1 DEF ExtendShape
<1>3. /\ N \in Nat \ {0} /\ Rises(s.events) /\ s.events \in Seq(Int)
      /\ \A i \in 1..N : s.events[i] \in Int
  BY ScheduleIs
<1>4. Back(x.events) >= upper /\ Back(x.events) = x.events[m + n]
  <2>1. Back(x.events) >= upper
    BY ExtendIs
  <2> QED BY <1>2, <2>1 DEF Back
<1> HIDE DEF x, N
<1>5. PICK i \in 1..N : s.events[i] \in a..e /\ (i = N \/ s.modes[i + 1] # STANCE)
  BY DEF StartsBy, N
<1>6. o < i
  <2> SUFFICES ASSUME i <= o PROVE FALSE
    BY <1>2, <1>3
  <2>1. i \in 1..Len(s.events) /\ o + 1 \in (i + 1)..Len(s.events) /\ o > 0
    BY <1>2, <1>3 DEF N
  <2>2. s.events[i] < s.events[o + 1]
    BY <1>3, <2>1, RisesFar
  <2>3. s.events[i] \in Int /\ s.events[o + 1] \in Int /\ s.events[i] >= a
    BY <1>3, <1>5, <2>1 DEF N
  <2> QED BY <1>2, <2>1, <2>2, <2>3, SMTT(30)
<1>7. i - o \in 1..m /\ o + (i - o) = i /\ (i - o) + 1 # 1
  BY <1>2, <1>3, <1>6
<1>8. x.events[i - o] = s.events[i]
  BY <1>2, <1>7
<1>9. ASSUME i = N PROVE i - o \in 1..(m + n - 1) /\ x.modes[(i - o) + 1] # STANCE
  <2>1. i - o = m
    BY <1>2, <1>3, <1>9
  <2>2. n # 0
    <3> SUFFICES ASSUME n = 0 PROVE FALSE
      OBVIOUS
    <3>1. x.events[m + n] = s.events[i]
      BY <1>8, <2>1
    <3>2. s.events[i] \in Int /\ s.events[i] <= e
      BY <1>3, <1>5
    <3> QED BY <1>4, <3>1, <3>2
  <2>3. 1 \in 1..n
    BY <2>2
  <2>4. TileMode(tpl, 1) = tpl.modes[1]
    BY FirstTile
  <2>5. x.modes[m + 1] # STANCE
    BY <1>2, <2>3, <2>4
  <2>6. i - o \in 1..(m + n - 1) /\ x.modes[(i - o) + 1] # STANCE
    BY <1>7, <2>1, <2>3, <2>5
  <2> QED BY <1>7, <2>6
<1>10. ASSUME i # N PROVE i - o \in 1..(m + n - 1) /\ x.modes[(i - o) + 1] # STANCE
  <2>1. i + 1 \in 1..N
    BY <1>3, <1>10
  <2>2. (i - o) + 1 \in 1..m /\ o + ((i - o) + 1) = i + 1
    BY <1>2, <1>3, <1>7, <2>1
  <2>3. x.modes[(i - o) + 1] # STANCE
    BY <1>2, <1>5, <1>7, <1>10, <2>2
  <2>4. i - o \in 1..(m + n - 1)
    BY <1>7, <2>2
  <2> QED BY <2>3, <2>4
<1>11. i - o \in 1..(m + n - 1) /\ x.modes[(i - o) + 1] # STANCE
  BY <1>9, <1>10
<1>12. PICK q \in 2..(m + n) : q = (i - o) + 1 /\ q - 1 = i - o
  BY <1>11
<1>13. x.modes[q] # STANCE /\ x.events[q - 1] \in a..e
  BY <1>5, <1>8, <1>11, <1>12
<1> QED BY <1>2, <1>12, <1>13 DEF SwingFrom, x

(* The first event of the schedule: forgetting moves it up to the bound.   *)
LEMMA FirstEvent ==
  ASSUME NEW s \in Schedules, WellFormed(s), NEW tpl \in Templates,
         NEW t1 \in Int, NEW t2 \in Int, NEW e \in Int, s.events[1] <= e
  PROVE  /\ t1 <= e + 1 => Extend(s, tpl, t1, t2).events[1] <= e
         /\ t1 <= e => InsertTemplate(s, tpl, t1, t2).events[1] <= e
<1>1. /\ Len(s.events) \in Nat \ {0} /\ \A i \in 1..Len(s.events) : s.events[i] \in Int
  BY ScheduleIs
<1>2. ASSUME t1 <= e + 1 PROVE Extend(s, tpl, t1, t2).events[1] <= e
  <2> DEFINE x == Extend(s, tpl, t1, t2)
  <2>1. PICK o \in Nat, m \in Nat, n \in Nat : ExtendShape(s, t1, tpl, x, o, m, n)
    BY ExtendIs
  <2>2. /\ o \in 0..(Len(s.events) - 1) /\ m = Len(s.events) - o
        /\ \A k \in 1..m : x.events[k] = s.events[o + k]
        /\ o > 0 => s.events[o + 1] < t1
    BY <2>1 DEF ExtendShape
  <2> HIDE DEF x
  <2>3. 1 \in 1..m /\ o + 1 \in 1..Len(s.events)
    BY <1>1, <2>2
  <2>4. x.events[1] = s.events[o + 1] /\ s.events[o + 1] \in Int
    BY <1>1, <2>2, <2>3
  <2>5. x.events[1] <= e
    <3>1. CASE o = 0
      BY <2>4, <3>1
    <3>2. CASE o > 0
      BY <1>2, <2>2, <2>4, <3>2
    <3> QED BY <3>1, <3>2
  <2> QED BY <2>5 DEF x
<1>3. ASSUME t1 <= e PROVE InsertTemplate(s, tpl, t1, t2).events[1] <= e
  <2> DEFINE x == InsertTemplate(s, tpl, t1, t2)
             j == LowerBound(s.events, t1)
  <2>1. PICK b \in Nat, T \in Nat, n \in Nat : InsertShape(s, j, tpl, t1, x, b, T, n)
    BY InsertShapeIs
  <2>2. j \in 1..(Len(s.events) + 1) /\ SameUpTo(s, x, j) /\ x.events[j] = t1
    BY <2>1 DEF InsertShape
  <2> HIDE DEF x, j
  <2>3. CASE j = 1
    BY <1>3, <2>2, <2>3 DEF x
  <2>4. CASE j # 1
    <3>1. 1 \in 1..(j - 1)
      BY <1>1, <2>2, <2>4
    <3> QED BY <2>2, <3>1 DEF SameUpTo, x
  <2> QED BY <2>3, <2>4
<1> QED BY <1>2, <1>3

-----------------------------------------------------------------------------
(* Which modes may follow each other: pairs in C, which has all those with *)
(* stance. What a template tiles begins with stance, with a mode that may  *)
(* follow, or with itself.                                                 *)
PairsIn(s, C) == \A i \in 1..Len(s.events) : <<s.modes[i], s.modes[i + 1]>> \in C

TemplatePairs(tpl, C) ==
  /\ \A i \in 1..(Len(tpl.modes) - 1) : <<tpl.modes[i], tpl.modes[i + 1]>> \in C
  /\ <<tpl.modes[Len(tpl.modes)], tpl.modes[1]>> \in C

StanceFits(C) == \A m \in Mode : <<STANCE, m>> \in C /\ <<m, STANCE>> \in C

LEMMA TilePair ==
  ASSUME NEW tpl \in Templates, NEW C, TemplatePairs(tpl, C), NEW i \in Nat \ {0}
  PROVE  <<TileMode(tpl, i), TileMode(tpl, i + 1)>> \in C
<1> DEFINE k == Len(tpl.modes)
           m == (i - 1) % k
<1>1. k \in Nat \ {0}
  BY TemplateIs
<1>2. TileMode(tpl, i) = tpl.modes[m + 1]
  BY DEF TileMode
<1>3. \A q : TileMode(tpl, q) = tpl.modes[((q - 1) % k) + 1]
  BY DEF TileMode
<1>4. i - 1 \in Nat /\ (i - 1) + 1 = i /\ (i + 1) - 1 = i
  OBVIOUS
<1> HIDE DEF k
<1>5. \/ m = k - 1 /\ i % k = 0
      \/ m < k - 1 /\ i % k = m + 1
  BY <1>1, <1>4, DividedNext
<1>6. m \in 0..(k - 1)
  BY <1>1, <1>4, Divided
<1>7. TileMode(tpl, i + 1) = tpl.modes[(i % k) + 1]
  BY <1>3, <1>4
<1> HIDE DEF m
<1>8. CASE m = k - 1 /\ i % k = 0
  <2>1. m + 1 = k /\ (i % k) + 1 = 1
    BY <1>1, <1>8
  <2> QED BY <1>2, <1>7, <2>1 DEF TemplatePairs, k
<1>9. CASE m < k - 1 /\ i % k = m + 1
  <2>1. m + 1 \in 1..(k - 1)
    BY <1>1, <1>6, <1>9
  <2>2. <<tpl.modes[m + 1], tpl.modes[(m + 1) + 1]>> \in C
    BY <2>1 DEF TemplatePairs, k
  <2> QED BY <1>2, <1>7, <1>9, <2>2
<1> QED BY <1>5, <1>8, <1>9

LEMMA LastTile ==
  ASSUME NEW tpl \in Templates, NEW n \in Multiples(tpl), n # 0
  PROVE  TileMode(tpl, n) = tpl.modes[Len(tpl.modes)]
<1> DEFINE k == Len(tpl.modes)
<1>1. k \in Nat \ {0}
  BY TemplateIs
<1>2. TileMode(tpl, n) = tpl.modes[((n - 1) % k) + 1]
  BY DEF TileMode
<1>3. PICK q \in Nat : n = q * k
  BY DEF Multiples
<1> HIDE DEF k
<1>4. q # 0
  BY <1>1, <1>3
<1>5. PICK p \in Nat : q = p + 1
  <2>1. q - 1 \in Nat /\ q = (q - 1) + 1
    BY <1>4
  <2> QED BY <2>1
<1>6. n = k * p + k /\ k * p \in Nat
  BY <1>1, <1>3, <1>5
<1>7. n - 1 \in Nat /\ n - 1 = k * p + (k - 1) /\ k - 1 \in 0..(k - 1)
  BY <1>1, <1>6
<1>8. (n - 1) % k = k - 1
  BY <1>1, <1>7, DividedOnly
<1>9. ((n - 1) % k) + 1 = k
  BY <1>1, <1>8
<1> QED BY <1>2, <1>9 DEF k

LEMMA ExtendPairs ==
  ASSUME NEW s \in Schedules, WellFormed(s), NEW tpl \in Templates,
         NEW lower \in Int, NEW upper \in Int,
         NEW C, StanceFits(C), PairsIn(s, C), TemplatePairs(tpl, C),
         <<s.modes[Len(s.events)], tpl.modes[1]>> \in C,
         NEW x, x = Extend(s, tpl, lower, upper)
  PROVE  PairsIn(x, C) /\ <<x.modes[Len(x.events)], tpl.modes[1]>> \in C
<1> DEFINE N == Len(s.events)
<1>1. PICK o \in Nat, m \in Nat, n \in Nat : ExtendShape(s, lower, tpl, x, o, m, n)
  BY ExtendIs
<1>2. /\ o \in 0..(N - 1) /\ m = N - o /\ Len(x.events) = m + n /\ n \in Multiples(tpl)
      /\ \A k \in 1..m : x.modes[k] = IF k = 1 THEN STANCE ELSE s.modes[o + k]
      /\ \A k \in 1..n : x.modes[m + k] = TileMode(tpl, k)
      /\ x \in Schedules /\ WellFormed(x)
  BY <1>1 DEF ExtendShape
<1>3. /\ N \in Nat \ {0} /\ \A k \in 1..(N + 1) : s.modes[k] \in Mode
      /\ \A k \in 1..(m + n + 1) : x.modes[k] \in Mode
      /\ x.modes[m + n + 1] = STANCE
  BY <1>2, ScheduleIs
<1>4. TileMode(tpl, 1) = tpl.modes[1] /\ tpl.modes[1] \in Mode
  <2>1. Len(tpl.modes) \in Nat \ {0} /\ \A i \in 1..Len(tpl.modes) : tpl.modes[i] \in Mode
    BY TemplateIs
  <2>2. 1 \in 1..Len(tpl.modes)
    BY <2>1
  <2> QED BY <2>1, <2>2, FirstTile
<1>5. <<s.modes[N], tpl.modes[1]>> \in C
  OBVIOUS
<1> HIDE DEF N
<1>6. o + m = N /\ m \in Nat \ {0} /\ m \in 1..m
  BY <1>2, <1>3
<1>7. <<x.modes[m], tpl.modes[1]>> \in C
  <2>1. CASE m = 1
    BY <1>2, <1>4, <1>6, <2>1 DEF StanceFits
  <2>2. CASE m # 1
    BY <1>2, <1>5, <1>6, <2>2
  <2> QED BY <2>1, <2>2
<1>8. <<x.modes[m + n], tpl.modes[1]>> \in C
  <2>1. CASE n = 0
    BY <1>6, <1>7, <2>1
  <2>2. CASE n # 0
    <3>1. n \in 1..n
      BY <2>2
    <3>2. x.modes[m + n] = tpl.modes[Len(tpl.modes)]
      BY <1>2, <2>2, <3>1, LastTile
    <3> QED BY <3>2 DEF TemplatePairs
  <2> QED BY <2>1, <2>2
<1>9. ASSUME NEW i \in 1..(m + n) PROVE <<x.modes[i], x.modes[i + 1]>> \in C
  <2>1. CASE i < m
    <3>1. i \in 1..m /\ i + 1 \in 1..m /\ i + 1 # 1 /\ o + (i + 1) = (o + i) + 1
          /\ o + i \in 1..N /\ o + (i + 1) \in 1..(N + 1)
      BY <1>2, <1>3, <1>6, <2>1
    <3>2. x.modes[i + 1] = s.modes[(o + i) + 1] /\ s.modes[(o + i) + 1] \in Mode
      BY <1>2, <1>3, <3>1
    <3>3. CASE i = 1
      BY <1>2, <3>1, <3>2, <3>3 DEF StanceFits
    <3>4. CASE i # 1
      <4>1. <<s.modes[o + i], s.modes[(o + i) + 1]>> \in C
        BY <3>1 DEF PairsIn, N
      <4> QED BY <1>2, <3>1, <3>2, <3>4, <4>1
    <3> QED BY <3>3, <3>4
  <2>2. CASE i = m /\ n # 0
    <3>1. 1 \in 1..n
      BY <2>2
    <3>2. x.modes[i + 1] = tpl.modes[1]
      BY <1>2, <1>4, <2>2, <3>1
    <3> QED BY <1>7, <2>2, <3>2
  <2>3. CASE m < i /\ i < m + n
    <3>1. i - m \in 1..n /\ m + (i - m) = i /\ (i - m) + 1 \in 1..n /\ i - m \in Nat \ {0}
      BY <1>6, <2>3
    <3>2. PICK q \in Nat \ {0} : q \in 1..n /\ q + 1 \in 1..n /\ i = m + q
      BY <3>1
    <3>3. m + (q + 1) = i + 1
      BY <1>6, <3>2
    <3>4. x.modes[i] = TileMode(tpl, q) /\ x.modes[i + 1] = TileMode(tpl, q + 1)
      BY <1>2, <3>2, <3>3
    <3> QED BY <3>2, <3>4, TilePair
  <2>4. CASE i = m + n
    <3>1. i \in 1..(m + n + 1) /\ i + 1 = m + n + 1
      BY <1>6, <2>4
    <3>2. x.modes[i] \in Mode /\ x.modes[i + 1] = STANCE
      BY <1>3, <3>1
    <3> QED BY <3>2 DEF StanceFits
  <2> QED BY <1>6, <2>1, <2>2, <2>3, <2>4
<1> QED BY <1>2, <1>8, <1>9 DEF PairsIn

(* A transition that takes time comes before what is inserted in a swing.  *)
LEMMA InsertPairs ==
  ASSUME NEW s \in Schedules, WellFormed(s), NEW tpl \in Templates,
         NEW start \in Int, NEW final \in Int,
         NEW C, StanceFits(C), PairsIn(s, C), TemplatePairs(tpl, C),
         TransitionStance # 0,
         NEW x, x = InsertTemplate(s, tpl, start, final)
  PROVE  PairsIn(x, C) /\ <<x.modes[Len(x.events)], tpl.modes[1]>> \in C
<1> DEFINE N == Len(s.events)
           j == LowerBound(s.events, start)
<1>1. PICK b \in Nat, T \in Nat, n \in Nat : InsertShape(s, j, tpl, start, x, b, T, n)
  BY InsertShapeIs
<1>2. /\ j \in 1..(N + 1) /\ Len(x.events) = b + 1 + n /\ n \in Multiples(tpl)
      /\ \A i \in 1..j : x.modes[i] = s.modes[i]
      /\ (b = j - 1 /\ s.modes[j] = STANCE) \/ (b = j /\ x.modes[j + 1] = STANCE)
      /\ \A i \in 1..n : x.modes[b + 1 + i] = TileMode(tpl, i)
  BY <1>1 DEF InsertShape, SameUpTo
<1>3. x \in Schedules /\ WellFormed(x)
  BY InsertIs
<1>4. /\ N \in Nat \ {0} /\ \A k \in 1..(N + 1) : s.modes[k] \in Mode
      /\ \A k \in 1..((b + 1 + n) + 1) : x.modes[k] \in Mode
      /\ x.modes[(b + 1 + n) + 1] = STANCE
  BY <1>2, <1>3, ScheduleIs
<1>5. TileMode(tpl, 1) = tpl.modes[1] /\ tpl.modes[1] \in Mode
  <2>1. Len(tpl.modes) \in Nat \ {0} /\ \A i \in 1..Len(tpl.modes) : tpl.modes[i] \in Mode
    BY TemplateIs
  <2>2. 1 \in 1..Len(tpl.modes)
    BY <2>1
  <2> QED BY <2>1, <2>2, FirstTile
<1> HIDE DEF N, j
<1>6. x.modes[b + 1] = STANCE
  <2>1. CASE b = j - 1 /\ s.modes[j] = STANCE
    <3>1. b + 1 = j /\ j \in 1..j
      BY <1>2, <1>4, <2>1
    <3> QED BY <1>2, <2>1, <3>1
  <2>2. CASE b = j /\ x.modes[j + 1] = STANCE
    BY <2>2
  <2> QED BY <1>2, <2>1, <2>2
<1>7. <<x.modes[b + 1 + n], tpl.modes[1]>> \in C
  <2>1. CASE n = 0
    <3>1. b + 1 + n = b + 1
      BY <2>1
    <3> QED BY <1>5, <1>6, <3>1 DEF StanceFits
  <2>2. CASE n # 0
    <3>1. n \in 1..n
      BY <2>2
    <3>2. x.modes[b + 1 + n] = tpl.modes[Len(tpl.modes)]
      BY <1>2, <2>2, <3>1, LastTile
    <3> QED BY <3>2 DEF TemplatePairs
  <2> QED BY <2>1, <2>2
<1>8. ASSUME NEW i \in 1..(b + 1 + n) PROVE <<x.modes[i], x.modes[i + 1]>> \in C
  <2>1. /\ i \in 1..((b + 1 + n) + 1) /\ i + 1 \in 1..((b + 1 + n) + 1)
        /\ x.modes[i] \in Mode /\ x.modes[i + 1] \in Mode
    <3>1. i \in 1..((b + 1 + n) + 1) /\ i + 1 \in 1..((b + 1 + n) + 1)
      OBVIOUS
    <3> QED BY <1>4, <3>1
  <2>2. CASE i < j
    <3>1. i \in 1..j /\ i + 1 \in 1..j /\ i \in 1..N
      BY <1>2, <1>4, <2>2
    <3>2. <<s.modes[i], s.modes[i + 1]>> \in C
      BY <3>1 DEF PairsIn, N
    <3> QED BY <1>2, <3>1, <3>2
  <2>3. CASE i >= j /\ i < b + 1
    <3>1. i + 1 = b + 1
      BY <1>2, <1>4, <2>3
    <3> QED BY <1>6, <2>1, <3>1 DEF StanceFits
  <2>4. CASE i = b + 1
    BY <1>6, <2>1, <2>4 DEF StanceFits
  <2>5. CASE b + 1 < i /\ i < b + 1 + n
    <3>1. /\ i - (b + 1) \in 1..n /\ b + 1 + (i - (b + 1)) = i
          /\ (i - (b + 1)) + 1 \in 1..n /\ i - (b + 1) \in Nat \ {0}
      BY <2>5
    <3>2. PICK q \in Nat \ {0} : q \in 1..n /\ q + 1 \in 1..n /\ i = b + 1 + q
      BY <3>1
    <3>3. b + 1 + (q + 1) = i + 1
      BY <3>2
    <3>4. x.modes[i] = TileMode(tpl, q) /\ x.modes[i + 1] = TileMode(tpl, q + 1)
      BY <1>2, <3>2, <3>3
    <3> QED BY <3>2, <3>4, TilePair
  <2>6. CASE i = b + 1 + n
    BY <1>4, <2>1, <2>6 DEF StanceFits
  <2> QED BY <1>2, <1>4, <2>2, <2>3, <2>4, <2>5, <2>6
<1> QED BY <1>2, <1>7, <1>8 DEF PairsIn

=============================================================================
