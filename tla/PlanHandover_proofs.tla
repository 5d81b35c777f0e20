------------------------ MODULE PlanHandover_proofs ------------------------
(***************************************************************************)
(* For all gaits in which the feet take turns, and whatever the times of   *)
(* the gaits and the threads: what the planner hands over of a schedule.   *)
(***************************************************************************)
EXTENDS PlanHandover, GaitSchedule_proofs

(* A nonempty set of integers within bounds has a highest and a lowest     *)
(* element.                                                                *)
LEMMA LowestIs ==
  ASSUME NEW S \in SUBSET Nat, S # {}
  PROVE  Lowest(S) \in S /\ \A y \in S : Lowest(S) <= y
<1>1. \E x \in S : \A y \in S : x <= y
  BY Least
<1> QED BY <1>1 DEF Lowest

LEMMA HighestIs ==
  ASSUME NEW n \in Nat, NEW S \in SUBSET (0..n), S # {}
  PROVE  Highest(S) \in S /\ \A y \in S : y <= Highest(S)
<1> DEFINE T == {n - y : y \in S}
<1>1. T \in SUBSET Nat /\ T # {}
  <2>1. \A y \in S : n - y \in Nat
    OBVIOUS
  <2> QED BY <2>1
<1>2. PICK x \in T : \A y \in T : x <= y
  BY <1>1, Least
<1>3. PICK z \in S : x = n - z
  BY <1>2
<1>4. ASSUME NEW y \in S PROVE y <= z
  <2>1. n - y \in T
    OBVIOUS
  <2>2. n - z <= n - y
    BY <1>2, <1>3, <2>1
  <2>3. y \in Int /\ z \in Int
    OBVIOUS
  <2> QED BY <2>2, <2>3
<1> QED BY <1>4 DEF Highest

(* findIndex: the state of phase p reaches from StartIndex to FinalIndex.  *)
StatePhases(fs, n, p, a, b) ==
  /\ a \in 1..p /\ b \in p..(n - 1)
  /\ \A k \in (a + 1)..b : fs[k] = fs[p]
  /\ \/ a = 1 /\ \A k \in 1..p : fs[k] = fs[p]
     \/ a \in 1..(p - 1) /\ fs[a] # fs[p]
  /\ \/ b = n - 1 /\ \A k \in p..n : fs[k] = fs[p]
     \/ fs[b + 1] # fs[p]

LEMMA IndicesAre ==
  ASSUME NEW n \in Nat, n > 1, NEW fs, fs \in [1..n -> BOOLEAN] , Len(fs) = n,
         NEW p \in 1..(n - 1)
  PROVE  StatePhases(fs, n, p, StartIndex(fs, p), FinalIndex(fs, p))
<1> DEFINE a == StartIndex(fs, p)
           b == FinalIndex(fs, p)
<1> HIDE DEF a, b
<1> DEFINE before == {q \in 1..(p - 1) : fs[q] # fs[p]}
           after  == {q \in (p + 1)..Len(fs) : fs[q] # fs[p]}
<1>1. /\ a \in 1..p /\ \A k \in (a + 1)..p : fs[k] = fs[p]
      /\ \/ a = 1 /\ \A k \in 1..p : fs[k] = fs[p]
         \/ a \in 1..(p - 1) /\ fs[a] # fs[p]
  <2>1. CASE before = {}
    BY <2>1 DEF StartIndex, a
  <2>2. CASE before # {}
    <3>1. a = Highest(before)
      BY <2>2 DEF StartIndex, a
    <3>2. before \in SUBSET (0..n)
      OBVIOUS
    <3>3. a \in before /\ \A y \in before : y <= a
      BY <2>2, <3>1, <3>2, HighestIs
    <3>4. ASSUME NEW k \in (a + 1)..p PROVE fs[k] = fs[p]
      BY <3>3
    <3> QED BY <3>3, <3>4
  <2> QED BY <2>1, <2>2
<1>2. /\ b \in p..(n - 1) /\ \A k \in p..b : fs[k] = fs[p]
      /\ \/ b = n - 1 /\ \A k \in p..n : fs[k] = fs[p]
         \/ fs[b + 1] # fs[p]
  <2>1. CASE after = {}
    BY <2>1 DEF FinalIndex, b
  <2>2. CASE after # {}
    <3>1. b = Lowest(after) - 1
      BY <2>2 DEF FinalIndex, b
    <3>2. after \in SUBSET Nat
      OBVIOUS
    <3>3. Lowest(after) \in after /\ \A y \in after : Lowest(after) <= y
      BY <2>2, <3>2, LowestIs
    <3> DEFINE l == Lowest(after)
    <3>4. l \in (p + 1)..n /\ fs[l] # fs[p] /\ \A y \in after : l <= y
      BY <3>3
    <3>5. b = l - 1
      BY <3>1
    <3> HIDE DEF l
    <3>6. b \in p..(n - 1) /\ l = b + 1
      BY <3>4, <3>5
    <3>7. ASSUME NEW k \in p..b PROVE fs[k] = fs[p]
      <4>1. k = p \/ (k \in (p + 1)..Len(fs) /\ k < l)
        BY <3>6
      <4>2. k \notin after \/ k = p
        BY <3>4, <4>1
      <4> QED BY <4>1, <4>2
    <3> QED BY <3>4, <3>6, <3>7
  <2> QED BY <2>1, <2>2
<1> QED BY <1>1, <1>2 DEF StatePhases, a, b

-----------------------------------------------------------------------------
(* The chain of footholds of a plan.                                       *)

ChainOf(s, leg, foot, t, c) ==
  /\ c[0] = [last |-> foot, next |-> foot, final |-> 1]
  /\ \A p \in 1..Len(s.modes) :
       c[p] = PlanStep(s, ContactFlags(s, leg), t, c[p - 1], p)

(* The loop is well defined.                                               *)
LEMMA ChainIs ==
  ASSUME NEW s \in Schedules, NEW leg, NEW foot, NEW t
  PROVE  ChainOf(s, leg, foot, t, Chain(s, leg, foot, t))
<1> DEFINE n     == Len(s.modes)
           start == [last |-> foot, next |-> foot, final |-> 1]
           Onward(c, p) == PlanStep(s, ContactFlags(s, leg), t, c, p)
           Loop(g, k) == g = [p \in 0..k |-> IF p = 0 THEN start ELSE Onward(g[p - 1], p)]
           T == {k \in 0..n : ~\E g : Loop(g, k)}
<1>1. n \in Nat
  BY DEF Schedules
<1>2. T = {}
  <2>1. SUFFICES ASSUME T # {} PROVE FALSE
    OBVIOUS
  <2>2. T \in SUBSET Nat
    BY <1>1
  <2>3. PICK k \in T : \A m \in T : k <= m
    BY <2>1, <2>2, Least
  <2>4. k # 0
    <3>1. Loop([p \in 0..0 |-> start], 0)
      OBVIOUS
    <3> QED BY <2>3, <3>1
  <2>5. k - 1 \in 0..n /\ k - 1 \notin T
    BY <2>3, <2>4, <1>1
  <2>6. PICK g : Loop(g, k - 1)
    BY <2>5
  <2> DEFINE h == [p \in 0..k |-> IF p = k THEN Onward(g[k - 1], k) ELSE g[p]]
  <2> HIDE DEF Onward, start
  <2>7. ASSUME NEW p \in 0..k
        PROVE  h[p] = IF p = 0 THEN start ELSE Onward(h[p - 1], p)
    <3>1. CASE p = k
      <4>1. h[p - 1] = g[k - 1]
        BY <1>1, <2>4, <3>1
      <4> QED BY <2>4, <3>1, <4>1
    <3>2. CASE p # k
      <4>1. p \in 0..(k - 1) /\ h[p] = g[p]
        BY <1>1, <3>2
      <4>2. g[p] = IF p = 0 THEN start ELSE Onward(g[p - 1], p)
        BY <2>6, <4>1
      <4>3. p # 0 => h[p - 1] = g[p - 1]
        BY <1>1, <4>1
      <4> QED BY <4>1, <4>2, <4>3
    <3> QED BY <3>1, <3>2
  <2>8. Loop(h, k)
    <3>1. h = [p \in 0..k |-> h[p]]
      OBVIOUS
    <3> HIDE DEF h
    <3> QED BY <2>7, <3>1
  <2> QED BY <2>3, <2>8
<1>3. \E g : Loop(g, n)
  <2>1. n \in 0..n /\ n \notin T
    BY <1>1, <1>2
  <2> QED BY <2>1
<1> DEFINE c == Chain(s, leg, foot, t)
<1>4. c = CHOOSE g : Loop(g, n)
  BY DEF Chain
<1>5. Loop(c, n)
  BY <1>3, <1>4
<1> HIDE DEF c, n
<1>6. c = [p \in 0..n |-> IF p = 0 THEN start ELSE Onward(c[p - 1], p)]
  BY <1>5
<1> HIDE DEF Onward, start
<1>7. c[0] = start
  BY <1>1, <1>6
<1>8. ASSUME NEW p \in 1..n PROVE c[p] = Onward(c[p - 1], p)
  BY <1>1, <1>6
<1> QED BY <1>7, <1>8 DEF ChainOf, Onward, start, c, n

(* Two modes of which each leg stands in one.                              *)
Turns == {x \in Mode \X Mode : InTurn(x[1], x[2])}

Alternates(s) == s \in Schedules /\ WellFormed(s) /\ PairsIn(s, Turns)

LEMMA FlagsAre ==
  ASSUME NEW s \in Schedules, NEW leg
  PROVE  /\ ContactFlags(s, leg) \in [1..Len(s.modes) -> BOOLEAN]
         /\ Len(ContactFlags(s, leg)) = Len(s.modes)
         /\ \A p \in 1..Len(s.modes) : ContactFlags(s, leg)[p] = Contact(s.modes[p], leg)
<1>1. Len(s.modes) \in Nat
  BY DEF Schedules
<1>2. \A p \in 1..Len(s.modes) : Contact(s.modes[p], leg) \in BOOLEAN
  BY DEF Contact
<1>3. ContactFlags(s, leg) \in [1..Len(s.modes) -> BOOLEAN]
  BY <1>2 DEF ContactFlags
<1>4. Len(ContactFlags(s, leg)) = Len(s.modes)
  BY <1>1, <1>3, IsSeq
<1> QED BY <1>3, <1>4 DEF ContactFlags

(* A swing lasts one phase, with contact before and after it.              *)
LEMMA SwingAlone ==
  ASSUME NEW s, Alternates(s), NEW leg \in Leg, NEW p \in 1..Len(s.modes),
         NEW fs, fs = ContactFlags(s, leg), ~fs[p]
  PROVE  /\ p \in 2..Len(s.events) /\ fs[p - 1] /\ fs[p + 1]
         /\ StartIndex(fs, p) = p - 1 /\ FinalIndex(fs, p) = p
<1> DEFINE N == Len(s.events)
           a == StartIndex(fs, p)
           b == FinalIndex(fs, p)
<1>1. /\ N \in Nat \ {0} /\ Len(s.modes) = N + 1 /\ s \in Schedules
      /\ \A i \in 1..(N + 1) : s.modes[i] \in Mode
      /\ s.modes[1] = STANCE /\ s.modes[N + 1] = STANCE
  BY ScheduleIs DEF Alternates
<1>2. /\ fs \in [1..(N + 1) -> BOOLEAN] /\ Len(fs) = N + 1
      /\ \A k \in 1..(N + 1) : fs[k] = Contact(s.modes[k], leg)
  BY <1>1, FlagsAre
<1>3. \A i \in 1..N : fs[i] \/ fs[i + 1]
  <2> SUFFICES ASSUME NEW i \in 1..N PROVE fs[i] \/ fs[i + 1]
    OBVIOUS
  <2>1. <<s.modes[i], s.modes[i + 1]>> \in Turns
    BY DEF Alternates, PairsIn
  <2>2. Contact(s.modes[i], leg) \/ Contact(s.modes[i + 1], leg)
    BY <2>1 DEF Turns, InTurn
  <2>3. i \in 1..(N + 1) /\ i + 1 \in 1..(N + 1)
    BY <1>1
  <2> QED BY <1>2, <2>2, <2>3
<1>4. p # 1 /\ p # N + 1
  <2>1. fs[1] /\ fs[N + 1]
    BY <1>1, <1>2 DEF Contact
  <2> QED BY <2>1
<1> HIDE DEF N
<1>5. p \in 2..N
  BY <1>1, <1>4
<1>6. fs[p - 1] /\ fs[p + 1]
  <2>1. p - 1 \in 1..N /\ p \in 1..N /\ (p - 1) + 1 = p
    BY <1>1, <1>5
  <2> QED BY <1>3, <2>1
<1>7. /\ a \in 1..p /\ b \in p..N
      /\ \A k \in (a + 1)..b : fs[k] = fs[p]
      /\ \/ a = 1 /\ \A k \in 1..p : fs[k] = fs[p]
         \/ a \in 1..(p - 1) /\ fs[a] # fs[p]
  <2> DEFINE n == N + 1
  <2>1. n \in Nat /\ n > 1 /\ p \in 1..(n - 1) /\ n - 1 = N
    BY <1>1, <1>5
  <2>2. fs \in [1..n -> BOOLEAN] /\ Len(fs) = n
    BY <1>2
  <2>4. a = StartIndex(fs, p) /\ b = FinalIndex(fs, p)
    OBVIOUS
  <2> HIDE DEF a, b, n
  <2>3. StatePhases(fs, n, p, a, b)
    BY <2>1, <2>2, <2>4, IndicesAre
  <2> QED BY <2>1, <2>3 DEF StatePhases
<1> HIDE DEF a, b
<1>8. a \in 1..(p - 1)
  <2>1. p - 1 \in 1..p
    BY <1>5
  <2> QED BY <1>6, <1>7, <2>1
<1>9. a = p - 1
  <2>1. p - 1 \notin (a + 1)..b
    BY <1>6, <1>7
  <2> QED BY <1>5, <1>7, <1>8, <2>1
<1>10. b = p
  <2>1. p + 1 \notin (a + 1)..b
    BY <1>6, <1>7
  <2> QED BY <1>5, <1>7, <1>8, <2>1
<1> QED BY <1>5, <1>6, <1>9, <1>10 DEF N, a, b

(* As long as no swing is ahead the foot is where it stood; after that it  *)
(* is where the last swing ahead puts it.                                  *)
Standing(c, foot) == c = [last |-> foot, next |-> foot, final |-> 1]

Stepped(s, leg, t, c, p) ==
  /\ c.final \in 2..p /\ c.final <= Len(s.events) /\ s.events[c.final] > t
  /\ ~Contact(s.modes[c.final], leg)

LEMMA ChainStates ==
  ASSUME NEW s, Alternates(s), NEW leg \in Leg, NEW foot, NEW t \in Int,
         NEW c, ChainOf(s, leg, foot, t, c), NEW p \in 0..Len(s.modes)
  PROVE  Standing(c[p], foot) \/ Stepped(s, leg, t, c[p], p)
<1> DEFINE n == Len(s.modes)
           fs == ContactFlags(s, leg)
           T == {k \in 0..n : ~(Standing(c[k], foot) \/ Stepped(s, leg, t, c[k], k))}
<1>1. n \in Nat
  BY ScheduleIs DEF Alternates
<1>2. SUFFICES ASSUME T # {} PROVE FALSE
  OBVIOUS
<1>3. T \in SUBSET Nat
  BY <1>1
<1>4. PICK k \in T : \A m \in T : k <= m
  BY <1>2, <1>3, Least
<1>5. k # 0
  BY <1>4 DEF ChainOf, Standing
<1>6. k \in 1..n /\ k - 1 \in 0..n /\ k - 1 \notin T
  BY <1>1, <1>4, <1>5
<1>7. Standing(c[k - 1], foot) \/ Stepped(s, leg, t, c[k - 1], k - 1)
  BY <1>6
<1>8. c[k] = PlanStep(s, fs, t, c[k - 1], k)
  BY <1>6 DEF ChainOf
<1> DEFINE f == FinalIndex(fs, k)
<1>9. CASE ~fs[k] /\ t < s.events[f] /\ f > c[k - 1].final
  <2>1. k \in 2..Len(s.events) /\ f = k
    BY <1>6, <1>9, SwingAlone
  <2> HIDE DEF f
  <2>2. c[k] = [last |-> c[k - 1].next, next |-> Step(s.events[f]), final |-> f]
    BY <1>8, <1>9 DEF PlanStep, f
  <2>3. c[k].final = k /\ s.events[k] > t
    <3>1. s.events[k] \in Int
      BY <2>1, ScheduleIs DEF Alternates
    <3> QED BY <1>9, <2>1, <2>2, <3>1
  <2>4. ~Contact(s.modes[k], leg)
    BY <1>6, <1>9, FlagsAre DEF Alternates
  <2>5. Stepped(s, leg, t, c[k], k)
    BY <2>1, <2>3, <2>4 DEF Stepped
  <2> QED BY <1>4, <2>5
<1>10. CASE ~(~fs[k] /\ t < s.events[f] /\ f > c[k - 1].final)
  <2>1. c[k] = c[k - 1]
    BY <1>8, <1>10 DEF PlanStep
  <2>2. Stepped(s, leg, t, c[k - 1], k - 1) => Stepped(s, leg, t, c[k - 1], k)
    BY <1>1, <1>6 DEF Stepped
  <2> QED BY <1>4, <1>7, <2>1, <2>2
<1> QED BY <1>9, <1>10

(* What each phase does to the chain.                                      *)
LEMMA PhaseSteps ==
  ASSUME NEW s, Alternates(s), NEW leg \in Leg, NEW foot, NEW t \in Int,
         NEW c, ChainOf(s, leg, foot, t, c), NEW p \in 1..Len(s.modes),
         NEW fs, fs = ContactFlags(s, leg)
  PROVE  /\ fs[p] => c[p] = c[p - 1]
         /\ ~fs[p] /\ s.events[p] > t =>
              c[p].last = c[p - 1].next /\ c[p].next = Step(s.events[p])
         /\ ~fs[p] /\ ~(s.events[p] > t) => c[p] = c[p - 1] /\ Standing(c[p], foot)
<1>1. /\ Len(s.modes) = Len(s.events) + 1 /\ Len(s.events) \in Nat /\ s.events \in Seq(Int)
      /\ \A i \in 1..Len(s.events) : s.events[i] \in Int
      /\ Rises(s.events)
  BY ScheduleIs DEF Alternates
<1>2. c[p] = PlanStep(s, fs, t, c[p - 1], p)
  BY DEF ChainOf
<1>3. Standing(c[p - 1], foot) \/ Stepped(s, leg, t, c[p - 1], p - 1)
  <2>1. p - 1 \in 0..Len(s.modes)
    BY <1>1
  <2> QED BY <2>1, ChainStates
<1>4. CASE fs[p]
  BY <1>2, <1>4 DEF PlanStep
<1>5. CASE ~fs[p]
  <2>1. p \in 2..Len(s.events) /\ FinalIndex(fs, p) = p
    BY <1>5, SwingAlone
  <2>2. p > c[p - 1].final
    <3>1. CASE Standing(c[p - 1], foot)
      BY <2>1, <3>1 DEF Standing
    <3>2. CASE Stepped(s, leg, t, c[p - 1], p - 1)
      BY <2>1, <3>2 DEF Stepped
    <3> QED BY <1>3, <3>1, <3>2
  <2>3. s.events[p] \in Int
    BY <1>1, <2>1
  <2>4. CASE s.events[p] > t
    <3>1. c[p] = [last |-> c[p - 1].next, next |-> Step(s.events[p]), final |-> p]
      BY <1>2, <1>5, <2>1, <2>2, <2>3, <2>4 DEF PlanStep
    <3> QED BY <1>5, <2>4, <3>1
  <2>5. CASE ~(s.events[p] > t)
    <3>1. c[p] = c[p - 1]
      <4>1. ~(t < s.events[p])
        BY <2>3, <2>5
      <4> QED BY <1>2, <1>5, <2>1, <4>1 DEF PlanStep
    <3>2. ~Stepped(s, leg, t, c[p - 1], p - 1)
      <4> SUFFICES ASSUME Stepped(s, leg, t, c[p - 1], p - 1) PROVE FALSE
        OBVIOUS
      <4> DEFINE f == c[p - 1].final
      <4>1. f \in 2..(p - 1) /\ s.events[f] > t
        BY DEF Stepped
      <4> HIDE DEF f
      <4>2. f \in 1..Len(s.events) /\ p \in (f + 1)..Len(s.events)
        BY <1>1, <2>1, <4>1
      <4>3. s.events[f] < s.events[p] /\ s.events[f] \in Int
        BY <1>1, <4>2, RisesFar
      <4> QED BY <2>3, <2>5, <4>1, <4>3
    <3> QED BY <1>3, <1>5, <2>5, <3>1, <3>2
  <2> QED BY <2>4, <2>5
<1> QED BY <1>4, <1>5

(* Each phase begins where the phase before it ends.                       *)
LEMMA PlanJoins ==
  ASSUME NEW s, Alternates(s), NEW leg \in Leg, NEW foot, NEW t \in Int,
         NEW h, h = Footholds(s, leg, foot, t)
  PROVE  /\ Len(h) = Len(s.modes)
         /\ \A p \in 1..(Len(h) - 1) : h[p][2] = h[p + 1][1]
<1> DEFINE n == Len(s.modes)
           fs == ContactFlags(s, leg)
           c == Chain(s, leg, foot, t)
<1>1. n \in Nat /\ s \in Schedules
  BY ScheduleIs DEF Alternates
<1>2. ChainOf(s, leg, foot, t, c)
  BY <1>1, ChainIs
<1>3. h = [p \in 1..n |-> IF fs[p] THEN <<c[p].next, c[p].next>>
                                      ELSE <<c[p].last, c[p].next>>]
  BY DEF Footholds
<1>4. Len(h) = n
  <2> DEFINE S == {h[p] : p \in 1..n}
  <2>1. h \in [1..n -> S]
    BY <1>3
  <2> HIDE DEF S
  <2> QED BY <1>1, <2>1, IsSeq
<1> HIDE DEF c, fs
<1>5. ASSUME NEW p \in 1..(n - 1) PROVE h[p][2] = h[p + 1][1]
  <2>1. p \in 1..n /\ p + 1 \in 1..n /\ (p + 1) - 1 = p
    BY <1>1
  <2>2. h[p][2] = c[p].next
    BY <1>3, <2>1
  <2>3. h[p + 1][1] = IF fs[p + 1] THEN c[p + 1].next ELSE c[p + 1].last
    BY <1>3, <2>1
  <2>4. /\ fs[p + 1] => c[p + 1] = c[p]
        /\ ~fs[p + 1] /\ s.events[p + 1] > t => c[p + 1].last = c[p].next
        /\ ~fs[p + 1] /\ ~(s.events[p + 1] > t) =>
             c[p + 1] = c[p] /\ Standing(c[p + 1], foot)
    BY <1>2, <2>1, PhaseSteps DEF fs
  <2>5. Standing(c[p + 1], foot) => c[p + 1].last = c[p + 1].next
    BY DEF Standing
  <2> QED BY <2>2, <2>3, <2>4, <2>5
<1> QED BY <1>4, <1>5

-----------------------------------------------------------------------------
(* What the two threads know of the plans.                                 *)

(* The plan the planner has made its trajectories of at time t.            *)
MadeAt(t) ==
  /\ t <= initTime /\ initTime <= t + MaxLag /\ (mpcPc # "assign" => t = initTime)
  /\ Alternates(published) /\ published.events[1] >= 0
  /\ Back(published.events) >= t + 2 * Horizon
  /\ footholds = [leg \in Leg |-> Footholds(published, leg, latest[leg], t)]

(* Feet take turns in the schedule and in what will be appended to it.     *)
ScheduleInv ==
  /\ Alternates(schedule) /\ schedule.events[1] >= 0
  /\ template \in {StanceTemplate, TrotTemplate, DefaultTemplate}
  /\ <<schedule.modes[Len(schedule.events)], template.modes[1]>> \in Turns

ClockInv ==
  /\ mpcPc \in {"idle", "assign", "times", "events", "solve"}
  /\ initTime \in Nat \cup {-1} /\ now \in Nat
  /\ initTime = -1 => mpcPc = "idle"
  /\ initTime # -1 => initTime <= now /\ now <= initTime + MaxLag

PlanInv ==
  \/ /\ published = NoPlan /\ footholds = [leg \in Leg |-> <<>>]
     /\ initTime = -1 \/ mpcPc = "assign"
  \/ \E t \in Nat : MadeAt(t)

(* Until new times are set, the times are those of the published plan. The *)
(* plan of the times that a reader takes reaches beyond now.               *)
Covers(s, t) == Alternates(s) /\ Back(s.events) >= t

BuffersInv ==
  /\ timesPlan # NoPlan =>
       /\ timesBuf = StartStopTimes(timesPlan) /\ Covers(timesPlan, initTime + Horizon)
       /\ initTime # -1 /\ (mpcPc # "times" => timesPlan = published)
  /\ rtPc = "answer" /\ gotPlan # NoPlan =>
       gotTimes = StartStopTimes(gotPlan) /\ Covers(gotPlan, now)

HandoverInv == ScheduleInv /\ ClockInv /\ PlanInv /\ BuffersInv

-----------------------------------------------------------------------------
LEMMA StanceTurns == StanceFits(Turns)
<1> SUFFICES ASSUME NEW m \in Mode PROVE <<STANCE, m>> \in Turns /\ <<m, STANCE>> \in Turns
  BY DEF StanceFits
<1>1. STANCE \in Mode
  BY DEF Mode
<1>2. \A leg : Contact(STANCE, leg)
  BY DEF Contact
<1> QED BY <1>1, <1>2 DEF Turns, InTurn

LEMMA GaitsTurn ==
  ASSUME NEW tpl \in {StanceTemplate, TrotTemplate, DefaultTemplate}
  PROVE  tpl \in Templates /\ TemplatePairs(tpl, Turns)
<1> DEFINE k == Len(tpl.modes)
<1>1. tpl \in Templates
  BY HandoverAssumption
<1>2. k \in Nat \ {0} /\ \A i \in 1..k : tpl.modes[i] \in Mode
  BY <1>1, TemplateIs
<1>3. \A i \in 1..k : InTurn(tpl.modes[i], tpl.modes[(i % k) + 1])
  BY GaitAssumption
<1> HIDE DEF k
<1>4. ASSUME NEW i \in 1..(k - 1) PROVE <<tpl.modes[i], tpl.modes[i + 1]>> \in Turns
  <2>1. i % k = i
    <3>1. i = k * 0 + i /\ i \in Nat /\ 0 \in Nat /\ i \in 0..(k - 1)
      BY <1>2
    <3> QED BY <1>2, <3>1, DividedOnly
  <2>2. i \in 1..k /\ i + 1 \in 1..k
    BY <1>2
  <2>3. InTurn(tpl.modes[i], tpl.modes[i + 1])
    BY <1>3, <2>1, <2>2
  <2> QED BY <1>2, <2>2, <2>3 DEF Turns
<1>5. <<tpl.modes[k], tpl.modes[1]>> \in Turns
  <2>1. k % k = 0
    <3>1. k = k * 1 + 0 /\ k \in Nat /\ 1 \in Nat /\ 0 \in 0..(k - 1)
      BY <1>2
    <3> QED BY <1>2, <3>1, DividedOnly
  <2>2. k \in 1..k /\ 1 \in 1..k
    BY <1>2
  <2>3. InTurn(tpl.modes[k], tpl.modes[1])
    BY <1>3, <2>1, <2>2
  <2> QED BY <1>2, <2>2, <2>3 DEF Turns
<1> QED BY <1>1, <1>4, <1>5 DEF TemplatePairs, k

(* No event before the first.                                              *)
LEMMA ExtendFirst ==
  ASSUME NEW s \in Schedules, WellFormed(s), NEW tpl \in Templates,
         NEW lower \in Int, NEW upper \in Int, NEW e \in Int, s.events[1] >= e,
         NEW x, x = Extend(s, tpl, lower, upper)
  PROVE  x.events[1] >= e
<1> DEFINE N == Len(s.events)
<1>1. PICK o \in Nat, m \in Nat, n \in Nat : ExtendShape(s, lower, tpl, x, o, m, n)
  BY ExtendIs
<1>2. /\ o \in 0..(N - 1) /\ m = N - o
      /\ \A i \in 1..m : x.events[i] = s.events[o + i]
  BY <1>1 DEF ExtendShape
<1>3. /\ N \in Nat \ {0} /\ s.events \in Seq(Int) /\ Rises(s.events)
      /\ \A i \in 1..N : s.events[i] \in Int
  BY ScheduleIs
<1>4. x.events[1] = s.events[o + 1] /\ o + 1 \in 1..N
  BY <1>2, <1>3
<1>5. CASE o = 0
  BY <1>4, <1>5
<1>6. CASE o # 0
  <2>1. 1 \in 1..N /\ o + 1 \in (1 + 1)..N
    BY <1>2, <1>3, <1>6
  <2>2. s.events[1] < s.events[o + 1]
    BY <1>3, <2>1, RisesFar
  <2>3. s.events[1] \in Int /\ s.events[o + 1] \in Int
    BY <1>3, <1>4, <2>1
  <2> QED BY <1>4, <2>2, <2>3
<1> QED BY <1>5, <1>6

LEMMA InsertFirst ==
  ASSUME NEW s \in Schedules, WellFormed(s), NEW tpl \in Templates,
         NEW start \in Int, NEW final \in Int, NEW e \in Int,
         s.events[1] >= e, start >= e,
         NEW x, x = InsertTemplate(s, tpl, start, final)
  PROVE  x.events[1] >= e
<1> DEFINE j == LowerBound(s.events, start)
<1>1. /\ j \in 1..Len(x.events) /\ x.events[j] >= start /\ SameUpTo(s, x, j)
      /\ x \in Schedules
  BY InsertIs
<1>2. x.events[j] \in Int
  BY <1>1, ElementOfSeq DEF Schedules
<1>3. CASE j = 1
  BY <1>1, <1>2, <1>3
<1>4. CASE j # 1
  BY <1>1, <1>4 DEF SameUpTo
<1> QED BY <1>3, <1>4

LEMMA ExtendAlternates ==
  ASSUME NEW s, Alternates(s), s.events[1] >= 0,
         NEW tpl \in {StanceTemplate, TrotTemplate, DefaultTemplate},
         <<s.modes[Len(s.events)], tpl.modes[1]>> \in Turns,
         NEW lower \in Int, NEW upper \in Int,
         NEW x, x = Extend(s, tpl, lower, upper)
  PROVE  /\ Alternates(x) /\ x.events[1] >= 0 /\ Back(x.events) >= upper
         /\ <<x.modes[Len(x.events)], tpl.modes[1]>> \in Turns
<1>1. s \in Schedules /\ WellFormed(s) /\ PairsIn(s, Turns)
  BY DEF Alternates
<1>2. tpl \in Templates /\ TemplatePairs(tpl, Turns) /\ StanceFits(Turns)
  BY GaitsTurn, StanceTurns
<1>3. x \in Schedules /\ WellFormed(x) /\ Back(x.events) >= upper
  BY <1>1, <1>2, ExtendIs
<1>4. PairsIn(x, Turns) /\ <<x.modes[Len(x.events)], tpl.modes[1]>> \in Turns
  BY <1>1, <1>2, ExtendPairs
<1>5. x.events[1] >= 0
  BY <1>1, <1>2, ExtendFirst
<1> QED BY <1>3, <1>4, <1>5 DEF Alternates

LEMMA InsertAlternates ==
  ASSUME NEW s, Alternates(s), s.events[1] >= 0,
         NEW tpl \in {StanceTemplate, TrotTemplate, DefaultTemplate},
         NEW start \in Nat, NEW final \in Int,
         NEW x, x = InsertTemplate(s, tpl, start, final)
  PROVE  /\ Alternates(x) /\ x.events[1] >= 0
         /\ <<x.modes[Len(x.events)], tpl.modes[1]>> \in Turns
<1>1. s \in Schedules /\ WellFormed(s) /\ PairsIn(s, Turns)
  BY DEF Alternates
<1>2. tpl \in Templates /\ TemplatePairs(tpl, Turns) /\ StanceFits(Turns)
  BY GaitsTurn, StanceTurns
<1>3. x \in Schedules /\ WellFormed(x)
  BY <1>1, <1>2, InsertIs
<1>4. PairsIn(x, Turns) /\ <<x.modes[Len(x.events)], tpl.modes[1]>> \in Turns
  <2>1. TransitionStance # 0 /\ start \in Int
    BY GaitAssumption, TransitionAssumption
  <2> QED BY <1>1, <1>2, <2>1, InsertPairs
<1>5. x.events[1] >= 0
  BY <1>1, <1>2, InsertFirst
<1> QED BY <1>3, <1>4, <1>5 DEF Alternates

(* The planner accepts every schedule in which the feet take turns.        *)
LEMMA NoThrow ==
  ASSUME NEW s, Alternates(s) PROVE ~SwingThrows(s)
<1>1. s \in Schedules /\ Len(s.modes) = Len(s.events) + 1 /\ Len(s.events) \in Nat
  BY ScheduleIs DEF Alternates
<1>2. SUFFICES ASSUME NEW leg \in Leg, NEW p \in 1..Len(s.modes),
                      ~ContactFlags(s, leg)[p]
               PROVE  /\ ~(StartIndex(ContactFlags(s, leg), p) < 1)
                      /\ ~(FinalIndex(ContactFlags(s, leg), p) >= Len(s.modes))
  BY DEF SwingThrows
<1>3. /\ p \in 2..Len(s.events)
      /\ StartIndex(ContactFlags(s, leg), p) = p - 1
      /\ FinalIndex(ContactFlags(s, leg), p) = p
  BY <1>2, SwingAlone
<1> QED BY <1>1, <1>3

LEMMA NextEvent ==
  ASSUME NEW s \in Schedules, WellFormed(s), NEW t \in Nat, Back(s.events) >= t
  PROVE  InsertTimer(s, t) \in Nat /\ InsertTimer(s, t) >= t
<1> DEFINE j == LowerBound(s.events, t)
           N == Len(s.events)
<1>1. /\ s.events \in Seq(Int) /\ N \in Nat \ {0} /\ Back(s.events) = s.events[N]
      /\ \A i \in 1..N : s.events[i] \in Int
      /\ t \in Int
  BY ScheduleIs
<1>2. /\ j \in 1..(N + 1) /\ \A k \in 1..(j - 1) : s.events[k] < t
      /\ j <= N => s.events[j] >= t
  BY <1>1, LowerBoundIs
<1> HIDE DEF j, N
<1>3. N \in 1..N /\ ~(s.events[N] < t)
  BY <1>1
<1>4. j \in 1..N
  BY <1>1, <1>2, <1>3
<1>5. s.events[j] \in Int /\ s.events[j] >= t
  BY <1>1, <1>2, <1>4
<1> QED BY <1>4, <1>5 DEF InsertTimer, j, N

-----------------------------------------------------------------------------
(* An iteration: the extended schedule is published and planned, and the   *)
(* gait inserted in it, if any, begins with or after the iteration.        *)
LEMMA Iteration ==
  ASSUME HandoverInv, ModifyReferences,
         NEW s, s = Extend(schedule, template, initTime - Horizon, initTime + 2 * Horizon)
  PROVE  /\ initTime \in Nat /\ published' = s /\ mpcPc' = "times"
         /\ Alternates(s) /\ s.events[1] >= 0 /\ Back(s.events) >= initTime + 2 * Horizon
         /\ latest' = LatestStance(s, latest, initTime)
         /\ footholds' = [leg \in Leg |-> Footholds(s, leg, latest'[leg], initTime)]
         /\ \/ schedule' = s /\ template' = template
            \/ \E tpl \in {StanceTemplate, TrotTemplate}, start \in Nat :
                 /\ schedule' = InsertTemplate(s, tpl, start, initTime + Horizon)
                 /\ template' = tpl /\ start >= initTime
<1>1. initTime \in Nat
  BY DEF HandoverInv, ClockInv, ModifyReferences
<1>2. Horizon \in Nat /\ TrotOffset \in Nat
  BY HandoverAssumption
<1>3. initTime - Horizon \in Int /\ initTime + 2 * Horizon \in Int
  BY <1>1, <1>2
<1>4. /\ Alternates(s) /\ s.events[1] >= 0 /\ Back(s.events) >= initTime + 2 * Horizon
      /\ <<s.modes[Len(s.events)], template.modes[1]>> \in Turns
  BY <1>3, ExtendAlternates DEF HandoverInv, ScheduleInv
<1>5. /\ published' = s /\ ChangeGait(s) /\ latest' = LatestStance(s, latest, initTime)
      /\ footholds' = [leg \in Leg |-> Footholds(s, leg, latest'[leg], initTime)]
      /\ mpcPc' = IF SwingThrows(s) THEN "ended" ELSE "times"
  BY DEF ModifyReferences
<1>6. mpcPc' = "times"
  BY <1>4, <1>5, NoThrow
<1>7. InsertTimer(s, initTime) \in Nat /\ InsertTimer(s, initTime) >= initTime
  <2>1. s \in Schedules /\ WellFormed(s)
    BY <1>4 DEF Alternates
  <2>2. Back(s.events) \in Int
    BY <2>1, ScheduleIs
  <2>3. Back(s.events) >= initTime
    BY <1>1, <1>2, <1>4, <2>2
  <2> QED BY <1>1, <2>1, <2>3, NextEvent
<1>8. initTime + TrotOffset \in Nat /\ initTime + TrotOffset >= initTime
  BY <1>1, <1>2
<1>9. \/ schedule' = s /\ template' = template
      \/ \E tpl \in {StanceTemplate, TrotTemplate}, start \in Nat :
           /\ schedule' = InsertTemplate(s, tpl, start, initTime + Horizon)
           /\ template' = tpl /\ start >= initTime
  <2>1. CASE schedule' = s /\ UNCHANGED template
    BY <2>1
  <2>2. CASE Insert(s, StanceTemplate, InsertTimer(s, initTime))
    BY <1>7, <2>2 DEF Insert
  <2>3. CASE Insert(s, TrotTemplate, InsertTimer(s, initTime))
    BY <1>7, <2>3 DEF Insert
  <2>4. CASE Insert(s, TrotTemplate, initTime + TrotOffset)
    BY <1>8, <2>4 DEF Insert
  <2> QED BY <1>5, <2>1, <2>2, <2>3, <2>4 DEF ChangeGait
<1> QED BY <1>1, <1>4, <1>5, <1>6, <1>9

LEMMA HandoverStarts == Init => HandoverInv
<1> SUFFICES ASSUME Init PROVE HandoverInv
  OBVIOUS
<1>1. /\ InitialSchedule \in Schedules /\ WellFormed(InitialSchedule)
      /\ InitialSchedule.events[1] >= 0
  BY HandoverAssumption DEF Schedules
<1> DEFINE N == Len(InitialSchedule.events)
<1>2. /\ N \in Nat \ {0} /\ Len(InitialSchedule.modes) = N + 1
  BY <1>1, ScheduleIs
<1>3. \A i \in 1..(N + 1) : InitialSchedule.modes[i] = STANCE
  BY <1>2, GaitAssumption
<1>4. STANCE \in Mode /\ \A m \in Mode : <<STANCE, m>> \in Turns
  BY StanceTurns DEF StanceFits, Mode
<1>5. PairsIn(InitialSchedule, Turns)
  BY <1>2, <1>3, <1>4 DEF PairsIn
<1>6. <<InitialSchedule.modes[N], DefaultTemplate.modes[1]>> \in Turns
  <2>1. DefaultTemplate.modes[1] \in Mode
    BY GaitsTurn, TemplateIs
  <2> QED BY <1>2, <1>3, <1>4, <2>1
<1>7. ScheduleInv
  BY <1>1, <1>5, <1>6 DEF Init, ScheduleInv, Alternates
<1>8. ClockInv /\ PlanInv
  BY DEF Init, ClockInv, PlanInv, NoPlan
<1>9. BuffersInv
  BY DEF Init, BuffersInv
<1> QED BY <1>7, <1>8, <1>9 DEF HandoverInv

LEMMA IterationKeeps ==
  ASSUME HandoverInv, ModifyReferences PROVE HandoverInv'
<1> DEFINE s == Extend(schedule, template, initTime - Horizon, initTime + 2 * Horizon)
<1>1. /\ initTime \in Nat /\ published' = s /\ mpcPc' = "times"
      /\ Alternates(s) /\ s.events[1] >= 0 /\ Back(s.events) >= initTime + 2 * Horizon
      /\ footholds' = [leg \in Leg |-> Footholds(s, leg, latest'[leg], initTime)]
      /\ \/ schedule' = s /\ template' = template
         \/ \E tpl \in {StanceTemplate, TrotTemplate}, start \in Nat :
              /\ schedule' = InsertTemplate(s, tpl, start, initTime + Horizon)
              /\ template' = tpl
  BY Iteration
<1>2. /\ mpcPc = "assign" /\ initTime' = initTime /\ now' = now
      /\ UNCHANGED <<timesBuf, rtPc, gotTimes, timesPlan, gotPlan>>
  BY DEF ModifyReferences, rtVars, planVars
<1>3. <<s.modes[Len(s.events)], template.modes[1]>> \in Turns
  <2>1. initTime - Horizon \in Int /\ initTime + 2 * Horizon \in Int
    BY <1>1, HandoverAssumption
  <2> QED BY <2>1, ExtendAlternates DEF HandoverInv, ScheduleInv
<1> HIDE DEF s
<1>4. ScheduleInv'
  <2>1. CASE schedule' = s /\ template' = template
    BY <1>1, <1>3, <2>1 DEF HandoverInv, ScheduleInv
  <2>2. ASSUME NEW tpl \in {StanceTemplate, TrotTemplate}, NEW start \in Nat,
               schedule' = InsertTemplate(s, tpl, start, initTime + Horizon),
               template' = tpl
        PROVE  ScheduleInv'
    <3>1. initTime + Horizon \in Int
      BY <1>1, HandoverAssumption
    <3>2. /\ Alternates(schedule') /\ schedule'.events[1] >= 0
          /\ <<schedule'.modes[Len(schedule'.events)], tpl.modes[1]>> \in Turns
      BY <1>1, <2>2, <3>1, InsertAlternates
    <3> QED BY <2>2, <3>2 DEF ScheduleInv
  <2> QED BY <1>1, <2>1, <2>2
<1>5. ClockInv'
  BY <1>1, <1>2 DEF HandoverInv, ClockInv
<1>6. PlanInv'
  <2>1. MadeAt(initTime)'
    <3>1. initTime' <= initTime' /\ initTime' <= initTime' + MaxLag
      BY <1>1, <1>2, HandoverAssumption
    <3> QED BY <1>1, <1>2, <3>1 DEF MadeAt
  <2> QED BY <1>1, <1>2, <2>1 DEF PlanInv
<1>7. BuffersInv'
  <2>1. mpcPc' = "times"
    BY <1>1
  <2> QED BY <1>2, <2>1 DEF HandoverInv, BuffersInv, Covers, Alternates
<1> QED BY <1>4, <1>5, <1>6, <1>7 DEF HandoverInv

(* Of what the plan depends on, the other steps only move the phase of the *)
(* MPC thread.                                                             *)
LEMMA PlanKept ==
  ASSUME PlanInv, UNCHANGED <<published, footholds, latest, initTime>>,
         (mpcPc = "assign") <=> (mpcPc' = "assign")
  PROVE  PlanInv'
<1>1. CASE published = NoPlan /\ footholds = [leg \in Leg |-> <<>>]
           /\ (initTime = -1 \/ mpcPc = "assign")
  BY <1>1 DEF PlanInv
<1>2. ASSUME NEW t \in Nat, MadeAt(t) PROVE PlanInv'
  <2>1. MadeAt(t)'
    BY <1>2 DEF MadeAt
  <2> QED BY <2>1 DEF PlanInv
<1> QED BY <1>1, <1>2 DEF PlanInv

LEMMA HandoverStep ==
  ASSUME HandoverInv, [Next]_vars PROVE HandoverInv'
<1> USE DEF HandoverInv
<1>1. CASE BeginIteration
  <2> USE <1>1 DEF BeginIteration
  <2>1. ScheduleInv'
    BY DEF ScheduleInv
  <2>2. ClockInv'
    BY HandoverAssumption DEF ClockInv, rtVars
  <2>3. PlanInv'
    <3>1. CASE published = NoPlan /\ footholds = [leg \in Leg |-> <<>>]
      BY <3>1 DEF PlanInv, handed
    <3>2. ASSUME NEW t \in Nat, MadeAt(t) PROVE PlanInv'
      <4>1. t = initTime /\ t <= initTime' /\ initTime' <= t + MaxLag
        BY <3>2 DEF MadeAt, ClockInv
      <4>2. MadeAt(t)'
        BY <3>2, <4>1 DEF MadeAt, handed
      <4> QED BY <4>2 DEF PlanInv
    <3> QED BY <3>1, <3>2 DEF PlanInv
  <2>4. BuffersInv'
    <3>1. ASSUME timesPlan # NoPlan PROVE Covers(timesPlan, now + Horizon) /\ now # -1
      <4>1. timesPlan = published /\ published # NoPlan /\ initTime # -1
        BY <3>1 DEF BuffersInv
      <4>2. PICK t \in Nat : MadeAt(t)
        BY <4>1 DEF PlanInv
      <4>3. /\ Alternates(published) /\ Back(published.events) >= initTime + 2 * Horizon
            /\ initTime \in Nat
        BY <4>1, <4>2 DEF MadeAt, ClockInv
      <4>4. Back(published.events) \in Int
        BY <4>3, ScheduleIs DEF Alternates
      <4>5. now \in Nat /\ now <= initTime + MaxLag
        BY <4>1 DEF ClockInv
      <4>6. MaxLag \in Nat /\ Horizon \in Nat /\ MaxLag <= Horizon
        BY HandoverAssumption, LagAssumption
      <4>7. Back(published.events) >= now + Horizon
        BY <4>3, <4>4, <4>5, <4>6
      <4> QED BY <4>1, <4>3, <4>5, <4>7 DEF Covers
    <3>2. UNCHANGED <<published, timesBuf, timesPlan, gotPlan, rtPc, gotTimes, now>>
      BY DEF handed, rtVars, planVars
    <3>3. mpcPc = "idle" /\ initTime' = now
      OBVIOUS
    <3>4. timesPlan # NoPlan => timesPlan = published
      BY DEF BuffersInv
    <3> QED BY <3>1, <3>2, <3>3, <3>4 DEF BuffersInv
  <2> QED BY <2>1, <2>2, <2>3, <2>4
<1>2. CASE ModifyReferences
  BY <1>2, IterationKeeps
<1>3. CASE SetTimes
  <2> USE <1>3 DEF SetTimes
  <2>1. ScheduleInv' /\ ClockInv'
    BY DEF ScheduleInv, ClockInv, rtVars
  <2>2. PlanInv'
    BY PlanKept
  <2>3. BuffersInv'
    <3>1. ASSUME published # NoPlan
          PROVE  Covers(published, initTime + Horizon) /\ initTime # -1
      <4>1. PICK t \in Nat : MadeAt(t)
        BY <3>1 DEF PlanInv
      <4>2. /\ Alternates(published) /\ Back(published.events) >= initTime + 2 * Horizon
            /\ initTime \in Nat
        BY <4>1 DEF MadeAt, ClockInv
      <4>3. Back(published.events) \in Int /\ Horizon \in Nat
        BY <4>2, ScheduleIs, HandoverAssumption DEF Alternates
      <4> QED BY <4>2, <4>3 DEF Covers
    <3>2. UNCHANGED <<published, initTime, gotPlan, rtPc, gotTimes, now>>
      BY DEF rtVars
    <3>3. timesPlan' = published /\ timesBuf' = StartStopTimes(published)
      OBVIOUS
    <3> QED BY <3>1, <3>2, <3>3 DEF BuffersInv
  <2> QED BY <2>1, <2>2, <2>3
<1>4. CASE SetEvents
  <2> USE <1>4 DEF SetEvents
  <2>1. ScheduleInv' /\ ClockInv'
    BY DEF ScheduleInv, ClockInv, rtVars
  <2>2. PlanInv'
    BY PlanKept
  <2>3. BuffersInv'
    BY DEF BuffersInv, rtVars, planVars
  <2> QED BY <2>1, <2>2, <2>3
<1>5. CASE Solved
  <2> USE <1>5 DEF Solved
  <2>1. ScheduleInv' /\ ClockInv'
    BY DEF ScheduleInv, ClockInv, rtVars
  <2>2. PlanInv'
    BY PlanKept DEF handed
  <2>3. BuffersInv'
    BY DEF BuffersInv, handed, rtVars, planVars
  <2> QED BY <2>1, <2>2, <2>3
<1>6. CASE ReadFlags
  <2> USE <1>6 DEF ReadFlags
  <2>1. ScheduleInv' /\ ClockInv'
    BY DEF ScheduleInv, ClockInv, mpcVars
  <2>2. PlanInv'
    BY PlanKept DEF mpcVars, handed
  <2>3. BuffersInv'
    BY DEF BuffersInv, mpcVars, handed, planVars
  <2> QED BY <2>1, <2>2, <2>3
<1>7. CASE TakeTimes
  <2> USE <1>7 DEF TakeTimes
  <2>1. ScheduleInv' /\ ClockInv'
    BY DEF ScheduleInv, ClockInv, mpcVars
  <2>2. PlanInv'
    BY PlanKept DEF mpcVars, handed
  <2>3. BuffersInv'
    <3>1. ASSUME timesPlan # NoPlan PROVE Covers(timesPlan, now)
      <4>1. Covers(timesPlan, initTime + Horizon) /\ initTime # -1
        BY <3>1 DEF BuffersInv
      <4>2. initTime \in Nat /\ now \in Nat /\ now <= initTime + MaxLag
        BY <4>1 DEF ClockInv
      <4>3. Back(timesPlan.events) \in Int
        BY <4>1, ScheduleIs DEF Covers, Alternates
      <4>4. MaxLag \in Nat /\ Horizon \in Nat /\ MaxLag <= Horizon
        BY HandoverAssumption, LagAssumption
      <4> QED BY <4>1, <4>2, <4>3, <4>4 DEF Covers
    <3>2. UNCHANGED <<published, initTime, mpcPc, timesBuf, now, timesPlan>>
      BY DEF mpcVars, handed
    <3>3. gotPlan' = timesPlan /\ gotTimes' = timesBuf
      OBVIOUS
    <3> QED BY <3>1, <3>2, <3>3 DEF BuffersInv
  <2> QED BY <2>1, <2>2, <2>3
<1>8. CASE TakeEvents
  <2>1. /\ rtPc' = "tick" /\ now' = now /\ timesPlan' = timesPlan
        /\ UNCHANGED <<mpcPc, initTime, schedule, template, latest, footholds>>
        /\ UNCHANGED <<published, timesBuf, eventsBuf>>
    BY <1>8 DEF TakeEvents, mpcVars, handed
  <2>2. ScheduleInv' /\ ClockInv'
    BY <2>1 DEF ScheduleInv, ClockInv
  <2>3. PlanInv'
    BY <2>1, PlanKept
  <2>4. BuffersInv'
    BY <2>1 DEF BuffersInv
  <2> QED BY <2>2, <2>3, <2>4
<1>9. CASE Tick
  <2> USE <1>9 DEF Tick
  <2>1. ScheduleInv'
    BY DEF ScheduleInv, mpcVars
  <2>2. ClockInv'
    <3>1. MaxLag \in Nat /\ now \in Nat /\ initTime \in Nat \cup {-1}
      BY HandoverAssumption DEF ClockInv
    <3>2. initTime # -1 => now + 1 <= initTime + MaxLag /\ initTime <= now + 1
      BY <3>1 DEF ClockInv
    <3> QED BY <3>1, <3>2 DEF ClockInv, mpcVars
  <2>3. PlanInv'
    BY PlanKept DEF mpcVars, handed
  <2>4. BuffersInv'
    BY DEF BuffersInv, mpcVars, handed, planVars
  <2> QED BY <2>1, <2>2, <2>3, <2>4
<1>10. CASE UNCHANGED vars
  <2> USE <1>10 DEF vars, mpcVars, handed, rtVars, planVars
  <2>1. ScheduleInv' /\ ClockInv'
    BY DEF ScheduleInv, ClockInv
  <2>2. PlanInv'
    BY PlanKept
  <2>3. BuffersInv'
    BY DEF BuffersInv
  <2> QED BY <2>1, <2>2, <2>3
<1> QED BY <1>1, <1>2, <1>3, <1>4, <1>5, <1>6, <1>7, <1>8, <1>9, <1>10
        DEF Next, Mpc, RealTime

LEMMA HandoverHolds == Spec => []HandoverInv
BY HandoverStarts, HandoverStep, PTL DEF Spec

-----------------------------------------------------------------------------
(* A foot is planned to step off where it stands: each phase of a leg      *)
(* begins at the foothold the phase before it ends at.                     *)
THEOREM FootholdsMeet == Spec => []FootholdsJoin
<1>1. HandoverInv => FootholdsJoin
  <2> SUFFICES ASSUME HandoverInv, NEW leg \in Leg, NEW p \in 1..(Len(footholds[leg]) - 1)
               PROVE  footholds[leg][p][2] = footholds[leg][p + 1][1]
    BY DEF FootholdsJoin
  <2>1. CASE footholds = [l \in Leg |-> <<>>]
    <3>1. Len(footholds[leg]) = 0
      BY <2>1
    <3> QED BY <3>1
  <2>2. ASSUME NEW t \in Nat, MadeAt(t)
        PROVE  footholds[leg][p][2] = footholds[leg][p + 1][1]
    <3>1. footholds[leg] = Footholds(published, leg, latest[leg], t) /\ Alternates(published)
      BY <2>2 DEF MadeAt
    <3> QED BY <3>1, PlanJoins
  <2> QED BY <2>1, <2>2 DEF HandoverInv, PlanInv
<1> QED BY <1>1, HandoverHolds, PTL

-----------------------------------------------------------------------------
(* The phase of a time that the schedule covers, and the interval that the *)
(* planner gives for it.                                                   *)
PhaseOf(s, t, p) ==
  p \in 1..Len(s.events) /\ s.events[p] >= t /\ \A k \in 1..(p - 1) : s.events[k] < t

LEMMA PhaseIndexIs ==
  ASSUME NEW s \in Schedules, WellFormed(s), NEW t \in Int, Back(s.events) >= t
  PROVE  PhaseOf(s, t, PhaseIndex(s.events, t)) /\ PhaseIndex(s.events, t) = LowerBound(s.events, t)
<1> DEFINE j == LowerBound(s.events, t)
           N == Len(s.events)
<1>1. /\ s.events \in Seq(Int) /\ N \in Nat \ {0} /\ Back(s.events) = s.events[N]
      /\ \A i \in 1..N : s.events[i] \in Int
  BY ScheduleIs
<1>2. /\ j \in 1..(N + 1) /\ \A k \in 1..(j - 1) : s.events[k] < t
      /\ j <= N => s.events[j] >= t
  BY <1>1, LowerBoundIs
<1> HIDE DEF j, N
<1>3. N \in 1..N /\ ~(s.events[N] < t)
  BY <1>1
<1>4. j \in 1..N
  BY <1>1, <1>2, <1>3
<1>5. PhaseIndex(s.events, t) = j
  BY <1>1, <1>4 DEF PhaseIndex, j, N
<1> QED BY <1>2, <1>4, <1>5 DEF PhaseOf, j, N

(* In the interval the leg keeps its state, and only there.                *)
Interval(s, fs, p, a, b) ==
  /\ a \in 1..p /\ b \in p..Len(s.events)
  /\ \A k \in (a + 1)..b : fs[k] = fs[p]
  /\ \/ a = 1 /\ \A k \in 1..p : fs[k] = fs[p]
     \/ a \in 1..(p - 1) /\ fs[a] # fs[p]
  /\ \/ b = Len(s.events) /\ \A k \in p..(Len(s.events) + 1) : fs[k] = fs[p]
     \/ fs[b + 1] # fs[p]

LEMMA IntervalIs ==
  ASSUME NEW s \in Schedules, WellFormed(s), NEW leg \in Leg, NEW p \in 1..Len(s.events),
         NEW fs, fs = ContactFlags(s, leg)
  PROVE  /\ Interval(s, fs, p, StartIndex(fs, p), FinalIndex(fs, p))
         /\ StartStopTimes(s)[leg][p]
              = <<s.events[StartIndex(fs, p)], s.events[FinalIndex(fs, p)]>>
         /\ DOMAIN StartStopTimes(s)[leg] = 1..(Len(s.events) + 1)
<1> DEFINE N == Len(s.events)
           n == N + 1
           a == StartIndex(fs, p)
           b == FinalIndex(fs, p)
<1>1. N \in Nat \ {0} /\ Len(s.modes) = n
  BY ScheduleIs
<1>2. fs \in [1..n -> BOOLEAN] /\ Len(fs) = n
  BY <1>1, FlagsAre
<1>3. StatePhases(fs, n, p, a, b)
  <2>1. n \in Nat /\ n > 1 /\ p \in 1..(n - 1)
    BY <1>1
  <2> HIDE DEF n, N
  <2> QED BY <1>2, <2>1, IndicesAre
<1>4. Interval(s, fs, p, a, b)
  <2>1. n - 1 = N
    BY <1>1
  <2> HIDE DEF a, b
  <2> QED BY <1>1, <1>3, <2>1 DEF StatePhases, Interval
<1>5. StartStopTimes(s)[leg] =
        [q \in 1..n |-> <<s.events[StartIndex(fs, q)], s.events[FinalIndex(fs, q)]>>]
  BY <1>1 DEF StartStopTimes
<1>6. p \in 1..n
  BY <1>1
<1> QED BY <1>4, <1>5, <1>6

(* Whether a leg stands at a time is what the flag of the phase says.      *)
LEMMA ContactIs ==
  ASSUME NEW s \in Schedules, WellFormed(s), NEW leg \in Leg, NEW t \in Int,
         NEW i \in 1..(Len(s.events) + 1),
         i > 1 => s.events[i - 1] < t, i <= Len(s.events) => s.events[i] >= t
  PROVE  ContactAt(s, leg, t) = ContactFlags(s, leg)[i]
<1>1. /\ s.events \in Seq(Int) /\ Rises(s.events)
      /\ Len(s.modes) = Len(s.events) + 1
  BY ScheduleIs
<1>2. LowerBound(s.events, t) = i
  BY <1>1, LowerBoundOnly
<1>3. ContactFlags(s, leg)[i] = Contact(s.modes[i], leg)
  BY <1>1, FlagsAre
<1> QED BY <1>2, <1>3 DEF ContactAt, ModeAt

LEMMA AroundTime ==
  ASSUME NEW s \in Schedules, WellFormed(s), NEW leg \in Leg,
         NEW p \in 1..Len(s.events), NEW fs, fs = ContactFlags(s, leg),
         NEW a, NEW b, Interval(s, fs, p, a, b)
  PROVE  /\ WholePhase(s, leg, s.events[a], s.events[b])
         /\ \A t \in Int : PhaseOf(s, t, p) /\ s.events[1] < t =>
              s.events[a] < t /\ t <= s.events[b]
<1> DEFINE N == Len(s.events)
<1>1. /\ N \in Nat \ {0} /\ s.events \in Seq(Int) /\ Rises(s.events)
      /\ \A i \in 1..N : s.events[i] \in Int
      /\ Len(s.modes) = N + 1 /\ Back(s.events) = s.events[N]
  BY ScheduleIs
<1>2. /\ a \in 1..p /\ b \in p..N /\ \A k \in (a + 1)..b : fs[k] = fs[p]
      /\ a = 1 \/ (a \in 1..(p - 1) /\ fs[a] # fs[p])
      /\ b = N \/ fs[b + 1] # fs[p]
  BY DEF Interval
<1>3. \A i, j \in 1..N : i < j => s.events[i] < s.events[j]
  <2> SUFFICES ASSUME NEW i \in 1..N, NEW j \in 1..N, i < j PROVE s.events[i] < s.events[j]
    OBVIOUS
  <2>1. j \in (i + 1)..N
    BY <1>1
  <2> QED BY <1>1, <2>1, RisesFar
<1>4. ASSUME NEW t \in Int, NEW i \in 1..(N + 1),
             i > 1 => s.events[i - 1] < t, i <= N => s.events[i] >= t
      PROVE  ContactAt(s, leg, t) = fs[i]
  BY <1>4, ContactIs
<1>5. p \in 1..N
  OBVIOUS
<1> HIDE DEF N
<1>6. a \in 1..N /\ b \in 1..N /\ 1 \in 1..N
  BY <1>1, <1>2, <1>5
<1>7. fs[b] = fs[p]
  <2>1. CASE b = p
    BY <2>1
  <2>2. CASE b # p
    <3>1. b \in (a + 1)..b
      BY <1>2, <1>5, <1>6, <2>2
    <3> QED BY <1>2, <3>1
  <2> QED BY <2>1, <2>2
<1>8. ASSUME NEW i \in 1..N PROVE ContactAt(s, leg, s.events[i]) = fs[i]
  <2>1. s.events[i] \in Int /\ i \in 1..(N + 1) /\ s.events[i] >= s.events[i]
    BY <1>1
  <2>2. i > 1 => s.events[i - 1] < s.events[i]
    <3>1. i > 1 => i - 1 \in 1..N /\ i - 1 < i
      BY <1>1
    <3> QED BY <1>3, <3>1
  <2> QED BY <1>4, <2>1, <2>2
<1>9. ASSUME NEW t \in (s.events[a] + 1)..s.events[b] PROVE ContactAt(s, leg, t) = fs[p]
  <2> DEFINE j == LowerBound(s.events, t)
  <2>1. t \in Int /\ s.events[a] < t /\ t <= s.events[b]
    <3>1. s.events[a] \in Int /\ s.events[b] \in Int
      BY <1>1, <1>6
    <3>2. ASSUME NEW x \in Int, NEW y \in Int, t \in (x + 1)..y
          PROVE  t \in Int /\ x < t /\ t <= y
      BY <3>2
    <3> QED BY <3>1, <3>2
  <2>2. /\ j \in 1..(N + 1) /\ \A k \in 1..(j - 1) : s.events[k] < t
        /\ j <= N => s.events[j] >= t
    BY <1>1, <2>1, LowerBoundIs DEF N
  <2> HIDE DEF j
  <2>3. ~(b < j)
    <3> SUFFICES ASSUME b < j PROVE FALSE
      OBVIOUS
    <3>1. b \in 1..(j - 1)
      BY <1>6, <2>2
    <3>2. s.events[b] < t /\ s.events[b] \in Int
      BY <1>1, <1>6, <2>2, <3>1
    <3> QED BY <2>1, <3>2
  <2>4. j \in 1..N
    BY <1>1, <1>6, <2>2, <2>3
  <2>5. ~(j <= a)
    <3> SUFFICES ASSUME j <= a PROVE FALSE
      OBVIOUS
    <3>1. j = a \/ s.events[j] < s.events[a]
      BY <1>3, <1>6, <2>4
    <3>2. s.events[j] >= t /\ s.events[j] \in Int /\ s.events[a] \in Int
      BY <1>1, <1>6, <2>2, <2>4
    <3> QED BY <2>1, <3>1, <3>2
  <2>6. j \in (a + 1)..b
    BY <1>6, <2>3, <2>4, <2>5
  <2>7. ContactAt(s, leg, t) = fs[j]
    <3>1. j > 1 => j - 1 \in 1..(j - 1)
      BY <2>2
    <3> QED BY <1>4, <2>1, <2>2, <3>1
  <2> QED BY <1>2, <2>6, <2>7
<1>10. ContactAt(s, leg, s.events[b]) = fs[p]
  BY <1>6, <1>7, <1>8
<1>11. s.events[a] = s.events[1] \/ ContactAt(s, leg, s.events[a]) # ContactAt(s, leg, s.events[b])
  BY <1>2, <1>6, <1>8, <1>10
<1>12. s.events[b] = Back(s.events)
       \/ ContactAt(s, leg, s.events[b] + 1) # ContactAt(s, leg, s.events[b])
  <2>1. CASE b = N
    BY <1>1, <2>1
  <2>2. CASE b # N
    <3>1. b + 1 \in 1..N /\ b + 1 \in 1..(N + 1) /\ b < b + 1 /\ (b + 1) - 1 = b
      BY <1>1, <1>6, <2>2
    <3>2. s.events[b] \in Int /\ s.events[b + 1] \in Int /\ s.events[b] < s.events[b + 1]
      BY <1>1, <1>3, <1>6, <3>1
    <3>3. s.events[b] + 1 \in Int /\ s.events[b + 1] >= s.events[b] + 1
      BY <3>2
    <3>4. s.events[b] < s.events[b] + 1
      BY <3>2
    <3>5. ContactAt(s, leg, s.events[b] + 1) = fs[b + 1]
      BY <1>4, <3>1, <3>3, <3>4
    <3> QED BY <1>2, <1>10, <2>2, <3>5
  <2> QED BY <2>1, <2>2
<1>13. WholePhase(s, leg, s.events[a], s.events[b])
  BY <1>9, <1>10, <1>11, <1>12 DEF WholePhase
<1>14. ASSUME NEW t \in Int, PhaseOf(s, t, p), s.events[1] < t
       PROVE  s.events[a] < t /\ t <= s.events[b]
  <2>1. s.events[p] >= t /\ \A k \in 1..(p - 1) : s.events[k] < t
    BY <1>14 DEF PhaseOf
  <2>2. s.events[a] < t
    <3>1. CASE a = 1
      BY <1>14, <3>1
    <3>2. CASE a \in 1..(p - 1)
      BY <2>1, <3>2
    <3> QED BY <1>2, <3>1, <3>2
  <2>3. b = p \/ s.events[p] < s.events[b]
    BY <1>2, <1>3, <1>5, <1>6
  <2>4. s.events[b] \in Int /\ s.events[p] \in Int
    BY <1>1, <1>5, <1>6
  <2> QED BY <2>1, <2>2, <2>3, <2>4
<1> QED BY <1>13, <1>14

(* However handovers fall between the reads, what the estimator is told of *)
(* a leg is the whole of one standing or swing of the plan of the times,   *)
(* and the one around now if that plan counts as many events before now as *)
(* the events taken do.                                                    *)
LEMMA AnswerFits ==
  ASSUME HandoverInv, TakeEvents, gotPlan # NoPlan, rtPc = "answer", NEW leg \in Leg,
         NEW r \in CountedAlike(gotPlan)
  PROVE  /\ WholePhase(gotPlan, leg, answer'[leg][1], answer'[leg][2])
         /\ \A t \in CountedAlike(gotPlan) :
              gotPlan.events[1] < t => answer'[leg][1] < t /\ t <= answer'[leg][2]
<1> DEFINE s == gotPlan
           N == Len(s.events)
           p == PhaseIndex(eventsBuf, now)
           fs == ContactFlags(s, leg)
           a == StartIndex(fs, p)
           b == FinalIndex(fs, p)
<1>1. /\ gotTimes = StartStopTimes(s) /\ s \in Schedules /\ WellFormed(s)
      /\ Back(s.events) >= now /\ now \in Int
  BY DEF HandoverInv, BuffersInv, ClockInv, Covers, Alternates
<1>2. /\ N \in Nat \ {0} /\ Back(s.events) \in Int
      /\ \A i \in 1..N : s.events[i] \in Int
  BY <1>1, ScheduleIs
<1>3. ASSUME NEW t \in CountedAlike(s) PROVE t \in Int /\ PhaseOf(s, t, p)
  <2>1. t \in {now} \cup 0..Back(s.events) /\ PhaseIndex(s.events, t) = p
    BY DEF CountedAlike
  <2>2. t \in Int /\ Back(s.events) >= t
    BY <1>1, <1>2, <2>1
  <2> QED BY <1>1, <2>1, <2>2, PhaseIndexIs
<1> HIDE DEF p
<1>4. p \in 1..N
  BY <1>3 DEF PhaseOf
<1>5. /\ Interval(s, fs, p, a, b)
      /\ StartStopTimes(s)[leg][p] = <<s.events[a], s.events[b]>>
      /\ DOMAIN StartStopTimes(s)[leg] = 1..(N + 1)
  BY <1>1, <1>4, IntervalIs
<1>6. answer'[leg] = <<s.events[a], s.events[b]>>
  <2>1. answer'[leg] = IF gotTimes[leg] = <<>> THEN <<now, now>>
                       ELSE IF p \in DOMAIN gotTimes[leg] THEN gotTimes[leg][p]
                       ELSE Garbage
    BY DEF TakeEvents, p
  <2>2. gotTimes[leg] = StartStopTimes(s)[leg]
    BY <1>1
  <2>3. p \in 1..(N + 1)
    BY <1>2, <1>4
  <2>4. gotTimes[leg] # <<>>
    <3>1. DOMAIN gotTimes[leg] # {}
      BY <1>5, <2>2, <2>3
    <3>2. DOMAIN <<>> = {}
      OBVIOUS
    <3> QED BY <3>1, <3>2
  <2> QED BY <1>5, <2>1, <2>2, <2>3, <2>4
<1> HIDE DEF a, b, fs
<1>7. /\ WholePhase(s, leg, s.events[a], s.events[b])
      /\ \A t \in Int : PhaseOf(s, t, p) /\ s.events[1] < t =>
           s.events[a] < t /\ t <= s.events[b]
  BY <1>1, <1>4, <1>5, AroundTime DEF fs
<1> QED BY <1>3, <1>6, <1>7

(* Whatever is handed over between its reads, the real-time thread is told *)
(* a whole phase of the leg in the plan of the times, around every time    *)
(* with the count of the events taken.                                     *)
THEOREM PlanIsAround == Spec => PlanAroundNow
<1> DEFINE A == rtPc = "answer" /\ rtPc' = "tick" /\ gotPlan # NoPlan /\ eventsBuf # <<>> =>
                  LET alike == CountedAlike(gotPlan)
                  IN alike # {} => \A leg \in Leg :
                       LET a == answer'[leg][1]
                           b == answer'[leg][2]
                       IN /\ WholePhase(gotPlan, leg, a, b)
                          /\ \A t \in alike : gotPlan.events[1] < t => a < t /\ t <= b
<1>1. HandoverInv /\ [Next]_vars => [A]_vars
  <2> SUFFICES ASSUME HandoverInv, Next, rtPc = "answer", rtPc' = "tick", gotPlan # NoPlan,
                      NEW r \in CountedAlike(gotPlan), NEW leg \in Leg
               PROVE  /\ WholePhase(gotPlan, leg, answer'[leg][1], answer'[leg][2])
                      /\ \A t \in CountedAlike(gotPlan) :
                           gotPlan.events[1] < t => answer'[leg][1] < t /\ t <= answer'[leg][2]
    OBVIOUS
  <2>1. TakeEvents
    <3>1. ~ReadFlags /\ ~TakeTimes /\ ~Tick
      BY DEF ReadFlags, TakeTimes, Tick
    <3>2. ~Mpc
      BY DEF Mpc, BeginIteration, ModifyReferences, SetTimes, SetEvents, Solved, rtVars
    <3> QED BY <3>1, <3>2 DEF Next, RealTime
  <2> QED BY <2>1, AnswerFits
<1> QED BY <1>1, HandoverHolds, PTL DEF Spec, PlanAroundNow

-----------------------------------------------------------------------------
(* A swing before which none is ahead starts where the foot stood.         *)
LEMMA StepsOffFrom ==
  ASSUME NEW s, Alternates(s), NEW leg \in Leg, NEW foot, NEW t \in Int,
         NEW h, h = Footholds(s, leg, foot, t),
         NEW p \in 1..Len(s.modes), ~Contact(s.modes[p], leg), s.events[p] > t,
         \A k \in 1..(p - 1) : ~Contact(s.modes[k], leg) => ~(s.events[k] > t)
  PROVE  h[p][1] = foot
<1> DEFINE fs == ContactFlags(s, leg)
           c  == Chain(s, leg, foot, t)
<1>1. Len(s.modes) \in Nat /\ s \in Schedules
  BY ScheduleIs DEF Alternates
<1>2. ChainOf(s, leg, foot, t, c)
  BY <1>1, ChainIs
<1>3. ~fs[p]
  BY <1>1, FlagsAre
<1>4. h[p][1] = c[p].last
  BY <1>3 DEF Footholds
<1> HIDE DEF c
<1>5. c[p].last = c[p - 1].next
  BY <1>2, <1>3, PhaseSteps
<1>6. Standing(c[p - 1], foot) \/ Stepped(s, leg, t, c[p - 1], p - 1)
  <2>1. p - 1 \in 0..Len(s.modes)
    BY <1>1
  <2> QED BY <1>2, <2>1, ChainStates
<1>7. ~Stepped(s, leg, t, c[p - 1], p - 1)
  <2> SUFFICES ASSUME Stepped(s, leg, t, c[p - 1], p - 1) PROVE FALSE
    OBVIOUS
  <2> DEFINE f == c[p - 1].final
  <2>1. f \in 2..(p - 1) /\ s.events[f] > t /\ ~Contact(s.modes[f], leg)
    BY DEF Stepped
  <2> HIDE DEF f
  <2>2. f \in 1..(p - 1)
    BY <2>1
  <2> QED BY <2>1, <2>2
<1> QED BY <1>4, <1>5, <1>6, <1>7 DEF Standing

SwingsInPhase(s, leg, t, p) ==
  /\ p \in 2..Len(s.events) /\ p \in 1..Len(s.modes)
  /\ StartIndex(ContactFlags(s, leg), p) = p - 1
  /\ \A k \in 1..Len(s.events) : s.events[k] \in Int
  /\ s.events[p] > t /\ \A k \in 1..(p - 1) : s.events[k] <= t

LEMMA SwingNow ==
  ASSUME NEW s, Alternates(s), NEW leg \in Leg, NEW t \in Int,
         NEW p, p = LowerBound(s.events, t + 1), ~Contact(s.modes[p], leg)
  PROVE  SwingsInPhase(s, leg, t, p)
<1> DEFINE N == Len(s.events)
<1>1. /\ N \in Nat \ {0} /\ s.events \in Seq(Int) /\ Len(s.modes) = N + 1
      /\ \A i \in 1..N : s.events[i] \in Int
      /\ s \in Schedules
  BY ScheduleIs DEF Alternates
<1>2. t + 1 \in Int
  OBVIOUS
<1>3. /\ p \in 1..(N + 1) /\ \A k \in 1..(p - 1) : s.events[k] < t + 1
      /\ p <= N => s.events[p] >= t + 1
  BY <1>1, <1>2, LowerBoundIs
<1> HIDE DEF N
<1>4. p \in 1..Len(s.modes) /\ ~ContactFlags(s, leg)[p]
  BY <1>1, <1>3, FlagsAre
<1>5. p \in 2..N /\ StartIndex(ContactFlags(s, leg), p) = p - 1
  BY <1>4, SwingAlone DEF N
<1>6. s.events[p] > t
  BY <1>1, <1>3, <1>5
<1>7. ASSUME NEW k \in 1..(p - 1) PROVE s.events[k] <= t
  <2>1. k \in 1..N
    BY <1>1, <1>5
  <2> QED BY <1>1, <1>3, <2>1
<1> QED BY <1>1, <1>4, <1>5, <1>6, <1>7 DEF N, SwingsInPhase

(* While a leg swings, no later plan moves the point it stepped off.       *)
THEOREM StepOffStays == Spec => StepOffFixed
<1> DEFINE A == mpcPc = "assign" /\ mpcPc' = "times" =>
                  \A leg \in Leg : SameSwing(published, published', leg) =>
                    footholds'[leg][PhaseAfterNow(published')][1]
                      = footholds[leg][PhaseAfterNow(published)][1]
<1>1. HandoverInv /\ [Next]_vars => [A]_vars
  <2> SUFFICES ASSUME HandoverInv, Next, mpcPc = "assign", mpcPc' = "times",
                      NEW leg \in Leg, SameSwing(published, published', leg)
               PROVE  footholds'[leg][PhaseAfterNow(published')][1]
                        = footholds[leg][PhaseAfterNow(published)][1]
    OBVIOUS
  <2>1. ModifyReferences
    <3>1. ~BeginIteration /\ ~SetTimes /\ ~SetEvents /\ ~Solved
      BY DEF BeginIteration, SetTimes, SetEvents, Solved
    <3>2. ~RealTime
      BY DEF RealTime, ReadFlags, TakeTimes, TakeEvents, Tick, mpcVars
    <3> QED BY <3>1, <3>2 DEF Next, Mpc
  <2> DEFINE r == published'
             p == PhaseAfterNow(published)
             q == PhaseAfterNow(r)
  <2>2. /\ initTime \in Nat /\ Alternates(r)
        /\ latest' = LatestStance(r, latest, initTime)
        /\ footholds'[leg] = Footholds(r, leg, latest'[leg], initTime)
    BY <2>1, Iteration
  <2>3. published # NoPlan
    BY DEF SameSwing, NoPlan
  <2>4. PICK t \in Nat : MadeAt(t)
    BY <2>3 DEF HandoverInv, PlanInv
  <2>11. Alternates(published)
    BY <2>4 DEF MadeAt
  <2>5. /\ t <= initTime /\ initTime <= t + MaxLag
        /\ footholds[leg] = Footholds(published, leg, latest[leg], t)
    BY <2>4 DEF MadeAt
  <2>6. /\ ~Contact(published.modes[p], leg) /\ ~Contact(r.modes[q], leg)
        /\ StoodBefore(published, leg, p)
    BY DEF SameSwing
  <2>7. p = LowerBound(published.events, initTime + 1) /\ q = LowerBound(r.events, initTime + 1)
    BY DEF PhaseAfterNow
  <2> HIDE DEF p, q, r
  <2>8. footholds'[leg][q][1] = latest'[leg]
    <3>1. /\ q \in 1..Len(r.modes) /\ r.events[q] > initTime
          /\ q \in 2..Len(r.events) /\ \A k \in 1..Len(r.events) : r.events[k] \in Int
          /\ \A k \in 1..(q - 1) : r.events[k] <= initTime
      <4>1. Alternates(r) /\ initTime \in Int
        BY <2>2
      <4>2. SwingsInPhase(r, leg, initTime, q)
        BY <2>6, <2>7, <4>1, SwingNow
      <4> QED BY <4>2 DEF SwingsInPhase
    <3>2. \A k \in 1..(q - 1) : ~(r.events[k] > initTime)
      <4> SUFFICES ASSUME NEW k \in 1..(q - 1) PROVE ~(r.events[k] > initTime)
        OBVIOUS
      <4>1. k \in 1..Len(r.events)
        BY <3>1
      <4>2. r.events[k] \in Int /\ r.events[k] <= initTime
        BY <3>1, <4>1
      <4> QED BY <2>2, <4>2
    <3> DEFINE foot == latest'[leg]
               h == footholds'[leg]
    <3>3. h = Footholds(r, leg, foot, initTime) /\ Alternates(r) /\ initTime \in Int
      BY <2>2
    <3> HIDE DEF foot, h
    <3>4. h[q][1] = foot
      BY <2>6, <3>1, <3>2, <3>3, StepsOffFrom
    <3> QED BY <3>4 DEF foot, h
  <2>9. latest'[leg] = latest[leg]
    BY <2>2, <2>6, <2>7 DEF LatestStance, ModeAfter
  <2>10. footholds[leg][p][1] = latest[leg]
    <3>1. /\ p \in 1..Len(published.modes) /\ published.events[p] > initTime
          /\ p \in 2..Len(published.events)
          /\ StartIndex(ContactFlags(published, leg), p) = p - 1
          /\ \A k \in 1..Len(published.events) : published.events[k] \in Int
          /\ \A k \in 1..(p - 1) : published.events[k] <= initTime
      <4>1. initTime \in Int
        BY <2>2
      <4>2. SwingsInPhase(published, leg, initTime, p)
        BY <2>6, <2>7, <2>11, <4>1, SwingNow
      <4> QED BY <4>2 DEF SwingsInPhase
    <3>2. published.events[p] > t
      BY <2>2, <2>5, <3>1
    <3>3. ASSUME NEW k \in 1..(p - 1), ~Contact(published.modes[k], leg)
          PROVE  ~(published.events[k] > t)
      <4>1. published.events[k] + MaxLag <= published.events[p - 1]
        BY <2>6, <3>1, <3>3 DEF StoodBefore
      <4>2. p - 1 \in 1..(p - 1) /\ p - 1 \in 1..Len(published.events)
            /\ k \in 1..Len(published.events)
        BY <3>1
      <4>3. /\ published.events[p - 1] <= initTime
            /\ published.events[p - 1] \in Int /\ published.events[k] \in Int
        BY <3>1, <4>2
      <4> QED BY <2>2, <2>5, <4>1, <4>3, HandoverAssumption
    <3> QED BY <2>5, <2>6, <2>11, <3>1, <3>2, <3>3, StepsOffFrom
  <2> QED BY <2>8, <2>9, <2>10 DEF p, q, r
<1> QED BY <1>1, HandoverHolds, PTL DEF Spec, StepOffFixed

-----------------------------------------------------------------------------
(* LegLogic: a timing is that of a run of phases with the same flag.       *)
Run(fs, n, g, x, e) ==
  /\ x \in 1..n /\ e \in x..n /\ \A k \in x..e : fs[k] = g
  /\ x = 1 \/ fs[x - 1] # g
  /\ e = n \/ fs[e + 1] # g

TimingOf(s, r, x, e) ==
  r = [start |-> IF x = 1 THEN Never ELSE s.events[x - 1],
       end   |-> IF e = Len(s.events) + 1 THEN Never ELSE s.events[e]]

LEMMA RunIs ==
  ASSUME NEW n \in Nat, NEW fs \in [1..n -> BOOLEAN], Len(fs) = n,
         NEW g \in BOOLEAN, NEW x \in RunStarts(fs, g)
  PROVE  Run(fs, n, g, x, RunEnd(fs, x))
<1> DEFINE Q == {q \in x..Len(fs) : q = Len(fs) \/ fs[q + 1] # fs[x]}
           e == RunEnd(fs, x)
<1>1. x \in 1..n /\ fs[x] = g /\ (x = 1 \/ fs[x - 1] # g)
  BY DEF RunStarts
<1>2. e \in Q /\ \A y \in Q : e <= y
  <2>1. n \in Q /\ Q \in SUBSET Nat
    BY <1>1
  <2>2. e = Lowest(Q)
    BY DEF RunEnd
  <2> HIDE DEF e, Q
  <2> QED BY <2>1, <2>2, LowestIs
<1> HIDE DEF e
<1>3. e \in x..n /\ (e = n \/ fs[e + 1] # g)
  BY <1>1, <1>2
<1>4. ASSUME NEW k \in x..e, fs[k] # g PROVE FALSE
  <2>1. k # x /\ k \in Int
    BY <1>1, <1>3, <1>4
  <2>2. k - 1 \in x..n /\ (k - 1) + 1 = k /\ ~(e <= k - 1)
    BY <1>1, <1>3, <2>1
  <2>3. k - 1 \in Q
    BY <1>1, <1>4, <2>2
  <2> QED BY <1>2, <2>2, <2>3
<1> QED BY <1>1, <1>3, <1>4 DEF Run, e

LEMMA TimingIs ==
  ASSUME NEW s \in Schedules, WellFormed(s), NEW leg \in Leg, NEW g \in BOOLEAN,
         NEW fs, fs = ContactFlags(s, leg), NEW r \in Timings(s, leg, g)
  PROVE  \E x, e \in Nat : Run(fs, Len(s.events) + 1, g, x, e) /\ TimingOf(s, r, x, e)
<1> DEFINE n == Len(s.events) + 1
<1>1. n \in Nat /\ Len(s.modes) = n
  BY ScheduleIs
<1>2. fs \in [1..n -> BOOLEAN] /\ Len(fs) = n
  BY <1>1, FlagsAre
<1>3. PICK x \in RunStarts(fs, g) : r = Timing(s, fs, x)
  BY DEF Timings
<1> DEFINE e == RunEnd(fs, x)
<1> HIDE DEF n
<1>4. Run(fs, n, g, x, e)
  BY <1>1, <1>2, RunIs
<1>5. TimingOf(s, r, x, e)
  BY <1>2, <1>3 DEF Timing, TimingOf, n
<1>6. x \in Nat /\ e \in Nat
  BY <1>1, <1>4 DEF Run
<1> QED BY <1>4, <1>5, <1>6 DEF n

(* The run that begins at x has a timing.                                  *)
LEMMA TimingAt ==
  ASSUME NEW s \in Schedules, WellFormed(s), NEW leg \in Leg, NEW g \in BOOLEAN,
         NEW fs, fs = ContactFlags(s, leg), NEW x \in 2..(Len(s.events) + 1),
         fs[x] = g, fs[x - 1] # g
  PROVE  \E r \in Timings(s, leg, g), e \in Nat :
           Run(fs, Len(s.events) + 1, g, x, e) /\ TimingOf(s, r, x, e)
<1> DEFINE n == Len(s.events) + 1
           e == RunEnd(fs, x)
           r == Timing(s, fs, x)
<1>1. n \in Nat /\ Len(s.modes) = n
  BY ScheduleIs
<1>2. fs \in [1..n -> BOOLEAN] /\ Len(fs) = n
  BY <1>1, FlagsAre
<1>3. x \in RunStarts(fs, g)
  BY <1>1, <1>2 DEF RunStarts
<1>4. r \in Timings(s, leg, g)
  BY <1>3 DEF Timings
<1>5. TimingOf(s, r, x, e)
  BY <1>2 DEF Timing, TimingOf
<1> HIDE DEF n, r
<1>6. Run(fs, n, g, x, e)
  BY <1>1, <1>2, <1>3, RunIs
<1>7. e \in Nat
  BY <1>1, <1>6 DEF Run
<1> QED BY <1>4, <1>5, <1>6, <1>7 DEF n

(* Where the runs lie beside the interval from a + 1 to b of phase p.      *)
LEMMA OwnRuns ==
  ASSUME NEW n \in Nat, NEW fs \in [1..n -> BOOLEAN], NEW p \in Nat, NEW a \in Nat, NEW b \in Nat,
         1 <= a, a < p, p <= b, b < n,
         \A k \in (a + 1)..b : fs[k] = fs[p], fs[a] # fs[p], fs[b + 1] # fs[p],
         NEW x \in Nat, NEW e \in Nat, Run(fs, n, fs[p], x, e)
  PROVE  e < a \/ x > b + 1 \/ (x = a + 1 /\ e = b)
<1>1. /\ x \in 1..n /\ e \in x..n /\ \A k \in x..e : fs[k] = fs[p]
      /\ x = 1 \/ fs[x - 1] # fs[p]
      /\ e = n \/ fs[e + 1] # fs[p]
  BY DEF Run
<1>2. e < a \/ x > a
  <2>1. ~(a \in x..e)
    BY <1>1
  <2> QED BY <2>1
<1>3. e < b + 1 \/ x > b + 1
  <2>1. ~(b + 1 \in x..e)
    BY <1>1
  <2> QED BY <2>1
<1>4. CASE x > a /\ e < b + 1
  <2>1. ~(x - 1 \in (a + 1)..b)
    BY <1>1, <1>4
  <2>2. ~(e + 1 \in (a + 1)..b)
    BY <1>1, <1>4
  <2> QED BY <1>1, <1>4, <2>1, <2>2
<1> QED BY <1>2, <1>3, <1>4

LEMMA OtherRuns ==
  ASSUME NEW n \in Nat, NEW fs \in [1..n -> BOOLEAN], NEW p \in Nat, NEW a \in Nat, NEW b \in Nat,
         1 <= a, a < p, p <= b, b < n,
         \A k \in (a + 1)..b : fs[k] = fs[p],
         NEW x \in Nat, NEW e \in Nat, Run(fs, n, ~fs[p], x, e)
  PROVE  e <= a \/ x >= b + 1
<1>1. /\ x \in 1..n /\ e \in x..n /\ \A k \in x..e : fs[k] = (~fs[p])
  BY DEF Run
<1>2. fs[p] \in BOOLEAN
  OBVIOUS
<1>3. \A k \in x..e : fs[k] # fs[p]
  BY <1>1, <1>2
<1>4. x \in x..e /\ e \in x..e
  BY <1>1
<1>5. ~(x \in (a + 1)..b) /\ ~(e \in (a + 1)..b)
  BY <1>3, <1>4
<1>6. CASE x <= a
  <2>1. CASE e <= a
    BY <2>1
  <2>2. CASE e >= b + 1
    <3>1. a + 1 \in x..e /\ a + 1 \in (a + 1)..b
      BY <1>6, <2>2
    <3> QED BY <1>3, <3>1
  <2> QED BY <1>1, <1>5, <2>1, <2>2
<1> QED BY <1>1, <1>5, <1>6

-----------------------------------------------------------------------------
(* A time in a phase whose state the schedule limits on both sides.        *)
Limited(s, leg, fs, t, p, a, b) ==
  /\ s \in Schedules /\ WellFormed(s) /\ s.events[1] >= 0
  /\ fs = ContactFlags(s, leg) /\ PhaseOf(s, t, p)
  /\ Interval(s, fs, p, a, b) /\ Inner(fs, p)

(* Timings before and behind a time.                                       *)
Past(r, t) ==
  /\ r.start \in Int /\ r.end \in Int
  /\ r.end # Never /\ r.end < t /\ (r.start = Never \/ r.start < t)

Ahead(r, t) ==
  /\ r.start \in Int /\ r.end \in Int
  /\ r.start # Never /\ r.start >= t /\ (r.end = Never \/ r.end >= t)

(* What it means for the events around the time.                           *)
Bounded(s, fs, t, p, a, b) ==
  LET N == Len(s.events)
  IN /\ N \in Nat \ {0} /\ fs \in [1..(N + 1) -> BOOLEAN]
     /\ p \in 1..N /\ a \in 1..(p - 1) /\ b \in p..N
     /\ \A k \in (a + 1)..b : fs[k] = fs[p]
     /\ fs[a] # fs[p] /\ fs[b + 1] # fs[p]
     /\ s.events[a] < t /\ t <= s.events[b]
     /\ \A i \in 1..N : s.events[i] \in Nat
     /\ \A i, j \in 1..N : i < j => s.events[i] < s.events[j]

LEMMA LimitedIs ==
  ASSUME NEW s, NEW leg \in Leg, NEW fs, NEW t \in Int, NEW p, NEW a, NEW b,
         Limited(s, leg, fs, t, p, a, b)
  PROVE  Bounded(s, fs, t, p, a, b)
<1> DEFINE N == Len(s.events)
<1> USE DEF Limited
<1>1. /\ N \in Nat \ {0} /\ s.events \in Seq(Int) /\ Rises(s.events)
      /\ \A i \in 1..N : s.events[i] \in Int
      /\ Len(s.modes) = N + 1
  BY ScheduleIs
<1>2. fs \in [1..(N + 1) -> BOOLEAN] /\ Len(fs) = N + 1
  BY <1>1, FlagsAre
<1>3. \A i, j \in 1..N : i < j => s.events[i] < s.events[j]
  <2> SUFFICES ASSUME NEW i \in 1..N, NEW j \in 1..N, i < j PROVE s.events[i] < s.events[j]
    OBVIOUS
  <2>1. j \in (i + 1)..N /\ i \in 1..Len(s.events)
    BY <1>1
  <2> QED BY <1>1, <2>1, RisesFar
<1>4. \A i \in 1..N : s.events[i] \in Nat
  <2> SUFFICES ASSUME NEW i \in 1..N PROVE s.events[i] \in Nat
    OBVIOUS
  <2>1. 1 \in 1..N
    BY <1>1
  <2>2. i = 1 \/ s.events[1] < s.events[i]
    BY <1>3, <2>1
  <2>3. s.events[i] \in Int /\ s.events[1] \in Int
    BY <1>1, <2>1
  <2> QED BY <2>2, <2>3
<1>5. p \in 1..N /\ s.events[p] >= t /\ \A k \in 1..(p - 1) : s.events[k] < t
  BY DEF PhaseOf
<1>6. PICK q \in 1..(p - 1), r \in (p + 1)..(N + 1) : fs[q] # fs[p] /\ fs[r] # fs[p]
  BY <1>2 DEF Inner
<1>7. /\ a \in 1..p /\ b \in p..N /\ \A k \in (a + 1)..b : fs[k] = fs[p]
      /\ \/ a = 1 /\ \A k \in 1..p : fs[k] = fs[p]
         \/ a \in 1..(p - 1) /\ fs[a] # fs[p]
      /\ \/ b = N /\ \A k \in p..(N + 1) : fs[k] = fs[p]
         \/ fs[b + 1] # fs[p]
  BY DEF Interval
<1>8. a \in 1..(p - 1) /\ fs[a] # fs[p]
  <2>1. q \in 1..p
    BY <1>5
  <2> QED BY <1>6, <1>7, <2>1
<1>9. fs[b + 1] # fs[p]
  <2>1. r \in p..(N + 1)
    BY <1>1, <1>5
  <2> QED BY <1>6, <1>7, <2>1
<1>10. t <= s.events[b]
  <2>1. b = p \/ s.events[p] < s.events[b]
    BY <1>3, <1>5, <1>7
  <2>2. s.events[b] \in Int /\ s.events[p] \in Int
    BY <1>1, <1>5, <1>7
  <2> QED BY <1>5, <2>1, <2>2
<1> QED BY <1>1, <1>2, <1>3, <1>4, <1>5, <1>7, <1>8, <1>9, <1>10 DEF Bounded

(* The timings of the leg's own state and those of the other.              *)
LEMMA OwnTimings ==
  ASSUME NEW s, NEW leg \in Leg, NEW fs, NEW t \in Int, NEW p, NEW a, NEW b,
         Limited(s, leg, fs, t, p, a, b),
         NEW z, z = [start |-> s.events[a], end |-> s.events[b]]
  PROVE  /\ z \in Timings(s, leg, fs[p])
         /\ \A r \in Timings(s, leg, fs[p]) :
              r = z \/ Past(r, t) \/ Ahead(r, s.events[b] + 1)
<1> DEFINE N == Len(s.events)
           n == N + 1
           g == fs[p]
<1>0. Bounded(s, fs, t, p, a, b)
  BY LimitedIs
<1>1. /\ N \in Nat \ {0} /\ fs \in [1..(N + 1) -> BOOLEAN]
      /\ p \in 1..N /\ a \in 1..(p - 1) /\ b \in p..N
      /\ \A k \in (a + 1)..b : fs[k] = fs[p]
      /\ fs[a] # fs[p] /\ fs[b + 1] # fs[p]
      /\ s.events[a] < t /\ t <= s.events[b]
      /\ \A i \in 1..N : s.events[i] \in Nat
      /\ \A i, j \in 1..N : i < j => s.events[i] < s.events[j]
  BY <1>0 DEF Bounded
<1> HIDE DEF N
<1>2. /\ s \in Schedules /\ WellFormed(s) /\ fs = ContactFlags(s, leg) /\ g \in BOOLEAN
      /\ n \in Nat /\ fs \in [1..n -> BOOLEAN]
      /\ p \in Nat /\ a \in Nat /\ b \in Nat /\ 1 <= a /\ a < p /\ p <= b /\ b < n
  BY <1>1 DEF Limited
<1> HIDE DEF n, g
<1>3. ASSUME NEW x \in Nat, NEW e \in Nat, Run(fs, n, g, x, e)
      PROVE  e < a \/ x > b + 1 \/ (x = a + 1 /\ e = b)
  BY <1>1, <1>2, <1>3, OwnRuns DEF g
<1>4. ASSUME NEW r, NEW x \in Nat, NEW e \in Nat, Run(fs, n, g, x, e), TimingOf(s, r, x, e)
      PROVE  /\ x = a + 1 /\ e = b => r = z
             /\ e < a => Past(r, t)
             /\ x > b + 1 => Ahead(r, s.events[b] + 1)
  <2>1. x \in 1..n /\ e \in x..n
    BY <1>4 DEF Run
  <2>2. r = [start |-> IF x = 1 THEN Never ELSE s.events[x - 1],
             end   |-> IF e = n THEN Never ELSE s.events[e]]
    BY <1>4 DEF TimingOf, n, N
  <2>3. x = a + 1 /\ e = b => r = z
    <3> SUFFICES ASSUME x = a + 1, e = b PROVE r = z
      OBVIOUS
    <3>1. x # 1 /\ x - 1 = a /\ e # n
      BY <1>2
    <3> QED BY <2>2, <3>1
  <2>4. e < a => Past(r, t)
    <3> SUFFICES ASSUME e < a PROVE Past(r, t)
      OBVIOUS
    <3>1. e \in 1..N /\ a \in 1..N /\ e # n /\ (x # 1 => x - 1 \in 1..N /\ x - 1 < a)
      BY <1>1, <1>2, <2>1 DEF n
    <3>2. /\ s.events[e] < s.events[a] /\ s.events[e] \in Nat /\ s.events[a] \in Nat
          /\ x # 1 => s.events[x - 1] < s.events[a] /\ s.events[x - 1] \in Nat
      BY <1>1, <3>1
    <3>3. s.events[a] < t
      BY <1>1
    <3>4. r.end = s.events[e] /\ r.start = IF x = 1 THEN Never ELSE s.events[x - 1]
      BY <2>2, <3>1
    <3>5. r.end \in Nat /\ r.end < t
      BY <3>2, <3>3, <3>4
    <3>6. r.start = Never \/ (r.start \in Nat /\ r.start < t)
      BY <3>2, <3>3, <3>4
    <3> QED BY <3>5, <3>6 DEF Past, Never
  <2>5. x > b + 1 => Ahead(r, s.events[b] + 1)
    <3> SUFFICES ASSUME x > b + 1 PROVE Ahead(r, s.events[b] + 1)
      OBVIOUS
    <3>1. x # 1 /\ x - 1 \in 1..N /\ b < x - 1 /\ b \in 1..N
          /\ (e # n => e \in 1..N /\ b < e)
      BY <1>1, <1>2, <2>1 DEF n
    <3>2. /\ s.events[b] < s.events[x - 1] /\ s.events[x - 1] \in Nat /\ s.events[b] \in Nat
          /\ e # n => s.events[b] < s.events[e] /\ s.events[e] \in Nat
      BY <1>1, <3>1
    <3> QED BY <2>2, <3>1, <3>2 DEF Ahead, Never
  <2> QED BY <2>3, <2>4, <2>5
<1>5. z \in Timings(s, leg, g)
  <2>1. a + 1 \in 2..(Len(s.events) + 1) /\ fs[a + 1] = g /\ fs[(a + 1) - 1] # g
    <3>1. a + 1 \in (a + 1)..b /\ (a + 1) - 1 = a
      BY <1>1, <1>2
    <3> QED BY <1>1, <1>2, <3>1 DEF g, n, N
  <2> DEFINE x == a + 1
  <2> HIDE DEF x
  <2>2. PICK r \in Timings(s, leg, g), e \in Nat :
          Run(fs, Len(s.events) + 1, g, x, e) /\ TimingOf(s, r, x, e)
    BY <1>2, <2>1, TimingAt DEF x
  <2>3. Run(fs, n, g, x, e) /\ x \in Nat /\ x = a + 1
    BY <1>2, <2>2 DEF n, N, x
  <2>4. e \in x..n
    BY <2>3 DEF Run
  <2>5. x = a + 1 /\ e = b
    BY <1>2, <1>3, <2>3, <2>4
  <2>6. r = z
    BY <1>4, <2>2, <2>3, <2>5
  <2> QED BY <2>2, <2>6
<1>6. ASSUME NEW r \in Timings(s, leg, g)
      PROVE  r = z \/ Past(r, t) \/ Ahead(r, s.events[b] + 1)
  <2>1. PICK x \in Nat, e \in Nat : Run(fs, n, g, x, e) /\ TimingOf(s, r, x, e)
    BY <1>2, TimingIs DEF n, N
  <2> QED BY <1>3, <1>4, <2>1
<1> QED BY <1>5, <1>6 DEF g

LEMMA OtherTimings ==
  ASSUME NEW s, NEW leg \in Leg, NEW fs, NEW t \in Int, NEW p, NEW a, NEW b,
         Limited(s, leg, fs, t, p, a, b), NEW r \in Timings(s, leg, ~fs[p])
  PROVE  Past(r, t) \/ Ahead(r, s.events[b])
<1> DEFINE N == Len(s.events)
           n == N + 1
           g == ~fs[p]
<1>0. Bounded(s, fs, t, p, a, b)
  BY LimitedIs
<1>1. /\ N \in Nat \ {0} /\ fs \in [1..(N + 1) -> BOOLEAN]
      /\ p \in 1..N /\ a \in 1..(p - 1) /\ b \in p..N
      /\ \A k \in (a + 1)..b : fs[k] = fs[p]
      /\ s.events[a] < t /\ t <= s.events[b]
      /\ \A i \in 1..N : s.events[i] \in Nat
      /\ \A i, j \in 1..N : i < j => s.events[i] < s.events[j]
  BY <1>0 DEF Bounded
<1> HIDE DEF N
<1>2. /\ s \in Schedules /\ WellFormed(s) /\ fs = ContactFlags(s, leg) /\ g \in BOOLEAN
      /\ n \in Nat /\ fs \in [1..n -> BOOLEAN]
      /\ p \in Nat /\ a \in Nat /\ b \in Nat /\ 1 <= a /\ a < p /\ p <= b /\ b < n
  BY <1>1 DEF Limited
<1> HIDE DEF n
<1>3. PICK x \in Nat, e \in Nat : Run(fs, n, g, x, e) /\ TimingOf(s, r, x, e)
  BY <1>2, TimingIs DEF n, N
<1>4. e <= a \/ x >= b + 1
  BY <1>1, <1>2, <1>3, OtherRuns
<1>5. x \in 1..n /\ e \in x..n
  BY <1>3 DEF Run
<1>6. r = [start |-> IF x = 1 THEN Never ELSE s.events[x - 1],
           end   |-> IF e = n THEN Never ELSE s.events[e]]
  BY <1>3 DEF TimingOf, n, N
<1>7. CASE e <= a
  <2>1. e \in 1..N /\ a \in 1..N /\ e # n /\ (x # 1 => x - 1 \in 1..N /\ x - 1 < a)
    BY <1>1, <1>2, <1>5, <1>7 DEF n
  <2>2. /\ e = a \/ s.events[e] < s.events[a]
        /\ s.events[e] \in Nat /\ s.events[a] \in Nat
        /\ x # 1 => s.events[x - 1] < s.events[a] /\ s.events[x - 1] \in Nat
    BY <1>1, <1>7, <2>1
  <2>3. s.events[a] < t
    BY <1>1
  <2>4. r.end = s.events[e] /\ r.start = IF x = 1 THEN Never ELSE s.events[x - 1]
    BY <1>6, <2>1
  <2>5. r.end \in Nat /\ r.end < t
    BY <2>2, <2>3, <2>4
  <2>6. r.start = Never \/ (r.start \in Nat /\ r.start < t)
    BY <2>2, <2>3, <2>4
  <2> QED BY <2>5, <2>6 DEF Past, Never
<1>8. CASE x >= b + 1
  <2>1. x # 1 /\ x - 1 \in 1..N /\ b <= x - 1 /\ b \in 1..N
        /\ (e # n => e \in 1..N /\ b < e)
    BY <1>1, <1>2, <1>5, <1>8 DEF n
  <2>2. /\ b = x - 1 \/ s.events[b] < s.events[x - 1]
        /\ s.events[x - 1] \in Nat /\ s.events[b] \in Nat
        /\ e # n => s.events[b] < s.events[e] /\ s.events[e] \in Nat
    BY <1>1, <2>1
  <2> QED BY <1>6, <2>1, <2>2 DEF Ahead, Never
<1> QED BY <1>4, <1>7, <1>8

-----------------------------------------------------------------------------
LEMMA LowestOnly ==
  ASSUME NEW S \in SUBSET Int, NEW x \in S, \A y \in S : x <= y
  PROVE  Lowest(S) = x
<1>1. Lowest(S) \in S /\ \A y \in S : Lowest(S) <= y
  BY DEF Lowest
<1> HIDE DEF Lowest
<1>2. Lowest(S) <= x /\ x <= Lowest(S)
  BY <1>1
<1>3. Lowest(S) \in Int /\ x \in Int
  BY <1>1
<1> QED BY <1>2, <1>3

(* The phase of a time within one timing, and within none.                 *)
LEMMA PhaseInside ==
  ASSUME NEW s, NEW leg, NEW flag, NEW t \in Int, NEW z \in Timings(s, leg, flag),
         z.start \in Nat, z.end \in Nat, z.start < t, t <= z.end,
         \A r \in Timings(s, leg, flag) : r = z \/ Past(r, t) \/ Ahead(r, z.end + 1)
  PROVE  PhasePerLeg(s, leg, flag, t) = [elapsed |-> t - z.start, duration |-> z.end - z.start]
<1> DEFINE T == Timings(s, leg, flag)
           within == {r \in T : r.start # Never /\ r.end # Never /\ r.start <= t /\ t <= r.end}
           first == {r \in within : \A q \in within : r.start <= q.start}
<1>1. z.start # Never /\ z.end # Never
  BY DEF Never
<1>2. ASSUME NEW r \in T, r # z
      PROVE  /\ ~(r.start = Never /\ r.end # Never /\ t <= r.end)
             /\ ~(r.end = Never /\ r.start # Never /\ t >= r.start)
             /\ ~(r.start # Never /\ r.end # Never /\ r.start <= t /\ t <= r.end)
  <2>1. CASE Past(r, t)
    BY <2>1 DEF Past
  <2>2. CASE Ahead(r, z.end + 1)
    BY <2>2 DEF Ahead
  <2> QED BY <1>2, <2>1, <2>2
<1>3. within = {z}
  BY <1>1, <1>2
<1>4. first = {z}
  BY <1>3
<1>5. ~\E r \in T : r.start = Never /\ r.end # Never /\ t <= r.end
  BY <1>1, <1>2
<1>6. ~\E r \in T : r.end = Never /\ r.start # Never /\ t >= r.start
  BY <1>1, <1>2
<1>7. PhasePerLeg(s, leg, flag, t) =
        LET r == CHOOSE r \in first : TRUE
        IN [elapsed |-> t - r.start, duration |-> r.end - r.start]
  <2>1. within # {}
    BY <1>3
  <2> QED BY <1>5, <1>6, <2>1 DEF PhasePerLeg
<1> HIDE DEF first
<1>8. (CHOOSE r \in first : TRUE) = z
  BY <1>4
<1> QED BY <1>7, <1>8

LEMMA PhaseOutside ==
  ASSUME NEW s, NEW leg, NEW flag, NEW t \in Int, NEW u \in Int, t < u,
         \A r \in Timings(s, leg, flag) : Past(r, t) \/ Ahead(r, u)
  PROVE  PhasePerLeg(s, leg, flag, t) = NoPhase
<1> DEFINE T == Timings(s, leg, flag)
           within == {r \in T : r.start # Never /\ r.end # Never /\ r.start <= t /\ t <= r.end}
<1>1. ASSUME NEW r \in T
      PROVE  /\ ~(r.start = Never /\ r.end # Never /\ t <= r.end)
             /\ ~(r.end = Never /\ r.start # Never /\ t >= r.start)
             /\ ~(r.start # Never /\ r.end # Never /\ r.start <= t /\ t <= r.end)
  <2>1. CASE Past(r, t)
    BY <2>1 DEF Past
  <2>2. CASE Ahead(r, u)
    BY <2>2 DEF Ahead
  <2> QED BY <1>1, <2>1, <2>2
<1>2. within = {}
  BY <1>1
<1> QED BY <1>1, <1>2 DEF PhasePerLeg

(* The next lift-off of a leg that stands, the next touch-down of one that *)
(* swings.                                                                 *)
LEMMA LiftOffIs ==
  ASSUME NEW s, NEW leg, NEW t \in Nat, NEW z \in Timings(s, leg, TRUE),
         z.end \in Nat, t < z.end,
         \A r \in Timings(s, leg, TRUE) : r = z \/ Past(r, t) \/ Ahead(r, z.end + 1)
  PROVE  NextLiftOff(s, leg, t) = z.end
<1> DEFINE later == {r.end : r \in {q \in Timings(s, leg, TRUE) : q.end > t}}
<1>1. z.end \in later
  OBVIOUS
<1>2. ASSUME NEW y \in later PROVE y \in Int /\ z.end <= y
  <2>1. PICK r \in Timings(s, leg, TRUE) : r.end > t /\ y = r.end
    OBVIOUS
  <2>2. CASE r = z
    BY <2>1, <2>2
  <2>3. CASE Past(r, t)
    BY <2>1, <2>3 DEF Past
  <2>4. CASE Ahead(r, z.end + 1)
    BY <2>1, <2>4 DEF Ahead, Never
  <2> QED BY <2>1, <2>2, <2>3, <2>4
<1> HIDE DEF later
<1>3. later \in SUBSET Int /\ later # {}
  BY <1>1, <1>2
<1>4. Lowest(later) = z.end
  BY <1>1, <1>2, <1>3, LowestOnly
<1> QED BY <1>3, <1>4 DEF NextLiftOff, later

LEMMA TouchDownIs ==
  ASSUME NEW s, NEW leg, NEW t \in Nat, NEW u \in Nat, t < u,
         NEW z \in Timings(s, leg, TRUE), z.start = u,
         \A r \in Timings(s, leg, TRUE) : Past(r, t) \/ Ahead(r, u)
  PROVE  NextTouchDown(s, leg, t) = u
<1> DEFINE later == {r.start : r \in {q \in Timings(s, leg, TRUE) : q.start > t}}
<1>1. u \in later
  OBVIOUS
<1>2. ASSUME NEW y \in later PROVE y \in Int /\ u <= y
  <2>1. PICK r \in Timings(s, leg, TRUE) : r.start > t /\ y = r.start
    OBVIOUS
  <2>2. CASE Past(r, t)
    BY <2>1, <2>2 DEF Past, Never
  <2>3. CASE Ahead(r, u)
    BY <2>1, <2>3 DEF Ahead
  <2> QED BY <2>1, <2>2, <2>3
<1> HIDE DEF later
<1>3. later \in SUBSET Int /\ later # {}
  BY <1>1, <1>2
<1>4. Lowest(later) = u
  BY <1>1, <1>2, <1>3, LowestOnly
<1> QED BY <1>3, <1>4 DEF NextTouchDown, later

(* What LegLogic says of a time in such a phase.                           *)
Agrees(s, leg, t, flag, start, end) ==
  /\ PhasePerLeg(s, leg, flag, t) = [elapsed |-> t - start, duration |-> end - start]
  /\ t < end => PhasePerLeg(s, leg, ~flag, t) = NoPhase
  /\ t < end =>
       end = IF flag THEN NextLiftOff(s, leg, t) ELSE NextTouchDown(s, leg, t)

LEMMA LegLogicSays ==
  ASSUME NEW s, NEW leg \in Leg, NEW fs, NEW t \in Nat, NEW p, NEW a, NEW b,
         Limited(s, leg, fs, t, p, a, b)
  PROVE  Agrees(s, leg, t, fs[p], s.events[a], s.events[b])
<1> DEFINE z == [start |-> s.events[a], end |-> s.events[b]]
           u == s.events[b]
           v == s.events[a]
<1>1. Bounded(s, fs, t, p, a, b)
  BY LimitedIs
<1>2. /\ v \in Nat /\ u \in Nat /\ v < t /\ t <= u /\ fs[p] \in BOOLEAN
      /\ b \in 1..Len(s.events) /\ fs \in [1..(Len(s.events) + 1) -> BOOLEAN]
      /\ fs[b] = fs[p] /\ fs[b + 1] # fs[p] /\ fs[b + 1] \in BOOLEAN
  <2>1. /\ a \in 1..Len(s.events) /\ b \in 1..Len(s.events) /\ b \in (a + 1)..b
        /\ p \in 1..(Len(s.events) + 1) /\ b + 1 \in 1..(Len(s.events) + 1)
    BY <1>1 DEF Bounded
  <2> QED BY <1>1, <2>1 DEF Bounded
<1>3. z.start = v /\ z.end = u
  OBVIOUS
<1>0. z = [start |-> s.events[a], end |-> s.events[b]] /\ u = s.events[b]
  OBVIOUS
<1> HIDE DEF z
<1>4. /\ z \in Timings(s, leg, fs[p])
      /\ \A r \in Timings(s, leg, fs[p]) : r = z \/ Past(r, t) \/ Ahead(r, s.events[b] + 1)
  BY <1>0, OwnTimings
<1>5. \A r \in Timings(s, leg, fs[p]) : r = z \/ Past(r, t) \/ Ahead(r, u + 1)
  BY <1>4
<1>6. \A r \in Timings(s, leg, ~fs[p]) : Past(r, t) \/ Ahead(r, u)
  BY OtherTimings
<1>7. s \in Schedules /\ WellFormed(s) /\ fs = ContactFlags(s, leg)
  BY DEF Limited
<1>8. ~fs[p] => \E r \in Timings(s, leg, TRUE) : r.start = u
  <2> SUFFICES ASSUME ~fs[p] PROVE \E r \in Timings(s, leg, TRUE) : r.start = u
    OBVIOUS
  <2> DEFINE x == b + 1
  <2>1. x \in 2..(Len(s.events) + 1) /\ x - 1 = b /\ x # 1 /\ x = b + 1
    BY <1>2
  <2> HIDE DEF x
  <2>4. fs[x - 1] # TRUE
    BY <1>2, <2>1
  <2>5. fs[x] = TRUE
    <3>1. fs[x] \in BOOLEAN /\ fs[x] # fs[p]
      BY <1>2, <2>1
    <3>2. fs[p] = FALSE
      BY <1>2
    <3> QED BY <3>1, <3>2
  <2>2. PICK r \in Timings(s, leg, TRUE), e \in Nat : TimingOf(s, r, x, e)
    BY <1>7, <2>1, <2>4, <2>5, TimingAt
  <2>3. r.start = s.events[x - 1]
    BY <2>1, <2>2 DEF TimingOf
  <2> QED BY <2>1, <2>3
<1> HIDE DEF u, v
<1>9. PhasePerLeg(s, leg, fs[p], t) = [elapsed |-> t - v, duration |-> u - v]
  BY <1>2, <1>3, <1>4, <1>5, PhaseInside
<1>10. ASSUME t < u PROVE PhasePerLeg(s, leg, ~fs[p], t) = NoPhase
  BY <1>2, <1>6, <1>10, PhaseOutside
<1>11. ASSUME t < u, fs[p] PROVE u = NextLiftOff(s, leg, t)
  <2>1. fs[p] = TRUE
    BY <1>2, <1>11
  <2> QED BY <1>2, <1>3, <1>4, <1>5, <1>11, <2>1, LiftOffIs
<1>12. ASSUME t < u, ~fs[p] PROVE u = NextTouchDown(s, leg, t)
  <2>1. (~fs[p]) = TRUE
    BY <1>2, <1>12
  <2>2. \A r \in Timings(s, leg, TRUE) : Past(r, t) \/ Ahead(r, u)
    BY <1>6, <2>1
  <2>3. PICK r \in Timings(s, leg, TRUE) : r.start = u
    BY <1>8, <1>12
  <2> QED BY <1>2, <1>12, <2>2, <2>3, TouchDownIs
<1> QED BY <1>9, <1>10, <1>11, <1>12 DEF u, v, Agrees

(* LegLogic and the planner find a leg's phases by different algorithms    *)
(* and agree: where the planner's interval is bounded by changes on both   *)
(* sides, the phase elapsed and its duration are those of the interval,    *)
(* the other phase is none except at the boundary, and the interval ends   *)
(* at the next lift-off or touch-down.                                     *)
LEMMA AgreementHolds ==
  ASSUME HandoverInv
  PROVE  LegLogicAgrees
<1> SUFFICES ASSUME mpcPc = "times", NEW leg \in Leg, NEW t \in {initTime, initTime + Horizon},
                    NEW fs, fs = ContactFlags(published, leg),
                    NEW p, p = PhaseIndex(published.events, t),
                    Inner(fs, p)
             PROVE  LET interval == StartStopTimes(published)[leg][p]
                    IN Agrees(published, leg, t, fs[p], interval[1], interval[2])
  BY DEF LegLogicAgrees, Agrees
<1>1. Horizon \in Nat \ {0} /\ initTime \in Nat
  BY HandoverAssumption DEF HandoverInv, ClockInv
<1>2. MadeAt(initTime)
  <2>1. PICK q \in Nat : MadeAt(q)
    BY <1>1 DEF HandoverInv, PlanInv
  <2> QED BY <2>1 DEF MadeAt
<1>3. /\ published \in Schedules /\ WellFormed(published) /\ published.events[1] >= 0
      /\ t \in Nat /\ Back(published.events) >= t
  <2>1. Back(published.events) >= initTime + 2 * Horizon
    BY <1>2 DEF MadeAt
  <2>2. published \in Schedules /\ WellFormed(published) /\ published.events[1] >= 0
    BY <1>2 DEF MadeAt, Alternates
  <2>3. Back(published.events) \in Int
    BY <2>2, ScheduleIs
  <2> QED BY <1>1, <2>1, <2>2, <2>3
<1>4. PhaseOf(published, t, p) /\ p \in 1..Len(published.events)
  BY <1>3, PhaseIndexIs DEF PhaseOf
<1> DEFINE a == StartIndex(fs, p)
           b == FinalIndex(fs, p)
<1>5. /\ Interval(published, fs, p, a, b)
      /\ StartStopTimes(published)[leg][p] = <<published.events[a], published.events[b]>>
  BY <1>3, <1>4, IntervalIs
<1> HIDE DEF a, b
<1>6. Limited(published, leg, fs, t, p, a, b)
  BY <1>3, <1>4, <1>5 DEF Limited
<1>7. Agrees(published, leg, t, fs[p], published.events[a], published.events[b])
  BY <1>3, <1>6, LegLogicSays
<1> QED BY <1>5, <1>7

THEOREM LegLogicFits == Spec => []LegLogicAgrees
<1>1. Spec => []HandoverInv
  BY HandoverHolds
<1>2. HandoverInv => LegLogicAgrees
  BY AgreementHolds
<1> QED BY <1>1, <1>2, PTL

-----------------------------------------------------------------------------
(* What the real-time thread sees of the swings of a leg while the MPC     *)
(* thread replaces one plan by the next.                                   *)

(* The swings of a leg, from lift-off to touch-down.                       *)
Swings(s, leg) ==
  {<<s.events[i - 1], s.events[i]>> : i \in {k \in 2..Len(s.events) : ~Contact(s.modes[k], leg)}}

-----------------------------------------------------------------------------
(* The invariant.                                                          *)

(* When the flags were last read.                                          *)
LastRead == IF rtPc = "flags" THEN now - 1 ELSE now

(* A plan and the schedule that the next plan will extend: they are one up *)
(* to a time at which no foot of the plan is in the middle of a swing, and *)
(* an iteration that begins then is over before the next event.            *)
SameUntil(s, x, from) ==
  /\ \A leg \in Leg :
       /\ \A w \in Swings(s, leg) : w[2] <= from \/ w[1] >= from
       /\ \A w \in Swings(s, leg) : w[2] <= from => w \in Swings(x, leg)
       /\ \A w \in Swings(x, leg) : w[1] < from => w \in Swings(s, leg)
  /\ \A i \in 1..Len(x.events) : x.events[i] <= from \/ x.events[i] > from + MaxLag

(* Of a leg that was seen to stand at time r: if the plan of time t has it *)
(* swing when the flags are read next, it has just lifted, or it has been  *)
(* planned to too late, and for good.                                      *)
SeenDown(W, t, r) ==
  \A w \in W : w[1] <= r /\ r < w[2] => w[1] = r \/ (w[1] < t /\ r <= w[1] + MaxLag)

(* Of a leg that was first seen to swing at time x, and last at time r: it *)
(* is in a swing of the plan that can no longer be taken back, or that     *)
(* began when it was seen to; or its swing was taken back in time, and any *)
(* swing planned instead is for good.                                      *)
SeenUp(W, t, r, x) ==
  \E w \in W : /\ w[1] <= r /\ r <= w[2] /\ x <= w[1] + 1 + MaxLag
               /\ w[1] < t \/ w[1] = x - 1

TakenBack(W, t, r, x) ==
  /\ r < x + MaxLag /\ t >= r
  /\ \A w \in W : w[1] <= r /\ r < w[2] => w[1] < t /\ x <= w[1] + 1 + MaxLag

(* What was seen of a leg: the flags are known or not, and show contact or *)
(* not; x is when they turned to swing, or -1.                             *)
ShownAs(W, t, r, known, contact, x) ==
  /\ x \in Nat \cup {-1}
  /\ ~known \/ contact => x = -1
  /\ known /\ contact => SeenDown(W, t, r)
  /\ x # -1 => x <= r /\ (SeenUp(W, t, r, x) \/ TakenBack(W, t, r, x))

Shown(leg, t) ==
  ShownAs(Swings(published, leg), t, LastRead, sure, flags[leg], lifted[leg])

Planned(t) ==
  /\ t <= initTime /\ initTime <= t + MaxLag
  /\ IF mpcPc = "assign" THEN t < initTime ELSE t = initTime
  /\ sure /\ mpcPc = "assign" => LastRead <= initTime
  /\ \E from \in Nat : /\ t <= from /\ from <= Back(schedule.events)
                       /\ SameUntil(published, schedule, from)
  /\ \A leg \in Leg : Shown(leg, t)

NothingSeen ==
  /\ sure /\ flags = Stand /\ lifted = [leg \in Leg |-> -1]
  /\ \A leg \in Leg : Swings(published, leg) = {}

(* Swings are whole.                                                       *)
Whole == {x \in Mode \X Int : x[1] = STANCE \/ x[2] >= SwingTime}

SeenInv ==
  /\ ~firstStartMpc => NothingSeen
  /\ published = NoPlan =>
       ~firstStartMpc /\ schedule = InitialSchedule /\ template = DefaultTemplate
  /\ ~firstStartMpc /\ published # NoPlan => mpcPc # "assign" /\ mpcPc # "idle"
  /\ cutSwing \in BOOLEAN /\ sure \in BOOLEAN
  /\ flags \in [Leg -> BOOLEAN] /\ DOMAIN lifted = Leg
  /\ \/ cutSwing
     \/ /\ PhasesIn(schedule, Whole) /\ PhasesIn(published, Whole)
        /\ published # NoPlan => \E t \in Nat : Planned(t)
  /\ SwingsSeenWhole

-----------------------------------------------------------------------------
(* Swings of a schedule.                                                   *)
LEMMA InOrder ==
  ASSUME NEW s \in Schedules, WellFormed(s),
         NEW i \in 1..Len(s.events), NEW j \in 1..Len(s.events)
  PROVE  /\ s.events[i] \in Int /\ s.events[j] \in Int
         /\ i < j => s.events[i] < s.events[j]
         /\ s.events[i] < s.events[j] => i < j
<1>1. /\ s.events \in Seq(Int) /\ Rises(s.events) /\ Len(s.events) \in Nat
      /\ s.events[i] \in Int /\ s.events[j] \in Int
  BY ScheduleIs
<1>2. i < j => s.events[i] < s.events[j]
  <2> SUFFICES ASSUME i < j PROVE s.events[i] < s.events[j]
    OBVIOUS
  <2>1. j \in (i + 1)..Len(s.events)
    BY <1>1
  <2> QED BY <1>1, <2>1, RisesFar
<1>3. j < i => s.events[j] < s.events[i]
  <2> SUFFICES ASSUME j < i PROVE s.events[j] < s.events[i]
    OBVIOUS
  <2>1. i \in (j + 1)..Len(s.events)
    BY <1>1
  <2> QED BY <1>1, <2>1, RisesFar
<1>4. i < j \/ j < i \/ i = j
  BY <1>1
<1> QED BY <1>1, <1>2, <1>3, <1>4

SwingOf(s, leg, w, i) ==
  /\ i \in 2..Len(s.events) /\ i \in 1..Len(s.events) /\ i - 1 \in 1..Len(s.events)
  /\ w = <<s.events[i - 1], s.events[i]>>
  /\ w[1] = s.events[i - 1] /\ w[2] = s.events[i]
  /\ w[1] \in Int /\ w[2] \in Int /\ w[1] < w[2]
  /\ ~Contact(s.modes[i], leg) /\ s.modes[i] # STANCE

LEMMA SwingIs ==
  ASSUME NEW s \in Schedules, WellFormed(s), NEW leg, NEW w \in Swings(s, leg)
  PROVE  \E i \in Nat : SwingOf(s, leg, w, i)
<1>1. PICK i \in 2..Len(s.events) : ~Contact(s.modes[i], leg) /\ w = <<s.events[i - 1], s.events[i]>>
  BY DEF Swings
<1>2. Len(s.events) \in Nat
  BY ScheduleIs
<1>3. i \in 1..Len(s.events) /\ i - 1 \in 1..Len(s.events) /\ i - 1 < i /\ i \in Nat
  BY <1>2
<1> DEFINE k == i - 1
<1> HIDE DEF k
<1>4. k \in 1..Len(s.events) /\ k < i /\ k = i - 1
  BY <1>3 DEF k
<1>5. s.events[k] \in Int /\ s.events[i] \in Int /\ s.events[k] < s.events[i]
  BY <1>3, <1>4, InOrder
<1>6. s.modes[i] # STANCE
  BY <1>1 DEF Contact
<1> QED BY <1>1, <1>3, <1>4, <1>5, <1>6 DEF SwingOf

LEMMA SwingAt ==
  ASSUME NEW s, NEW leg, NEW i \in 2..Len(s.events), ~Contact(s.modes[i], leg)
  PROVE  <<s.events[i - 1], s.events[i]>> \in Swings(s, leg)
BY DEF Swings

(* A leg swings at a time if and only if the time is in one of its swings. *)
LEMMA SwingAtTime ==
  ASSUME NEW s \in Schedules, WellFormed(s), NEW leg, NEW t \in Int, Back(s.events) >= t
  PROVE  Contact(ModeAt(s, t), leg) <=> ~\E w \in Swings(s, leg) : w[1] < t /\ t <= w[2]
<1> DEFINE N == Len(s.events)
           p == LowerBound(s.events, t)
<1>1. /\ s.events \in Seq(Int) /\ Rises(s.events) /\ N \in Nat \ {0}
      /\ s.modes[1] = STANCE
  BY ScheduleIs
<1>2. PhaseOf(s, t, p)
  BY PhaseIndexIs
<1>3. /\ p \in 1..N /\ s.events[p] >= t /\ \A k \in 1..(p - 1) : s.events[k] < t
      /\ ModeAt(s, t) = s.modes[p]
  BY <1>2 DEF PhaseOf, ModeAt
<1> HIDE DEF p, N
<1>4. ASSUME ~Contact(s.modes[p], leg)
      PROVE  \E w \in Swings(s, leg) : w[1] < t /\ t <= w[2]
  <2>1. p # 1
    BY <1>1, <1>4 DEF Contact
  <2>2. p \in 2..N /\ p - 1 \in 1..(p - 1)
    BY <1>1, <1>3, <2>1
  <2>3. <<s.events[p - 1], s.events[p]>> \in Swings(s, leg)
    BY <1>4, <2>2, SwingAt DEF N
  <2>4. s.events[p - 1] < t /\ t <= s.events[p]
    <3>1. s.events[p] \in Int
      BY <1>1, <1>3, ScheduleIs DEF N
    <3> QED BY <1>3, <2>2, <3>1
  <2> QED BY <2>3, <2>4
<1>5. ASSUME NEW w \in Swings(s, leg), w[1] < t, t <= w[2]
      PROVE  ~Contact(s.modes[p], leg)
  <2>1. PICK i \in Nat : SwingOf(s, leg, w, i)
    BY SwingIs
  <2>2. i \in 1..(N + 1) /\ s.events[i - 1] < t /\ s.events[i] >= t
    BY <1>1, <1>5, <2>1 DEF SwingOf, N
  <2>3. p = i
    BY <1>1, <2>2, LowerBoundOnly DEF N, p
  <2> QED BY <2>1, <2>3 DEF SwingOf
<1> QED BY <1>3, <1>4, <1>5

(* Two swings of a leg have a stance between them.                         *)
LEMMA SwingsApart ==
  ASSUME NEW s, Alternates(s), NEW leg \in Leg,
         NEW w \in Swings(s, leg), NEW v \in Swings(s, leg)
  PROVE  v[2] <= w[1] \/ v = w \/ v[1] > w[2]
<1>1. s \in Schedules /\ WellFormed(s) /\ PairsIn(s, Turns)
  BY DEF Alternates
<1>2. PICK i \in Nat : SwingOf(s, leg, w, i)
  BY <1>1, SwingIs
<1>3. PICK k \in Nat : SwingOf(s, leg, v, k)
  BY <1>1, SwingIs
<1>4. CASE i = k
  BY <1>2, <1>3, <1>4 DEF SwingOf
<1>5. CASE k < i
  <2>1. k = i - 1 \/ k < i - 1
    BY <1>5
  <2>2. k \in 1..Len(s.events) /\ i - 1 \in 1..Len(s.events)
    BY <1>2, <1>3 DEF SwingOf
  <2> DEFINE j == i - 1
  <2> HIDE DEF j
  <2>3. s.events[k] \in Int /\ s.events[j] \in Int /\ (k < j => s.events[k] < s.events[j])
    BY <1>1, <2>2, InOrder DEF j
  <2>4. s.events[k] <= s.events[j]
    BY <2>1, <2>3 DEF j
  <2> QED BY <1>2, <1>3, <2>4 DEF SwingOf, j
<1>6. CASE k = i + 1
  <2>1. <<s.modes[i], s.modes[i + 1]>> \in Turns
    BY <1>1, <1>2 DEF PairsIn, SwingOf
  <2>2. Contact(s.modes[i], leg) \/ Contact(s.modes[k], leg)
    BY <1>6, <2>1 DEF Turns, InTurn
  <2> QED BY <1>2, <1>3, <2>2 DEF SwingOf
<1>7. CASE k > i + 1
  <2>1. i \in 1..Len(s.events) /\ k - 1 \in 1..Len(s.events) /\ i < k - 1
    BY <1>2, <1>3, <1>7 DEF SwingOf
  <2> DEFINE j == k - 1
  <2> HIDE DEF j
  <2>2. s.events[i] < s.events[j]
    BY <1>1, <2>1, InOrder DEF j
  <2>3. s.events[i] \in Int /\ s.events[j] \in Int
    BY <1>1, <2>1, InOrder DEF j
  <2> QED BY <1>2, <1>3, <2>2, <2>3 DEF SwingOf, j
<1> QED BY <1>4, <1>5, <1>6, <1>7

-----------------------------------------------------------------------------
(* A schedule and what the next iteration makes of it.                     *)
Slow(tpl) == \A i \in 1..Len(tpl.modes) : tpl.times[i + 1] - tpl.times[i] > MaxLag

LEMMA GaitsSlow ==
  ASSUME NEW tpl \in {StanceTemplate, TrotTemplate, DefaultTemplate}
  PROVE  Slow(tpl)
BY LagAssumption DEF Slow

LEMMA FirstTileSlow ==
  ASSUME NEW tpl \in Templates, Slow(tpl), NEW start \in Int
  PROVE  TileEvent(tpl, start, 1) \in Int /\ TileEvent(tpl, start, 1) > start + MaxLag
<1>1. PICK p \in 1..Len(tpl.modes) :
        /\ TileMode(tpl, 1) = tpl.modes[p]
        /\ TileEvent(tpl, start, 1) - TileStart(tpl, start, 1) = tpl.times[p + 1] - tpl.times[p]
  <2>1. 1 \in Nat \ {0}
    OBVIOUS
  <2> QED BY <2>1, TilePhase
<1>2. TileStart(tpl, start, 1) = start
  BY DEF TileStart
<1>3. TileEvent(tpl, start, 1) \in Int
  BY TileEventIs
<1>4. tpl.times[p + 1] - tpl.times[p] > MaxLag
  BY DEF Slow
<1>5. MaxLag \in Nat
  BY HandoverAssumption
<1>6. TileEvent(tpl, start, 1) - start > MaxLag
  BY <1>1, <1>2, <1>4
<1> QED BY <1>3, <1>5, <1>6

(* A schedule left alone.                                                  *)
LEMMA LeftAlone ==
  ASSUME NEW s \in Schedules, WellFormed(s)
  PROVE  SameUntil(s, s, Back(s.events))
<1>1. /\ Len(s.events) \in Nat \ {0} /\ Back(s.events) = s.events[Len(s.events)]
      /\ Back(s.events) \in Int
  BY ScheduleIs
<1>2. ASSUME NEW i \in 1..Len(s.events) PROVE s.events[i] <= Back(s.events)
  <2>1. Len(s.events) \in 1..Len(s.events) /\ (i = Len(s.events) \/ i < Len(s.events))
    BY <1>1
  <2> QED BY <1>1, <2>1, InOrder
<1>3. ASSUME NEW leg \in Leg, NEW w \in Swings(s, leg) PROVE w[2] <= Back(s.events)
  <2>1. PICK i \in Nat : SwingOf(s, leg, w, i)
    BY SwingIs
  <2> QED BY <2>1, <1>2 DEF SwingOf
<1> QED BY <1>2, <1>3 DEF SameUntil

(* Where a gait may begin: at an event, or while standing.                 *)
MayBegin(s, start, j) == s.modes[j] = STANCE \/ (j <= Len(s.events) /\ s.events[j] = start)

LEMMA SwingsInserted ==
  ASSUME NEW s \in Schedules, WellFormed(s), NEW tpl \in Templates,
         NEW start \in Int, NEW final \in Int,
         NEW j, j = LowerBound(s.events, start), MayBegin(s, start, j),
         NEW x, x = InsertTemplate(s, tpl, start, final), NEW leg
  PROVE  /\ \A w \in Swings(s, leg) : w[2] <= start \/ w[1] >= start
         /\ \A w \in Swings(s, leg) : w[2] <= start => w \in Swings(x, leg)
         /\ \A w \in Swings(x, leg) : w[1] < start => w \in Swings(s, leg)
<1>1. PICK b \in Nat, T \in Nat, n \in Nat : InsertShape(s, j, tpl, start, x, b, T, n)
  BY InsertShapeIs
<1>2. /\ j \in Nat /\ j >= 1 /\ SameUpTo(s, x, j) /\ x.events[j] = start
      /\ x \in Schedules /\ WellFormed(x) /\ j \in 1..Len(x.events)
  <2>1. x \in Schedules /\ WellFormed(x) /\ j \in 1..Len(x.events)
    BY InsertIs
  <2>2. Len(x.events) \in Nat
    BY <2>1, ScheduleIs
  <2> QED BY <1>1, <2>1, <2>2 DEF InsertShape
<1>3. Len(s.events) \in Nat /\ s.events \in Seq(Int)
  BY ScheduleIs
<1>4. /\ \A k \in 1..(j - 1) : s.events[k] < start
      /\ j <= Len(s.events) => s.events[j] >= start
  BY <1>3, LowerBoundIs
<1>5. ASSUME NEW w \in Swings(s, leg), NEW i \in Nat, SwingOf(s, leg, w, i)
      PROVE  \/ i < j /\ w[2] < start
             \/ i = j /\ s.events[j] = start /\ w[2] = start
             \/ w[1] >= start
  <2>1. CASE i < j
    <3>1. i \in 1..(j - 1)
      BY <1>2, <1>5, <2>1 DEF SwingOf
    <3> QED BY <1>4, <1>5, <2>1, <3>1 DEF SwingOf
  <2>2. CASE i = j
    BY <1>5, <2>2 DEF SwingOf, MayBegin
  <2>3. CASE i > j
    <3> DEFINE k == i - 1
    <3> HIDE DEF k
    <3>1. k \in 1..Len(s.events) /\ j \in 1..Len(s.events) /\ j <= k
      <4>1. i \in 2..Len(s.events)
        BY <1>5 DEF SwingOf
      <4> QED BY <1>2, <1>3, <2>3, <4>1 DEF k
    <3>2. s.events[j] \in Int /\ s.events[k] \in Int /\ (j < k => s.events[j] < s.events[k])
      BY <3>1, InOrder
    <3>3. s.events[k] >= s.events[j] /\ s.events[j] >= start
      BY <1>2, <1>4, <3>1, <3>2
    <3>4. s.events[k] >= start
      BY <3>2, <3>3
    <3> QED BY <1>5, <3>4 DEF SwingOf, k
  <2> QED BY <1>2, <2>1, <2>2, <2>3
<1>6. ASSUME NEW w \in Swings(s, leg) PROVE w[2] <= start \/ w[1] >= start
  <2>1. PICK i \in Nat : SwingOf(s, leg, w, i)
    BY SwingIs
  <2>2. w[2] \in Int
    BY <2>1 DEF SwingOf
  <2> QED BY <1>5, <2>1, <2>2
<1>7. ASSUME NEW w \in Swings(s, leg), w[2] <= start PROVE w \in Swings(x, leg)
  <2>1. PICK i \in Nat : SwingOf(s, leg, w, i)
    BY SwingIs
  <2>2. i \in 2..j /\ s.events[i] = x.events[i]
    <3>1. w[1] < start
      BY <1>7, <2>1 DEF SwingOf
    <3>2. i < j \/ (i = j /\ s.events[j] = start)
      BY <1>5, <2>1, <3>1 DEF SwingOf
    <3>3. i \in 2..Len(s.events)
      BY <2>1 DEF SwingOf
    <3>4. CASE i < j
      <4>1. i \in 1..(j - 1)
        BY <1>2, <3>3, <3>4
      <4> QED BY <1>2, <3>3, <4>1 DEF SameUpTo
    <3>5. CASE i = j /\ s.events[j] = start
      BY <1>2, <3>3, <3>5
    <3> QED BY <3>2, <3>4, <3>5
  <2>3. s.events[i - 1] = x.events[i - 1] /\ s.modes[i] = x.modes[i]
    <3>1. i - 1 \in 1..(j - 1) /\ i \in 1..j
      BY <1>2, <2>2
    <3> QED BY <1>2, <3>1 DEF SameUpTo
  <2>4. i \in 2..Len(x.events)
    BY <1>2, <2>2
  <2>5. ~Contact(x.modes[i], leg)
    BY <2>1, <2>3 DEF SwingOf
  <2>6. <<x.events[i - 1], x.events[i]>> \in Swings(x, leg)
    BY <2>4, <2>5, SwingAt
  <2> QED BY <2>1, <2>2, <2>3, <2>6 DEF SwingOf
<1>8. ASSUME NEW w \in Swings(x, leg), w[1] < start PROVE w \in Swings(s, leg)
  <2>1. PICK i \in Nat : SwingOf(x, leg, w, i)
    BY <1>2, SwingIs
  <2> DEFINE k == i - 1
  <2> HIDE DEF k
  <2>2. k \in 1..Len(x.events) /\ x.events[k] < x.events[j]
    BY <1>2, <1>8, <2>1 DEF SwingOf, k
  <2>3. k < j
    BY <1>2, <2>2, InOrder
  <2>4. i \in 2..j
    BY <1>2, <2>1, <2>3 DEF SwingOf, k
  <2>5. s.events[i - 1] = x.events[i - 1] /\ s.modes[i] = x.modes[i]
    <3>1. i - 1 \in 1..(j - 1) /\ i \in 1..j
      BY <1>2, <2>4
    <3> QED BY <1>2, <3>1 DEF SameUpTo
  <2>6. i <= Len(s.events) /\ s.events[i] = x.events[i]
    <3>1. CASE i < j
      <4>1. i \in 1..(j - 1) /\ i <= Len(s.events)
        <5>1. j \in 1..(Len(s.events) + 1)
          BY <1>1 DEF InsertShape
        <5> QED BY <1>3, <2>4, <3>1, <5>1
      <4> QED BY <1>2, <4>1 DEF SameUpTo
    <3>2. CASE i = j
      <4>1. s.modes[j] # STANCE
        BY <2>1, <2>5, <3>2 DEF SwingOf
      <4> QED BY <1>2, <3>2, <4>1 DEF MayBegin
    <3> QED BY <1>2, <2>4, <3>1, <3>2
  <2>7. i \in 2..Len(s.events) /\ ~Contact(s.modes[i], leg)
    BY <1>3, <2>1, <2>4, <2>5, <2>6 DEF SwingOf
  <2>8. <<s.events[i - 1], s.events[i]>> \in Swings(s, leg)
    BY <2>7, SwingAt
  <2> QED BY <2>1, <2>5, <2>6, <2>8 DEF SwingOf
<1> QED BY <1>6, <1>7, <1>8

LEMMA InsertedSlow ==
  ASSUME NEW s \in Schedules, WellFormed(s), NEW tpl \in Templates, Slow(tpl),
         NEW start \in Int, NEW final \in Int,
         NEW x, x = InsertTemplate(s, tpl, start, final)
  PROVE  /\ x \in Schedules /\ WellFormed(x) /\ start <= Back(x.events)
         /\ \A i \in 1..Len(x.events) : x.events[i] <= start \/ x.events[i] > start + MaxLag
<1> DEFINE j == LowerBound(s.events, start)
<1>1. /\ x \in Schedules /\ WellFormed(x) /\ Back(x.events) >= start
      /\ j \in 1..Len(x.events)
  BY InsertIs
<1>2. PICK b \in Nat, T \in Nat, n \in Nat : InsertShape(s, j, tpl, start, x, b, T, n)
  BY InsertShapeIs
<1> HIDE DEF j
<1>3. Len(x.events) \in Nat /\ Len(x.events) = b + 1 + n /\ x.events[j] = start /\ MaxLag \in Nat
  BY <1>1, <1>2, ScheduleIs, HandoverAssumption DEF InsertShape
<1>4. ASSUME j + 1 \in 1..Len(x.events) PROVE x.events[j + 1] > start + MaxLag
  <2>1. CASE b = j - 1 /\ T = 0
    <3>1. n >= 1
      BY <1>1, <1>3, <1>4, <2>1
    <3>2. 1 \in 1..n /\ b + 1 + 1 = j + 1 /\ start + T = start
      BY <1>1, <1>3, <2>1, <3>1
    <3>3. x.events[b + 1 + 1] = TileEvent(tpl, start + T, 1)
      BY <1>2, <3>2 DEF InsertShape
    <3> QED BY <3>2, <3>3, FirstTileSlow
  <2>2. CASE b = j /\ T = TransitionStance
    <3>1. x.events[b + 1] = start + T
      BY <1>2 DEF InsertShape
    <3> QED BY <2>2, <3>1, LagAssumption, <1>3
  <2> QED BY <1>2, <2>1, <2>2 DEF InsertShape
<1>5. ASSUME NEW i \in 1..Len(x.events) PROVE x.events[i] <= start \/ x.events[i] > start + MaxLag
  <2>1. CASE i <= j
    <3>1. i = j \/ i < j
      BY <1>1, <1>3, <2>1
    <3>2. x.events[i] = x.events[j] \/ x.events[i] < x.events[j]
      BY <1>1, <3>1, InOrder
    <3>3. x.events[i] \in Int /\ x.events[j] \in Int
      BY <1>1, InOrder
    <3> QED BY <1>3, <3>2, <3>3
  <2>2. CASE i > j
    <3> DEFINE k == j + 1
    <3>1. k \in 1..Len(x.events) /\ k <= i
      BY <1>1, <1>3, <2>2
    <3>2. x.events[k] > start + MaxLag
      BY <1>4, <3>1
    <3> HIDE DEF k
    <3>3. x.events[k] \in Int /\ x.events[i] \in Int /\ (k < i => x.events[k] < x.events[i])
      BY <1>1, <3>1, InOrder
    <3>4. x.events[k] <= x.events[i]
      BY <1>3, <3>1, <3>3
    <3> QED BY <1>3, <3>2, <3>3, <3>4
  <2> QED BY <1>1, <1>3, <2>1, <2>2
<1> QED BY <1>1, <1>5

LEMMA InsertedSameUntil ==
  ASSUME NEW s \in Schedules, WellFormed(s), NEW tpl \in Templates, Slow(tpl),
         NEW start \in Int, NEW final \in Int,
         NEW j, j = LowerBound(s.events, start), MayBegin(s, start, j),
         NEW x, x = InsertTemplate(s, tpl, start, final)
  PROVE  SameUntil(s, x, start) /\ start <= Back(x.events)
<1>1. /\ x \in Schedules /\ WellFormed(x) /\ start <= Back(x.events)
      /\ \A i \in 1..Len(x.events) : x.events[i] <= start \/ x.events[i] > start + MaxLag
  BY InsertedSlow
<1>2. ASSUME NEW leg \in Leg
      PROVE  /\ \A w \in Swings(s, leg) : w[2] <= start \/ w[1] >= start
             /\ \A w \in Swings(s, leg) : w[2] <= start => w \in Swings(x, leg)
             /\ \A w \in Swings(x, leg) : w[1] < start => w \in Swings(s, leg)
  BY SwingsInserted
<1>3. SameUntil(s, x, start)
  BY <1>1, <1>2, Zenon DEF SameUntil
<1> QED BY <1>1, <1>3

(* The swings W of a plan and V of the plan that replaces it.              *)
Follows(W, V, from, lower) ==
  /\ \A w \in W : w[2] <= from \/ w[1] >= from
  /\ \A w \in W : w[2] <= from /\ w[2] >= lower => w \in V
  /\ \A v \in V : v[1] < from => v \in W
  /\ \A v \in V : v[1] <= from \/ v[1] > from + MaxLag

LEMMA SwingsExtended ==
  ASSUME NEW s \in Schedules, WellFormed(s), NEW tpl \in Templates, Slow(tpl),
         NEW lower \in Int, NEW upper \in Int,
         NEW x, x = Extend(s, tpl, lower, upper), NEW leg
  PROVE  /\ \A w \in Swings(s, leg) : w[2] >= lower => w \in Swings(x, leg)
         /\ \A v \in Swings(x, leg) : v[1] < Back(s.events) => v \in Swings(s, leg)
         /\ \A v \in Swings(x, leg) :
              v[1] > Back(s.events) + MaxLag \/ \E i \in 1..Len(s.events) : s.events[i] = v[1]
<1>1. PICK o \in Nat, m \in Nat, n \in Nat : ExtendShape(s, lower, tpl, x, o, m, n)
  BY ExtendIs
<1>2. /\ x \in Schedules /\ WellFormed(x) /\ Len(s.events) \in Nat \ {0} /\ MaxLag \in Nat
      /\ Back(s.events) \in Int /\ Back(s.events) = s.events[Len(s.events)]
  BY <1>1, ScheduleIs, HandoverAssumption DEF ExtendShape
<1>3. /\ o \in 0..(Len(s.events) - 1) /\ m = Len(s.events) - o /\ Len(x.events) = m + n
      /\ \A i \in 1..m : x.events[i] = s.events[o + i]
      /\ \A i \in 1..m : x.modes[i] = IF i = 1 THEN STANCE ELSE s.modes[o + i]
      /\ \A i \in 1..n : x.events[m + i] = TileEvent(tpl, Back(s.events), i)
      /\ o > 0 => s.events[o + 1] < lower
  BY <1>1, Zenon DEF ExtendShape
<1>9. /\ o \in 0..(Len(s.events) - 1) /\ m = Len(s.events) - o /\ Len(x.events) = m + n
      /\ o \in Nat /\ m \in Nat /\ n \in Nat /\ Len(s.events) \in Nat \ {0}
  BY <1>2, <1>3
<1>4. m \in 1..Len(x.events) /\ x.events[m] = Back(s.events) /\ m + o = Len(s.events)
  <2>1. m \in 1..m /\ o + m = Len(s.events) /\ m \in 1..Len(x.events) /\ m + o = Len(s.events)
    BY <1>9
  <2>2. x.events[m] = s.events[o + m]
    BY <1>3, <2>1
  <2> QED BY <1>2, <2>1, <2>2
<1>5. ASSUME NEW w \in Swings(s, leg), w[2] >= lower PROVE w \in Swings(x, leg)
  <2>1. PICK k \in Nat : SwingOf(s, leg, w, k)
    BY SwingIs
  <2>2. k > o + 1
    <3> SUFFICES ASSUME k <= o + 1, o > 0 PROVE FALSE
      BY <1>2, <1>3, <2>1 DEF SwingOf
    <3> DEFINE q == o + 1
    <3> HIDE DEF q
    <3>1. k \in 1..Len(s.events) /\ q \in 1..Len(s.events) /\ k <= q
      BY <1>2, <1>3, <2>1 DEF SwingOf, q
    <3>2. s.events[k] \in Int /\ s.events[q] \in Int /\ (k < q => s.events[k] < s.events[q])
      BY <3>1, InOrder
    <3>3. s.events[q] < lower
      BY <1>3 DEF q
    <3>4. s.events[k] < lower
      BY <3>1, <3>2, <3>3
    <3> QED BY <1>5, <2>1, <3>4 DEF SwingOf
  <2> DEFINE i == k - o
  <2> HIDE DEF i
  <2>3. i \in 2..m /\ i - 1 \in 1..m /\ i \in 1..m /\ o + i = k /\ o + (i - 1) = k - 1
    BY <1>2, <1>3, <2>1, <2>2 DEF SwingOf, i
  <2>4. x.events[i] = s.events[k] /\ x.events[i - 1] = s.events[k - 1] /\ x.modes[i] = s.modes[k]
    <3>1. i # 1
      BY <2>3
    <3>2. x.events[i] = s.events[o + i] /\ x.events[i - 1] = s.events[o + (i - 1)]
      BY <1>3, <2>3
    <3>3. x.modes[i] = s.modes[o + i]
      BY <1>3, <2>3, <3>1
    <3> QED BY <2>3, <3>2, <3>3
  <2>5. i \in 2..Len(x.events) /\ ~Contact(x.modes[i], leg)
    BY <1>3, <2>1, <2>3, <2>4 DEF SwingOf
  <2>6. <<x.events[i - 1], x.events[i]>> \in Swings(x, leg)
    BY <2>5, SwingAt
  <2> QED BY <2>1, <2>4, <2>6 DEF SwingOf
<1>6. ASSUME NEW v \in Swings(x, leg), v[1] < Back(s.events) PROVE v \in Swings(s, leg)
  <2>1. PICK i \in Nat : SwingOf(x, leg, v, i)
    BY <1>2, SwingIs
  <2> DEFINE p == i - 1
  <2> HIDE DEF p
  <2>2. p \in 1..Len(x.events) /\ x.events[p] < x.events[m]
    BY <1>4, <1>6, <2>1 DEF SwingOf, p
  <2>3. p < m
    BY <1>2, <1>4, <2>2, InOrder
  <2> DEFINE k == o + i
  <2> HIDE DEF k
  <2>4. i \in 2..m /\ i \in 1..m /\ i - 1 \in 1..m /\ k - 1 = o + (i - 1)
        /\ k \in 2..Len(s.events) /\ k = o + i
    <3>1. i \in 2..Len(x.events)
      BY <2>1 DEF SwingOf
    <3>2. i - 1 < m
      BY <2>3 DEF p
    <3> QED BY <1>9, <3>1, <3>2 DEF k
  <2>5. x.events[i] = s.events[k] /\ x.events[i - 1] = s.events[k - 1] /\ x.modes[i] = s.modes[k]
    <3>1. i # 1
      BY <2>4
    <3>2. x.events[i] = s.events[o + i] /\ x.events[i - 1] = s.events[o + (i - 1)]
      BY <1>3, <2>4
    <3>3. x.modes[i] = s.modes[o + i]
      BY <1>3, <2>4, <3>1
    <3> QED BY <2>4, <3>2, <3>3
  <2>6. ~Contact(s.modes[k], leg)
    BY <2>1, <2>5 DEF SwingOf
  <2>7. <<s.events[k - 1], s.events[k]>> \in Swings(s, leg)
    BY <2>4, <2>6, SwingAt
  <2> QED BY <2>1, <2>5, <2>7 DEF SwingOf
<1>7. ASSUME NEW v \in Swings(x, leg)
      PROVE  v[1] > Back(s.events) + MaxLag \/ \E i \in 1..Len(s.events) : s.events[i] = v[1]
  <2>1. PICK i \in Nat : SwingOf(x, leg, v, i)
    BY <1>2, SwingIs
  <2> DEFINE p == i - 1
  <2> HIDE DEF p
  <2>2. p \in 1..Len(x.events) /\ v[1] = x.events[p]
    BY <2>1 DEF SwingOf, p
  <2>3. CASE p <= m
    <3>1. o + p \in 1..Len(s.events) /\ p \in 1..m
      BY <1>2, <1>3, <2>2, <2>3
    <3> QED BY <1>3, <2>2, <3>1
  <2>4. CASE p > m
    <3> DEFINE q == m + 1
    <3>1. q \in 1..Len(x.events) /\ q <= p /\ 1 \in 1..n
      <4>1. p \in Nat /\ p <= m + n
        BY <1>9, <2>2
      <4> QED BY <1>9, <2>4, <4>1
    <3>2. x.events[q] > Back(s.events) + MaxLag
      BY <1>2, <1>3, <3>1, FirstTileSlow
    <3> HIDE DEF q
    <3>3. x.events[q] \in Int /\ x.events[p] \in Int /\ (q < p => x.events[q] < x.events[p])
      BY <1>2, <2>2, <3>1, InOrder
    <3>4. x.events[q] <= x.events[p]
      BY <2>2, <3>1, <3>3
    <3>5. Back(s.events) \in Int /\ MaxLag \in Nat
      BY <1>2
    <3>6. x.events[p] > Back(s.events) + MaxLag
      BY <3>2, <3>3, <3>4, <3>5
    <3> QED BY <2>2, <3>6
  <2> QED BY <1>3, <2>2, <2>3, <2>4
<1> QED BY <1>5, <1>6, <1>7

LEMMA PlanFollows ==
  ASSUME NEW P, NEW from \in Int, NEW s \in Schedules, WellFormed(s), SameUntil(P, s, from),
         P = NoPlan \/ (P \in Schedules /\ WellFormed(P)),
         from <= Back(s.events), NEW tpl \in Templates, Slow(tpl),
         NEW lower \in Int, NEW upper \in Int,
         NEW x, x = Extend(s, tpl, lower, upper), NEW leg \in Leg
  PROVE  Follows(Swings(P, leg), Swings(x, leg), from, lower)
<1> DEFINE W == Swings(P, leg)
           V == Swings(x, leg)
           U == Swings(s, leg)
           B == Back(s.events)
<1>1. /\ \A w \in W : w[2] <= from \/ w[1] >= from
      /\ \A w \in W : w[2] <= from => w \in U
      /\ \A w \in U : w[1] < from => w \in W
      /\ \A i \in 1..Len(s.events) : s.events[i] <= from \/ s.events[i] > from + MaxLag
  BY DEF SameUntil
<1>2. /\ \A w \in U : w[2] >= lower => w \in V
      /\ \A v \in V : v[1] < B => v \in U
      /\ \A v \in V : v[1] > B + MaxLag \/ \E i \in 1..Len(s.events) : s.events[i] = v[1]
  BY SwingsExtended
<1>3. B \in Int /\ MaxLag \in Nat
  BY ScheduleIs, HandoverAssumption
<1>4. \A v \in V : v[1] \in Int
  <2>1. x \in Schedules /\ WellFormed(x)
    BY ExtendIs
  <2> QED BY <2>1, SwingIs DEF SwingOf
<1> HIDE DEF W, V, U, B
<1>5. ASSUME NEW v \in V PROVE v[1] <= from \/ v[1] > from + MaxLag
  <2>1. CASE v[1] > B + MaxLag
    BY <1>3, <1>4, <2>1 DEF B
  <2>2. CASE \E i \in 1..Len(s.events) : s.events[i] = v[1]
    BY <1>1, <2>2
  <2> QED BY <1>2, <2>1, <2>2
<1>6. ASSUME NEW v \in V, v[1] < from PROVE v \in W
  <2>1. v[1] < B
    BY <1>3, <1>4, <1>6 DEF B
  <2> QED BY <1>1, <1>2, <1>6, <2>1
<1> QED BY <1>1, <1>2, <1>5, <1>6 DEF Follows, W, V

-----------------------------------------------------------------------------
(* A plan replaces another: what was seen of the one fits the other. The   *)
(* plan W of time t was last seen at r; the plan V is of time u.           *)
Pairs(W) == \A w \in W : w[1] \in Int /\ w[2] \in Int /\ w[1] < w[2]

Replaces(W, V, from, lower, t, u, r) ==
  /\ Pairs(W) /\ Pairs(V) /\ Follows(W, V, from, lower)
  /\ t < u /\ u <= t + MaxLag /\ t <= from /\ r <= u /\ lower <= r

LEMMA StandsOn ==
  ASSUME NEW W, NEW V, NEW from \in Int, NEW lower \in Int, NEW t \in Int, NEW u \in Int,
         NEW r \in Int, Replaces(W, V, from, lower, t, u, r), SeenDown(W, t, r)
  PROVE  SeenDown(V, u, r)
<1> SUFFICES ASSUME NEW v \in V, v[1] <= r, r < v[2]
             PROVE  v[1] = r \/ (v[1] < u /\ r <= v[1] + MaxLag)
  BY DEF SeenDown
<1>1. MaxLag \in Nat /\ v[1] \in Int /\ v[2] \in Int /\ t < u /\ u <= t + MaxLag /\ t <= from /\ r <= u
  BY HandoverAssumption DEF Replaces, Pairs
<1>2. CASE v[1] < from
  <2>1. v \in W
    BY <1>2 DEF Replaces, Follows
  <2>2. v[1] = r \/ (v[1] < t /\ r <= v[1] + MaxLag)
    BY <2>1 DEF SeenDown
  <2> QED BY <1>1, <2>2
<1>3. CASE v[1] = from
  BY <1>1, <1>3
<1>4. CASE v[1] > from
  <2>1. v[1] > from + MaxLag
    BY <1>1, <1>4 DEF Replaces, Follows
  <2> QED BY <1>1, <2>1
<1> QED BY <1>1, <1>2, <1>3, <1>4

LEMMA SwingsOn ==
  ASSUME NEW W, NEW V, NEW from \in Int, NEW lower \in Int, NEW t \in Int, NEW u \in Int,
         NEW r \in Int, NEW x \in Int, x <= r,
         Replaces(W, V, from, lower, t, u, r), SeenUp(W, t, r, x)
  PROVE  SeenUp(V, u, r, x) \/ TakenBack(V, u, r, x)
<1>1. PICK w \in W : /\ w[1] <= r /\ r <= w[2] /\ x <= w[1] + 1 + MaxLag
                     /\ w[1] < t \/ w[1] = x - 1
  BY DEF SeenUp
<1>2. /\ MaxLag \in Nat /\ w[1] \in Int /\ w[2] \in Int
      /\ t < u /\ u <= t + MaxLag /\ t <= from /\ r <= u /\ lower <= r
      /\ w[2] <= from \/ w[1] >= from
  BY HandoverAssumption DEF Replaces, Pairs, Follows
<1>3. CASE w[2] <= from
  <2>1. w \in V
    <3>1. w[2] >= lower
      BY <1>1, <1>2
    <3> QED BY <1>3, <3>1 DEF Replaces, Follows
  <2>2. w[1] < u \/ w[1] = x - 1
    BY <1>1, <1>2
  <2> QED BY <1>1, <2>1, <2>2 DEF SeenUp
<1>4. CASE w[1] >= from
  <2>1. w[1] = x - 1
    BY <1>1, <1>2, <1>4
  <2>2. r < x + MaxLag /\ u >= r
    BY <1>1, <1>2, <1>4, <2>1
  <2>3. ASSUME NEW v \in V, v[1] <= r, r < v[2]
        PROVE  v[1] < u /\ x <= v[1] + 1 + MaxLag
    <3>1. v[1] \in Int /\ v[2] \in Int
      BY DEF Replaces, Pairs
    <3>2. CASE v[1] < from
      <4>1. v \in W
        BY <3>2 DEF Replaces, Follows
      <4>2. v[2] <= from \/ v[1] >= from
        BY <4>1 DEF Replaces, Follows
      <4> QED BY <1>1, <1>2, <1>4, <2>3, <3>1, <3>2, <4>2
    <3>3. CASE v[1] = from
      BY <1>1, <1>2, <1>4, <2>1, <3>3
    <3>4. CASE v[1] > from
      <4>1. v[1] > from + MaxLag
        BY <3>1, <3>4 DEF Replaces, Follows
      <4> QED BY <1>2, <2>3, <3>1, <4>1
    <3> QED BY <3>1, <3>2, <3>3, <3>4
  <2> QED BY <2>2, <2>3 DEF TakenBack
<1> QED BY <1>2, <1>3, <1>4

LEMMA BackOn ==
  ASSUME NEW W, NEW V, NEW from \in Int, NEW lower \in Int, NEW t \in Int, NEW u \in Int,
         NEW r \in Int, NEW x \in Int, x <= r,
         Replaces(W, V, from, lower, t, u, r), TakenBack(W, t, r, x)
  PROVE  TakenBack(V, u, r, x)
<1>1. /\ MaxLag \in Nat /\ t < u /\ u <= t + MaxLag /\ t <= from /\ r <= u
      /\ r < x + MaxLag /\ t >= r
  BY HandoverAssumption DEF Replaces, TakenBack
<1>2. ASSUME NEW v \in V, v[1] <= r, r < v[2]
      PROVE  v[1] < u /\ x <= v[1] + 1 + MaxLag
  <2>1. v[1] \in Int /\ v[2] \in Int
    BY DEF Replaces, Pairs
  <2>2. CASE v[1] < from
    <3>1. v \in W
      BY <2>2 DEF Replaces, Follows
    <3>2. v[1] < t /\ x <= v[1] + 1 + MaxLag
      BY <1>2, <3>1 DEF TakenBack
    <3> QED BY <1>1, <2>1, <3>2
  <2>3. CASE v[1] >= from
    BY <1>1, <1>2, <2>1, <2>3
  <2> QED BY <2>1, <2>2, <2>3
<1> QED BY <1>1, <1>2 DEF TakenBack

-----------------------------------------------------------------------------
(* The flags are read: time r + 1 comes after r.                           *)
Apart(W) == \A w, v \in W : v[2] <= w[1] \/ v = w \/ v[1] > w[2]

SwingNowIn(W, r) == \E v \in W : v[1] <= r /\ r < v[2]

LEMMA ReadDown ==
  ASSUME NEW W, Pairs(W), NEW t \in Int, NEW r \in Int, ~SwingNowIn(W, r)
  PROVE  SeenDown(W, t, r + 1)
<1> SUFFICES ASSUME NEW w \in W, w[1] <= r + 1, r + 1 < w[2]
             PROVE  w[1] = r + 1
  BY DEF SeenDown
<1>1. w[1] \in Int /\ w[2] \in Int
  BY DEF Pairs
<1>2. ~(w[1] <= r /\ r < w[2])
  BY DEF SwingNowIn
<1> QED BY <1>1, <1>2

LEMMA ReadLift ==
  ASSUME NEW W, Pairs(W), NEW t \in Int, NEW r \in Int, SwingNowIn(W, r), SeenDown(W, t, r)
  PROVE  SeenUp(W, t, r + 1, r + 1)
<1>1. PICK w \in W : w[1] <= r /\ r < w[2]
  BY DEF SwingNowIn
<1>2. w[1] \in Int /\ w[2] \in Int /\ MaxLag \in Nat
  BY HandoverAssumption DEF Pairs
<1>3. w[1] = r \/ (w[1] < t /\ r <= w[1] + MaxLag)
  BY <1>1 DEF SeenDown
<1>4. /\ w[1] <= r + 1 /\ r + 1 <= w[2] /\ r + 1 <= w[1] + 1 + MaxLag
      /\ w[1] < t \/ w[1] = (r + 1) - 1
  BY <1>1, <1>2, <1>3
<1> QED BY <1>4 DEF SeenUp

LEMMA ReadSwing ==
  ASSUME NEW W, Pairs(W), Apart(W), NEW t \in Int, NEW r \in Int, NEW x \in Int,
         SwingNowIn(W, r), SeenUp(W, t, r, x) \/ TakenBack(W, t, r, x)
  PROVE  SeenUp(W, t, r + 1, x)
<1>1. PICK v \in W : v[1] <= r /\ r < v[2]
  BY DEF SwingNowIn
<1>2. v[1] \in Int /\ v[2] \in Int /\ MaxLag \in Nat
  BY HandoverAssumption DEF Pairs
<1>3. x <= v[1] + 1 + MaxLag /\ (v[1] < t \/ v[1] = x - 1)
  <2>1. CASE SeenUp(W, t, r, x)
    <3>1. PICK w \in W : /\ w[1] <= r /\ r <= w[2] /\ x <= w[1] + 1 + MaxLag
                         /\ w[1] < t \/ w[1] = x - 1
      BY <2>1 DEF SeenUp
    <3>2. w[1] \in Int /\ w[2] \in Int
      BY DEF Pairs
    <3>3. v[2] <= w[1] \/ v = w \/ v[1] > w[2]
      BY DEF Apart
    <3>4. v = w
      BY <1>1, <1>2, <3>1, <3>2, <3>3
    <3> QED BY <3>1, <3>4
  <2>2. CASE TakenBack(W, t, r, x)
    BY <1>1, <2>2 DEF TakenBack
  <2> QED BY <2>1, <2>2
<1>4. v[1] <= r + 1 /\ r + 1 <= v[2]
  BY <1>1, <1>2
<1> QED BY <1>3, <1>4 DEF SeenUp

LEMMA ReadTouch ==
  ASSUME NEW W, Pairs(W), NEW t \in Int, NEW r \in Int, NEW x \in Int, NEW min \in Int,
         \A w \in W : w[2] - w[1] >= min,
         ~SwingNowIn(W, r), SeenUp(W, t, r, x) \/ TakenBack(W, t, r, x)
  PROVE  r + 1 - x <= MaxLag \/ r + 1 - x >= min - MaxLag
<1>1. MaxLag \in Nat
  BY HandoverAssumption
<1>2. CASE SeenUp(W, t, r, x)
  <2>1. PICK w \in W : w[1] <= r /\ r <= w[2] /\ x <= w[1] + 1 + MaxLag
    BY <1>2 DEF SeenUp
  <2>2. w[1] \in Int /\ w[2] \in Int /\ w[2] - w[1] >= min
    BY DEF Pairs
  <2>3. r = w[2]
    BY <2>1, <2>2 DEF SwingNowIn
  <2> QED BY <1>1, <2>1, <2>2, <2>3
<1>3. CASE TakenBack(W, t, r, x)
  BY <1>1, <1>3 DEF TakenBack
<1> QED BY <1>2, <1>3

-----------------------------------------------------------------------------
(* Swings stay whole.                                                      *)
LEMMA SwingTimeIs ==
  /\ SwingTime \in Nat
  /\ \A i \in 1..Len(TrotTemplate.modes) :
       TrotTemplate.times[i + 1] - TrotTemplate.times[i] >= SwingTime
<1> DEFINE D(i) == TrotTemplate.times[i + 1] - TrotTemplate.times[i]
           S == {D(i) : i \in 1..Len(TrotTemplate.modes)}
<1>1. TrotTemplate \in Templates
  BY GaitsTurn
<1>2. /\ Len(TrotTemplate.modes) \in Nat \ {0}
      /\ \A i \in 1..(Len(TrotTemplate.modes) + 1) : TrotTemplate.times[i] \in Int
      /\ \A i \in 1..Len(TrotTemplate.modes) : TrotTemplate.times[i] < TrotTemplate.times[i + 1]
  BY <1>1, TemplateIs
<1>3. ASSUME NEW i \in 1..Len(TrotTemplate.modes) PROVE D(i) \in Nat
  <2>1. i \in 1..(Len(TrotTemplate.modes) + 1) /\ i + 1 \in 1..(Len(TrotTemplate.modes) + 1)
    BY <1>2
  <2> QED BY <1>2, <2>1
<1>4. S \in SUBSET Nat /\ S # {}
  <2>1. 1 \in 1..Len(TrotTemplate.modes)
    BY <1>2
  <2>2. D(1) \in S
    BY <2>1
  <2> QED BY <1>3, <2>2
<1>5. SwingTime = Lowest(S)
  BY DEF SwingTime
<1> HIDE DEF S
<1>6. Lowest(S) \in S /\ \A y \in S : Lowest(S) <= y
  BY <1>4, LowestIs
<1>7. ASSUME NEW i \in 1..Len(TrotTemplate.modes) PROVE D(i) >= SwingTime
  <2>1. D(i) \in S
    BY DEF S
  <2>2. SwingTime <= D(i) /\ SwingTime \in Nat
    BY <1>4, <1>5, <1>6, <2>1
  <2> QED BY <1>3, <2>2
<1> QED BY <1>4, <1>5, <1>6, <1>7

LEMMA StandingWhole ==
  ASSUME NEW d \in Int PROVE <<STANCE, d>> \in Whole
BY DEF Whole, Mode, STANCE

LEMMA GaitsWhole ==
  ASSUME NEW tpl \in {StanceTemplate, TrotTemplate, DefaultTemplate}
  PROVE  TemplateIn(tpl, Whole)
<1> SUFFICES ASSUME NEW i \in 1..Len(tpl.modes)
             PROVE  <<tpl.modes[i], tpl.times[i + 1] - tpl.times[i]>> \in Whole
  BY DEF TemplateIn
<1>1. tpl \in Templates
  BY GaitsTurn
<1>2. /\ Len(tpl.modes) \in Nat /\ tpl.modes[i] \in Mode
      /\ \A k \in 1..(Len(tpl.modes) + 1) : tpl.times[k] \in Int
  BY <1>1, TemplateIs
<1> DEFINE d == tpl.times[i + 1] - tpl.times[i]
<1>3. d \in Int
  <2>1. i \in 1..(Len(tpl.modes) + 1) /\ i + 1 \in 1..(Len(tpl.modes) + 1)
    BY <1>2
  <2> QED BY <1>2, <2>1
<1>4. CASE tpl = TrotTemplate
  <2>1. d >= SwingTime
    BY <1>4, SwingTimeIs
  <2> HIDE DEF d
  <2>2. <<tpl.modes[i], d>> \in Mode \X Int
    BY <1>2, <1>3
  <2>3. <<tpl.modes[i], d>> \in Whole
    BY <2>1, <2>2 DEF Whole
  <2> QED BY <2>3 DEF d
<1>5. CASE tpl # TrotTemplate
  <2>1. tpl.modes[i] = STANCE
    BY <1>5, GaitAssumption
  <2> QED BY <1>3, <2>1, StandingWhole
<1> QED BY <1>4, <1>5

LEMMA InitialWhole ==
  PhasesIn(InitialSchedule, Whole) /\ PhasesIn(NoPlan, Whole)
<1>1. InitialSchedule \in Schedules /\ WellFormed(InitialSchedule)
  BY HandoverAssumption DEF Schedules
<1>2. ASSUME NEW i \in 2..Len(InitialSchedule.events)
      PROVE  <<InitialSchedule.modes[i],
               InitialSchedule.events[i] - InitialSchedule.events[i - 1]>> \in Whole
  <2>1. /\ Len(InitialSchedule.events) \in Nat
        /\ Len(InitialSchedule.modes) = Len(InitialSchedule.events) + 1
        /\ \A k \in 1..Len(InitialSchedule.events) : InitialSchedule.events[k] \in Int
    BY <1>1, ScheduleIs
  <2>2. i \in 1..Len(InitialSchedule.modes) /\ i \in 1..Len(InitialSchedule.events)
        /\ i - 1 \in 1..Len(InitialSchedule.events)
    BY <2>1
  <2>3. InitialSchedule.modes[i] = STANCE
    BY <2>2, GaitAssumption
  <2>4. InitialSchedule.events[i] - InitialSchedule.events[i - 1] \in Int
    BY <2>1, <2>2
  <2> QED BY <2>3, <2>4, StandingWhole
<1>3. PhasesIn(NoPlan, Whole)
  BY DEF PhasesIn, NoPlan
<1> QED BY <1>2, <1>3 DEF PhasesIn

(* A gait that begins at an event or while standing.                       *)
LEMMA GaitBegins ==
  ASSUME NEW s \in Schedules, WellFormed(s), PhasesIn(s, Whole),
         NEW tpl \in {StanceTemplate, TrotTemplate, DefaultTemplate},
         NEW start \in Int, NEW final \in Int,
         NEW j, j = LowerBound(s.events, start), MayBegin(s, start, j),
         NEW x, x = InsertTemplate(s, tpl, start, final)
  PROVE  PhasesIn(x, Whole) /\ SameUntil(s, x, start) /\ start <= Back(x.events)
<1>1. tpl \in Templates /\ Slow(tpl) /\ TemplateIn(tpl, Whole)
  BY GaitsTurn, GaitsSlow, GaitsWhole
<1>2. SameUntil(s, x, start) /\ start <= Back(x.events)
  BY <1>1, InsertedSameUntil
<1>3. <<STANCE, TransitionStance>> \in Whole
  BY TransitionAssumption, StandingWhole
<1>4. ASSUME j > 1 PROVE <<s.modes[j], start - s.events[j - 1]>> \in Whole
  <2>1. /\ s.events \in Seq(Int) /\ Len(s.events) \in Nat
        /\ \A i \in 1..Len(s.events) : s.events[i] \in Int
    BY ScheduleIs
  <2>2. j \in 1..(Len(s.events) + 1)
    BY <2>1, LowerBoundIs
  <2>3. j - 1 \in 1..Len(s.events)
    BY <1>4, <2>1, <2>2
  <2>4. start - s.events[j - 1] \in Int
    BY <2>1, <2>3
  <2>5. CASE s.modes[j] = STANCE
    BY <2>4, <2>5, StandingWhole
  <2>6. CASE j <= Len(s.events) /\ s.events[j] = start
    <3>1. j \in 2..Len(s.events)
      BY <1>4, <2>1, <2>2, <2>6
    <3> QED BY <2>6, <3>1 DEF PhasesIn
  <2> QED BY <2>5, <2>6 DEF MayBegin
<1>5. PhasesIn(x, Whole)
  BY <1>1, <1>3, <1>4, InsertPhases
<1> QED BY <1>2, <1>5

(* The timer's start is an event.                                          *)
LEMMA TimerBegins ==
  ASSUME NEW s \in Schedules, WellFormed(s), NEW t \in Nat, Back(s.events) >= t,
         NEW start, start = InsertTimer(s, t)
  PROVE  start \in Nat /\ start >= t /\ MayBegin(s, start, LowerBound(s.events, start))
<1> DEFINE p == LowerBound(s.events, t)
           N == Len(s.events)
<1>1. start \in Nat /\ start >= t
  BY NextEvent
<1>2. PhaseOf(s, t, p)
  BY PhaseIndexIs
<1>3. /\ s.events \in Seq(Int) /\ Rises(s.events) /\ N \in Nat
      /\ \A i \in 1..N : s.events[i] \in Int
  BY ScheduleIs
<1>4. p \in 1..N /\ start = s.events[p]
  BY <1>2 DEF PhaseOf, InsertTimer
<1> HIDE DEF p, N
<1>5. ASSUME p > 1 PROVE s.events[p - 1] < start
  <2> DEFINE k == p - 1
  <2> HIDE DEF k
  <2>1. k \in 1..N /\ k < p
    BY <1>3, <1>4, <1>5 DEF k
  <2>2. s.events[k] < s.events[p]
    BY <1>4, <2>1, InOrder DEF N
  <2> QED BY <1>4, <2>2 DEF k
<1>6. p \in 1..(N + 1) /\ start \in Int /\ (p <= N => s.events[p] >= start)
  BY <1>1, <1>3, <1>4
<1>7. LowerBound(s.events, start) = p
  BY <1>3, <1>5, <1>6, LowerBoundOnly DEF N
<1> QED BY <1>1, <1>3, <1>4, <1>7 DEF MayBegin, N

-----------------------------------------------------------------------------
(* What was seen of a leg fits the next plan, and the next reading.        *)
Renewed(W, V, from, lower, t, u, r, known, contact, x) ==
  /\ from \in Int /\ lower \in Int /\ t \in Int /\ u \in Int /\ r \in Int
  /\ known \in BOOLEAN /\ contact \in BOOLEAN
  /\ known => Replaces(W, V, from, lower, t, u, r)
  /\ ShownAs(W, t, r, known, contact, x)

LEMMA ShownOn ==
  ASSUME NEW W, NEW V, NEW from, NEW lower, NEW t, NEW u, NEW r,
         NEW known, NEW contact, NEW x,
         Renewed(W, V, from, lower, t, u, r, known, contact, x)
  PROVE  ShownAs(V, u, r, known, contact, x)
<1>4. /\ from \in Int /\ lower \in Int /\ t \in Int /\ u \in Int /\ r \in Int
      /\ known \in BOOLEAN /\ contact \in BOOLEAN
      /\ known => Replaces(W, V, from, lower, t, u, r)
      /\ ShownAs(W, t, r, known, contact, x)
  BY DEF Renewed
<1>1. x \in Nat \cup {-1} /\ (~known \/ contact => x = -1)
  BY <1>4 DEF ShownAs
<1>2. known /\ contact => SeenDown(V, u, r)
  BY <1>4, StandsOn DEF ShownAs
<1>3. ASSUME x # -1 PROVE x <= r /\ (SeenUp(V, u, r, x) \/ TakenBack(V, u, r, x))
  <2>1. known /\ x \in Int
    BY <1>1, <1>3
  <2>2. x <= r /\ (SeenUp(W, t, r, x) \/ TakenBack(W, t, r, x))
    BY <1>3, <1>4 DEF ShownAs
  <2> QED BY <1>4, <2>1, <2>2, SwingsOn, BackOn
<1> QED BY <1>1, <1>2, <1>3 DEF ShownAs

Reread(W, t, n, known, contact, x, again, y) ==
  /\ Pairs(W) /\ Apart(W) /\ t \in Int /\ n \in Nat
  /\ known \in BOOLEAN /\ contact \in BOOLEAN /\ again \in BOOLEAN
  /\ ShownAs(W, t, n - 1, known, contact, x)
  /\ again <=> ~SwingNowIn(W, n - 1)
  /\ y = IF again \/ ~known THEN -1 ELSE IF contact THEN n ELSE x

LEMMA ShownNext ==
  ASSUME NEW W, NEW t, NEW n, NEW known, NEW contact, NEW x, NEW again, NEW y,
         Reread(W, t, n, known, contact, x, again, y)
  PROVE  ShownAs(W, t, n, TRUE, again, y)
<1>8. /\ Pairs(W) /\ Apart(W) /\ t \in Int /\ n \in Nat
      /\ known \in BOOLEAN /\ contact \in BOOLEAN /\ again \in BOOLEAN
      /\ ShownAs(W, t, n - 1, known, contact, x)
      /\ again <=> ~SwingNowIn(W, n - 1)
      /\ y = IF again \/ ~known THEN -1 ELSE IF contact THEN n ELSE x
  BY DEF Reread
<1>1. x \in Nat \cup {-1} /\ (~known \/ contact => x = -1)
  BY <1>8 DEF ShownAs
<1> DEFINE r == n - 1
<1>2. r \in Int /\ r + 1 = n /\ n \in Nat
  BY <1>8
<1>3. ShownAs(W, t, r, known, contact, x) /\ (again <=> ~SwingNowIn(W, r))
      /\ Pairs(W) /\ Apart(W) /\ t \in Int
  BY <1>8
<1> HIDE DEF r
<1>4. CASE again
  <2>1. SeenDown(W, t, r + 1)
    BY <1>2, <1>3, <1>4, ReadDown
  <2>2. SeenDown(W, t, n) /\ y = -1
    BY <1>2, <1>4, <1>8, <2>1
  <2> QED BY <2>2 DEF ShownAs
<1>5. CASE ~again /\ known /\ contact
  <2>1. SeenDown(W, t, r)
    BY <1>3, <1>5 DEF ShownAs
  <2>2. SeenUp(W, t, r + 1, r + 1)
    BY <1>2, <1>3, <1>5, <2>1, ReadLift
  <2>3. SeenUp(W, t, n, n) /\ y = n /\ n <= n
    BY <1>2, <1>5, <1>8, <2>2
  <2> QED BY <1>2, <1>5, <2>3 DEF ShownAs
<1>6. CASE ~again /\ known /\ ~contact /\ x # -1
  <2>1. x <= r /\ (SeenUp(W, t, r, x) \/ TakenBack(W, t, r, x)) /\ x \in Int
    BY <1>1, <1>3, <1>6 DEF ShownAs
  <2>2. SeenUp(W, t, r + 1, x)
    BY <1>2, <1>3, <1>6, <2>1, ReadSwing
  <2>3. SeenUp(W, t, n, x) /\ y = x /\ x <= n
    BY <1>2, <1>6, <1>8, <2>1, <2>2
  <2> QED BY <1>1, <1>6, <2>3 DEF ShownAs
<1>7. CASE ~again /\ (~known \/ (~contact /\ x = -1))
  <2>1. y = -1
    BY <1>7, <1>8
  <2> QED BY <1>7, <2>1 DEF ShownAs
<1> QED BY <1>4, <1>5, <1>6, <1>7, <1>8

LEMMA LastedLong ==
  ASSUME NEW W, Pairs(W), NEW t \in Int, NEW n \in Nat, NEW min \in Int,
         \A w \in W : w[2] - w[1] >= min,
         NEW known \in BOOLEAN, NEW contact \in BOOLEAN, NEW x,
         ShownAs(W, t, n - 1, known, contact, x), x # -1, ~SwingNowIn(W, n - 1)
  PROVE  n - x <= MaxLag \/ n - x >= min - MaxLag
<1> DEFINE r == n - 1
<1>1. r \in Int /\ r + 1 = n
  OBVIOUS
<1>2. x \in Int /\ (SeenUp(W, t, r, x) \/ TakenBack(W, t, r, x)) /\ ~SwingNowIn(W, r)
  BY DEF ShownAs
<1> HIDE DEF r
<1>3. r + 1 - x <= MaxLag \/ r + 1 - x >= min - MaxLag
  BY <1>1, <1>2, ReadTouch
<1>4. r + 1 - x = n - x
  <2>1. x \in Int
    BY <1>2
  <2> QED BY <1>1, <2>1
<1> QED BY <1>3, <1>4

-----------------------------------------------------------------------------
(* An iteration: what comes after the plan it publishes.                   *)
LEMMA Asked ==
  ASSUME HandoverInv, ModifyReferences, ~cutSwing', PhasesIn(schedule, Whole),
         NEW s, s = Extend(schedule, template, initTime - Horizon, initTime + 2 * Horizon)
  PROVE  /\ PhasesIn(s, Whole) /\ PhasesIn(schedule', Whole)
         /\ \E from \in Nat : /\ initTime <= from /\ from <= Back(schedule'.events)
                              /\ SameUntil(s, schedule', from)
<1>1. /\ initTime \in Nat /\ Alternates(s) /\ Back(s.events) >= initTime + 2 * Horizon
  BY Iteration
<1>2. Horizon \in Nat /\ TrotOffset \in Nat
  BY HandoverAssumption
<1>3. s \in Schedules /\ WellFormed(s) /\ Back(s.events) \in Int
  <2>1. s \in Schedules /\ WellFormed(s)
    BY <1>1 DEF Alternates
  <2> QED BY <2>1, ScheduleIs
<1>4. Back(s.events) >= initTime /\ Back(s.events) \in Nat
  BY <1>1, <1>2, <1>3
<1>5. PhasesIn(s, Whole)
  <2>1. initTime - Horizon \in Int /\ initTime + 2 * Horizon \in Int
    BY <1>1, <1>2
  <2>2. /\ schedule \in Schedules /\ WellFormed(schedule)
        /\ template \in {StanceTemplate, TrotTemplate, DefaultTemplate}
    BY DEF HandoverInv, ScheduleInv, Alternates
  <2>3. template \in Templates /\ TemplateIn(template, Whole)
    BY <2>2, GaitsTurn, GaitsWhole
  <2> QED BY <2>1, <2>2, <2>3, ExtendPhases
<1>6. ASSUME schedule' = s
      PROVE  /\ PhasesIn(schedule', Whole)
             /\ \E from \in Nat : /\ initTime <= from /\ from <= Back(schedule'.events)
                                  /\ SameUntil(s, schedule', from)
  <2>1. SameUntil(s, s, Back(s.events))
    BY <1>3, LeftAlone
  <2> QED BY <1>4, <1>5, <1>6, <2>1
<1>7. ASSUME NEW tpl \in {StanceTemplate, TrotTemplate}, NEW start \in Nat, start >= initTime,
             MayBegin(s, start, LowerBound(s.events, start)), Insert(s, tpl, start)
      PROVE  /\ PhasesIn(schedule', Whole)
             /\ \E from \in Nat : /\ initTime <= from /\ from <= Back(schedule'.events)
                                  /\ SameUntil(s, schedule', from)
  <2>1. schedule' = InsertTemplate(s, tpl, start, initTime + Horizon)
    BY <1>7 DEF Insert
  <2>2. initTime + Horizon \in Int /\ start \in Int
    BY <1>1, <1>2
  <2>3. PhasesIn(schedule', Whole) /\ SameUntil(s, schedule', start) /\ start <= Back(schedule'.events)
    BY <1>3, <1>5, <1>7, <2>1, <2>2, GaitBegins
  <2> QED BY <1>1, <1>7, <2>3
<1>8. /\ InsertTimer(s, initTime) \in Nat /\ InsertTimer(s, initTime) >= initTime
      /\ MayBegin(s, InsertTimer(s, initTime), LowerBound(s.events, InsertTimer(s, initTime)))
  BY <1>1, <1>3, <1>4, TimerBegins
<1>9. ChangeGait(s)
  BY DEF ModifyReferences
<1>10. CASE schedule' = s
  BY <1>5, <1>6, <1>10
<1>11. CASE Insert(s, StanceTemplate, InsertTimer(s, initTime))
  BY <1>5, <1>7, <1>8, <1>11
<1>12. CASE Insert(s, TrotTemplate, InsertTimer(s, initTime))
  BY <1>5, <1>7, <1>8, <1>12
<1>13. CASE /\ Insert(s, TrotTemplate, initTime + TrotOffset)
            /\ cutSwing' = (cutSwing \/ ModeAt(s, initTime + TrotOffset) # STANCE)
  <2>1. ModeAt(s, initTime + TrotOffset) = STANCE
    BY <1>13
  <2>2. initTime + TrotOffset \in Nat /\ initTime + TrotOffset >= initTime
    BY <1>1, <1>2
  <2>3. MayBegin(s, initTime + TrotOffset, LowerBound(s.events, initTime + TrotOffset))
    BY <2>1 DEF ModeAt, MayBegin
  <2> QED BY <1>5, <1>7, <1>13, <2>2, <2>3
<1> QED BY <1>9, <1>10, <1>11, <1>12, <1>13 DEF ChangeGait

-----------------------------------------------------------------------------
(* The invariant holds.                                                    *)
LEMMA PlanExists ==
  ASSUME HandoverInv, published # NoPlan
  PROVE  /\ Alternates(published) /\ initTime \in Nat /\ MaxLag \in Nat /\ Horizon \in Nat
         /\ Back(published.events) \in Int /\ Back(published.events) >= initTime + Horizon
<1>1. PICK t \in Nat : MadeAt(t)
  BY DEF HandoverInv, PlanInv
<1>2. /\ Alternates(published) /\ t <= initTime /\ initTime <= t + MaxLag
      /\ Back(published.events) >= t + 2 * Horizon
  BY <1>1 DEF MadeAt
<1>3. initTime \in Nat
  BY <1>2 DEF HandoverInv, ClockInv
<1>4. MaxLag \in Nat /\ Horizon \in Nat /\ MaxLag <= Horizon
  BY HandoverAssumption, LagAssumption
<1>5. Back(published.events) \in Int
  BY <1>2, ScheduleIs DEF Alternates
<1> QED BY <1>2, <1>3, <1>4, <1>5

LEMMA NoPlanIs ==
  ASSUME HandoverInv, published = NoPlan
  PROVE  initTime = -1 \/ mpcPc = "assign"
<1>1. ASSUME NEW t \in Nat, MadeAt(t) PROVE FALSE
  <2>1. Len(NoPlan.events) >= 1
    BY <1>1 DEF MadeAt, Alternates, WellFormed
  <2> QED BY <2>1 DEF NoPlan
<1> QED BY <1>1 DEF HandoverInv, PlanInv

LEMMA SwingPairs ==
  ASSUME NEW s, Alternates(s), NEW leg \in Leg
  PROVE  Pairs(Swings(s, leg)) /\ Apart(Swings(s, leg))
<1>1. s \in Schedules /\ WellFormed(s)
  BY DEF Alternates
<1>2. Pairs(Swings(s, leg))
  BY <1>1, SwingIs DEF SwingOf, Pairs
<1>3. Apart(Swings(s, leg))
  BY SwingsApart DEF Apart
<1> QED BY <1>2, <1>3

LEMMA SwingsWholeIn ==
  ASSUME NEW s \in Schedules, WellFormed(s), PhasesIn(s, Whole), NEW leg \in Leg,
         NEW w \in Swings(s, leg)
  PROVE  w[2] - w[1] >= SwingTime
<1>1. PICK i \in Nat : SwingOf(s, leg, w, i)
  BY SwingIs
<1>2. i \in 2..Len(s.events) /\ w[1] = s.events[i - 1] /\ w[2] = s.events[i] /\ s.modes[i] # STANCE
  BY <1>1 DEF SwingOf
<1>3. <<s.modes[i], s.events[i] - s.events[i - 1]>> \in Whole
  BY <1>2 DEF PhasesIn
<1> QED BY <1>2, <1>3 DEF Whole

LEMMA SeenStarts == Init => SeenInv
<1> SUFFICES ASSUME Init PROVE SeenInv
  OBVIOUS
<1>1. NothingSeen
  BY DEF Init, NothingSeen, Swings, NoPlan
<1>2. flags \in [Leg -> BOOLEAN] /\ DOMAIN lifted = Leg
  BY DEF Init, Stand
<1>3. published = NoPlan /\ schedule = InitialSchedule
  BY DEF Init, NoPlan
<1>4. PhasesIn(schedule, Whole) /\ PhasesIn(published, Whole)
  BY <1>3, InitialWhole
<1>5. SwingsSeenWhole
  BY DEF Init, SwingsSeenWhole
<1>6. /\ cutSwing \in BOOLEAN /\ sure \in BOOLEAN /\ template = DefaultTemplate
      /\ firstStartMpc = FALSE
  BY DEF Init
<1> QED BY <1>1, <1>2, <1>3, <1>4, <1>5, <1>6 DEF SeenInv

(* Steps that change nothing that is seen.                                 *)
LEMMA SeenKept ==
  ASSUME SeenInv, UNCHANGED <<published, schedule, template, initTime, cutSwing, seenVars, flags>>,
         LastRead' = LastRead, (mpcPc = "assign") <=> (mpcPc' = "assign"),
         firstStartMpc => firstStartMpc', published = NoPlan => ~firstStartMpc',
         ~firstStartMpc' /\ published # NoPlan => mpcPc' # "assign" /\ mpcPc' # "idle"
  PROVE  SeenInv'
<1>1. UNCHANGED <<sure, lifted, lasted>>
  BY DEF seenVars
<1>2. ASSUME NEW t \in Nat, Planned(t) PROVE Planned(t)'
  <2>1. \A leg \in Leg : Shown(leg, t)'
    BY <1>1, <1>2 DEF Planned, Shown
  <2> QED BY <1>1, <1>2, <2>1 DEF Planned
<1>3. ~firstStartMpc' => NothingSeen'
  BY <1>1 DEF SeenInv, NothingSeen
<1>4. SwingsSeenWhole'
  BY <1>1 DEF SeenInv, SwingsSeenWhole
<1>5. \/ cutSwing'
      \/ /\ PhasesIn(schedule', Whole) /\ PhasesIn(published', Whole)
         /\ published' # NoPlan => \E t \in Nat : Planned(t)'
  BY <1>2 DEF SeenInv
<1> QED BY <1>1, <1>3, <1>4, <1>5 DEF SeenInv

LEMMA SeenBegin ==
  ASSUME HandoverInv, SeenInv, BeginIteration PROVE SeenInv'
<1>1. /\ mpcPc = "idle" /\ mpcPc' = "assign" /\ now # initTime /\ initTime' = now
      /\ UNCHANGED <<published, schedule, template, firstStartMpc, cutSwing, sure, lifted, lasted,
                     flags, rtPc, now>>
  BY DEF BeginIteration, handed, rtVars, seenVars
<1>2. LastRead' = LastRead /\ NothingSeen' = NothingSeen /\ SwingsSeenWhole' = SwingsSeenWhole
  BY <1>1 DEF LastRead, NothingSeen, SwingsSeenWhole
<1>3. ASSUME published # NoPlan, NEW t \in Nat, Planned(t) PROVE Planned(t)'
  <2>1. t = initTime
    BY <1>1, <1>3 DEF Planned
  <2>2. initTime <= now /\ now <= initTime + MaxLag /\ now \in Nat
    BY <2>1 DEF HandoverInv, ClockInv
  <2>3. t <= initTime' /\ initTime' <= t + MaxLag /\ t < initTime' /\ LastRead' <= initTime'
    BY <1>1, <2>1, <2>2 DEF LastRead
  <2>4. \A leg \in Leg : Shown(leg, t)'
    BY <1>1, <1>2, <1>3 DEF Planned, Shown
  <2>5. \E from \in Nat : /\ t <= from /\ from <= Back(schedule'.events)
                          /\ SameUntil(published', schedule', from)
    BY <1>1, <1>3 DEF Planned
  <2> QED BY <1>1, <2>3, <2>4, <2>5 DEF Planned
<1>4. \/ cutSwing'
      \/ /\ PhasesIn(schedule', Whole) /\ PhasesIn(published', Whole)
         /\ published' # NoPlan => \E t \in Nat : Planned(t)'
  BY <1>1, <1>3 DEF SeenInv
<1> QED BY <1>1, <1>2, <1>4 DEF SeenInv

(* The next plan is published.                                             *)
LEMMA SeenPublish ==
  ASSUME HandoverInv, SeenInv, ModifyReferences PROVE SeenInv'
<1> DEFINE s == Extend(schedule, template, initTime - Horizon, initTime + 2 * Horizon)
<1>1. /\ initTime \in Nat /\ published' = s /\ mpcPc' = "times" /\ Alternates(s)
      /\ s.events[1] >= 0
  BY Iteration
<1>2. /\ mpcPc = "assign"
      /\ UNCHANGED <<initTime, firstStartMpc, sure, lifted, lasted, flags, rtPc, now>>
  BY DEF ModifyReferences, rtVars, seenVars
<1>3. LastRead' = LastRead
  BY <1>2 DEF LastRead
<1>4. s \in Schedules /\ WellFormed(s) /\ s # NoPlan
  <2>1. s \in Schedules /\ WellFormed(s)
    BY <1>1 DEF Alternates
  <2>2. Len(NoPlan.events) = 0
    BY DEF NoPlan
  <2>3. Len(s.events) \in Nat \ {0}
    BY <2>1, ScheduleIs
  <2> QED BY <2>1, <2>2, <2>3
<1>5. /\ Horizon \in Nat \ {0} /\ initTime - Horizon \in Int /\ initTime + 2 * Horizon \in Int
      /\ MaxLag \in Nat
  BY <1>1, HandoverAssumption
<1>6. /\ schedule \in Schedules /\ WellFormed(schedule)
      /\ template \in {StanceTemplate, TrotTemplate, DefaultTemplate}
  BY DEF HandoverInv, ScheduleInv, Alternates
<1>7. template \in Templates /\ Slow(template)
  BY <1>6, GaitsTurn, GaitsSlow
<1>8. published = NoPlan <=> ~firstStartMpc
  BY <1>2 DEF SeenInv
<1>9. ASSUME ~firstStartMpc' PROVE NothingSeen'
  <2>1. /\ NothingSeen /\ schedule = InitialSchedule /\ template = DefaultTemplate
    BY <1>2, <1>8, <1>9 DEF SeenInv
  <2>2. PICK o \in Nat, m \in Nat, n \in Nat :
          ExtendShape(schedule, initTime - Horizon, template, s, o, m, n)
    BY <1>5, <1>6, <1>7, ExtendIs
  <2>5. o \in Nat /\ m \in Nat /\ n \in Nat
    BY <2>2
  <2> HIDE DEF s
  <2>3. ASSUME NEW leg \in Leg, NEW w \in Swings(s, leg) PROVE FALSE
    <3>1. PICK i \in Nat : SwingOf(s, leg, w, i)
      BY <1>4, SwingIs
    <3>2. i \in 2..Len(s.events) /\ s.modes[i] # STANCE
      BY <3>1 DEF SwingOf
    <3>3. /\ o \in 0..(Len(schedule.events) - 1) /\ m = Len(schedule.events) - o
          /\ Len(s.events) = m + n /\ n \in Nat
      BY <2>2 DEF ExtendShape
    <3>4. /\ \A k \in 1..m : s.modes[k] = IF k = 1 THEN STANCE ELSE schedule.modes[o + k]
          /\ \A k \in 1..n : s.modes[m + k] = TileMode(template, k)
      BY <2>2 DEF ExtendShape
    <3>5. Len(schedule.events) \in Nat /\ Len(schedule.modes) = Len(schedule.events) + 1
      BY <1>6, ScheduleIs
    <3>6. CASE i <= m
      <4>1. i \in 1..m /\ i # 1 /\ o + i \in 1..Len(schedule.modes)
        BY <3>2, <3>3, <3>5, <3>6
      <4>2. schedule.modes[o + i] = STANCE
        BY <2>1, <4>1, GaitAssumption
      <4> QED BY <3>2, <3>4, <4>1, <4>2
    <3>7. CASE i > m
      <4> DEFINE k == i - m
      <4> HIDE DEF k
      <4>1. k \in 1..n /\ m + k = i /\ k \in Nat \ {0}
        <5>1. i \in Nat /\ i <= m + n
          BY <3>2, <3>3
        <5> QED BY <2>5, <3>7, <5>1 DEF k
      <4>2. PICK p \in 1..Len(template.modes) : TileMode(template, k) = template.modes[p]
        <5>1. \E p \in 1..Len(template.modes) :
                /\ TileMode(template, k) = template.modes[p]
                /\ TileEvent(template, 0, k) - TileStart(template, 0, k)
                     = template.times[p + 1] - template.times[p]
          BY <1>7, <4>1, TilePhase
        <5> QED BY <5>1
      <4>3. template.modes[p] = STANCE
        BY <2>1, <4>2, GaitAssumption
      <4> QED BY <3>2, <3>4, <4>1, <4>2, <4>3
    <3> QED BY <3>2, <3>3, <3>5, <3>6, <3>7
  <2>4. \A leg \in Leg : Swings(published', leg) = {}
    BY <1>1, <2>3
  <2> QED BY <1>2, <2>1, <2>4 DEF NothingSeen
<1>10. SwingsSeenWhole'
  <2>1. cutSwing => cutSwing'
    BY DEF ModifyReferences, ChangeGait
  <2> QED BY <1>2, <2>1 DEF SeenInv, SwingsSeenWhole
<1>11. cutSwing' \in BOOLEAN
  BY DEF ModifyReferences, ChangeGait, SeenInv
<1>12. ASSUME ~cutSwing'
       PROVE  /\ PhasesIn(schedule', Whole) /\ PhasesIn(published', Whole)
              /\ \E t \in Nat : Planned(t)'
  <2>1. ~cutSwing
    BY <1>12 DEF ModifyReferences, ChangeGait
  <2>2. PhasesIn(schedule, Whole) /\ (published # NoPlan => \E t \in Nat : Planned(t))
    BY <2>1 DEF SeenInv
  <2>3. /\ PhasesIn(s, Whole) /\ PhasesIn(schedule', Whole)
        /\ \E from \in Nat : /\ initTime <= from /\ from <= Back(schedule'.events)
                             /\ SameUntil(s, schedule', from)
    BY <1>12, <2>2, Asked
  <2> HIDE DEF s
  <2>4. ASSUME NEW leg \in Leg PROVE Shown(leg, initTime)'
    <3> DEFINE V == Swings(s, leg)
    <3>1. Shown(leg, initTime)' <=>
            ShownAs(V, initTime, LastRead, sure, flags[leg], lifted[leg])
      BY <1>1, <1>2, <1>3 DEF Shown
    <3>2. /\ LastRead \in Int /\ sure \in BOOLEAN /\ flags[leg] \in BOOLEAN
          /\ initTime \in Int /\ now \in Nat /\ initTime <= now
      BY <1>1, <1>2 DEF HandoverInv, ClockInv, SeenInv, LastRead
    <3> HIDE DEF V
    <3>3. CASE published = NoPlan
      <4>1. ~firstStartMpc' /\ NothingSeen'
        BY <1>2, <1>8, <1>9, <3>3
      <4>2. V = {} /\ sure /\ flags[leg] /\ lifted[leg] = -1
        BY <1>1, <1>2, <4>1 DEF NothingSeen, V, Stand
      <4> QED BY <3>1, <4>2 DEF ShownAs, SeenDown
    <3>4. CASE published # NoPlan
      <4>1. PICK t \in Nat : Planned(t)
        BY <2>2, <3>4
      <4>2. /\ t < initTime /\ initTime <= t + MaxLag /\ t \in Int
            /\ sure => LastRead <= initTime
        BY <1>2, <4>1 DEF Planned
      <4>3. PICK from \in Nat : /\ t <= from /\ from <= Back(schedule.events)
                                /\ SameUntil(published, schedule, from)
        BY <4>1 DEF Planned
      <4> DEFINE W == Swings(published, leg)
                 lower == initTime - Horizon
      <4>4. Alternates(published)
        BY <3>4, PlanExists
      <4>5. published \in Schedules /\ WellFormed(published) /\ Pairs(W) /\ Apart(W)
        BY <4>4, SwingPairs DEF Alternates
      <4>6. Pairs(V)
        BY <1>1, SwingPairs DEF V
      <4>7. Follows(W, V, from, lower)
        BY <1>5, <1>6, <1>7, <4>3, <4>5, PlanFollows DEF s, V
      <4>8. ShownAs(W, t, LastRead, sure, flags[leg], lifted[leg])
        BY <4>1 DEF Planned, Shown
      <4>9. lower <= LastRead /\ lower \in Int /\ from \in Int
        BY <1>5, <3>2 DEF LastRead
      <4> HIDE DEF W, lower
      <4>10. sure => Replaces(W, V, from, lower, t, initTime, LastRead)
        BY <4>2, <4>3, <4>5, <4>6, <4>7, <4>9 DEF Replaces
      <4>11. ShownAs(V, initTime, LastRead, sure, flags[leg], lifted[leg])
        <5>1. Renewed(W, V, from, lower, t, initTime, LastRead, sure, flags[leg], lifted[leg])
          BY <3>2, <4>2, <4>8, <4>9, <4>10 DEF Renewed
        <5> QED BY <5>1, ShownOn
      <4> QED BY <3>1, <4>11
    <3> QED BY <3>3, <3>4
  <2>5. Planned(initTime)'
    <3>1. /\ initTime' <= initTime' /\ initTime' <= initTime' + MaxLag
          /\ mpcPc' # "assign"
      BY <1>1, <1>2, <1>5
    <3>2. \E from \in Nat : /\ initTime' <= from /\ from <= Back(schedule'.events)
                            /\ SameUntil(published', schedule', from)
      BY <1>1, <1>2, <2>3
    <3> QED BY <1>2, <2>4, <3>1, <3>2 DEF Planned
  <2> QED BY <1>1, <1>2, <2>3, <2>5
<1>13. published' # NoPlan /\ mpcPc' # "assign" /\ mpcPc' # "idle"
  BY <1>1, <1>4
<1> QED BY <1>2, <1>9, <1>10, <1>11, <1>12, <1>13 DEF SeenInv

(* The flags are read.                                                     *)
LEMMA FlagIs ==
  ASSUME HandoverInv, published # NoPlan, NEW leg \in Leg
  PROVE  Contact(ModeAt(published, now), leg) <=> ~SwingNowIn(Swings(published, leg), now - 1)
<1>1. /\ Alternates(published) /\ initTime \in Nat /\ MaxLag \in Nat /\ Horizon \in Nat
      /\ Back(published.events) \in Int /\ Back(published.events) >= initTime + Horizon
  BY PlanExists
<1>2. now \in Nat /\ now <= initTime + MaxLag /\ MaxLag <= Horizon
  BY <1>1, LagAssumption DEF HandoverInv, ClockInv
<1>3. Back(published.events) >= now /\ now \in Int
  BY <1>1, <1>2
<1>4. Contact(ModeAt(published, now), leg) <=>
        ~\E w \in Swings(published, leg) : w[1] < now /\ now <= w[2]
  BY <1>1, <1>3, SwingAtTime DEF Alternates
<1>5. Pairs(Swings(published, leg))
  BY <1>1, SwingPairs
<1>6. ASSUME NEW w \in Swings(published, leg)
      PROVE  (w[1] < now /\ now <= w[2]) <=> (w[1] <= now - 1 /\ now - 1 < w[2])
  <2>1. w[1] \in Int /\ w[2] \in Int
    BY <1>5 DEF Pairs
  <2> QED BY <1>2, <2>1
<1> QED BY <1>4, <1>6 DEF SwingNowIn

LEMMA SeenRead ==
  ASSUME HandoverInv, SeenInv, ReadFlags PROVE SeenInv'
<1>1. /\ rtPc = "flags" /\ rtPc' = "times"
      /\ UNCHANGED <<published, schedule, template, initTime, mpcPc, firstStartMpc, cutSwing, now>>
  BY DEF ReadFlags, mpcVars, handed
<1>2. LastRead = now - 1 /\ LastRead' = now /\ now \in Nat
  BY <1>1 DEF LastRead, HandoverInv, ClockInv
<1>3. ASSUME NEW t \in Nat, Planned(t), \A leg \in Leg : Shown(leg, t)',
             sure' /\ mpcPc' = "assign" => LastRead' <= initTime'
      PROVE  Planned(t)'
  BY <1>1, <1>3 DEF Planned
<1>4. CASE ~firstStartMpc
  <2>1. flags' = Stand /\ UNCHANGED <<sure, lifted, lasted>> /\ NothingSeen
    BY <1>4 DEF ReadFlags, seenVars, SeenInv
  <2>2. NothingSeen'
    BY <1>1, <2>1 DEF NothingSeen
  <2>3. flags' \in [Leg -> BOOLEAN]
    BY <2>1 DEF Stand
  <2>4. SwingsSeenWhole'
    BY <1>1, <2>1 DEF SeenInv, SwingsSeenWhole
  <2>5. ASSUME published # NoPlan, NEW t \in Nat, Planned(t) PROVE Planned(t)'
    <3>1. mpcPc' # "assign"
      BY <1>1, <1>4, <2>5 DEF SeenInv
    <3>2. ASSUME NEW leg \in Leg PROVE Shown(leg, t)'
      <4>1. /\ Swings(published', leg) = {} /\ lifted'[leg] = -1
            /\ sure' /\ flags'[leg]
        BY <2>2 DEF NothingSeen, Stand
      <4>2. ShownAs(Swings(published', leg), t, LastRead', sure', flags'[leg], lifted'[leg])
        BY <4>1 DEF ShownAs, SeenDown
      <4> QED BY <4>2 DEF Shown
    <3> QED BY <1>3, <2>5, <3>1, <3>2
  <2>6. \/ cutSwing'
        \/ /\ PhasesIn(schedule', Whole) /\ PhasesIn(published', Whole)
           /\ published' # NoPlan => \E t \in Nat : Planned(t)'
    BY <1>1, <2>5 DEF SeenInv
  <2> QED BY <1>1, <2>1, <2>2, <2>3, <2>4, <2>6 DEF SeenInv
<1>5. CASE firstStartMpc /\ mpcPc = "assign"
  <2>1. /\ flags' \in [Leg -> BOOLEAN] /\ sure' = FALSE
        /\ lifted' = [leg \in Leg |-> -1] /\ lasted' = [leg \in Leg |-> 0]
    <3>1. flags' \in [Leg -> BOOLEAN] /\ Observe(flags', FALSE)
      BY <1>5 DEF ReadFlags
    <3> QED BY <3>1 DEF Observe
  <2>2. SwingsSeenWhole'
    BY <2>1 DEF SwingsSeenWhole
  <2>3. ASSUME NEW t \in Nat, Planned(t) PROVE Planned(t)'
    <3>1. ASSUME NEW leg \in Leg PROVE Shown(leg, t)'
      <4>1. lifted'[leg] = -1 /\ ~sure'
        BY <2>1
      <4>2. ShownAs(Swings(published', leg), t, LastRead', sure', flags'[leg], lifted'[leg])
        BY <4>1 DEF ShownAs
      <4> QED BY <4>2 DEF Shown
    <3> QED BY <1>3, <2>1, <2>3, <3>1
  <2>4. \/ cutSwing'
        \/ /\ PhasesIn(schedule', Whole) /\ PhasesIn(published', Whole)
           /\ published' # NoPlan => \E t \in Nat : Planned(t)'
    BY <1>1, <2>3 DEF SeenInv
  <2>5. DOMAIN lifted' = Leg /\ sure' \in BOOLEAN
    BY <2>1
  <2> QED BY <1>1, <1>5, <2>1, <2>2, <2>4, <2>5 DEF SeenInv
<1>6. CASE firstStartMpc /\ mpcPc # "assign"
  <2>1. published # NoPlan
    BY <1>6 DEF SeenInv
  <2>2. Alternates(published) /\ published \in Schedules /\ WellFormed(published)
    BY <2>1, PlanExists DEF Alternates
  <2>3. /\ flags' = FlagsOf(ModeAt(published, now)) /\ Observe(flags', TRUE)
    BY <1>6 DEF ReadFlags
  <2>4. /\ flags' \in [Leg -> BOOLEAN] /\ sure' = TRUE /\ DOMAIN lifted' = Leg
    BY <2>3 DEF Observe, FlagsOf, Contact
  <2>5. ASSUME NEW leg \in Leg
        PROVE  /\ flags'[leg] \in BOOLEAN
               /\ flags'[leg] <=> ~SwingNowIn(Swings(published, leg), now - 1)
               /\ lifted'[leg] = IF flags'[leg] \/ ~sure THEN -1
                                 ELSE IF flags[leg] THEN now ELSE lifted[leg]
               /\ lasted'[leg] = IF sure /\ flags'[leg] /\ lifted[leg] # -1
                                 THEN now - lifted[leg] ELSE 0
    <3>1. flags'[leg] <=> Contact(ModeAt(published, now), leg)
      BY <2>3 DEF FlagsOf
    <3>2. flags'[leg] <=> ~SwingNowIn(Swings(published, leg), now - 1)
      BY <2>1, <3>1, FlagIs
    <3> QED BY <2>3, <2>4, <3>2 DEF Observe
  <2>6. CASE cutSwing
    <3>1. cutSwing' /\ SwingsSeenWhole'
      BY <1>1, <2>6 DEF SwingsSeenWhole
    <3> QED BY <1>1, <1>6, <2>1, <2>4, <3>1 DEF SeenInv
  <2>7. CASE ~cutSwing
    <3>1. PICK t \in Nat : Planned(t)
      BY <2>1, <2>7 DEF SeenInv
    <3>2. PhasesIn(schedule, Whole) /\ PhasesIn(published, Whole)
      BY <2>7 DEF SeenInv
    <3>3. ASSUME NEW leg \in Leg
          PROVE  /\ Shown(leg, t)'
                 /\ lasted'[leg] # 0 =>
                      lasted'[leg] <= MaxLag \/ lasted'[leg] >= SwingTime - MaxLag
      <4> DEFINE W == Swings(published, leg)
      <4>1. Pairs(W) /\ Apart(W)
        BY <2>2, SwingPairs
      <4>2. ShownAs(W, t, now - 1, sure, flags[leg], lifted[leg])
        BY <1>2, <3>1 DEF Planned, Shown
      <4>3. sure \in BOOLEAN /\ flags[leg] \in BOOLEAN /\ t \in Int
        BY DEF SeenInv
      <4>4. \A w \in W : w[2] - w[1] >= SwingTime
        BY <2>2, <3>2, SwingsWholeIn
      <4> HIDE DEF W
      <4>5. flags'[leg] <=> ~SwingNowIn(W, now - 1)
        BY <2>5 DEF W
      <4>6. ShownAs(W, t, now, TRUE, flags'[leg], lifted'[leg])
        <5>1. Reread(W, t, now, sure, flags[leg], lifted[leg], flags'[leg], lifted'[leg])
          BY <1>2, <2>5, <4>1, <4>2, <4>3, <4>5 DEF Reread
        <5> QED BY <5>1, ShownNext
      <4>7. Shown(leg, t)'
        BY <1>1, <1>2, <2>4, <4>6 DEF Shown, W
      <4>8. ASSUME lasted'[leg] # 0
            PROVE  lasted'[leg] <= MaxLag \/ lasted'[leg] >= SwingTime - MaxLag
        <5>1. sure /\ flags'[leg] /\ lifted[leg] # -1 /\ lasted'[leg] = now - lifted[leg]
          BY <2>5, <4>8
        <5>2. ~SwingNowIn(W, now - 1)
          BY <4>5, <5>1
        <5>3. SwingTime \in Int
          BY SwingTimeIs
        <5>4. now - lifted[leg] <= MaxLag \/ now - lifted[leg] >= SwingTime - MaxLag
          BY <1>2, <4>1, <4>2, <4>3, <4>4, <5>1, <5>2, <5>3, LastedLong
        <5> QED BY <5>1, <5>4
      <4> QED BY <4>7, <4>8
    <3>4. Planned(t)'
      BY <1>1, <1>3, <1>6, <3>1, <3>3
    <3>5. SwingsSeenWhole'
      <4>1. SwingTime \in Nat
        BY SwingTimeIs
      <4>2. ASSUME NEW leg \in Leg, lasted'[leg] \in 1..(SwingTime - 1)
            PROVE  lasted'[leg] <= MaxLag \/ lasted'[leg] >= SwingTime - MaxLag
        <5>1. lasted'[leg] # 0
          BY <4>1, <4>2
        <5> QED BY <3>3, <5>1
      <4> QED BY <4>2 DEF SwingsSeenWhole
    <3> QED BY <1>1, <1>6, <2>1, <2>4, <3>2, <3>4, <3>5 DEF SeenInv
  <2> QED BY <2>6, <2>7
<1> QED BY <1>4, <1>5, <1>6

LEMMA SeenStep ==
  ASSUME HandoverInv, SeenInv, [Next]_vars PROVE SeenInv'
<1>1. CASE BeginIteration
  BY <1>1, SeenBegin
<1>2. CASE ModifyReferences
  BY <1>2, SeenPublish
<1>3. CASE ReadFlags
  BY <1>3, SeenRead
<1>4. CASE SetTimes \/ SetEvents
  <2>1. /\ mpcPc \in {"times", "events"} /\ mpcPc' \in {"events", "solve"}
        /\ UNCHANGED <<published, schedule, template, initTime, firstStartMpc, cutSwing,
                       seenVars, flags, rtPc, now>>
    BY <1>4 DEF SetTimes, SetEvents, handed, rtVars
  <2>2. LastRead' = LastRead
    BY <2>1 DEF LastRead
  <2>3. published = NoPlan => ~firstStartMpc
    BY DEF SeenInv
  <2> QED BY <2>1, <2>2, <2>3, SeenKept
<1>5. CASE Solved
  <2>1. /\ mpcPc = "solve" /\ mpcPc' = "idle" /\ firstStartMpc' = TRUE
        /\ UNCHANGED <<published, schedule, template, initTime, cutSwing,
                       seenVars, flags, rtPc, now>>
    BY <1>5 DEF Solved, handed, rtVars
  <2>2. LastRead' = LastRead
    BY <2>1 DEF LastRead
  <2>3. published # NoPlan
    <3>1. initTime # -1
      BY <2>1 DEF HandoverInv, ClockInv
    <3> QED BY <2>1, <3>1, NoPlanIs
  <2> QED BY <2>1, <2>2, <2>3, SeenKept
<1>6. CASE TakeTimes \/ TakeEvents
  <2>1. /\ rtPc \in {"times", "answer"} /\ rtPc' \in {"answer", "tick"}
        /\ UNCHANGED <<published, schedule, template, initTime, mpcPc, firstStartMpc, cutSwing,
                       seenVars, flags, now>>
    BY <1>6 DEF TakeTimes, TakeEvents, handed, mpcVars
  <2>2. LastRead' = LastRead
    BY <2>1 DEF LastRead
  <2>3. /\ published = NoPlan => ~firstStartMpc
        /\ ~firstStartMpc /\ published # NoPlan => mpcPc # "assign" /\ mpcPc # "idle"
    BY DEF SeenInv
  <2> QED BY <2>1, <2>2, <2>3, SeenKept
<1>7. CASE Tick
  <2>1. /\ rtPc = "tick" /\ rtPc' = "flags" /\ now' = now + 1
        /\ UNCHANGED <<published, schedule, template, initTime, mpcPc, firstStartMpc, cutSwing,
                       seenVars, flags>>
    BY <1>7 DEF Tick, handed, mpcVars
  <2>2. LastRead' = LastRead
    <3>1. now \in Nat
      BY DEF HandoverInv, ClockInv
    <3> QED BY <2>1, <3>1 DEF LastRead
  <2>3. /\ published = NoPlan => ~firstStartMpc
        /\ ~firstStartMpc /\ published # NoPlan => mpcPc # "assign" /\ mpcPc # "idle"
    BY DEF SeenInv
  <2> QED BY <2>1, <2>2, <2>3, SeenKept
<1>8. CASE UNCHANGED vars
  <2>1. UNCHANGED <<published, schedule, template, initTime, mpcPc, firstStartMpc, cutSwing,
                    seenVars, flags, rtPc, now>>
    BY <1>8 DEF vars, mpcVars, handed, rtVars
  <2>2. LastRead' = LastRead
    BY <2>1 DEF LastRead
  <2>3. /\ published = NoPlan => ~firstStartMpc
        /\ ~firstStartMpc /\ published # NoPlan => mpcPc # "assign" /\ mpcPc # "idle"
    BY DEF SeenInv
  <2> QED BY <2>1, <2>2, <2>3, SeenKept
<1>9. CASE Next
  BY <1>1, <1>2, <1>3, <1>4, <1>5, <1>6, <1>7, <1>9 DEF Next, Mpc, RealTime
<1> QED BY <1>8, <1>9

(* In every behaviour, with whatever gait and however often it is changed: *)
(* each swing that the contact flags read by the real-time thread show     *)
(* lasts its full time up to one iteration, or was taken back within one.  *)
THEOREM SwingsShownWhole == Spec => []SwingsSeenWhole
<1>1. Init => SeenInv
  BY SeenStarts
<1>2. HandoverInv /\ SeenInv /\ [Next]_vars => SeenInv'
  BY SeenStep
<1>3. SeenInv => SwingsSeenWhole
  BY DEF SeenInv
<1>4. Spec => []HandoverInv
  BY HandoverHolds
<1> QED BY <1>1, <1>2, <1>3, <1>4, PTL DEF Spec
=============================================================================
